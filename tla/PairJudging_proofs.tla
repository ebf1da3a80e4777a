------------------------- MODULE PairJudging_proofs -------------------------
(***************************************************************************)
(* Theorems about PairJudging, for any review, any settings and whatever   *)
(* the injection and the judge find.                                       *)
(***************************************************************************)
EXTENDS PairJudging, TLAPS, FiniteSetTheorems

Before == {"injecting", "verifying", "routing"}
Over == {"rating", "rated", "refused"}
Offered == review.defects \X review.tests

\* Nothing is recorded before the pairs are routed.
BeforeInv ==
    stage \in Before =>
        /\ queue = {} /\ held = {}
        /\ \A p \in Pair : verdict[p] = "none" /\ cause[p] = "none"

\* The pairs still to be asked or held back are pairs of unsettled defects
\* with no record; each pass leaves nothing behind.
QueueInv ==
    /\ queue \subseteq Offered /\ held \subseteq Offered /\ queue \cap held = {}
    /\ \A p \in queue \union held :
         ~Settled(p[1]) /\ verdict[p] = "none" /\ cause[p] = "none"
    /\ stage \in {"revisiting"} \union Over => held = {}
    /\ stage \in Over => queue = {}

\* A settled defect has the verdicts of its run and no others; any other has
\* none by execution, and each of its pairs is recorded or still to come.
RecordInv ==
    /\ \A d \in Defects : d \notin review.defects => ~Observed(d)
    /\ \A p \in Pair : verdict[p] = "none" \/ cause[p] = "none"
    /\ \A p \in Pair : ~Settled(p[1]) => verdict[p] \in {"none", "fails", "survives"}
    /\ stage \notin Before => \A p \in Offered :
         /\ Settled(p[1]) => verdict[p] = VerdictFrom(p)
         /\ ~Settled(p[1]) => \/ p \in queue \union held
                              \/ verdict[p] # "none" \/ cause[p] # "none"

\* A pair is left unasked only for a defect the judge found a test to catch.
SavingInv ==
    /\ \A p \in Unasked : Kills(p[1]) # {}
    /\ \A p \in Pair : cause[p] = "already_covered" =>
         coveredBy[p] # {} /\ coveredBy[p] \subseteq Kills(p[1])

\* A verdict by reading is what was said to its question.
SaidInv ==
    \A p \in Offered : verdict[p] \in {"fails", "survives"} =>
        said[QuestionOf(p)] = verdict[p]

IInv == TypeOK /\ BeforeInv /\ QueueInv /\ RecordInv /\ SavingInv /\ SaidInv
         /\ RatingIsNotRefused
-----------------------------------------------------------------------------
LEMMA PairParts ==
    \A p \in Pair : p = <<p[1], p[2]>> /\ p[1] \in Defects /\ p[2] \in Tests
  BY DEF Pair

LEMMA OfferedPairs == TypeOK => Offered \subseteq Pair
  BY JudgingAssumption DEF TypeOK, Offered, Pair, Review

LEMMA Questions ==
    ASSUME TypeOK, NEW p \in Pair PROVE QuestionOf(p) \in Question
  BY JudgingAssumption, PairParts DEF TypeOK, QuestionOf, Question, Review

\* A defect that is covered was caught: a stop is at least one.
LEMMA CoveredIsCaught ==
    ASSUME TypeOK, NEW d \in Defects, Covered(d) PROVE Kills(d) # {}
<1>1. config.stop \in Nat \ {0} BY JudgingAssumption DEF TypeOK, Covered
<1>2. ASSUME Kills(d) = {} PROVE FALSE
  BY <1>1, <1>2, FS_EmptySet DEF Covered
<1> QED BY <1>2

LEMMA InitIInv == Init => IInv
<1> SUFFICES ASSUME Init PROVE IInv
  OBVIOUS
<1>1. TypeOK
  <2>1. config \in [verify : BOOLEAN, route : BOOLEAN, width : Widths, stop : Stops]
        /\ width \in Nat \ {0}
    BY JudgingAssumption DEF Init
  <2>2. usable \in SUBSET review.tests /\ review \in Reviews BY DEF Init
  <2>3. attempt \in [Defects -> Attempt] BY DEF Init, Unobserved, Attempt
  <2> QED BY <2>1, <2>2, <2>3 DEF Init, TypeOK, Stages
<1>2. \A d \in Defects : ~Observed(d) BY DEF Init, Observed, Unobserved
<1> QED
  BY <1>1, <1>2, OfferedPairs
  DEF IInv, Init, BeforeInv, QueueInv, RecordInv, SavingInv, SaidInv, RatingIsNotRefused,
      Unasked, Before, Over

\* Injecting and verifying record nothing, and a defect that is not of the
\* review is never observed.
LEMMA InjectIInv == ASSUME IInv, Inject \/ Verify PROVE IInv'
<1> USE DEF IInv
<1>1. /\ attempt' \in [Defects -> Attempt]
      /\ \A d \in Defects : d \notin review.defects => ~Observed(d)'
  <2>1. CASE Inject
    <3>1. Unobserved \in Attempt BY DEF Unobserved, Attempt
    <3>2. Reportable \subseteq Attempt BY <3>1 DEF Reportable
    <3> QED BY <2>1, <3>2 DEF Inject, Observed, Unobserved
  <2>2. CASE Verify
    <3>1. PICK good \in SUBSET Defects :
            attempt' = [d \in Defects |-> [attempt[d] EXCEPT !.verified = d \in good]]
      BY <2>2, JudgingAssumption DEF Verify, TypeOK, Review
    <3>2. ASSUME NEW d \in Defects
          PROVE  attempt'[d] \in Attempt /\ attempt'[d].outcome = attempt[d].outcome
      <4>1. attempt[d] \in Attempt BY DEF TypeOK
      <4>2. attempt'[d] = [attempt[d] EXCEPT !.verified = d \in good] BY <3>1
      <4>3. (d \in good) \in BOOLEAN OBVIOUS
      <4> QED BY <4>1, <4>2, <4>3 DEF Attempt
    <3> QED BY <2>2, <3>1, <3>2 DEF Verify, Observed, RecordInv
  <2> QED BY <2>1, <2>2
<1>2. /\ stage' \in Stages /\ stage' # "refused" /\ stage \in Before /\ stage' \in Before
      /\ UNCHANGED <<input, said, queue, held, width, record, advice>>
  BY DEF Inject, Verify, Stages, Before
<1>3. TypeOK' BY <1>1, <1>2 DEF TypeOK, input, record, advice
<1> QED
  BY <1>1, <1>2, <1>3, OfferedPairs
  DEF BeforeInv, QueueInv, RecordInv, SavingInv, SaidInv, RatingIsNotRefused, Unasked,
      Before, Over, input, record, advice, Offered, Kills

LEMMA RouteIInv == ASSUME IInv, Route PROVE IInv'
<1> USE DEF IInv
<1> DEFINE remaining == {p \in Offered : ~Settled(p[1])}
<1>1. PICK unreachable \in SUBSET remaining :
        /\ cause' = [p \in Pair |-> IF p \in unreachable THEN "prefiltered" ELSE "none"]
        /\ held' = {p \in remaining \ unreachable : config.route /\ p \in NotWorthAsking}
        /\ queue' = (remaining \ unreachable) \ held'
  BY DEF Route, Offered
<1>2. /\ verdict' = [p \in Pair |-> IF Settled(p[1]) THEN VerdictFrom(p) ELSE "none"]
      /\ stage' = "asking" /\ stage \in Before
      /\ UNCHANGED <<input, attempt, said, width, coveredBy, advice>>
  BY DEF Route, Before
<1>3. /\ Offered' = Offered
      /\ \A d : Settled(d)' = Settled(d) /\ Observed(d)' = Observed(d)
      /\ \A p : VerdictFrom(p)' = VerdictFrom(p)
  BY <1>2 DEF Offered, Settled, Observed, VerdictFrom, input
<1>4. \A p \in Pair : VerdictFrom(p) \in {"none", "failed", "passed"}
  BY DEF VerdictFrom
<1>5. Offered \subseteq Pair BY OfferedPairs
<1>6. \A p \in Pair : /\ Settled(p[1]) => verdict'[p] = VerdictFrom(p)
                      /\ ~Settled(p[1]) => verdict'[p] = "none"
                      /\ cause'[p] \in {"none", "prefiltered"}
                      /\ cause'[p] = "prefiltered" <=> p \in unreachable
  BY <1>1, <1>2
<1>7. queue' \subseteq remaining /\ held' \subseteq remaining /\ queue' \cap held' = {}
      /\ unreachable \cap (queue' \union held') = {}
      /\ remaining \subseteq queue' \union held' \union unreachable
  BY <1>1
<1>8. TypeOK'
  <2>1. verdict' \in [Pair -> Verdicts \union {"none"}]
    BY <1>2, <1>4 DEF Verdicts
  <2>2. cause' \in [Pair -> Causes \union {"none"}] BY <1>1 DEF Causes
  <2> QED BY <1>2, <1>5, <1>7, <2>1, <2>2 DEF TypeOK, Stages, input, advice
<1>9. QueueInv'
  BY <1>2, <1>3, <1>5, <1>6, <1>7 DEF QueueInv, Over
<1>10. RecordInv'
  <2>1. \A d \in Defects : d \notin review'.defects => ~Observed(d)'
    BY <1>2, <1>3 DEF RecordInv, input
  <2> QED BY <2>1, <1>3, <1>5, <1>6, <1>7 DEF RecordInv
<1>11. SavingInv' /\ SaidInv'
  BY <1>3, <1>4, <1>5, <1>6 DEF SavingInv, SaidInv, Unasked
<1>12. BeforeInv' /\ RatingIsNotRefused'
  BY <1>2 DEF BeforeInv, RatingIsNotRefused, Before
<1> QED BY <1>8, <1>9, <1>10, <1>11, <1>12

\* A round records each pair it asks, once, with what was said to its question;
\* every other record stays as it was.
LEMMA RoundIInv == ASSUME IInv, Round PROVE IInv'
<1> USE DEF IInv
<1> DEFINE new == {q \in {QuestionOf(p) : p \in RoundPairs} : said[q] = "unasked"}
<1>1. PICK answers \in [new -> Answers] :
        said' = [q \in Question |-> IF q \in new THEN answers[q] ELSE said[q]]
  BY DEF Round
<1>2. /\ stage \in {"asking", "revisiting"}
      /\ queue' = queue \ RoundPairs /\ width' = 2 * width
      /\ UNCHANGED <<input, stage, attempt, held, coveredBy, advice>>
  BY DEF Round
<1>3. /\ Offered' = Offered
      /\ \A d : Settled(d)' = Settled(d) /\ Observed(d)' = Observed(d)
      /\ \A p : VerdictFrom(p)' = VerdictFrom(p) /\ QuestionOf(p)' = QuestionOf(p)
  BY <1>2 DEF Offered, Settled, Observed, VerdictFrom, QuestionOf, input
<1>4. Offered \subseteq Pair /\ RoundPairs \subseteq queue /\ queue \subseteq Offered
  BY OfferedPairs DEF RoundPairs, QueueInv
<1>5. ASSUME NEW p \in RoundPairs
      PROVE  /\ said'[QuestionOf(p)] \in Answers
             /\ ~Settled(p[1]) /\ verdict[p] = "none" /\ cause[p] = "none"
  <2>1. QuestionOf(p) \in Question BY <1>4, Questions
  <2>2. said[QuestionOf(p)] \in Answers \union {"unasked"} BY <2>1 DEF TypeOK
  <2>3. said'[QuestionOf(p)] \in Answers BY <1>1, <2>1, <2>2
  <2> QED BY <1>4, <2>3 DEF QueueInv
<1>6. \A p \in Pair :
        /\ p \notin RoundPairs => verdict'[p] = verdict[p] /\ cause'[p] = cause[p]
        /\ p \in RoundPairs /\ said'[QuestionOf(p)] = "unusable" =>
             verdict'[p] = "none" /\ cause'[p] = "unanswered"
        /\ p \in RoundPairs /\ said'[QuestionOf(p)] # "unusable" =>
             verdict'[p] = said'[QuestionOf(p)] /\ cause'[p] = "none"
  BY <1>5 DEF Round
<1>7. \A p \in RoundPairs : verdict'[p] \in {"none", "fails", "survives"}
                            /\ cause'[p] \in {"none", "unanswered"}
                            /\ (verdict'[p] = "none" \/ cause'[p] = "none")
                            /\ (verdict'[p] # "none" \/ cause'[p] # "none")
  BY <1>4, <1>5, <1>6 DEF Answers
<1>8. TypeOK'
  <2>1. said' \in [Question -> Answers \union {"unasked"}] BY <1>1 DEF TypeOK
  <2>2. verdict' \in [Pair -> Verdicts \union {"none"}]
    <3>1. \A p \in Pair : verdict'[p] \in Verdicts \union {"none"}
      BY <1>6, <1>7 DEF TypeOK, Verdicts
    <3> QED BY <3>1 DEF Round
  <2>3. cause' \in [Pair -> Causes \union {"none"}]
    <3>1. \A p \in Pair : cause'[p] \in Causes \union {"none"}
      BY <1>6, <1>7 DEF TypeOK, Causes
    <3> QED BY <3>1 DEF Round
  <2>4. width' \in Nat \ {0} BY <1>2 DEF TypeOK
  <2> QED BY <1>2, <2>1, <2>2, <2>3, <2>4 DEF TypeOK, input, advice
<1>9. QueueInv'
  BY <1>2, <1>3, <1>4, <1>6 DEF QueueInv, Over
<1>10. RecordInv'
  <2>1. \A d \in Defects : d \notin review'.defects => ~Observed(d)'
    BY <1>2, <1>3 DEF RecordInv, input
  <2>2. \A p \in Pair : verdict'[p] = "none" \/ cause'[p] = "none"
    BY <1>6, <1>7 DEF RecordInv
  <2>3. \A p \in Pair : ~Settled(p[1])' => verdict'[p] \in {"none", "fails", "survives"}
    BY <1>3, <1>6, <1>7 DEF RecordInv
  <2>4. ASSUME NEW p \in Offered
        PROVE  /\ Settled(p[1]) => verdict'[p] = VerdictFrom(p)
               /\ ~Settled(p[1]) => \/ p \in queue' \union held'
                                    \/ verdict'[p] # "none" \/ cause'[p] # "none"
    BY <1>2, <1>4, <1>5, <1>6, <1>7 DEF RecordInv, Before
  <2> QED BY <1>3, <2>1, <2>2, <2>3, <2>4 DEF RecordInv
<1>11. SavingInv'
  <2>1. \A p \in Pair : p \in Unasked' => p \in Unasked
    BY <1>6, <1>7 DEF Unasked
  <2>2. \A d \in Defects : Kills(d) \subseteq Kills(d)'
    <3> SUFFICES ASSUME NEW d \in Defects, NEW t \in Tests, verdict[<<d, t>>] = "fails"
                 PROVE  verdict'[<<d, t>>] = "fails"
      BY DEF Kills
    <3> QED BY <1>5, <1>6 DEF Pair
  <2>3. \A p \in Pair : cause'[p] = "already_covered" =>
          cause[p] = "already_covered" /\ coveredBy'[p] = coveredBy[p]
    BY <1>2, <1>6, <1>7
  <2>4. \A p \in Pair : p \in Unasked' => Kills(p[1])' # {}
    BY <2>1, <2>2, PairParts DEF SavingInv
  <2>5. \A p \in Pair : cause'[p] = "already_covered" =>
          coveredBy'[p] # {} /\ coveredBy'[p] \subseteq Kills(p[1])'
    BY <2>2, <2>3, PairParts DEF SavingInv
  <2> QED BY <2>4, <2>5 DEF SavingInv, Unasked
<1>12. SaidInv'
  <2> SUFFICES ASSUME NEW p \in Offered, verdict'[p] \in {"fails", "survives"}
               PROVE  said'[QuestionOf(p)] = verdict'[p]
    BY <1>3 DEF SaidInv
  <2>1. CASE p \in RoundPairs BY <2>1, <1>4, <1>6
  <2>2. CASE p \notin RoundPairs
    <3>1. said[QuestionOf(p)] = verdict'[p] BY <2>2, <1>4, <1>6 DEF SaidInv
    <3>2. QuestionOf(p) \in Question /\ QuestionOf(p) \notin new
      BY <1>1, <1>4, <3>1, Questions
    <3> QED BY <1>1, <3>1, <3>2
  <2> QED BY <2>1, <2>2
<1>13. BeforeInv' /\ RatingIsNotRefused'
  BY <1>2 DEF BeforeInv, RatingIsNotRefused, Before
<1> QED BY <1>8, <1>9, <1>10, <1>11, <1>12, <1>13

\* The end of the first pass: every pair it left, and every pair held back, is
\* recorded for a defect that was caught, or goes to the second pass.
LEMMA RevisitIInv == ASSUME IInv, Revisit PROVE IInv'
<1> USE DEF IInv
<1>1. /\ stage = "asking" /\ stage' = "revisiting"
      /\ queue' = {p \in held : Kills(p[1]) = {}} /\ held' = {}
      /\ width' = config.width
      /\ UNCHANGED <<input, attempt, said, verdict, advice>>
  BY DEF Revisit
<1>2. /\ Offered' = Offered
      /\ \A d : Settled(d)' = Settled(d) /\ Observed(d)' = Observed(d) /\ Kills(d)' = Kills(d)
      /\ \A p : VerdictFrom(p)' = VerdictFrom(p) /\ QuestionOf(p)' = QuestionOf(p)
  BY <1>1 DEF Offered, Settled, Observed, VerdictFrom, QuestionOf, Kills, input
<1>3. Offered \subseteq Pair /\ queue \subseteq Offered /\ held \subseteq Offered
      /\ queue \cap held = {}
  BY OfferedPairs DEF QueueInv
<1>4. \A p \in queue : Kills(p[1]) # {}
  BY <1>3, PairParts, CoveredIsCaught DEF Revisit
<1>5. \A p \in Pair :
        /\ p \in queue => cause'[p] = "already_covered" /\ coveredBy'[p] = Kills(p[1])
        /\ p \notin queue /\ p \in held /\ Kills(p[1]) # {} => cause'[p] = "passed_under_edit"
        /\ p \notin queue /\ ~(p \in held /\ Kills(p[1]) # {}) => cause'[p] = cause[p]
        /\ p \notin queue => coveredBy'[p] = coveredBy[p]
  BY DEF Revisit
<1>6. TypeOK'
  <2>1. cause' \in [Pair -> Causes \union {"none"}]
    <3>1. \A p \in Pair : cause'[p] \in Causes \union {"none"}
      BY <1>5 DEF TypeOK, Causes
    <3> QED BY <3>1 DEF Revisit
  <2>2. coveredBy' \in [Pair -> SUBSET Tests]
    <3>1. \A p \in Pair : coveredBy'[p] \in SUBSET Tests BY <1>5 DEF TypeOK, Kills
    <3> QED BY <3>1 DEF Revisit
  <2>3. width' \in Nat \ {0} BY <1>1, JudgingAssumption DEF TypeOK
  <2> QED BY <1>1, <1>3, <2>1, <2>2, <2>3 DEF TypeOK, Stages, input, advice
<1>7. QueueInv'
  BY <1>1, <1>2, <1>3, <1>5 DEF QueueInv, Over
<1>8. RecordInv'
  <2>1. \A d \in Defects : d \notin review'.defects => ~Observed(d)'
    BY <1>1, <1>2 DEF RecordInv, input
  <2>2. \A p \in Pair : verdict'[p] = "none" \/ cause'[p] = "none"
    BY <1>1, <1>5 DEF RecordInv, QueueInv
  <2>3. \A p \in Pair : ~Settled(p[1])' => verdict'[p] \in {"none", "fails", "survives"}
    BY <1>1, <1>2 DEF RecordInv
  <2>4. ASSUME NEW p \in Offered
        PROVE  /\ Settled(p[1]) => verdict'[p] = VerdictFrom(p)
               /\ ~Settled(p[1]) => \/ p \in queue' \union held'
                                    \/ verdict'[p] # "none" \/ cause'[p] # "none"
    BY <1>1, <1>3, <1>5 DEF RecordInv, Before
  <2> QED BY <1>2, <2>1, <2>2, <2>3, <2>4 DEF RecordInv
<1>9. SavingInv'
  <2>1. \A p \in Unasked' : Kills(p[1]) # {}
    BY <1>4, <1>5 DEF Unasked, SavingInv
  <2>2. \A p \in Pair : cause'[p] = "already_covered" =>
          coveredBy'[p] # {} /\ coveredBy'[p] \subseteq Kills(p[1])
    BY <1>4, <1>5 DEF SavingInv
  <2> QED BY <1>2, <2>1, <2>2 DEF SavingInv
<1>10. SaidInv' BY <1>1, <1>2 DEF SaidInv
<1>11. BeforeInv' /\ RatingIsNotRefused' BY <1>1 DEF BeforeInv, RatingIsNotRefused, Before
<1> QED BY <1>6, <1>7, <1>8, <1>9, <1>10, <1>11

LEMMA FinishIInv == ASSUME IInv, Finish PROVE IInv'
<1> USE DEF IInv
<1>1. /\ stage = "revisiting" /\ stage' = "rating" /\ queue' = {}
      /\ UNCHANGED <<input, attempt, said, held, width, verdict, advice>>
  BY DEF Finish
<1>2. /\ Offered' = Offered
      /\ \A d : Settled(d)' = Settled(d) /\ Observed(d)' = Observed(d) /\ Kills(d)' = Kills(d)
      /\ \A p : VerdictFrom(p)' = VerdictFrom(p) /\ QuestionOf(p)' = QuestionOf(p)
  BY <1>1 DEF Offered, Settled, Observed, VerdictFrom, QuestionOf, Kills, input
<1>3. Offered \subseteq Pair /\ queue \subseteq Offered /\ held = {}
  BY <1>1, OfferedPairs DEF QueueInv
<1>4. \A p \in queue : Kills(p[1]) # {}
  BY <1>3, PairParts, CoveredIsCaught DEF Finish
<1>5. \A p \in Pair :
        /\ p \in queue => cause'[p] = "already_covered" /\ coveredBy'[p] = Kills(p[1])
        /\ p \notin queue => cause'[p] = cause[p] /\ coveredBy'[p] = coveredBy[p]
  BY DEF Finish
<1>6. TypeOK'
  <2>1. cause' \in [Pair -> Causes \union {"none"}]
    <3>1. \A p \in Pair : cause'[p] \in Causes \union {"none"}
      BY <1>5 DEF TypeOK, Causes
    <3> QED BY <3>1 DEF Finish
  <2>2. coveredBy' \in [Pair -> SUBSET Tests]
    <3>1. \A p \in Pair : coveredBy'[p] \in SUBSET Tests BY <1>5 DEF TypeOK, Kills
    <3> QED BY <3>1 DEF Finish
  <2> QED BY <1>1, <2>1, <2>2 DEF TypeOK, Stages, input, advice
<1>7. QueueInv' BY <1>1, <1>3 DEF QueueInv
<1>8. RecordInv'
  <2>1. \A d \in Defects : d \notin review'.defects => ~Observed(d)'
    BY <1>1, <1>2 DEF RecordInv, input
  <2>2. \A p \in Pair : verdict'[p] = "none" \/ cause'[p] = "none"
    BY <1>1, <1>5 DEF RecordInv, QueueInv
  <2>3. \A p \in Pair : ~Settled(p[1])' => verdict'[p] \in {"none", "fails", "survives"}
    BY <1>1, <1>2 DEF RecordInv
  <2>4. ASSUME NEW p \in Offered
        PROVE  /\ Settled(p[1]) => verdict'[p] = VerdictFrom(p)
               /\ ~Settled(p[1]) => verdict'[p] # "none" \/ cause'[p] # "none"
    BY <1>1, <1>3, <1>5 DEF RecordInv, Before
  <2> QED BY <1>2, <2>1, <2>2, <2>3, <2>4 DEF RecordInv
<1>9. SavingInv'
  <2>1. \A p \in Unasked' : Kills(p[1]) # {}
    BY <1>4, <1>5 DEF Unasked, SavingInv
  <2>2. \A p \in Pair : cause'[p] = "already_covered" =>
          coveredBy'[p] # {} /\ coveredBy'[p] \subseteq Kills(p[1])
    BY <1>4, <1>5 DEF SavingInv
  <2> QED BY <1>2, <2>1, <2>2 DEF SavingInv
<1>10. SaidInv' BY <1>1, <1>2 DEF SaidInv
<1>11. BeforeInv' /\ RatingIsNotRefused' BY <1>1 DEF BeforeInv, RatingIsNotRefused, Before
<1> QED BY <1>6, <1>7, <1>8, <1>9, <1>10, <1>11

\* Every claim holds, so the review is rated.
LEMMA RateIInv == ASSUME IInv, Rate PROVE IInv'
<1> USE DEF IInv
<1>1. ClaimsHold
  <2>1. \A d \in Defects : Kills(d) \subseteq CaughtBy(d) BY DEF Kills, CaughtBy, Catches
  <2> QED BY <2>1, PairParts DEF SavingInv, ClaimsHold
<1>2. /\ stage = "rating" /\ stage' = "rated"
      /\ prescribed' \in SUBSET Defects /\ unobtained' \in SUBSET Defects
      /\ UNCHANGED <<input, attempt, said, queue, held, width, record>>
  BY <1>1, JudgingAssumption DEF Rate, Pending, TypeOK, Review
<1>3. TypeOK' BY <1>2 DEF TypeOK, Stages, input, record
<1> QED
  BY <1>2, <1>3
  DEF BeforeInv, QueueInv, RecordInv, SavingInv, SaidInv, RatingIsNotRefused, Unasked,
      Before, Over, input, record, Offered, Settled, Observed, VerdictFrom, QuestionOf, Kills

LEMMA StepIInv == IInv /\ [Next]_vars => IInv'
<1> SUFFICES ASSUME IInv, [Next]_vars PROVE IInv'
  OBVIOUS
<1>1. CASE UNCHANGED vars
  BY <1>1
  DEF IInv, vars, TypeOK, BeforeInv, QueueInv, RecordInv, SavingInv, SaidInv,
      RatingIsNotRefused, Unasked, Offered, Settled, Observed, VerdictFrom, QuestionOf, Kills
<1> QED
  BY <1>1, InjectIInv, RouteIInv, RoundIInv, RevisitIInv, FinishIInv, RateIInv DEF Next

LEMMA Invariance == Spec => []IInv
  BY InitIInv, StepIInv, PTL DEF Spec
-----------------------------------------------------------------------------
(* What the report rests on.                                               *)

\* Only a pair that was offered has a record, and a settled defect has none that
\* says why a pair was left.
OfferedInv ==
    \A p \in Pair :
        /\ verdict[p] # "none" => p \in Offered
        /\ cause[p] # "none" => p \in Offered /\ ~Settled(p[1])

\* The walk of a defect stops for good, and leaves the pairs that rank below all
\* it found to catch it: so every pair left names the same tests.
WalkInv ==
    /\ \A p \in Pair : cause[p] = "already_covered" =>
         /\ coveredBy[p] = Kills(p[1])
         /\ \A t \in Kills(p[1]) : Rank[<<p[1], t>>] < Rank[p]
         /\ \A q \in queue \union held : q[1] # p[1]
    /\ \A p \in queue : \A t \in Kills(p[1]) : Rank[<<p[1], t>>] < Rank[p]
    /\ stage \in Before \union {"asking"} => \A p \in Pair : cause[p] # "already_covered"

ReportInv == OfferedInv /\ WalkInv

\* Of two pairs of a defect, one asked and one not, the one asked ranks higher.
LEMMA AskedRankHigher ==
    ASSUME IInv, config.stop # NoStop, NEW p \in RoundPairs, NEW q \in queue \ RoundPairs,
           p[1] = q[1]
    PROVE  Rank[p] < Rank[q]
<1> DEFINE above(r) == {o \in queue : o[1] = r[1] /\ Rank[o] < Rank[r]}
<1>1. queue \subseteq Pair /\ p \in Pair /\ q \in Pair /\ p \in queue
  BY DEF IInv, TypeOK, RoundPairs
<1>2. Rank[p] \in Nat /\ Rank[q] \in Nat
  BY <1>1, JudgingAssumption
<1>3. ASSUME Rank[q] <= Rank[p] PROVE FALSE
  <2>1. above(q) \subseteq above(p)
    BY <1>1, <1>2, <1>3, JudgingAssumption
  <2>2. IsFiniteSet(above(p))
    <3>1. IsFiniteSet({p[1]} \X Tests)
      BY JudgingAssumption, FS_Singleton, FS_Product
    <3>2. above(p) \subseteq {p[1]} \X Tests
      BY <1>1, PairParts
    <3> QED BY <3>1, <3>2, FS_Subset
  <2>3. /\ Cardinality(above(q)) <= Cardinality(above(p)) 
        /\ Cardinality(above(p)) \in Nat /\ Cardinality(above(q)) \in Nat
    <3> HIDE DEF above
    <3> QED BY <2>1, <2>2, FS_Subset, FS_CardinalityType
  <2>4. Cardinality(above(p)) < width /\ ~(Cardinality(above(q)) < width)
    BY DEF RoundPairs, Place
  <2>5. width \in Nat
    BY DEF IInv, TypeOK
  <2> HIDE DEF above
  <2> QED BY <2>3, <2>4, <2>5
<1> QED BY <1>2, <1>3

\* Nothing is recorded at first.
LEMMA InitReport == Init => ReportInv
  BY DEF Init, ReportInv, OfferedInv, WalkInv

\* A round asks what ranks highest, so what it leaves ranks below all it found.
LEMMA RoundReport == ASSUME IInv, ReportInv, Round PROVE ReportInv'
<1>1. /\ stage \in {"asking", "revisiting"} /\ queue' = queue \ RoundPairs
      /\ UNCHANGED <<input, stage, attempt, held, coveredBy>>
  BY DEF Round
<1>2. RoundPairs \subseteq queue /\ queue \subseteq Offered /\ queue \subseteq Pair
      /\ \A p \in queue : ~Settled(p[1]) /\ cause[p] = "none"
  BY DEF RoundPairs, IInv, QueueInv, TypeOK
<1>3. \A p \in Pair :
        /\ p \notin RoundPairs => verdict'[p] = verdict[p] /\ cause'[p] = cause[p]
        /\ p \in RoundPairs => cause'[p] \in {"none", "unanswered"}
  BY <1>2 DEF Round
<1>4. Offered' = Offered /\ \A d : Settled(d)' = Settled(d)
  BY <1>1 DEF Offered, Settled, Observed, input
<1>5. OfferedInv'
  BY <1>2, <1>3, <1>4 DEF ReportInv, OfferedInv
<1>6. \A d \in Defects : (\A p \in queue : p[1] # d) => Kills(d)' = Kills(d)
  BY <1>2, <1>3 DEF Kills, Pair
<1>7. \A p \in Pair : cause'[p] = "already_covered" =>
        /\ cause[p] = "already_covered"
        /\ Kills(p[1])' = Kills(p[1])
        /\ \A q \in queue' \union held' : q[1] # p[1]
  BY <1>1, <1>2, <1>3, <1>6, PairParts DEF ReportInv, WalkInv
<1>8. ASSUME NEW p \in queue', NEW t \in Kills(p[1])' PROVE Rank[<<p[1], t>>] < Rank[p]
  <2>1. p \in queue /\ p \notin RoundPairs /\ p \in Pair
    BY <1>1, <1>2
  <2>2. CASE <<p[1], t>> \in RoundPairs
    <3>1. config.stop # NoStop
      BY <2>1, <2>2 DEF RoundPairs
    <3> QED BY <2>1, <2>2, <3>1, AskedRankHigher
  <2>3. CASE <<p[1], t>> \notin RoundPairs
    <3>1. t \in Kills(p[1])
      BY <1>3, <2>1, <2>3, <1>8, PairParts DEF Kills, Pair
    <3> QED BY <2>1, <3>1 DEF ReportInv, WalkInv
  <2> QED BY <2>2, <2>3
<1>9. stage' \in Before \union {"asking"} => \A p \in Pair : cause'[p] # "already_covered"
  BY <1>1, <1>3 DEF ReportInv, WalkInv
<1>10. WalkInv'
  BY <1>1, <1>7, <1>8, <1>9 DEF ReportInv, WalkInv
<1> QED BY <1>5, <1>10 DEF ReportInv

\* No other stage asks: the walk of a pass ends, and what it left is recorded.
LEMMA OtherReports ==
    ASSUME IInv, ReportInv, Inject \/ Verify \/ Route \/ Revisit \/ Finish \/ Rate
    PROVE  ReportInv'
<1> USE DEF IInv, ReportInv
<1>0. queue \subseteq Offered /\ held \subseteq Offered /\ Offered \subseteq Pair
      /\ \A p \in queue \union held : ~Settled(p[1])
  BY OfferedPairs DEF QueueInv
<1>1. CASE Inject \/ Verify
  <2>1. /\ stage \in Before /\ stage' \in Before
        /\ UNCHANGED <<queue, held, verdict, cause, coveredBy>>
    BY <1>1 DEF Inject, Verify, Before, record
  <2>2. \A p \in Pair : verdict'[p] = "none" /\ cause'[p] = "none"
    BY <2>1 DEF BeforeInv
  <2>3. queue' = {}
    BY <2>1 DEF BeforeInv
  <2> QED BY <2>2, <2>3 DEF OfferedInv, WalkInv
<1>2. CASE Route
  <2> DEFINE remaining == {p \in Offered : ~Settled(p[1])}
  <2>1. PICK unreachable \in SUBSET remaining :
          cause' = [p \in Pair |-> IF p \in unreachable THEN "prefiltered" ELSE "none"]
    BY <1>2 DEF Route, Offered
  <2>2. /\ verdict' = [p \in Pair |-> IF Settled(p[1]) THEN VerdictFrom(p) ELSE "none"]
        /\ queue' \subseteq remaining
        /\ UNCHANGED <<input, attempt>>
    BY <1>2 DEF Route, Offered
  <2>3. Offered' = Offered /\ \A d : Settled(d)' = Settled(d)
    BY <2>2 DEF Offered, Settled, Observed, input
  <2>4. ASSUME NEW p \in Pair, verdict'[p] # "none" PROVE p \in Offered
    <3>1. Settled(p[1]) /\ p[2] \in usable
      BY <2>2, <2>4 DEF VerdictFrom
    <3>2. p[1] \in review.defects /\ p[2] \in review.tests
      BY <3>1, PairParts DEF Settled, RecordInv, TypeOK
    <3> QED BY <3>2, PairParts DEF Offered
  <2>5. OfferedInv'
    BY <2>1, <2>3, <2>4 DEF OfferedInv
  <2>6. \A d \in Defects : ~Settled(d) => Kills(d)' = {}
    BY <2>2 DEF Kills, Pair
  <2>7. WalkInv'
    <3>1. \A p \in queue' : Kills(p[1])' = {}
      BY <1>0, <2>2, <2>6, PairParts
    <3> QED BY <2>1, <3>1 DEF WalkInv
  <2> QED BY <2>5, <2>7
<1>3. CASE Revisit \/ Finish
  <2>1. /\ UNCHANGED <<input, attempt, verdict>>
        /\ held' = {} /\ stage' \in {"revisiting", "rating"}
        /\ queue' \subseteq held
        /\ \A p \in queue' : Kills(p[1]) = {}
        /\ \A p \in queue : Covered(p[1])
    BY <1>3 DEF Revisit, Finish, QueueInv
  <2>2. \A p \in Pair :
          /\ p \in queue => cause'[p] = "already_covered" /\ coveredBy'[p] = Kills(p[1])
          /\ p \notin queue => coveredBy'[p] = coveredBy[p]
          /\ p \notin queue /\ p \notin held => cause'[p] = cause[p]
          /\ p \notin queue /\ p \in held => cause'[p] \in {"passed_under_edit", cause[p]}
    BY <1>3 DEF Revisit, Finish
  <2>3. Offered' = Offered
        /\ \A d : Settled(d)' = Settled(d) /\ Kills(d)' = Kills(d)
    BY <2>1 DEF Offered, Settled, Observed, Kills, input
  <2>4. OfferedInv'
    BY <1>0, <2>1, <2>2, <2>3 DEF OfferedInv
  <2>5. \A p \in queue : Kills(p[1]) # {}
    BY <1>0, <2>1, PairParts, CoveredIsCaught
  <2>6. ASSUME NEW p \in Pair, cause'[p] = "already_covered"
        PROVE  /\ coveredBy'[p] = Kills(p[1])
               /\ \A t \in Kills(p[1]) : Rank[<<p[1], t>>] < Rank[p]
               /\ \A q \in queue' : q[1] # p[1]
    <3>1. CASE p \in queue
      BY <2>1, <2>2, <2>5, <3>1 DEF WalkInv
    <3>2. CASE p \notin queue
      <4>1. cause[p] = "already_covered"
        BY <2>2, <2>6, <3>2
      <4> QED BY <2>1, <2>2, <3>2, <4>1 DEF WalkInv
    <3> QED BY <3>1, <3>2
  <2>7. WalkInv'
    BY <2>1, <2>3, <2>6 DEF WalkInv, Before
  <2> QED BY <2>4, <2>7
<1>4. CASE Rate
  <2>1. UNCHANGED <<input, attempt, queue, held, verdict, cause, coveredBy>>
        /\ stage = "rating" /\ stage' \in {"rated", "refused"}
    BY <1>4 DEF Rate, record
  <2>2. Offered' = Offered
        /\ \A d : Settled(d)' = Settled(d) /\ Kills(d)' = Kills(d)
    BY <2>1 DEF Offered, Settled, Observed, Kills, input
  <2> QED BY <2>1, <2>2 DEF OfferedInv, WalkInv, Before
<1> QED BY <1>1, <1>2, <1>3, <1>4

\* What the report rests on holds of every state.
LEMMA ReportInvariance == Spec => []ReportInv
<1>1. ASSUME IInv, ReportInv, UNCHANGED vars PROVE ReportInv'
  BY <1>1 DEF vars, ReportInv, OfferedInv, WalkInv, Offered, Settled, Observed, Kills
<1>2. IInv /\ ReportInv /\ [Next]_vars => ReportInv'
  BY <1>1, RoundReport, OtherReports DEF Next
<1> QED BY <1>2, InitReport, Invariance, PTL DEF Spec

\* Two disjoint sets of tests count for what they are together.
LEMMA DisjointCount ==
    ASSUME NEW A \in SUBSET Tests, NEW B \in SUBSET Tests, A \cap B = {}
    PROVE  /\ Cardinality(A \union B) = Cardinality(A) + Cardinality(B)
           /\ Cardinality(A) \in Nat /\ Cardinality(B) \in Nat
<1>1. IsFiniteSet(A) /\ IsFiniteSet(B)
  BY JudgingAssumption, FS_Subset
<1>2. Cardinality(A) \in Nat /\ Cardinality(B) \in Nat
  BY <1>1, FS_CardinalityType
<1>3. Cardinality(A \union B) = Cardinality(A) + Cardinality(B) - Cardinality(A \cap B)
  BY <1>1, FS_Union
<1>4. Cardinality(A \cap B) = 0
  BY FS_EmptySet
<1> QED BY <1>2, <1>3, <1>4

\* The tests of a defect, at the end: each is in just one of the report's counts.
LEMMA TestsAreParted ==
    ASSUME IInv, ReportInv, stage \in Over, NEW d \in review.defects
    PROVE  LET settled == TestsWith(d, {"failed", "passed"})
               answered == TestsWith(d, {"fails", "survives"})
               unanswered == TestsLeft(d, "unanswered")
               dropped == TestsLeft(d, "passed_under_edit")
               skipped == TestsLeft(d, "already_covered")
               excluded == TestsLeft(d, "prefiltered")
               all == settled \union answered \union unanswered \union dropped
                        \union skipped \union excluded
           IN  /\ all = (IF Settled(d) THEN usable ELSE review.tests)
               /\ ~Settled(d) => settled = {}
<1> USE DEF IInv, TestsWith, TestsLeft
<1>1. \A t \in Tests : <<d, t>> \in Pair /\ <<d, t>>[1] = d /\ <<d, t>>[2] = t
  BY JudgingAssumption DEF TypeOK, Review, Pair
<1>2. \A t \in Tests : <<d, t>> \in Offered <=> t \in review.tests
  BY DEF Offered
<1>3. review.tests \subseteq Tests /\ usable \subseteq review.tests
  BY JudgingAssumption DEF TypeOK, Review
<1>4. stage \notin Before /\ queue = {} /\ held = {}
  BY DEF QueueInv, Over, Before
<1>5. CASE Settled(d)
  <2>1. \A t \in Tests : cause[<<d, t>>] = "none"
    BY <1>1, <1>5 DEF ReportInv, OfferedInv
  <2>2. \A t \in review.tests : verdict[<<d, t>>] = VerdictFrom(<<d, t>>)
    BY <1>1, <1>2, <1>3, <1>4, <1>5 DEF RecordInv
  <2>3. \A t \in Tests : t \notin review.tests => verdict[<<d, t>>] = "none"
    BY <1>1, <1>2 DEF ReportInv, OfferedInv
  <2>4. \A t \in Tests :
          /\ verdict[<<d, t>>] \in {"failed", "passed"} <=> t \in usable
          /\ verdict[<<d, t>>] \notin {"fails", "survives"}
    BY <1>1, <1>3, <2>2, <2>3 DEF VerdictFrom
  <2> QED BY <1>3, <1>5, <2>1, <2>4
<1>6. CASE ~Settled(d)
  <2>1. \A t \in Tests : verdict[<<d, t>>] \in {"none", "fails", "survives"}
    BY <1>1, <1>6 DEF RecordInv
  <2>2. \A t \in Tests : t \in review.tests <=>
          verdict[<<d, t>>] # "none" \/ cause[<<d, t>>] # "none"
    BY <1>1, <1>2, <1>4, <1>6 DEF RecordInv, ReportInv, OfferedInv
  <2>3. \A t \in Tests : cause[<<d, t>>] \in Causes \union {"none"}
    BY <1>1 DEF TypeOK
  <2> QED BY <1>3, <1>6, <2>1, <2>2, <2>3 DEF Causes
<1> QED BY <1>5, <1>6
-----------------------------------------------------------------------------
\* Every variable stays in its type, in every review.
THEOREM TypeCorrect == Spec => []TypeOK
  BY Invariance, PTL DEF IInv

\* No pair is lost and none is recorded twice, whichever of the execution
\* tier, the prefilter, the routing, the ranking and the judge dealt with it.
THEOREM EveryPairRecorded == Spec => []EveryPairIsRecordedOnce
<1>1. IInv => EveryPairIsRecordedOnce
  <2> SUFFICES ASSUME IInv PROVE EveryPairIsRecordedOnce
    OBVIOUS
  <2>1. ASSUME stage \in {"rating", "rated"}, NEW p \in Offered
        PROVE  \/ verdict[p] # "none" \/ cause[p] # "none"
               \/ Settled(p[1]) /\ p[2] \notin usable
    <3>1. CASE Settled(p[1])
      <4>1. verdict[p] = VerdictFrom(p) BY <2>1, <3>1 DEF IInv, RecordInv, Before
      <4> QED BY <3>1, <4>1 DEF VerdictFrom
    <3>2. CASE ~Settled(p[1])
      BY <2>1, <3>2 DEF IInv, RecordInv, QueueInv, Before, Over
    <3> QED BY <3>1, <3>2
  <2> QED BY <2>1 DEF IInv, RecordInv, EveryPairIsRecordedOnce, Offered
<1> QED BY <1>1, Invariance, PTL

\* Routing by injection and stopping at a covered defect are free: no answer
\* to a question they skip could change the class of any criterion.
THEOREM SavingsAreFree == Spec => []SavingsMoveNoRating
<1>1. ASSUME IInv, NEW answers \in [Unasked -> Answers], NEW c \in Criteria,
             NEW v, NEW w,
             v = [p \in Pair |-> IF p \notin Unasked THEN verdict[p]
                                 ELSE IF answers[p] = "unusable" THEN "none"
                                 ELSE answers[p]],
             w = [p \in Pair |-> IF p \notin Unasked THEN cause[p]
                                 ELSE IF answers[p] = "unusable" THEN "unanswered"
                                 ELSE "none"]
      PROVE  ClassFor(v, w, c) = ClassFor(verdict, cause, c)
  <2> DEFINE enumerated == {d \in review.defects : CriterionOf[d] = c}
             covered(u) == {d \in enumerated : \E t \in Tests : Catches(u[<<d, t>>])}
             unknown(u, x) == {d \in enumerated \ covered(u) :
                \E t \in Tests : x[<<d, t>>] \in {"unanswered", "passed_under_edit"}}
  <2>1. enumerated \subseteq Defects
    BY <1>1, JudgingAssumption DEF IInv, TypeOK, Review
  <2>2. \A d \in Defects, t \in Tests : <<d, t>> \in Unasked =>
          \E s \in Tests : verdict[<<d, s>>] = "fails" /\ <<d, s>> \notin Unasked
    <3> SUFFICES ASSUME NEW d \in Defects, NEW t \in Tests, <<d, t>> \in Unasked
                 PROVE  \E s \in Tests :
                          verdict[<<d, s>>] = "fails" /\ <<d, s>> \notin Unasked
      OBVIOUS
    <3>1. Kills(d) # {} BY <1>1 DEF IInv, SavingInv
    <3>2. PICK s \in Tests : verdict[<<d, s>>] = "fails" BY <3>1 DEF Kills
    <3>3. cause[<<d, s>>] = "none" BY <1>1, <3>2 DEF IInv, RecordInv, Pair
    <3> QED BY <3>2, <3>3 DEF Unasked
  <2>3. \A d \in Defects, t \in Tests : <<d, t>> \notin Unasked =>
          v[<<d, t>>] = verdict[<<d, t>>] /\ w[<<d, t>>] = cause[<<d, t>>]
    BY <1>1 DEF Pair
  <2>4. \A d \in Defects : (\E t \in Tests : Catches(v[<<d, t>>]))
                       <=> (\E t \in Tests : Catches(verdict[<<d, t>>]))
    BY <2>2, <2>3 DEF Catches
  <2>5. covered(v) = covered(verdict) BY <2>1, <2>4
  <2>6. \A d \in enumerated \ covered(verdict), t \in Tests : <<d, t>> \notin Unasked
    <3> SUFFICES ASSUME NEW d \in enumerated, NEW t \in Tests, <<d, t>> \in Unasked
                 PROVE  d \in covered(verdict)
      OBVIOUS
    <3>1. PICK s \in Tests : verdict[<<d, s>>] = "fails" BY <2>1, <2>2
    <3> QED BY <3>1 DEF Catches
  <2>7. unknown(v, w) = unknown(verdict, cause)
    <3>1. \A d \in enumerated \ covered(verdict), t \in Tests : w[<<d, t>>] = cause[<<d, t>>]
      BY <2>1, <2>3, <2>6
    <3> HIDE DEF covered, enumerated
    <3> QED BY <2>5, <3>1
  <2> HIDE DEF enumerated, covered, unknown
  <2>8. \A u, x : ClassFor(u, x, c) =
          IF enumerated = {} THEN "no_plausible_defect"
          ELSE IF covered(u) = enumerated THEN "strongly_supported"
          ELSE IF covered(u) # {} THEN "partially_supported"
          ELSE IF unknown(u, x) # {} THEN "indeterminate"
          ELSE "unsupported"
    BY DEF ClassFor, enumerated, covered, unknown
  <2> QED BY <2>5, <2>7, <2>8
<1>2. IInv => SavingsMoveNoRating
  BY <1>1 DEF SavingsMoveNoRating
<1> QED BY <1>2, Invariance, PTL

\* No criterion is said to be known by execution on the strength of an edit
\* nobody verified.
THEOREM ExecutionVerified == Spec => []ExecutionIsVerified
<1>1. IInv => ExecutionIsVerified
  <2> SUFFICES ASSUME IInv, NEW d \in review.defects, KnownByExecution(d), ~Settled(d)
               PROVE  FALSE
    BY DEF ExecutionIsVerified
  <2>1. d \in Defects BY JudgingAssumption DEF IInv, TypeOK, Review
  <2>2. \A t \in Tests : verdict[<<d, t>>] \in {"none", "fails", "survives"}
    BY <2>1 DEF IInv, RecordInv, Pair
  <2> QED BY <2>2 DEF KnownByExecution, CaughtBy, Catches
<1> QED BY <1>1, Invariance, PTL

\* What a pair left unasked rests on is always recorded.
THEOREM NeverRefused == Spec => []RatingIsNotRefused
  BY Invariance, PTL DEF IInv

\* One question never has two answers in a review.
THEOREM OneAnswer == Spec => []OneAnswerPerQuestion
<1>1. IInv => OneAnswerPerQuestion
  BY DEF IInv, SaidInv, OneAnswerPerQuestion, Offered
<1> QED BY <1>1, Invariance, PTL

\* The report accounts for every pair, and the line of a covered defect is true
\* of each pair it stands for: the counts are those of disjoint sets, and the walk
\* leaves only pairs ranked below all it found.
THEOREM ReportIsWhole == Spec => []ReportAccountsForEveryPair
<1>1. ASSUME IInv, ReportInv PROVE ReportAccountsForEveryPair
  <2>1. SUFFICES ASSUME stage \in {"rating", "rated"}, NEW d \in review.defects
        PROVE  LET counts == PairDisposition(d)
                   excluded == Listed(d) \ TestsLeft(d, "unanswered")
                   skipped == TestsLeft(d, "already_covered")
               IN  /\ counts.settled + counts.asked + counts.dropped + counts.skipped
                         + Cardinality(excluded)
                         = Cardinality(IF Settled(d) THEN usable ELSE review.tests)
                   /\ NotCounted(d) => counts.settled = 0
                   /\ skipped # {} =>
                         LET line == CoveredLine(d) IN
                         /\ \A t \in skipped : coveredBy[<<d, t>>] = line.by
                         /\ \A t \in line.by, rank \in line.ranks :
                               Catches(verdict[<<d, t>>]) /\ Rank[<<d, t>>] < rank
    BY DEF ReportAccountsForEveryPair
  <2> DEFINE settled == TestsWith(d, {"failed", "passed"})
             answered == TestsWith(d, {"fails", "survives"})
             unanswered == TestsLeft(d, "unanswered")
             dropped == TestsLeft(d, "passed_under_edit")
             skipped == TestsLeft(d, "already_covered")
             excluded == TestsLeft(d, "prefiltered")
             all == settled \union answered \union unanswered \union dropped
                        \union skipped \union excluded
  <2>2. /\ all = (IF Settled(d) THEN usable ELSE review.tests)
        /\ ~Settled(d) => settled = {}
    BY <1>1, <2>1, TestsAreParted DEF Over
  <2>3. \A t \in Tests : <<d, t>> \in Pair /\ <<d, t>>[1] = d
    BY <1>1, JudgingAssumption DEF IInv, TypeOK, Review, Pair
  <2>4. \A t \in Tests : verdict[<<d, t>>] = "none" \/ cause[<<d, t>>] = "none"
    BY <1>1, <2>3 DEF IInv, RecordInv
  <2>5. /\ settled \in SUBSET Tests /\ answered \in SUBSET Tests
        /\ unanswered \in SUBSET Tests /\ dropped \in SUBSET Tests
        /\ skipped \in SUBSET Tests /\ excluded \in SUBSET Tests
    BY DEF TestsWith, TestsLeft
  <2>6. /\ settled \cap answered = {}
        /\ (settled \union answered) \cap unanswered = {}
        /\ (settled \union answered \union unanswered) \cap dropped = {}
        /\ (settled \union answered \union unanswered \union dropped) \cap skipped = {}
        /\ (settled \union answered \union unanswered \union dropped \union skipped)
             \cap excluded = {}
    BY <2>4 DEF TestsWith, TestsLeft
  <2>7. Listed(d) \ TestsLeft(d, "unanswered") = excluded
    BY DEF Listed, TestsLeft
  <2>8. /\ Cardinality(all) = Cardinality(settled) + Cardinality(answered)
             + Cardinality(unanswered) + Cardinality(dropped) + Cardinality(skipped)
             + Cardinality(excluded)
        /\ Cardinality(settled) \in Nat /\ Cardinality(answered) \in Nat
        /\ Cardinality(unanswered) \in Nat /\ Cardinality(dropped) \in Nat
        /\ Cardinality(skipped) \in Nat /\ Cardinality(excluded) \in Nat
    <3> HIDE DEF settled, answered, unanswered, dropped, skipped, excluded
    <3>1. /\ Cardinality(settled \union answered)
               = Cardinality(settled) + Cardinality(answered)
          /\ Cardinality(settled) \in Nat /\ Cardinality(answered) \in Nat
      BY <2>5, <2>6, DisjointCount
    <3>2. /\ Cardinality(settled \union answered \union unanswered)
               = Cardinality(settled \union answered) + Cardinality(unanswered)
          /\ Cardinality(unanswered) \in Nat
      BY <2>5, <2>6, DisjointCount
    <3>3. /\ Cardinality(settled \union answered \union unanswered \union dropped)
               = Cardinality(settled \union answered \union unanswered)
                   + Cardinality(dropped)
          /\ Cardinality(dropped) \in Nat
      BY <2>5, <2>6, DisjointCount
    <3>4. /\ Cardinality(settled \union answered \union unanswered \union dropped
                           \union skipped)
               = Cardinality(settled \union answered \union unanswered \union dropped)
                   + Cardinality(skipped)
          /\ Cardinality(skipped) \in Nat
      BY <2>5, <2>6, DisjointCount
    <3>5. /\ Cardinality(all)
               = Cardinality(settled \union answered \union unanswered \union dropped
                               \union skipped) + Cardinality(excluded)
          /\ Cardinality(excluded) \in Nat
      BY <2>5, <2>6, DisjointCount
    <3> QED BY <3>1, <3>2, <3>3, <3>4, <3>5
  <2>9. /\ PairDisposition(d).settled = Cardinality(settled)
        /\ PairDisposition(d).asked = Cardinality(answered) + Cardinality(unanswered)
        /\ PairDisposition(d).dropped = Cardinality(dropped)
        /\ PairDisposition(d).skipped = Cardinality(skipped)
    BY DEF PairDisposition, PairCounts
  <2>10. LET counts == PairDisposition(d) IN
         counts.settled + counts.asked + counts.dropped + counts.skipped
           + Cardinality(Listed(d) \ TestsLeft(d, "unanswered"))
           = Cardinality(IF Settled(d) THEN usable ELSE review.tests)
    <3> HIDE DEF settled, answered, unanswered, dropped, skipped, excluded
    <3>1. Cardinality(IF Settled(d) THEN usable ELSE review.tests) = Cardinality(all)
      BY <2>2
    <3>2. Cardinality(Listed(d) \ TestsLeft(d, "unanswered")) = Cardinality(excluded)
      BY <2>7
    <3> HIDE DEF all
    <3> QED BY <2>8, <2>9, <3>1, <3>2
  <2>11. NotCounted(d) => PairDisposition(d).settled = 0
    <3>1. NotCounted(d) => settled = {}
      BY <2>2 DEF NotCounted, Settled
    <3> QED BY <2>9, <3>1, FS_EmptySet
  <2>12. ASSUME skipped # {}
         PROVE  LET line == CoveredLine(d) IN
                /\ \A t \in skipped : coveredBy[<<d, t>>] = line.by
                /\ \A t \in line.by, rank \in line.ranks :
                      Catches(verdict[<<d, t>>]) /\ Rank[<<d, t>>] < rank
    <3>1. \A t \in skipped :
            /\ coveredBy[<<d, t>>] = Kills(d)
            /\ \A u \in Kills(d) : Rank[<<d, u>>] < Rank[<<d, t>>]
      BY <1>1, <2>3 DEF ReportInv, WalkInv, TestsLeft
    <3>2. CoveredLine(d).by = Kills(d)
      <4> DEFINE first == CHOOSE t \in skipped : TRUE
      <4>1. first \in skipped
        BY <2>12
      <4>2. CoveredLine(d).by = coveredBy[<<d, first>>]
        BY DEF CoveredLine
      <4> HIDE DEF first
      <4> QED BY <3>1, <4>1, <4>2
    <3>3. CoveredLine(d).ranks = {Rank[<<d, t>>] : t \in skipped}
      BY DEF CoveredLine
    <3> QED BY <3>1, <3>2, <3>3 DEF Kills, Catches
  <2> QED BY <2>10, <2>11, <2>12
<1> QED BY <1>1, Invariance, ReportInvariance, PTL
=============================================================================
