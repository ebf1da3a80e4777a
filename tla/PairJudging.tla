----------------------------- MODULE PairJudging -----------------------------
(***************************************************************************)
(* How a review decides which tests catch which defects, and what it makes *)
(* of the answers: pipeline._run_execution_tier and the stages after it.   *)
(*                                                                         *)
(* Each defect may first be injected into the code and the usable tests    *)
(* run against it.  What that settles is a verdict by execution.  The      *)
(* other pairs of a defect and a test go to the judge (Jev, then a model), *)
(* less the ones the prefilter excludes, the ones the injection makes not  *)
(* worth asking, and the ones ranked below enough tests that catch the     *)
(* defect already.  Every criterion is then rated from the verdicts, and   *)
(* a test is recommended for each defect no test catches.                  *)
(*                                                                         *)
(* A question is a defect's content and a test; it has one answer, which   *)
(* is carried from a continued run, asked, or replayed.                    *)
(***************************************************************************)
EXTENDS Integers, FiniteSets

CONSTANTS
    Defects, Tests, Criteria,
    CriterionOf,     \* the criterion each defect is a way of failing
    Texts,           \* what a defect may say: part of the question
    Rank,            \* the place of each pair among its defect's pairs, by similarity
    Reviews,         \* the reviews there may be: [defects, tests, text]
    Widths,          \* the values of `tests_per_batch`
    Stops, NoStop,   \* the values of `stop_after_kills`; NoStop is None
    Replies,         \* what Jev's reply may hold, in thousandths
    JevFailsAt, JevSurvivesAt,
    Priors,          \* the verdicts by reading a continued run may have left
    MaxPrefiltered   \* bound: how many pairs the prefilter may exclude

Pair == Defects \X Tests
Question == Texts \X Tests
Review == [defects : SUBSET Defects, tests : SUBSET Tests, text : [Defects -> Texts]]

ASSUME JudgingAssumption ==
    /\ CriterionOf \in [Defects -> Criteria]
    /\ IsFiniteSet(Tests)
    /\ Rank \in [Pair -> Nat]
    /\ Reviews \subseteq Review
    /\ Widths \subseteq Nat \ {0}
    /\ Stops \ {NoStop} \subseteq Nat \ {0}
    /\ NoStop \notin Nat
    /\ Priors \subseteq [Question -> {"fails", "survives", "none"}]
    /\ MaxPrefiltered \in Nat

Stages == {"injecting", "verifying", "routing", "asking", "revisiting", "rating",
           "rated", "refused"}

\* What the judge may answer: the test would fail, or not, or nothing usable.
Answers == {"fails", "survives", "unusable"}

\* A verdict by reading, or by execution.
Verdicts == {"fails", "survives", "failed", "passed"}
Catches(v) == v \in {"fails", "failed"}

Causes == {"prefiltered", "unanswered", "passed_under_edit", "already_covered"}

\* `observed` attempts are the killed and the survived ones.
Attempt == [outcome : {"killed", "survived", "unobserved"},
            killing : SUBSET Tests, verified : BOOLEAN]
Unobserved == [outcome |-> "unobserved", killing |-> {}, verified |-> FALSE]

VARIABLES
    review,      \* the defects, the tests and what the defects say
    config,      \* verify_edits, route_pairs, tests_per_batch, stop_after_kills
    usable,      \* the tests the control run found passing
    prior,       \* the verdicts carried: those whose key is that of a question
    stage,
    attempt,     \* the MutationAttempt of each defect
    said,        \* what the judge answers to each question, once asked
    queue,       \* the pairs this pass has yet to ask
    held,        \* held_back
    width,       \* how many of a defect's tests the next round asks
    verdict,     \* the PairVerdict of each pair, or "none"
    cause,       \* why an UnjudgedPair was not judged, or "none"
    coveredBy,   \* its covered_by
    prescribed,  \* the defects a test is recommended for
    unobtained   \* the defects no recommendation came back for

vars == <<review, config, usable, prior, stage, attempt, said, queue, held, width, verdict,
          cause, coveredBy, prescribed, unobtained>>
input == <<review, config, usable, prior>>
record == <<verdict, cause, coveredBy>>
advice == <<prescribed, unobtained>>

Init ==
    /\ review \in Reviews
    /\ config \in [verify : BOOLEAN, route : BOOLEAN, width : Widths, stop : Stops]
    /\ usable \in SUBSET review.tests
    /\ prior \in Priors
    /\ stage = "injecting"
    /\ attempt = [d \in Defects |-> Unobserved]
    /\ said = [q \in Question |-> "unasked"]
    /\ queue = {} /\ held = {} /\ width = config.width
    /\ verdict = [p \in Pair |-> "none"]
    /\ cause = [p \in Pair |-> "none"]
    /\ coveredBy = [p \in Pair |-> {}]
    /\ prescribed = {} /\ unobtained = {}
-----------------------------------------------------------------------------
(* The execution tier.                                                     *)

\* What run_mutations may report of a defect: a kill names a usable test that
\* went red, and nothing is observed when no test is usable.
Reportable ==
    IF usable = {} THEN {Unobserved}
    ELSE {a \in Attempt : /\ ~a.verified
                          /\ a.killing \subseteq usable
                          /\ a.outcome = "killed" <=> a.killing # {}}

\* The tests are run only if something would come of it (decide_execution).
Inject ==
    /\ stage = "injecting"
    /\ attempt' \in [Defects -> Reportable]
    /\ \A d \in Defects : d \notin review.defects => attempt'[d] = Unobserved
    /\ config.verify \/ config.route \/ \A d \in Defects : attempt'[d] = Unobserved
    /\ stage' = "verifying"
    /\ UNCHANGED <<input, said, queue, held, width, record, advice>>

Observed(d) == attempt[d].outcome \in {"killed", "survived"}

\* verify_attempts: a model says of each observed edit whether it makes the
\* defect true.
Verify ==
    /\ stage = "verifying"
    /\ \E good \in SUBSET {d \in review.defects : Observed(d) /\ config.verify} :
         attempt' = [d \in Defects |-> [attempt[d] EXCEPT !.verified = d \in good]]
    /\ stage' = "routing"
    /\ UNCHANGED <<input, said, queue, held, width, record, advice>>

Settled(d) == Observed(d) /\ attempt[d].verified

\* verdicts_from: a settled defect has a verdict for every test that was run.
VerdictFrom(p) ==
    IF p[2] \notin usable THEN "none"
    ELSE IF p[2] \in attempt[p[1]].killing THEN "failed" ELSE "passed"

\* pairs_not_worth_asking: the edit was not verified, but some test failed
\* under it and this one did not.
NotWorthAsking ==
    {p \in Pair : /\ attempt[p[1]].outcome = "killed"
                  /\ ~Settled(p[1])
                  /\ p[2] \in usable \ attempt[p[1]].killing}
-----------------------------------------------------------------------------
(* The judge.                                                              *)

\* Mutant: an observed attempt counts as a settled one.
RouteObserved ==
    LET offered == {p \in review.defects \X review.tests : ~Observed(p[1])} IN
    /\ stage = "routing"
    /\ verdict' = [p \in Pair |-> IF Observed(p[1]) THEN VerdictFrom(p) ELSE "none"]
    /\ queue' = offered
    /\ stage' = "asking"
    /\ UNCHANGED <<input, attempt, said, held, width, cause, coveredBy, advice>>

\* Settled defects leave; of the other pairs the prefilter excludes a few, and
\* the routing holds some back.
Route ==
    /\ stage = "routing"
    /\ verdict' = [p \in Pair |-> IF Settled(p[1]) THEN VerdictFrom(p) ELSE "none"]
    /\ LET remaining == {p \in review.defects \X review.tests : ~Settled(p[1])} IN
       \E unreachable \in {u \in SUBSET remaining : Cardinality(u) <= MaxPrefiltered} :
         /\ cause' = [p \in Pair |-> IF p \in unreachable THEN "prefiltered" ELSE "none"]
         /\ held' = {p \in remaining \ unreachable : config.route /\ p \in NotWorthAsking}
         /\ queue' = (remaining \ unreachable) \ held'
    /\ stage' = "asking"
    /\ UNCHANGED <<input, attempt, said, width, coveredBy, advice>>

\* The tests the judge found to catch a defect.  A defect is asked about in a
\* second pass only if the first found none, so these are the pass's own.
Kills(d) == {t \in Tests : verdict[<<d, t>>] = "fails"}

Covered(d) == config.stop # NoStop /\ Cardinality(Kills(d)) >= config.stop

\* Mutant: the tests least like the defect are asked first.
PlaceFromTheEnd(p) == Cardinality({q \in queue : q[1] = p[1] /\ Rank[q] > Rank[p]})

\* Its place among the pairs of its defect that are left to ask.
Place(p) == Cardinality({q \in queue : q[1] = p[1] /\ Rank[q] < Rank[p]})

RoundPairs == {p \in queue : /\ ~Covered(p[1])
                             /\ config.stop = NoStop \/ Place(p) < width}

QuestionOf(p) == <<review.text[p[1]], p[2]>>

\* A reply is read as a probability, or the review ends with an error.
Probabilities == {reply \in Replies : reply \in 0 .. 1000}

\* Jev decides where it is sure, and elsewhere the model, which may say nothing.
Decision(probability, fails) ==
    IF probability >= JevFailsAt THEN "fails"
    ELSE IF probability <= JevSurvivesAt THEN "survives"
    ELSE fails

\* What a question may be answered with: the verdict it has, if it is carried.
Said(q) ==
    IF prior[q] # "none" THEN {prior[q]}
    ELSE {Decision(probability, fails) : probability \in Probabilities, fails \in Answers}

\* Mutant: a question put by two pairs of one round is asked twice.
RoundAskingTwice ==
    /\ stage \in {"asking", "revisiting"}
    /\ \E p \in queue : ~Covered(p[1])
    /\ \E answers \in [RoundPairs -> Answers] :
         /\ verdict' = [p \in Pair |-> IF p \in RoundPairs /\ answers[p] # "unusable"
                                       THEN answers[p] ELSE verdict[p]]
         /\ cause' = [p \in Pair |-> IF p \in RoundPairs /\ answers[p] = "unusable"
                                     THEN "unanswered" ELSE cause[p]]
    /\ queue' = queue \ RoundPairs
    /\ width' = 2 * width
    /\ UNCHANGED <<input, stage, attempt, said, held, coveredBy, advice>>

\* One round of the walk: the next tests of every defect not yet covered, each
\* distinct question carried or asked once; without a stop, one round asks
\* everything.
Round ==
    /\ stage \in {"asking", "revisiting"}
    /\ \E p \in queue : ~Covered(p[1])
    /\ LET new == {q \in {QuestionOf(p) : p \in RoundPairs} : said[q] = "unasked"} IN
       \E answers \in [new -> Answers] :
         /\ \A q \in new : answers[q] \in Said(q)
         /\ said' = [q \in Question |-> IF q \in new THEN answers[q] ELSE said[q]]
    /\ verdict' = [p \in Pair |->
         IF p \in RoundPairs /\ said'[QuestionOf(p)] # "unusable"
         THEN said'[QuestionOf(p)] ELSE verdict[p]]
    /\ cause' = [p \in Pair |->
         IF p \in RoundPairs /\ said'[QuestionOf(p)] = "unusable"
         THEN "unanswered" ELSE cause[p]]
    /\ queue' = queue \ RoundPairs
    /\ width' = 2 * width
    /\ UNCHANGED <<input, stage, attempt, held, coveredBy, advice>>

\* Mutant: the pairs held back are recorded as such, whatever the others gave.
RevisitNothing ==
    /\ stage = "asking"
    /\ \A p \in queue : Covered(p[1])
    /\ cause' = [p \in Pair |-> IF p \in queue THEN "already_covered"
                                ELSE IF p \in held THEN "passed_under_edit"
                                ELSE cause[p]]
    /\ coveredBy' = [p \in Pair |-> IF p \in queue THEN Kills(p[1]) ELSE coveredBy[p]]
    /\ queue' = {} /\ held' = {}
    /\ width' = config.width
    /\ stage' = "revisiting"
    /\ UNCHANGED <<input, attempt, said, verdict, advice>>

\* Mutant: pairs held back of a defect that was caught are dropped unrecorded.
RevisitDropping ==
    /\ stage = "asking"
    /\ \A p \in queue : Covered(p[1])
    /\ cause' = [p \in Pair |-> IF p \in queue THEN "already_covered" ELSE cause[p]]
    /\ coveredBy' = [p \in Pair |-> IF p \in queue THEN Kills(p[1]) ELSE coveredBy[p]]
    /\ queue' = {p \in held : Kills(p[1]) = {}}
    /\ held' = {}
    /\ width' = config.width
    /\ stage' = "revisiting"
    /\ UNCHANGED <<input, attempt, said, verdict, advice>>

\* The first pass is over.  What it left is covered; a defect it found no kill
\* for has the pairs held back asked after all.
Revisit ==
    /\ stage = "asking"
    /\ \A p \in queue : Covered(p[1])
    /\ cause' = [p \in Pair |->
         IF p \in queue THEN "already_covered"
         ELSE IF p \in held /\ Kills(p[1]) # {} THEN "passed_under_edit"
         ELSE cause[p]]
    /\ coveredBy' = [p \in Pair |-> IF p \in queue THEN Kills(p[1]) ELSE coveredBy[p]]
    /\ queue' = {p \in held : Kills(p[1]) = {}}
    /\ held' = {}
    /\ width' = config.width
    /\ stage' = "revisiting"
    /\ UNCHANGED <<input, attempt, said, verdict, advice>>

\* Mutant: the walk goes on while any queue has pairs left.
FinishWhenEmpty ==
    /\ stage = "revisiting"
    /\ queue = {}
    /\ stage' = "rating"
    /\ UNCHANGED <<input, attempt, said, queue, held, width, record, advice>>

Finish ==
    /\ stage = "revisiting"
    /\ \A p \in queue : Covered(p[1])
    /\ cause' = [p \in Pair |-> IF p \in queue THEN "already_covered" ELSE cause[p]]
    /\ coveredBy' = [p \in Pair |-> IF p \in queue THEN Kills(p[1]) ELSE coveredBy[p]]
    /\ queue' = {}
    /\ stage' = "rating"
    /\ UNCHANGED <<input, attempt, said, held, width, verdict, advice>>
-----------------------------------------------------------------------------
(* The rating, and the recommendations.                                    *)

CaughtBy(d) == {t \in Tests : Catches(verdict[<<d, t>>])}

\* derive_support checks what every "already covered" rests on.
ClaimsHold ==
    \A p \in Pair : cause[p] = "already_covered" =>
        coveredBy[p] # {} /\ coveredBy[p] \subseteq CaughtBy(p[1])

\* The recommendation stage is given the judge's verdicts only.
Pending == {d \in review.defects : Kills(d) = {}}

Rate ==
    /\ stage = "rating"
    /\ IF ClaimsHold
         THEN /\ stage' = "rated"
              /\ prescribed' \in SUBSET Pending
              /\ unobtained' = Pending \ prescribed'
         ELSE stage' = "refused" /\ UNCHANGED advice
    /\ UNCHANGED <<input, attempt, said, queue, held, width, record>>

\* The class the counts support: `v` and `w` are the verdicts and the causes.
ClassFor(v, w, c) ==
    LET enumerated == {d \in review.defects : CriterionOf[d] = c}
        covered == {d \in enumerated : \E t \in Tests : Catches(v[<<d, t>>])}
        unknown == {d \in enumerated \ covered :
                      \E t \in Tests : w[<<d, t>>] \in {"unanswered", "passed_under_edit"}}
    IN IF enumerated = {} THEN "no_plausible_defect"
       ELSE IF covered = enumerated THEN "strongly_supported"
       ELSE IF covered # {} THEN "partially_supported"
       ELSE IF unknown # {} THEN "indeterminate"
       ELSE "unsupported"

\* A defect's status is known by execution if the verdict that covers it is, or
\* when nothing covers it, if every verdict is and none is missing.
KnownByExecution(d) ==
    IF CaughtBy(d) # {} THEN \E t \in Tests : verdict[<<d, t>>] = "failed"
    ELSE /\ \A t \in Tests : cause[<<d, t>>] \notin {"unanswered", "passed_under_edit"}
         /\ \E t \in Tests : verdict[<<d, t>>] # "none"
         /\ \A t \in Tests : verdict[<<d, t>>] # "survives"
-----------------------------------------------------------------------------
(* What the report says of the pairs.                                      *)

\* The tests of a defect with such a verdict, and those left out for a reason.
TestsWith(d, verdicts) == {t \in Tests : verdict[<<d, t>>] \in verdicts}
TestsLeft(d, why) == {t \in Tests : cause[<<d, t>>] = why}

\* A pair that was put to the judge counts as asked, answered or not.
PairCounts(d) ==
    [asked |-> Cardinality(TestsWith(d, {"fails", "survives"}))
                 + Cardinality(TestsLeft(d, "unanswered")),
     skipped |-> Cardinality(TestsLeft(d, "already_covered"))]

\* Where a defect's pairs went.
PairDisposition(d) ==
    [settled |-> Cardinality(TestsWith(d, {"failed", "passed"})),
     asked |-> PairCounts(d).asked,
     dropped |-> Cardinality(TestsLeft(d, "passed_under_edit")),
     skipped |-> PairCounts(d).skipped]

\* An injection that was observed bears this mark unless its edit was verified.
NotCounted(d) == Observed(d) /\ ~attempt[d].verified

\* One line for each pair nobody answered about, and one for each defect that was
\* covered: it names the tests that cover it once, as the first of the pairs does.
Listed(d) == {t \in Tests : cause[<<d, t>>] \in {"prefiltered", "unanswered"}}
CoveredLine(d) ==
    LET skipped == TestsLeft(d, "already_covered")
    IN  [ranks |-> {Rank[<<d, t>>] : t \in skipped},
         by |-> coveredBy[<<d, CHOOSE t \in skipped : TRUE>>]]
-----------------------------------------------------------------------------
Next == Inject \/ Verify \/ Route \/ Round \/ Revisit \/ Finish \/ Rate

Spec == Init /\ [][Next]_vars

\* The stages follow one another, and every call comes back.
FairSpec == Spec /\ WF_vars(Next)
-----------------------------------------------------------------------------
TypeOK ==
    /\ review \in Reviews
    /\ config \in [verify : BOOLEAN, route : BOOLEAN, width : Widths, stop : Stops]
    /\ usable \in SUBSET review.tests
    /\ prior \in Priors
    /\ stage \in Stages
    /\ attempt \in [Defects -> Attempt]
    /\ said \in [Question -> Answers \union {"unasked"}]
    /\ queue \in SUBSET Pair
    /\ held \in SUBSET Pair
    /\ width \in Nat \ {0}
    /\ verdict \in [Pair -> Verdicts \union {"none"}]
    /\ cause \in [Pair -> Causes \union {"none"}]
    /\ coveredBy \in [Pair -> SUBSET Tests]
    /\ prescribed \in SUBSET Defects
    /\ unobtained \in SUBSET Defects

\* Every pair of a defect and a test ends with one record: a verdict, or the
\* reason it has none.  Only a settled defect and a test the control run set
\* aside have neither.  A pair nothing records reads as one that survived
\* (review_state.UnjudgedPair: "Recorded rather than dropped").
EveryPairIsRecordedOnce ==
    /\ \A p \in Pair : verdict[p] = "none" \/ cause[p] = "none"
    /\ stage \in {"rating", "rated"} =>
         \A p \in review.defects \X review.tests :
             \/ verdict[p] # "none"
             \/ cause[p] # "none"
             \/ Settled(p[1]) /\ p[2] \notin usable

\* The pairs that a saving left unasked.
Unasked == {p \in Pair : cause[p] \in {"passed_under_edit", "already_covered"}}

\* The report accounts for the pairs of every defect: what it says was settled,
\* asked, dropped and skipped, and the lines of what was excluded, add up to the
\* tests; nothing is settled under an injection that is not counted; and a line
\* about a covered defect names the tests that cover it for every pair it stands
\* for, each of them ranked above all of those (report._pair_disposition and
\* _pair_block; _walk_ranked: "ranked {rank} by similarity to the defect, below
\* {n} test(s) already recorded as catching it").
ReportAccountsForEveryPair ==
    stage \in {"rating", "rated"} =>
        \A d \in review.defects :
            LET counts == PairDisposition(d)
                excluded == Listed(d) \ TestsLeft(d, "unanswered")
                skipped == TestsLeft(d, "already_covered")
            IN  /\ counts.settled + counts.asked + counts.dropped + counts.skipped
                      + Cardinality(excluded)
                      = Cardinality(IF Settled(d) THEN usable ELSE review.tests)
                /\ NotCounted(d) => counts.settled = 0
                /\ skipped # {} =>
                      LET line == CoveredLine(d) IN
                      /\ \A t \in skipped : coveredBy[<<d, t>>] = line.by
                      /\ \A t \in line.by, rank \in line.ranks :
                            Catches(verdict[<<d, t>>]) /\ Rank[<<d, t>>] < rank

\* No saving moves a rating.  Whatever the judge would have answered to the
\* questions that routing and ranking left unasked, every criterion would have
\* the class it has (judge_pairs: "a saving that bought nothing must not also
\* cost the defect its judgement").
SavingsMoveNoRating ==
    stage \in {"rating", "rated"} =>
        \A answers \in [Unasked -> Answers] :
            LET v == [p \in Pair |-> IF p \notin Unasked THEN verdict[p]
                                     ELSE IF answers[p] = "unusable" THEN "none"
                                     ELSE answers[p]]
                w == [p \in Pair |-> IF p \notin Unasked THEN cause[p]
                                     ELSE IF answers[p] = "unusable" THEN "unanswered"
                                     ELSE "none"]
            IN \A c \in Criteria : ClassFor(v, w, c) = ClassFor(verdict, cause, c)

\* Execution is claimed only where an edit was run and verified: a criterion's
\* tier is the weakest of its defects', so a defect that is said to be known by
\* execution must have a settled attempt (attempt.tier_for).
ExecutionIsVerified ==
    stage \in {"rating", "rated"} =>
        \A d \in review.defects : KnownByExecution(d) => Settled(d)

\* derive_support never refuses the review it is given: the tests that a pair
\* left unasked names are recorded as catching its defect.
RatingIsNotRefused == stage # "refused"

\* Two pairs that put the same question never have different answers, in one
\* round, in two, or in the two passes (_decide_all: "Each distinct question is
\* asked once").
OneAnswerPerQuestion ==
    \A p, q \in review.defects \X review.tests :
        /\ QuestionOf(p) = QuestionOf(q)
        /\ verdict[p] \in {"fails", "survives"} /\ verdict[q] \in {"fails", "survives"}
        => verdict[p] = verdict[q]

\* Every review is rated: the walk ends, whatever is covered when.
EveryReviewIsRated == <>(stage = "rated")

\* recommendations.py: "The input is `defects.support.uncovered_defects`, which
\* never yields a defect some verdict says a test would fail on."
NoTestIsAskedForTwice ==
    stage = "rated" => \A d \in prescribed \union unobtained : CaughtBy(d) = {}
=============================================================================
