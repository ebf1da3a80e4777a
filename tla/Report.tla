-------------------------------- MODULE Report --------------------------------
(***************************************************************************)
(* What a reader of a stored review is shown: report.py renders the page,  *)
(* recommendation.py the prescription of one criterion.  The wording is    *)
(* left out; which line is written, and which of its variants, is not.     *)
(***************************************************************************)
EXTENDS ReviewState, Reviews

(***************************************************************************)
(* One obligation, with both axes under it.                                *)
(***************************************************************************)

\* What stands under the line on the code.  A boundary claims what it was
\* compared with, or that nothing was.
ExaminedClaim(examined) ==
    IF examined = {} THEN "nothing was examined" ELSE "none breaches this boundary"

Cited(record) ==
    IF record.refs # {} THEN "hunks"
    ELSE IF record.obligation.absent THEN ExaminedClaim(record.examined)
    ELSE "no corresponding change"

\* What the class was reduced over, where there is one.
Denominator(record) ==
    CASE record.class = "none" -> <<>>
      [] record.class = "no_plausible_defect" -> <<"none can be obtained">>
      [] record.class \notin {"none", "no_plausible_defect"} ->
            IF record.enumerated = 0 THEN <<"none enumerated">>
            ELSE <<record.covered, record.enumerated>>

ObligationBlock(review, o) ==
    LET record == Recorded(review, o)
    IN  [id |-> o.id, says |-> o.says,
         requirements |-> ServedBy(review.dispositions, o.id),
         code |-> IF RequiresCode(o) THEN record.status ELSE "not required",
         cited |-> IF RequiresCode(o) THEN Cited(record) ELSE "nothing",
         tests |-> IF RequiresTests(o) THEN record.class ELSE "not required",
         measured |-> IF RequiresTests(o) THEN Denominator(record) ELSE <<>>,
         prescribed |-> \E advice \in review.recommended : advice.obligation = o.id,
         missing |-> \E u \in review.unobtained : u.obligation = o.id]

(***************************************************************************)
(* The mandate.                                                            *)
(***************************************************************************)

CoverageOf(review) ==
    MandateCoverage(review.dispositions, IdsOf(review.obligations), review.unread)

\* What was read by nobody is listed after what yielded nothing.
MandateBlock(review) ==
    LET silent == Unyielding(review.dispositions)
    IN  [yielded |-> Cardinality(DOMAIN review.dispositions) - Cardinality(silent),
         total |-> CoverageOf(review).total,
         declined |-> Cardinality(CoverageOf(review).declined),
         unjudged |-> CoverageOf(review).unjudged,
         silent |-> silent,
         unread |-> silent # {} /\ review.unread]

(***************************************************************************)
(* The rest of the page.                                                   *)
(***************************************************************************)

UnrequestedBlock(review) ==
    {[disposition |-> f.disposition, links |-> f.links] :
        f \in {g \in review.findings : g.type = "unrequested_change"}}

\* The denominators.  A set of an earlier run says so.
DefectBlock(review) ==
    [n \in DOMAIN review.sets |->
        [obligation |-> review.sets[n].obligation, reused |-> review.sets[n].carried,
         defects |-> [k \in DOMAIN review.sets[n].defects |->
                        LET d == review.sets[n].defects[k]
                        IN  [type |-> d.type, id |-> d.id, refs |-> d.refs]]]]

\* What moved: the gaps that were closed lead, and of the others only the axis
\* that moved is named.
DeltaBlock(delta) ==
    LET moved == DOMAIN delta.changes \ ClosedGaps(delta)
        axes(id) == {axis \in {"status", "class"} :
                        delta.changes[id].was[axis] # delta.changes[id].now[axis]}
    IN  [since |-> delta.from, closed |-> ClosedGaps(delta),
         moved |-> [id \in moved |-> axes(id)],
         verdict |-> IF delta.previous = delta.verdict THEN <<>>
                     ELSE <<delta.previous, delta.verdict>>]

QuestionLines(review) ==
    [n \in DOMAIN review.questions |->
        [id |-> review.questions[n].id,
         state |-> IF review.questions[n].id \in review.open THEN "open" ELSE "resolved"]]

\* The reader is sent on whenever the verdict is not positive and there is an
\* obligation to ask about.
HasGaps(review) ==
    review.verdict # "no_material_gaps" /\ review.obligations # <<>>

RenderReport(review) ==
    [headline |-> review.verdict,
     rationale |-> review.explained.why,
     obligations |-> [n \in DOMAIN review.obligations |->
                        ObligationBlock(review, review.obligations[n])],
     mandate |-> MandateBlock(review),
     unrequested |-> UnrequestedBlock(review),
     defects |-> DefectBlock(review),
     delta |-> IF review.delta = NoDelta THEN NoDelta ELSE DeltaBlock(review.delta),
     questions |-> QuestionLines(review),
     caveat |-> review.explained.caveat,
     short |-> review.explained.short,
     next |-> IF HasGaps(review) THEN "retrieve" ELSE "none"]

(***************************************************************************)
(* The prescription of one criterion, as it is retrieved: what there is    *)
(* comes before what is owed.                                              *)
(***************************************************************************)

Lookup(review, criterion) ==
    IF \E advice \in review.recommended : advice.obligation = criterion THEN "prescribed"
    ELSE IF \E u \in review.unobtained : u.obligation = criterion THEN "not_obtained"
    ELSE "none"
=============================================================================
