----------------------------- MODULE ReviewState -----------------------------
(***************************************************************************)
(* The records a review is made of: review_state.py says which may be read *)
(* back, evidence_tier.py which part of the checker may claim what, and    *)
(* pipeline.py, declaration.py and declaration_comparison.py which         *)
(* findings are made.  A record that was copied with other fields is       *)
(* checked only when the stored review is read back.                       *)
(***************************************************************************)
EXTENDS Verdict

(***************************************************************************)
(* Evidence.                                                               *)
(***************************************************************************)

\* The ladder of evidence, from the weakest, and the highest each component
\* may claim.
EvidenceTiers == <<"builder_claim", "static", "coverage_confirmed", "defect_killed", "ci_confirmed">>
Rank(tier) == CHOOSE n \in DOMAIN EvidenceTiers : EvidenceTiers[n] = tier

Ceiling ==
    [builder_declaration |-> "builder_claim", static_analyzer |-> "static",
     coverage_runner |-> "coverage_confirmed", mutation_runner |-> "defect_killed",
     ci_ingestion |-> "ci_confirmed"]

Authorized(component, tier) == Rank(tier) <= Rank(Ceiling[component])

EvidenceKinds == {"code_and_tests", "code_only", "tests_only", "neither"}
EvidenceClasses ==
    {"strongly_supported", "partially_supported", "nominally_supported", "unsupported",
     "requires_other_evidence", "indeterminate", "no_plausible_defect"}
CoverageStatuses ==
    {"addressed", "partially_addressed", "not_addressed", "unclear", "requires_non_code_evidence"}

(***************************************************************************)
(* Findings.                                                               *)
(***************************************************************************)

LinkTo(kind, ref) == [kind |-> kind, ref |-> ref]
CodeLinks(labels) == {LinkTo("code", label) : label \in labels}

\* What most findings are: read off the code, about no obligation.
StaticFinding(type, severity, links) ==
    [type |-> type, severity |-> severity, tier |-> "static", producer |-> "static_analyzer",
     links |-> links, about |-> {}, disposition |-> "none"]

SeverityOfStatus ==
    [not_addressed |-> "high", partially_addressed |-> "medium", unclear |-> "low",
     requires_non_code_evidence |-> "low"]
SeverityOfDisposition == [in_service |-> "low", separable |-> "medium", risky |-> "high"]

\* A gap that no hunk shows is linked to what it is a gap of.
CoverageFinding(o, coverage) ==
    [StaticFinding("coverage_gap", SeverityOfStatus[coverage.status],
                   IF coverage.refs # {} THEN CodeLinks(coverage.refs)
                   ELSE {LinkTo("requirement", o.id)})
     EXCEPT !.about = {o.says}]

UnrequestedFinding(u) ==
    [StaticFinding("unrequested_change", SeverityOfDisposition[u.disposition], CodeLinks(u.change))
     EXCEPT !.disposition = u.disposition]

\* What the builder said and the change does not bear out is only claimed.
MismatchFinding ==
    [StaticFinding("declaration_mismatch", "low", {LinkTo("declaration", <<"declaration">>)})
     EXCEPT !.tier = "builder_claim", !.producer = "builder_declaration"]

AbsenceFinding ==
    StaticFinding("declaration_absent", "low", {LinkTo("declaration", <<"declaration">>)})

ObligationLess ==
    {"unrequested_change", "declaration_absent", "declaration_mismatch", "unusable_answer"}

IsFinding(f) ==
    /\ f.links # {}
    /\ Authorized(f.producer, f.tier)
    /\ f.about = {} => f.type \in ObligationLess
    /\ f.about # {} => f.type # "unrequested_change"
    /\ f.disposition # "none" => f.type = "unrequested_change"

(***************************************************************************)
(* The mandate, and what came of it.                                       *)
(***************************************************************************)

\* An obligation that was built from claims cites some; a scope exclusion, and
\* of those only it, is met by work that is not done.
IsSynthesized(o) ==
    /\ o.type \in SynthesisTypes /\ o.evidence \in EvidenceKinds
    /\ o.claims # {}
    /\ (o.type = "scope_exclusion") = o.absent

IsObligation(o) == o.type \in LegacyTypes /\ o.evidence \in EvidenceKinds

\* A disposition carries what it says became of the requirement.
IsDisposition(d) ==
    CASE d.tag = "yielded" -> d.obligations # <<>>
      [] d.tag = "open_question" -> d.questions # <<>>
      [] d.tag = "no_obligation" -> d.reason

Unyielding(dispositions) == {r \in DOMAIN dispositions : dispositions[r].obligations = <<>>}

\* The requirements one obligation serves.
ServedBy(dispositions, id) ==
    {r \in DOMAIN dispositions : id \in ToSet(dispositions[r].obligations)}

IsRuling(decisions) == ToSet(decisions) \subseteq {"feeds", "background", "unsure"}

IsDefectSet(set) == \A d \in ToSet(set.defects) : d.type \in DefectTypes

(***************************************************************************)
(* What the ledger keeps of a run (requirement/ledger.py).                 *)
(***************************************************************************)

Derivations == {"derived", "carried", "revised"}

IsDerivation(record) ==
    /\ record.kind \in Derivations
    /\ record.tag \in {"yielded", "open_question", "no_obligation"}
    /\ \A o \in ToSet(record.obligations) : IsObligation(o)

\* An entry with a record that is refused is read as none.
IsLedgerEntry(entry) ==
    /\ \A record \in ToSet(entry.records) : IsDerivation(record)
    /\ \A set \in ToSet(entry.sets) : IsDefectSet(set)

(***************************************************************************)
(* What a review stores of an obligation, with what came of it.            *)
(***************************************************************************)

\* The change was asked about it, or it is addressed by construction or owes no
\* code; its class comes with what it was reduced over.
Recorded(review, o) ==
    LET looked == o.id \in DOMAIN review.coverages
        last == IF SetsOf(o, review.sets) = {} THEN {} ELSE LastDefects(o, review.sets)
    IN  [obligation |-> o, status |-> review.status[o.id], class |-> review.class[o.id],
         refs |-> IF looked THEN review.coverages[o.id].refs ELSE {},
         examined |-> IF looked THEN review.coverages[o.id].examined ELSE {},
         enumerated |-> IF RequiresTests(o) THEN Cardinality(last) ELSE 0,
         covered |-> IF RequiresTests(o) THEN Cardinality(last \cap review.caught) ELSE 0]

(***************************************************************************)
(* Movement between reviews.                                               *)
(***************************************************************************)

WeakOrMissing ==
    {"partially_supported", "nominally_supported", "unsupported", "indeterminate", "none"}

\* A gap in the code was closed, or evidence that was weak is strong.
ClosedGap(change) ==
    \/ change.was.status \notin {"none", "addressed"} /\ change.now.status = "addressed"
    \/ change.was.class \in WeakOrMissing /\ change.now.class = "strongly_supported"

ClosedGaps(delta) == {id \in DOMAIN delta.changes : ClosedGap(delta.changes[id])}

(***************************************************************************)
(* A review.                                                               *)
(***************************************************************************)

\* A stored review is read back when no record in it is refused.
IsReadable(review) ==
    /\ \A o \in ToSet(review.obligations) \cup review.derived : IsObligation(o)
    /\ \A o \in ToSet(review.synthesized) : IsSynthesized(o)
    /\ \A r \in DOMAIN review.dispositions : IsDisposition(review.dispositions[r])
    /\ \A u \in DOMAIN review.units : IsRuling(review.units[u])
    /\ \A set \in ToSet(review.sets) : IsDefectSet(set)
    /\ \A f \in review.findings : IsFinding(f)
    /\ \A id \in DOMAIN review.status : /\ review.status[id] \in CoverageStatuses \cup {"none"}
                                        /\ review.class[id] \in EvidenceClasses \cup {"none"}
=============================================================================
