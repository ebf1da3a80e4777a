------------------------------- MODULE Verdict -------------------------------
(***************************************************************************)
(* The completion verdict: verdict.py rolls the obligations, the findings, *)
(* the open questions and the accounting of the mandate up into one of     *)
(* five outcomes.                                                          *)
(***************************************************************************)
EXTENDS Coverage, Enumeration

Verdicts == {"no_material_gaps", "incomplete", "needs_clarification", "needs_non_code_review",
             "unable_to_determine"}

\* Mutant: an obligation that owes no test has no gap.
StandingByEvidence(o, class, gaps) ==
    IF o.evidence = "neither" THEN "non_code"
    ELSE IF ~RequiresTests(o) THEN "code_only"
    ELSE IF o.says \in gaps THEN "gap"
    ELSE IF class \in {"partially_supported", "nominally_supported", "unsupported"} THEN "weak"
    ELSE IF class \in {"indeterminate", "none"} THEN "indeterminate"
    ELSE "supported"

\* How one obligation stands.  A gap is matched by what the obligation says.
Standing(o, class, gaps) ==
    IF o.says \in gaps THEN "gap"
    ELSE IF o.evidence = "neither" THEN "non_code"
    ELSE IF ~RequiresTests(o) THEN "code_only"
    ELSE IF class = "requires_other_evidence" THEN "non_code"
    ELSE IF class \in {"partially_supported", "nominally_supported", "unsupported"} THEN "weak"
    ELSE IF class \in {"indeterminate", "none"} THEN "indeterminate"
    ELSE "supported"

\* An unresolved ambiguity comes first, a definite gap before uncertainty.
RolledUp(standings, unresolved) ==
    IF standings = {} THEN "unable_to_determine"
    ELSE IF unresolved # {} THEN "needs_clarification"
    ELSE IF standings \cap {"gap", "weak"} # {} THEN "incomplete"
    ELSE IF "non_code" \in standings THEN "needs_non_code_review"
    ELSE IF "indeterminate" \in standings THEN "unable_to_determine"
    ELSE "no_material_gaps"

\* The requirements the review could not speak to: a question judges one only
\* through the obligation that was derived from it.
Unjudged(dispositions, ids) ==
    {r \in DOMAIN dispositions :
        /\ dispositions[r].obligations = <<>>
        /\ dispositions[r].tag # "no_obligation"
        /\ \A q \in ToSet(dispositions[r].questions) : DerivedObligationId(q) \notin ids}

\* A review of part of the mandate is never a clean one.
Bounded(verdict, complete) ==
    IF verdict = "no_material_gaps" /\ ~complete THEN "unable_to_determine" ELSE verdict

Gaps(findings) == UNION {f.about : f \in {g \in findings : g.type = "coverage_gap"}}

\* `class` gives each obligation's evidence class by id; `unread` says whether
\* some block of the file was read by nobody.
DeriveVerdict(obligations, class, findings, unresolved, dispositions, unread) ==
    LET standings == {Standing(o, class[o.id], Gaps(findings)) : o \in ToSet(obligations)}
    IN  Bounded(RolledUp(standings, unresolved),
                Unjudged(dispositions, IdsOf(obligations)) = {} /\ ~unread)

(***************************************************************************)
(* What is said with it.                                                   *)
(***************************************************************************)

\* How much of the mandate the review could speak to.
MandateCoverage(dispositions, ids, unread) ==
    [total |-> Cardinality(DOMAIN dispositions),
     declined |-> {r \in DOMAIN dispositions : /\ dispositions[r].obligations = <<>>
                                               /\ dispositions[r].tag = "no_obligation"},
     unjudged |-> Unjudged(dispositions, ids), unread |-> unread]

SpeaksToAll(coverage) == coverage.unjudged = {} /\ ~coverage.unread

\* Mutant: only the requirements are counted.
ShortfallOfRequirements(coverage) ==
    {"requirements" : r \in coverage.unjudged}

\* What a bounded review says it left out.
Shortfall(coverage) ==
    {part \in {"requirements", "blocks"} :
        CASE part = "requirements" -> coverage.unjudged # {}
          [] part = "blocks" -> coverage.unread}

\* The obligations the rationale of an incomplete review names.
IncompleteRationale(standing) ==
    [gaps |-> {id \in DOMAIN standing : standing[id] = "gap"},
     weak |-> {id \in DOMAIN standing : standing[id] = "weak"}]

\* The rationale, the caveat, what was left out (in the rationale of a verdict
\* that was bounded, else among the limitations) and the obligations more effort
\* could settle.
Explained(obligations, class, findings, unresolved, dispositions, unread) ==
    LET standing == [id \in IdsOf(obligations) |->
                        Standing(ById(obligations, id), class[id], Gaps(findings))]
        standings == {standing[id] : id \in DOMAIN standing}
        coverage == MandateCoverage(dispositions, IdsOf(obligations), unread)
        rolled == RolledUp(standings, unresolved)
    IN  [why |-> IF rolled = "incomplete" THEN IncompleteRationale(standing)
                 ELSE IncompleteRationale(<<>>),
         caveat |-> IF rolled = "no_material_gaps" /\ SpeaksToAll(coverage) THEN "positive"
                    ELSE "static",
         short |-> IF SpeaksToAll(coverage) THEN {} ELSE Shortfall(coverage),
         escalate |-> IF rolled = "no_material_gaps" THEN {}
                      ELSE {id \in DOMAIN standing : standing[id] = "indeterminate"}]
=============================================================================
