-------------------------------- MODULE Check --------------------------------
(***************************************************************************)
(* A check: cli.run_check finds the review it builds on, pipeline.run_review *)
(* reads the task file as a decompose does (Decompose) and then looks at   *)
(* the change, and the review and the ledger entry are written, in that    *)
(* order.  Commands follow one another, and any of them may fail or be     *)
(* killed at any step.                                                     *)
(*                                                                         *)
(* A check has besides a command's fields: the checkout it looks at, the   *)
(* head it reviews (a revision, or the working tree), the revision that is *)
(* checked out, the revision of the review it must build on ("none": the   *)
(* nearest), and whether a declaration came with it.                       *)
(***************************************************************************)
EXTENDS Decompose, DecompositionPage, Instability

CONSTANTS
    Checkouts,          \* the states of the repository, by name
    QuestionReplies,    \* what may be answered of each question: the answers
                        \* about it, none, one or several
    CoverageReplies,    \* the same of each obligation
    DefectReplies,      \* the ways each obligation may be said to fail
    UnrequestedReplies, \* the changes that may be reported
    GroundTruth,        \* what a person says a review of some files should say
    MatchReplies,       \* how statements may be said to match labels
    CompareReplies      \* and those of one run those of another

\* A case of the benchmark has labels that hold together and can be run.
ASSUME CasesAreRunnable ==
    \A file \in DOMAIN GroundTruth : AreLabels(GroundTruth[file]) /\ IsRunnable(Mandates[file])

\* A check is of a checkout there is, and what git answers is a list of files,
\* each of them with a list of hunks.
ASSUME ChecksAssumption ==
    /\ \A history \in Histories : \A n \in DOMAIN history :
          history[n].command = "check" => history[n].checkout \in DOMAIN Checkouts
    /\ \A name \in DOMAIN Checkouts :
          /\ IsList(Checkouts[name].diff) /\ IsList(Checkouts[name].untracked)
          /\ \A file \in ToSet(Checkouts[name].diff) \cup ToSet(Checkouts[name].untracked) :
                IsList(file.hunks)

\* An answer about several things is a list of what was said.
ASSUME AnswersAreLists ==
    \A replies \in {QuestionReplies, DefectReplies, CoverageReplies} :
        \A says \in DOMAIN replies : \A answer \in replies[says] : IsList(answer)

\* So is one that says which statements are which.
ASSUME MatchesAreLists == \A matches \in MatchReplies : IsList(matches)

\* An answer was validated, so that a choice among names is one of them.
ASSUME AnswersAreTyped ==
    /\ \A text \in DOMAIN Replies : \A answer \in Replies[text] :
          \A draft \in ToSet(answer.drafts) : IsObligation(draft)
    /\ \A file \in DOMAIN Mandates : \A given \in Rulings[file] :
          \A unit \in DOMAIN given : IsRuling(given[unit])
    /\ \A answer \in Syntheses :
          IsList(answer) /\ \A said \in ToSet(answer) : said.type \in SynthesisTypes
    /\ \A says \in DOMAIN CoverageReplies : \A answer \in CoverageReplies[says] :
          \A said \in ToSet(answer) : "status" \in DOMAIN said /\ said.status \in CoverageStatuses

VARIABLES
    reviews,      \* the stored reviews, by what they are of
    prior,        \* the review this one builds on
    open,         \* the questions the change leaves open
    obligations,  \* the obligations, those derived from questions after the rest
    defectSets,   \* the ways each could fail that is owed a test
    told,         \* what is known of each of them
    coverages,    \* how far the change responds to each obligation
    unrequested,  \* what it does besides, and what became of that
    prescribed,   \* the tests prescribed
    unobtained    \* and the defects none was prescribed for

judgementVars == <<open, obligations, defectSets, told, coverages, unrequested, prescribed,
                   unobtained>>
checkVars == <<reviews, prior, judgementVars>>
vars == <<decomposeVars, checkVars>>

NothingJudged ==
    /\ open' = {} /\ obligations' = <<>> /\ defectSets' = <<>> /\ told' = <<>>
    /\ coverages' = <<>> /\ unrequested' = {} /\ prescribed' = {} /\ unobtained' = {}

Init ==
    /\ InitDecompose
    /\ reviews = <<>> /\ prior = NoReview
    /\ open = {} /\ obligations = <<>> /\ defectSets = <<>> /\ told = <<>>
    /\ coverages = <<>> /\ unrequested = {} /\ prescribed = {} /\ unobtained = {}

(***************************************************************************)
(* The review a check builds on.                                           *)
(***************************************************************************)

\* The revision ancestry is measured from: the working tree descends from what
\* is checked out.
Anchor(check) == IF check.head = WorkingTree THEN check.at ELSE check.head

\* The reviews a check may build on.
Priors(check) ==
    IF check.since # "none" THEN {Stored(reviews, check.since)}
    ELSE LET nearest == Predecessors(reviews, check.head, Anchor(check), check.file)
         IN  IF nearest = {} THEN {NoReview} ELSE {reviews[r] : r \in nearest}

\* A review that was asked for by name must exist; one that is found must only
\* be readable.
Admission(check) ==
    IF check.since # "none"
    THEN CASE Stored(reviews, check.since) = NoReview -> "refused"
           [] Stored(reviews, check.since) = Torn -> "crashed"
           [] OTHER -> "claiming"
    ELSE IF ScanFails(reviews, check.head) THEN "crashed" ELSE "claiming"

StartCheck ==
    /\ step \in Outcomes /\ commands # <<>> /\ Head(commands).command = "check"
    /\ Begin(Admission(Head(commands)))
    /\ IF Admission(Head(commands)) = "claiming" THEN prior' \in Priors(Head(commands))
       ELSE prior' = NoReview
    /\ NothingJudged /\ UNCHANGED reviews

(***************************************************************************)
(* The change and the answers about it.                                    *)
(***************************************************************************)

ChangeOf(checkout, head) == ChangeSet(Checkouts[checkout], head = WorkingTree)
Files == ChangeOf(run.checkout, run.head)
Tests == DiscoverTests(Files, Checkouts[run.checkout])

\* One sequence of answers to several items: for each, one of the sequences it
\* may be answered with.
Answers(items, choices(_), tagged(_, _)) ==
    LET all == UNION {choices(items[n]) : n \in DOMAIN items}
        one == {f \in [DOMAIN items -> all] : \A n \in DOMAIN items : f[n] \in choices(items[n])}
    IN  {FlattenSeq([n \in DOMAIN items |->
            [k \in DOMAIN f[n] |-> tagged(items[n], f[n][k])]]) : f \in one}

ResolveQuestions ==
    /\ step = "resolving" /\ step' = "enumerating"
    /\ \E answers \in Answers(made.questions, LAMBDA q : Offered(QuestionReplies, q.says),
                              LAMBDA q, a : With(a, "question", q.id)) :
          LET resolutions == Resolutions(made.questions, answers, Files)
          IN  /\ open' = Unresolved(made.questions, resolutions)
              /\ obligations' = made.obligations \o DerivedObligations(resolutions)
    /\ UNCHANGED <<commands, ledger, run, readingVars, reviews, prior, defectSets, told, coverages,
                   unrequested, prescribed, unobtained>>

\* The obligations a defect set is owed, in order.  The stage is not shown the
\* tests of the change.
Owed == Where(obligations, LAMBDA o : RequiresTests(o) /\ Enumerable(o.type))

StoredDefects == IF Readable(run.from) THEN Entry(run.from).sets ELSE <<>>

EnumerateDefects ==
    /\ step = "enumerating" /\ step' = "judging"
    /\ LET shown == NonTestChanges(Files)
           sets(o) == IF MayCarrySet(o, StoredDefects, run.tool, shown)
                      THEN {CarriedSet(o, StoredDefects)}
                      ELSE {EnumeratedSet(o, answer, run.tool, shown) :
                              answer \in Offered(DefectReplies, o.says)}
       IN  \E found \in Answers(Owed, LAMBDA o : {<<s>> : s \in sets(o)}, LAMBDA o, s : s) :
              defectSets' = found
    /\ UNCHANGED <<commands, ledger, run, readingVars, reviews, prior, open, obligations, told,
                   coverages, unrequested, prescribed, unobtained>>

\* Which defects some test catches, by running it or by the judge's word, and
\* which have a test that was not judged (PairJudging, Injection).  Where no
\* test was found, none does.
JudgeDefects ==
    /\ step = "judging" /\ step' = "classifying"
    /\ told' \in [DefectsOf(defectSets) ->
                    IF Tests = {} THEN {"passed"}
                    ELSE {"run", "judged", "unanswered", "passed"}]
    /\ UNCHANGED <<commands, ledger, run, readingVars, reviews, prior, open, obligations, defectSets,
                   coverages, unrequested, prescribed, unobtained>>

CaughtBy(how) == {d \in DOMAIN told : told[d] \in how}

\* Of each defect that was answered about, whether some test catches it.
PairAnswers ==
    [d \in (IF Tests = {} THEN {} ELSE DOMAIN told \ CaughtBy({"unanswered"})) |->
        told[d] # "passed"]

\* An obligation that was derived from a question is addressed by construction,
\* and one that owes no code cannot be.
Derived == ToSet(SubSeq(obligations, Len(made.obligations) + 1, Len(obligations)))
ToClassify == Where(obligations, LAMBDA o : o \notin Derived /\ RequiresCode(o))

ClassifyCoverage ==
    /\ step = "classifying" /\ step' = "detecting"
    /\ \E answers \in Answers(ToClassify, LAMBDA o : Offered(CoverageReplies, o.says),
                              LAMBDA o, a : With(a, "obligation", o.id)) :
          coverages' = Coverages(ToClassify, answers, Files)
    /\ UNCHANGED <<commands, ledger, run, readingVars, reviews, prior, open, obligations, defectSets,
                   told, unrequested, prescribed, unobtained>>

DetectUnrequested ==
    /\ step = "detecting" /\ step' = "prescribing"
    /\ \E answers \in UnrequestedReplies :
          \E disposition \in [UnrequestedChanges(answers, Files) ->
                                {"in_service", "separable", "risky"}] :
             /\ \A change \in DOMAIN disposition :
                   disposition[change] \in Dispositions(change, coverages, Files)
             /\ unrequested' = {[change |-> c, disposition |-> disposition[c]] :
                                  c \in DOMAIN disposition}
    /\ UNCHANGED <<commands, ledger, run, readingVars, reviews, prior, open, obligations, defectSets,
                   told, coverages, prescribed, unobtained>>

\* A test is asked for each defect the judge saw no test catch.  A response may
\* leave some of them out.
PrescribeTests ==
    /\ step = "prescribing" /\ step' = "concluding"
    /\ LET pending == UncoveredDefects(obligations, defectSets, CaughtBy({"judged"}))
       IN  \E given \in SUBSET pending : prescribed' = given /\ unobtained' = pending \ given
    /\ UNCHANGED <<commands, ledger, run, readingVars, reviews, prior, open, obligations, defectSets,
                   told, coverages, unrequested>>

(***************************************************************************)
(* The review.                                                             *)
(***************************************************************************)

StatusOf(o) ==
    IF o \in Derived THEN "addressed"
    ELSE IF o.id \in DOMAIN coverages THEN coverages[o.id].status ELSE "none"

\* An obligation that is owed a prescription that did not come is not rated.
ClassOf(o) ==
    IF \E u \in unobtained : u.obligation = o.id THEN "indeterminate"
    ELSE Support(o, defectSets, CaughtBy({"run", "judged"}), CaughtBy({"unanswered"}))

EachObligation(f(_)) ==
    [id \in IdsOf(obligations) |-> f(ById(obligations, id))]

\* The findings, of which only a gap is about an obligation.
Findings(mismatched) ==
    {CoverageFinding(ById(obligations, id), coverages[id]) :
        id \in {i \in DOMAIN coverages : coverages[i].status # "addressed"}}
    \cup {UnrequestedFinding(u) : u \in unrequested}
    \cup (IF mismatched THEN {MismatchFinding} ELSE {})
    \cup (IF run.declared THEN {} ELSE {AbsenceFinding})

Unread == Taken(Mandates[run.file], "unclaimed") # <<>>

Review(findings) ==
    LET status == EachObligation(StatusOf)
        class == EachObligation(ClassOf)
        verdict == DeriveVerdict(obligations, class, findings, open, made.dispositions, Unread)
    IN  [form |-> "whole", task |-> run.file, checkout |-> run.checkout, head |-> run.head,
         obligations |-> obligations, status |-> status, class |-> class,
         coverages |-> coverages, dispositions |-> made.dispositions, open |-> open,
         unread |-> Unread, sets |-> defectSets,
         kills |-> PairAnswers, caught |-> CaughtBy({"run", "judged"}), judged |-> CaughtBy({"judged"}),
         unrequested |-> unrequested, findings |-> findings,
         recommended |-> prescribed \cup CarriedRecommendations(prior, unobtained, prescribed),
         unobtained |-> unobtained, verdict |-> verdict,
         explained |-> Explained(obligations, class, findings, open, made.dispositions, Unread),
         delta |-> Delta(prior, status, class, verdict),
         derived |-> UNION {ToSet(record.obligations) : record \in ToSet(made.records)},
         units |-> units, synthesized |-> synthesized, questions |-> made.questions]

\* The declaration, if there is one, is compared with the change by the model.  A
\* review replaces the one of the same head.
Put(review) == [r \in DOMAIN reviews \cup {run.head} |-> IF r = run.head THEN review ELSE reviews[r]]

StoreReview ==
    /\ step = "concluding" /\ step' = "recording"
    /\ \E mismatched \in IF run.declared THEN BOOLEAN ELSE {FALSE} :
          reviews' = Put(Review(Findings(mismatched)))
    /\ UNCHANGED <<commands, ledger, run, readingVars, prior, judgementVars>>

\* The ledger entry comes after the review.
RecordCheck ==
    /\ step = "recording" /\ run.command = "check"
    /\ WriteLedger(defectSets, "done")
    /\ UNCHANGED checkVars

Judging ==
    \/ ResolveQuestions \/ EnumerateDefects \/ JudgeDefects \/ ClassifyCoverage
    \/ DetectUnrequested \/ PrescribeTests \/ StoreReview \/ RecordCheck

(***************************************************************************)
(* Failures.                                                               *)
(***************************************************************************)

Forget == run' = NoRun /\ NothingRead /\ prior' = NoReview /\ NothingJudged

\* The steps that put something to the model.
Asks ==
    CASE step = "planning" -> /\ Readable(run.from)
                              /\ Alignments(Requirements, Entry(run.from), run.tool) # {<<>>}
      [] step = "asking" -> todo # <<>>
      [] step = "linking" -> Pairs(made.obligations, Far) # {}
      [] step = "claiming" -> Units(Mandates[run.file]) # <<>>
      [] step = "synthesizing" -> ClaimsOf(units) # {}
      [] step = "resolving" -> made.questions # <<>>
      [] step = "enumerating" -> Owed # <<>>
      [] step = "judging" -> /\ DefectsOf(defectSets) # {}
                             /\ Tests # {}
      [] step \in {"classifying", "detecting"} -> TRUE
      [] step = "prescribing" ->
            UncoveredDefects(obligations, defectSets, CaughtBy({"judged"})) # {}
      [] step = "concluding" -> run.declared
      [] OTHER -> FALSE

\* The provider may fail any call, and an answer that names what it was not
\* shown, or one thing twice, is no answer.
CallFails ==
    /\ run.frail /\ Asks
    /\ step' = "model_error"
    /\ Forget /\ UNCHANGED <<commands, ledger, reviews>>

\* What is written when a run is killed is left as far as it came: neither file
\* is written aside and renamed.
Kill ==
    /\ run.frail /\ step \notin Outcomes
    /\ step' = "killed"
    /\ \/ UNCHANGED <<ledger, reviews>>
       \/ /\ step = "concluding" /\ reviews' = Put(Torn) /\ UNCHANGED ledger
       \/ /\ step = "recording" /\ UNCHANGED reviews
          /\ ledger' = [ledger EXCEPT ![Len(ledger)] = Blank("torn")]
    /\ Forget /\ UNCHANGED commands

(***************************************************************************)
(* The specification.  A command that may not fail is in the model to show *)
(* that none waits for ever: the model stops only when no command is left. *)
(***************************************************************************)

Finished == step \in Outcomes /\ commands = <<>> /\ UNCHANGED vars

Next ==
    \/ StartDecompose /\ prior' = NoReview /\ NothingJudged /\ UNCHANGED reviews
    \/ StartCheck
    \/ ReadingStep /\ UNCHANGED checkVars
    \/ Judging \/ CallFails \/ Kill \/ Finished

Spec == Init /\ [][Next]_vars

(***************************************************************************)
(* Properties.                                                             *)
(***************************************************************************)

Whole == {r \in DOMAIN reviews : reviews[r].form = "whole"}

\* The state has its shape: what a run left on record, what a stored review
\* says of each obligation, and that a check never builds on a review that
\* could not be read.
TypeOK ==
    /\ \A n \in DOMAIN ledger : /\ ledger[n].file \in {"none", "torn", "whole"}
                                /\ ledger[n].from \in Nat
    /\ step \in Outcomes \cup
         {"claiming", "synthesizing", "planning", "asking", "linking", "resolving", "enumerating",
          "judging", "classifying", "detecting", "prescribing", "concluding", "recording"}
    /\ prior.form \in {"none", "whole"}
    /\ \A r \in DOMAIN reviews \ Whole : reviews[r] = Torn
    /\ \A r \in Whole : /\ reviews[r].verdict \in Verdicts
                        /\ DOMAIN reviews[r].status = IdsOf(reviews[r].obligations)
                        /\ DOMAIN reviews[r].class = IdsOf(reviews[r].obligations)

\* A decomposition accounts for every requirement of the file, by obligations
\* and questions it has, also after some were merged away: obligations.py,
\* _requirement_map, and linking.py, _relink.  An id that is given twice, to a
\* question and to an obligation of which one was carried, is of one of them; a
\* question that lost its id to an obligation goes where that one goes.
EveryRequirementIsAccountedFor ==
    made # Nothing =>
        \A r \in ToSet(Requirements) :
            /\ RequirementId(r) \in DOMAIN made.dispositions
            /\ LET disposition == made.dispositions[RequirementId(r)]
                   derived == UNION {IdsOf(record.obligations) : record \in ToSet(made.records)}
               IN  /\ ToSet(disposition.obligations)
                         \subseteq IdsOf(made.obligations) \cup IdsOf(made.questions)
                   /\ ToSet(disposition.questions) \subseteq IdsOf(made.questions) \cup derived
                   /\ CASE disposition.tag = "yielded" -> disposition.obligations # <<>>
                        [] disposition.tag = "open_question" -> disposition.questions # <<>>
                        [] disposition.tag = "no_obligation" -> disposition.reason

\* The page of a decompose leaves nothing of the decomposition out: each obligation
\* and each question stands under the requirements that yielded it or among those
\* that none did, no requirement names an obligation that is not there, an
\* obligation that says it serves another requirement stands under that one too,
\* the counts at its head are those of the blocks below, and every sentence of the
\* mandate was set aside, is cited, or is listed as cited by nothing.  Beside it,
\* what the continued run had on a requirement that is gone is here in other words
\* or is said to be gone: cli.py, render_decomposition and _report_run.
PageLeavesNothingOut ==
    step = "done" /\ run.command = "decompose" =>
        LET page == RenderDecomposition(Mandates[run.file], made, units, synthesized)
            blocks == ToSet(page.rest.blocks)
            lines == UNION {ToSet(b.obligations) : b \in blocks}
            report == ReportRun(made)
        IN  /\ report.carried + report.revised + report.derived = Len(Requirements)
            /\ Readable(run.from) =>
                  Cardinality(TextsOf(Entry(run.from)) \ Registered(Requirements))
                     <= Cardinality(report.removed) + report.revised
            /\ page.claims.background + Cardinality(ClaimsOf(units)) = Len(Units(Mandates[run.file]))
            /\ ClaimsOf(units) = page.claims.uncited
                                   \cup UNION {o.claims : o \in ToSet(page.claims.obligations)}
            /\ page.rest.shape = "map" =>
                  /\ IdsOf(made.obligations) =
                        {l.id : l \in {m \in lines : m.found}} \cup IdsOf(page.rest.orphans)
                  /\ IdsOf(made.questions) \subseteq
                        (UNION {ToSet(b.questions) : b \in blocks}) \cup IdsOf(page.rest.loose)
                  /\ \A b \in blocks : \A l \in ToSet(b.obligations) :
                        IF l.found
                        THEN \A r \in l.others :
                                \E c \in blocks : c.requirement = r /\ l.id \in IdsOf(c.obligations)
                        ELSE l.id \in IdsOf(made.questions)
                  /\ LET counted == page.rest.summary
                         of(P(_)) == Cardinality({b \in blocks : P(b)})
                     IN  /\ counted.total = Len(page.rest.blocks)
                         /\ counted.yielding = of(LAMBDA b : b.obligations # <<>>)
                         /\ counted.questioned =
                               of(LAMBDA b : b.obligations = <<>> /\ b.questions # <<>>)
                         /\ counted.declined = of(LAMBDA b : b.declined)

\* What was derived for a requirement still stands for it, or one stands for it
\* that the model said states the same requirement, of the two directly and of
\* no other two: linking.py merges complete components only.
MergedMeansConfirmed ==
    \A n \in DOMAIN made.records :
        LET disposition == made.dispositions[RequirementId(Requirements[n])]
        IN  \A o \in ToSet(made.records[n].obligations) :
                \E kept \in ToSet(made.obligations) :
                    /\ kept.id \in ToSet(disposition.obligations)
                    /\ kept.id # o.id =>
                          /\ CanStateOneRequirement(o, kept)
                          /\ [pair |-> {Fingerprint(o), Fingerprint(kept)}, same |-> TRUE] \in merges
                          /\ o.spans \subseteq kept.spans

\* The runs a record goes back through: each that carried it continues another one
\* of them, which had it on the same text, under the same request and the same
\* logic, and what it has of it is what that one had, but what lost its id to a
\* question.
IsLineage(runs, text) ==
    \A n \in runs :
        LET kept == RecordOf(ledger[n], text)
            from == ledger[n].from
            found == RecordOf(ledger[from], text)
        IN  /\ text \in TextsOf(ledger[n])
            /\ kept.kind = "carried" =>
                  /\ from < n /\ from \in runs
                  /\ ledger[from].logic = ledger[n].logic /\ found.key = kept.key
                  /\ ToSet(kept.obligations) \subseteq ToSet(found.obligations)
                  /\ \A o \in ToSet(found.obligations) \ ToSet(kept.obligations) :
                        \E record \in ToSet(ledger[n].records) : o.id \in IdsOf(record.questions)

\* What a run says of a requirement was answered, by it or by the run its record
\* goes back to over any number of runs, under the same request and the same
\* logic, and quotes nothing the text does not say: carry.py.
NothingStaleIsKept ==
    \A n \in DOMAIN ledger : \A text \in TextsOf(ledger[n]) :
        LET kept == RecordOf(ledger[n], text)
        IN  kept.kind = "carried" =>
              /\ \E runs \in SUBSET (1..n) : n \in runs /\ IsLineage(runs, text)
              /\ \A o \in ToSet(kept.obligations) : \A quote \in o.spans : LocateWithin(text, quote)

\* The review a run has just stored.
JustStored == IF step = "recording" /\ run.command = "check" THEN {reviews[run.head]} ELSE {}

\* The entry a run has just written.
JustWritten == IF Readable(Len(ledger)) THEN {Entry(Len(ledger))} ELSE {}

\* What it names has the id of what came before it and is gone: of a question, or
\* of an obligation that was derived, and may have been merged since.
Displaced(disposition) ==
    \/ ToSet(disposition.obligations) \cap IdsOf(made.questions) # {}
    \/ \E record \in ToSet(made.records) :
          ToSet(disposition.questions) \cap IdsOf(record.obligations) # {}

\* No answer makes a run store a review its own validators refuse: a copy with
\* other fields is not validated, and a review that cannot be read ends every
\* later check.  Nor does it write an entry that is as good as none, or of which a
\* record crashes the run that carries it, but for a record of which an id went to
\* something else.  review_state.py, RequirementDisposition, Obligation, Finding;
\* obligations.py, _carried_disposition.
ReviewsReadBack ==
    /\ \A review \in JustStored : IsReadable(review)
    /\ \A entry \in JustWritten :
          /\ IsLedgerEntry(entry)
          /\ made # Nothing =>
                \A n \in DOMAIN entry.records :
                    \/ IsDisposition(CarriedDisposition(entry.records[n]))
                    \/ Displaced(made.dispositions[RequirementId(Requirements[n])])

\* What on the page a reader would hold against a positive headline.
Concern(page) ==
    \/ \E q \in ToSet(page.questions) : q.state = "open"
    \/ \E b \in ToSet(page.obligations) :
          \/ b.code \notin {"addressed", "not required"}
          \/ b.tests \notin {"strongly_supported", "no_plausible_defect", "not required"}
          \/ b.code = "not required" /\ b.tests = "not required"
          \/ b.missing
    \/ page.mandate.unjudged # {} \/ page.short # {}

\* The headline is positive exactly when the rest of the page gives no reason
\* against it; and what the rationale says of an obligation shows where one with
\* its description is listed: report.py, render_report, with verdict.py.
PageBearsTheHeadline ==
    \A review \in JustStored :
        LET page == RenderReport(review)
        IN  /\ page.headline = "no_material_gaps" <=> page.obligations # <<>> /\ ~Concern(page)
            /\ \A b \in ToSet(page.obligations) :
                  /\ b.id \in page.rationale.gaps =>
                        \E c \in ToSet(page.obligations) :
                           c.says = b.says /\ c.code \notin {"addressed", "not required"}
                  /\ b.id \in page.rationale.weak => b.prescribed \/ b.missing \/ b.measured # <<>>

\* Where a review is one of two runs of an input: what moved is part of what was
\* watched, on every axis, and the two comparisons of reviews, this one and that
\* of a check with the review it builds on, find the same classes moved:
\* benchmark/instability.py, _perturbation_result; rerun.py, compute_delta.
MovementIsWatched ==
    prior # NoReview =>
        \A review \in JustStored : \A answer \in CompareReplies :
            LET result == PerturbationResult(Snapshot(prior, FALSE), Snapshot(review, TRUE), answer)
                changes == review.delta.changes
            IN  /\ \A axis \in DOMAIN result : result[axis].changed <= result[axis].watched
                /\ result.evidence_class.changed =
                      Cardinality({id \in DOMAIN changes :
                                      changes[id].was.class # changes[id].now.class})

\* Two models whose runs are the same ones agree wherever they were compared,
\* whatever order each had them in: benchmark/instability.py,
\* cross_model_agreement.
OrderOfRunsIsNothing ==
    prior # NoReview =>
        \A review \in JustStored : \A answer \in CompareReplies :
            LET one == Snapshot(prior, FALSE)
                other == Snapshot(review, FALSE)
                runs == <<<<one, other>>, <<other, one>>>>
                measured == MeasureInstability(runs, one, answer)
            IN  /\ IsMeasurable(runs)
                /\ \A axis \in DOMAIN measured.agreement :
                      \A subject \in DOMAIN measured.agreement[axis] :
                          measured.agreement[axis][subject] = <<1, 1>>

\* A score is of what it says it is of: no more is matched than was labelled or
\* than was reported; a case that says nothing of a figure leaves the figure of
\* several cases alone; a positive verdict is not credited with a gap; and of the
\* labelled defects a review that recorded none missed all, which does not show
\* in how well their tests were predicted.  benchmark/scoring.py and
\* benchmark/defect_scoring.py.
ScoresAreShares ==
    \A review \in {r \in JustStored : r.task \in DOMAIN GroundTruth} : \A matches \in MatchReplies :
        LET of(r) == [labels |-> GroundTruth[review.task], review |-> r, matches |-> matches,
                      mode |-> "record"]
            case == of(review)
            earlier == IF prior # NoReview /\ prior.task = review.task THEN of(prior) ELSE case
            counts == CountsOf(case)
            set == ScoreCaseSet(<<earlier, case>>)
            alone == <<set.per_case[1].figures, set.per_case[2].figures>>
            score == ScoreCase(case, [d \in DOMAIN review.kills |->
                                        IF review.kills[d] THEN {"t"} ELSE {}]).defects
        IN  /\ \A family \in Families : \A figure \in {"recall", "precision"} :
                  /\ counts[family].matched <= counts[family].truth
                  /\ counts[family].matched <= counts[family].reported
                  /\ alone[2][family][figure] = Absent =>
                        set.figures[family][figure] = alone[1][family][figure]
            /\ ScoreCaseSet(<<earlier, [case EXCEPT !.mode = "replay"]>>) = Absent
            /\ review.verdict = "no_material_gaps" => counts.gap.matched = 0
            /\ score # Absent =>
                  /\ score.matched <= score.labelled /\ score.matched <= score.recorded
                  /\ score.recorded = 0 =>
                        score.enumeration_recall = <<0, score.labelled>> /\ score.kill_agreement = Absent
                  /\ score.kill_agreement # Absent =>
                        Cardinality(DOMAIN score.kill_agreement) <= score.matched

\* What a run wrote is never written again, by it or by a later one:
\* requirement/ledger.py, LedgerStore.write.
LedgerIsFinal ==
    [][\A n \in DOMAIN ledger :
          ledger[n].file # "none" => n \in DOMAIN ledger' /\ ledger'[n] = ledger[n]]_vars

\* A review without material gaps speaks to every requirement of a file that was
\* read to the last block, leaves no question open, found every obligation that
\* owes code addressed and every defect of those that owe tests caught, and is
\* owed no prescription.
Clean(review) ==
    /\ review.obligations # <<>> /\ review.open = {} /\ ~review.unread
    /\ \A r \in DOMAIN review.dispositions :
          LET disposition == review.dispositions[r]
          IN  \/ disposition.tag = "no_obligation" \/ disposition.obligations # <<>>
              \/ \E q \in ToSet(disposition.questions) :
                    DerivedObligationId(q) \in IdsOf(review.obligations)
    /\ \A o \in ToSet(review.obligations) :
          /\ o.id \in DOMAIN review.coverages => review.coverages[o.id].status = "addressed"
          /\ o.evidence # "neither"
          /\ RequiresTests(o) =>
                /\ SetsOf(o, review.sets) # {}
                /\ LastDefects(o, review.sets) \subseteq review.caught
                /\ \A u \in review.unobtained : u.obligation # o.id

\* verdict.py: the one positive verdict is earned.
CleanIsEarned ==
    \A r \in Whole : reviews[r].verdict = "no_material_gaps" => Clean(reviews[r])

\* Each defect nothing catches has a prescription, or is on record as owed one;
\* and no prescription is for a defect that was not enumerated or that the judge
\* saw caught, whichever review it comes from: recommendations.py and rerun.py,
\* carried_recommendations.
EveryGapHasAdvice ==
    \A r \in Whole :
        LET review == reviews[r]
        IN  /\ \A gap \in UncoveredDefects(review.obligations, review.sets, review.caught) :
                  \E advice \in review.recommended \cup review.unobtained : advice.defect = gap.defect
            /\ \A advice \in review.recommended :
                  advice.defect \in DefectsOf(review.sets) \ review.judged

\* Whatever a review points at is a hunk of the change it looked at, of no
\* ignored file; and what a defect implicates is no test and reads as it did
\* when the defect was enumerated, in this run or an earlier one.
RegionsAreReal ==
    \A r \in Whole :
        LET review == reviews[r]
            files == ChangeOf(review.checkout, review.head)
            ignored == IgnoredPaths(Checkouts[review.checkout], review.head = WorkingTree)
            shown == NonTestChanges(files)
        IN  /\ \A id \in DOMAIN review.coverages :
                  review.coverages[id].refs \subseteq Labels(files)
            /\ \A u \in review.unrequested : u.change \subseteq Labels(files)
            /\ \A label \in Labels(files) : label[1] \notin ignored
            /\ \A set \in ToSet(review.sets) : \A d \in ToSet(set.defects) : \A label \in d.refs :
                  /\ label \in Labels(shown)
                  /\ HunkAt(shown, label).content = set.digests[label]

\* How far a command is from its end.
StepsLeft ==
    CASE step \in Outcomes -> 0
      [] step = "claiming" -> IF run.command = "check" THEN 14 ELSE 2
      [] step = "synthesizing" -> IF run.command = "check" THEN 13 ELSE 1
      [] step = "planning" -> 12
      [] step = "asking" -> 11
      [] step = "linking" -> 10
      [] step = "resolving" -> 9
      [] step = "enumerating" -> 8
      [] step = "judging" -> 7
      [] step = "classifying" -> 6
      [] step = "detecting" -> 5
      [] step = "prescribing" -> 4
      [] step = "concluding" -> 3
      [] step = "recording" -> IF run.command = "check" THEN 1 ELSE 3

\* The summaries that have not been divided.
Undivided == {r \in ToSet(todo) : r.section = "task" /\ RequirementId(r) \notin DOMAIN settled}

\* What is left to do: the commands, the steps of this one, the requirements,
\* the summaries to be divided and the spans to be asked about.
Left == <<Len(commands), StepsLeft, Len(todo), Cardinality(Undivided), Len(spans)>>

LessIsLeft ==
    \E k \in 1..5 : Left'[k] < Left[k] /\ \A j \in 1..(k - 1) : Left'[j] = Left[j]

\* Every step of a command is one less to take, and no step is taken twice: a
\* command comes to its end, however often it fails and whatever it is answered.
EveryCommandEnds == [][LessIsLeft]_vars

\* obligations.py, _in_registry_order: "Nothing is dropped."  What an answer
\* said of a requirement is in the decomposition.
NothingIsDropped ==
    [][step = "asking" /\ step' = "linking" => ToSet(fresh) \subseteq ToSet(made'.obligations)]_vars
=============================================================================
