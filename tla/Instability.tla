----------------------------- MODULE Instability -----------------------------
(***************************************************************************)
(* How far the answers move over one input: benchmark/instability.py       *)
(* reduces each run to a snapshot, compares snapshots pair by pair, and    *)
(* says of several models where they agree.  What was lost is kept apart   *)
(* from what was only divided otherwise.                                   *)
(***************************************************************************)
EXTENDS Scoring

\* What a run is reduced to.
Snapshot(review, perturbed) ==
    [run |-> [head |-> review.head, perturbed |-> perturbed],
     obligations |-> [n \in DOMAIN review.obligations |->
                        [id |-> review.obligations[n].id, says |-> review.obligations[n].says]],
     classes |-> review.class, questions |-> TextsIn(review.questions), kills |-> review.kills]

(***************************************************************************)
(* Two runs.  An answer about them says which statements are the same, and *)
(* which of the others the other run covers as a whole.                    *)
(***************************************************************************)

\* A class differs by obligation id (`of`); the rest have their subject alone.
Difference(kind, class, subject, of, present, absent) ==
    [kind |-> kind, class |-> class, subject |-> subject, of |-> of,
     present_in |-> present.run, absent_from |-> absent.run]

\* Nothing covers a statement if there is nothing, and silence is no cover.
Classified(says, other, covered) ==
    IF other # <<>> /\ says \in covered THEN "shape" ELSE "content"

\* The statements of either run without a counterpart in the other.
PresenceDifferences(kind, left, right, ofLeft, ofRight, answer) ==
    LET alignment == AlignedTexts(ofLeft, ofRight, answer.matches)
    IN  {Difference(kind, Classified(says, ofRight, answer.covered), <<says>>, <<>>, left, right) :
            says \in ToSet(ofLeft) \ Range(alignment)}
        \cup {Difference(kind, Classified(says, ofLeft, answer.covered), <<says>>, <<>>, right, left) :
                 says \in ToSet(ofRight) \ DOMAIN alignment}

\* What both runs judged, and judged otherwise.
JudgementDifferences(left, right) ==
    {Difference("evidence_class", "content", <<ById(left.obligations, id).says>>, id, left, right) :
        id \in {i \in DOMAIN left.classes \cap DOMAIN right.classes :
                   left.classes[i] # right.classes[i]}}
    \cup {Difference("defect_verdict", "content", d, <<>>, left, right) :
             d \in {e \in DOMAIN left.kills \cap DOMAIN right.kills : left.kills[e] # right.kills[e]}}

CompareRuns(left, right, answer) ==
    PresenceDifferences("obligation", left, right, TextsIn(left.obligations),
                        TextsIn(right.obligations), answer)
    \cup PresenceDifferences("open_question", left, right, left.questions, right.questions, answer)
    \cup JudgementDifferences(left, right)

OfClass(differences, class) == {d \in differences : d.class = class}

(***************************************************************************)
(* Several runs of one model.                                              *)
(***************************************************************************)

\* The mean of what is there, and how far it is spread if there are two.
MetricStats(values) ==
    LET present == SelectSeq(values, LAMBDA v : v # Absent)
        numbers == {present[n][1] : n \in DOMAIN present}
    IN  IF present = <<>> THEN [mean |-> Absent, spread |-> Absent]
        ELSE [mean |-> <<FoldSeq(LAMBDA v, sum : v[1] + sum, 0, present), Len(present)>>,
              spread |-> IF Len(present) < 2 THEN Absent ELSE <<Max(numbers) - Min(numbers)>>]

\* In how many runs each statement is, given the statements of each run.
PresenceRows(statements) ==
    [subject \in UNION ToSet(statements) |->
        Cardinality({n \in DOMAIN statements : subject \in statements[n]})]

\* Mutant: a later vote about a subject replaces an earlier one.
DistributionOfLast(votes) ==
    LET last(s) == Max({v.run : v \in {w \in votes : w.subject = s}})
    IN  [s \in {v.subject : v \in votes} |->
            LET about == {v \in votes : v.subject = s /\ v.run = last(s)}
            IN  [value \in {v.value : v \in about} |->
                    Cardinality({v \in about : v.value = value})]]

\* How often each value was given, by subject.
Distribution(votes) ==
    [s \in {v.subject : v \in votes} |->
        LET about == {v \in votes : v.subject = s}
        IN  [value \in {v.value : v \in about} |-> Cardinality({v \in about : v.value = value})]]

\* A class is voted for by description, whatever id it was under.
EvidenceVotes(runs) ==
    UNION {{[run |-> n, of |-> id, subject |-> ById(runs[n].obligations, id).says,
             value |-> runs[n].classes[id]] : id \in DOMAIN runs[n].classes} : n \in DOMAIN runs}

DefectVotes(runs) ==
    UNION {{[run |-> n, of |-> d, subject |-> d, value |-> runs[n].kills[d]] :
              d \in DOMAIN runs[n].kills} : n \in DOMAIN runs}

\* The most frequent value: of several, always the same one.
Modal(counts) == CHOOSE c \in DOMAIN counts : \A d \in DOMAIN counts : counts[d] <= counts[c]

\* A model's runs, and what is different between any two.
ModelInstability(runs, answer) ==
    LET earlier == SetToSeq({pair \in (DOMAIN runs) \X (DOMAIN runs) : pair[1] < pair[2]})
        compared == [k \in DOMAIN earlier |->
                        CompareRuns(runs[earlier[k][1]], runs[earlier[k][2]], answer)]
        numbers(class) == [k \in DOMAIN compared |-> <<Cardinality(OfClass(compared[k], class))>>]
    IN  [runs |-> Len(runs),
         obligation_presence |->
            PresenceRows([n \in DOMAIN runs |-> ToSet(TextsIn(runs[n].obligations))]),
         question_presence |-> PresenceRows([n \in DOMAIN runs |-> ToSet(runs[n].questions)]),
         evidence |-> Distribution(EvidenceVotes(runs)), verdicts |-> Distribution(DefectVotes(runs)),
         content |-> MetricStats(numbers("content")), shape |-> MetricStats(numbers("shape"))]

(***************************************************************************)
(* Several models.                                                         *)
(***************************************************************************)

\* A model that says something only sometimes agrees with none that always does.
PresenceLabel(present, total) ==
    CASE present = 0 -> <<"absent">>
      [] present # 0 /\ present = total -> <<"present">>
      [] present # 0 /\ present # total -> <<"unstable", present, total>>

AxisValues(report) ==
    LET modal(counts) == [s \in DOMAIN counts |-> <<Modal(counts[s])>>]
        labels(rows) == [s \in DOMAIN rows |-> PresenceLabel(rows[s], report.runs)]
    IN  [evidence_class |-> modal(report.evidence), defect_verdict |-> modal(report.verdicts),
         obligation_presence |-> labels(report.obligation_presence),
         open_question_presence |-> labels(report.question_presence)]

\* Of the pairs of models, how many agree about each subject on each axis.  A
\* model that has nothing on a subject agrees with none.
CrossModelAgreement(reports) ==
    LET values == [m \in DOMAIN reports |-> AxisValues(reports[m])]
        pairs == kSubset(2, DOMAIN reports)
        agree(axis, subject, pair) ==
            /\ \A m \in pair : subject \in DOMAIN values[m][axis]
            /\ \A m, n \in pair : values[m][axis][subject] = values[n][axis][subject]
    IN  [axis \in {"evidence_class", "defect_verdict", "obligation_presence",
                   "open_question_presence"} |->
            [subject \in UNION {DOMAIN values[m][axis] : m \in DOMAIN reports} |->
                <<Cardinality({pair \in pairs : agree(axis, subject, pair)}),
                  Cardinality(pairs)>>]]

(***************************************************************************)
(* A run of an input that was changed where it should not matter.          *)
(***************************************************************************)

PresenceKinds == {"obligation", "open_question"}

\* Mutant: what only the changed run says is not among what is watched.
WatchedBefore(baseline, differences, perturbed) ==
    Cardinality(ToSet(TextsIn(baseline.obligations)) \cup ToSet(baseline.questions))

\* The statements of the baseline, and those only the changed run has.
Watched(baseline, differences, perturbed) ==
    LET gained == {d.subject : d \in {e \in differences : /\ e.kind \in PresenceKinds
                                                          /\ e.present_in = perturbed.run}}
    IN  Cardinality(ToSet(TextsIn(baseline.obligations)) \cup ToSet(baseline.questions))
            + Cardinality(gained)

\* Of what was watched, by axis, what moved.  Only content counts, a class by
\* obligation and the rest by subject.
PerturbationResult(baseline, perturbed, answer) ==
    LET differences == CompareRuns(baseline, perturbed, answer)
        moved(kinds) == {d \in OfClass(differences, "content") : d.kind \in kinds}
        subjects(kinds) == Cardinality({d.subject : d \in moved(kinds)})
    IN  [presence |-> [watched |-> Watched(baseline, differences, perturbed),
                       changed |-> subjects(PresenceKinds)],
         evidence_class |->
            [watched |-> Cardinality(DOMAIN baseline.classes \cap DOMAIN perturbed.classes),
             changed |-> Cardinality(moved({"evidence_class"}))],
         defect_verdict |->
            [watched |-> Cardinality(DOMAIN baseline.kills \cap DOMAIN perturbed.kills),
             changed |-> subjects({"defect_verdict"})]]

(***************************************************************************)
(* The measurement: runs gives the runs of each model, the first of the    *)
(* first one is the baseline.                                              *)
(***************************************************************************)

IsMeasurable(runs) == runs # <<>> /\ \A m \in DOMAIN runs : Len(runs[m]) >= 2

MeasureInstability(runs, perturbed, answer) ==
    LET reports == [m \in DOMAIN runs |-> ModelInstability(runs[m], answer)]
    IN  [models |-> reports, agreement |-> CrossModelAgreement(reports),
         perturbation |-> PerturbationResult(runs[1][1], perturbed, answer)]
=============================================================================
