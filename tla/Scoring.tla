------------------------------- MODULE Scoring -------------------------------
(***************************************************************************)
(* The benchmark: a review is held against what a person says it should    *)
(* have said (benchmark/case.py).  Which statement of the review is which  *)
(* label is for the model to say (benchmark/alignment.py,                  *)
(* benchmark/defect_scoring.py); the rest is counting                      *)
(* (benchmark/scoring.py).  A share is the pair of its two counts.         *)
(*                                                                         *)
(* The family of counts that compares tests by obligation is left out: a   *)
(* review here does not say which test is of which obligation.             *)
(***************************************************************************)
EXTENDS Report, Mandate

(***************************************************************************)
(* Labels: sequences, each element with an id.                             *)
(***************************************************************************)

DistinctIds(seq) == Cardinality(IdsOf(seq)) = Len(seq)

\* What a labelled defect may say: it is of a labelled obligation that some
\* defect of is plausible, and caught by tests the case has.
DefectLabelsHold(labels) ==
    LET tests == UNION {o.tests : o \in ToSet(labels.obligations)}
    IN  /\ DistinctIds(labels.defects)
        /\ \A d \in ToSet(labels.defects) :
              /\ d.about \in IdsOf(labels.obligations)
              /\ ~ById(labels.obligations, d.about).hopeless
              /\ d.killed \subseteq tests

AreLabels(labels) ==
    /\ \A part \in {"obligations", "gaps", "questions", "unrequested", "defects"} :
          IsList(labels[part])
    /\ labels.obligations # <<>>
    /\ \A part \in {"obligations", "gaps", "questions", "unrequested"} : DistinctIds(labels[part])
    /\ \A g \in ToSet(labels.gaps) : g.about \in IdsOf(labels.obligations) \cup {"none"}
    /\ DefectLabelsHold(labels)

\* A case whose task file yields no requirement is not run, and has no score.
IsRunnable(blocks) == Registry(blocks) # <<>>

(***************************************************************************)
(* Which statement is which.                                               *)
(***************************************************************************)

\* Of an answer, the pairs that name what was shown; of several about one
\* statement of either side, the first.
KeptMatches(matches, truth, reported) ==
    LET kept[n \in 0..Len(matches)] ==
            IF n = 0 THEN <<>>
            ELSE LET m == matches[n]
                     free == \A k \in ToSet(kept[n - 1]) :
                                k.truth # m.truth /\ k.reported # m.reported
                 IN  IF m.truth \in DOMAIN truth /\ m.reported \in DOMAIN reported /\ free
                     THEN Append(kept[n - 1], m) ELSE kept[n - 1]
    IN  kept[Len(matches)]

\* Pairs of places as a map from one name to the other: of several places with
\* one name, the last pair stands.
ByName(kept, truth, reported) ==
    [name \in {reported[m.reported] : m \in ToSet(kept)} |->
        truth[Last(SelectSeq(kept, LAMBDA m : reported[m.reported] = name)).truth]]

AlignedTexts(truth, reported, matches) ==
    ByName(KeptMatches(matches, truth, reported), truth, reported)

TextsIn(seq) == [n \in DOMAIN seq |-> seq[n].says]
IdSeq(seq) == [n \in DOMAIN seq |-> seq[n].id]

AlignedDefects(labelled, recorded, matches) ==
    AlignedTexts(IdSeq(labelled), IdSeq(recorded), matches)

(***************************************************************************)
(* Counts, by family.                                                      *)
(***************************************************************************)

Counts(truth, reported) ==
    [matched |-> Cardinality(truth \cap reported), truth |-> Cardinality(truth),
     reported |-> Cardinality(reported)]

Remapped(says, alignment) == IF says \in DOMAIN alignment THEN alignment[says] ELSE says

\* A gap is found by a finding about its obligation; one of no obligation is
\* known by its id, which no finding has.
GapCounts(labels, review, alignment) ==
    Counts({IF g.about = "none" THEN g.id ELSE ById(labels.obligations, g.about).says :
              g \in ToSet(labels.gaps)},
           {Remapped(says, alignment) : says \in UNION {f.about : f \in review.findings}})

\* Changes nobody asked for are known by their files.
UnrequestedCounts(labels, review) ==
    Counts({u.file : u \in ToSet(labels.unrequested)},
           {link.ref[1] : link \in {l \in UNION {f.links : f \in
                {g \in review.findings : g.type = "unrequested_change"}} : l.kind = "code"}})

DecompositionCounts(labels, review, alignment) ==
    Counts(ToSet(TextsIn(labels.obligations)),
           {Remapped(o.says, alignment) : o \in ToSet(review.obligations)})

EvidenceCounts(labels, review, alignment) ==
    Counts({<<l.says, l.class>> : l \in ToSet(labels.obligations)},
           {<<Remapped(o.says, alignment), review.class[o.id]>> :
              o \in {p \in ToSet(review.obligations) : review.class[p.id] # "none"}})

\* Only the obligations count whose type somebody judged.
TypeCounts(labels, review, alignment) ==
    LET judged == {l \in ToSet(labels.obligations) : l.type # "none"}
    IN  Counts({<<l.says, l.type>> : l \in judged},
               {<<Remapped(o.says, alignment), o.type>> :
                  o \in {p \in ToSet(review.obligations) :
                           Remapped(p.says, alignment) \in {l.says : l \in judged}}})

Names(label, id) == id = label.id \/ id \in label.aliases

\* Mutant: what is counted is the questions raised, by whatever name.
QuestionCountsByRaised(labels, review) ==
    LET expected == {q \in ToSet(labels.questions) : q.raise}
        raised == IdsOf(review.questions)
        matched == Cardinality({id \in raised : \E q \in expected : Names(q, id)})
        charged == Cardinality({id \in raised :
                                  \E q \in ToSet(labels.questions) \ expected : Names(q, id)})
    IN  [matched |-> matched, truth |-> Cardinality(expected), reported |-> matched + charged]

\* A question that must be raised and is, is matched; one that must not be and is,
\* is charged.  Of a question nobody has labelled nothing is said.
QuestionCounts(labels, review) ==
    LET expected == {q \in ToSet(labels.questions) : q.raise}
        raised == IdsOf(review.questions)
        matched == Cardinality({q \in expected : \E id \in raised : Names(q, id)})
        charged == Cardinality({id \in raised :
                                  \E q \in ToSet(labels.questions) \ expected : Names(q, id)})
    IN  [matched |-> matched, truth |-> Cardinality(expected), reported |-> matched + charged]

AllCounts(labels, review, matches) ==
    LET alignment == AlignedTexts(TextsIn(labels.obligations), TextsIn(review.obligations), matches)
    IN  [gap |-> GapCounts(labels, review, alignment),
         decomposition |-> DecompositionCounts(labels, review, alignment),
         evidence |-> EvidenceCounts(labels, review, alignment),
         unrequested |-> UnrequestedCounts(labels, review),
         open_question |-> QuestionCounts(labels, review),
         type |-> TypeCounts(labels, review, alignment)]

(***************************************************************************)
(* Figures.  One that is undefined is absent, which is not none of all.    *)
(***************************************************************************)

Families == {"gap", "decomposition", "evidence", "unrequested", "open_question", "type"}

Absent == <<>>
Share(part, whole) == IF whole = 0 THEN Absent ELSE <<part, whole>>
Recall(counts) == Share(counts.matched, counts.truth)
Precision(counts) == Share(counts.matched, counts.reported)

\* The counts of several cases are added up before they are divided.
NoCounts == [family \in Families |-> Counts({}, {})]
Pooled(one, others) ==
    [family \in Families |->
        [part \in {"matched", "truth", "reported"} |-> one[family][part] + others[family][part]]]

FiguresOf(counts) ==
    [family \in DOMAIN counts |->
        [recall |-> Recall(counts[family]), precision |-> Precision(counts[family])]]

(***************************************************************************)
(* Defects.  What the review recorded is one figure, and what it says      *)
(* catches them another.                                                   *)
(***************************************************************************)

RecordedDefects(review) == FlattenSeq([n \in DOMAIN review.sets |-> review.sets[n].defects])

EnumerationRecall(labelled, alignment) ==
    Share(Cardinality({d \in ToSet(labelled) : d.id \in Range(alignment)}), Len(labelled))

RecallByType(labelled, alignment) ==
    [type \in {d.type : d \in ToSet(labelled)} |->
        EnumerationRecall(SelectSeq(labelled, LAMBDA d : d.type = type), alignment)]

\* Of the matched defects, how many have the labelled type.
TypeAgreement(labelled, recorded, alignment) ==
    Share(Cardinality({id \in DOMAIN alignment :
                         SelectLastInSeq(recorded, LAMBDA d : d.id = id) \in
                            {n \in DOMAIN recorded :
                                recorded[n].type = ById(labelled, alignment[id]).type}}),
          Cardinality(DOMAIN alignment))

OtherShare(recorded) == Share(Len(SelectSeq(recorded, LAMBDA d : d.type = "other")), Len(recorded))

\* Two sets of tests that are both empty agree.
Jaccard(predicted, expected) ==
    IF predicted \cup expected = {} THEN <<1, 1>>
    ELSE <<Cardinality(predicted \cap expected), Cardinality(predicted \cup expected)>>

\* How far the tests predicted to catch a defect are those that do: the mean of
\* these, over the matched defects something was predicted of.
KillAgreement(labelled, alignment, predicted) ==
    LET both == {r \in DOMAIN alignment \cap DOMAIN predicted : alignment[r] \in IdsOf(labelled)}
    IN  IF both = {} THEN Absent
        ELSE [id \in {alignment[r] : r \in both} |->
                LET r == CHOOSE s \in both : alignment[s] = id
                IN  Jaccard(predicted[r], ById(labelled, id).killed)]

ScoreDefects(labelled, recorded, alignment, predicted) ==
    [enumeration_recall |-> EnumerationRecall(labelled, alignment),
     recall_by_type |-> RecallByType(labelled, alignment),
     type_agreement |-> TypeAgreement(labelled, recorded, alignment),
     other_share |-> OtherShare(recorded),
     kill_agreement |-> KillAgreement(labelled, alignment, predicted),
     labelled |-> Len(labelled), recorded |-> Len(recorded),
     matched |-> Cardinality(DOMAIN alignment), predicted |-> Cardinality(DOMAIN predicted)]

\* A review that recorded nothing of what is labelled missed it all.
DefectScore(labels, review, matches, predicted) ==
    LET recorded == RecordedDefects(review)
    IN  IF labels.defects = <<>> THEN Absent
        ELSE ScoreDefects(labels.defects, recorded,
                          AlignedDefects(labels.defects, recorded, matches), predicted)

(***************************************************************************)
(* A set of cases.  A case is its labels, the review of it, how the two    *)
(* match, and whether the review was recorded or replayed.                 *)
(***************************************************************************)

CountsOf(case) == AllCounts(case.labels, case.review, case.matches)

\* What the review says catches each defect may be missing (`predicted`).
ScoreCase(case, predicted) ==
    [figures |-> FiguresOf(CountsOf(case)),
     defects |-> DefectScore(case.labels, case.review, case.matches, predicted)]

\* The figures of a set are of its counts; of the defects it has none, as shares
\* cannot be added up.  Recorded and replayed reviews are not one set, and such a
\* set has no score.
ScoreCaseSet(cases) ==
    LET modes == {case.mode : case \in ToSet(cases)}
    IN  IF Cardinality(modes) > 1 THEN Absent
        ELSE [case_count |-> Len(cases), modes |-> modes,
              figures |-> FiguresOf(FoldSeq(LAMBDA case, pooled : Pooled(CountsOf(case), pooled),
                                            NoCounts, cases)),
              per_case |-> [n \in DOMAIN cases |-> ScoreCase(cases[n], <<>>)]]
=============================================================================
