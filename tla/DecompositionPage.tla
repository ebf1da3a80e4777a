--------------------------- MODULE DecompositionPage ---------------------------
(***************************************************************************)
(* The page a decompose prints (cli.py, render_decomposition): by          *)
(* requirement, since its reader asks what became of the mandate.  The     *)
(* wording is left out; which line is written, and where, is not.          *)
(***************************************************************************)
EXTENDS ReviewState, Claims, Mandate

\* What stands in the brackets behind an obligation.
Bracket(o) == [type |-> o.type, evidence |-> o.evidence, absent |-> o.absent]

(***************************************************************************)
(* What the mandate yielded, requirement by requirement.                   *)
(***************************************************************************)

\* What yields no obligation raised a question, or was declined.
Summary(dispositions) ==
    LET silent == Unyielding(dispositions)
        questioned == {r \in silent : dispositions[r].questions # <<>>}
    IN  [total |-> Cardinality(DOMAIN dispositions),
         yielding |-> Cardinality(DOMAIN dispositions \ silent),
         questioned |-> Cardinality(questioned),
         declined |-> Cardinality(silent \ questioned)]

\* An obligation under a requirement: what it is, and which others it serves.
\* One that is named and not there says so.
ObligationLine(made, r, id) ==
    IF id \notin IdsOf(made.obligations) THEN [id |-> id, found |-> FALSE]
    ELSE [id |-> id, found |-> TRUE, bracket |-> Bracket(ById(made.obligations, id)),
          others |-> ServedBy(made.dispositions, id) \ {r}]

\* Mutant: questions show only where no obligation does.
RequirementBlockOfOneKind(made, r) ==
    LET disposition == made.dispositions[r]
    IN  [requirement |-> r,
         obligations |-> [n \in DOMAIN disposition.obligations |->
                            ObligationLine(made, r, disposition.obligations[n])],
         questions |-> IF disposition.obligations = <<>> THEN disposition.questions ELSE <<>>,
         declined |-> disposition.obligations = <<>> /\ disposition.questions = <<>>]

RequirementBlock(made, r) ==
    LET disposition == made.dispositions[r]
    IN  [requirement |-> r,
         obligations |-> [n \in DOMAIN disposition.obligations |->
                            ObligationLine(made, r, disposition.obligations[n])],
         questions |-> disposition.questions,
         declined |-> disposition.obligations = <<>> /\ disposition.questions = <<>>]

(***************************************************************************)
(* What belongs to no requirement.                                         *)
(***************************************************************************)

OrphanObligations(made) ==
    Where(made.obligations, LAMBDA o : ServedBy(made.dispositions, o.id) = {})

UnraisedQuestions(made) ==
    LET claimed == UNION {ToSet(made.dispositions[r].questions) : r \in DOMAIN made.dispositions}
    IN  Where(made.questions, LAMBDA q : q.id \notin claimed)

\* Text of the task file that no section took.
UnreadSource(file) == Taken(file, "unclaimed")

(***************************************************************************)
(* The obligations that were built from claims, and what they leave out.   *)
(***************************************************************************)

SynthesizedBlock(rulings, synthesized) ==
    LET cited == UNION {o.claims : o \in ToSet(synthesized)}
    IN  [obligations |-> [n \in DOMAIN synthesized |->
                            [id |-> synthesized[n].id, bracket |-> Bracket(synthesized[n]),
                             claims |-> synthesized[n].claims \cap ClaimsOf(rulings)]],
         background |-> Cardinality(DOMAIN rulings \ ClaimsOf(rulings)),
         uncited |-> ClaimsOf(rulings) \ cited]

(***************************************************************************)
(* The page.  A file without requirements has no map to be shown.          *)
(***************************************************************************)

RenderFlat(made) ==
    [shape |-> "flat", obligations |-> made.obligations, questions |-> made.questions]

RenderMap(file, made) ==
    LET registry == Registry(file)
    IN  [shape |-> "map", summary |-> Summary(made.dispositions),
         blocks |-> [n \in DOMAIN registry |-> RequirementBlock(made, RequirementId(registry[n]))],
         orphans |-> OrphanObligations(made), loose |-> UnraisedQuestions(made),
         unread |-> UnreadSource(file)]

RenderDecomposition(file, made, rulings, synthesized) ==
    [claims |-> SynthesizedBlock(rulings, synthesized),
     rest |-> IF Registry(file) = <<>> THEN RenderFlat(made) ELSE RenderMap(file, made)]

(***************************************************************************)
(* What the run says of itself beside the page: how the requirements were  *)
(* settled, and which of the run it continues are gone.                    *)
(***************************************************************************)

ReportRun(made) ==
    LET settled(kind) == Len(Where(made.records, LAMBDA record : record.kind = kind))
    IN  [carried |-> settled("carried"), revised |-> settled("revised"),
         derived |-> settled("derived"),
         removed |-> {record.text : record \in ToSet(made.removed)}]
=============================================================================
