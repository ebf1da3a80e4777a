------------------------------ MODULE Coverage ------------------------------
(***************************************************************************)
(* What a check makes of the answers about the code: which open questions  *)
(* the change settles (coverage/open_questions.py), how far it responds to *)
(* each obligation (coverage/classify.py), what it does besides            *)
(* (coverage/unrequested.py) and what becomes of that                      *)
(* (coverage/disposition.py).  Answers name hunks by label.                *)
(***************************************************************************)
EXTENDS Change, Linking

(***************************************************************************)
(* Open questions.                                                         *)
(***************************************************************************)

\* The resolutions of an answer.  One of a question nobody asked is ignored; a
\* question that is not answered stays open.
Resolutions(questions, answers, files) ==
    LET heard == Where(answers, LAMBDA a : a.question \in IdsOf(questions))
        silent == Where(questions, LAMBDA q : \A a \in ToSet(heard) : a.question # q.id)
    IN  [n \in DOMAIN heard |->
            [question |-> heard[n].question, resolved |-> heard[n].resolved,
             refs |-> ResolvedRefs(heard[n].refs, files),
             behavior |-> IF heard[n].resolved THEN heard[n].behavior ELSE ""]]
        \o [n \in DOMAIN silent |->
               [question |-> silent[n].id, resolved |-> FALSE, refs |-> {}, behavior |-> ""]]

\* The questions still open: of several resolutions of one, the last stands.
Unresolved(questions, resolutions) ==
    {id \in IdsOf(questions) :
        LET about == {n \in DOMAIN resolutions : resolutions[n].question = id}
        IN  about = {} \/ ~resolutions[Max(about)].resolved}

DerivedObligationId(id) == <<"as implemented">> \o id

\* What a question was settled to mean is an obligation, if the answer says
\* what it is and where.
DerivedObligations(resolutions) ==
    LET found == Where(resolutions,
                           LAMBDA r : r.resolved /\ r.behavior # "" /\ r.refs # {})
    IN  [n \in DOMAIN found |->
            [id |-> DerivedObligationId(found[n].question), says |-> found[n].behavior,
             type |-> "functional", spans |-> {}, absent |-> FALSE,
             evidence |-> "code_and_tests"]]

(***************************************************************************)
(* Coverage of the obligations.                                            *)
(***************************************************************************)

\* An obligation no answer is about is unclear.  A respected boundary has no
\* hunk that supports it, and claims that every hunk was examined.
Coverages(obligations, answers, files) ==
    [id \in IdsOf(obligations) |->
        LET about == {n \in DOMAIN answers : answers[n].obligation = id}
            answer == answers[Max(about)]
            boundary == ById(obligations, id).absent
        IN  IF about = {} THEN [status |-> "unclear", refs |-> {}, examined |-> {}]
            ELSE [status |-> answer.status,
                  refs |-> IF boundary /\ answer.status = "addressed" THEN {}
                           ELSE ResolvedRefs(answer.refs, files),
                  examined |-> IF boundary THEN Labels(files) ELSE {}]]

AddressedRegions(coverages) ==
    UNION {coverages[id].refs : id \in {i \in DOMAIN coverages : coverages[i].status = "addressed"}}

(***************************************************************************)
(* Changes nobody asked for.  One is the set of the hunks it is made of.   *)
(***************************************************************************)

UnrequestedChanges(answers, files) ==
    {ResolvedRefs(a.refs, files) : a \in {b \in ToSet(answers) : ~b.requested}} \ {{}}

IsDocumentation(change, coverages, files) ==
    \A label \in change :
        /\ \E region \in AddressedRegions(coverages) : region[1] = label[1]
        /\ HunkAt(files, label).documents

\* What one file's hunks define, and another changed file imports.
IsImportedElsewhere(change, files) ==
    \E path \in {label[1] : label \in change} :
        /\ \A label \in change : label[1] = path
        /\ \E f \in ToSet(files) : \E h \in ToSet(f.hunks) : \E i \in h.imports :
              /\ f.path # path
              /\ i.module = FileAt(files, path).stem
              /\ \E label \in change : i.name \in HunkAt(files, label).defines

IsTestSupport(change, files) ==
    /\ \A label \in change : /\ FileAt(files, label[1]).category = "test"
                             /\ ~HunkAt(files, label).newTests
    /\ \E f \in ToSet(files) : f.category = "source"

IsPureAddition(change, files) ==
    \A label \in change : FileAt(files, label[1]).status = "added"

\* What can be said of a change without asking: the model judges the rest.
Dispositions(change, coverages, files) ==
    IF \/ change \cap AddressedRegions(coverages) # {}
       \/ IsDocumentation(change, coverages, files)
       \/ IsImportedElsewhere(change, files)
       \/ IsTestSupport(change, files)
    THEN {"in_service"}
    ELSE IF IsPureAddition(change, files) THEN {"separable"}
    ELSE {"in_service", "separable", "risky"}
=============================================================================
