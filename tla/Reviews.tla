------------------------------- MODULE Reviews -------------------------------
(***************************************************************************)
(* Stored reviews, by the revision they are of: review_store.py keeps      *)
(* them, rerun.py finds the one a new check builds on and says what moved. *)
(***************************************************************************)
EXTENDS Integers, SequencesExt, FiniteSetsExt

CONSTANTS
    WorkingTree,   \* what a review of uncommitted work is stored under
    Ancestors      \* of each revision: its ancestors, itself one of them, and
                   \* how many commits away each is

NoReview == [form |-> "none"]

\* A file that does not parse is not one of an older schema: reading it raises.
Torn == [form |-> "torn"]

Stored(reviews, revision) == IF revision \in DOMAIN reviews THEN reviews[revision] ELSE NoReview

\* Every stored review is read, but the one that will be replaced.
ScanFails(reviews, head) == \E r \in DOMAIN reviews \ {head} : reviews[r] = Torn

\* The reviews of the nearest ancestor that are of the same task file.
Predecessors(reviews, head, anchor, file) ==
    LET candidates == {r \in DOMAIN reviews \ {head} :
                          /\ r \in DOMAIN Ancestors[anchor]
                          /\ reviews[r].form = "whole" /\ reviews[r].task = file}
    IN  {r \in candidates : \A s \in candidates : Ancestors[anchor][r] <= Ancestors[anchor][s]}

\* Mutant: every prescription of the earlier review is taken over.
EveryRecommendation(prior, unobtained, prescribed) ==
    IF prior.form = "none" THEN {} ELSE prior.recommended

\* The prescriptions a new check takes over: for what it was owed one for and
\* did not get.
CarriedRecommendations(prior, unobtained, prescribed) ==
    IF prior.form = "none" THEN {}
    ELSE {r \in prior.recommended : /\ \E u \in unobtained : u.defect = r.defect
                                    /\ \A p \in prescribed : p.defect # r.defect}

\* What moved: the obligations that were there before and stand otherwise now.
NoDelta == <<>>
Delta(prior, status, class, verdict) ==
    IF prior.form = "none" THEN NoDelta
    ELSE LET moved == {id \in DOMAIN prior.status \cap DOMAIN status :
                          prior.status[id] # status[id] \/ prior.class[id] # class[id]}
         IN  [from |-> prior.head, previous |-> prior.verdict, verdict |-> verdict,
              changes |-> [id \in moved |->
                              [was |-> [status |-> prior.status[id], class |-> prior.class[id]],
                               now |-> [status |-> status[id], class |-> class[id]]]]]
=============================================================================
