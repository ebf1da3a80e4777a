----------------------------- MODULE Enumeration -----------------------------
(***************************************************************************)
(* The ways a change could fail an obligation: defects/enumeration.py asks *)
(* for them or carries them from the continued run, defects/support.py     *)
(* reduces what is known of them to an evidence class, and                 *)
(* coverage/recommendations.py asks for a test for each one nothing        *)
(* catches.  Which tests catch which defects is PairJudging's subject.     *)
(***************************************************************************)
EXTENDS Change, Carry, Claims, Taxonomy

\* What the regions say that a stored set implicates and that still exist.
RegionDigests(labels, files) ==
    [label \in labels \cap Labels(files) |-> HunkAt(files, label).content]

\* Every enumerable type has a checklist of its own.
DefectKey(tool, o, digests) ==
    [prompt |-> tool.prompt, logic |-> tool.logic, says |-> o.says, checklist |-> o.type,
     digests |-> digests]

\* The set stored about what an obligation says, whatever its id was then: of
\* several, the last one.
StoredSets(o, sets) == {n \in DOMAIN sets : sets[n].says = o.says}
StoredSet(o, sets) == sets[Max(StoredSets(o, sets))]

\* Mutant: what the regions say is not compared.
MayCarryBySubject(o, sets, tool, files) ==
    /\ StoredSets(o, sets) # {}
    /\ LET set == StoredSet(o, sets)
       IN  Refusal(TRUE, TRUE, set.key, DefectKey(tool, o, set.digests), TRUE) = "none"

MayCarrySet(o, sets, tool, files) ==
    /\ StoredSets(o, sets) # {}
    /\ LET set == StoredSet(o, sets)
           key == DefectKey(tool, o, RegionDigests(DOMAIN set.digests, files))
       IN  Refusal(TRUE, TRUE, set.key, key, TRUE) = "none"

\* A carried set keeps the ids of its defects.
CarriedSet(o, sets) == [StoredSet(o, sets) EXCEPT !.obligation = o.id, !.carried = TRUE]

\* The set of an answer.  A defect implicates only regions that were shown.
EnumeratedSet(o, answer, tool, files) ==
    LET ids == Minted([n \in DOMAIN answer |-> <<o.id, answer[n].slug>>], {})
        defects == [n \in DOMAIN answer |->
                      [id |-> ids[n], type |-> DefectType(answer[n].type),
                       refs |-> ResolvedRefs(answer[n].refs, files)]]
        digests == RegionDigests(UNION {d.refs : d \in ToSet(defects)}, files)
    IN  [obligation |-> o.id, says |-> o.says, defects |-> defects, digests |-> digests,
         key |-> DefectKey(tool, o, digests), carried |-> FALSE]

DefectsOf(sets) == UNION {IdsOf(set.defects) : set \in ToSet(sets)}

(***************************************************************************)
(* Evidence.                                                               *)
(***************************************************************************)

RequiresTests(o) == o.evidence \in {"code_and_tests", "tests_only"}
RequiresCode(o) == o.evidence \in {"code_and_tests", "code_only"}

\* The class of a set of defects, of which some are caught and some have a
\* test that was never judged.
SupportClass(defects, caught, unanswered) ==
    IF defects = {} THEN "no_plausible_defect"
    ELSE IF defects \subseteq caught THEN "strongly_supported"
    ELSE IF defects \cap caught # {} THEN "partially_supported"
    ELSE IF defects \cap unanswered # {} THEN "indeterminate"
    ELSE "unsupported"

\* The last set of an obligation stands; an obligation that has none was not
\* looked at.
SetsOf(o, sets) == {n \in DOMAIN sets : sets[n].obligation = o.id}
LastDefects(o, sets) == IdsOf(sets[Max(SetsOf(o, sets))].defects)

Support(o, sets, caught, unanswered) ==
    IF ~RequiresTests(o) THEN "none"
    ELSE IF SetsOf(o, sets) = {} THEN "indeterminate"
    ELSE SupportClass(LastDefects(o, sets), caught, unanswered)

\* The defects a test is to be prescribed for.
UncoveredDefects(obligations, sets, caught) ==
    {d \in UNION {{[obligation |-> set.obligation, defect |-> id] : id \in IdsOf(set.defects)} :
                     set \in ToSet(sets)} :
        /\ d.defect \notin caught
        /\ \E o \in ToSet(obligations) : o.id = d.obligation /\ RequiresTests(o)}
=============================================================================
