------------------------------- MODULE Linking -------------------------------
(***************************************************************************)
(* requirement/linking.py: pairs of obligations that may state one         *)
(* requirement are put to the model, and the obligations of a component    *)
(* are merged only if every pair in it was confirmed.                      *)
(***************************************************************************)
EXTENDS Lists

\* Work and its absence are never one requirement, nor are two types of work.
CanStateOneRequirement(o, p) ==
    /\ o.absent = p.absent
    /\ o.absent \/ o.type = p.type

\* The pairs worth asking about: admissible by type, and near enough.
Pairs(obligations, far) ==
    {pair \in kSubset(2, DOMAIN obligations) :
        \A i, j \in pair : i # j =>
            /\ CanStateOneRequirement(obligations[i], obligations[j])
            /\ {obligations[i].says, obligations[j].says} \notin far}

\* What makes an obligation the one an answer was about.  An answer is a
\* decision [pair, same] on two of them.
Fingerprint(o) == <<o.id, o.says>>
Asked(obligations, pair) == {Fingerprint(obligations[i]) : i \in pair}

\* The stored decisions on the pairs that are still admissible, and the pairs
\* no decision is stored on.
OnFile(obligations, pairs, decisions) ==
    LET admissible == {Asked(obligations, pair) : pair \in pairs}
    IN  {d \in decisions : d.pair \in admissible}

Unasked(obligations, pairs, decisions) ==
    LET stored == {d.pair : d \in decisions}
    IN  {pair \in pairs : Asked(obligations, pair) \notin stored}

\* The pairs of ids the decisions confirm.
Confirmed(decisions) == {{f[1] : f \in d.pair} : d \in {e \in decisions : e.same}}

\* The obligations joined to one by confirmed pairs: what every set that holds
\* it and is closed under them holds.
Component(ids, confirmed, id) ==
    LET closed == {S \in SUBSET ids :
                      id \in S /\ \A pair \in confirmed : pair \cap S # {} => pair \subseteq S}
    IN  {a \in ids : \A S \in closed : a \in S}

\* Mutant: a component is merged however it hangs together.
CompleteAnyway(members, confirmed) == Cardinality(members) <= 1 + Cardinality(confirmed)

Complete(members, confirmed) == \A a, b \in members : a # b => {a, b} \in confirmed

\* The first of a component stands for all of it, if every pair of it is
\* confirmed; otherwise each member stands for itself.
Survivors(obligations, confirmed) ==
    [id \in IdsOf(obligations) |->
        LET members == Component(IdsOf(obligations), confirmed, id)
        IN  IF Complete(members, confirmed)
            THEN CHOOSE a \in members :
                    \A b \in members : PlaceOf(obligations, a) <= PlaceOf(obligations, b)
            ELSE id]

\* The survivors, each with the spans of those it stands for.
MergedObligations(obligations, survivor) ==
    LET merged == [n \in DOMAIN obligations |->
                     [obligations[n] EXCEPT !.spans =
                        UNION {o.spans : o \in {p \in ToSet(obligations) :
                                                  survivor[p.id] = obligations[n].id}}]]
    IN  Where(merged, LAMBDA o : survivor[o.id] = o.id)

\* Mutant: the dispositions name what was merged away.
NotRelinked(dispositions, survivor) == dispositions

\* The same dispositions, naming survivors.
Relinked(dispositions, survivor) ==
    [r \in DOMAIN dispositions |->
        LET ids == dispositions[r].obligations
        IN  [dispositions[r] EXCEPT !.obligations =
                Distinct([n \in DOMAIN ids |->
                    IF ids[n] \in DOMAIN survivor THEN survivor[ids[n]] ELSE ids[n]])]]
=============================================================================
