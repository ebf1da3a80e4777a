---------------------------- MODULE Check_proofs ----------------------------
(***************************************************************************)
(* What Check promises of what it decides, for every task file, change,    *)
(* answer and history: that what is merged was confirmed and nothing stale *)
(* is kept, that a clean verdict is earned and a gap advised, that what a  *)
(* review points at is there, and that what is stored reads back.          *)
(***************************************************************************)
EXTENDS Records_proofs

(***************************************************************************)
(* What is merged was confirmed.                                           *)
(***************************************************************************)

\* Decisions say yes or no.
IsDecision(d) == \E same \in BOOLEAN : d = [pair |-> d.pair, same |-> same]
DecisionsShape ==
    /\ \A d \in merges : IsDecision(d)
    /\ \A n \in DOMAIN ledger : \A d \in ledger[n].decisions : IsDecision(d)

\* Before anything is merged, what was derived for a requirement is there, under
\* an id of its own, and is named.
RequirementOf(n) == RequirementId(Requirements[n])
Stands ==
    /\ Apart(made.obligations)
    /\ \A n \in DOMAIN made.records :
          /\ RequirementOf(n) \in DOMAIN made.dispositions
          /\ ToSet(made.records[n].obligations) \subseteq ToSet(made.obligations)
          /\ IdsOf(made.records[n].obligations) \subseteq
                ToSet(made.dispositions[RequirementOf(n)].obligations)

Merging ==
    /\ Apart(fresh) /\ DecisionsShape /\ MergedMeansConfirmed
    /\ step = "linking" => Stands

\* Linking decides yes or no.
LEMMA LinkedDecisions ==
    ASSUME DecisionsShape, Link
    PROVE  \A d \in merges' : IsDecision(d)
<1> DEFINE os == made.obligations
           pairs == Pairs(os, Far)
           stored == IF Readable(run.from) THEN Entry(run.from).decisions ELSE {}
           unasked == Unasked(os, pairs, stored)
           onFile == OnFile(os, pairs, stored)
           given(answer) == {pair \in DOMAIN answer : answer[pair] # "none"}
           said(answer) == {[pair |-> Asked(os, pair), same |-> answer[pair] = "same"] :
                              pair \in given(answer)}
<1>1. \A d \in stored : IsDecision(d)
  BY DEF DecisionsShape, Readable, Entry
<1>2. \A d \in onFile : IsDecision(d)
  BY <1>1 DEF OnFile
<1>3. CASE UNCHANGED merges
  BY <1>3 DEF DecisionsShape
<1>4. ASSUME NEW answer \in [unasked -> {"same", "different", "none"}],
             merges' = onFile \cup said(answer)
      PROVE  \A d \in merges' : IsDecision(d)
  <2>1. ASSUME NEW d \in said(answer) PROVE IsDecision(d)
    <3>1. PICK pair \in given(answer) :
             d = [pair |-> Asked(os, pair), same |-> answer[pair] = "same"]
      OBVIOUS
    <3>2. d.pair = Asked(os, pair)
      BY <3>1
    <3>3. CASE answer[pair] = "same"
      <4>1. d = [pair |-> d.pair, same |-> TRUE]
        BY <3>1, <3>2, <3>3
      <4>. QED
        BY <4>1 DEF IsDecision
    <3>4. CASE answer[pair] # "same"
      <4>1. d = [pair |-> d.pair, same |-> FALSE]
        BY <3>1, <3>2, <3>4
      <4>. QED
        BY <4>1 DEF IsDecision
    <3>. QED
      BY <3>3, <3>4
  <2> HIDE DEF said, onFile
  <2>. QED
    BY <1>2, <1>4, <2>1
<1>. QED
  BY <1>3, <1>4 DEF Link

\* So does whatever is on record.
LEMMA DecisionsKept ==
    ASSUME Inv, DecisionsShape, [Next]_vars
    PROVE  DecisionsShape'
<1>1. \A d \in merges' : IsDecision(d)
  <2>1. NothingRead => merges' = {}
    BY DEF NothingRead
  <2>2. UNCHANGED readVars \/ PlanCarry \/ AskAbout \/ DecideSpans \/ AskSpan \/ Reconcile
           => UNCHANGED merges
    BY DEF readVars, PlanCarry, AskAbout, DecideSpans, AskSpan, Reconcile
  <2>3. UNCHANGED merges => \A d \in merges' : IsDecision(d)
    BY DEF DecisionsShape
  <2>. QED
    BY <2>1, <2>2, <2>3, LinkedDecisions, ReadingChanges
<1>2. ASSUME NEW n \in DOMAIN ledger', NEW d \in ledger'[n].decisions PROVE IsDecision(d)
  <2>1. \A file : Blank(file).decisions = {}
    BY DEF Blank
  <2>2. \A sets : LedgerEntry(sets).decisions = merges
    BY DEF LedgerEntry
  <2>. QED
    BY <1>2, <2>1, <2>2, EntriesChange DEF DecisionsShape
<1>. QED
  BY <1>1, <1>2 DEF DecisionsShape

\* What was put together stands.
LEMMA ReconciledStands ==
    ASSUME RunShape, ReadShape, Apart(fresh), Reconcile, step' = "linking"
    PROVE  Stands'
<1>1. /\ FirstFault(Requirements) = "none"
      /\ made' = [obligations |-> ReconciledOs, questions |-> ReconciledQs,
                  dispositions |-> settled,
                  records |-> Records(Requirements, ReconciledOs, ReconciledQs),
                  removed |-> plan.removed]
  BY Reconciling DEF Outcomes
<1> DEFINE records == Records(Requirements, ReconciledOs, ReconciledQs)
<1>2. /\ made'.obligations = ReconciledOs /\ made'.dispositions = settled
      /\ made'.records = records
  BY <1>1
<1>3. Requirements' = Requirements
  BY DEF Reconcile, Requirements
<1>4. /\ AreObligations(ReconciledOs)
      /\ \A r \in ToSet(Requirements) :
            RequirementId(r) \in DOMAIN settled /\ IsAccount(settled[RequirementId(r)])
  BY <1>1, ReconciledHas DEF ReadShape, Backed
<1>5. /\ DOMAIN records = DOMAIN Requirements
      /\ \A n \in DOMAIN Requirements :
            records[n].obligations = Picked(settled[RequirementOf(n)].obligations, ReconciledOs)
  BY <1>4, RecordsAre DEF RequirementOf
<1> HIDE DEF records
<1>6. ASSUME NEW n \in DOMAIN Requirements
      PROVE  /\ RequirementOf(n) \in DOMAIN settled
             /\ ToSet(records[n].obligations) \subseteq ToSet(ReconciledOs)
             /\ IdsOf(records[n].obligations) \subseteq ToSet(settled[RequirementOf(n)].obligations)
  <2>1. RequirementOf(n) \in DOMAIN settled /\ IsList(settled[RequirementOf(n)].obligations)
    BY <1>4 DEF RequirementOf, ToSet, IsAccount
  <2>. QED
    BY <1>5, <2>1, PickedHas
<1>7. Apart(ReconciledOs)
  BY <1>1, ReconciledApart
<1>. QED
  BY <1>2, <1>3, <1>5, <1>6, <1>7 DEF Stands, RequirementOf

\* What stands has been merged with nothing.
LEMMA StandingIsConfirmed == Stands => MergedMeansConfirmed
<1> SUFFICES ASSUME Stands,
                    NEW n \in DOMAIN made.records, NEW o \in ToSet(made.records[n].obligations)
             PROVE  /\ o \in ToSet(made.obligations)
                    /\ o.id \in ToSet(made.dispositions[RequirementId(Requirements[n])].obligations)
  BY DEF MergedMeansConfirmed
<1>1. o.id \in IdsOf(made.records[n].obligations)
  BY IdsAre
<1>. QED
  BY <1>1 DEF Stands, RequirementOf

\* Linking merges an obligation with one the model said is the same.
LEMMA LinkedIsConfirmed ==
    ASSUME ReadShape, Stands, NEW decisions, Linked(decisions), \A d \in decisions : IsDecision(d),
           Requirements' = Requirements
    PROVE  MergedMeansConfirmed'
<1> DEFINE os == made.obligations
           survivor == Survivors(os, Confirmed(decisions))
<1>1. /\ made'.obligations = MergedObligations(os, survivor)
      /\ made'.dispositions = Relinked(made.dispositions, survivor)
      /\ made'.records = made.records /\ merges' = decisions
      /\ DOMAIN survivor = IdsOf(os)
      /\ \A id \in IdsOf(os) :
            /\ survivor[id] \in IdsOf(made'.obligations)
            /\ survivor[id] # id => {id, survivor[id]} \in Confirmed(decisions)
  BY LinkedHas DEF Linked
<1>2. IsMade(made) /\ AreObligations(os)
  BY DEF ReadShape, IsMade
<1> HIDE DEF survivor
<1> SUFFICES ASSUME NEW n \in DOMAIN made.records, NEW o \in ToSet(made.records[n].obligations)
             PROVE  \E kept \in ToSet(made'.obligations) :
                      /\ kept.id \in ToSet(made'.dispositions[RequirementOf(n)].obligations)
                      /\ kept.id # o.id =>
                            /\ CanStateOneRequirement(o, kept)
                            /\ [pair |-> {Fingerprint(o), Fingerprint(kept)}, same |-> TRUE] \in merges'
                            /\ o.spans \subseteq kept.spans
  BY <1>1 DEF MergedMeansConfirmed, RequirementOf
<1>3. /\ RequirementOf(n) \in DOMAIN made.dispositions /\ o \in ToSet(os)
      /\ o.id \in ToSet(made.dispositions[RequirementOf(n)].obligations) /\ o.id \in IdsOf(os)
  BY IdsAre DEF Stands
<1>4. PICK kept \in ToSet(made'.obligations) : kept.id = survivor[o.id]
  BY <1>1, <1>3, IdsAre
<1>5. kept.id \in ToSet(made'.dispositions[RequirementOf(n)].obligations)
  <2>1. Through(survivor, o.id) \in ToSet(made'.dispositions[RequirementOf(n)].obligations)
    <3> DEFINE which == RequirementOf(n)
    <3>1. which \in DOMAIN made.dispositions /\ IsAccount(made.dispositions[which])
      BY <1>2, <1>3 DEF IsMade
    <3> HIDE DEF which
    <3>2. /\ which \in DOMAIN made.dispositions /\ IsAccount(made.dispositions[which])
          /\ o.id \in ToSet(made.dispositions[which].obligations)
      BY <1>3, <3>1 DEF which
    <3>3. Through(survivor, o.id) \in ToSet(Relinked(made.dispositions, survivor)[which].obligations)
      BY <3>2, RelinkedHas
    <3>. QED
      BY <1>1, <3>3 DEF which
  <2>2. Through(survivor, o.id) = survivor[o.id]
    BY <1>1, <1>3 DEF Through
  <2>. QED
    BY <1>4, <2>1, <2>2
<1>6. PICK p \in ToSet(os) :
         /\ kept.id = p.id /\ kept.says = p.says /\ kept.type = p.type /\ kept.absent = p.absent
         /\ \A q \in ToSet(os) : survivor[q.id] = p.id => q.spans \subseteq kept.spans
  <2>1. kept \in ToSet(MergedObligations(os, survivor)) /\ AreObligations(os)
    BY <1>1, <1>2, <1>4
  <2> HIDE DEF os
  <2>2. StandsFor(kept, os, survivor)
    BY <2>1, MergedHas
  <2>. QED
    BY <2>2 DEF StandsFor
<1>7. ASSUME kept.id # o.id
      PROVE  /\ CanStateOneRequirement(o, kept)
             /\ [pair |-> {Fingerprint(o), Fingerprint(kept)}, same |-> TRUE] \in merges'
             /\ o.spans \subseteq kept.spans
  <2>1. {o.id, p.id} \in Confirmed(decisions) /\ o.id # p.id
    BY <1>1, <1>3, <1>4, <1>6, <1>7
  <2>2. PICK d \in decisions : \E places \in Pairs(os, Far) :
           /\ d.same /\ d.pair = Asked(os, places) /\ {o.id, p.id} = {os[i].id : i \in places}
    <3> DEFINE pair == {o.id, p.id}
    <3>1. pair \in Confirmed(decisions)
      BY <2>1
    <3> HIDE DEF pair
    <3>2. \E d \in decisions : \E places \in Pairs(os, Far) :
             d.same /\ d.pair = Asked(os, places) /\ pair = {os[i].id : i \in places}
      BY <3>1, ConfirmedAre
    <3>. QED
      BY <3>2 DEF pair
  <2>3. PICK places \in Pairs(os, Far) :
           d.same /\ d.pair = Asked(os, places) /\ {o.id, p.id} = {os[i].id : i \in places}
    BY <2>2
  <2>4. places \subseteq DOMAIN os
    BY DEF Pairs, kSubset
  <2>5. \A i \in places : os[i] \in ToSet(os)
    BY <2>4 DEF ToSet
  <2>6. \A i \in places : os[i] \in {o, p}
    BY <1>3, <1>6, <2>3, <2>5 DEF Stands, Apart
  <2>7. PICK i \in places, j \in places : os[i].id = o.id /\ os[j].id = p.id
    BY <2>3
  <2>8. os[i] = o /\ os[j] = p /\ i # j
    BY <2>1, <2>6, <2>7
  <2>9. CanStateOneRequirement(o, kept)
    <3>1. CanStateOneRequirement(os[i], os[j])
      BY <2>8 DEF Pairs
    <3>. QED
      BY <1>6, <2>8, <3>1 DEF CanStateOneRequirement
  <2>10. d.pair = {Fingerprint(o), Fingerprint(kept)}
    <3>1. Fingerprint(kept) = Fingerprint(p)
      BY <1>6 DEF Fingerprint
    <3>2. d.pair = {Fingerprint(os[k]) : k \in places}
      BY <2>3 DEF Asked
    <3>3. {Fingerprint(os[k]) : k \in places} = {Fingerprint(o), Fingerprint(p)}
      BY <2>6, <2>7, <2>8
    <3>. QED
      BY <3>1, <3>2, <3>3
  <2>11. d = [pair |-> d.pair, same |-> TRUE]
    <3>1. PICK same \in BOOLEAN : d = [pair |-> d.pair, same |-> same]
      BY <2>2 DEF IsDecision
    <3>2. d.same = same
      BY <3>1
    <3>3. same
      BY <2>3, <3>2
    <3>4. same = TRUE
      BY <3>3
    <3>. QED
      BY <3>1, <3>4
  <2>12. [pair |-> {Fingerprint(o), Fingerprint(kept)}, same |-> TRUE] \in merges'
    BY <1>1, <2>10, <2>11
  <2>13. o.spans \subseteq kept.spans
    BY <1>3, <1>4, <1>6
  <2>. QED
    BY <2>9, <2>12, <2>13
<1>. QED
  BY <1>5, <1>7

\* And after a step.
LEMMA StillConfirmed == Stands' => MergedMeansConfirmed'
BY StandingIsConfirmed, PTL

\* Only what was put together is linked.
LEMMA LinkingIsReached ==
    ASSUME [Next]_vars, step' = "linking"
    PROVE  step = "linking" \/ Reconcile
<1>1. CASE StartDecompose \/ StartCheck
  BY <1>1 DEF StartDecompose, StartCheck, Begin, Admission
<1>2. CASE ReadingStep
  BY <1>2 DEF ReadingStep, PlanCarry, AskAbout, DecideSpans, AskSpan, SummaryDone, Link, Record,
              WriteLedger, BuildClaims, Synthesize
<1>3. CASE Judging
  BY <1>3 DEF Judging, ResolveQuestions, EnumerateDefects, JudgeDefects, ClassifyCoverage,
              DetectUnrequested, PrescribeTests, StoreReview, RecordCheck, WriteLedger
<1>4. CASE CallFails \/ Kill
  BY <1>4 DEF CallFails, Kill
<1>5. CASE Finished \/ UNCHANGED vars
  BY <1>5 DEF Finished, vars, decomposeVars
<1>. QED
  BY <1>1, <1>2, <1>3, <1>4, <1>5 DEF Next

\* What was merged stays confirmed.
LEMMA MergingKept ==
    ASSUME Inv, ReadShape, Merging, [Next]_vars
    PROVE  Merging'
<1>1. Apart(fresh') /\ DecisionsShape'
  BY ApartKept, DecisionsKept DEF Merging
<1>2. RunShape
  BY DEF Inv
<1>3. CASE NothingRead
  <2>1. made' = Nothing
    BY <1>3 DEF NothingRead
  <2>2. MergedMeansConfirmed'
    BY <2>1 DEF MergedMeansConfirmed, Nothing
  <2>3. Stands'
    BY <2>1 DEF Stands, Nothing, Apart, ToSet
  <2>. QED
    BY <1>1, <2>2, <2>3 DEF Merging
<1>4. CASE UNCHANGED <<run, made, merges>> /\ (step' = "linking" => step = "linking")
  BY <1>1, <1>4 DEF Merging, MergedMeansConfirmed, Stands, RequirementOf, Requirements
<1>5. CASE Reconcile
  <2>1. CASE step' = "linking"
    BY <1>1, <1>2, <1>5, <2>1, ReconciledStands, StillConfirmed DEF Merging
  <2>2. CASE step' # "linking"
    <3>1. UNCHANGED <<run, made, merges>>
      BY <1>2, <1>5, <2>2, Reconciling DEF Reconcile
    <3>. QED
      BY <1>4, <2>2, <3>1
  <2>. QED
    BY <2>1, <2>2
<1>6. CASE Link
  <2>1. step = "linking" /\ step' # "linking" /\ Requirements' = Requirements /\ UNCHANGED run
    BY <1>6 DEF Link, Requirements
  <2>2. Stands
    BY <2>1 DEF Merging
  <2>3. CASE UNCHANGED <<made, merges>>
    BY <1>4, <2>1, <2>3
  <2>4. ASSUME NEW decisions, Linked(decisions) PROVE MergedMeansConfirmed'
    <3>1. \A d \in decisions : IsDecision(d)
      BY <1>6, <2>4, LinkedDecisions DEF Merging, Linked
    <3>. QED
      BY <2>1, <2>2, <2>4, <3>1, LinkedIsConfirmed
  <2>. QED
    BY <1>1, <1>6, <2>1, <2>3, <2>4, LinkingDecides DEF Merging
<1>7. PlanCarry \/ AskAbout \/ DecideSpans \/ AskSpan
         => UNCHANGED <<run, made, merges>> /\ step' # "linking"
  BY DEF PlanCarry, AskAbout, DecideSpans, AskSpan
<1>8. CASE UNCHANGED readVars
  BY <1>4, <1>5, <1>8, LinkingIsReached DEF readVars
<1>. QED
  BY <1>3, <1>4, <1>5, <1>6, <1>7, <1>8, ReadingChanges

\* Two obligations become one only if the model said of these two that they state
\* the same requirement, whatever was decided of others.
THEOREM MergesAreConfirmed == Spec => []MergedMeansConfirmed
<1>1. Init => Merging
  <2> SUFFICES ASSUME Init PROVE Merging
    OBVIOUS
  <2>1. /\ fresh = <<>> /\ merges = {} /\ made = Nothing /\ step = "idle" /\ DOMAIN ledger = {}
    BY DEF Init, InitDecompose
  <2>. QED
    BY <2>1 DEF Merging, Apart, ToSet, DecisionsShape, MergedMeansConfirmed, Nothing
<1>2. Merging /\ ReadShape /\ Inv /\ [Next]_vars => Merging'
  BY MergingKept
<1>3. Merging => MergedMeansConfirmed
  BY DEF Merging
<1>. QED
  BY <1>1, <1>2, <1>3, ReadShapeHolds, InvHolds, PTL DEF Spec

(***************************************************************************)
(* What is carried.                                                        *)
(***************************************************************************)

\* What a run takes from an earlier one is what carry.py says it may take, and is
\* not asked about.
CarriedNow(id) ==
    /\ Readable(run.from)
    /\ id \in DOMAIN Carried(Requirements, Entry(run.from), run.tool)
    /\ plan.carried[id] = Carried(Requirements, Entry(run.from), run.tool)[id]
    /\ id \in DOMAIN settled /\ settled[id] = CarriedDisposition(plan.carried[id])
Planned ==
    /\ spans # <<>> => step = "asking" /\ todo # <<>> /\ Head(todo).section = "task"
    /\ \A r \in ToSet(todo) : RequirementId(r) \notin DOMAIN plan.carried
    /\ \A id \in DOMAIN plan.carried : CarriedNow(id)

\* What was written stays.
LEMMA WholeStays ==
    ASSUME Inv, [Next]_vars, NEW n, Readable(n)
    PROVE  n \in DOMAIN ledger' /\ ledger'[n] = ledger[n]
BY NextMoves DEF Readable, LedgerMoves

\* An answer settles what it was asked about, and nothing that was carried.
LEMMA PlannedLater ==
    ASSUME Planned, LeftShape, UNCHANGED <<ledger, run, plan>>,
           ToSet(todo') \subseteq ToSet(todo),
           \A id \in DOMAIN settled :
              \/ id \in DOMAIN settled' /\ settled'[id] = settled[id]
              \/ todo # <<>> /\ id = RequirementId(Head(todo))
    PROVE  /\ \A r \in ToSet(todo') : RequirementId(r) \notin DOMAIN plan'.carried
           /\ \A id \in DOMAIN plan'.carried : CarriedNow(id)'
<1>1. ASSUME NEW id \in DOMAIN plan.carried PROVE CarriedNow(id)'
  <2>1. CarriedNow(id)
    BY DEF Planned
  <2>2. todo # <<>> => Head(todo) \in ToSet(todo)
    BY Taking DEF LeftShape
  <2>3. ~(todo # <<>> /\ id = RequirementId(Head(todo)))
    BY <2>2 DEF Planned
  <2>. QED
    BY <2>1, <2>3 DEF CarriedNow, Readable, Entry, Requirements
<1>. QED
  BY <1>1 DEF Planned

\* What is carried is settled first, and is not asked about.
LEMMA PlannedFirst ==
    ASSUME RunShape, PlanCarry
    PROVE  /\ \A r \in ToSet(todo') : RequirementId(r) \notin DOMAIN plan'.carried
           /\ \A id \in DOMAIN plan'.carried : CarriedNow(id)'
<1>1. CASE ~Readable(run.from)
  <2>1. plan'.carried = <<>>
    BY <1>1 DEF PlanCarry, NoPlan
  <2>. QED
    BY <2>1
<1>2. CASE Readable(run.from)
  <2> DEFINE carried == Carried(Requirements, Entry(run.from), run.tool)
  <2>1. /\ plan'.carried = carried /\ todo' = ToAsk(carried)
        /\ settled' = [id \in DOMAIN carried |-> CarriedDisposition(carried[id])]
        /\ UNCHANGED <<ledger, run>>
    BY <1>2 DEF PlanCarry
  <2>2. carried' = carried /\ Readable(run.from)'
    BY <1>2, <2>1 DEF Entry, Requirements, Readable
  <2>3. \A r \in ToSet(todo') : RequirementId(r) \notin DOMAIN plan'.carried
    BY <2>1, AskedAbout
  <2>4. \A id \in DOMAIN plan'.carried : CarriedNow(id)'
    BY <2>1, <2>2 DEF CarriedNow
  <2>. QED
    BY <2>3, <2>4
<1>. QED
  BY <1>1, <1>2

\* What was planned is kept to.
LEMMA PlannedKept ==
    ASSUME Inv, LeftShape, Planned, [Next]_vars
    PROVE  Planned'
<1>1. RunShape
  BY DEF Inv
<1>2. CASE NothingRead
  BY <1>2 DEF NothingRead, Planned, NoPlan, ToSet
<1>3. CASE UNCHANGED <<run, plan, settled, todo, spans>> /\ (spans # <<>> => UNCHANGED step)
  <2>1. ASSUME NEW id \in DOMAIN plan.carried PROVE CarriedNow(id)'
    <3>1. CarriedNow(id)
      BY DEF Planned
    <3>2. run.from \in DOMAIN ledger' /\ ledger'[run.from] = ledger[run.from]
      BY <3>1, WholeStays DEF CarriedNow
    <3>. QED
      BY <1>3, <3>1, <3>2 DEF CarriedNow, Readable, Entry, Requirements
  <2>. QED
    BY <1>3, <2>1 DEF Planned
<1>4. CASE PlanCarry
  BY <1>1, <1>4, PlannedFirst DEF Planned, PlanCarry
<1>5. CASE AskAbout
  <2>1. ToSet(Tail(todo)) \subseteq ToSet(todo)
    BY <1>5, Taking DEF AskAbout, LeftShape
  <2>2. \A id \in DOMAIN settled :
           \/ id \in DOMAIN settled' /\ settled'[id] = settled[id]
           \/ todo # <<>> /\ id = RequirementId(Head(todo))
    BY <1>5 DEF AskAbout, With
  <2>3. spans' = <<>>
    BY <1>5 DEF AskAbout, Planned
  <2>. QED
    BY <1>5, <2>1, <2>2, <2>3, PlannedLater DEF AskAbout, Planned
<1>6. CASE DecideSpans
  <2>1. \A id \in DOMAIN settled :
           \/ id \in DOMAIN settled' /\ settled'[id] = settled[id]
           \/ todo # <<>> /\ id = RequirementId(Head(todo))
    BY <1>6 DEF DecideSpans, With
  <2>. QED
    BY <1>6, <2>1, PlannedLater DEF DecideSpans, Planned
<1>7. CASE AskSpan
  <2>1. \A id \in DOMAIN settled :
           \/ id \in DOMAIN settled' /\ settled'[id] = settled[id]
           \/ todo # <<>> /\ id = RequirementId(Head(todo))
    BY <1>7 DEF AskSpan, Planned
  <2>. QED
    BY <1>7, <2>1, PlannedLater DEF AskSpan, Planned
<1>8. CASE SummaryDone
  <2>1. ToSet(Tail(todo)) \subseteq ToSet(todo)
    BY <1>8, Taking DEF SummaryDone, LeftShape
  <2>. QED
    BY <1>8, <2>1, PlannedLater DEF SummaryDone, Planned
<1>9. CASE Reconcile
  <2>1. spans' = <<>>
    BY <1>9 DEF Reconcile, Planned
  <2>. QED
    BY <1>9, <2>1 DEF Reconcile, Planned, NoPlan, ToSet
<1>10. CASE StartDecompose \/ StartCheck \/ CallFails \/ Kill
  BY <1>2, <1>10 DEF StartDecompose, StartCheck, Begin, CallFails, Kill, Forget
<1>11. CASE Link \/ Record \/ BuildClaims \/ Synthesize
  BY <1>3, <1>11 DEF Link, Record, WriteLedger, BuildClaims, Synthesize, readingVars, Planned
<1>12. CASE Judging
  BY <1>3, <1>12 DEF Judging, ResolveQuestions, EnumerateDefects, JudgeDefects, ClassifyCoverage,
                     DetectUnrequested, PrescribeTests, StoreReview, RecordCheck, WriteLedger,
                     readingVars, Planned
<1>13. CASE Finished \/ UNCHANGED vars
  BY <1>3, <1>13 DEF Finished, vars, decomposeVars, readingVars
<1>. QED
  BY <1>4, <1>5, <1>6, <1>7, <1>8, <1>9, <1>10, <1>11, <1>12, <1>13 DEF Next, ReadingStep

(***************************************************************************)
(* Nothing stale is kept.                                                  *)
(***************************************************************************)

\* Of the obligations of some records there is one of each id.
RecordsApart(records) ==
    \A r, q \in ToSet(records) :
        \A x \in ToSet(r.obligations), y \in ToSet(q.obligations) : x.id = y.id => x = y

\* A record among others that is kept from an entry.
TakenFrom(kept, records, entry, logic) ==
    /\ kept.text \in TextsOf(entry) /\ entry.logic = logic
    /\ RecordOf(entry, kept.text).key = kept.key
    /\ ToSet(kept.obligations) \subseteq ToSet(RecordOf(entry, kept.text).obligations)
    /\ \A o \in ToSet(RecordOf(entry, kept.text).obligations) \ ToSet(kept.obligations) :
          \E record \in ToSet(records) : o.id \in IdsOf(record.questions)
    /\ \A o \in ToSet(kept.obligations) : \A quote \in o.spans : LocateWithin(kept.text, quote)

\* What a disposition that was carried names is what the record has, unless a
\* question has its id.
LEMMA CarriedNames ==
    ASSUME RunShape, ReadShape, Planned, FirstFault(Requirements) = "none",
           \A n \in DOMAIN ledger : RecordsApart(ledger[n].records),
           NEW id \in DOMAIN plan.carried, \E r \in ToSet(Requirements) : RequirementId(r) = id
    PROVE  /\ ToSet(settled[id].obligations) = IdsOf(plan.carried[id].obligations)
           /\ \A x \in ToSet(ReconciledOs) : x.id \in IdsOf(plan.carried[id].obligations) =>
                 x \in ToSet(plan.carried[id].obligations)
           /\ \A o \in ToSet(plan.carried[id].obligations) :
                 \/ o.id \in IdsOf(ReconciledOs)
                 \/ /\ o.id \in IdsOf(ReconciledQs)
                    /\ \E q \in ToSet(Requirements) : o.id \in ToSet(settled[RequirementId(q)].questions)
<1> DEFINE all == Named(Requirements)
           poolOs == Pool(fresh, CarriedOf("obligations"))
           poolQs == Pool(asked, CarriedOf("questions"))
           entry == Entry(run.from)
           found == plan.carried[id]
<1>1. \A i \in DOMAIN settled : Backed(settled[i], GivenOs, GivenQs)
  BY DEF ReadShape
<1>2. \A r \in ToSet(Requirements) : RequirementId(r) \in DOMAIN settled
  BY NoFault
<1>3. /\ IsList(all)
      /\ IdsOf(all) = UNION {ToSet(settled[RequirementId(r)].obligations)
                               \cup ToSet(settled[RequirementId(r)].questions) : r \in ToSet(Requirements)}
      /\ \A m \in ToSet(all) :
            \E r \in ToSet(Requirements) :
               \/ m.kind = "obligation" /\ m.id \in ToSet(settled[RequirementId(r)].obligations)
               \/ m.kind = "question" /\ m.id \in ToSet(settled[RequirementId(r)].questions)
  BY <1>1, <1>2, NamedIs DEF Backed
<1> HIDE DEF all
<1>4. /\ IsList(fresh) /\ IsList(asked)
      /\ \A m \in ToSet(all) : m.kind = "obligation" => m.id \in DOMAIN poolOs
      /\ \A m \in ToSet(all) : m.kind = "question" => m.id \in DOMAIN poolQs
  <2>1. ASSUME NEW m \in ToSet(all)
        PROVE  /\ m.kind = "obligation" => m.id \in DOMAIN poolOs
               /\ m.kind = "question" => m.id \in DOMAIN poolQs
    <3>1. PICK r \in ToSet(Requirements) :
             \/ m.kind = "obligation" /\ m.id \in ToSet(settled[RequirementId(r)].obligations)
             \/ m.kind = "question" /\ m.id \in ToSet(settled[RequirementId(r)].questions)
      BY <1>3
    <3>2. /\ ToSet(settled[RequirementId(r)].obligations) \subseteq GivenOs
          /\ ToSet(settled[RequirementId(r)].questions) \subseteq GivenQs
      BY <1>1, <1>2 DEF Backed
    <3>. QED
      BY <3>1, <3>2, PoolsAre
  <2>. QED
    BY <2>1 DEF ReadShape, AreObligations
<1>5. /\ \A x \in ToSet(ReconciledOs) :
            \/ x = poolOs[x.id] /\ x.id \in DOMAIN poolOs
            \/ x \in ToSet(fresh) /\ x.id \notin IdsOf(all)
      /\ \A m \in ToSet(all) : m.kind = "obligation" => m.id \in IdsOf(ReconciledOs)
  BY <1>3, <1>4, InOrderHas DEF ReconciledOs, all
<1>6. \A m \in ToSet(all) : m.kind = "question" => m.id \in IdsOf(ReconciledQs)
  BY <1>3, <1>4, InOrderHas DEF ReconciledQs, all
<1>7. CarriedNow(id) /\ \A c \in DOMAIN plan.carried : CarriedNow(c)
  BY DEF Planned
<1>8. \A c \in DOMAIN plan.carried : plan.carried[c] \in ToSet(entry.records)
  <2>1. IsOnRecord(entry)
    BY <1>7 DEF CarriedNow, Readable, Entry, ReadShape
  <2>. QED
    BY <1>7, <2>1, CarriedIsAccount DEF CarriedNow
<1>9. RecordsApart(entry.records)
  BY <1>7 DEF CarriedNow, Readable, Entry
<1>10. ToSet(settled[id].obligations) = IdsOf(found.obligations)
  <2>1. settled[id].obligations = Ids(found.obligations)
    BY <1>7 DEF CarriedNow, CarriedDisposition, Ids
  <2>. QED
    BY <2>1, IdsAre
<1>11. IdsOf(found.obligations) \subseteq IdsOf(all)
  BY <1>3, <1>10
<1> HIDE DEF poolOs, poolQs, entry
<1>12. ASSUME NEW x \in ToSet(ReconciledOs), x.id \in IdsOf(found.obligations)
       PROVE  x \in ToSet(found.obligations)
  <2>1. x = poolOs[x.id] /\ x.id \in DOMAIN poolOs
    BY <1>5, <1>11, <1>12
  <2>2. /\ DOMAIN CarriedOf("obligations") = DOMAIN plan.carried
        /\ \A c \in DOMAIN plan.carried : CarriedOf("obligations")[c] = plan.carried[c].obligations
    BY DEF CarriedOf
  <2>3. PICK c \in DOMAIN plan.carried : x \in ToSet(plan.carried[c].obligations)
    <3>1. \/ \E c \in DOMAIN CarriedOf("obligations") : x \in ToSet(CarriedOf("obligations")[c])
          \/ \A c \in DOMAIN CarriedOf("obligations") : x.id \notin IdsOf(CarriedOf("obligations")[c])
      BY <2>1, PoolHas DEF poolOs
    <3>. QED
      BY <1>12, <2>2, <3>1
  <2>4. PICK y \in ToSet(found.obligations) : y.id = x.id
    BY <1>12, IdsAre
  <2>5. x = y
    BY <1>8, <1>9, <2>3, <2>4 DEF RecordsApart
  <2>. QED
    BY <2>4, <2>5
<1>13. ASSUME NEW o \in ToSet(found.obligations)
       PROVE  \/ o.id \in IdsOf(ReconciledOs)
              \/ /\ o.id \in IdsOf(ReconciledQs)
                 /\ \E q \in ToSet(Requirements) : o.id \in ToSet(settled[RequirementId(q)].questions)
  <2>1. o.id \in IdsOf(all)
    BY <1>11, IdsAre
  <2>2. PICK m \in ToSet(all) : m.id = o.id
    BY <2>1, IdsAre
  <2>. QED
    BY <1>3, <1>5, <1>6, <2>2
<1>. QED
  BY <1>10, <1>12, <1>13

\* The records of a decomposition that were carried are taken from the entry.
KeptRecords ==
    \A kept \in ToSet(made.records) : kept.kind = "carried" =>
        Readable(run.from) /\ TakenFrom(kept, made.records, Entry(run.from), run.tool.logic)

\* What is put together keeps of a carried record what it has, under its text.
LEMMA ReconciledKept ==
    ASSUME RunShape, ReadShape, Planned, Apart(fresh),
           \A n \in DOMAIN ledger : RecordsApart(ledger[n].records), Reconcile, step' = "linking"
    PROVE  KeptRecords' /\ RecordsApart(made'.records)
<1> DEFINE records == Records(Requirements, ReconciledOs, ReconciledQs)
           entry == Entry(run.from)
<1>1. FirstFault(Requirements) = "none" /\ made'.records = records
  BY Reconciling DEF Outcomes
<1>2. Entry(run.from)' = entry /\ Readable(run.from)' = Readable(run.from) /\ UNCHANGED run
  BY DEF Reconcile, Readable, Entry
<1>3. /\ AreObligations(ReconciledOs)
      /\ \A r \in ToSet(Requirements) :
            RequirementId(r) \in DOMAIN settled /\ IsAccount(settled[RequirementId(r)])
  BY <1>1, ReconciledHas DEF ReadShape, Backed
<1>4. /\ DOMAIN records = DOMAIN Requirements
      /\ \A n \in DOMAIN Requirements :
            /\ records[n].text = Requirements[n].text
            /\ records[n].key = KeyFor(run.tool, Requirements[n])
            /\ records[n].kind = Kind(RequirementOf(n))
            /\ records[n].obligations = Picked(settled[RequirementOf(n)].obligations, ReconciledOs)
            /\ records[n].questions = Picked(settled[RequirementOf(n)].questions, ReconciledQs)
  BY <1>3, RecordsAre DEF RequirementOf
<1>5. \A record \in ToSet(records) : \E n \in DOMAIN Requirements : record = records[n]
  BY <1>4 DEF ToSet
<1>6. \A n \in DOMAIN Requirements : records[n] \in ToSet(records)
  BY <1>4 DEF ToSet
<1> HIDE DEF records
<1>7. ASSUME NEW n \in DOMAIN Requirements
      PROVE  /\ RequirementOf(n) \in DOMAIN settled
             /\ IsList(settled[RequirementOf(n)].obligations)
             /\ IsList(settled[RequirementOf(n)].questions)
             /\ Requirements[n] \in ToSet(Requirements)
  BY <1>3 DEF RequirementOf, ToSet, IsAccount
<1>8. \A n \in DOMAIN Requirements : ToSet(records[n].obligations) \subseteq ToSet(ReconciledOs)
  BY <1>4, <1>7, PickedHas
<1>9. RecordsApart(records)
  BY <1>1, <1>5, <1>8, ReconciledApart DEF RecordsApart, Apart
<1>10. ASSUME NEW n \in DOMAIN Requirements, records[n].kind = "carried"
       PROVE  Readable(run.from) /\ TakenFrom(records[n], records, entry, run.tool.logic)
  <2> DEFINE id == RequirementOf(n)
             found == plan.carried[id]
             kept == records[n]
             text == Requirements[n].text
  <2>1. id \in DOMAIN plan.carried
    BY <1>4, <1>10 DEF Kind
  <2>2. CarriedNow(id)
    BY <2>1 DEF Planned
  <2>3. /\ text \in TextsOf(entry) /\ found = RecordOf(entry, text) /\ entry.logic = run.tool.logic
        /\ found.key = KeyFor(run.tool, Requirements[n]) /\ ~StaleSpans(found, text)
    <3>1. PICK r \in ToSet(Requirements) :
             /\ RequirementId(r) = id /\ r.text \in TextsOf(entry) /\ found = RecordOf(entry, r.text)
             /\ entry.logic = run.tool.logic /\ RecordOf(entry, r.text).key = KeyFor(run.tool, r)
             /\ ~StaleSpans(RecordOf(entry, r.text), r.text)
      BY <2>2, CarriedIs DEF CarriedNow
    <3>2. r = Requirements[n]
      BY <1>7, <3>1, RequirementsAreNumbered DEF RequirementOf
    <3>. QED
      BY <3>1, <3>2
  <2>4. \E r \in ToSet(Requirements) : RequirementId(r) = id
    BY <1>7 DEF RequirementOf
  <2> HIDE DEF id
  <2>5. /\ ToSet(settled[id].obligations) = IdsOf(found.obligations)
        /\ \A x \in ToSet(ReconciledOs) : x.id \in IdsOf(found.obligations) =>
              x \in ToSet(found.obligations)
        /\ \A o \in ToSet(found.obligations) :
              \/ o.id \in IdsOf(ReconciledOs)
              \/ /\ o.id \in IdsOf(ReconciledQs)
                 /\ \E q \in ToSet(Requirements) : o.id \in ToSet(settled[RequirementId(q)].questions)
    BY <1>1, <2>1, <2>4, CarriedNames
  <2>6. /\ ToSet(kept.obligations) \subseteq ToSet(ReconciledOs)
        /\ IdsOf(kept.obligations) = ToSet(settled[id].obligations) \cap IdsOf(ReconciledOs)
    BY <1>4, <1>7, PickedHas DEF id
  <2>7. ToSet(kept.obligations) \subseteq ToSet(found.obligations)
    <3>1. \A x \in ToSet(kept.obligations) : x.id \in IdsOf(kept.obligations)
      BY IdsAre
    <3>. QED
      BY <2>5, <2>6, <3>1
  <2>8. RecordsApart(entry.records) /\ found \in ToSet(entry.records)
    <3>1. IsOnRecord(entry)
      BY <2>2 DEF CarriedNow, Readable, Entry, ReadShape
    <3>. QED
      BY <2>2, <3>1, CarriedIsAccount DEF CarriedNow, Readable, Entry
  <2>9. ASSUME NEW o \in ToSet(found.obligations), o \notin ToSet(kept.obligations)
        PROVE  \E record \in ToSet(records) : o.id \in IdsOf(record.questions)
    <3>1. o.id \notin IdsOf(ReconciledOs)
      <4> SUFFICES ASSUME o.id \in IdsOf(ReconciledOs) PROVE FALSE
        OBVIOUS
      <4>1. o.id \in IdsOf(kept.obligations)
        BY <2>5, <2>6, IdsAre
      <4>2. PICK x \in ToSet(kept.obligations) : x.id = o.id
        BY <4>1, IdsAre
      <4>3. x = o
        BY <2>7, <2>8, <4>2 DEF RecordsApart
      <4>. QED
        BY <2>9, <4>2, <4>3
    <3>2. PICK q \in ToSet(Requirements) : o.id \in ToSet(settled[RequirementId(q)].questions)
      BY <2>5, <3>1
    <3>3. PICK m \in DOMAIN Requirements : q = Requirements[m]
      BY DEF ToSet
    <3>4. o.id \in IdsOf(ReconciledQs)
      BY <2>5, <3>1
    <3>5. o.id \in IdsOf(records[m].questions)
      BY <1>4, <1>7, <3>2, <3>3, <3>4, PickedHas DEF RequirementOf
    <3>. QED
      BY <1>6, <3>5
  <2>10. ASSUME NEW o \in ToSet(kept.obligations), NEW quote \in o.spans PROVE LocateWithin(text, quote)
    BY <2>3, <2>7 DEF StaleSpans
  <2>11. kept.text = text /\ kept.key = found.key /\ Readable(run.from)
    BY <1>4, <2>2, <2>3 DEF CarriedNow
  <2> HIDE DEF kept, found, text, entry
  <2>12. TakenFrom(kept, records, entry, run.tool.logic)
    BY <2>3, <2>7, <2>9, <2>10, <2>11 DEF TakenFrom
  <2>. QED
    BY <2>11, <2>12 DEF kept
<1>. QED
  BY <1>1, <1>2, <1>5, <1>9, <1>10 DEF KeptRecords

(***************************************************************************)
(* What the ledger keeps goes back to what was answered.                   *)
(***************************************************************************)

\* The records of an entry that were carried are taken from an earlier one.
EntryKept(n) ==
    \A kept \in ToSet(ledger[n].records) : kept.kind = "carried" =>
        /\ Readable(ledger[n].from) /\ ledger[n].from < n
        /\ TakenFrom(kept, ledger[n].records, Entry(ledger[n].from), ledger[n].logic)

Keeping ==
    /\ Apart(fresh) /\ Planned
    /\ RecordsApart(made.records) /\ KeptRecords
    /\ \A n \in DOMAIN ledger : RecordsApart(ledger[n].records) /\ EntryKept(n)

\* An entry that can be read can be read later.
LEMMA ReadableStays ==
    ASSUME Inv, [Next]_vars, NEW n, Readable(n)
    PROVE  Readable(n)' /\ Entry(n)' = Entry(n)
BY WholeStays DEF Readable, Entry

\* A carried record in the ledger has the one it was carried from.
LEMMA EntriesKept ==
    ASSUME Inv, Keeping, [Next]_vars, NEW n \in DOMAIN ledger'
    PROVE  RecordsApart(ledger'[n].records) /\ EntryKept(n)'
<1>1. PICK E : ledger \in Seq(E)
  BY DEF Inv, LedgerShape
<1>2. Len(ledger) \in Nat /\ DOMAIN ledger = 1..Len(ledger)
  BY <1>1
<1>3. CASE n \in DOMAIN ledger /\ ledger'[n] = ledger[n]
  <2>1. RecordsApart(ledger[n].records) /\ EntryKept(n)
    BY <1>3 DEF Keeping
  <2> SUFFICES ASSUME NEW kept \in ToSet(ledger[n].records), kept.kind = "carried"
               PROVE  /\ Readable(ledger[n].from)' /\ ledger[n].from < n
                      /\ TakenFrom(kept, ledger[n].records, Entry(ledger[n].from)', ledger[n].logic)
    BY <1>3, <2>1 DEF EntryKept, Entry, Readable
  <2>2. /\ Readable(ledger[n].from) /\ ledger[n].from < n
        /\ TakenFrom(kept, ledger[n].records, Entry(ledger[n].from), ledger[n].logic)
    BY <2>1 DEF EntryKept
  <2>3. /\ ledger[n].from \in DOMAIN ledger' /\ ledger'[ledger[n].from] = ledger[ledger[n].from]
    BY <2>2, WholeStays
  <2>. QED
    BY <1>3, <2>2, <2>3 DEF Readable, Entry
<1>4. CASE ledger'[n] \in {Blank("none"), Blank("torn")}
  <2>1. ledger'[n].records = <<>>
    BY <1>4 DEF Blank
  <2>. QED
    BY <2>1 DEF RecordsApart, EntryKept, ToSet
<1>5. CASE /\ n = Len(ledger) /\ step = "recording" /\ UNCHANGED <<run, made, merges>>
           /\ \E sets \in {<<>>, defectSets} : ledger'[n] = LedgerEntry(sets)
  <2>1. /\ ledger'[n].records = made.records /\ ledger'[n].from = run.from
        /\ ledger'[n].logic = run.tool.logic
    BY <1>5 DEF LedgerEntry
  <2>2. RecordsApart(made.records)
    BY DEF Keeping
  <2>3. ledger # <<>> /\ ledger[Len(ledger)].file = "none"
    BY <1>5 DEF Inv, Unwritten, Outcomes, PastLedger
  <2> SUFFICES ASSUME NEW kept \in ToSet(made.records), kept.kind = "carried"
               PROVE  /\ Readable(run.from)' /\ run.from < n
                      /\ TakenFrom(kept, made.records, Entry(run.from)', run.tool.logic)
    BY <1>5, <2>1, <2>2 DEF EntryKept, Entry, Readable
  <2>4. Readable(run.from) /\ TakenFrom(kept, made.records, Entry(run.from), run.tool.logic)
    BY DEF Keeping, KeptRecords
  <2>5. run.from \in DOMAIN ledger' /\ ledger'[run.from] = ledger[run.from]
    BY <2>4, WholeStays
  <2>6. run.from < n
    BY <1>2, <1>5, <2>3, <2>4 DEF Readable
  <2>. QED
    BY <1>5, <2>4, <2>5, <2>6 DEF Readable, Entry
<1>. QED
  BY <1>3, <1>4, <1>5, EntriesChange

\* And so has one that is still to be written.
LEMMA RecordsKept ==
    ASSUME Inv, ReadShape, Keeping, [Next]_vars, Planned'
    PROVE  RecordsApart(made'.records) /\ KeptRecords'
<1>1. RunShape /\ Apart(fresh) /\ \A n \in DOMAIN ledger : RecordsApart(ledger[n].records)
  BY DEF Inv, Keeping
<1>2. CASE UNCHANGED run /\ made'.records = made.records
  <2>1. RecordsApart(made'.records)
    BY <1>2 DEF Keeping
  <2> SUFFICES ASSUME NEW kept \in ToSet(made.records), kept.kind = "carried"
               PROVE  /\ Readable(run.from)'
                      /\ TakenFrom(kept, made.records, Entry(run.from)', run.tool.logic)
    BY <1>2, <2>1 DEF KeptRecords, Entry, Readable
  <2>2. Readable(run.from) /\ TakenFrom(kept, made.records, Entry(run.from), run.tool.logic)
    BY DEF Keeping, KeptRecords
  <2>3. run.from \in DOMAIN ledger' /\ ledger'[run.from] = ledger[run.from]
    BY <2>2, WholeStays
  <2>. QED
    BY <1>2, <2>2, <2>3 DEF Readable, Entry
<1>3. CASE NothingRead
  <2>1. made'.records = <<>>
    BY <1>3 DEF NothingRead, Nothing
  <2>. QED
    BY <2>1 DEF RecordsApart, KeptRecords, ToSet
<1>4. CASE Reconcile
  <2>1. CASE step' = "linking"
    BY <1>1, <1>4, <2>1, ReconciledKept DEF Keeping
  <2>2. CASE step' # "linking"
    <3>1. made' = made /\ UNCHANGED run
      BY <1>1, <1>4, <2>2, Reconciling DEF Reconcile
    <3>. QED
      BY <1>2, <3>1
  <2>. QED
    BY <2>1, <2>2
<1>5. CASE Link
  <2>1. UNCHANGED run
    BY <1>5 DEF Link
  <2>2. made'.records = made.records
    BY <1>5, LinkingDecides, LinkedHas
  <2>. QED
    BY <1>2, <2>1, <2>2
<1>6. PlanCarry \/ AskAbout \/ DecideSpans \/ AskSpan \/ UNCHANGED readVars
         => UNCHANGED run /\ made'.records = made.records
  BY DEF PlanCarry, AskAbout, DecideSpans, AskSpan, readVars
<1>. QED
  BY <1>2, <1>3, <1>4, <1>5, <1>6, ReadingChanges

\* It always holds.
LEMMA KeepingHolds == Spec => []Keeping
<1>1. Init => Keeping
  <2> SUFFICES ASSUME Init PROVE Keeping
    OBVIOUS
  <2>1. /\ fresh = <<>> /\ made = Nothing /\ plan = NoPlan /\ todo = <<>> /\ spans = <<>>
        /\ DOMAIN ledger = {}
    BY DEF Init, InitDecompose
  <2>. QED
    BY <2>1 DEF Keeping, Apart, ToSet, Planned, NoPlan, RecordsApart, KeptRecords, Nothing
<1>2. Keeping /\ Inv /\ ReadShape /\ LeftShape /\ [Next]_vars => Keeping'
  <2> SUFFICES ASSUME Keeping, Inv, ReadShape, LeftShape, [Next]_vars PROVE Keeping'
    OBVIOUS
  <2>1. Planned' /\ Apart(fresh')
    BY PlannedKept, ApartKept DEF Keeping
  <2>2. RecordsApart(made'.records) /\ KeptRecords'
    BY <2>1, RecordsKept
  <2>3. \A n \in DOMAIN ledger' : RecordsApart(ledger'[n].records) /\ EntryKept(n)'
    BY EntriesKept
  <2>. QED
    BY <2>1, <2>2, <2>3 DEF Keeping
<1>. QED
  BY <1>1, <1>2, InvHolds, ReadShapeHolds, LeftShapeHolds, PTL DEF Spec

\* The entries a record of one goes back through.
HasLineage(n, text) == \E runs \in SUBSET (1..n) : n \in runs /\ IsLineage(runs, text)

\* A record goes back as far as the one it was carried from, and one run further.
LEMMA LineageGoesOn ==
    ASSUME \A m \in DOMAIN ledger : EntryKept(m) /\ IsOnRecord(ledger[m]),
           NEW n \in DOMAIN ledger, n \in Nat, n > 0, \A m \in DOMAIN ledger : m \in Nat /\ m > 0,
           NEW text \in TextsOf(ledger[n]),
           \A m \in DOMAIN ledger : m < n => \A t \in TextsOf(ledger[m]) : HasLineage(m, t)
    PROVE  HasLineage(n, text)
<1> DEFINE kept == RecordOf(ledger[n], text)
           from == ledger[n].from
<1>1. kept \in ToSet(ledger[n].records) /\ kept.text = text
  BY RecordFound DEF IsOnRecord
<1>2. CASE kept.kind # "carried"
  <2>1. IsLineage({n}, text)
    BY <1>2 DEF IsLineage
  <2>. QED
    BY <2>1 DEF HasLineage
<1>3. CASE kept.kind = "carried"
  <2>1. /\ from \in DOMAIN ledger /\ from < n
        /\ TakenFrom(kept, ledger[n].records, ledger[from], ledger[n].logic)
    BY <1>1, <1>3 DEF EntryKept, Readable, Entry
  <2>2. /\ text \in TextsOf(ledger[from]) /\ ledger[from].logic = ledger[n].logic
        /\ RecordOf(ledger[from], text).key = kept.key
        /\ ToSet(kept.obligations) \subseteq ToSet(RecordOf(ledger[from], text).obligations)
        /\ \A o \in ToSet(RecordOf(ledger[from], text).obligations) \ ToSet(kept.obligations) :
              \E record \in ToSet(ledger[n].records) : o.id \in IdsOf(record.questions)
    BY <1>1, <2>1 DEF TakenFrom
  <2>3. PICK runs \in SUBSET (1..from) : from \in runs /\ IsLineage(runs, text)
    BY <2>1, <2>2 DEF HasLineage
  <2>4. IsLineage(runs \cup {n}, text)
    BY <2>1, <2>2, <2>3 DEF IsLineage
  <2>5. runs \cup {n} \subseteq 1..n
    BY <2>1, <2>3
  <2>. QED
    BY <2>4, <2>5 DEF HasLineage
<1>. QED
  BY <1>2, <1>3

\* By induction on the runs.
LEMMA LineagesHold ==
    ASSUME LedgerShape, \A m \in DOMAIN ledger : EntryKept(m) /\ IsOnRecord(ledger[m])
    PROVE  \A n \in DOMAIN ledger : \A text \in TextsOf(ledger[n]) : HasLineage(n, text)
<1> DEFINE T == {m \in Nat : \A n \in DOMAIN ledger : n <= m =>
                               \A text \in TextsOf(ledger[n]) : HasLineage(n, text)}
<1>1. PICK E : ledger \in Seq(E)
  BY DEF LedgerShape
<1>2. \A n \in DOMAIN ledger : n \in Nat /\ n > 0
  BY <1>1
<1>3. 0 \in T
  BY <1>2
<1>4. ASSUME NEW m \in Nat, m \in T PROVE m + 1 \in T
  <2> SUFFICES ASSUME NEW n \in DOMAIN ledger, n <= m + 1, NEW text \in TextsOf(ledger[n])
               PROVE  HasLineage(n, text)
    OBVIOUS
  <2>1. \A k \in DOMAIN ledger : k < n => \A t \in TextsOf(ledger[k]) : HasLineage(k, t)
    BY <1>2, <1>4
  <2>. QED
    BY <1>2, <2>1, LineageGoesOn
<1> HIDE DEF T
<1>5. Nat \subseteq T
  BY <1>3, <1>4, Counting
<1>. QED
  BY <1>2, <1>5 DEF T

\* What a run says of a requirement without having asked was answered by a run it
\* goes back to, of the same text, under the same request and the same logic, and
\* quotes nothing the text does not say, over any number of runs: carry.py.
THEOREM NothingStale == Spec => []NothingStaleIsKept
<1>1. Keeping /\ Inv /\ ReadShape => NothingStaleIsKept
  <2> SUFFICES ASSUME Keeping, Inv, ReadShape, NEW n \in DOMAIN ledger, NEW text \in TextsOf(ledger[n]),
                      RecordOf(ledger[n], text).kind = "carried"
               PROVE  /\ HasLineage(n, text)
                      /\ \A o \in ToSet(RecordOf(ledger[n], text).obligations) :
                            \A quote \in o.spans : LocateWithin(text, quote)
    BY DEF NothingStaleIsKept, HasLineage
  <2>1. HasLineage(n, text)
    BY LineagesHold DEF Inv, Keeping, ReadShape
  <2>2. /\ RecordOf(ledger[n], text) \in ToSet(ledger[n].records)
        /\ RecordOf(ledger[n], text).text = text
    BY RecordFound DEF ReadShape, IsOnRecord
  <2>. QED
    BY <2>1, <2>2 DEF Keeping, EntryKept, TakenFrom
<1>. QED
  BY <1>1, KeepingHolds, InvHolds, ReadShapeHolds, PTL

(***************************************************************************)
(* A clean verdict.                                                        *)
(***************************************************************************)

\* An obligation that is neither a gap, nor weak, nor left to somebody else, is
\* supported or owes no test.
LEMMA RolledUpClean ==
    ASSUME NEW standings, NEW unresolved, RolledUp(standings, unresolved) = "no_material_gaps"
    PROVE  /\ standings # {} /\ unresolved = {}
           /\ \A s \in standings : s \notin {"gap", "weak", "non_code", "indeterminate"}
BY DEF RolledUp

\* An obligation that stands in the way of nothing.
LEMMA StandingClean ==
    ASSUME NEW o, NEW class, NEW gaps,
           Standing(o, class, gaps) \notin {"gap", "weak", "non_code", "indeterminate"}
    PROVE  /\ o.says \notin gaps /\ o.evidence # "neither"
           /\ RequiresTests(o) =>
                 class \notin {"partially_supported", "unsupported", "indeterminate", "none"}
BY DEF Standing

\* What an obligation's class says of the defects of its set.
LEMMA SupportClean ==
    ASSUME NEW o, NEW sets, NEW caught, NEW unanswered, RequiresTests(o),
           Support(o, sets, caught, unanswered)
              \notin {"partially_supported", "unsupported", "indeterminate", "none"}
    PROVE  SetsOf(o, sets) # {} /\ LastDefects(o, sets) \subseteq caught
BY DEF Support, SupportClass

\* And of those of its own.
LEMMA ClassClean ==
    ASSUME NEW o, RequiresTests(o),
           ClassOf(o) \notin {"partially_supported", "unsupported", "indeterminate", "none"}
    PROVE  /\ SetsOf(o, defectSets) # {}
           /\ LastDefects(o, defectSets) \subseteq CaughtBy({"run", "judged"})
           /\ \A u \in unobtained : u.obligation # o.id
<1>1. \A u \in unobtained : u.obligation # o.id
  BY DEF ClassOf
<1>2. ClassOf(o) = Support(o, defectSets, CaughtBy({"run", "judged"}), CaughtBy({"unanswered"}))
  BY <1>1 DEF ClassOf
<1>. QED
  BY <1>1, <1>2, SupportClean

\* Only what an obligation is matters to its sets, and that is its id.
LEMMA SetsById ==
    ASSUME NEW o, NEW p, NEW sets, o.id = p.id
    PROVE  SetsOf(o, sets) = SetsOf(p, sets) /\ LastDefects(o, sets) = LastDefects(p, sets)
BY DEF SetsOf, LastDefects

\* A gap is found for each obligation the change does not respond to.
LEMMA GapFound ==
    ASSUME NEW mismatched, NEW id \in DOMAIN coverages, coverages[id].status # "addressed"
    PROVE  ById(obligations, id).says \in Gaps(Findings(mismatched))
<1> DEFINE gap == CoverageFinding(ById(obligations, id), coverages[id])
<1>1. gap \in Findings(mismatched)
  BY DEF Findings
<1>2. gap.type = "coverage_gap" /\ gap.about = {ById(obligations, id).says}
  BY DEF CoverageFinding, StaticFinding
<1>. HIDE DEF gap
<1>. QED
  BY <1>1, <1>2 DEF Gaps

\* The verdict of a review is the one of what the run has judged.
LEMMA ReviewClean ==
    ASSUME NEW mismatched, Review(Findings(mismatched)).verdict = "no_material_gaps"
    PROVE  Clean(Review(Findings(mismatched)))
<1> DEFINE findings == Findings(mismatched)
           review == Review(findings)
           class == EachObligation(ClassOf)
           standings == {Standing(o, class[o.id], Gaps(findings)) : o \in ToSet(obligations)}
           complete == Unjudged(made.dispositions, IdsOf(obligations)) = {} /\ ~Unread
<1>1. /\ review.obligations = obligations /\ review.open = open /\ review.unread = Unread
      /\ review.dispositions = made.dispositions /\ review.coverages = coverages
      /\ review.sets = defectSets /\ review.caught = CaughtBy({"run", "judged"})
      /\ review.unobtained = unobtained
      /\ review.verdict =
            DeriveVerdict(obligations, class, findings, open, made.dispositions, Unread)
  BY DEF Review
<1>2. review.verdict = Bounded(RolledUp(standings, open), complete)
  BY <1>1 DEF DeriveVerdict
<1>3. complete /\ RolledUp(standings, open) = "no_material_gaps"
  BY <1>2 DEF Bounded
<1>4. /\ standings # {} /\ open = {}
      /\ \A s \in standings : s \notin {"gap", "weak", "non_code", "indeterminate"}
  BY <1>3, RolledUpClean
<1>5. obligations # <<>>
  BY <1>4 DEF ToSet
<1>6. ASSUME NEW o \in ToSet(obligations)
      PROVE  /\ o.says \notin Gaps(findings) /\ o.evidence # "neither"
             /\ RequiresTests(o) =>
                   class[o.id] \notin {"partially_supported", "unsupported", "indeterminate", "none"}
  BY <1>4, StandingClean
<1>7. ASSUME NEW o \in ToSet(obligations)
      PROVE  /\ o.id \in IdsOf(obligations)
             /\ ById(obligations, o.id) \in ToSet(obligations)
             /\ ById(obligations, o.id).id = o.id
             /\ class[o.id] = ClassOf(ById(obligations, o.id))
  <2>1. o.id \in IdsOf(obligations)
    BY DEF ToSet, IdsOf
  <2>. QED
    BY <2>1, LookedUp DEF EachObligation
<1>8. ASSUME NEW o \in ToSet(obligations), o.id \in DOMAIN coverages
      PROVE  coverages[o.id].status = "addressed"
  <2>1. SUFFICES ASSUME coverages[o.id].status # "addressed" PROVE FALSE
    OBVIOUS
  <2>2. ById(obligations, o.id) \in ToSet(obligations)
    BY <1>7
  <2>3. ById(obligations, o.id).says \in Gaps(findings)
    BY <1>8, <2>1, GapFound
  <2>. HIDE DEF findings, class
  <2>. QED
    BY <1>6, <2>2, <2>3
<1>9. ASSUME NEW o \in ToSet(obligations), RequiresTests(o)
      PROVE  /\ SetsOf(o, defectSets) # {}
             /\ LastDefects(o, defectSets) \subseteq CaughtBy({"run", "judged"})
             /\ \A u \in unobtained : u.obligation # o.id
  <2> DEFINE p == ById(obligations, o.id)
  <2>1. p \in ToSet(obligations) /\ p.id = o.id /\ class[p.id] = ClassOf(p) /\ class[o.id] = ClassOf(p)
    BY <1>7
  <2>2. ClassOf(p) \notin {"partially_supported", "unsupported", "indeterminate", "none"}
    BY <2>1, <1>6, <1>9
  <2>3. RequiresTests(p)
    BY <2>2 DEF ClassOf, Support
  <2>. QED
    BY <2>1, <2>2, <2>3, ClassClean, SetsById
<1>10. \A r \in DOMAIN made.dispositions :
          LET disposition == made.dispositions[r]
          IN  \/ disposition.tag = "no_obligation" \/ disposition.obligations # <<>>
              \/ \E q \in ToSet(disposition.questions) :
                    DerivedObligationId(q) \in IdsOf(obligations)
  BY <1>3 DEF Unjudged
<1>. QED
  BY <1>1, <1>3, <1>4, <1>5, <1>6, <1>8, <1>9, <1>10 DEF Clean

(***************************************************************************)
(* What each step does to the reviews, and when a review is concluded.     *)
(***************************************************************************)

\* A step of reading the file leaves the review to be.
LEMMA ReadingConcludesNothing ==
    ASSUME ReadingStep
    PROVE  step # "concluding" /\ step' # "concluding"
<1>1. CASE PlanCarry   BY <1>1 DEF PlanCarry
<1>2. CASE AskAbout    BY <1>2 DEF AskAbout
<1>3. CASE DecideSpans BY <1>3 DEF DecideSpans
<1>4. CASE AskSpan     BY <1>4 DEF AskSpan
<1>5. CASE SummaryDone BY <1>5 DEF SummaryDone
<1>6. CASE Reconcile   BY <1>6, FaultsAreOutcomes DEF Reconcile
<1>7. CASE Link        BY <1>7 DEF Link
<1>8. CASE Record      BY <1>8 DEF Record, WriteLedger
<1>9. CASE BuildClaims BY <1>9 DEF BuildClaims
<1>10. CASE Synthesize BY <1>10 DEF Synthesize
<1>. QED
  BY <1>1, <1>2, <1>3, <1>4, <1>5, <1>6, <1>7, <1>8, <1>9, <1>10 DEF ReadingStep

\* What a step does to the stored reviews.
LEMMA ReviewsChange ==
    ASSUME [Next]_vars
    PROVE  \/ UNCHANGED reviews
           \/ step = "concluding" /\ reviews' = Put(Torn)
           \/ /\ step = "concluding"
              /\ \E mismatched \in BOOLEAN : reviews' = Put(Review(Findings(mismatched)))
<1>1. CASE StartDecompose /\ prior' = NoReview /\ NothingJudged /\ UNCHANGED reviews
  BY <1>1
<1>2. CASE StartCheck
  BY <1>2 DEF StartCheck
<1>3. CASE ReadingStep /\ UNCHANGED checkVars
  BY <1>3 DEF checkVars
<1>4. CASE Judging
  <2>1. CASE ResolveQuestions  BY <2>1 DEF ResolveQuestions
  <2>2. CASE EnumerateDefects  BY <2>2 DEF EnumerateDefects
  <2>3. CASE JudgeDefects      BY <2>3 DEF JudgeDefects
  <2>4. CASE ClassifyCoverage  BY <2>4 DEF ClassifyCoverage
  <2>5. CASE DetectUnrequested BY <2>5 DEF DetectUnrequested
  <2>6. CASE PrescribeTests    BY <2>6 DEF PrescribeTests
  <2>7. CASE StoreReview
    <3>1. PICK mismatched \in IF run.declared THEN BOOLEAN ELSE {FALSE} :
             reviews' = Put(Review(Findings(mismatched)))
      BY <2>7 DEF StoreReview
    <3>2. mismatched \in BOOLEAN
      BY <3>1
    <3>. QED
      BY <2>7, <3>1, <3>2 DEF StoreReview
  <2>8. CASE RecordCheck       BY <2>8 DEF RecordCheck, checkVars
  <2>. QED
    BY <1>4, <2>1, <2>2, <2>3, <2>4, <2>5, <2>6, <2>7, <2>8 DEF Judging
<1>5. CASE CallFails
  BY <1>5 DEF CallFails
<1>6. CASE Kill
  BY <1>6 DEF Kill
<1>7. CASE Finished \/ UNCHANGED vars
  BY <1>7 DEF Finished, vars, checkVars
<1>. QED
  BY <1>1, <1>2, <1>3, <1>4, <1>5, <1>6, <1>7 DEF Next

\* The one positive verdict is earned, in every review that is stored: the
\* whole of verdict.py on every input it can be given.
THEOREM CleanEarned == Spec => []CleanIsEarned
<1>1. Init => CleanIsEarned
  BY DEF Init, CleanIsEarned, Whole
<1>2. CleanIsEarned /\ [Next]_vars => CleanIsEarned'
  <2> SUFFICES ASSUME CleanIsEarned, [Next]_vars, NEW r \in Whole',
                      reviews'[r].verdict = "no_material_gaps"
               PROVE  Clean(reviews'[r])
    BY DEF CleanIsEarned
  <2>1. CASE UNCHANGED reviews
    BY <2>1 DEF CleanIsEarned, Whole
  <2>2. CASE reviews' = Put(Torn)
    <3>1. r # run.head
      BY <2>2 DEF Put, Torn, Whole
    <3>. QED
      BY <2>2, <3>1 DEF Put, CleanIsEarned, Whole
  <2>3. ASSUME NEW mismatched \in BOOLEAN, reviews' = Put(Review(Findings(mismatched)))
        PROVE  Clean(reviews'[r])
    <3>1. CASE r = run.head
      <4>1. reviews'[r] = Review(Findings(mismatched))
        BY <2>3, <3>1 DEF Put
      <4>. QED
        BY <4>1, ReviewClean
    <3>2. CASE r # run.head
      BY <2>3, <3>2 DEF Put, CleanIsEarned, Whole
    <3>. QED
      BY <3>1, <3>2
  <2>. QED
    BY <2>1, <2>2, <2>3, ReviewsChange
<1>. QED
  BY <1>1, <1>2, PTL DEF Spec

(***************************************************************************)
(* Advice.  When the review is put together, what was prescribed and what  *)
(* was not is exactly what the judge saw no test catch.                    *)
(***************************************************************************)

Pending == UncoveredDefects(obligations, defectSets, CaughtBy({"judged"}))

GapsInv ==
    /\ EveryGapHasAdvice
    /\ step = "concluding" => prescribed \cup unobtained = Pending

\* A defect that is pending is one that was enumerated and that the judge did
\* not see caught.
LEMMA PendingDefects ==
    ASSUME NEW gap \in Pending
    PROVE  gap.defect \in DefectsOf(defectSets) \ CaughtBy({"judged"})
<1>1. PICK set \in ToSet(defectSets) :
         gap \in {[obligation |-> set.obligation, defect |-> id] : id \in IdsOf(set.defects)}
  BY DEF Pending, UncoveredDefects
<1>2. PICK id \in IdsOf(set.defects) : gap = [obligation |-> set.obligation, defect |-> id]
  BY <1>1
<1>3. gap.defect = id
  BY <1>2
<1>4. gap.defect \notin CaughtBy({"judged"})
  BY DEF Pending, UncoveredDefects
<1>. QED
  BY <1>1, <1>2, <1>3, <1>4 DEF DefectsOf

\* What is not caught in any way was not seen caught by the judge.
LEMMA UncoveredArePending ==
    UncoveredDefects(obligations, defectSets, CaughtBy({"run", "judged"})) \subseteq Pending
<1>1. CaughtBy({"judged"}) \subseteq CaughtBy({"run", "judged"})
  BY DEF CaughtBy
<1>. QED
  BY <1>1 DEF Pending, UncoveredDefects

Advised(review) ==
    /\ \A gap \in UncoveredDefects(review.obligations, review.sets, review.caught) :
          \E advice \in review.recommended \cup review.unobtained : advice.defect = gap.defect
    /\ \A advice \in review.recommended :
          advice.defect \in DefectsOf(review.sets) \ review.judged

\* A review that is stored is advised.
LEMMA ReviewAdvised ==
    ASSUME NEW findings, prescribed \cup unobtained = Pending
    PROVE  Advised(Review(findings))
<1> DEFINE review == Review(findings)
           carried == CarriedRecommendations(prior, unobtained, prescribed)
<1>1. /\ review.obligations = obligations /\ review.sets = defectSets
      /\ review.caught = CaughtBy({"run", "judged"}) /\ review.judged = CaughtBy({"judged"})
      /\ review.recommended = prescribed \cup carried /\ review.unobtained = unobtained
  BY DEF Review
<1>2. ASSUME NEW gap \in UncoveredDefects(obligations, defectSets, CaughtBy({"run", "judged"}))
      PROVE  gap \in (prescribed \cup carried) \cup unobtained
  BY <1>2, UncoveredArePending
<1>3. ASSUME NEW advice \in prescribed
      PROVE  advice.defect \in DefectsOf(defectSets) \ CaughtBy({"judged"})
  BY <1>3, PendingDefects
<1>4. ASSUME NEW advice \in carried
      PROVE  advice.defect \in DefectsOf(defectSets) \ CaughtBy({"judged"})
  <2>1. PICK u \in unobtained : u.defect = advice.defect
    BY <1>4 DEF CarriedRecommendations
  <2>. QED
    BY <2>1, PendingDefects
<1>. HIDE DEF review, carried
<1>. QED
  BY <1>1, <1>2, <1>3, <1>4 DEF Advised, review

\* The step before the review is put together leaves the two sets so.
LEMMA ConcludingStep ==
    ASSUME [Next]_vars, GapsInv, step' = "concluding"
    PROVE  (prescribed \cup unobtained = Pending)'
<1>1. CASE PrescribeTests
  <2>1. PICK given \in SUBSET Pending : prescribed' = given /\ unobtained' = Pending \ given
    BY <1>1 DEF PrescribeTests, Pending
  <2>2. UNCHANGED <<obligations, defectSets, told>>
    BY <1>1 DEF PrescribeTests
  <2>3. Pending' = Pending
    BY <2>2 DEF Pending, UncoveredDefects, CaughtBy
  <2>. QED
    BY <2>1, <2>3
<1>2. CASE StartDecompose \/ StartCheck
  BY <1>2 DEF StartDecompose, StartCheck, Begin, Admission
<1>3. CASE ReadingStep /\ UNCHANGED checkVars
  BY <1>3, ReadingConcludesNothing
<1>4. CASE Judging /\ ~PrescribeTests
  BY <1>4 DEF Judging, ResolveQuestions, EnumerateDefects, JudgeDefects, ClassifyCoverage,
              DetectUnrequested, StoreReview, RecordCheck, WriteLedger
<1>5. CASE CallFails \/ Kill
  BY <1>5 DEF CallFails, Kill
<1>6. CASE Finished \/ UNCHANGED vars
  <2>1. UNCHANGED <<step, prescribed, unobtained, obligations, defectSets, told>>
    BY <1>6 DEF Finished, vars, decomposeVars, checkVars, judgementVars
  <2>2. Pending' = Pending
    BY <2>1 DEF Pending, UncoveredDefects, CaughtBy
  <2>. QED
    BY <2>1, <2>2 DEF GapsInv
<1>. QED
  BY <1>1, <1>2, <1>3, <1>4, <1>5, <1>6 DEF Next

\* Every gap of every stored review has a prescription or is on record as owed
\* one, and no prescription is for a defect the judge saw caught:
\* recommendations.py with carried_recommendations of rerun.py.
THEOREM GapsAdvised == Spec => []EveryGapHasAdvice
<1>1. Init => GapsInv
  BY DEF Init, InitDecompose, GapsInv, EveryGapHasAdvice, Whole
<1>2. GapsInv /\ [Next]_vars => GapsInv'
  <2> SUFFICES ASSUME GapsInv, [Next]_vars PROVE GapsInv'
    OBVIOUS
  <2>1. (step = "concluding" => prescribed \cup unobtained = Pending)'
    BY ConcludingStep
  <2>2. ASSUME NEW r \in Whole' PROVE Advised(reviews'[r])
    <3>1. \A q \in Whole : Advised(reviews[q])
      BY DEF GapsInv, EveryGapHasAdvice, Advised
    <3>2. CASE UNCHANGED reviews
      BY <3>1, <3>2 DEF Whole
    <3>3. CASE reviews' = Put(Torn)
      <4>1. r # run.head
        BY <3>3 DEF Put, Torn, Whole
      <4>. QED
        BY <3>1, <3>3, <4>1 DEF Put, Whole
    <3>4. ASSUME NEW mismatched \in BOOLEAN, step = "concluding",
                 reviews' = Put(Review(Findings(mismatched)))
          PROVE  Advised(reviews'[r])
      <4>1. CASE r = run.head
        <5>1. reviews'[r] = Review(Findings(mismatched))
          BY <3>4, <4>1 DEF Put
        <5>. QED
          BY <3>4, <5>1, ReviewAdvised DEF GapsInv
      <4>2. CASE r # run.head
        BY <3>1, <3>4, <4>2 DEF Put, Whole
      <4>. QED
        BY <4>1, <4>2
    <3>. QED
      BY <3>2, <3>3, <3>4, ReviewsChange
  <2>. QED
    BY <2>1, <2>2 DEF GapsInv, EveryGapHasAdvice, Advised
<1>3. GapsInv => EveryGapHasAdvice
  BY DEF GapsInv
<1>. QED
  BY <1>1, <1>2, <1>3, PTL DEF Spec

(***************************************************************************)
(* The shape of the state.                                                 *)
(***************************************************************************)

\* A check builds on no review or on one that could be read.
LEMMA PriorsAreWhole ==
    ASSUME TypeOK, NEW check, Admission(check) = "claiming", NEW review \in Priors(check)
    PROVE  review.form \in {"none", "whole"}
<1>1. CASE check.since # "none"
  <2>1. review = Stored(reviews, check.since) /\ review # NoReview /\ review # Torn
    BY <1>1 DEF Priors, Admission
  <2>2. check.since \in DOMAIN reviews /\ review = reviews[check.since]
    BY <2>1 DEF Stored
  <2>3. check.since \in Whole
    BY <2>1, <2>2 DEF TypeOK
  <2>. QED
    BY <2>2, <2>3 DEF Whole
<1>2. CASE check.since = "none"
  BY <1>2 DEF Priors, Predecessors, NoReview
<1>. QED
  BY <1>1, <1>2

\* A step leaves it so.
LEMMA PriorStep ==
    ASSUME TypeOK, [Next]_vars
    PROVE  prior'.form \in {"none", "whole"}
<1>1. prior.form \in {"none", "whole"} /\ NoReview.form = "none"
  BY DEF TypeOK, NoReview
<1>2. CASE StartDecompose /\ prior' = NoReview /\ NothingJudged /\ UNCHANGED reviews
  BY <1>1, <1>2
<1>3. CASE StartCheck
  <2>1. CASE Admission(Head(commands)) = "claiming"
    BY <1>3, <2>1, PriorsAreWhole DEF StartCheck
  <2>2. CASE Admission(Head(commands)) # "claiming"
    BY <1>1, <1>3, <2>2 DEF StartCheck
  <2>. QED
    BY <2>1, <2>2
<1>4. CASE ReadingStep /\ UNCHANGED checkVars
  BY <1>1, <1>4 DEF checkVars
<1>5. CASE Judging
  BY <1>1, <1>5 DEF Judging, ResolveQuestions, EnumerateDefects, JudgeDefects, ClassifyCoverage,
                    DetectUnrequested, PrescribeTests, StoreReview, RecordCheck, checkVars
<1>6. CASE CallFails \/ Kill
  BY <1>1, <1>6 DEF CallFails, Kill, Forget
<1>7. CASE Finished \/ UNCHANGED vars
  BY <1>1, <1>7 DEF Finished, vars, checkVars
<1>. QED
  BY <1>2, <1>3, <1>4, <1>5, <1>6, <1>7 DEF Next

\* A review has a verdict, and a status and a class for each obligation.
LEMMA ReviewShape ==
    ASSUME NEW findings
    PROVE  LET review == Review(findings)
           IN  /\ review.form = "whole" /\ review.verdict \in Verdicts
               /\ DOMAIN review.status = IdsOf(review.obligations)
               /\ DOMAIN review.class = IdsOf(review.obligations)
<1>1. \A standings, unresolved : RolledUp(standings, unresolved) \in Verdicts
  BY DEF RolledUp, Verdicts
<1>2. \A verdict \in Verdicts : \A complete : Bounded(verdict, complete) \in Verdicts
  BY DEF Bounded, Verdicts
<1>3. DeriveVerdict(obligations, EachObligation(ClassOf), findings, open, made.dispositions, Unread)
         \in Verdicts
  BY <1>1, <1>2 DEF DeriveVerdict
<1>. QED
  BY <1>3 DEF Review, EachObligation

ReviewsShape ==
    /\ \A r \in DOMAIN reviews \ Whole : reviews[r] = Torn
    /\ \A r \in Whole : /\ reviews[r].verdict \in Verdicts
                        /\ DOMAIN reviews[r].status = IdsOf(reviews[r].obligations)
                        /\ DOMAIN reviews[r].class = IdsOf(reviews[r].obligations)

\* And every stored review keeps its shape.
LEMMA ReviewsStep ==
    ASSUME ReviewsShape, [Next]_vars
    PROVE  ReviewsShape'
<1>1. CASE UNCHANGED reviews
  BY <1>1 DEF ReviewsShape, Whole
<1>2. CASE reviews' = Put(Torn)
  BY <1>2 DEF ReviewsShape, Whole, Put, Torn
<1>3. ASSUME NEW mismatched \in BOOLEAN, reviews' = Put(Review(Findings(mismatched)))
      PROVE  ReviewsShape'
  <2>1. PICK review : review = Review(Findings(mismatched))
    OBVIOUS
  <2>2. /\ review.form = "whole" /\ review.verdict \in Verdicts
        /\ DOMAIN review.status = IdsOf(review.obligations)
        /\ DOMAIN review.class = IdsOf(review.obligations)
    BY <2>1, ReviewShape
  <2>3. reviews' = Put(review)
    BY <1>3, <2>1
  <2>. QED
    BY <2>2, <2>3 DEF ReviewsShape, Whole, Put
<1>. QED
  BY <1>1, <1>2, <1>3, ReviewsChange

\* The state keeps its shape, whatever is answered and whenever a command fails
\* or is killed: what is written whole can be read as it was meant.
THEOREM TypeCorrect == Spec => []TypeOK
<1>1. Init => TypeOK
  BY DEF Init, InitDecompose, TypeOK, Outcomes, Whole, NoReview
<1>2. TypeOK /\ Inv /\ [Next]_vars => TypeOK'
  <2> SUFFICES ASSUME TypeOK, Inv, [Next]_vars PROVE TypeOK'
    OBVIOUS
  <2>1. \A n \in DOMAIN ledger' : /\ ledger'[n].file \in {"none", "torn", "whole"}
                                  /\ ledger'[n].from \in Nat
    BY NextMoves DEF TypeOK, LedgerMoves
  <2>2. step' \in Outcomes \cup Steps
    BY NextMoves DEF TypeOK, Steps
  <2>3. ReviewsShape'
    BY ReviewsStep DEF TypeOK, ReviewsShape
  <2>. QED
    BY <2>1, <2>2, <2>3, PriorStep DEF TypeOK, Steps, ReviewsShape, Outcomes
<1>. QED
  BY <1>1, <1>2, InvHolds, PTL DEF Spec

(***************************************************************************)
(* Regions.  What a run says of the change names hunks of the change it is *)
(* looking at.                                                             *)
(***************************************************************************)

Shown == NonTestChanges(Files)

\* What a defect implicates was shown when the set was enumerated.
Grounded(set) ==
    /\ {"obligation", "carried", "defects", "digests", "key"} \subseteq DOMAIN set
    /\ set.key.digests = set.digests /\ IsList(set.defects) /\ IsDefectSet(set)
    /\ \A d \in ToSet(set.defects) : d.refs \subseteq DOMAIN set.digests

\* It is there, and reads as it did.
Reads(set, shown) ==
    \A d \in ToSet(set.defects) : \A label \in d.refs :
        label \in Labels(shown) /\ HunkAt(shown, label).content = set.digests[label]

AreGrounded(sets) == IsList(sets) /\ \A set \in ToSet(sets) : Grounded(set)

\* A review of a checkout points at what the change of that checkout has.
PointsAtReal(review) ==
    LET files == ChangeOf(review.checkout, review.head)
    IN  /\ review.checkout \in DOMAIN Checkouts
        /\ \A id \in DOMAIN review.coverages : review.coverages[id].refs \subseteq Labels(files)
        /\ \A u \in review.unrequested : u.change \subseteq Labels(files)
        /\ \A set \in ToSet(review.sets) : Reads(set, NonTestChanges(files))

Regions ==
    /\ IsList(obligations)
    /\ \A id \in DOMAIN coverages : coverages[id].refs \subseteq Labels(Files)
    /\ \A u \in unrequested : u.change \subseteq Labels(Files)
    /\ AreGrounded(defectSets) /\ \A set \in ToSet(defectSets) : Reads(set, Shown)
    /\ \A n \in DOMAIN ledger : AreGrounded(ledger[n].sets)
    /\ \A r \in Whole : PointsAtReal(reviews[r])

\* References that resolve.
LEMMA ResolvedAreReal ==
    ASSUME NEW labels, NEW files
    PROVE  ResolvedRefs(labels, files) \subseteq Labels(files)
BY DEF ResolvedRefs

\* What supports an obligation.
LEMMA CoveragesAreReal ==
    ASSUME NEW os, NEW answers, NEW files, NEW id \in DOMAIN Coverages(os, answers, files)
    PROVE  Coverages(os, answers, files)[id].refs \subseteq Labels(files)
BY DEF Coverages, ResolvedRefs

\* What nobody asked for.
LEMMA ChangesAreReal ==
    ASSUME NEW answers, NEW files, NEW change \in UnrequestedChanges(answers, files)
    PROVE  change \subseteq Labels(files)
BY DEF UnrequestedChanges, ResolvedRefs

\* What was just enumerated.
LEMMA EnumeratedReads ==
    ASSUME NEW o, NEW answer, IsList(answer), NEW tool, NEW files
    PROVE  LET set == EnumeratedSet(o, answer, tool, files) IN Grounded(set) /\ Reads(set, files)
<1> DEFINE set == EnumeratedSet(o, answer, tool, files)
           labels == UNION {d.refs : d \in ToSet(set.defects)}
<1>1. /\ {"obligation", "carried", "defects", "digests", "key"} \subseteq DOMAIN set
      /\ set.digests = RegionDigests(labels, files)
      /\ set.key = DefectKey(tool, o, set.digests)
      /\ \A n \in DOMAIN set.defects : set.defects[n].refs \subseteq Labels(files)
  BY ResolvedAreReal DEF EnumeratedSet
<1>2. set.key.digests = set.digests /\ IsList(set.defects)
  <2> DEFINE defects == set.defects
  <2>1. /\ DOMAIN defects = DOMAIN answer /\ defects = [n \in DOMAIN answer |-> defects[n]]
        /\ \A n \in DOMAIN answer : defects[n] \in ToSet(defects)
    BY DEF EnumeratedSet, ToSet
  <2> HIDE DEF defects
  <2>2. IsList(defects)
    BY <2>1, Mapped
  <2> USE DEF defects
  <2>. QED
    BY <1>1, <2>2 DEF DefectKey
<1>6. IsDefectSet(set)
  <2>1. \A value : DefectType(value) \in DefectTypes
    <3>1. "other" \in DefectTypes
      BY DEF DefectTypes
    <3>. QED
      BY <3>1 DEF DefectType
  <2>2. \A n \in DOMAIN set.defects : set.defects[n].type = DefectType(answer[n].type)
    BY DEF EnumeratedSet
  <2>. QED
    BY <2>1, <2>2 DEF IsDefectSet, ToSet
<1>3. ASSUME NEW d \in ToSet(set.defects), NEW label \in d.refs
      PROVE  label \in labels \cap Labels(files)
  BY <1>1 DEF ToSet
<1> HIDE DEF set, labels
<1>4. /\ DOMAIN set.digests = labels \cap Labels(files)
      /\ \A label \in labels \cap Labels(files) : set.digests[label] = HunkAt(files, label).content
  BY <1>1 DEF RegionDigests
<1>5. Grounded(set) /\ Reads(set, files)
  BY <1>1, <1>2, <1>3, <1>4, <1>6 DEF Grounded, Reads
<1>. QED
  BY <1>5 DEF set

\* What is carried: the key says what the regions read then, and is what it
\* would be now.
LEMMA CarriedReads ==
    ASSUME NEW o, NEW sets, AreGrounded(sets), NEW tool, NEW files, MayCarrySet(o, sets, tool, files)
    PROVE  LET set == CarriedSet(o, sets) IN Grounded(set) /\ Reads(set, files)
<1> DEFINE stored == StoredSet(o, sets)
           set == CarriedSet(o, sets)
           now == RegionDigests(DOMAIN stored.digests, files)
<1>1. stored \in ToSet(sets)
  <2>1. DOMAIN sets = 1..Len(sets) /\ Len(sets) \in Nat
    BY Listed DEF AreGrounded, IsList
  <2>2. StoredSets(o, sets) # {} /\ StoredSets(o, sets) \subseteq 1..Len(sets)
    BY <2>1 DEF MayCarrySet, StoredSets
  <2>3. \E n \in StoredSets(o, sets) : \A m \in StoredSets(o, sets) : m <= n
    BY <2>1, <2>2, Greatest
  <2>4. Max(StoredSets(o, sets)) \in StoredSets(o, sets)
    BY <2>3 DEF Max
  <2>. QED
    BY <2>1, <2>2, <2>4 DEF StoredSet, ToSet
<1>2. Grounded(stored)
  BY <1>1 DEF AreGrounded
<1>3. stored.key = DefectKey(tool, o, now)
  BY DEF MayCarrySet, Refusal
<1>4. stored.digests = now
  BY <1>2, <1>3 DEF Grounded, DefectKey
<1>5. /\ DOMAIN set = DOMAIN stored
      /\ set.key = stored.key /\ set.digests = stored.digests /\ set.defects = stored.defects
  <2>1. set = [stored EXCEPT !.obligation = o.id, !.carried = TRUE]
    BY DEF CarriedSet
  <2> HIDE DEF set, stored
  <2>2. {"obligation", "carried", "defects", "digests", "key"} \subseteq DOMAIN stored
    BY <1>2 DEF Grounded
  <2>. QED
    BY <2>1, <2>2
<1> HIDE DEF set, stored
<1>6. /\ DOMAIN now = DOMAIN stored.digests \cap Labels(files)
      /\ \A label \in DOMAIN now : now[label] = HunkAt(files, label).content
  BY DEF RegionDigests
<1> HIDE DEF now
<1>7. Grounded(set) /\ Reads(set, files)
  BY <1>2, <1>4, <1>5, <1>6 DEF Grounded, Reads, IsDefectSet
<1>. QED
  BY <1>7 DEF set

\* Answers to several items, put after one another, are a list.
LEMMA AnsweredIs ==
    ASSUME NEW items, IsList(items), NEW given, DOMAIN given = DOMAIN items,
           given = [n \in DOMAIN items |-> given[n]],
           \A n \in DOMAIN items : IsList(given[n])
    PROVE  /\ IsList(FlattenSeq(given))
           /\ ToSet(FlattenSeq(given)) = UNION {ToSet(given[n]) : n \in DOMAIN items}
<1> DEFINE S == UNION {ToSet(given[n]) : n \in DOMAIN items}
<1>1. \A n \in DOMAIN items : given[n] \in Seq(S)
  <2>1. ASSUME NEW n \in DOMAIN items PROVE given[n] \in Seq(S)
    <3>1. given[n] \in Seq(ToSet(given[n])) /\ ToSet(given[n]) \subseteq S
      BY DEF IsList
    <3> HIDE DEF S
    <3>. QED
      BY <3>1
  <2>. QED
    BY <2>1
<1> HIDE DEF S
<1>2. given \in Seq(Seq(S))
  BY <1>1, Mapped
<1>3. FlattenSeq(given) \in Seq(S) /\ ToSet(FlattenSeq(given)) = UNION {ToSet(given[n]) : n \in DOMAIN given}
  BY <1>2, Flattening
<1>. QED
  BY <1>3, Listed DEF S

\* What is derived from the questions is a list.
LEMMA DerivedAreAList ==
    ASSUME NEW questions, IsList(questions), NEW answers, IsList(answers), NEW files
    PROVE  IsList(DerivedObligations(Resolutions(questions, answers, files)))
<1> DEFINE heard == Where(answers, LAMBDA a : a.question \in IdsOf(questions))
           silent == Where(questions, LAMBDA q : \A a \in ToSet(heard) : a.question # q.id)
           spoken == [n \in DOMAIN heard |->
                        [question |-> heard[n].question, resolved |-> heard[n].resolved,
                         refs |-> ResolvedRefs(heard[n].refs, files),
                         behavior |-> IF heard[n].resolved THEN heard[n].behavior ELSE ""]]
           left == [n \in DOMAIN silent |->
                      [question |-> silent[n].id, resolved |-> FALSE, refs |-> {}, behavior |-> ""]]
           resolutions == Resolutions(questions, answers, files)
           found == Where(resolutions, LAMBDA r : r.resolved /\ r.behavior # "" /\ r.refs # {})
           derived == DerivedObligations(resolutions)
<1>1. IsList(heard)
  BY OnlyHas DEF Where
<1> HIDE DEF heard
<1>2. IsList(silent)
  BY OnlyHas DEF Where
<1> HIDE DEF silent
<1>3. /\ DOMAIN spoken = DOMAIN heard /\ spoken = [n \in DOMAIN heard |-> spoken[n]]
      /\ \A n \in DOMAIN heard : spoken[n] \in ToSet(spoken)
      /\ DOMAIN left = DOMAIN silent /\ left = [n \in DOMAIN silent |-> left[n]]
      /\ \A n \in DOMAIN silent : left[n] \in ToSet(left)
  BY DEF ToSet
<1>4. resolutions = spoken \o left
  BY DEF Resolutions, heard, silent
<1> HIDE DEF spoken, left, resolutions
<1>5. IsList(spoken)
  BY <1>1, <1>3, Mapped
<1>6. IsList(left)
  BY <1>2, <1>3, Mapped
<1>7. IsList(resolutions)
  BY <1>4, <1>5, <1>6, JoinedLists
<1>8. IsList(found)
  BY <1>7, OnlyHas DEF Where
<1>9. /\ DOMAIN derived = DOMAIN found /\ derived = [n \in DOMAIN found |-> derived[n]]
      /\ \A n \in DOMAIN found : derived[n] \in ToSet(derived)
  BY DEF DerivedObligations, ToSet
<1> HIDE DEF found, derived
<1>10. IsList(derived)
  BY <1>8, <1>9, Mapped
<1>. QED
  BY <1>10 DEF derived, resolutions

\* The obligations a check judges: those of the file, and those derived after them.
LEMMA ResolvedHave ==
    ASSUME ReadShape, ResolveQuestions
    PROVE  \E resolutions :
              /\ IsList(DerivedObligations(resolutions))
              /\ obligations' = made.obligations \o DerivedObligations(resolutions)
<1> DEFINE items == made.questions
           tagged(f, n) == [k \in DOMAIN f[n] |-> With(f[n][k], "question", items[n].id)]
<1>1. IsList(items) /\ AreObligations(made.obligations)
  BY DEF ReadShape, IsMade
<1>2. PICK f \in [DOMAIN items -> UNION {Offered(QuestionReplies, items[n].says) : n \in DOMAIN items}] :
         /\ \A n \in DOMAIN items : f[n] \in Offered(QuestionReplies, items[n].says)
         /\ LET answers == FlattenSeq([n \in DOMAIN items |-> tagged(f, n)])
            IN  obligations' = made.obligations \o
                                 DerivedObligations(Resolutions(items, answers, Files))
  BY DEF ResolveQuestions, Answers
<1> DEFINE given == [n \in DOMAIN items |-> tagged(f, n)]
           answers == FlattenSeq(given)
<1>3. ASSUME NEW n \in DOMAIN items PROVE IsList(tagged(f, n))
  <2>1. IsList(f[n])
    <3>1. f[n] \in Offered(QuestionReplies, items[n].says)
      BY <1>2
    <3>. QED
      BY <3>1, AnswersAreLists DEF Offered
  <2> DEFINE seq == f[n]
             out == tagged(f, n)
  <2>2. /\ DOMAIN out = DOMAIN seq /\ out = [k \in DOMAIN seq |-> out[k]]
        /\ \A k \in DOMAIN seq : out[k] \in ToSet(out)
    BY DEF ToSet
  <2>3. IsList(seq)
    BY <2>1
  <2> HIDE DEF seq, out
  <2>4. IsList(out)
    BY <2>2, <2>3, Mapped
  <2>. QED
    BY <2>4 DEF out
<1>4. DOMAIN given = DOMAIN items /\ given = [n \in DOMAIN items |-> given[n]]
      /\ \A n \in DOMAIN items : IsList(given[n])
  BY <1>3
<1>5. obligations' = made.obligations \o DerivedObligations(Resolutions(items, answers, Files))
  BY <1>2
<1> HIDE DEF given
<1>6. IsList(answers)
  BY <1>1, <1>4, AnsweredIs
<1> HIDE DEF answers
<1>7. IsList(DerivedObligations(Resolutions(items, answers, Files)))
  BY <1>1, <1>6, DerivedAreAList
<1>. QED
  BY <1>5, <1>7

\* So are the obligations with it.
LEMMA ObligationsStayAList ==
    ASSUME ReadShape, ResolveQuestions
    PROVE  IsList(obligations')
<1>1. PICK resolutions :
         /\ IsList(DerivedObligations(resolutions))
         /\ obligations' = made.obligations \o DerivedObligations(resolutions)
  BY ResolvedHave
<1>. QED
  BY <1>1, JoinedLists DEF ReadShape, IsMade, AreObligations

\* The sets of a check, carried and enumerated.
LEMMA EnumeratedAreGrounded ==
    ASSUME Regions, EnumerateDefects
    PROVE  AreGrounded(defectSets') /\ \A set \in ToSet(defectSets') : Reads(set, Shown)
<1> DEFINE sets(o) == IF MayCarrySet(o, StoredDefects, run.tool, Shown)
                      THEN {CarriedSet(o, StoredDefects)}
                      ELSE {EnumeratedSet(o, answer, run.tool, Shown) :
                              answer \in Offered(DefectReplies, o.says)}
           choices(o) == {<<s>> : s \in sets(o)}
<1>1. AreGrounded(StoredDefects)
  <2>1. AreGrounded(<<>>)
    BY Emptied DEF AreGrounded
  <2>. QED
    BY <2>1 DEF StoredDefects, Regions, Readable, Entry
<1>2. ASSUME NEW o, NEW s \in sets(o) PROVE Grounded(s) /\ Reads(s, Shown)
  <2>1. CASE MayCarrySet(o, StoredDefects, run.tool, Shown)
    BY <1>1, <1>2, <2>1, CarriedReads
  <2>2. CASE ~MayCarrySet(o, StoredDefects, run.tool, Shown)
    <3>1. PICK answer \in Offered(DefectReplies, o.says) :
             s = EnumeratedSet(o, answer, run.tool, Shown)
      BY <1>2, <2>2
    <3>2. IsList(answer)
      BY AnswersAreLists DEF Offered
    <3>. QED
      BY <3>1, <3>2, EnumeratedReads
  <2>. QED
    BY <2>1, <2>2
<1>3. IsList(Owed)
  BY OnlyHas DEF Owed, Where, Regions
<1>4. PICK f \in [DOMAIN Owed -> UNION {choices(Owed[n]) : n \in DOMAIN Owed}] :
         /\ \A n \in DOMAIN Owed : f[n] \in choices(Owed[n])
         /\ defectSets' = FlattenSeq([n \in DOMAIN Owed |-> [k \in DOMAIN f[n] |-> f[n][k]]])
  BY DEF EnumerateDefects, Answers, Shown
<1> DEFINE given == [n \in DOMAIN Owed |-> [k \in DOMAIN f[n] |-> f[n][k]]]
<1>5. ASSUME NEW n \in DOMAIN Owed
      PROVE  IsList(given[n]) /\ \A s \in ToSet(given[n]) : Grounded(s) /\ Reads(s, Shown)
  <2>1. PICK s \in sets(Owed[n]) : f[n] = <<s>>
    BY <1>4
  <2>2. given[n] = <<s>>
    BY <2>1
  <2>3. IsList(<<s>>) /\ ToSet(<<s>>) = {s}
    BY DEF IsList, ToSet
  <2>4. Grounded(s) /\ Reads(s, Shown)
    BY <1>2, <2>1
  <2> HIDE DEF given, sets
  <2>. QED
    BY <2>2, <2>3, <2>4
<1>6. DOMAIN given = DOMAIN Owed /\ given = [n \in DOMAIN Owed |-> given[n]]
  OBVIOUS
<1>7. defectSets' = FlattenSeq(given)
  BY <1>4
<1> HIDE DEF given
<1>8. /\ IsList(FlattenSeq(given))
      /\ ToSet(FlattenSeq(given)) = UNION {ToSet(given[n]) : n \in DOMAIN Owed}
  BY <1>3, <1>5, <1>6, AnsweredIs
<1>. QED
  BY <1>5, <1>7, <1>8 DEF AreGrounded

\* What a step does to what is said of the change.
LEMMA JudgementChanges ==
    ASSUME [Next]_vars
    PROVE  \/ NothingJudged
           \/ UNCHANGED <<run, obligations, defectSets, coverages, unrequested>>
           \/ ResolveQuestions \/ EnumerateDefects \/ ClassifyCoverage \/ DetectUnrequested
<1>1. CASE StartDecompose /\ prior' = NoReview /\ NothingJudged /\ UNCHANGED reviews
  BY <1>1
<1>2. CASE StartCheck
  BY <1>2 DEF StartCheck
<1>3. CASE ReadingStep /\ UNCHANGED checkVars
  <2>1. UNCHANGED run
    BY <1>3 DEF ReadingStep, PlanCarry, AskAbout, DecideSpans, AskSpan, SummaryDone, Reconcile, Link,
                Record, WriteLedger, BuildClaims, Synthesize
  <2>. QED
    BY <1>3, <2>1 DEF checkVars, judgementVars
<1>4. CASE Judging
  BY <1>4 DEF Judging, JudgeDefects, PrescribeTests, StoreReview, RecordCheck, WriteLedger, checkVars,
              judgementVars
<1>5. CASE CallFails \/ Kill
  BY <1>5 DEF CallFails, Kill, Forget
<1>6. CASE Finished \/ UNCHANGED vars
  BY <1>6 DEF Finished, vars, decomposeVars, checkVars, judgementVars
<1>. QED
  BY <1>1, <1>2, <1>3, <1>4, <1>5, <1>6 DEF Next

\* What is said of the change, after any step.
LEMMA JudgedIsReal ==
    ASSUME ReadShape, Regions, [Next]_vars
    PROVE  /\ IsList(obligations')
           /\ \A id \in DOMAIN coverages' : coverages'[id].refs \subseteq Labels(Files)'
           /\ \A u \in unrequested' : u.change \subseteq Labels(Files)'
           /\ AreGrounded(defectSets') /\ \A set \in ToSet(defectSets') : Reads(set, Shown')
<1>1. UNCHANGED run => Labels(Files)' = Labels(Files) /\ Shown' = Shown
  BY DEF Files, Shown, ChangeOf, Labels
<1>2. CASE NothingJudged
  BY <1>2, Emptied DEF NothingJudged, AreGrounded
<1>3. CASE UNCHANGED <<run, obligations, defectSets, coverages, unrequested>>
  BY <1>1, <1>3 DEF Regions
<1>4. CASE ResolveQuestions
  <2>1. UNCHANGED <<run, defectSets, coverages, unrequested>>
    BY <1>4 DEF ResolveQuestions
  <2>. QED
    BY <1>1, <1>4, <2>1, ObligationsStayAList DEF Regions
<1>5. CASE EnumerateDefects
  <2>1. UNCHANGED <<run, obligations, coverages, unrequested>>
    BY <1>5 DEF EnumerateDefects
  <2>. QED
    BY <1>1, <1>5, <2>1, EnumeratedAreGrounded DEF Regions
<1>6. CASE ClassifyCoverage
  <2>1. UNCHANGED <<run, obligations, defectSets, unrequested>>
    BY <1>6 DEF ClassifyCoverage
  <2>2. \E answers : coverages' = Coverages(ToClassify, answers, Files)
    BY <1>6 DEF ClassifyCoverage
  <2>3. \A id \in DOMAIN coverages' : coverages'[id].refs \subseteq Labels(Files)
    BY <2>2, CoveragesAreReal
  <2>. QED
    BY <1>1, <2>1, <2>3 DEF Regions
<1>7. CASE DetectUnrequested
  <2>1. UNCHANGED <<run, obligations, defectSets, coverages>>
    BY <1>7 DEF DetectUnrequested
  <2>2. PICK answers \in UnrequestedReplies :
           \E disposition \in [UnrequestedChanges(answers, Files) -> {"in_service", "separable", "risky"}] :
              unrequested' = {[change |-> c, disposition |-> disposition[c]] : c \in DOMAIN disposition}
    BY <1>7 DEF DetectUnrequested
  <2>3. \A u \in unrequested' : u.change \in UnrequestedChanges(answers, Files)
    BY <2>2
  <2>4. \A u \in unrequested' : u.change \subseteq Labels(Files)
    BY <2>3, ChangesAreReal
  <2>. QED
    BY <1>1, <2>1, <2>4 DEF Regions
<1>. QED
  BY <1>2, <1>3, <1>4, <1>5, <1>6, <1>7, JudgementChanges

\* The sets on record.
LEMMA StoredAreGrounded ==
    ASSUME Inv, Regions, [Next]_vars, NEW n \in DOMAIN ledger'
    PROVE  AreGrounded(ledger'[n].sets)
<1>1. AreGrounded(<<>>) /\ AreGrounded(defectSets)
  BY Emptied DEF AreGrounded, Regions
<1>2. \A file : Blank(file).sets = <<>>
  BY DEF Blank
<1>3. \A sets : LedgerEntry(sets).sets = sets
  BY DEF LedgerEntry
<1>. QED
  BY <1>1, <1>2, <1>3, EntriesChange DEF Regions

\* A review says it of the change it was made of.
LEMMA ReviewIsReal ==
    ASSUME Regions, run.checkout \in DOMAIN Checkouts, NEW findings
    PROVE  PointsAtReal(Review(findings))
<1> DEFINE review == Review(findings)
<1>1. /\ review.checkout = run.checkout /\ review.head = run.head
      /\ review.coverages = coverages /\ review.unrequested = unrequested /\ review.sets = defectSets
  BY DEF Review
<1> HIDE DEF review
<1>2. ChangeOf(review.checkout, review.head) = Files
  BY <1>1 DEF Files
<1>3. PointsAtReal(review)
  BY <1>1, <1>2 DEF PointsAtReal, Regions, Shown
<1>. QED
  BY <1>3 DEF review

\* So does every stored review.
LEMMA ReviewsAreReal ==
    ASSUME Inv, LeftShape, Regions, [Next]_vars, NEW r \in Whole'
    PROVE  PointsAtReal(reviews'[r])
<1>1. \A q \in Whole : PointsAtReal(reviews[q])
  BY DEF Regions
<1>2. CASE UNCHANGED reviews
  BY <1>1, <1>2 DEF Whole
<1>3. CASE reviews' = Put(Torn)
  <2>1. r # run.head
    BY <1>3 DEF Put, Torn, Whole
  <2>. QED
    BY <1>1, <1>3, <2>1 DEF Put, Whole
<1>4. ASSUME NEW mismatched \in BOOLEAN, step = "concluding",
             reviews' = Put(Review(Findings(mismatched)))
      PROVE  PointsAtReal(reviews'[r])
  <2>1. CASE r = run.head
    <3>1. reviews'[r] = Review(Findings(mismatched))
      BY <1>4, <2>1 DEF Put
    <3>2. run.checkout \in DOMAIN Checkouts
      BY <1>4 DEF LeftShape, JudgingSteps, Inv, RunShape
    <3>. QED
      BY <3>1, <3>2, ReviewIsReal
  <2>2. CASE r # run.head
    BY <1>1, <1>4, <2>2 DEF Put, Whole
  <2>. QED
    BY <2>1, <2>2
<1>. QED
  BY <1>2, <1>3, <1>4, ReviewsChange

\* It always holds.
LEMMA RegionsHold == Spec => []Regions
<1>1. Init => Regions
  <2> SUFFICES ASSUME Init PROVE Regions
    OBVIOUS
  <2>1. /\ obligations = <<>> /\ coverages = <<>> /\ unrequested = {} /\ defectSets = <<>>
        /\ ledger = <<>> /\ reviews = <<>>
    BY DEF Init, InitDecompose
  <2>. QED
    BY <2>1, Emptied DEF Regions, AreGrounded, Whole
<1>2. Regions /\ Inv /\ ReadShape /\ LeftShape /\ [Next]_vars => Regions'
  <2> SUFFICES ASSUME Regions, Inv, ReadShape, LeftShape, [Next]_vars PROVE Regions'
    OBVIOUS
  <2>1. \A n \in DOMAIN ledger' : AreGrounded(ledger'[n].sets)
    BY StoredAreGrounded
  <2>2. \A r \in Whole' : PointsAtReal(reviews'[r])
    BY ReviewsAreReal
  <2>. QED
    BY <2>1, <2>2, JudgedIsReal DEF Regions
<1>. QED
  BY <1>1, <1>2, InvHolds, ReadShapeHolds, LeftShapeHolds, PTL DEF Spec

\* No file that is ignored has a hunk in the change.
LEMMA NoneIsIgnored ==
    ASSUME NEW checkout, IsList(checkout.diff), IsList(checkout.untracked), NEW workingTree \in BOOLEAN,
           NEW label \in Labels(ChangeSet(checkout, workingTree))
    PROVE  label[1] \notin IgnoredPaths(checkout, workingTree)
<1> DEFINE known == Kept(checkout.diff, checkout)
           kept == Kept(checkout.untracked, checkout)
           read == Where(kept, LAMBDA f : f.readable)
           more == IF workingTree THEN read ELSE <<>>
           files == ChangeSet(checkout, workingTree)
<1>1. /\ IsList(known) /\ \A f \in ToSet(known) : f.path \notin checkout.ignored
      /\ IsList(kept) /\ \A f \in ToSet(kept) : f.path \notin checkout.ignored
  BY OnlyHas DEF Kept, Where
<1> HIDE DEF known, kept
<1>2. IsList(read) /\ ToSet(read) \subseteq ToSet(kept)
  BY <1>1, OnlyHas DEF Where
<1>3. files = known \o more
  BY DEF ChangeSet, known, kept
<1> HIDE DEF read, files
<1>4. IsList(more) /\ ToSet(more) \subseteq ToSet(kept)
  BY <1>2, Emptied
<1> HIDE DEF more
<1>5. ToSet(files) = ToSet(known) \cup ToSet(more)
  BY <1>1, <1>3, <1>4, JoinedLists
<1>6. PICK i \in DOMAIN files : \E n \in DOMAIN files[i].hunks : label = <<files[i].path, n>>
  BY DEF Labels, files
<1>7. files[i] \in ToSet(files) /\ label[1] = files[i].path
  BY <1>6 DEF ToSet
<1>8. label[1] \notin checkout.ignored
  BY <1>1, <1>4, <1>5, <1>7
<1>. QED
  BY <1>8 DEF IgnoredPaths

\* Whatever a review points at is a hunk of the change it looked at, of no ignored
\* file, and what a defect implicates is no test and reads as it did when the
\* defect was enumerated, by this run or by the one it was carried from: diff.py,
\* classify.py, unrequested.py and enumeration.py, for every change, every answer
\* and every history.
THEOREM RegionsReal == Spec => []RegionsAreReal
<1>1. Regions => RegionsAreReal
  <2> SUFFICES ASSUME Regions, NEW r \in Whole
               PROVE  LET review == reviews[r]
                          files == ChangeOf(review.checkout, review.head)
                          ignored == IgnoredPaths(Checkouts[review.checkout],
                                                  review.head = WorkingTree)
                          shown == NonTestChanges(files)
                      IN  /\ \A id \in DOMAIN review.coverages :
                                review.coverages[id].refs \subseteq Labels(files)
                          /\ \A u \in review.unrequested : u.change \subseteq Labels(files)
                          /\ \A label \in Labels(files) : label[1] \notin ignored
                          /\ \A set \in ToSet(review.sets) : \A d \in ToSet(set.defects) :
                                \A label \in d.refs :
                                   /\ label \in Labels(shown)
                                   /\ HunkAt(shown, label).content = set.digests[label]
    BY DEF RegionsAreReal
  <2> DEFINE review == reviews[r]
             checkout == Checkouts[review.checkout]
             working == (review.head = WorkingTree)
  <2>1. PointsAtReal(review)
    BY DEF Regions
  <2>2. /\ IsList(checkout.diff) /\ IsList(checkout.untracked) /\ working \in BOOLEAN
        /\ ChangeOf(review.checkout, review.head) = ChangeSet(checkout, working)
    BY <2>1, ChecksAssumption DEF PointsAtReal, ChangeOf
  <2> HIDE DEF working, checkout
  <2>3. \A label \in Labels(ChangeSet(checkout, working)) :
           label[1] \notin IgnoredPaths(checkout, working)
    BY <2>2, NoneIsIgnored
  <2>. QED
    BY <2>1, <2>2, <2>3 DEF PointsAtReal, Reads, working, checkout
<1>. QED
  BY <1>1, RegionsHold, PTL

(***************************************************************************)
(* Movement.  What a stored review lists is finite, and the review that    *)
(* was just stored is the one that was put together.                       *)
(***************************************************************************)

\* A review two runs of which can be compared.
Comparable(review) ==
    /\ review.form = "whole"
    /\ IsList(review.obligations) /\ IsList(review.questions)
    /\ DOMAIN review.status = IdsOf(review.obligations)
    /\ DOMAIN review.class = IdsOf(review.obligations)
    /\ IsFiniteSet(DOMAIN review.kills)

Compared ==
    /\ IsFiniteSet(DOMAIN told)
    /\ prior = NoReview \/ Comparable(prior)
    /\ \A r \in Whole : Comparable(reviews[r])
    /\ step = "recording" /\ run.command = "check" =>
          \E findings : reviews[run.head] = Review(findings)

\* A list has finitely many ids.
LEMMA IdsAreFinite ==
    ASSUME NEW seq, IsList(seq)
    PROVE  IsFiniteSet(IdsOf(seq))
<1> DEFINE ids == [n \in DOMAIN seq |-> seq[n].id]
<1>1. /\ DOMAIN ids = DOMAIN seq /\ ids = [n \in DOMAIN seq |-> ids[n]]
      /\ \A n \in DOMAIN seq : ids[n] \in ToSet(ids)
      /\ ToSet(ids) = IdsOf(seq)
  BY DEF ToSet, IdsOf
<1> HIDE DEF ids
<1>2. IsList(ids)
  BY <1>1, Mapped
<1>. QED
  BY <1>1, <1>2, ListsAreFinite

\* What is enumerated is finite.
LEMMA DefectsAreFinite ==
    ASSUME NEW sets, AreGrounded(sets)
    PROVE  IsFiniteSet(DefectsOf(sets))
<1> DEFINE lists == [n \in DOMAIN sets |-> sets[n].defects]
           all == FlattenSeq(lists)
<1>1. IsList(sets) /\ \A n \in DOMAIN sets : IsList(sets[n].defects)
  BY DEF AreGrounded, Grounded, ToSet
<1>2. /\ DOMAIN lists = DOMAIN sets /\ lists = [n \in DOMAIN sets |-> lists[n]]
      /\ \A n \in DOMAIN sets : IsList(lists[n]) /\ lists[n] = sets[n].defects
  BY <1>1
<1> HIDE DEF lists
<1>3. IsList(all) /\ ToSet(all) = UNION {ToSet(lists[n]) : n \in DOMAIN sets}
  BY <1>1, <1>2, AnsweredIs
<1> HIDE DEF all
<1>4. IsFiniteSet(IdsOf(all))
  BY <1>3, IdsAreFinite
<1>5. DefectsOf(sets) \subseteq IdsOf(all)
  <2> SUFFICES ASSUME NEW n \in DOMAIN sets, NEW k \in DOMAIN sets[n].defects
               PROVE  sets[n].defects[k].id \in IdsOf(all)
    BY DEF DefectsOf, IdsOf, ToSet
  <2>1. sets[n].defects[k] \in ToSet(lists[n])
    BY <1>2 DEF ToSet
  <2>2. sets[n].defects[k] \in ToSet(all)
    BY <1>3, <2>1
  <2>. QED
    BY <2>2 DEF ToSet, IdsOf
<1>. QED
  BY <1>4, <1>5, FS_Subset

\* The review that is put together can be compared.
LEMMA ReviewCompares ==
    ASSUME ReadShape, Regions, IsFiniteSet(DOMAIN told), NEW findings
    PROVE  Comparable(Review(findings))
<1> DEFINE review == Review(findings)
<1>1. /\ review.form = "whole" /\ review.obligations = obligations
      /\ review.questions = made.questions /\ review.kills = PairAnswers
      /\ DOMAIN review.status = IdsOf(review.obligations)
      /\ DOMAIN review.class = IdsOf(review.obligations)
  BY DEF Review, EachObligation
<1>2. IsList(obligations) /\ IsList(made.questions)
  BY DEF ReadShape, IsMade, Regions
<1>3. DOMAIN PairAnswers \subseteq DOMAIN told
  BY DEF PairAnswers
<1>4. IsFiniteSet(DOMAIN PairAnswers)
  BY <1>3, FS_Subset
<1> HIDE DEF review
<1>5. Comparable(review)
  BY <1>1, <1>2, <1>4 DEF Comparable
<1>. QED
  BY <1>5 DEF review

\* A check records what it has just stored.
LEMMA StoredBeforeRecording ==
    ASSUME [Next]_vars, step' = "recording", run'.command = "check"
    PROVE  \/ UNCHANGED vars
           \/ StoreReview
<1>1. CASE StartDecompose /\ prior' = NoReview /\ NothingJudged /\ UNCHANGED reviews
  BY <1>1 DEF StartDecompose, Begin
<1>2. CASE StartCheck
  BY <1>2 DEF StartCheck, Begin, Admission
<1>3. CASE ReadingStep /\ UNCHANGED checkVars
  <2>1. step' = "recording" => Link /\ run' = run
    BY <1>3, FaultsAreOutcomes
       DEF ReadingStep, PlanCarry, AskAbout, DecideSpans, AskSpan, SummaryDone, Reconcile, Link,
           Record, WriteLedger, BuildClaims, Synthesize
  <2>. QED
    BY <2>1 DEF Link
<1>4. CASE Judging
  BY <1>4 DEF Judging, ResolveQuestions, EnumerateDefects, JudgeDefects, ClassifyCoverage,
              DetectUnrequested, PrescribeTests, RecordCheck, WriteLedger
<1>5. CASE CallFails \/ Kill
  BY <1>5 DEF CallFails, Kill
<1>6. CASE Finished \/ UNCHANGED vars
  BY <1>6 DEF Finished
<1>. QED
  BY <1>1, <1>2, <1>3, <1>4, <1>5, <1>6 DEF Next

\* A review says the same once it is stored.
LEMMA ReviewStays ==
    ASSUME NEW findings, UNCHANGED <<run, readingVars, prior, judgementVars>>
    PROVE  Review(findings)' = Review(findings)
BY DEF Review, readingVars, judgementVars, EachObligation, StatusOf, ClassOf, PairAnswers, CaughtBy,
       Derived, Unread, Tests, Files, ChangeOf

\* What was just stored is what was put together.
LEMMA StoredIs ==
    ASSUME Compared, [Next]_vars, step' = "recording", run'.command = "check"
    PROVE  \E findings : reviews'[run'.head] = Review(findings)'
<1>1. CASE UNCHANGED vars
  <2>1. UNCHANGED <<run, readingVars, prior, judgementVars>> /\ UNCHANGED <<step, reviews>>
    BY <1>1 DEF vars, decomposeVars, checkVars
  <2>2. PICK findings : reviews[run.head] = Review(findings)
    BY <2>1 DEF Compared
  <2>. QED
    BY <2>1, <2>2, ReviewStays
<1>2. CASE StoreReview
  <2>1. UNCHANGED <<run, readingVars, prior, judgementVars>>
    BY <1>2 DEF StoreReview
  <2>2. PICK mismatched \in IF run.declared THEN BOOLEAN ELSE {FALSE} :
           reviews' = Put(Review(Findings(mismatched)))
    BY <1>2 DEF StoreReview
  <2>3. reviews'[run'.head] = Review(Findings(mismatched))
    BY <2>1, <2>2 DEF Put
  <2>4. PICK findings : findings = Findings(mismatched)
    OBVIOUS
  <2>. QED
    BY <2>1, <2>3, <2>4, ReviewStays
<1>. QED
  BY <1>1, <1>2, StoredBeforeRecording

\* A check builds on no review or on one of those that were stored.
LEMMA PriorIsStored ==
    ASSUME TypeOK, [Next]_vars
    PROVE  prior' = prior \/ prior' = NoReview \/ \E r \in Whole : prior' = reviews[r]
<1>1. CASE StartDecompose /\ prior' = NoReview /\ NothingJudged /\ UNCHANGED reviews
  BY <1>1
<1>2. CASE StartCheck
  <2> DEFINE check == Head(commands)
  <2>1. CASE Admission(check) # "claiming"
    BY <1>2, <2>1 DEF StartCheck
  <2>2. CASE Admission(check) = "claiming" /\ check.since # "none"
    <3>1. prior' = Stored(reviews, check.since) /\ prior' # NoReview /\ prior' # Torn
      BY <1>2, <2>2 DEF StartCheck, Priors, Admission
    <3>2. check.since \in DOMAIN reviews /\ prior' = reviews[check.since]
      BY <3>1 DEF Stored
    <3>3. check.since \in Whole
      BY <3>1, <3>2 DEF TypeOK
    <3>. QED
      BY <3>2, <3>3
  <2>3. CASE Admission(check) = "claiming" /\ check.since = "none"
    <3>1. prior' \in Priors(check)
      BY <1>2, <2>3 DEF StartCheck
    <3>2. prior' = NoReview \/ \E r \in Whole : prior' = reviews[r]
      BY <2>3, <3>1 DEF Priors, Predecessors, Whole
    <3>. QED
      BY <3>2
  <2>. QED
    BY <2>1, <2>2, <2>3
<1>3. CASE ReadingStep /\ UNCHANGED checkVars
  BY <1>3 DEF checkVars
<1>4. CASE Judging
  BY <1>4 DEF Judging, ResolveQuestions, EnumerateDefects, JudgeDefects, ClassifyCoverage,
              DetectUnrequested, PrescribeTests, StoreReview, RecordCheck, checkVars
<1>5. CASE CallFails \/ Kill
  BY <1>5 DEF CallFails, Kill, Forget
<1>6. CASE Finished \/ UNCHANGED vars
  BY <1>6 DEF Finished, vars, checkVars
<1>. QED
  BY <1>1, <1>2, <1>3, <1>4, <1>5, <1>6 DEF Next

\* What is known of the defects is of finitely many.
LEMMA ToldIsFinite ==
    ASSUME Regions, IsFiniteSet(DOMAIN told), [Next]_vars
    PROVE  IsFiniteSet(DOMAIN told')
<1>1. IsFiniteSet(DOMAIN <<>>)
  BY Emptied, FS_EmptySet
<1>2. CASE StartDecompose /\ prior' = NoReview /\ NothingJudged /\ UNCHANGED reviews
  BY <1>1, <1>2 DEF NothingJudged
<1>3. CASE StartCheck
  BY <1>1, <1>3 DEF StartCheck, NothingJudged
<1>4. CASE ReadingStep /\ UNCHANGED checkVars
  BY <1>4 DEF checkVars, judgementVars
<1>5. CASE JudgeDefects
  <2>1. DOMAIN told' = DefectsOf(defectSets)
    BY <1>5 DEF JudgeDefects
  <2>. QED
    BY <2>1, DefectsAreFinite DEF Regions
<1>6. CASE Judging /\ ~JudgeDefects
  BY <1>6 DEF Judging, ResolveQuestions, EnumerateDefects, ClassifyCoverage, DetectUnrequested,
              PrescribeTests, StoreReview, RecordCheck, checkVars, judgementVars
<1>7. CASE CallFails \/ Kill
  BY <1>1, <1>7 DEF CallFails, Kill, Forget, NothingJudged
<1>8. CASE Finished \/ UNCHANGED vars
  BY <1>8 DEF Finished, vars, checkVars, judgementVars
<1>. QED
  BY <1>2, <1>3, <1>4, <1>5, <1>6, <1>7, <1>8 DEF Next

\* It always holds.
LEMMA ComparedHolds == Spec => []Compared
<1>1. Init => Compared
  <2> SUFFICES ASSUME Init PROVE Compared
    OBVIOUS
  <2>1. told = <<>> /\ prior = NoReview /\ reviews = <<>> /\ step # "recording"
    BY DEF Init, InitDecompose, Outcomes
  <2>. QED
    BY <2>1, Emptied, FS_EmptySet DEF Compared, Whole
<1>2. Compared /\ TypeOK /\ ReadShape /\ Regions /\ [Next]_vars => Compared'
  <2> SUFFICES ASSUME Compared, TypeOK, ReadShape, Regions, [Next]_vars PROVE Compared'
    OBVIOUS
  <2>1. IsFiniteSet(DOMAIN told')
    BY ToldIsFinite DEF Compared
  <2>2. prior' = NoReview \/ Comparable(prior')
    BY PriorIsStored DEF Compared
  <2>3. ASSUME NEW r \in Whole' PROVE Comparable(reviews'[r])
    <3>1. \A q \in Whole : Comparable(reviews[q])
      BY DEF Compared
    <3>2. CASE UNCHANGED reviews
      BY <3>1, <3>2 DEF Whole
    <3>3. CASE reviews' = Put(Torn)
      <4>1. r # run.head
        BY <3>3 DEF Put, Torn, Whole
      <4>. QED
        BY <3>1, <3>3, <4>1 DEF Put, Whole
    <3>4. ASSUME NEW mismatched \in BOOLEAN, reviews' = Put(Review(Findings(mismatched)))
          PROVE  Comparable(reviews'[r])
      <4>1. CASE r = run.head
        <5>1. reviews'[r] = Review(Findings(mismatched))
          BY <3>4, <4>1 DEF Put
        <5>. QED
          BY <5>1, ReviewCompares DEF Compared
      <4>2. CASE r # run.head
        BY <3>1, <3>4, <4>2 DEF Put, Whole
      <4>. QED
        BY <4>1, <4>2
    <3>. QED
      BY <3>2, <3>3, <3>4, ReviewsChange
  <2>. QED
    BY <2>1, <2>2, <2>3, StoredIs DEF Compared
<1>. QED
  BY <1>1, <1>2, TypeCorrect, ReadShapeHolds, RegionsHold, PTL DEF Spec

\* What a function has of finitely many is finite, and no more of it.
LEMMA Imaged ==
    ASSUME NEW S, IsFiniteSet(S), NEW f, f = [x \in S |-> f[x]], NEW T, T = {f[x] : x \in S}
    PROVE  /\ IsFiniteSet(T) /\ Cardinality(T) <= Cardinality(S)
           /\ (\A x, y \in S : f[x] = f[y] => x = y) => Cardinality(T) = Cardinality(S)
<1>1. f \in [S -> T] /\ \A t \in T : \E x \in S : f[x] = t
  OBVIOUS
<1>2. f \in Surjection(S, T)
  BY <1>1 DEF Surjection
<1>3. (\A x, y \in S : f[x] = f[y] => x = y) => f \in Injection(S, T)
  BY <1>1 DEF Injection, IsInjective
<1>. QED
  BY <1>2, <1>3, FS_Surjection

\* A run, reduced to what is compared.
IsSnapshot(run0) ==
    /\ IsList(run0.obligations) /\ IsList(run0.questions)
    /\ IsFiniteSet(DOMAIN run0.classes) /\ IsFiniteSet(DOMAIN run0.kills)

\* A snapshot has the lists of the review it is taken of, and its classes.
LEMMA SnapshotIs ==
    ASSUME NEW review, Comparable(review), NEW perturbed
    PROVE  /\ IsSnapshot(Snapshot(review, perturbed))
           /\ Snapshot(review, perturbed).classes = review.class
<1> DEFINE snapshot == Snapshot(review, perturbed)
           said == snapshot.obligations
           asked0 == snapshot.questions
<1>1. /\ DOMAIN said = DOMAIN review.obligations /\ said = [n \in DOMAIN review.obligations |-> said[n]]
      /\ \A n \in DOMAIN review.obligations : said[n] \in ToSet(said)
  BY DEF Snapshot, ToSet
<1>2. /\ DOMAIN asked0 = DOMAIN review.questions /\ asked0 = [n \in DOMAIN review.questions |-> asked0[n]]
      /\ \A n \in DOMAIN review.questions : asked0[n] \in ToSet(asked0)
  BY DEF Snapshot, TextsIn, ToSet
<1>3. snapshot.classes = review.class /\ snapshot.kills = review.kills
  BY DEF Snapshot
<1>4. IsFiniteSet(DOMAIN review.class) /\ IsFiniteSet(DOMAIN review.kills)
  BY IdsAreFinite DEF Comparable
<1> HIDE DEF said, asked0
<1>5. IsList(said) /\ IsList(asked0)
  BY <1>1, <1>2, Mapped DEF Comparable
<1> USE DEF said, asked0
<1>6. IsSnapshot(snapshot)
  <2>1. IsList(snapshot.obligations) /\ IsList(snapshot.questions)
    BY <1>5
  <2> HIDE DEF snapshot
  <2>. QED
    BY <1>3, <1>4, <2>1 DEF IsSnapshot
<1>. QED
  BY <1>3, <1>6

\* The statements a run makes, of either kind.
StatementsOf(run0) == ToSet(TextsIn(run0.obligations)) \cup ToSet(run0.questions)

\* A run makes finitely many statements.
LEMMA StatementsAreFinite ==
    ASSUME NEW run0, IsSnapshot(run0)
    PROVE  IsFiniteSet(StatementsOf(run0))
<1> DEFINE texts == TextsIn(run0.obligations)
<1>1. /\ DOMAIN texts = DOMAIN run0.obligations
      /\ texts = [n \in DOMAIN run0.obligations |-> texts[n]]
      /\ \A n \in DOMAIN run0.obligations : texts[n] \in ToSet(texts)
  BY DEF TextsIn, ToSet
<1> HIDE DEF texts
<1>2. IsList(texts)
  BY <1>1, Mapped DEF IsSnapshot
<1>3. IsFiniteSet(ToSet(texts)) /\ IsFiniteSet(ToSet(run0.questions))
  BY <1>2, ListsAreFinite DEF IsSnapshot
<1>. QED
  BY <1>3, FS_Union DEF StatementsOf, texts

\* A statement that one run makes and the other does not is one of that run's.
LEMMA PresenceIs ==
    ASSUME NEW kind, NEW left, NEW right, NEW ofLeft, NEW ofRight, NEW answer,
           NEW d \in PresenceDifferences(kind, left, right, ofLeft, ofRight, answer)
    PROVE  /\ d.kind = kind
           /\ \/ d.present_in = left.run /\ \E says \in ToSet(ofLeft) : d.subject = <<says>>
              \/ d.present_in = right.run /\ \E says \in ToSet(ofRight) : d.subject = <<says>>
BY DEF PresenceDifferences, Difference

\* So of whatever is different.
LEMMA DifferencesAre ==
    ASSUME NEW left, NEW right, NEW answer, NEW d \in CompareRuns(left, right, answer)
    PROVE  \/ /\ d.kind \in PresenceKinds
              /\ \/ d.present_in = left.run /\ \E says \in StatementsOf(left) : d.subject = <<says>>
                 \/ d.present_in = right.run /\ \E says \in StatementsOf(right) : d.subject = <<says>>
           \/ d \in JudgementDifferences(left, right) /\ d.kind \in {"evidence_class", "defect_verdict"}
<1>1. CASE d \in PresenceDifferences("obligation", left, right, TextsIn(left.obligations),
                                     TextsIn(right.obligations), answer)
  BY <1>1, PresenceIs DEF StatementsOf, PresenceKinds
<1>2. CASE d \in PresenceDifferences("open_question", left, right, left.questions, right.questions,
                                     answer)
  BY <1>2, PresenceIs DEF StatementsOf, PresenceKinds
<1>3. CASE d \in JudgementDifferences(left, right)
  BY <1>3 DEF JudgementDifferences, Difference
<1>. QED
  BY <1>1, <1>2, <1>3 DEF CompareRuns

\* Of the statements, no more moved than were watched.
LEMMA PresenceIsWatched ==
    ASSUME NEW left, NEW right, IsSnapshot(left), IsSnapshot(right), NEW answer
    PROVE  LET result == PerturbationResult(left, right, answer).presence
           IN  result.changed <= result.watched
<1> DEFINE differences == CompareRuns(left, right, answer)
           moved == {d \in OfClass(differences, "content") : d.kind \in PresenceKinds}
           subjects == {d.subject : d \in moved}
           gained == {d.subject : d \in {e \in differences : /\ e.kind \in PresenceKinds
                                                             /\ e.present_in = right.run}}
           one(says) == <<says>>
           named(S) == {<<says>> : says \in S}
           before == StatementsOf(left)
           all == StatementsOf(left) \cup StatementsOf(right)
<1>1. /\ PerturbationResult(left, right, answer).presence.changed = Cardinality(subjects)
      /\ PerturbationResult(left, right, answer).presence.watched = Cardinality(before) + Cardinality(gained)
  BY DEF PerturbationResult, Watched, StatementsOf
<1>2. \A d \in differences : d.kind \in PresenceKinds =>
         \/ d.present_in = left.run /\ \E says \in StatementsOf(left) : d.subject = <<says>>
         \/ d.present_in = right.run /\ \E says \in StatementsOf(right) : d.subject = <<says>>
  BY DifferencesAre DEF PresenceKinds
<1>3. subjects \subseteq named(before) \cup gained
  BY <1>2 DEF OfClass
<1>4. gained \subseteq named(all)
  BY <1>2
<1>5. IsFiniteSet(before) /\ IsFiniteSet(all)
  BY StatementsAreFinite, FS_Union
<1> HIDE DEF subjects, gained, before, all
<1>6. IsFiniteSet(named(all))
  <2> DEFINE f == [says \in all |-> <<says>>]
  <2>1. f = [says \in all |-> f[says]] /\ named(all) = {f[says] : says \in all}
    OBVIOUS
  <2> HIDE DEF f
  <2>. QED
    BY <1>5, <2>1, Imaged
<1>7. IsFiniteSet(named(before)) /\ Cardinality(named(before)) <= Cardinality(before)
  <2> DEFINE f == [says \in before |-> <<says>>]
  <2>1. f = [says \in before |-> f[says]] /\ named(before) = {f[says] : says \in before}
    OBVIOUS
  <2> HIDE DEF f
  <2>. QED
    BY <1>5, <2>1, Imaged
<1> HIDE DEF named
<1>8. IsFiniteSet(gained)
  BY <1>4, <1>6, FS_Subset
<1>9. /\ IsFiniteSet(named(before) \cup gained)
      /\ Cardinality(named(before) \cup gained)
            = Cardinality(named(before)) + Cardinality(gained) - Cardinality(named(before) \cap gained)
  BY <1>7, <1>8, FS_Union
<1>10. IsFiniteSet(named(before) \cap gained)
  BY <1>8, FS_Subset
<1>11. Cardinality(subjects) <= Cardinality(named(before) \cup gained)
  BY <1>3, <1>9, FS_Subset
<1>12. /\ Cardinality(subjects) \in Nat /\ Cardinality(named(before)) \in Nat /\ Cardinality(gained) \in Nat
       /\ Cardinality(before) \in Nat /\ Cardinality(named(before) \cap gained) \in Nat
  <2>1. IsFiniteSet(subjects)
    BY <1>3, <1>9, FS_Subset
  <2>. QED
    BY <1>5, <1>7, <1>8, <1>10, <2>1, FS_CardinalityType
<1>. QED
  BY <1>1, <1>7, <1>9, <1>11, <1>12

\* What two runs judged otherwise.
MovedClasses(left, right) ==
    {id \in DOMAIN left.classes \cap DOMAIN right.classes : left.classes[id] # right.classes[id]}

\* As many classes moved as obligations whose class did, and of them and of the
\* defects no more than both runs judged.
LEMMA JudgementIsWatched ==
    ASSUME NEW left, NEW right, IsSnapshot(left), NEW answer
    PROVE  LET result == PerturbationResult(left, right, answer)
           IN  /\ result.evidence_class.changed = Cardinality(MovedClasses(left, right))
               /\ result.evidence_class.changed <= result.evidence_class.watched
               /\ result.defect_verdict.changed <= result.defect_verdict.watched
<1> DEFINE differences == CompareRuns(left, right, answer)
           result == PerturbationResult(left, right, answer)
           content == OfClass(differences, "content")
           classes == {d \in content : d.kind \in {"evidence_class"}}
           verdicts == {d \in content : d.kind \in {"defect_verdict"}}
           judged == DOMAIN left.kills \cap DOMAIN right.kills
           turned == {e \in judged : left.kills[e] # right.kills[e]}
           moved == MovedClasses(left, right)
           both == DOMAIN left.classes \cap DOMAIN right.classes
           f == [id \in moved |-> Difference("evidence_class", "content",
                                             <<ById(left.obligations, id).says>>, id, left, right)]
           g == [d \in turned |-> Difference("defect_verdict", "content", d, <<>>, left, right)]
<1>1. /\ result.evidence_class.changed = Cardinality(classes)
      /\ result.evidence_class.watched = Cardinality(both)
      /\ result.defect_verdict.changed = Cardinality({d.subject : d \in verdicts})
      /\ result.defect_verdict.watched = Cardinality(judged)
  BY DEF PerturbationResult
<1>2. JudgementDifferences(left, right) = {f[id] : id \in moved} \cup {g[d] : d \in turned}
  BY DEF JudgementDifferences, MovedClasses
<1>3. /\ \A id \in moved : /\ f[id].kind = "evidence_class" /\ f[id].class = "content"
                           /\ f[id].of = id
      /\ \A d \in turned : /\ g[d].kind = "defect_verdict" /\ g[d].class = "content"
                           /\ g[d].subject = d
  BY DEF Difference
<1>4. f = [id \in moved |-> f[id]] /\ g = [d \in turned |-> g[d]]
  OBVIOUS
<1>5. moved \subseteq both /\ turned \subseteq judged
  BY DEF MovedClasses
<1>6. /\ JudgementDifferences(left, right) \subseteq differences
      /\ \A d \in differences : d.kind \in {"evidence_class", "defect_verdict"} =>
            d \in JudgementDifferences(left, right)
  BY DifferencesAre DEF CompareRuns, PresenceKinds
<1>7. IsFiniteSet(both) /\ IsFiniteSet(judged)
  BY FS_Subset DEF IsSnapshot
<1> HIDE DEF result, f, g, turned, moved, both, judged, differences
<1>8. classes = {f[id] : id \in moved}
  BY <1>2, <1>3, <1>6 DEF OfClass
<1>9. verdicts = {g[d] : d \in turned}
  BY <1>2, <1>3, <1>6 DEF OfClass
<1> HIDE DEF classes, verdicts
<1>10. {d.subject : d \in verdicts} = turned
  BY <1>3, <1>9
<1>11. IsFiniteSet(moved) /\ Cardinality(moved) <= Cardinality(both) /\ Cardinality(turned) <= Cardinality(judged)
  BY <1>5, <1>7, FS_Subset
<1>12. \A x, y \in moved : f[x] = f[y] => x = y
  BY <1>3
<1>13. Cardinality(classes) = Cardinality(moved)
  BY <1>4, <1>8, <1>11, <1>12, Imaged
<1>. QED
  BY <1>1, <1>10, <1>11, <1>13 DEF result, moved

\* What moved between two runs of one input is part of what was watched, on
\* every axis, whatever is said of their statements; and the two comparisons of
\* reviews, the benchmark's and that of a check with the review it builds on, find
\* the same classes moved: benchmark/instability.py and rerun.py.
THEOREM MovementWatched == Spec => []MovementIsWatched
<1>1. Compared /\ ReadShape /\ Regions => MovementIsWatched
  <2> SUFFICES ASSUME Compared, ReadShape, Regions, prior # NoReview, NEW review \in JustStored,
                      NEW answer \in CompareReplies
               PROVE  LET result == PerturbationResult(Snapshot(prior, FALSE),
                                                       Snapshot(review, TRUE), answer)
                          changes == review.delta.changes
                      IN  /\ \A axis \in DOMAIN result : result[axis].changed <= result[axis].watched
                          /\ result.evidence_class.changed =
                                Cardinality({id \in DOMAIN changes :
                                                changes[id].was.class # changes[id].now.class})
    BY DEF MovementIsWatched
  <2> DEFINE left == Snapshot(prior, FALSE)
             right == Snapshot(review, TRUE)
             result == PerturbationResult(left, right, answer)
             changes == review.delta.changes
             differ == {id \in DOMAIN changes : changes[id].was.class # changes[id].now.class}
  <2>1. PICK findings : review = Review(findings)
    BY DEF JustStored, Compared
  <2>2. Comparable(prior) /\ Comparable(review)
    BY <2>1, ReviewCompares DEF Compared
  <2>3. review.delta = Delta(prior, review.status, review.class, review.verdict)
    BY <2>1 DEF Review
  <2>4. IsSnapshot(left) /\ IsSnapshot(right) /\ left.classes = prior.class /\ right.classes = review.class
    BY <2>2, SnapshotIs
  <2>5. DOMAIN result = {"presence", "evidence_class", "defect_verdict"}
    BY DEF PerturbationResult
  <2> HIDE DEF left, right
  <2>6. result.presence.changed <= result.presence.watched
    BY <2>4, PresenceIsWatched
  <2>7. /\ result.evidence_class.changed = Cardinality(MovedClasses(left, right))
        /\ result.evidence_class.changed <= result.evidence_class.watched
        /\ result.defect_verdict.changed <= result.defect_verdict.watched
    BY <2>4, JudgementIsWatched
  <2>8. differ = MovedClasses(left, right)
    <3> DEFINE moved == {id \in DOMAIN prior.status \cap DOMAIN review.status :
                            \/ prior.status[id] # review.status[id]
                            \/ prior.class[id] # review.class[id]}
    <3>1. changes = [id \in moved |->
                       [was |-> [status |-> prior.status[id], class |-> prior.class[id]],
                        now |-> [status |-> review.status[id], class |-> review.class[id]]]]
      BY <2>2, <2>3 DEF Delta, Comparable
    <3> HIDE DEF changes
    <3>2. DOMAIN changes = moved /\ \A id \in moved : /\ changes[id].was.class = prior.class[id]
                                                      /\ changes[id].now.class = review.class[id]
      BY <3>1
    <3>3. /\ DOMAIN prior.status = DOMAIN prior.class
          /\ DOMAIN review.status = DOMAIN review.class
      BY <2>2 DEF Comparable
    <3>. QED
      BY <2>4, <3>2, <3>3 DEF MovedClasses
  <2> HIDE DEF result, changes
  <2>. QED
    BY <2>5, <2>6, <2>7, <2>8 DEF result, changes, left, right
<1>. QED
  BY <1>1, ComparedHolds, ReadShapeHolds, RegionsHold, PTL

(***************************************************************************)
(* Agreement.  What is counted over two runs does not depend on which of   *)
(* them came first.                                                        *)
(***************************************************************************)

\* A vote of the first run is one of the second, when the two change places.
Turned(v) == [run |-> 3 - v.run, of |-> v.of, subject |-> v.subject, value |-> v.value]
Swapped(votes) == {Turned(v) : v \in votes}

AreVotes(votes) ==
    \A v \in votes : /\ v.run \in {1, 2}
                     /\ v = [run |-> v.run, of |-> v.of, subject |-> v.subject, value |-> v.value]

\* The votes about a subject, and those for a value.
About(votes, s) == {v \in votes : v.subject = s}
For(votes, value) == {v \in votes : v.value = value}

\* As many votes are for a value about a subject, either way.
LEMMA SameCount ==
    ASSUME NEW votes, AreVotes(votes), IsFiniteSet(votes), NEW s, NEW value
    PROVE  Cardinality(For(About(Swapped(votes), s), value)) = Cardinality(For(About(votes, s), value))
<1> DEFINE S == For(About(votes, s), value)
           T == For(About(Swapped(votes), s), value)
           f == [v \in S |-> Turned(v)]
<1>1. IsFiniteSet(S) /\ S \subseteq votes
  BY FS_Subset DEF For, About
<1>2. \A v : Turned(v).subject = v.subject /\ Turned(v).value = v.value
  BY DEF Turned
<1>3. T = {Turned(v) : v \in S}
  BY <1>2 DEF For, About, Swapped
<1>4. f = [v \in S |-> f[v]] /\ \A v \in S : f[v] = Turned(v)
  OBVIOUS
<1> HIDE DEF S, T, f
<1>5. ASSUME NEW v \in S, NEW w \in S, f[v] = f[w] PROVE v = w
  <2>1. /\ v.run \in {1, 2} /\ w.run \in {1, 2}
        /\ v = [run |-> v.run, of |-> v.of, subject |-> v.subject, value |-> v.value]
        /\ w = [run |-> w.run, of |-> w.of, subject |-> w.subject, value |-> w.value]
    BY <1>1 DEF AreVotes
  <2>2. Turned(v) = Turned(w)
    BY <1>4, <1>5
  <2>3. 3 - v.run = 3 - w.run /\ v.of = w.of /\ v.subject = w.subject /\ v.value = w.value
    BY <2>2 DEF Turned
  <2>4. v.run = w.run
    BY <2>1, <2>3
  <2>. QED
    BY <2>1, <2>3, <2>4
<1>6. T = {f[v] : v \in S}
  BY <1>3, <1>4
<1>7. Cardinality(T) = Cardinality(S)
  BY <1>1, <1>4, <1>5, <1>6, Imaged
<1>. QED
  BY <1>7 DEF S, T

\* So each value was given as often.
LEMMA SameDistribution ==
    ASSUME NEW votes, AreVotes(votes), IsFiniteSet(votes)
    PROVE  Distribution(Swapped(votes)) = Distribution(votes)
<1> DEFINE other == Swapped(votes)
           counts(of, s) == [value \in {v.value : v \in About(of, s)} |->
                               Cardinality(For(About(of, s), value))]
<1>1. \A of : Distribution(of) = [s \in {v.subject : v \in of} |-> counts(of, s)]
  BY DEF Distribution, About, For
<1> HIDE DEF counts
<1>0. \A v : Turned(v).subject = v.subject /\ Turned(v).value = v.value
  BY DEF Turned
<1>2. {v.subject : v \in other} = {v.subject : v \in votes}
  BY <1>0 DEF Swapped
<1>3. ASSUME NEW s PROVE counts(other, s) = counts(votes, s)
  <2>1. {v.value : v \in About(other, s)} = {v.value : v \in About(votes, s)}
    <3>1. About(other, s) = {Turned(v) : v \in About(votes, s)}
      BY <1>0 DEF Swapped, About
    <3>. QED
      BY <1>0, <3>1
  <2>2. \A value : Cardinality(For(About(other, s), value)) = Cardinality(For(About(votes, s), value))
    BY SameCount
  <2> HIDE DEF other
  <2>. QED
    BY <2>1, <2>2 DEF counts
<1> HIDE DEF other
<1>4. Distribution(other) = Distribution(votes)
  BY <1>1, <1>2, <1>3
<1>. QED
  BY <1>4 DEF other

\* The votes of two runs about classes, and about defects.
LEMMA ClassVotes ==
    ASSUME NEW one, NEW other, IsFiniteSet(DOMAIN one.classes), IsFiniteSet(DOMAIN other.classes)
    PROVE  /\ AreVotes(EvidenceVotes(<<one, other>>)) /\ IsFiniteSet(EvidenceVotes(<<one, other>>))
           /\ EvidenceVotes(<<other, one>>) = Swapped(EvidenceVotes(<<one, other>>))
<1> DEFINE vote(n, r, id) == [run |-> n, of |-> id, subject |-> ById(r.obligations, id).says,
                              value |-> r.classes[id]]
           of(n, r) == {vote(n, r, id) : id \in DOMAIN r.classes}
<1>1. DOMAIN <<one, other>> = {1, 2} /\ DOMAIN <<other, one>> = {1, 2}
  OBVIOUS
<1>2. /\ EvidenceVotes(<<one, other>>) = of(1, one) \cup of(2, other)
      /\ EvidenceVotes(<<other, one>>) = of(1, other) \cup of(2, one)
  BY <1>1 DEF EvidenceVotes
<1>3. ASSUME NEW n, NEW r, IsFiniteSet(DOMAIN r.classes) PROVE IsFiniteSet(of(n, r))
  <2> DEFINE f == [id \in DOMAIN r.classes |-> vote(n, r, id)]
  <2>1. f = [id \in DOMAIN r.classes |-> f[id]] /\ of(n, r) = {f[id] : id \in DOMAIN r.classes}
    OBVIOUS
  <2> HIDE DEF f, of
  <2>. QED
    BY <1>3, <2>1, Imaged
<1>4. IsFiniteSet(EvidenceVotes(<<one, other>>))
  <2>1. IsFiniteSet(of(1, one)) /\ IsFiniteSet(of(2, other))
    BY <1>3
  <2> HIDE DEF of
  <2>. QED
    BY <1>2, <2>1, FS_Union
<1>5. AreVotes(EvidenceVotes(<<one, other>>))
  BY <1>2 DEF AreVotes
<1>6. EvidenceVotes(<<other, one>>) = Swapped(EvidenceVotes(<<one, other>>))
  <2>1. \A n \in {1, 2} : \A r, id : Turned(vote(n, r, id)) = vote(3 - n, r, id)
    BY DEF Turned
  <2>2. 3 - 1 = 2 /\ 3 - 2 = 1
    OBVIOUS
  <2> HIDE DEF vote
  <2>. QED
    BY <1>2, <2>1, <2>2 DEF Swapped
<1>. QED
  BY <1>4, <1>5, <1>6

\* So do the votes on defects.
LEMMA VerdictVotes ==
    ASSUME NEW one, NEW other, IsFiniteSet(DOMAIN one.kills), IsFiniteSet(DOMAIN other.kills)
    PROVE  /\ AreVotes(DefectVotes(<<one, other>>)) /\ IsFiniteSet(DefectVotes(<<one, other>>))
           /\ DefectVotes(<<other, one>>) = Swapped(DefectVotes(<<one, other>>))
<1> DEFINE vote(n, r, d) == [run |-> n, of |-> d, subject |-> d, value |-> r.kills[d]]
           of(n, r) == {vote(n, r, d) : d \in DOMAIN r.kills}
<1>1. DOMAIN <<one, other>> = {1, 2} /\ DOMAIN <<other, one>> = {1, 2}
  OBVIOUS
<1>2. /\ DefectVotes(<<one, other>>) = of(1, one) \cup of(2, other)
      /\ DefectVotes(<<other, one>>) = of(1, other) \cup of(2, one)
  BY <1>1 DEF DefectVotes
<1>3. ASSUME NEW n, NEW r, IsFiniteSet(DOMAIN r.kills) PROVE IsFiniteSet(of(n, r))
  <2> DEFINE f == [d \in DOMAIN r.kills |-> vote(n, r, d)]
  <2>1. f = [d \in DOMAIN r.kills |-> f[d]] /\ of(n, r) = {f[d] : d \in DOMAIN r.kills}
    OBVIOUS
  <2> HIDE DEF f, of
  <2>. QED
    BY <1>3, <2>1, Imaged
<1>4. IsFiniteSet(DefectVotes(<<one, other>>))
  <2>1. IsFiniteSet(of(1, one)) /\ IsFiniteSet(of(2, other))
    BY <1>3
  <2> HIDE DEF of
  <2>. QED
    BY <1>2, <2>1, FS_Union
<1>5. AreVotes(DefectVotes(<<one, other>>))
  BY <1>2 DEF AreVotes
<1>6. DefectVotes(<<other, one>>) = Swapped(DefectVotes(<<one, other>>))
  <2>1. \A n \in {1, 2} : \A r, d : Turned(vote(n, r, d)) = vote(3 - n, r, d)
    BY DEF Turned
  <2>2. 3 - 1 = 2 /\ 3 - 2 = 1
    OBVIOUS
  <2> HIDE DEF vote
  <2>. QED
    BY <1>2, <2>1, <2>2 DEF Swapped
<1>. QED
  BY <1>4, <1>5, <1>6

\* Two.
LEMMA OneAndTwo == IsFiniteSet({1, 2}) /\ Cardinality({1, 2}) = 2
<1>1. IsFiniteSet({1}) /\ Cardinality({1}) = 1
  BY FS_Singleton
<1>2. IsFiniteSet({1} \cup {2}) /\ Cardinality({1} \cup {2}) = 1 + 1
  BY <1>1, FS_AddElement
<1>3. {1} \cup {2} = {1, 2}
  OBVIOUS
<1>. QED
  BY <1>2, <1>3

\* A statement is in as many of two runs, either way.
LEMMA SamePresence ==
    ASSUME NEW a, NEW b
    PROVE  PresenceRows(<<a, b>>) = PresenceRows(<<b, a>>)
<1>1. UNION ToSet(<<a, b>>) = a \cup b /\ UNION ToSet(<<b, a>>) = a \cup b
  BY DEF ToSet
<1>2. ASSUME NEW x
      PROVE  Cardinality({n \in {1, 2} : x \in <<a, b>>[n]}) = Cardinality({n \in {1, 2} : x \in <<b, a>>[n]})
  <2> DEFINE S == {n \in {1, 2} : x \in <<a, b>>[n]}
             T == {n \in {1, 2} : x \in <<b, a>>[n]}
             f == [n \in S |-> 3 - n]
  <2>1. IsFiniteSet(S)
    <3>1. S \in SUBSET {1, 2}
      OBVIOUS
    <3> HIDE DEF S
    <3>. QED
      BY <3>1, OneAndTwo, FS_Subset
  <2>2. T = {f[n] : n \in S}
    <3>1. <<a, b>>[1] = a /\ <<a, b>>[2] = b /\ <<b, a>>[1] = b /\ <<b, a>>[2] = a
      OBVIOUS
    <3>2. /\ 1 \in T <=> 2 \in S
          /\ 2 \in T <=> 1 \in S
          /\ T \subseteq {1, 2} /\ S \subseteq {1, 2}
      BY <3>1
    <3>3. \A n \in S : f[n] = 3 - n
      OBVIOUS
    <3> HIDE DEF S, T, f
    <3>4. T \subseteq {f[n] : n \in S}
      <4> SUFFICES ASSUME NEW t \in T PROVE \E n \in S : f[n] = t
        OBVIOUS
      <4>1. 3 - t \in S /\ 3 - (3 - t) = t
        BY <3>2
      <4>. QED
        BY <3>3, <4>1
    <3>5. {f[n] : n \in S} \subseteq T
      BY <3>2, <3>3
    <3>. QED
      BY <3>4, <3>5
  <2>3. f = [n \in S |-> f[n]] /\ \A m, n \in S : f[m] = f[n] => m = n
    OBVIOUS
  <2> HIDE DEF S, T, f
  <2>4. Cardinality(T) = Cardinality(S)
    BY <2>1, <2>2, <2>3, Imaged
  <2>. QED
    BY <2>4 DEF S, T
<1>3. DOMAIN <<a, b>> = {1, 2} /\ DOMAIN <<b, a>> = {1, 2}
  OBVIOUS
<1>. QED
  BY <1>1, <1>2, <1>3 DEF PresenceRows

\* Of each axis, what two runs say does not depend on which came first.
LEMMA SameValues ==
    ASSUME NEW one, NEW other, IsSnapshot(one), IsSnapshot(other), NEW answer
    PROVE  AxisValues(ModelInstability(<<one, other>>, answer))
              = AxisValues(ModelInstability(<<other, one>>, answer))
<1> DEFINE r == ModelInstability(<<one, other>>, answer)
           s == ModelInstability(<<other, one>>, answer)
           said(runs) == [n \in DOMAIN runs |-> ToSet(TextsIn(runs[n].obligations))]
           raised(runs) == [n \in DOMAIN runs |-> ToSet(runs[n].questions)]
<1>1. /\ r.runs = 2 /\ s.runs = 2
      /\ r.evidence = Distribution(EvidenceVotes(<<one, other>>))
      /\ s.evidence = Distribution(EvidenceVotes(<<other, one>>))
      /\ r.verdicts = Distribution(DefectVotes(<<one, other>>))
      /\ s.verdicts = Distribution(DefectVotes(<<other, one>>))
      /\ r.obligation_presence = PresenceRows(said(<<one, other>>))
      /\ s.obligation_presence = PresenceRows(said(<<other, one>>))
      /\ r.question_presence = PresenceRows(raised(<<one, other>>))
      /\ s.question_presence = PresenceRows(raised(<<other, one>>))
  BY DEF ModelInstability
<1>2. /\ said(<<one, other>>) = <<ToSet(TextsIn(one.obligations)), ToSet(TextsIn(other.obligations))>>
      /\ said(<<other, one>>) = <<ToSet(TextsIn(other.obligations)), ToSet(TextsIn(one.obligations))>>
      /\ raised(<<one, other>>) = <<ToSet(one.questions), ToSet(other.questions)>>
      /\ raised(<<other, one>>) = <<ToSet(other.questions), ToSet(one.questions)>>
  OBVIOUS
<1> HIDE DEF r, s, said, raised
<1>3. r.evidence = s.evidence /\ r.verdicts = s.verdicts
  BY <1>1, ClassVotes, VerdictVotes, SameDistribution DEF IsSnapshot
<1>4. r.obligation_presence = s.obligation_presence /\ r.question_presence = s.question_presence
  BY <1>1, <1>2, SamePresence
<1>5. AxisValues(r) = AxisValues(s)
  BY <1>1, <1>3, <1>4 DEF AxisValues
<1>. QED
  BY <1>5 DEF r, s

\* Two models whose runs say the same agree.
LEMMA TwoAgree ==
    ASSUME NEW reports, DOMAIN reports = {1, 2}, AxisValues(reports[1]) = AxisValues(reports[2]),
           NEW axis \in DOMAIN CrossModelAgreement(reports),
           NEW subject \in DOMAIN CrossModelAgreement(reports)[axis]
    PROVE  CrossModelAgreement(reports)[axis][subject] = <<1, 1>>
<1> DEFINE values == [m \in DOMAIN reports |-> AxisValues(reports[m])]
           pairs == kSubset(2, DOMAIN reports)
           agree(pair) == /\ \A m \in pair : subject \in DOMAIN values[m][axis]
                          /\ \A m, n \in pair : values[m][axis][subject] = values[n][axis][subject]
<1>1. /\ subject \in UNION {DOMAIN values[m][axis] : m \in DOMAIN reports}
      /\ CrossModelAgreement(reports)[axis][subject]
            = <<Cardinality({pair \in pairs : agree(pair)}), Cardinality(pairs)>>
  BY DEF CrossModelAgreement
<1>2. values[1] = values[2]
  OBVIOUS
<1> HIDE DEF values
<1>3. \A pair \in SUBSET {1, 2} : agree(pair)
  BY <1>1, <1>2
<1>4. pairs = {{1, 2}}
  <2>1. IsFiniteSet({1, 2}) /\ Cardinality({1, 2}) = 2
    BY OneAndTwo
  <2>2. \A pair \in SUBSET {1, 2} : Cardinality(pair) = 2 => pair = {1, 2}
    BY <2>1, FS_Subset
  <2>. QED
    BY <2>1, <2>2 DEF kSubset
<1>5. {pair \in pairs : agree(pair)} = pairs
  BY <1>3, <1>4
<1>6. Cardinality(pairs) = 1
  BY <1>4, FS_Singleton
<1> HIDE DEF pairs
<1>. QED
  BY <1>1, <1>5, <1>6

\* Two models whose runs are the same ones agree wherever they were compared,
\* whatever order each had them in: the counts and the most frequent values of
\* benchmark/instability.py do not depend on it.
THEOREM OrderIsNothing == Spec => []OrderOfRunsIsNothing
<1>1. Compared /\ ReadShape /\ Regions => OrderOfRunsIsNothing
  <2> SUFFICES ASSUME Compared, ReadShape, Regions, prior # NoReview, NEW review \in JustStored,
                      NEW answer \in CompareReplies
               PROVE  LET one == Snapshot(prior, FALSE)
                          other == Snapshot(review, FALSE)
                          runs == <<<<one, other>>, <<other, one>>>>
                          measured == MeasureInstability(runs, one, answer)
                      IN  /\ IsMeasurable(runs)
                          /\ \A axis \in DOMAIN measured.agreement :
                                \A subject \in DOMAIN measured.agreement[axis] :
                                    measured.agreement[axis][subject] = <<1, 1>>
    BY DEF OrderOfRunsIsNothing
  <2> DEFINE one == Snapshot(prior, FALSE)
             other == Snapshot(review, FALSE)
             runs == <<<<one, other>>, <<other, one>>>>
             reports == [m \in DOMAIN runs |-> ModelInstability(runs[m], answer)]
             measured == MeasureInstability(runs, one, answer)
  <2>1. PICK findings : review = Review(findings)
    BY DEF JustStored, Compared
  <2>2. Comparable(prior) /\ Comparable(review)
    BY <2>1, ReviewCompares DEF Compared
  <2>3. IsSnapshot(one) /\ IsSnapshot(other)
    BY <2>2, SnapshotIs
  <2> HIDE DEF one, other
  <2>4. IsMeasurable(runs)
    <3>1. /\ Len(<<one, other>>) = 2 /\ Len(<<other, one>>) = 2
          /\ runs # <<>> /\ DOMAIN runs = {1, 2}
          /\ runs[1] = <<one, other>> /\ runs[2] = <<other, one>>
      OBVIOUS
    <3> HIDE DEF runs
    <3>. QED
      BY <3>1 DEF IsMeasurable
  <2>5. measured.agreement = CrossModelAgreement(reports)
    BY DEF MeasureInstability
  <2>6. DOMAIN reports = {1, 2} /\ AxisValues(reports[1]) = AxisValues(reports[2])
    <3>1. /\ reports[1] = ModelInstability(<<one, other>>, answer)
          /\ reports[2] = ModelInstability(<<other, one>>, answer)
          /\ DOMAIN reports = {1, 2}
      OBVIOUS
    <3> HIDE DEF reports
    <3>. QED
      BY <2>3, <3>1, SameValues
  <2> HIDE DEF reports, measured, runs
  <2>7. \A axis \in DOMAIN measured.agreement : \A subject \in DOMAIN measured.agreement[axis] :
           measured.agreement[axis][subject] = <<1, 1>>
    BY <2>5, <2>6, TwoAgree
  <2>. QED
    BY <2>4, <2>7 DEF measured, runs, one, other
<1>. QED
  BY <1>1, ComparedHolds, ReadShapeHolds, RegionsHold, PTL

(***************************************************************************)
(* Records that read back.  What is read off the file is of the types the  *)
(* validators accept, wherever it is kept.                                 *)
(***************************************************************************)

AreTyped(seq) == \A o \in ToSet(seq) : IsObligation(o)
AreDerivations(records) == \A record \in ToSet(records) : IsDerivation(record)

Typed ==
    /\ AreTyped(fresh)
    /\ \A id \in DOMAIN plan.carried : AreTyped(plan.carried[id].obligations)
    /\ AreTyped(made.obligations) /\ AreDerivations(made.records)
    /\ \A n \in DOMAIN ledger : AreDerivations(ledger[n].records)
    /\ AreTyped(obligations)

\* What an answer says of a requirement has a type and owes evidence of a kind.
LEMMA ObligationsAreTyped ==
    ASSUME NEW text, NEW answer \in AnswersAbout(text), NEW r, NEW quote
    PROVE  AreTyped(ObligationsFrom(answer, r, quote))
<1> DEFINE drafts == IF Usable(answer) /\ answer.tag = "yielded" THEN Decoded(answer.drafts) ELSE <<>>
           got == ObligationsFrom(answer, r, quote)
           absent == r.section = "exclusion"
<1>1. IsList(answer.drafts) /\ \A draft \in ToSet(answer.drafts) : IsObligation(draft)
  BY RepliesAssumption, AnswersAreTyped DEF AnswersAbout, Offered
<1>2. \A draft \in ToSet(drafts) : IsObligation(draft)
  BY <1>1, DecodedIsAList, Emptied
<1>3. /\ DOMAIN got = DOMAIN drafts
      /\ \A n \in DOMAIN drafts : /\ got[n].type = drafts[n].type
                                  /\ got[n].evidence = RequiredEvidence(drafts[n], absent)
  BY DEF ObligationsFrom
<1> HIDE DEF drafts, got, absent
<1>4. ASSUME NEW n \in DOMAIN drafts PROVE IsObligation(got[n])
  <2>1. IsObligation(drafts[n])
    BY <1>2 DEF ToSet
  <2>2. RequiredEvidence(drafts[n], absent) \in EvidenceKinds
    BY <2>1 DEF IsObligation, RequiredEvidence, EvidenceKinds
  <2>. QED
    BY <1>3, <2>1, <2>2 DEF IsObligation
<1>. QED
  BY <1>3, <1>4 DEF AreTyped, ToSet, got

\* An entry of which nothing is written.
LEMMA BlanksAreTyped ==
    \A file : AreDerivations(Blank(file).records)
BY Emptied DEF AreDerivations, Blank

\* What is on record after any step.
LEMMA EntriesTyped ==
    ASSUME Inv, Typed, [Next]_vars
    PROVE  \A n \in DOMAIN ledger' : AreDerivations(ledger'[n].records)
<1> SUFFICES ASSUME NEW n \in DOMAIN ledger' PROVE AreDerivations(ledger'[n].records)
  OBVIOUS
<1>1. \A sets : LedgerEntry(sets).records = made.records
  BY DEF LedgerEntry
<1>2. AreDerivations(made.records) /\ \A m \in DOMAIN ledger : AreDerivations(ledger[m].records)
  BY DEF Typed
<1>. QED
  BY <1>1, <1>2, BlanksAreTyped, EntriesChange

\* What is read, before it is put together.
HeldTyped ==
    /\ AreTyped(fresh)
    /\ \A id \in DOMAIN plan.carried : AreTyped(plan.carried[id].obligations)

\* One more answer.
LEMMA MoreTyped ==
    ASSUME ReadShape, Typed, UNCHANGED plan, NEW os, IsList(os), AreTyped(os), fresh' = fresh \o os
    PROVE  HeldTyped'
<1>1. ToSet(fresh') = ToSet(fresh) \cup ToSet(os)
  BY JoinedLists DEF ReadShape, AreObligations
<1>. QED
  BY <1>1 DEF Typed, HeldTyped, AreTyped

\* What is carried was on record.
LEMMA CarriedTyped ==
    ASSUME ReadShape, Typed, PlanCarry
    PROVE  HeldTyped'
<1>1. AreTyped(fresh')
  BY DEF PlanCarry, Typed
<1>2. CASE ~Readable(run.from)
  BY <1>1, <1>2 DEF PlanCarry, NoPlan, HeldTyped
<1>3. CASE Readable(run.from)
  <2> DEFINE entry == Entry(run.from)
             carried == Carried(Requirements, entry, run.tool)
  <2>1. IsOnRecord(entry) /\ AreDerivations(entry.records)
    BY <1>3 DEF Readable, ReadShape, Typed, Entry
  <2>2. plan'.carried = carried
    BY <1>3 DEF PlanCarry
  <2> HIDE DEF entry
  <2>3. ASSUME NEW id \in DOMAIN carried PROVE AreTyped(carried[id].obligations)
    <3>1. carried[id] \in ToSet(entry.records)
      BY <2>1, CarriedIsAccount
    <3>. QED
      BY <2>1, <3>1 DEF AreDerivations, IsDerivation, AreTyped
  <2> HIDE DEF carried
  <2>. QED
    BY <1>1, <2>2, <2>3 DEF HeldTyped
<1>. QED
  BY <1>2, <1>3

\* Whatever the step.
LEMMA HeldIsTyped ==
    ASSUME ReadShape, Typed, [Next]_vars
    PROVE  HeldTyped'
<1>1. CASE AskAbout
  <2>1. PICK answer \in AnswersAbout(Head(todo).text) :
           fresh' = fresh \o ObligationsFrom(answer, Head(todo), <<>>)
    BY <1>1 DEF AskAbout
  <2>2. UNCHANGED plan
    BY <1>1 DEF AskAbout
  <2>. QED
    BY <2>1, <2>2, ObligationsAreAList, ObligationsAreTyped, MoreTyped DEF AreObligations
<1>2. CASE AskSpan
  <2>1. PICK answer \in AnswersAbout(Head(spans)) :
           fresh' = fresh \o ObligationsFrom(answer, SpanRequirement(Head(spans)), Head(spans))
    BY <1>2 DEF AskSpan
  <2>2. UNCHANGED plan
    BY <1>2 DEF AskSpan
  <2>. QED
    BY <2>1, <2>2, ObligationsAreAList, ObligationsAreTyped, MoreTyped DEF AreObligations
<1>3. CASE DecideSpans \/ Link \/ UNCHANGED readVars
  <2>1. UNCHANGED <<plan, fresh>>
    BY <1>3 DEF DecideSpans, Link, readVars
  <2>. QED
    BY <2>1 DEF Typed, HeldTyped
<1>4. CASE Reconcile \/ NothingRead
  BY <1>4, Emptied DEF Reconcile, NothingRead, NoPlan, HeldTyped, AreTyped
<1>. QED
  BY <1>1, <1>2, <1>3, <1>4, CarriedTyped, ReadingChanges

\* What is put together was answered or was on record.
LEMMA ReconciledTyped ==
    ASSUME RunShape, ReadShape, Typed, FirstFault(Requirements) = "none"
    PROVE  /\ AreTyped(ReconciledOs)
           /\ AreDerivations(Records(Requirements, ReconciledOs, ReconciledQs))
<1> DEFINE records == Records(Requirements, ReconciledOs, ReconciledQs)
<1>1. AreTyped(ReconciledOs)
  BY ReconciledHas DEF Typed, AreTyped
<1>2. \A r \in ToSet(Requirements) : IsAccount(settled[RequirementId(r)])
  BY ReconciledHas DEF ReadShape, Backed
<1>3. AreObligations(ReconciledOs)
  BY ReconciledHas
<1>4. /\ DOMAIN records = DOMAIN Requirements
      /\ \A n \in DOMAIN Requirements :
            LET id == RequirementId(Requirements[n])
            IN  /\ records[n].kind = Kind(id) /\ records[n].tag = settled[id].tag
                /\ records[n].obligations = Picked(settled[id].obligations, ReconciledOs)
  BY <1>2, <1>3, RecordsAre
<1> HIDE DEF records
<1>5. ASSUME NEW n \in DOMAIN Requirements PROVE IsDerivation(records[n])
  <2> DEFINE id == RequirementId(Requirements[n])
  <2>1. IsAccount(settled[id])
    BY <1>2 DEF ToSet
  <2> HIDE DEF id
  <2>2. ToSet(Picked(settled[id].obligations, ReconciledOs)) \subseteq ToSet(ReconciledOs)
    BY <2>1, PickedHas DEF IsAccount
  <2>3. Kind(id) \in Derivations
    BY DEF Kind, Derivations
  <2>4. /\ records[n].kind = Kind(id) /\ records[n].tag = settled[id].tag
        /\ records[n].obligations = Picked(settled[id].obligations, ReconciledOs)
    BY <1>4 DEF id
  <2>. QED
    BY <1>1, <2>1, <2>2, <2>3, <2>4 DEF IsDerivation, IsAccount, Tags, AreTyped
<1>6. AreDerivations(records)
  BY <1>4, <1>5 DEF AreDerivations, ToSet
<1>. QED
  BY <1>1, <1>6 DEF records

\* What is merged stays of its type.
LEMMA LinkedTyped ==
    ASSUME ReadShape, Typed, NEW decisions, Linked(decisions)
    PROVE  AreTyped(made'.obligations) /\ made'.records = made.records
<1> DEFINE os == made.obligations
           survivor == Survivors(os, Confirmed(decisions))
<1>1. made'.obligations = MergedObligations(os, survivor) /\ made'.records = made.records
  BY LinkedHas
<1>2. AreObligations(os) /\ AreTyped(os)
  BY DEF ReadShape, IsMade, Typed
<1> HIDE DEF os, survivor
<1>3. \A kept \in ToSet(MergedObligations(os, survivor)) : StandsFor(kept, os, survivor)
  BY <1>2, MergedHas
<1>4. ASSUME NEW kept \in ToSet(MergedObligations(os, survivor)) PROVE IsObligation(kept)
  <2>1. PICK p \in ToSet(os) : kept.type = p.type /\ kept.evidence = p.evidence
    BY <1>3 DEF StandsFor
  <2>. QED
    BY <1>2, <2>1 DEF AreTyped, IsObligation
<1>. QED
  BY <1>1, <1>4 DEF AreTyped

\* The decomposition, after any step.
LEMMA MadeIsTyped ==
    ASSUME RunShape, ReadShape, Typed, [Next]_vars
    PROVE  AreTyped(made'.obligations) /\ AreDerivations(made'.records)
<1>1. CASE UNCHANGED made
  BY <1>1 DEF Typed
<1>2. CASE Reconcile
  <2>1. CASE FirstFault(Requirements) = "none" /\ step' = "linking"
             /\ made' = [obligations |-> ReconciledOs, questions |-> ReconciledQs,
                         dispositions |-> settled,
                         records |-> Records(Requirements, ReconciledOs, ReconciledQs),
                         removed |-> plan.removed]
    BY <2>1, ReconciledTyped
  <2>. QED
    BY <1>1, <1>2, <2>1, Reconciling
<1>3. CASE Link
  <2>1. CASE \E decisions : Linked(decisions)
    <3>1. PICK decisions : Linked(decisions)
      BY <2>1
    <3>. QED
      BY <3>1, LinkedTyped DEF Typed
  <2>. QED
    BY <1>1, <1>3, <2>1, LinkingDecides
<1>4. CASE NothingRead
  BY <1>4, Emptied DEF NothingRead, Nothing, AreTyped, AreDerivations
<1>5. PlanCarry \/ AskAbout \/ DecideSpans \/ AskSpan \/ UNCHANGED readVars => UNCHANGED made
  BY DEF PlanCarry, AskAbout, DecideSpans, AskSpan, readVars
<1>. QED
  BY <1>1, <1>2, <1>3, <1>4, <1>5, ReadingChanges

\* An obligation that is derived from a question is one of the kind a test can be
\* written for.
LEMMA DerivedAreTyped ==
    ASSUME NEW resolutions
    PROVE  AreTyped(DerivedObligations(resolutions))
<1> DEFINE derived == DerivedObligations(resolutions)
<1>1. \A n \in DOMAIN derived : /\ derived[n].type = "functional"
                                /\ derived[n].evidence = "code_and_tests"
  BY DEF DerivedObligations
<1> HIDE DEF derived
<1>. QED
  BY <1>1 DEF AreTyped, ToSet, IsObligation, LegacyTypes, EvidenceKinds, derived

\* What a check judges, which has the derived ones too.
LEMMA JudgedTyped ==
    ASSUME ReadShape, Typed, [Next]_vars
    PROVE  AreTyped(obligations')
<1>1. CASE NothingJudged
  BY <1>1, Emptied DEF NothingJudged, AreTyped
<1>2. CASE UNCHANGED obligations
  BY <1>2 DEF Typed
<1>3. CASE ResolveQuestions
  <2>1. PICK resolutions :
           /\ IsList(DerivedObligations(resolutions))
           /\ obligations' = made.obligations \o DerivedObligations(resolutions)
    BY <1>3, ResolvedHave
  <2>2. ToSet(obligations') = ToSet(made.obligations) \cup ToSet(DerivedObligations(resolutions))
    BY <2>1, JoinedLists DEF ReadShape, IsMade, AreObligations
  <2>. QED
    BY <2>2, DerivedAreTyped DEF Typed, AreTyped
<1>4. EnumerateDefects \/ ClassifyCoverage \/ DetectUnrequested => UNCHANGED obligations
  BY DEF EnumerateDefects, ClassifyCoverage, DetectUnrequested
<1>. QED
  BY <1>1, <1>2, <1>3, <1>4, JudgementChanges

\* It always holds.
LEMMA TypedHolds == Spec => []Typed
<1>1. Init => Typed
  BY Emptied DEF Init, InitDecompose, Typed, NoPlan, Nothing, AreTyped, AreDerivations
<1>2. Typed /\ ReadShape /\ Inv /\ [Next]_vars => Typed'
  <2> SUFFICES ASSUME Typed, ReadShape, Inv, [Next]_vars PROVE Typed'
    OBVIOUS
  <2>1. RunShape
    BY DEF Inv
  <2>. QED
    BY <2>1, HeldIsTyped, MadeIsTyped, EntriesTyped, JudgedTyped DEF HeldTyped, Typed
<1>. QED
  BY <1>1, <1>2, ReadShapeHolds, InvHolds, PTL DEF Spec

\* What is found of the change and of the claims is of the kinds the validators
\* accept.
Found ==
    /\ \A id \in DOMAIN coverages : coverages[id].status \in CoverageStatuses
    /\ \A u \in unrequested : u.change # {}
    /\ \A unit \in DOMAIN units : IsRuling(units[unit])
    /\ \A o \in ToSet(synthesized) : IsSynthesized(o)

\* While it runs, a command has a file.
Busy == step \notin Outcomes => run.file \in DOMAIN Mandates

\* It always holds.
LEMMA BusyHolds == Spec => []Busy
<1>1. Init => Busy
  BY DEF Init, InitDecompose, Busy, Outcomes
<1>2. Busy /\ Inv /\ [Next]_vars => Busy'
  <2> SUFFICES ASSUME Busy, Inv, [Next]_vars PROVE Busy'
    OBVIOUS
  <2>1. CASE StartDecompose \/ StartCheck
    <3>1. commands # <<>> /\ run' = Head(commands)
      BY <2>1 DEF StartDecompose, StartCheck, Begin
    <3>2. Head(commands) \in ToSet(commands)
      BY <3>1, Taking DEF Inv, CommandsShape
    <3>. QED
      BY <3>1, <3>2 DEF Inv, CommandsShape, IsCommand, Busy
  <2>2. CASE ReadingStep
    <3>1. UNCHANGED run /\ step \notin Outcomes
      BY <2>2 DEF ReadingStep, PlanCarry, AskAbout, DecideSpans, AskSpan, SummaryDone, Reconcile, Link,
                  Record, WriteLedger, BuildClaims, Synthesize, Outcomes
    <3>. QED
      BY <3>1 DEF Busy
  <2>3. CASE Judging
    <3>1. UNCHANGED run /\ step \notin Outcomes
      BY <2>3 DEF Judging, ResolveQuestions, EnumerateDefects, JudgeDefects, ClassifyCoverage,
                  DetectUnrequested, PrescribeTests, StoreReview, RecordCheck, WriteLedger, Outcomes
    <3>. QED
      BY <3>1 DEF Busy
  <2>4. CASE CallFails \/ Kill
    BY <2>4 DEF CallFails, Kill, Busy, Outcomes
  <2>5. CASE Finished \/ UNCHANGED vars
    BY <2>5 DEF Finished, vars, decomposeVars, Busy
  <2>. QED
    BY <2>1, <2>2, <2>3, <2>4, <2>5 DEF Next
<1>. QED
  BY <1>1, <1>2, InvHolds, PTL DEF Spec

\* What a step does to the claims.
LEMMA ClaimsChange ==
    ASSUME [Next]_vars
    PROVE  \/ (units' = <<>> /\ synthesized' = <<>>) \/ UNCHANGED <<units, synthesized>>
           \/ BuildClaims \/ Synthesize
<1>1. CASE StartDecompose \/ StartCheck
  BY <1>1 DEF StartDecompose, StartCheck, Begin, NothingRead
<1>2. CASE ReadingStep
  BY <1>2 DEF ReadingStep, PlanCarry, AskAbout, DecideSpans, AskSpan, SummaryDone, Reconcile, Link,
              Record, WriteLedger, readingVars
<1>3. CASE Judging
  BY <1>3 DEF Judging, ResolveQuestions, EnumerateDefects, JudgeDefects, ClassifyCoverage,
              DetectUnrequested, PrescribeTests, StoreReview, RecordCheck, WriteLedger, readingVars
<1>4. CASE CallFails \/ Kill
  BY <1>4 DEF CallFails, Kill, Forget, NothingRead
<1>5. CASE Finished \/ UNCHANGED vars
  BY <1>5 DEF Finished, vars, decomposeVars, readingVars
<1>. QED
  BY <1>1, <1>2, <1>3, <1>4, <1>5 DEF Next

\* What is built of claims cites some, and its type says what evidence it owes.
LEMMA SynthesizedAre ==
    ASSUME NEW answer \in Syntheses, NEW claims
    PROVE  \A o \in ToSet(Synthesized(answer, claims)) : IsSynthesized(o)
<1> DEFINE cited == Only(answer, {a \in ToSet(answer) : a.cites \cap claims # {}})
           built == Synthesized(answer, claims)
<1>1. ToSet(cited) = {a \in ToSet(answer) : a.cites \cap claims # {}}
  <2>1. IsList(answer)
    BY AnswersAreTyped
  <2>. QED
    BY <2>1, OnlyHas
<1>2. /\ DOMAIN built = DOMAIN cited
      /\ \A n \in DOMAIN cited : /\ built[n].type = cited[n].type
                                 /\ built[n].claims = cited[n].cites \cap claims
                                 /\ built[n].evidence = Evidence(cited[n].type)
                                 /\ built[n].absent = (cited[n].type = "scope_exclusion")
  BY DEF Synthesized, Where
<1> HIDE DEF cited, built
<1>3. ASSUME NEW n \in DOMAIN cited PROVE IsSynthesized(built[n])
  <2>1. cited[n] \in ToSet(answer) /\ cited[n].cites \cap claims # {}
    BY <1>1 DEF ToSet
  <2>2. cited[n].type \in SynthesisTypes
    BY <2>1, AnswersAreTyped
  <2>3. Evidence(cited[n].type) \in EvidenceKinds
    BY <2>2 DEF Evidence, EvidenceKinds, SynthesisTypes
  <2>. QED
    BY <1>2, <2>1, <2>2, <2>3 DEF IsSynthesized
<1>. QED
  BY <1>2, <1>3 DEF ToSet, built

\* The claims and what is built of them, after any step.
LEMMA ClaimsFound ==
    ASSUME Busy, Found, [Next]_vars
    PROVE  /\ \A unit \in DOMAIN units' : IsRuling(units'[unit])
           /\ \A o \in ToSet(synthesized') : IsSynthesized(o)
<1>1. CASE units' = <<>> /\ synthesized' = <<>>
  BY <1>1, Emptied
<1>2. CASE UNCHANGED <<units, synthesized>>
  BY <1>2 DEF Found
<1>3. CASE BuildClaims
  <2>1. units' \in Rulings[run.file] /\ run.file \in DOMAIN Mandates /\ UNCHANGED synthesized
    BY <1>3 DEF BuildClaims, Busy, Outcomes
  <2>. QED
    BY <2>1, AnswersAreTyped DEF Found
<1>4. CASE Synthesize
  <2>1. UNCHANGED units
    BY <1>4 DEF Synthesize
  <2>2. synthesized' = <<>> \/ \E answer \in Syntheses : synthesized' = Synthesized(answer, ClaimsOf(units))
    BY <1>4 DEF Synthesize
  <2>. QED
    BY <2>1, <2>2, Emptied, SynthesizedAre DEF Found
<1>. QED
  BY <1>1, <1>2, <1>3, <1>4, ClaimsChange

\* What is said besides what it is said of stays as it was.
LEMMA MarkedKeeps ==
    ASSUME NEW said, NEW id, "status" \in DOMAIN said
    PROVE  With(said, "obligation", id).status = said.status
BY DEF With

\* Answers about obligations, each marked with the one it is about.
LEMMA CoverageAnswered ==
    ASSUME Regions, ClassifyCoverage
    PROVE  \E answers :
              /\ IsList(answers) /\ \A said \in ToSet(answers) : said.status \in CoverageStatuses
              /\ coverages' = Coverages(ToClassify, answers, Files)
<1> DEFINE items == ToClassify
           tagged(f, n) == [k \in DOMAIN f[n] |-> With(f[n][k], "obligation", items[n].id)]
<1>1. IsList(items)
  BY OnlyHas DEF ToClassify, Where, Regions
<1>2. PICK f \in [DOMAIN items -> UNION {Offered(CoverageReplies, items[n].says) : n \in DOMAIN items}] :
         /\ \A n \in DOMAIN items : f[n] \in Offered(CoverageReplies, items[n].says)
         /\ coverages' = Coverages(items, FlattenSeq([n \in DOMAIN items |-> tagged(f, n)]), Files)
  BY DEF ClassifyCoverage, Answers
<1> DEFINE given == [n \in DOMAIN items |-> tagged(f, n)]
           answers == FlattenSeq(given)
<1> HIDE DEF items
<1>3. ASSUME NEW n \in DOMAIN items
      PROVE  /\ IsList(tagged(f, n))
             /\ \A said \in ToSet(tagged(f, n)) : said.status \in CoverageStatuses
  <2>1. /\ IsList(f[n])
        /\ \A said \in ToSet(f[n]) : "status" \in DOMAIN said /\ said.status \in CoverageStatuses
    <3>1. f[n] \in Offered(CoverageReplies, items[n].says)
      BY <1>2
    <3>. QED
      BY <3>1, AnswersAreLists, AnswersAreTyped DEF Offered
  <2> DEFINE seq == f[n]
             out == tagged(f, n)
  <2>2. /\ DOMAIN out = DOMAIN seq /\ out = [k \in DOMAIN seq |-> out[k]]
        /\ \A k \in DOMAIN seq : out[k] \in ToSet(out)
        /\ \A k \in DOMAIN seq : out[k] = With(seq[k], "obligation", items[n].id)
    BY DEF ToSet
  <2>3. IsList(seq)
    BY <2>1
  <2>4. \A k \in DOMAIN seq : "status" \in DOMAIN seq[k] /\ seq[k].status \in CoverageStatuses
    BY <2>1 DEF ToSet
  <2> HIDE DEF seq, out
  <2>5. IsList(out)
    BY <2>2, <2>3, Mapped
  <2>6. \A k \in DOMAIN seq : out[k].status = seq[k].status
    BY <2>2, <2>4, MarkedKeeps
  <2>7. \A said \in ToSet(out) : said.status \in CoverageStatuses
    BY <2>2, <2>4, <2>6 DEF ToSet
  <2>. QED
    BY <2>5, <2>7 DEF out
<1>4. DOMAIN given = DOMAIN items /\ given = [n \in DOMAIN items |-> given[n]]
      /\ \A n \in DOMAIN items : given[n] = tagged(f, n)
  OBVIOUS
<1>5. coverages' = Coverages(ToClassify, answers, Files)
  BY <1>2 DEF items
<1>6. \A n \in DOMAIN items : /\ IsList(given[n])
                              /\ \A said \in ToSet(given[n]) : said.status \in CoverageStatuses
  BY <1>3, <1>4
<1> HIDE DEF given
<1>7. IsList(answers) /\ ToSet(answers) = UNION {ToSet(given[n]) : n \in DOMAIN items}
  BY <1>1, <1>4, <1>6, AnsweredIs
<1> HIDE DEF answers
<1>. QED
  BY <1>5, <1>6, <1>7

\* The last answer about an obligation is one of the answers.
LEMMA CoveragesAreKnown ==
    ASSUME NEW os, NEW answers, IsList(answers), NEW files,
           \A said \in ToSet(answers) : said.status \in CoverageStatuses
    PROVE  LET found == Coverages(os, answers, files)
           IN  \A id \in DOMAIN found : found[id].status \in CoverageStatuses
<1> DEFINE found == Coverages(os, answers, files)
           about(id) == {n \in DOMAIN answers : answers[n].obligation = id}
<1> SUFFICES ASSUME NEW id \in DOMAIN found PROVE found[id].status \in CoverageStatuses
  OBVIOUS
<1>1. found[id].status = IF about(id) = {} THEN "unclear" ELSE answers[Max(about(id))].status
  BY DEF Coverages
<1> HIDE DEF found
<1>2. CASE about(id) = {}
  BY <1>1, <1>2 DEF CoverageStatuses
<1>3. CASE about(id) # {}
  <2>1. DOMAIN answers = 1..Len(answers) /\ Len(answers) \in Nat
    BY Listed DEF IsList
  <2>2. about(id) \subseteq 1..Len(answers)
    BY <2>1
  <2> HIDE DEF about
  <2>3. \E n \in about(id) : \A m \in about(id) : m <= n
    BY <1>3, <2>1, <2>2, Greatest
  <2>4. Max(about(id)) \in about(id)
    BY <2>1, <2>2, <2>3 DEF Max
  <2>5. answers[Max(about(id))] \in ToSet(answers)
    BY <2>1, <2>2, <2>4 DEF ToSet
  <2>. QED
    BY <1>1, <1>3, <2>5
<1>. QED
  BY <1>2, <1>3

\* What is found of the change, after any step.
LEMMA ChangeFound ==
    ASSUME Regions, Found, [Next]_vars
    PROVE  /\ \A id \in DOMAIN coverages' : coverages'[id].status \in CoverageStatuses
           /\ \A u \in unrequested' : u.change # {}
<1>1. CASE NothingJudged
  BY <1>1 DEF NothingJudged
<1>2. CASE UNCHANGED <<coverages, unrequested>>
  BY <1>2 DEF Found
<1>3. CASE ClassifyCoverage
  <2>1. UNCHANGED unrequested
    BY <1>3 DEF ClassifyCoverage
  <2>. QED
    BY <1>3, <2>1, CoverageAnswered, CoveragesAreKnown DEF Found
<1>4. CASE DetectUnrequested
  <2>1. UNCHANGED coverages
    BY <1>4 DEF DetectUnrequested
  <2>2. PICK answers \in UnrequestedReplies :
           \E disposition \in [UnrequestedChanges(answers, Files) -> {"in_service", "separable", "risky"}] :
              unrequested' = {[change |-> c, disposition |-> disposition[c]] : c \in DOMAIN disposition}
    BY <1>4 DEF DetectUnrequested
  <2>3. \A u \in unrequested' : u.change \in UnrequestedChanges(answers, Files)
    BY <2>2
  <2>. QED
    BY <2>1, <2>3 DEF UnrequestedChanges, Found
<1>5. ResolveQuestions \/ EnumerateDefects => UNCHANGED <<coverages, unrequested>>
  BY DEF ResolveQuestions, EnumerateDefects
<1>. QED
  BY <1>1, <1>2, <1>3, <1>4, <1>5, JudgementChanges

\* It always holds.
LEMMA FoundHolds == Spec => []Found
<1>1. Init => Found
  BY Emptied DEF Init, InitDecompose, Found
<1>2. Found /\ Regions /\ Busy /\ [Next]_vars => Found'
  BY ChangeFound, ClaimsFound DEF Found
<1>. QED
  BY <1>1, <1>2, RegionsHold, BusyHolds, PTL DEF Spec

\* A tier is on the ladder, and what a component claims by its own is no more
\* than it may.
LEMMA OwnTier ==
    Authorized("static_analyzer", "static") /\ Authorized("builder_declaration", "builder_claim")
<1>1. DOMAIN EvidenceTiers = 1..5 /\ EvidenceTiers[1] = "builder_claim" /\ EvidenceTiers[2] = "static"
  BY DEF EvidenceTiers
<1>2. Rank("static") \in 1..5
  <2>1. \E n \in 1..5 : EvidenceTiers[n] = "static"
    BY <1>1
  <2>. QED
    BY <1>1, <2>1 DEF Rank
<1>3. Rank("builder_claim") \in 1..5
  <2>1. \E n \in 1..5 : EvidenceTiers[n] = "builder_claim"
    BY <1>1
  <2>. QED
    BY <1>1, <2>1 DEF Rank
<1>4. Ceiling["static_analyzer"] = "static" /\ Ceiling["builder_declaration"] = "builder_claim"
  BY DEF Ceiling
<1>5. \A n \in 1..5 : n <= n
  OBVIOUS
<1>. QED
  BY <1>2, <1>3, <1>4, <1>5 DEF Authorized

\* What is found is linked, is about an obligation if it has to be, and claims no
\* more than a check of the code can know.
LEMMA GapIsFinding ==
    ASSUME NEW o, NEW coverage
    PROVE  IsFinding(CoverageFinding(o, coverage))
<1> DEFINE links == IF coverage.refs # {} THEN CodeLinks(coverage.refs)
                    ELSE {LinkTo("requirement", o.id)}
           gap == CoverageFinding(o, coverage)
<1>1. links # {}
  BY DEF CodeLinks
<1>2. /\ gap.links = links /\ gap.type = "coverage_gap" /\ gap.tier = "static"
      /\ gap.producer = "static_analyzer" /\ gap.about = {o.says} /\ gap.disposition = "none"
  BY DEF CoverageFinding, StaticFinding
<1> HIDE DEF links, gap
<1>3. IsFinding(gap)
  BY <1>1, <1>2, OwnTier DEF IsFinding
<1>. QED
  BY <1>3 DEF gap

\* A change that nobody asked for.
LEMMA ChangeIsFinding ==
    ASSUME NEW u, u.change # {}
    PROVE  IsFinding(UnrequestedFinding(u))
<1> DEFINE found == UnrequestedFinding(u)
<1>1. CodeLinks(u.change) # {}
  BY DEF CodeLinks
<1>2. /\ found.links = CodeLinks(u.change) /\ found.type = "unrequested_change"
      /\ found.tier = "static" /\ found.producer = "static_analyzer" /\ found.about = {}
  BY DEF UnrequestedFinding, StaticFinding
<1> HIDE DEF found
<1>3. IsFinding(found)
  BY <1>1, <1>2, OwnTier DEF IsFinding, ObligationLess
<1>. QED
  BY <1>3 DEF found

\* A declaration that is wrong, and one that is not there.
LEMMA DeclarationIsFinding ==
    IsFinding(MismatchFinding) /\ IsFinding(AbsenceFinding)
<1>1. /\ MismatchFinding.links # {} /\ MismatchFinding.type = "declaration_mismatch"
      /\ MismatchFinding.tier = "builder_claim" /\ MismatchFinding.producer = "builder_declaration"
      /\ MismatchFinding.about = {} /\ MismatchFinding.disposition = "none"
  BY DEF MismatchFinding, StaticFinding
<1>2. /\ AbsenceFinding.links # {} /\ AbsenceFinding.type = "declaration_absent"
      /\ AbsenceFinding.tier = "static" /\ AbsenceFinding.producer = "static_analyzer"
      /\ AbsenceFinding.about = {} /\ AbsenceFinding.disposition = "none"
  BY DEF AbsenceFinding, StaticFinding
<1>. QED
  BY <1>1, <1>2, OwnTier DEF IsFinding, ObligationLess

\* Every finding of a check.
LEMMA FindingsStand ==
    ASSUME Found, NEW mismatched, NEW f \in Findings(mismatched)
    PROVE  IsFinding(f)
<1>1. \/ \E id \in DOMAIN coverages : f = CoverageFinding(ById(obligations, id), coverages[id])
      \/ \E u \in unrequested : f = UnrequestedFinding(u)
      \/ f = MismatchFinding \/ f = AbsenceFinding
  BY DEF Findings
<1>2. CASE \E id \in DOMAIN coverages : f = CoverageFinding(ById(obligations, id), coverages[id])
  BY <1>2, GapIsFinding
<1>3. CASE \E u \in unrequested : f = UnrequestedFinding(u)
  BY <1>3, ChangeIsFinding DEF Found
<1>4. CASE f = MismatchFinding \/ f = AbsenceFinding
  BY <1>4, DeclarationIsFinding
<1>. QED
  BY <1>1, <1>2, <1>3, <1>4

\* Of an obligation the review knows a status and a class there are, or none.
LEMMA StatusIsKnown ==
    ASSUME Found, NEW o
    PROVE  StatusOf(o) \in CoverageStatuses \cup {"none"}
BY DEF StatusOf, Found, CoverageStatuses

\* And a class.
LEMMA ClassIsKnown ==
    ASSUME NEW o
    PROVE  ClassOf(o) \in EvidenceClasses \cup {"none"}
BY DEF ClassOf, Support, SupportClass, EvidenceClasses

\* A review that is put together of what validates is read back.
LEMMA ReviewReads ==
    ASSUME Typed, Found, Regions, NEW mismatched,
           \A id \in DOMAIN made.dispositions : IsDisposition(made.dispositions[id])
    PROVE  IsReadable(Review(Findings(mismatched)))
<1> DEFINE review == Review(Findings(mismatched))
<1>1. /\ review.obligations = obligations /\ review.synthesized = synthesized
      /\ review.dispositions = made.dispositions /\ review.units = units
      /\ review.sets = defectSets /\ review.findings = Findings(mismatched)
      /\ review.derived = UNION {ToSet(record.obligations) : record \in ToSet(made.records)}
  BY DEF Review
<1>2. /\ DOMAIN review.status = IdsOf(obligations)
      /\ \A id \in IdsOf(obligations) : /\ review.status[id] = StatusOf(ById(obligations, id))
                                        /\ review.class[id] = ClassOf(ById(obligations, id))
  BY DEF Review, EachObligation
<1> HIDE DEF review
<1>3. \A o \in ToSet(review.obligations) \cup review.derived : IsObligation(o)
  BY <1>1 DEF Typed, AreTyped, AreDerivations, IsDerivation
<1>4. \A set \in ToSet(review.sets) : IsDefectSet(set)
  BY <1>1 DEF Regions, AreGrounded, Grounded
<1>5. \A f \in review.findings : IsFinding(f)
  BY <1>1, FindingsStand
<1>6. \A id \in DOMAIN review.status : /\ review.status[id] \in CoverageStatuses \cup {"none"}
                                       /\ review.class[id] \in EvidenceClasses \cup {"none"}
  BY <1>2, StatusIsKnown, ClassIsKnown
<1>7. /\ \A o \in ToSet(review.synthesized) : IsSynthesized(o)
      /\ \A u \in DOMAIN review.units : IsRuling(review.units[u])
      /\ \A r \in DOMAIN review.dispositions : IsDisposition(review.dispositions[r])
  BY <1>1 DEF Found
<1>8. IsReadable(review)
  BY <1>3, <1>4, <1>5, <1>6, <1>7 DEF IsReadable
<1>. QED
  BY <1>8 DEF review

(***************************************************************************)
(* What is decided is decided of a requirement, and the decomposition      *)
(* claims what it has.                                                     *)
(***************************************************************************)

IsOfARequirement(id) == \E r \in ToSet(Requirements) : RequirementId(r) = id

Deciding ==
    /\ ToSet(todo) \subseteq ToSet(Requirements)
    /\ \A id \in DOMAIN settled : IsOfARequirement(id)

\* What a step does to what is left to decide, and what it decides.
LEMMA LeftToDecide ==
    ASSUME [Next]_vars
    PROVE  \/ todo' = <<>> /\ settled' = <<>>
           \/ PlanCarry
           \/ /\ UNCHANGED run
              /\ UNCHANGED todo \/ (todo # <<>> /\ todo' = Tail(todo))
              /\ \/ DOMAIN settled' \subseteq DOMAIN settled
                 \/ /\ todo # <<>>
                    /\ DOMAIN settled' \subseteq DOMAIN settled \cup {RequirementId(Head(todo))}
<1>1. CASE StartDecompose \/ StartCheck
  BY <1>1 DEF StartDecompose, StartCheck, Begin, NothingRead
<1>2. CASE AskAbout
  BY <1>2 DEF AskAbout, With
<1>3. CASE DecideSpans
  BY <1>3 DEF DecideSpans, With
<1>4. CASE AskSpan
  <2>1. /\ DOMAIN settled' = DOMAIN settled
        /\ UNCHANGED <<run, todo>>
    BY <1>4 DEF AskSpan
  <2>. QED
    BY <2>1
<1>5. CASE SummaryDone
  BY <1>5 DEF SummaryDone
<1>6. CASE Reconcile
  BY <1>6, Emptied DEF Reconcile
<1>7. CASE Link \/ Record \/ BuildClaims \/ Synthesize
  BY <1>7 DEF Link, Record, WriteLedger, BuildClaims, Synthesize, readingVars
<1>8. CASE Judging
  BY <1>8 DEF Judging, ResolveQuestions, EnumerateDefects, JudgeDefects, ClassifyCoverage,
              DetectUnrequested, PrescribeTests, StoreReview, RecordCheck, WriteLedger, readingVars
<1>9. CASE CallFails \/ Kill
  BY <1>9 DEF CallFails, Kill, Forget, NothingRead
<1>10. CASE Finished \/ UNCHANGED vars
  BY <1>10 DEF Finished, vars, decomposeVars, readingVars
<1>. QED
  BY <1>1, <1>2, <1>3, <1>4, <1>5, <1>6, <1>7, <1>8, <1>9, <1>10 DEF Next, ReadingStep

\* What is planned is left to decide or is decided.
LEMMA PlannedToDecide ==
    ASSUME RunShape, PlanCarry
    PROVE  Deciding'
<1>1. Requirements' = Requirements
  BY DEF PlanCarry, Requirements
<1>2. ToSet(todo') \subseteq ToSet(Requirements)
  <2>1. \E carried : todo' = ToAsk(carried)
    BY DEF PlanCarry
  <2>. QED
    BY <2>1, AskedAbout
<1>3. ASSUME NEW id \in DOMAIN settled' PROVE IsOfARequirement(id)
  <2>1. CASE ~Readable(run.from)
    BY <1>3, <2>1, Emptied DEF PlanCarry
  <2>2. CASE Readable(run.from)
    <3>1. id \in DOMAIN Carried(Requirements, Entry(run.from), run.tool)
      BY <1>3, <2>2 DEF PlanCarry
    <3>. QED
      BY <3>1, CarriedIs DEF IsOfARequirement
  <2>. QED
    BY <2>1, <2>2
<1>. QED
  BY <1>1, <1>2, <1>3 DEF Deciding, IsOfARequirement

\* It always holds.
LEMMA DecidingHolds == Spec => []Deciding
<1>1. Init => Deciding
  BY Emptied DEF Init, InitDecompose, Deciding
<1>2. Deciding /\ Inv /\ LeftShape /\ [Next]_vars => Deciding'
  <2> SUFFICES ASSUME Deciding, Inv, LeftShape, [Next]_vars PROVE Deciding'
    OBVIOUS
  <2>1. CASE todo' = <<>> /\ settled' = <<>>
    BY <2>1, Emptied DEF Deciding
  <2>2. CASE PlanCarry
    BY <2>2, PlannedToDecide DEF Inv
  <2>3. CASE /\ UNCHANGED run
             /\ UNCHANGED todo \/ (todo # <<>> /\ todo' = Tail(todo))
             /\ \/ DOMAIN settled' \subseteq DOMAIN settled
                \/ /\ todo # <<>>
                   /\ DOMAIN settled' \subseteq DOMAIN settled \cup {RequirementId(Head(todo))}
    <3>1. Requirements' = Requirements
      BY <2>3 DEF Requirements
    <3>2. todo # <<>> => Head(todo) \in ToSet(Requirements) /\ ToSet(Tail(todo)) \subseteq ToSet(todo)
      BY Taking DEF LeftShape, Deciding
    <3>3. ToSet(todo') \subseteq ToSet(Requirements)
      BY <2>3, <3>2 DEF Deciding
    <3>4. \A id \in DOMAIN settled' : IsOfARequirement(id)
      BY <2>3, <3>2 DEF Deciding, IsOfARequirement
    <3>. QED
      BY <3>1, <3>3, <3>4 DEF Deciding, IsOfARequirement
  <2>. QED
    BY <2>1, <2>2, <2>3, LeftToDecide
<1>. QED
  BY <1>1, <1>2, InvHolds, LeftShapeHolds, PTL DEF Spec

\* A disposition that names what has the id of something else.
IsAstray(disposition, decomposition) ==
    \/ \E id \in ToSet(disposition.obligations) :
          id \in IdsOf(decomposition.questions) \ IdsOf(decomposition.obligations)
    \/ \E record \in ToSet(decomposition.records) :
          ToSet(disposition.questions) \cap IdsOf(record.obligations) # {}

\* What is on record of a requirement says what became of it, unless its
\* disposition is astray.
RecordStands(n, decomposition) ==
    /\ n \in DOMAIN Requirements
    /\ LET id == RequirementId(Requirements[n])
       IN  /\ id \in DOMAIN decomposition.dispositions
           /\ \/ IsDisposition(CarriedDisposition(decomposition.records[n]))
              \/ IsAstray(decomposition.dispositions[id], decomposition)

KeepsItsClaims(decomposition) ==
    /\ \A id \in DOMAIN decomposition.dispositions : IsDisposition(decomposition.dispositions[id])
    /\ \A n \in DOMAIN decomposition.records : RecordStands(n, decomposition)

Claimed == KeepsItsClaims(made)

\* A run that has made nothing.
LEMMA NothingClaims == KeepsItsClaims(Nothing)
BY Emptied DEF KeepsItsClaims, Nothing

\* What a disposition has to have.
LEMMA ClaimIs ==
    ASSUME NEW d, d.tag \in Tags,
           d.tag = "yielded" => d.obligations # <<>>,
           d.tag = "open_question" => d.questions # <<>>,
           d.tag = "no_obligation" => d.reason
    PROVE  IsDisposition(d)
<1>1. CASE d.tag = "yielded"
  BY <1>1 DEF IsDisposition
<1>2. CASE d.tag = "open_question"
  BY <1>2 DEF IsDisposition
<1>3. CASE d.tag = "no_obligation"
  BY <1>3 DEF IsDisposition
<1>. QED
  BY <1>1, <1>2, <1>3 DEF Tags

\* A disposition is of what a record keeps of it.
LEMMA CarriedClaims ==
    ASSUME NEW record, record.tag \in Tags,
           record.tag = "yielded" => ToSet(record.obligations) # {},
           record.tag = "open_question" => ToSet(record.questions) # {},
           record.tag = "no_obligation" => record.reason
    PROVE  IsDisposition(CarriedDisposition(record))
<1> DEFINE d == CarriedDisposition(record)
<1>1. /\ d.tag = record.tag /\ d.reason = record.reason
      /\ DOMAIN d.obligations = DOMAIN record.obligations
      /\ DOMAIN d.questions = DOMAIN record.questions
  BY DEF CarriedDisposition
<1> HIDE DEF d
<1>2. ToSet(record.obligations) # {} => d.obligations # <<>>
  BY <1>1, Emptied DEF ToSet
<1>3. ToSet(record.questions) # {} => d.questions # <<>>
  BY <1>1, Emptied DEF ToSet
<1>4. IsDisposition(d)
  BY <1>1, <1>2, <1>3, ClaimIs
<1>. QED
  BY <1>4 DEF d

\* A record that is put together stands for what was settled.
LEMMA RecordsStand ==
    ASSUME RunShape, ReadShape, FirstFault(Requirements) = "none",
           NEW decomposition, decomposition.dispositions = settled,
           decomposition.questions = ReconciledQs, decomposition.obligations = ReconciledOs,
           decomposition.records = Records(Requirements, ReconciledOs, ReconciledQs),
           NEW n \in DOMAIN Requirements
    PROVE  RecordStands(n, decomposition)
<1> DEFINE records == Records(Requirements, ReconciledOs, ReconciledQs)
           id == RequirementId(Requirements[n])
           account == settled[id]
           record == records[n]
<1>1. Requirements[n] \in ToSet(Requirements)
  BY DEF ToSet
<1>2. id \in DOMAIN settled /\ IsAccount(account) /\ Fault(id) = "none"
  BY <1>1, ReconciledHas, NoFault DEF ReadShape, Backed
<1>3. HasItsClaim(account)
  BY <1>2, FaultlessHasItsClaim DEF IsAccount
<1>4. /\ record.tag = account.tag /\ record.reason = account.reason
      /\ record.obligations = Picked(account.obligations, ReconciledOs)
      /\ record.questions = Picked(account.questions, ReconciledQs)
  <2>1. AreObligations(ReconciledOs)
    BY ReconciledHas
  <2>2. \A q \in ToSet(Requirements) : IsAccount(settled[RequirementId(q)])
    BY ReconciledHas DEF ReadShape, Backed
  <2>. QED
    BY <2>1, <2>2, RecordsAre
<1>5. \A x \in ToSet(account.obligations) : x \in IdsOf(ReconciledOs) \cup IdsOf(ReconciledQs)
  BY <1>1, ReconciledHas
<1>6. \A x \in ToSet(account.questions) :
         \/ x \in IdsOf(ReconciledQs)
         \/ \E other \in ToSet(records) : x \in IdsOf(other.obligations)
  <2> SUFFICES ASSUME NEW x \in ToSet(account.questions), x \notin IdsOf(ReconciledQs)
               PROVE  \E other \in ToSet(records) : x \in IdsOf(other.obligations)
    OBVIOUS
  <2>1. /\ x \in IdsOf(ReconciledOs)
        /\ \E q \in ToSet(Requirements) : x \in ToSet(settled[RequirementId(q)].obligations)
    BY <1>1, ReconciledHas
  <2>. QED
    BY <2>1, RecordedIds
<1> HIDE DEF id, records
<1>7. /\ IsList(record.obligations)
      /\ IdsOf(record.obligations) = ToSet(account.obligations) \cap IdsOf(ReconciledOs)
  BY <1>2, <1>4, PickedHas DEF IsAccount
<1>8. /\ IsList(record.questions)
      /\ IdsOf(record.questions) = ToSet(account.questions) \cap IdsOf(ReconciledQs)
  BY <1>2, <1>4, PickedHas DEF IsAccount
<1> DEFINE astray == IsAstray(account, decomposition)
<1>9. ASSUME ~astray, account.tag = "yielded" PROVE ToSet(record.obligations) # {}
  <2>1. ToSet(account.obligations) # {}
    BY <1>2, <1>3, <1>9, Emptied DEF HasItsClaim, IsAccount
  <2>2. PICK x \in ToSet(account.obligations) : TRUE
    BY <2>1
  <2>3. x \in IdsOf(ReconciledOs)
    BY <1>5, <1>9 DEF IsAstray
  <2>4. x \in IdsOf(record.obligations)
    BY <1>7, <2>3
  <2>. QED
    BY <2>4, IdsAre
<1>10. ASSUME ~astray, account.tag = "open_question" PROVE ToSet(record.questions) # {}
  <2>1. ToSet(account.questions) # {}
    BY <1>2, <1>3, <1>10, Emptied DEF HasItsClaim, IsAccount
  <2>2. PICK x \in ToSet(account.questions) : TRUE
    BY <2>1
  <2>3. x \in IdsOf(ReconciledQs)
    BY <1>6, <1>10 DEF IsAstray, records
  <2>4. x \in IdsOf(record.questions)
    BY <1>8, <2>3
  <2>. QED
    BY <2>4, IdsAre
<1>11. account.tag = "no_obligation" => record.reason
  BY <1>3, <1>4 DEF HasItsClaim
<1>12. ~astray => IsDisposition(CarriedDisposition(record))
  BY <1>2, <1>4, <1>9, <1>10, <1>11, CarriedClaims DEF IsAccount
<1>13. decomposition.dispositions[id] = account /\ decomposition.records[n] = record
  BY DEF records
<1> HIDE DEF astray, account, record
<1>14. \/ IsDisposition(CarriedDisposition(decomposition.records[n]))
       \/ IsAstray(decomposition.dispositions[id], decomposition)
  BY <1>12, <1>13 DEF astray
<1>15. id \in DOMAIN decomposition.dispositions
  BY <1>2
<1>. QED
  BY <1>14, <1>15 DEF RecordStands, id

\* The decomposition claims what it has when it is put together.
LEMMA ReconciledClaims ==
    ASSUME RunShape, ReadShape, Deciding, Claimed, Reconcile
    PROVE  Claimed'
<1>1. Requirements' = Requirements
  BY DEF Reconcile, Requirements
<1>2. CASE made' = made
  BY <1>1, <1>2 DEF Claimed, KeepsItsClaims, RecordStands
<1>3. CASE /\ FirstFault(Requirements) = "none" /\ step' = "linking"
           /\ made' = [obligations |-> ReconciledOs, questions |-> ReconciledQs,
                       dispositions |-> settled,
                       records |-> Records(Requirements, ReconciledOs, ReconciledQs),
                       removed |-> plan.removed]
  <2> DEFINE records == Records(Requirements, ReconciledOs, ReconciledQs)
  <2>1. /\ made'.obligations = ReconciledOs /\ made'.questions = ReconciledQs
        /\ made'.dispositions = settled /\ made'.records = records
    BY <1>3
  <2>2. DOMAIN records = DOMAIN Requirements
    BY DEF Records
  <2> HIDE DEF records
  <2>3. \A n \in DOMAIN Requirements : RecordStands(n, made')
    <3> DEFINE decomposition == made'
    <3>1. /\ decomposition.obligations = ReconciledOs /\ decomposition.questions = ReconciledQs
          /\ decomposition.dispositions = settled
          /\ decomposition.records = Records(Requirements, ReconciledOs, ReconciledQs)
      BY <2>1 DEF records
    <3> HIDE DEF decomposition
    <3>2. \A n \in DOMAIN Requirements : RecordStands(n, decomposition)
      BY <1>3, <3>1, RecordsStand
    <3>. QED
      BY <3>2 DEF decomposition
  <2>4. ASSUME NEW id \in DOMAIN settled PROVE IsDisposition(settled[id])
    <3>1. PICK r \in ToSet(Requirements) : RequirementId(r) = id
      BY DEF Deciding, IsOfARequirement
    <3>2. IsAccount(settled[id]) /\ Fault(id) = "none"
      BY <1>3, <3>1, NoFault DEF ReadShape, Backed
    <3>3. HasItsClaim(settled[id])
      BY <3>2, FaultlessHasItsClaim DEF IsAccount
    <3>. QED
      BY <3>3 DEF HasItsClaim, IsDisposition
  <2>. QED
    BY <1>1, <2>1, <2>2, <2>3, <2>4 DEF Claimed, KeepsItsClaims, RecordStands
<1>. QED
  BY <1>2, <1>3, Reconciling

\* Merging takes no requirement its claim, and leaves astray what was.
LEMMA RelinkedClaims ==
    ASSUME ReadShape, Claimed, NEW decisions, Linked(decisions)
    PROVE  KeepsItsClaims(made')
<1> DEFINE os == made.obligations
           survivor == Survivors(os, Confirmed(decisions))
<1>1. /\ made'.obligations = MergedObligations(os, survivor)
      /\ made'.dispositions = Relinked(made.dispositions, survivor)
      /\ made'.questions = made.questions /\ made'.records = made.records
      /\ DOMAIN survivor = IdsOf(os)
  BY LinkedHas
<1>2. IsMade(made) /\ AreObligations(os)
  BY DEF ReadShape, IsMade
<1> HIDE DEF survivor
<1>3. DOMAIN made'.dispositions = DOMAIN made.dispositions
  BY <1>1 DEF Relinked
<1>4. ASSUME NEW id \in DOMAIN made.dispositions
      PROVE  /\ IsAccount(made.dispositions[id])
             /\ made'.dispositions[id].tag = made.dispositions[id].tag
             /\ made'.dispositions[id].reason = made.dispositions[id].reason
             /\ made'.dispositions[id].questions = made.dispositions[id].questions
             /\ IsAccount(made'.dispositions[id])
             /\ ToSet(made'.dispositions[id].obligations) =
                   {Through(survivor, x) : x \in ToSet(made.dispositions[id].obligations)}
  <2>1. IsAccount(made.dispositions[id])
    BY <1>2 DEF IsMade
  <2>. QED
    BY <1>1, <2>1, RelinkedHas
<1>5. ASSUME NEW id \in DOMAIN made.dispositions PROVE IsDisposition(made'.dispositions[id])
  <2> DEFINE before == made.dispositions[id]
             after == made'.dispositions[id]
  <2>1. HasItsClaim(before)
    BY DEF Claimed, KeepsItsClaims, IsDisposition, HasItsClaim
  <2>2. before.obligations # <<>> => after.obligations # <<>>
    <3>1. IsList(before.obligations) /\ IsList(after.obligations)
      BY <1>4 DEF IsAccount
    <3>. QED
      BY <1>4, <3>1, Emptied
  <2>3. HasItsClaim(after)
    BY <1>4, <2>1, <2>2, StillHasItsClaim DEF IsAccount
  <2>. QED
    BY <2>3 DEF HasItsClaim, IsDisposition
<1>6. IdsOf(made'.obligations) \subseteq IdsOf(os)
  BY <1>1, <1>2, MergedHas
<1>7. ASSUME NEW id \in DOMAIN made.dispositions, IsAstray(made.dispositions[id], made)
      PROVE  IsAstray(made'.dispositions[id], made')
  <2>1. ASSUME NEW x \in ToSet(made.dispositions[id].obligations), x \in IdsOf(made.questions) \ IdsOf(os)
        PROVE  x \in ToSet(made'.dispositions[id].obligations)
    <3>1. Through(survivor, x) = x
      BY <1>1, <2>1 DEF Through
    <3>. QED
      BY <1>4, <3>1
  <2>. QED
    BY <1>1, <1>4, <1>6, <1>7, <2>1 DEF IsAstray
<1>8. \A n \in DOMAIN made'.records : RecordStands(n, made')
  BY <1>1, <1>3, <1>7 DEF Claimed, KeepsItsClaims, RecordStands
<1>. QED
  BY <1>3, <1>5, <1>8 DEF KeepsItsClaims

\* Whatever the step.
LEMMA ClaimedStep ==
    ASSUME RunShape, ReadShape, Deciding, Claimed, [Next]_vars
    PROVE  Claimed'
<1>1. CASE NothingRead
  BY <1>1, Emptied DEF NothingRead, Nothing, Claimed, KeepsItsClaims
<1>2. CASE UNCHANGED <<run, made>>
  BY <1>2 DEF Claimed, KeepsItsClaims, RecordStands, Requirements
<1>3. CASE Link
  <2>1. Requirements' = Requirements
    BY <1>3 DEF Link, Requirements
  <2>2. UNCHANGED run
    BY <1>3 DEF Link
  <2>3. CASE UNCHANGED made
    BY <1>2, <2>2, <2>3
  <2>4. CASE \E decisions : Linked(decisions)
    <3>1. KeepsItsClaims(made')
      BY <2>4, RelinkedClaims
    <3>. QED
      BY <2>1, <3>1 DEF Claimed, KeepsItsClaims, RecordStands
  <2>. QED
    BY <1>3, <2>3, <2>4, LinkingDecides
<1>4. PlanCarry \/ AskAbout \/ DecideSpans \/ AskSpan \/ UNCHANGED readVars => UNCHANGED <<run, made>>
  BY DEF PlanCarry, AskAbout, DecideSpans, AskSpan, readVars
<1>. QED
  BY <1>1, <1>2, <1>3, <1>4, ReconciledClaims, ReadingChanges

\* It always holds.
LEMMA ClaimedHolds == Spec => []Claimed
<1>1. Init => Claimed
  BY Emptied DEF Init, InitDecompose, Nothing, Claimed, KeepsItsClaims
<1>2. Claimed /\ Inv /\ ReadShape /\ Deciding /\ [Next]_vars => Claimed'
  BY ClaimedStep DEF Inv
<1>. QED
  BY <1>1, <1>2, InvHolds, ReadShapeHolds, DecidingHolds, PTL DEF Spec

\* What a run has made is what is on record of it, once it is written.
WrittenAsMade ==
    Readable(Len(ledger)) /\ made # Nothing => ledger[Len(ledger)].records = made.records

\* What is made is not changed once it is written.
LEMMA MadeOnce ==
    ASSUME Inv, Readable(Len(ledger)), [Next]_vars
    PROVE  made' \in {Nothing, made}
<1>1. step \in Outcomes \/ PastLedger
  BY DEF Inv, Unwritten, Readable
<1>2. step \notin {"planning", "asking", "linking"}
  BY <1>1 DEF Outcomes, PastLedger
<1>3. ~PlanCarry /\ ~AskAbout /\ ~DecideSpans /\ ~AskSpan /\ ~Reconcile /\ ~Link
  BY <1>2 DEF PlanCarry, AskAbout, DecideSpans, AskSpan, Reconcile, Link
<1>. QED
  BY <1>3, ReadingChanges DEF NothingRead, readVars

\* A number that is among others, and that they all are up to, is the last of them.
LEMMA LastIs ==
    ASSUME NEW m \in Nat, NEW n \in Nat, 1..m \subseteq 1..n, n \in 1..m
    PROVE  n = m
<1>1. m \in 1..m
  OBVIOUS
<1>2. m \in 1..n
  BY <1>1
<1>. QED
  BY <1>2

\* Whatever the step.
LEMMA WrittenStep ==
    ASSUME Inv, WrittenAsMade, [Next]_vars
    PROVE  WrittenAsMade'
<1> SUFFICES ASSUME Readable(Len(ledger))', made' # Nothing
             PROVE  ledger'[Len(ledger')].records = made'.records
  BY DEF WrittenAsMade, Nothing
<1> DEFINE n == Len(ledger')
<1>1. n \in DOMAIN ledger' /\ ledger'[n].file = "whole"
  BY DEF Readable
<1>2. CASE n \in DOMAIN ledger /\ ledger'[n] = ledger[n]
  <2>1. DOMAIN ledger \subseteq DOMAIN ledger' /\ LedgerShape /\ LedgerShape'
    BY NextMoves DEF LedgerMoves, Inv
  <2>2. Len(ledger) \in Nat /\ DOMAIN ledger = 1..Len(ledger)
    BY <2>1 DEF LedgerShape
  <2>3. n \in Nat /\ DOMAIN ledger' = 1..n
    BY <2>1 DEF LedgerShape
  <2>4. n = Len(ledger)
    BY <1>2, <2>1, <2>2, <2>3, LastIs
  <2>5. Readable(Len(ledger))
    BY <1>1, <1>2, <2>4 DEF Readable
  <2>6. made' = made
    BY <2>5, MadeOnce
  <2>. QED
    BY <1>2, <2>4, <2>5, <2>6 DEF WrittenAsMade
<1>3. CASE ledger'[n] \in {Blank("none"), Blank("torn")}
  BY <1>1, <1>3 DEF Blank
<1>4. CASE UNCHANGED made /\ \E sets \in {<<>>, defectSets} : ledger'[n] = LedgerEntry(sets)
  BY <1>4 DEF LedgerEntry
<1>. QED
  BY <1>1, <1>2, <1>3, <1>4, EntriesChange

\* It always holds.
LEMMA WrittenHolds == Spec => []WrittenAsMade
<1>1. Init => WrittenAsMade
  BY DEF Init, InitDecompose, WrittenAsMade
<1>2. Inv /\ WrittenAsMade /\ [Next]_vars => WrittenAsMade'
  BY WrittenStep
<1>. QED
  BY <1>1, <1>2, InvHolds, PTL DEF Spec

\* What was just stored is read back.
StoredReads == step = "recording" /\ run.command = "check" => IsReadable(reviews[run.head])

\* A check stores one that reads.
LEMMA StoredReadsStep ==
    ASSUME Typed, Found, Regions, Claimed, StoredReads, [Next]_vars
    PROVE  StoredReads'
<1> SUFFICES ASSUME step' = "recording", run'.command = "check"
             PROVE  IsReadable(reviews'[run'.head])
  BY DEF StoredReads
<1>1. CASE UNCHANGED vars
  BY <1>1 DEF vars, decomposeVars, checkVars, StoredReads
<1>2. CASE StoreReview
  <2>1. run' = run
    BY <1>2 DEF StoreReview
  <2>2. PICK mismatched \in IF run.declared THEN BOOLEAN ELSE {FALSE} :
           reviews' = Put(Review(Findings(mismatched)))
    BY <1>2 DEF StoreReview
  <2>3. reviews'[run'.head] = Review(Findings(mismatched))
    BY <2>1, <2>2 DEF Put
  <2>4. IsReadable(Review(Findings(mismatched)))
    BY ReviewReads DEF Claimed, KeepsItsClaims
  <2>. QED
    BY <2>3, <2>4
<1>. QED
  BY <1>1, <1>2, StoredBeforeRecording

\* It always holds.
LEMMA StoredReadsHolds == Spec => []StoredReads
<1>1. Init => StoredReads
  BY DEF Init, InitDecompose, StoredReads
<1>2. Typed /\ Found /\ Regions /\ Claimed /\ StoredReads /\ [Next]_vars => StoredReads'
  BY StoredReadsStep
<1>. QED
  BY <1>1, <1>2, TypedHolds, FoundHolds, RegionsHold, ClaimedHolds, PTL DEF Spec

\* What was just written is what was made, and says what became of it.
LEMMA WrittenReads ==
    ASSUME Typed, Regions, Claimed, WrittenAsMade, NEW entry \in JustWritten
    PROVE  /\ IsLedgerEntry(entry)
           /\ made # Nothing =>
                \A n \in DOMAIN entry.records :
                   \/ IsDisposition(CarriedDisposition(entry.records[n]))
                   \/ Displaced(made.dispositions[RequirementId(Requirements[n])])
<1>1. Readable(Len(ledger)) /\ entry = ledger[Len(ledger)]
  BY DEF JustWritten, Entry
<1>2. Len(ledger) \in DOMAIN ledger
  BY <1>1 DEF Readable
<1>3. AreDerivations(entry.records) /\ AreGrounded(entry.sets)
  BY <1>1, <1>2 DEF Typed, Regions
<1>4. IsLedgerEntry(entry)
  BY <1>3 DEF IsLedgerEntry, AreDerivations, AreGrounded, Grounded
<1>5. ASSUME made # Nothing, NEW n \in DOMAIN entry.records
      PROVE  \/ IsDisposition(CarriedDisposition(entry.records[n]))
             \/ Displaced(made.dispositions[RequirementId(Requirements[n])])
  <2>1. entry.records = made.records
    BY <1>1, <1>5 DEF WrittenAsMade
  <2>2. RecordStands(n, made)
    BY <1>5, <2>1 DEF Claimed, KeepsItsClaims
  <2> DEFINE disposition == made.dispositions[RequirementId(Requirements[n])]
  <2>3. IsDisposition(CarriedDisposition(made.records[n])) \/ IsAstray(disposition, made)
    BY <2>2 DEF RecordStands
  <2> HIDE DEF disposition
  <2>4. IsAstray(disposition, made) => Displaced(disposition)
    BY DEF IsAstray, Displaced
  <2>. QED
    BY <2>1, <2>3, <2>4 DEF disposition
<1>. QED
  BY <1>4, <1>5

\* No answer makes a run store a review its own validators refuse, nor write an
\* entry that is as good as none, or of which a record crashes the run that
\* carries it, but for a record of which an id went to something else.
THEOREM ReviewsAreReadable == Spec => []ReviewsReadBack
<1>1. Typed /\ Regions /\ Claimed /\ WrittenAsMade /\ StoredReads => ReviewsReadBack
  <2> SUFFICES ASSUME Typed, Regions, Claimed, WrittenAsMade, StoredReads PROVE ReviewsReadBack
    OBVIOUS
  <2>1. \A review \in JustStored : IsReadable(review)
    BY DEF JustStored, StoredReads
  <2>. QED
    BY <2>1, WrittenReads DEF ReviewsReadBack
<1>. QED
  BY <1>1, TypedHolds, RegionsHold, ClaimedHolds, WrittenHolds, StoredReadsHolds, PTL

(***************************************************************************)
(* Scores.  What a review lists is finite, so that its counts are numbers, *)
(* and of what was matched there is no more than of either side.           *)
(***************************************************************************)

\* What a function makes of finitely many is finite.
LEMMA ImagesAreFinite ==
    ASSUME NEW S, IsFiniteSet(S), NEW f
    PROVE  IsFiniteSet({f[x] : x \in S})
<1> DEFINE g == [x \in S |-> f[x]]
           T == {f[x] : x \in S}
<1>1. g = [x \in S |-> g[x]] /\ T = {g[x] : x \in S}
  OBVIOUS
<1> HIDE DEF g, T
<1>2. IsFiniteSet(T)
  BY <1>1, Imaged
<1>. QED
  BY <1>2 DEF T

\* No more is matched than was labelled or than was reported.
IsCount(count) ==
    /\ count.matched \in Nat /\ count.truth \in Nat /\ count.reported \in Nat
    /\ count.matched <= count.truth /\ count.matched <= count.reported

\* The counts of two finite sets.
LEMMA CountsAre ==
    ASSUME NEW T, IsFiniteSet(T), NEW R, IsFiniteSet(R)
    PROVE  IsCount(Counts(T, R))
<1>1. Cardinality(T) \in Nat /\ Cardinality(R) \in Nat
  BY FS_CardinalityType
<1>2. IsFiniteSet(T \cap R) /\ Cardinality(T \cap R) <= Cardinality(T)
  BY FS_Intersection
<1>3. T \cap R \in SUBSET R
  OBVIOUS
<1>4. Cardinality(T \cap R) <= Cardinality(R)
  BY <1>3, FS_Subset
<1>5. Cardinality(T \cap R) \in Nat
  BY <1>2, FS_CardinalityType
<1>. QED
  BY <1>1, <1>2, <1>4, <1>5 DEF IsCount, Counts

\* A review that can be counted: it lists finitely many things, and where it is
\* positive it finds no gap.
Countable(review) ==
    /\ IsList(review.obligations) /\ IsList(review.questions)
    /\ IsFiniteSet(review.findings)
    /\ \A f \in review.findings : IsFiniteSet(f.about) /\ IsFiniteSet(f.links)
    /\ AreGrounded(review.sets)
    /\ review.verdict = "no_material_gaps" => \A f \in review.findings : f.about = {}

\* Gaps are counted, and a positive verdict is credited with none.
LEMMA GapsCounted ==
    ASSUME NEW labels, AreLabels(labels), NEW review, Countable(review), NEW alignment
    PROVE  /\ IsCount(GapCounts(labels, review, alignment))
           /\ review.verdict = "no_material_gaps" => GapCounts(labels, review, alignment).matched = 0
<1> DEFINE gaps == ToSet(labels.gaps)
           named == [g \in gaps |-> IF g.about = "none" THEN g.id
                                    ELSE ById(labels.obligations, g.about).says]
           T == {named[g] : g \in gaps}
           abouts == {f.about : f \in review.findings}
           said == [says \in UNION abouts |-> Remapped(says, alignment)]
           R == {said[says] : says \in UNION abouts}
<1>1. IsFiniteSet(gaps)
  BY ListsAreFinite DEF AreLabels
<1>2. IsFiniteSet(T)
  <2> HIDE DEF named
  <2>. QED
    BY <1>1, ImagesAreFinite
<1>3. IsFiniteSet(UNION abouts)
  <2> DEFINE about == [f \in review.findings |-> f.about]
  <2>1. abouts = {about[f] : f \in review.findings}
    OBVIOUS
  <2>2. IsFiniteSet(review.findings) /\ \A S \in abouts : IsFiniteSet(S)
    BY DEF Countable
  <2> HIDE DEF about, abouts
  <2>3. IsFiniteSet(abouts)
    BY <2>1, <2>2, ImagesAreFinite
  <2>. QED
    BY <2>2, <2>3, FS_UNION
<1>4. IsFiniteSet(R)
  <2> HIDE DEF said, abouts
  <2>. QED
    BY <1>3, ImagesAreFinite
<1>5. GapCounts(labels, review, alignment) = Counts(T, R)
  BY DEF GapCounts
<1>6. ASSUME review.verdict = "no_material_gaps" PROVE Counts(T, R).matched = 0
  <2>1. UNION abouts = {}
    BY <1>6 DEF Countable
  <2>a. R = {}
    BY <2>1
  <2>2. T \cap R = {}
    BY <2>a
  <2>. QED
    BY <2>2, FS_EmptySet DEF Counts
<1>. QED
  BY <1>2, <1>4, <1>5, <1>6, CountsAre

\* Obligations are counted.
LEMMA DecompositionCounted ==
    ASSUME NEW labels, AreLabels(labels), NEW review, Countable(review), NEW alignment
    PROVE  IsCount(DecompositionCounts(labels, review, alignment))
<1> DEFINE T == ToSet(TextsIn(labels.obligations))
           os == ToSet(review.obligations)
           said == [o \in os |-> Remapped(o.says, alignment)]
           R == {said[o] : o \in os}
<1>1. IsFiniteSet(T)
  <2> DEFINE texts == TextsIn(labels.obligations)
  <2>1. IsList(labels.obligations)
    BY DEF AreLabels
  <2>2. /\ DOMAIN texts = DOMAIN labels.obligations /\ texts = [n \in DOMAIN labels.obligations |-> texts[n]]
        /\ \A n \in DOMAIN labels.obligations : texts[n] \in ToSet(texts)
    BY DEF TextsIn, ToSet
  <2> HIDE DEF texts
  <2>3. IsList(texts)
    BY <2>1, <2>2, Mapped
  <2>. QED
    BY <2>3, ListsAreFinite DEF texts
<1>2. IsFiniteSet(os)
  BY ListsAreFinite DEF Countable
<1>3. IsFiniteSet(R)
  <2> HIDE DEF said, os
  <2>. QED
    BY <1>2, ImagesAreFinite
<1>. QED
  BY <1>1, <1>3, CountsAre DEF DecompositionCounts

\* So are the classes that were given to those with a label.
LEMMA EvidenceCounted ==
    ASSUME NEW labels, AreLabels(labels), NEW review, Countable(review), NEW alignment
    PROVE  IsCount(EvidenceCounts(labels, review, alignment))
<1> DEFINE ls == ToSet(labels.obligations)
           labelled == [l \in ls |-> <<l.says, l.class>>]
           T == {labelled[l] : l \in ls}
           os == {p \in ToSet(review.obligations) : review.class[p.id] # "none"}
           rated == [o \in os |-> <<Remapped(o.says, alignment), review.class[o.id]>>]
           R == {rated[o] : o \in os}
<1>1. IsFiniteSet(ls)
  BY ListsAreFinite DEF AreLabels
<1>2. IsFiniteSet(os)
  <2>1. IsFiniteSet(ToSet(review.obligations)) /\ os \in SUBSET ToSet(review.obligations)
    BY ListsAreFinite DEF Countable
  <2> HIDE DEF os
  <2>. QED
    BY <2>1, FS_Subset
<1>3. IsFiniteSet(T) /\ IsFiniteSet(R)
  <2> HIDE DEF ls, os, labelled, rated
  <2>. QED
    BY <1>1, <1>2, ImagesAreFinite
<1>4. EvidenceCounts(labels, review, alignment) = Counts(T, R)
  BY DEF EvidenceCounts
<1>. QED
  BY <1>3, <1>4, CountsAre

\* And their types.
LEMMA TypesCounted ==
    ASSUME NEW labels, AreLabels(labels), NEW review, Countable(review), NEW alignment
    PROVE  IsCount(TypeCounts(labels, review, alignment))
<1> DEFINE ls == {l \in ToSet(labels.obligations) : l.type # "none"}
           labelled == [l \in ls |-> <<l.says, l.type>>]
           T == {labelled[l] : l \in ls}
           os == {p \in ToSet(review.obligations) :
                    Remapped(p.says, alignment) \in {l.says : l \in ls}}
           typed == [o \in os |-> <<Remapped(o.says, alignment), o.type>>]
           R == {typed[o] : o \in os}
<1>1. IsFiniteSet(ls)
  <2>1. IsFiniteSet(ToSet(labels.obligations)) /\ ls \in SUBSET ToSet(labels.obligations)
    BY ListsAreFinite DEF AreLabels
  <2> HIDE DEF ls
  <2>. QED
    BY <2>1, FS_Subset
<1>2. IsFiniteSet(os)
  <2>1. IsFiniteSet(ToSet(review.obligations)) /\ os \in SUBSET ToSet(review.obligations)
    BY ListsAreFinite DEF Countable
  <2> HIDE DEF os
  <2>. QED
    BY <2>1, FS_Subset
<1>3. IsFiniteSet(T) /\ IsFiniteSet(R)
  <2> HIDE DEF ls, os, labelled, typed
  <2>. QED
    BY <1>1, <1>2, ImagesAreFinite
<1>4. TypeCounts(labels, review, alignment) = Counts(T, R)
  BY DEF TypeCounts
<1>. QED
  BY <1>3, <1>4, CountsAre

\* The changes nobody asked for are counted by file.
LEMMA UnrequestedCounted ==
    ASSUME NEW labels, AreLabels(labels), NEW review, Countable(review)
    PROVE  IsCount(UnrequestedCounts(labels, review))
<1> DEFINE us == ToSet(labels.unrequested)
           file == [u \in us |-> u.file]
           T == {file[u] : u \in us}
           found == {g \in review.findings : g.type = "unrequested_change"}
           linked == [f \in found |-> f.links]
           links == {l \in UNION {linked[f] : f \in found} : l.kind = "code"}
           changed == [link \in links |-> link.ref[1]]
           R == {changed[link] : link \in links}
<1>1. IsFiniteSet(us)
  BY ListsAreFinite DEF AreLabels
<1>2. IsFiniteSet(links)
  <2>1. IsFiniteSet(review.findings) /\ found \in SUBSET review.findings
    BY DEF Countable
  <2>2. \A f \in found : linked[f] = f.links /\ IsFiniteSet(f.links)
    BY DEF Countable
  <2> HIDE DEF found, linked
  <2>3. IsFiniteSet(found)
    BY <2>1, FS_Subset
  <2>4. IsFiniteSet({linked[f] : f \in found})
    BY <2>3, ImagesAreFinite
  <2>5. \A S \in {linked[f] : f \in found} : IsFiniteSet(S)
    BY <2>2
  <2>6. IsFiniteSet(UNION {linked[f] : f \in found})
    BY <2>4, <2>5, FS_UNION
  <2>7. links \in SUBSET UNION {linked[f] : f \in found}
    OBVIOUS
  <2> HIDE DEF links
  <2>. QED
    BY <2>6, <2>7, FS_Subset
<1>3. IsFiniteSet(T) /\ IsFiniteSet(R)
  <2> HIDE DEF us, file, links, changed
  <2>. QED
    BY <1>1, <1>2, ImagesAreFinite
<1>4. UnrequestedCounts(labels, review) = Counts(T, R)
  <2>1. {linked[f] : f \in found} = {f.links : f \in found}
    OBVIOUS
  <2>2. UNION {linked[f] : f \in found} = UNION {f.links : f \in found}
    BY <2>1
  <2>3. links = {l \in UNION {f.links : f \in found} : l.kind = "code"}
    BY <2>2
  <2>4. T = {u.file : u \in us} /\ R = {link.ref[1] : link \in links}
    OBVIOUS
  <2> HIDE DEF links, T, R
  <2>. QED
    BY <2>3, <2>4 DEF UnrequestedCounts
<1>. QED
  BY <1>3, <1>4, CountsAre

\* And the questions, by what should be raised.
LEMMA QuestionsCounted ==
    ASSUME NEW labels, AreLabels(labels), NEW review, Countable(review)
    PROVE  IsCount(QuestionCounts(labels, review))
<1> DEFINE qs == ToSet(labels.questions)
           expected == {q \in qs : q.raise}
           raised == IdsOf(review.questions)
           matched == {q \in expected : \E id \in raised : Names(q, id)}
           charged == {id \in raised : \E q \in qs \ expected : Names(q, id)}
           count == QuestionCounts(labels, review)
<1>1. IsFiniteSet(qs) /\ IsFiniteSet(raised)
  BY ListsAreFinite, IdsAreFinite DEF AreLabels, Countable
<1>2. expected \in SUBSET qs /\ matched \in SUBSET expected /\ charged \in SUBSET raised
  OBVIOUS
<1>3. /\ count.matched = Cardinality(matched) /\ count.truth = Cardinality(expected)
      /\ count.reported = Cardinality(matched) + Cardinality(charged)
  BY DEF QuestionCounts
<1> HIDE DEF qs, expected, raised, matched, charged, count
<1>4. IsFiniteSet(expected) /\ IsFiniteSet(charged)
  BY <1>1, <1>2, FS_Subset
<1>5. IsFiniteSet(matched) /\ Cardinality(matched) <= Cardinality(expected)
  BY <1>2, <1>4, FS_Subset
<1>6. /\ Cardinality(expected) \in Nat /\ Cardinality(charged) \in Nat
      /\ Cardinality(matched) \in Nat
  BY <1>4, <1>5, FS_CardinalityType
<1>. QED
  BY <1>3, <1>5, <1>6 DEF IsCount, count

\* Of every family.
LEMMA AllCounted ==
    ASSUME NEW labels, AreLabels(labels), NEW review, Countable(review), NEW matches
    PROVE  LET counts == AllCounts(labels, review, matches)
           IN  /\ DOMAIN counts = Families /\ \A family \in Families : IsCount(counts[family])
               /\ review.verdict = "no_material_gaps" => counts.gap.matched = 0
<1> DEFINE alignment == AlignedTexts(TextsIn(labels.obligations), TextsIn(review.obligations), matches)
           counts == AllCounts(labels, review, matches)
<1>1. PICK a : a = alignment
  OBVIOUS
<1>2. counts =
        [gap |-> GapCounts(labels, review, a), decomposition |-> DecompositionCounts(labels, review, a),
         evidence |-> EvidenceCounts(labels, review, a),
         unrequested |-> UnrequestedCounts(labels, review),
         open_question |-> QuestionCounts(labels, review), type |-> TypeCounts(labels, review, a)]
  BY <1>1 DEF AllCounts
<1>3. /\ counts.gap = GapCounts(labels, review, a)
      /\ counts.decomposition = DecompositionCounts(labels, review, a)
      /\ counts.evidence = EvidenceCounts(labels, review, a)
      /\ counts.unrequested = UnrequestedCounts(labels, review)
      /\ counts.open_question = QuestionCounts(labels, review)
      /\ counts.type = TypeCounts(labels, review, a)
      /\ DOMAIN counts = Families
  BY <1>2 DEF Families
<1> HIDE DEF counts
<1>4. /\ IsCount(counts.gap) /\ IsCount(counts.decomposition) /\ IsCount(counts.evidence)
      /\ IsCount(counts.unrequested) /\ IsCount(counts.open_question) /\ IsCount(counts.type)
      /\ review.verdict = "no_material_gaps" => counts.gap.matched = 0
  BY <1>3, GapsCounted, DecompositionCounted, EvidenceCounted, TypesCounted, UnrequestedCounted,
     QuestionsCounted
<1>5. \A family \in Families : IsCount(counts[family])
  BY <1>4 DEF Families
<1>. QED
  BY <1>3, <1>4, <1>5 DEF counts

\* Of the pairs that are kept each names what was shown, and no two say anything
\* of one statement of either side.
Fits(kept, S, truth, reported) ==
    /\ kept \in Seq(S)
    /\ \A m \in ToSet(kept) : m.truth \in DOMAIN truth /\ m.reported \in DOMAIN reported
    /\ \A m, k \in ToSet(kept) : m.truth = k.truth \/ m.reported = k.reported => m = k

\* One more pair that fits, or none.
LEMMA FitsOneMore ==
    ASSUME NEW S, NEW kept, NEW truth, NEW reported, Fits(kept, S, truth, reported), NEW m \in S,
           m.truth \in DOMAIN truth, m.reported \in DOMAIN reported,
           \A k \in ToSet(kept) : k.truth # m.truth /\ k.reported # m.reported
    PROVE  Fits(Append(kept, m), S, truth, reported)
<1> DEFINE more == Append(kept, m)
<1>1. kept \in Seq(S)
  BY DEF Fits
<1>2. more \in Seq(S) /\ ToSet(more) = ToSet(kept) \cup {m}
  <2>1. Len(kept) \in Nat /\ DOMAIN kept = 1..Len(kept)
    BY <1>1
  <2>2. /\ more \in Seq(S) /\ DOMAIN more = 1..(Len(kept) + 1) /\ more[Len(kept) + 1] = m
        /\ \A i \in 1..Len(kept) : more[i] = kept[i]
    BY <1>1
  <2>3. 1..(Len(kept) + 1) = (1..Len(kept)) \cup {Len(kept) + 1}
    BY <2>1
  <2> HIDE DEF more
  <2>. QED
    BY <2>1, <2>2, <2>3 DEF ToSet
<1> HIDE DEF more
<1>3. \A k \in ToSet(more) : k.truth \in DOMAIN truth /\ k.reported \in DOMAIN reported
  BY <1>2 DEF Fits
<1>4. \A j, k \in ToSet(more) : j.truth = k.truth \/ j.reported = k.reported => j = k
  BY <1>2 DEF Fits
<1>. QED
  BY <1>2, <1>3, <1>4 DEF Fits, more

\* What is kept of a matching fits both sides.
LEMMA KeptFit ==
    ASSUME NEW matches, IsList(matches), NEW truth, NEW reported
    PROVE  Fits(KeptMatches(matches, truth, reported), ToSet(matches), truth, reported)
<1> DEFINE L == Len(matches)
           S == ToSet(matches)
           V == Seq(S)
           free(m, before) == \A k \in ToSet(before) : k.truth # m.truth /\ k.reported # m.reported
           fits(m, before) == /\ m.truth \in DOMAIN truth /\ m.reported \in DOMAIN reported
                              /\ free(m, before)
           one(n, before) == IF fits(matches[n], before) THEN Append(before, matches[n]) ELSE before
           next == [n \in 1..L |-> [before \in V |-> one(n, before)]]
           kept == CHOOSE f : f = [n \in 0..L |-> IF n = 0 THEN <<>> ELSE one(n, f[n - 1])]
<1>1. L \in Nat /\ DOMAIN matches = 1..L /\ \A n \in 1..L : matches[n] \in S
  BY Listed DEF IsList, ToSet
<1>2. \A n \in 1..L : \A before \in V : one(n, before) \in V
  <2> HIDE DEF fits, S
  <2>. QED
    BY <1>1
<1>3. \A n \in 1..L : \A before \in V : next[n][before] = one(n, before) /\ next[n][before] \in V
  <2> HIDE DEF one, V
  <2>. QED
    BY <1>2
<1>4. KeptMatches(matches, truth, reported) = kept[L]
  BY DEF KeptMatches
<1>a. ASSUME NEW n \in 1..L, NEW before \in V, Fits(before, S, truth, reported)
      PROVE  Fits(one(n, before), S, truth, reported)
  <2> DEFINE m == matches[n]
  <2>1. m \in S
    BY <1>1
  <2>2. CASE fits(m, before)
    <3>1. /\ m.truth \in DOMAIN truth /\ m.reported \in DOMAIN reported
          /\ \A k \in ToSet(before) : k.truth # m.truth /\ k.reported # m.reported
      BY <2>2
    <3>2. one(n, before) = Append(before, m)
      BY <2>2
    <3> HIDE DEF m, S, one
    <3>3. Fits(Append(before, m), S, truth, reported)
      BY <1>a, <2>1, <3>1, FitsOneMore
    <3>. QED
      BY <3>2, <3>3
  <2>3. CASE ~fits(m, before)
    BY <1>a, <2>3
  <2>. QED
    BY <2>2, <2>3
<1>b. Fits(<<>>, S, truth, reported)
  BY Emptied DEF Fits
<1> HIDE DEF next, one, S
<1>5. PICK f \in [0..L -> V] : f[0] = <<>> /\ \A n \in 1..L : f[n] = next[n][f[n - 1]]
  <2> DEFINE first == <<>>
  <2>1. L \in Nat /\ first \in V /\ Leads(next, L, V)
    BY <1>1, <1>3 DEF Leads
  <2> HIDE DEF L, V, first, kept
  <2>2. \E f \in [0..L -> V] : Follows(f, first, next, L)
    BY <2>1, Iterating
  <2>. QED
    BY <2>2 DEF Follows, first
<1> HIDE DEF V
<1>6. f = [n \in 0..L |-> IF n = 0 THEN <<>> ELSE one(n, f[n - 1])]
  <2>1. ASSUME NEW n \in 0..L PROVE f[n] = IF n = 0 THEN <<>> ELSE one(n, f[n - 1])
    <3>1. CASE n = 0
      BY <1>5, <3>1
    <3>2. CASE n # 0
      <4>1. n \in 1..L /\ n - 1 \in 0..L
        BY <1>1, <3>2
      <4>2. f[n - 1] \in V
        BY <1>5, <4>1
      <4>. QED
        BY <1>3, <1>5, <3>2, <4>1, <4>2
    <3>. QED
      BY <3>1, <3>2
  <2>. QED
    BY <1>5, <2>1
<1>7. kept = [n \in 0..L |-> IF n = 0 THEN <<>> ELSE one(n, kept[n - 1])]
  BY <1>6
<1> HIDE DEF kept
<1> DEFINE T == {n \in Nat : n \in 0..L => kept[n] \in V /\ Fits(kept[n], S, truth, reported)}
<1>8. 0 \in T
  <2>1. 0 \in 0..L
    BY <1>1
  <2>2. kept[0] = <<>> /\ <<>> \in V
    BY <1>5, <1>7, <2>1
  <2>. QED
    BY <1>b, <2>2
<1>9. ASSUME NEW n \in Nat, n \in T PROVE n + 1 \in T
  <2>1. CASE n + 1 \in 0..L
    <3>1. n \in 0..L /\ n + 1 \in 1..L /\ n + 1 # 0 /\ (n + 1) - 1 = n
      BY <2>1
    <3>2. kept[n] \in V /\ Fits(kept[n], S, truth, reported)
      BY <1>9, <3>1
    <3>3. kept[n + 1] = one(n + 1, kept[n])
      BY <1>7, <2>1, <3>1
    <3>4. kept[n + 1] \in V
      BY <1>2, <3>1, <3>2, <3>3 DEF one
    <3>5. Fits(kept[n + 1], S, truth, reported)
      BY <1>a, <3>1, <3>2, <3>3
    <3>. QED
      BY <3>4, <3>5
  <2>2. CASE n + 1 \notin 0..L
    BY <2>2
  <2>. QED
    BY <2>1, <2>2
<1>10. Nat \subseteq T
  <2> HIDE DEF T
  <2>. QED
    BY <1>8, <1>9, Counting
<1>11. L \in T /\ L \in 0..L
  BY <1>1, <1>10
<1>12. Fits(kept[L], S, truth, reported)
  BY <1>11
<1>. QED
  BY <1>4, <1>12 DEF S

\* What a review recorded is a list.
LEMMA RecordedAre ==
    ASSUME NEW review, AreGrounded(review.sets)
    PROVE  IsList(RecordedDefects(review))
<1> DEFINE lists == [n \in DOMAIN review.sets |-> review.sets[n].defects]
<1>1. IsList(review.sets) /\ \A n \in DOMAIN review.sets : IsList(review.sets[n].defects)
  BY DEF AreGrounded, Grounded, ToSet
<1>2. /\ DOMAIN lists = DOMAIN review.sets /\ lists = [n \in DOMAIN review.sets |-> lists[n]]
      /\ \A n \in DOMAIN review.sets : IsList(lists[n])
  BY <1>1
<1> HIDE DEF lists
<1>3. IsList(FlattenSeq(lists))
  BY <1>1, <1>2, AnsweredIs
<1>. QED
  BY <1>3 DEF RecordedDefects, lists

\* No more defects are matched than were labelled, or than were recorded.
LEMMA AlignedAre ==
    ASSUME NEW labelled, IsList(labelled), NEW recorded, IsList(recorded), NEW matches, IsList(matches)
    PROVE  LET alignment == AlignedDefects(labelled, recorded, matches)
           IN  /\ IsFiniteSet(DOMAIN alignment)
               /\ Cardinality(DOMAIN alignment) <= Len(labelled)
               /\ Cardinality(DOMAIN alignment) <= Len(recorded)
<1> DEFINE truth == IdSeq(labelled)
           reported == IdSeq(recorded)
           kept == KeptMatches(matches, truth, reported)
           K == ToSet(kept)
           D == DOMAIN AlignedDefects(labelled, recorded, matches)
           N == 1..Len(labelled)
           R == 1..Len(recorded)
<1>1. DOMAIN truth = DOMAIN labelled /\ DOMAIN reported = DOMAIN recorded
  BY DEF IdSeq
<1>2. /\ DOMAIN labelled = N /\ Len(labelled) \in Nat
      /\ DOMAIN recorded = R /\ Len(recorded) \in Nat
  BY Listed DEF IsList
<1>3. D = {reported[m.reported] : m \in K}
  BY DEF AlignedDefects, AlignedTexts, ByName
<1>4. Fits(kept, ToSet(matches), truth, reported)
  BY KeptFit
<1> HIDE DEF truth, reported, kept, D
<1>5. IsFiniteSet(K)
  <2>1. IsList(kept)
    BY <1>4, Listed DEF Fits
  <2>. QED
    BY <2>1, ListsAreFinite
<1>6. IsFiniteSet(N) /\ Cardinality(N) = Len(labelled) /\ IsFiniteSet(R) /\ Cardinality(R) = Len(recorded)
  <2>1. \A n \in Nat : IsFiniteSet(1..n) /\ Cardinality(1..n) = n
    BY FS_Interval
  <2>. QED
    BY <1>2, <2>1
<1>7. IsFiniteSet(D) /\ Cardinality(D) <= Cardinality(K)
  <2> DEFINE f == [m \in K |-> reported[m.reported]]
  <2>1. f = [m \in K |-> f[m]] /\ D = {f[m] : m \in K}
    BY <1>3
  <2> HIDE DEF f, K
  <2>. QED
    BY <1>5, <2>1, Imaged
<1>8. Cardinality(K) <= Len(labelled)
  <2> DEFINE g == [m \in K |-> m.truth]
  <2>1. g \in [K -> N] /\ \A m, k \in K : g[m] = g[k] => m = k
    BY <1>1, <1>2, <1>4 DEF Fits
  <2> HIDE DEF g, K, N
  <2>2. g \in Injection(K, N)
    BY <2>1 DEF Injection, IsInjective
  <2>. QED
    BY <1>6, <2>2, FS_Injection
<1>9. Cardinality(D) <= Len(recorded)
  <2> DEFINE E == {reported[n] : n \in R}
             h == [n \in R |-> reported[n]]
  <2>1. D \in SUBSET E
    BY <1>1, <1>2, <1>3, <1>4 DEF Fits
  <2>2. h = [n \in R |-> h[n]] /\ E = {h[n] : n \in R}
    OBVIOUS
  <2> HIDE DEF h, E, R
  <2>3. IsFiniteSet(E) /\ Cardinality(E) <= Cardinality(R)
    BY <1>6, <2>2, Imaged
  <2>4. Cardinality(D) <= Cardinality(E)
    BY <2>1, <2>3, FS_Subset
  <2>5. Cardinality(D) \in Nat /\ Cardinality(E) \in Nat
    BY <1>7, <2>3, FS_CardinalityType
  <2>. QED
    BY <1>2, <1>6, <2>3, <2>4, <2>5
<1>10. Cardinality(D) \in Nat /\ Cardinality(K) \in Nat
  BY <1>5, <1>7, FS_CardinalityType
<1>11. Cardinality(D) <= Len(labelled)
  BY <1>2, <1>7, <1>8, <1>10
<1>. QED
  BY <1>7, <1>9, <1>11 DEF D

\* The figures on the defects are of what they say they are of.
LEMMA DefectsScored ==
    ASSUME NEW labels, AreLabels(labels), NEW review, Countable(review),
           NEW matches, IsList(matches), NEW predicted
    PROVE  LET score == DefectScore(labels, review, matches, predicted)
           IN  score # Absent =>
                  /\ score.matched <= score.labelled /\ score.matched <= score.recorded
                  /\ score.recorded = 0 =>
                        /\ score.enumeration_recall = <<0, score.labelled>>
                        /\ score.kill_agreement = Absent
                  /\ score.kill_agreement # Absent =>
                        Cardinality(DOMAIN score.kill_agreement) <= score.matched
<1> DEFINE score == DefectScore(labels, review, matches, predicted)
           labelled == labels.defects
           recorded == RecordedDefects(review)
           alignment == AlignedDefects(labelled, recorded, matches)
           D == DOMAIN alignment
           both == {r \in D \cap DOMAIN predicted : alignment[r] \in IdsOf(labelled)}
           kills == KillAgreement(labelled, alignment, predicted)
<1> SUFFICES ASSUME score # Absent
             PROVE  /\ score.matched <= score.labelled /\ score.matched <= score.recorded
                    /\ score.recorded = 0 => /\ score.enumeration_recall = <<0, score.labelled>>
                                             /\ score.kill_agreement = Absent
                    /\ score.kill_agreement # Absent =>
                          Cardinality(DOMAIN score.kill_agreement) <= score.matched
  OBVIOUS
<1>1. labelled # <<>> /\ score = ScoreDefects(labelled, recorded, alignment, predicted)
  BY DEF DefectScore
<1>2. /\ score.enumeration_recall = EnumerationRecall(labelled, alignment)
      /\ score.kill_agreement = kills
      /\ score.labelled = Len(labelled) /\ score.recorded = Len(recorded)
      /\ score.matched = Cardinality(D)
  <2> HIDE DEF score, recorded, alignment, kills
  <2>. QED
    BY <1>1 DEF ScoreDefects, kills
<1>3. IsList(labelled) /\ IsList(recorded)
  BY RecordedAre DEF AreLabels, Countable
<1> HIDE DEF score, recorded
<1>4. IsFiniteSet(D) /\ Cardinality(D) <= Len(labelled) /\ Cardinality(D) <= Len(recorded)
  BY <1>3, AlignedAre
<1> HIDE DEF alignment
<1>5. Cardinality(D) \in Nat /\ Len(labelled) \in Nat /\ Len(recorded) \in Nat
  BY <1>3, <1>4, Listed, FS_CardinalityType DEF IsList
<1>6. kills = IF both = {} THEN Absent
              ELSE [id \in {alignment[r] : r \in both} |->
                       LET r == CHOOSE s \in both : alignment[s] = id
                       IN  Jaccard(predicted[r], ById(labelled, id).killed)]
  BY DEF KillAgreement
<1>7. ASSUME Len(recorded) = 0
      PROVE  EnumerationRecall(labelled, alignment) = <<0, Len(labelled)>> /\ kills = Absent
  <2>1. Cardinality(D) = 0
    BY <1>4, <1>5, <1>7
  <2>2. D = {}
    BY <1>4, <2>1, FS_EmptySet
  <2>3. kills = Absent
    BY <1>6, <2>2
  <2> DEFINE found == {d \in ToSet(labelled) : d.id \in Range(alignment)}
  <2>4. found = {}
    BY <2>2 DEF Range
  <2>5. Cardinality(found) = 0
    BY <2>4, FS_EmptySet
  <2>6. Len(labelled) # 0
    <3>1. labelled \in Seq(ToSet(labelled))
      BY <1>3 DEF IsList
    <3>. QED
      BY <1>1, <3>1
  <2>7. EnumerationRecall(labelled, alignment) = Share(Cardinality(found), Len(labelled))
    BY DEF EnumerationRecall
  <2> HIDE DEF found
  <2>8. EnumerationRecall(labelled, alignment) = <<0, Len(labelled)>>
    BY <2>5, <2>6, <2>7 DEF Share
  <2>. QED
    BY <2>3, <2>8
<1>8. ASSUME kills # Absent PROVE Cardinality(DOMAIN kills) <= Cardinality(D)
  <2> DEFINE f == [r \in both |-> alignment[r]]
             F == {f[r] : r \in both}
  <2>1. DOMAIN kills = F
    BY <1>6, <1>8
  <2>2. f = [r \in both |-> f[r]] /\ both \in SUBSET D
    OBVIOUS
  <2> HIDE DEF f, both, kills
  <2>3. IsFiniteSet(both) /\ Cardinality(both) <= Cardinality(D)
    BY <1>4, <2>2, FS_Subset
  <2>4. IsFiniteSet(F) /\ Cardinality(F) <= Cardinality(both)
    <3> DEFINE G == F
    <3>1. G = {f[r] : r \in both}
      OBVIOUS
    <3> HIDE DEF G, F
    <3>2. IsFiniteSet(G) /\ Cardinality(G) <= Cardinality(both)
      BY <2>2, <2>3, <3>1, Imaged
    <3>. QED
      BY <3>1, <3>2 DEF F
  <2>5. Cardinality(F) \in Nat /\ Cardinality(both) \in Nat
    BY <2>3, <2>4, FS_CardinalityType
  <2>. QED
    BY <1>5, <2>1, <2>3, <2>4, <2>5
<1>. QED
  BY <1>2, <1>4, <1>7, <1>8

\* The counts of two cases are added up, in either order.
LEMMA TwoPooled ==
    ASSUME NEW one, NEW two,
           \A family \in Families : IsCount(CountsOf(one)[family]) /\ IsCount(CountsOf(two)[family])
    PROVE  LET pooled == FoldSeq(LAMBDA case, rest : Pooled(CountsOf(case), rest), NoCounts, <<one, two>>)
           IN  /\ DOMAIN pooled = Families
               /\ \A family \in Families : \A part \in {"matched", "truth", "reported"} :
                     pooled[family][part] = CountsOf(one)[family][part] + CountsOf(two)[family][part]
<1> DEFINE cases == <<one, two>>
           add(n, rest) == Pooled(CountsOf(cases[n]), rest)
           pick(s) == CHOOSE x \in s : TRUE
           iter == CHOOSE h : h = [s \in SUBSET {1, 2} |->
                       IF s = {} THEN NoCounts ELSE add(pick(s), h[s \ {pick(s)}])]
           last(n) == add(n, NoCounts)
           the(s) == IF s = {} THEN NoCounts
                     ELSE IF s = {1} THEN last(1)
                     ELSE IF s = {2} THEN last(2)
                     ELSE IF pick(s) = 1 THEN add(1, last(2)) ELSE add(2, last(1))
           g == [s \in SUBSET {1, 2} |-> the(s)]
           pooled == FoldSeq(LAMBDA case, rest : Pooled(CountsOf(case), rest), NoCounts, <<one, two>>)
<1>1. DOMAIN cases = {1, 2} /\ cases[1] = one /\ cases[2] = two
  OBVIOUS
<1>2. pooled = iter[{1, 2}]
  <2>1. pooled = FoldFunctionOnSet(LAMBDA case, rest : Pooled(CountsOf(case), rest), NoCounts, cases, {1, 2})
    BY <1>1 DEF FoldSeq, FoldFunction
  <2>. QED
    BY <2>1 DEF FoldFunctionOnSet, MapThenFoldSet
<1> HIDE DEF pooled, cases
<1>3. \A s \in SUBSET {1, 2} : s # {} => pick(s) \in s
  OBVIOUS
<1>4. g = [s \in SUBSET {1, 2} |-> IF s = {} THEN NoCounts ELSE add(pick(s), g[s \ {pick(s)}])]
  <2> SUFFICES ASSUME NEW s \in SUBSET {1, 2}
               PROVE  the(s) = IF s = {} THEN NoCounts ELSE add(pick(s), the(s \ {pick(s)}))
    OBVIOUS
  <2>1. s = {} \/ s = {1} \/ s = {2} \/ s = {1, 2}
    OBVIOUS
  <2>2. s # {} => pick(s) \in s
    BY <1>3
  <2>3. the({}) = NoCounts /\ the({1}) = last(1) /\ the({2}) = last(2)
    OBVIOUS
  <2> HIDE DEF pick
  <2>4. CASE s = {1}
    BY <2>2, <2>3, <2>4
  <2>5. CASE s = {2}
    BY <2>2, <2>3, <2>5
  <2>6. CASE s = {1, 2}
    <3>1. pick(s) = 1 \/ pick(s) = 2
      BY <2>2, <2>6
    <3>2. CASE pick(s) = 1
      <4>1. s \ {pick(s)} = {2} /\ s # {} /\ s # {1} /\ s # {2}
        BY <2>6, <3>2
      <4>. QED
        BY <2>3, <3>2, <4>1
    <3>3. CASE pick(s) = 2
      <4>1. s \ {pick(s)} = {1} /\ s # {} /\ s # {1} /\ s # {2}
        BY <2>6, <3>3
      <4>. QED
        BY <2>3, <3>3, <4>1
    <3>. QED
      BY <3>1, <3>2, <3>3
  <2>. QED
    BY <2>1, <2>4, <2>5, <2>6
<1> HIDE DEF g, add
<1>5. iter = [s \in SUBSET {1, 2} |-> IF s = {} THEN NoCounts ELSE add(pick(s), iter[s \ {pick(s)}])]
  BY <1>4
<1> HIDE DEF iter
<1>6. iter[{1}] = add(1, NoCounts) /\ iter[{2}] = add(2, NoCounts)
  <2>1. {1} \in SUBSET {1, 2} /\ {2} \in SUBSET {1, 2} /\ {} \in SUBSET {1, 2}
    OBVIOUS
  <2>2. pick({1}) = 1 /\ pick({2}) = 2
    OBVIOUS
  <2>3. iter[{}] = NoCounts
    BY <1>5, <2>1
  <2>4. {1} \ {1} = {} /\ {2} \ {2} = {} /\ {1} # {} /\ {2} # {}
    OBVIOUS
  <2> HIDE DEF pick
  <2>5. iter[{1}] = add(pick({1}), iter[{1} \ {pick({1})}])
    BY <1>5, <2>1, <2>4
  <2>6. iter[{2}] = add(pick({2}), iter[{2} \ {pick({2})}])
    BY <1>5, <2>1, <2>4
  <2>. QED
    BY <2>2, <2>3, <2>4, <2>5, <2>6
<1>7. pooled = add(1, add(2, NoCounts)) \/ pooled = add(2, add(1, NoCounts))
  <2> DEFINE S == {1, 2}
  <2>1. S \in SUBSET {1, 2} /\ S # {} /\ (pick(S) = 1 \/ pick(S) = 2)
    BY <1>3
  <2> HIDE DEF pick
  <2>2. pick(S) = 1 => S \ {pick(S)} = {2}
    BY <2>1
  <2>3. pick(S) = 2 => S \ {pick(S)} = {1}
    BY <2>1
  <2>4. iter[S] = add(pick(S), iter[S \ {pick(S)}])
    BY <1>5, <2>1
  <2>. QED
    BY <1>2, <1>6, <2>1, <2>2, <2>3, <2>4
<1>8. \A family \in Families : \A part \in {"matched", "truth", "reported"} : NoCounts[family][part] = 0
  BY FS_EmptySet DEF NoCounts, Counts
<1>9. \A rest, case : /\ DOMAIN Pooled(CountsOf(case), rest) = Families
                      /\ \A family \in Families : \A part \in {"matched", "truth", "reported"} :
                            Pooled(CountsOf(case), rest)[family][part]
                               = CountsOf(case)[family][part] + rest[family][part]
  BY DEF Pooled
<1>10. \A family \in Families : \A part \in {"matched", "truth", "reported"} :
          CountsOf(one)[family][part] \in Nat /\ CountsOf(two)[family][part] \in Nat
  BY DEF IsCount
<1>11. \A rest : add(1, rest) = Pooled(CountsOf(one), rest) /\ add(2, rest) = Pooled(CountsOf(two), rest)
  BY <1>1 DEF add
<1>12. DOMAIN pooled = Families
  BY <1>7, <1>9, <1>11
<1>13. ASSUME NEW family \in Families, NEW part \in {"matched", "truth", "reported"}
       PROVE  pooled[family][part] = CountsOf(one)[family][part] + CountsOf(two)[family][part]
  <2>1. add(1, add(2, NoCounts))[family][part] = CountsOf(one)[family][part] + (CountsOf(two)[family][part] + 0)
    BY <1>8, <1>9, <1>11
  <2>2. add(2, add(1, NoCounts))[family][part] = CountsOf(two)[family][part] + (CountsOf(one)[family][part] + 0)
    BY <1>8, <1>9, <1>11
  <2>3. CountsOf(one)[family][part] \in Nat /\ CountsOf(two)[family][part] \in Nat
    BY <1>10
  <2>. QED
    BY <1>7, <2>1, <2>2, <2>3
<1>. QED
  BY <1>12, <1>13 DEF pooled

\* A case that says nothing of a figure leaves that of two cases as it was.
LEMMA SilentCase ==
    ASSUME NEW one, NEW two, one.mode = two.mode,
           DOMAIN CountsOf(one) = Families, DOMAIN CountsOf(two) = Families,
           \A family \in Families : IsCount(CountsOf(one)[family]) /\ IsCount(CountsOf(two)[family]),
           NEW family \in Families, NEW figure \in {"recall", "precision"}
    PROVE  LET set == ScoreCaseSet(<<one, two>>)
           IN  set.per_case[2].figures[family][figure] = Absent =>
                  set.figures[family][figure] = set.per_case[1].figures[family][figure]
<1> DEFINE set == ScoreCaseSet(<<one, two>>)
           cases == <<one, two>>
           modes == {case.mode : case \in ToSet(cases)}
           pooled == FoldSeq(LAMBDA case, rest : Pooled(CountsOf(case), rest), NoCounts, <<one, two>>)
<1>1. DOMAIN cases = {1, 2} /\ cases[1] = one /\ cases[2] = two
  OBVIOUS
<1>2. modes = {one.mode}
  BY <1>1 DEF ToSet
<1>3. Cardinality(modes) = 1
  BY <1>2, FS_Singleton
<1>4. set = [case_count |-> Len(cases), modes |-> modes, figures |-> FiguresOf(pooled),
             per_case |-> [n \in DOMAIN cases |-> ScoreCase(cases[n], <<>>)]]
  <2>1. ~(Cardinality(modes) > 1)
    BY <1>3
  <2>. QED
    BY <2>1, Zenon DEF ScoreCaseSet
<1>5. /\ DOMAIN pooled = Families
      /\ \A part \in {"matched", "truth", "reported"} :
            pooled[family][part] = CountsOf(one)[family][part] + CountsOf(two)[family][part]
  BY TwoPooled
<1> HIDE DEF pooled, modes
<1>6. /\ set.figures = FiguresOf(pooled)
      /\ set.per_case[1] = ScoreCase(one, <<>>) /\ set.per_case[2] = ScoreCase(two, <<>>)
  BY <1>1, <1>4
<1> HIDE DEF set
<1>7. /\ set.per_case[1].figures = FiguresOf(CountsOf(one))
      /\ set.per_case[2].figures = FiguresOf(CountsOf(two))
  BY <1>6 DEF ScoreCase
<1>8. \A counts : DOMAIN counts = Families =>
         /\ FiguresOf(counts)[family].recall = Recall(counts[family])
         /\ FiguresOf(counts)[family].precision = Precision(counts[family])
  BY DEF FiguresOf
<1> DEFINE a == CountsOf(one)[family]
           b == CountsOf(two)[family]
           p == pooled[family]
<1>9. IsCount(a) /\ IsCount(b)
  OBVIOUS
<1>10. p.matched = a.matched + b.matched /\ p.truth = a.truth + b.truth /\ p.reported = a.reported + b.reported
  BY <1>5
<1>11. /\ set.figures[family].recall = Recall(p) /\ set.figures[family].precision = Precision(p)
       /\ set.per_case[1].figures[family].recall = Recall(a)
       /\ set.per_case[1].figures[family].precision = Precision(a)
       /\ set.per_case[2].figures[family].recall = Recall(b)
       /\ set.per_case[2].figures[family].precision = Precision(b)
  BY <1>5, <1>6, <1>7, <1>8
<1> HIDE DEF a, b, p
<1>12. \A part, whole : Share(part, whole) = Absent <=> whole = 0
  BY DEF Share, Absent
<1>13. ASSUME Recall(b) = Absent PROVE Recall(p) = Recall(a)
  <2>1. b.truth = 0
    BY <1>12, <1>13 DEF Recall
  <2>2. p.truth = a.truth /\ p.matched = a.matched
    BY <1>9, <1>10, <2>1 DEF IsCount
  <2>. QED
    BY <2>2 DEF Recall
<1>14. ASSUME Precision(b) = Absent PROVE Precision(p) = Precision(a)
  <2>1. b.reported = 0
    BY <1>12, <1>14 DEF Precision
  <2>2. p.reported = a.reported /\ p.matched = a.matched
    BY <1>9, <1>10, <2>1 DEF IsCount
  <2>. QED
    BY <2>2 DEF Precision
<1>15. CASE figure = "recall"
  BY <1>11, <1>13, <1>15 DEF set
<1>16. CASE figure = "precision"
  BY <1>11, <1>14, <1>16 DEF set
<1>. QED
  BY <1>15, <1>16

\* Recorded and replayed cases are not one set.
LEMMA TwoModes ==
    ASSUME NEW one, NEW two, one.mode = "record", two.mode = "replay"
    PROVE  ScoreCaseSet(<<one, two>>) = Absent
<1> DEFINE cases == <<one, two>>
           modes == {case.mode : case \in ToSet(cases)}
<1>1. DOMAIN cases = {1, 2} /\ cases[1] = one /\ cases[2] = two
  OBVIOUS
<1>2. ToSet(cases) = {one, two}
  BY <1>1 DEF ToSet
<1>3. modes = {"record"} \cup {"replay"}
  BY <1>2
<1>4. Cardinality(modes) = 2
  <2>1. IsFiniteSet({"record"}) /\ Cardinality({"record"}) = 1 /\ "replay" \notin {"record"}
    BY FS_Singleton
  <2>2. ASSUME NEW S, IsFiniteSet(S), Cardinality(S) = 1, NEW x, x \notin S
        PROVE  Cardinality(S \cup {x}) = 2
    <3>1. Cardinality(S \cup {x}) = Cardinality(S) + 1
      BY <2>2, FS_AddElement
    <3>. QED
      BY <2>2, <3>1
  <2>3. Cardinality({"record"} \cup {"replay"}) = 2
    BY <2>1, <2>2, Zenon
  <2>. QED
    BY <1>3, <2>3, Zenon
<1>5. Cardinality(modes) > 1
  BY <1>4
<1>. QED
  BY <1>5, Zenon DEF ScoreCaseSet

\* A change has finitely many hunks.
LEMMA LabelsAreFinite ==
    ASSUME NEW files, IsList(files), \A file \in ToSet(files) : IsList(file.hunks)
    PROVE  IsFiniteSet(Labels(files))
<1> DEFINE of(i) == {<<files[i].path, n>> : n \in DOMAIN files[i].hunks}
           each == [i \in DOMAIN files |-> of(i)]
           all == {each[i] : i \in DOMAIN files}
<1>1. DOMAIN files = 1..Len(files) /\ Len(files) \in Nat
  BY Listed DEF IsList
<1>2. \A n \in Nat : IsFiniteSet(1..n)
  BY FS_Interval
<1>3. IsFiniteSet(DOMAIN files)
  BY <1>1, <1>2
<1>4. ASSUME NEW i \in DOMAIN files PROVE IsFiniteSet(of(i))
  <2>1. IsList(files[i].hunks)
    BY DEF ToSet
  <2> DEFINE hunks == files[i].hunks
             S == DOMAIN hunks
             label == [n \in S |-> <<files[i].path, n>>]
  <2>2. DOMAIN hunks = 1..Len(hunks) /\ Len(hunks) \in Nat
    BY <2>1, Listed DEF IsList
  <2>3. IsFiniteSet(S)
    BY <1>2, <2>2
  <2>4. of(i) = {label[n] : n \in S}
    OBVIOUS
  <2> HIDE DEF label, S
  <2>5. IsFiniteSet({label[n] : n \in S})
    BY <2>3, ImagesAreFinite
  <2>. QED
    BY <2>4, <2>5
<1>5. Labels(files) = UNION all /\ \A i \in DOMAIN files : each[i] = of(i)
  BY DEF Labels
<1>6. \A T \in all : IsFiniteSet(T)
  BY <1>4, <1>5
<1> HIDE DEF each
<1>7. IsFiniteSet(all)
  BY <1>3, ImagesAreFinite
<1> HIDE DEF all
<1>8. IsFiniteSet(UNION all)
  BY <1>6, <1>7, FS_UNION
<1>. QED
  BY <1>5, <1>8

\* So has that of a checkout.
LEMMA ChangesAreFinite ==
    ASSUME NEW name \in DOMAIN Checkouts, NEW head
    PROVE  IsFiniteSet(Labels(ChangeOf(name, head)))
<1> DEFINE checkout == Checkouts[name]
           diff == checkout.diff
           untracked == checkout.untracked
           known == Kept(diff, checkout)
           kept == Kept(untracked, checkout)
           read == Where(kept, LAMBDA f : f.readable)
           more == IF head = WorkingTree THEN read ELSE <<>>
           files == known \o more
<1>1. /\ IsList(diff) /\ IsList(untracked)
      /\ \A file \in ToSet(diff) \cup ToSet(untracked) : IsList(file.hunks)
  BY ChecksAssumption
<1>2. ChangeOf(name, head) = files
  BY DEF ChangeOf, ChangeSet
<1> HIDE DEF checkout, diff, untracked
<1>3. /\ IsList(known) /\ ToSet(known) \subseteq ToSet(diff)
      /\ IsList(kept) /\ ToSet(kept) \subseteq ToSet(untracked)
  BY <1>1, OnlyHas DEF Kept, Where
<1> HIDE DEF known, kept
<1>4. IsList(read) /\ ToSet(read) \subseteq ToSet(kept)
  BY <1>3, OnlyHas DEF Where
<1> HIDE DEF read
<1>5. IsList(more) /\ ToSet(more) \subseteq ToSet(kept)
  BY <1>4, Emptied
<1> HIDE DEF more
<1>6. IsList(files) /\ ToSet(files) = ToSet(known) \cup ToSet(more)
  BY <1>3, <1>5, JoinedLists
<1> HIDE DEF files
<1>7. \A file \in ToSet(files) : IsList(file.hunks)
  BY <1>1, <1>3, <1>5, <1>6
<1>. QED
  BY <1>2, <1>6, <1>7, LabelsAreFinite

\* What a run has of the change is finite and about obligations it has, and there
\* is none of it before the obligations are known.
StillReading ==
    \/ step \in {"claiming", "synthesizing", "planning", "asking", "linking", "resolving"}
    \/ step = "recording" /\ run.command # "check"

Tallied ==
    /\ DOMAIN coverages \subseteq IdsOf(obligations)
    /\ StillReading => DOMAIN coverages = {}
    /\ IsFiniteSet(unrequested) /\ \A u \in unrequested : IsFiniteSet(u.change)
    /\ \A id \in DOMAIN coverages : IsFiniteSet(coverages[id].refs)
    /\ prior = NoReview \/ Countable(prior)
    /\ \A r \in Whole : Countable(reviews[r])
    /\ step = "recording" /\ run.command = "check" => run.head \in Whole

\* A run that has begun to judge has read the file.
LEMMA BeforeJudged ==
    ASSUME LeftShape, [Next]_vars, StillReading'
    PROVE  NothingJudged \/ (StillReading /\ UNCHANGED judgementVars)
<1>1. CASE StartDecompose /\ prior' = NoReview /\ NothingJudged /\ UNCHANGED reviews
  BY <1>1
<1>2. CASE StartCheck
  BY <1>2 DEF StartCheck
<1>3. CASE ReadingStep /\ UNCHANGED checkVars
  <2>1. StillReading
    BY <1>3 DEF ReadingStep, PlanCarry, AskAbout, DecideSpans, AskSpan, SummaryDone, Reconcile, Link,
                Record, WriteLedger, BuildClaims, Synthesize, StillReading
  <2>. QED
    BY <1>3, <2>1 DEF checkVars, judgementVars
<1>4. CASE Judging
  BY <1>4 DEF Judging, ResolveQuestions, EnumerateDefects, JudgeDefects, ClassifyCoverage,
              DetectUnrequested, PrescribeTests, StoreReview, RecordCheck, WriteLedger, StillReading,
              LeftShape, JudgingSteps
<1>5. CASE CallFails \/ Kill
  BY <1>5 DEF CallFails, Kill, Forget
<1>6. CASE Finished \/ UNCHANGED vars
  BY <1>6 DEF Finished, vars, decomposeVars, checkVars, judgementVars, StillReading
<1>. QED
  BY <1>1, <1>2, <1>3, <1>4, <1>5, <1>6 DEF Next

\* What is said of the change after any step is of finitely many of its hunks.
LEMMA TalliedStep ==
    ASSUME Inv, LeftShape, ReadShape, Regions, Tallied, [Next]_vars
    PROVE  /\ DOMAIN coverages' \subseteq IdsOf(obligations')
           /\ StillReading' => DOMAIN coverages' = {}
           /\ IsFiniteSet(unrequested') /\ \A u \in unrequested' : IsFiniteSet(u.change)
           /\ \A id \in DOMAIN coverages' : IsFiniteSet(coverages'[id].refs)
<1>1. CASE NothingJudged
  BY <1>1, Emptied, FS_EmptySet DEF NothingJudged
<1>2. ASSUME ~NothingJudged
      PROVE  StillReading' => DOMAIN coverages' = {}
  BY <1>2, BeforeJudged DEF Tallied, judgementVars
<1>3. CASE UNCHANGED <<run, obligations, defectSets, coverages, unrequested>>
  BY <1>1, <1>2, <1>3 DEF Tallied
<1>4. CASE ResolveQuestions
  <2>1. UNCHANGED <<coverages, unrequested>> /\ DOMAIN coverages = {} /\ ~StillReading'
    BY <1>4 DEF ResolveQuestions, Tallied, StillReading
  <2>. QED
    BY <2>1 DEF Tallied
<1>5. CASE EnumerateDefects
  <2>1. UNCHANGED <<obligations, coverages, unrequested>> /\ ~StillReading'
    BY <1>5 DEF EnumerateDefects, StillReading
  <2>. QED
    BY <2>1 DEF Tallied
<1>6. CASE ClassifyCoverage \/ DetectUnrequested
  <2>1. ~StillReading' /\ step \in JudgingSteps /\ UNCHANGED obligations
    BY <1>6 DEF ClassifyCoverage, DetectUnrequested, StillReading, JudgingSteps
  <2>2. run.checkout \in DOMAIN Checkouts
    BY <2>1 DEF LeftShape, Inv, RunShape
  <2>3. IsFiniteSet(Labels(Files))
    BY <2>2, ChangesAreFinite DEF Files
  <2>4. CASE ClassifyCoverage
    <3>1. UNCHANGED unrequested
      BY <2>4 DEF ClassifyCoverage
    <3>2. PICK answers : coverages' = Coverages(ToClassify, answers, Files)
      BY <2>4 DEF ClassifyCoverage
    <3>3. DOMAIN coverages' = IdsOf(ToClassify)
      BY <3>2 DEF Coverages
    <3>4. ToSet(ToClassify) \subseteq ToSet(obligations)
      BY OnlyHas DEF ToClassify, Where, Regions
    <3>5. DOMAIN coverages' \subseteq IdsOf(obligations)
      BY <3>3, <3>4, IdsAre
    <3>6. \A id \in DOMAIN coverages' : coverages'[id].refs \subseteq Labels(Files)
      BY <3>2, CoveragesAreReal
    <3>7. \A id \in DOMAIN coverages' : IsFiniteSet(coverages'[id].refs)
      BY <2>3, <3>6, FS_Subset
    <3>. QED
      BY <2>1, <3>1, <3>5, <3>7 DEF Tallied
  <2>5. CASE DetectUnrequested
    <3>1. UNCHANGED coverages
      BY <2>5 DEF DetectUnrequested
    <3>2. PICK answers \in UnrequestedReplies :
             \E disposition \in [UnrequestedChanges(answers, Files) -> {"in_service", "separable", "risky"}] :
                unrequested' = {[change |-> c, disposition |-> disposition[c]] : c \in DOMAIN disposition}
      BY <2>5 DEF DetectUnrequested
    <3>3. PICK disposition \in [UnrequestedChanges(answers, Files) -> {"in_service", "separable", "risky"}] :
             unrequested' = {[change |-> c, disposition |-> disposition[c]] : c \in DOMAIN disposition}
      BY <3>2
    <3> DEFINE changes == UnrequestedChanges(answers, Files)
               entry == [c \in changes |-> [change |-> c, disposition |-> disposition[c]]]
    <3>4. \A change \in changes : change \subseteq Labels(Files)
      BY ChangesAreReal
    <3>5. unrequested' = {entry[c] : c \in changes} /\ \A c \in changes : entry[c].change = c
      BY <3>3
    <3> HIDE DEF entry, changes
    <3>6. changes \subseteq SUBSET Labels(Files)
      BY <3>4
    <3>7. IsFiniteSet(changes)
      BY <2>3, <3>6, FS_SUBSET, FS_Subset
    <3>8. IsFiniteSet(unrequested')
      BY <3>5, <3>7, ImagesAreFinite
    <3>9. \A u \in unrequested' : IsFiniteSet(u.change)
      BY <2>3, <3>4, <3>5, FS_Subset
    <3>. QED
      BY <2>1, <3>1, <3>8, <3>9 DEF Tallied
  <2>. QED
    BY <1>6, <2>4, <2>5
<1>. QED
  BY <1>1, <1>3, <1>4, <1>5, <1>6, JudgementChanges

\* Links are as many as the regions they are to.
LEMMA LinksAreFinite ==
    ASSUME NEW labels, IsFiniteSet(labels)
    PROVE  IsFiniteSet(CodeLinks(labels))
<1> DEFINE link == [l \in labels |-> LinkTo("code", l)]
<1>1. CodeLinks(labels) = {link[l] : l \in labels}
  BY DEF CodeLinks
<1> HIDE DEF link
<1>. QED
  BY <1>1, ImagesAreFinite

\* The findings of a check are finitely many, and each is about finitely much.
LEMMA FindingsAreFinite ==
    ASSUME Regions, Tallied, NEW mismatched
    PROVE  /\ IsFiniteSet(Findings(mismatched))
           /\ \A f \in Findings(mismatched) : IsFiniteSet(f.about) /\ IsFiniteSet(f.links)
<1> DEFINE low == {i \in DOMAIN coverages : coverages[i].status # "addressed"}
           gap == [id \in low |-> CoverageFinding(ById(obligations, id), coverages[id])]
           extra == [u \in unrequested |-> UnrequestedFinding(u)]
           gaps == {gap[id] : id \in low}
           extras == {extra[u] : u \in unrequested}
           wrong == IF mismatched THEN {MismatchFinding} ELSE {}
           none == IF run.declared THEN {} ELSE {AbsenceFinding}
<1>1. Findings(mismatched) = ((gaps \cup extras) \cup wrong) \cup none
  <2>1. gaps = {CoverageFinding(ById(obligations, id), coverages[id]) : id \in low}
    OBVIOUS
  <2>2. extras = {UnrequestedFinding(u) : u \in unrequested}
    OBVIOUS
  <2>. QED
    BY <2>1, <2>2, Zenon DEF Findings
<1>2. IsFiniteSet(low)
  <2>1. IsFiniteSet(IdsOf(obligations))
    BY IdsAreFinite DEF Regions
  <2>2. low \subseteq IdsOf(obligations)
    BY DEF Tallied
  <2>. QED
    BY <2>1, <2>2, FS_Subset
<1>3. \A id \in low : gap[id] = CoverageFinding(ById(obligations, id), coverages[id])
  OBVIOUS
<1>4. \A u \in unrequested : extra[u] = UnrequestedFinding(u)
  OBVIOUS
<1> HIDE DEF gap, extra
<1>5. IsFiniteSet(gaps)
  <2> HIDE DEF low
  <2>. QED
    BY <1>2, ImagesAreFinite
<1>6. IsFiniteSet(extras)
  BY ImagesAreFinite DEF Tallied
<1>7. IsFiniteSet({}) /\ IsFiniteSet({MismatchFinding}) /\ IsFiniteSet({AbsenceFinding})
  BY FS_EmptySet, FS_Singleton
<1>8. IsFiniteSet(wrong) /\ IsFiniteSet(none)
  BY <1>7
<1>9. \A f \in gaps : IsFiniteSet(f.about) /\ IsFiniteSet(f.links)
  <2> SUFFICES ASSUME NEW id \in low PROVE IsFiniteSet(gap[id].about) /\ IsFiniteSet(gap[id].links)
    OBVIOUS
  <2> DEFINE o == ById(obligations, id)
  <2>1. /\ gap[id].about = {o.says}
        /\ gap[id].links = IF coverages[id].refs # {} THEN CodeLinks(coverages[id].refs)
                           ELSE {LinkTo("requirement", o.id)}
    BY <1>3 DEF CoverageFinding, StaticFinding
  <2>2. IsFiniteSet({o.says}) /\ IsFiniteSet({LinkTo("requirement", o.id)})
    BY FS_Singleton
  <2>3. IsFiniteSet(CodeLinks(coverages[id].refs))
    BY LinksAreFinite DEF Tallied
  <2>. QED
    BY <2>1, <2>2, <2>3
<1>10. \A f \in extras : IsFiniteSet(f.about) /\ IsFiniteSet(f.links)
  <2> SUFFICES ASSUME NEW u \in unrequested
               PROVE  IsFiniteSet(extra[u].about) /\ IsFiniteSet(extra[u].links)
    OBVIOUS
  <2>1. extra[u].about = {} /\ extra[u].links = CodeLinks(u.change)
    BY <1>4 DEF UnrequestedFinding, StaticFinding
  <2>2. IsFiniteSet(CodeLinks(u.change))
    BY LinksAreFinite DEF Tallied
  <2>. QED
    BY <1>7, <2>1, <2>2
<1>11. \A f \in wrong \cup none : IsFiniteSet(f.about) /\ IsFiniteSet(f.links)
  <2>1. /\ MismatchFinding.about = {} /\ MismatchFinding.links = {LinkTo("declaration", <<"declaration">>)}
        /\ AbsenceFinding.about = {} /\ AbsenceFinding.links = {LinkTo("declaration", <<"declaration">>)}
    BY DEF MismatchFinding, AbsenceFinding, StaticFinding
  <2>2. IsFiniteSet({LinkTo("declaration", <<"declaration">>)})
    BY FS_Singleton
  <2>. QED
    BY <1>7, <2>1, <2>2
<1> HIDE DEF gaps, extras, wrong, none
<1>12. IsFiniteSet(gaps \cup extras)
  BY <1>5, <1>6, FS_Union
<1>13. IsFiniteSet((gaps \cup extras) \cup wrong)
  BY <1>8, <1>12, FS_Union
<1>14. IsFiniteSet(((gaps \cup extras) \cup wrong) \cup none)
  BY <1>8, <1>13, FS_Union
<1>. QED
  BY <1>1, <1>9, <1>10, <1>11, <1>14

\* A positive verdict goes with no gap.
LEMMA NoGapIsClean ==
    ASSUME Tallied, NEW mismatched, Review(Findings(mismatched)).verdict = "no_material_gaps",
           NEW f \in Findings(mismatched)
    PROVE  f.about = {}
<1> DEFINE review == Review(Findings(mismatched))
<1>1. /\ review.obligations = obligations /\ review.coverages = coverages
      /\ Clean(review)
  BY ReviewClean DEF Review
<1> HIDE DEF review
<1>2. \A id \in DOMAIN coverages : coverages[id].status = "addressed"
  <2> SUFFICES ASSUME NEW id \in DOMAIN coverages PROVE coverages[id].status = "addressed"
    OBVIOUS
  <2>1. id \in IdsOf(obligations)
    BY DEF Tallied
  <2>2. PICK o \in ToSet(obligations) : o.id = id
    BY <2>1, LookedUp
  <2>. QED
    BY <1>1, <2>2 DEF Clean
<1>3. \/ \E u \in unrequested : f = UnrequestedFinding(u)
      \/ f = MismatchFinding \/ f = AbsenceFinding
  BY <1>2 DEF Findings
<1>4. /\ \A u \in unrequested : UnrequestedFinding(u).about = {}
      /\ MismatchFinding.about = {} /\ AbsenceFinding.about = {}
  BY DEF UnrequestedFinding, MismatchFinding, AbsenceFinding, StaticFinding
<1>. QED
  BY <1>3, <1>4

\* A review that is put together can be counted.
LEMMA ReviewCounts ==
    ASSUME ReadShape, Regions, Tallied, NEW mismatched
    PROVE  Countable(Review(Findings(mismatched)))
<1> DEFINE findings == Findings(mismatched)
           review == Review(findings)
<1>1. /\ review.obligations = obligations /\ review.questions = made.questions
      /\ review.findings = findings /\ review.sets = defectSets
  BY DEF Review
<1>2. IsList(obligations) /\ IsList(made.questions) /\ AreGrounded(defectSets)
  BY DEF ReadShape, IsMade, Regions
<1>3. /\ IsFiniteSet(findings)
      /\ \A f \in findings : IsFiniteSet(f.about) /\ IsFiniteSet(f.links)
  BY FindingsAreFinite
<1>4. review.verdict = "no_material_gaps" => \A f \in findings : f.about = {}
  BY NoGapIsClean
<1> HIDE DEF review, findings
<1>5. Countable(review)
  BY <1>1, <1>2, <1>3, <1>4 DEF Countable
<1>. QED
  BY <1>5 DEF review, findings

\* It always holds.
LEMMA TalliedHolds == Spec => []Tallied
<1>1. Init => Tallied
  <2> SUFFICES ASSUME Init PROVE Tallied
    OBVIOUS
  <2>1. /\ coverages = <<>> /\ obligations = <<>> /\ unrequested = {} /\ prior = NoReview
        /\ reviews = <<>> /\ step # "recording"
    BY DEF Init, InitDecompose
  <2>. QED
    BY <2>1, Emptied, FS_EmptySet DEF Tallied, Whole
<1>2. Tallied /\ Inv /\ LeftShape /\ TypeOK /\ ReadShape /\ Regions /\ [Next]_vars => Tallied'
  <2> SUFFICES ASSUME Tallied, Inv, LeftShape, TypeOK, ReadShape, Regions, [Next]_vars PROVE Tallied'
    OBVIOUS
  <2>1. prior' = NoReview \/ Countable(prior')
    BY PriorIsStored DEF Tallied
  <2>2. ASSUME NEW r \in Whole' PROVE Countable(reviews'[r])
    <3>1. \A q \in Whole : Countable(reviews[q])
      BY DEF Tallied
    <3>2. CASE UNCHANGED reviews
      BY <3>1, <3>2 DEF Whole
    <3>3. CASE reviews' = Put(Torn)
      <4>1. r # run.head
        BY <3>3 DEF Put, Torn, Whole
      <4>. QED
        BY <3>1, <3>3, <4>1 DEF Put, Whole
    <3>4. ASSUME NEW mismatched \in BOOLEAN, reviews' = Put(Review(Findings(mismatched)))
          PROVE  Countable(reviews'[r])
      <4>1. CASE r = run.head
        <5>1. reviews'[r] = Review(Findings(mismatched))
          BY <3>4, <4>1 DEF Put
        <5>. QED
          BY <5>1, ReviewCounts
      <4>2. CASE r # run.head
        BY <3>1, <3>4, <4>2 DEF Put, Whole
      <4>. QED
        BY <4>1, <4>2
    <3>. QED
      BY <3>2, <3>3, <3>4, ReviewsChange
  <2>3. ASSUME step' = "recording", run'.command = "check" PROVE run'.head \in Whole'
    <3>1. CASE UNCHANGED vars
      BY <2>3, <3>1 DEF Tallied, Whole, vars, decomposeVars, checkVars
    <3>2. CASE StoreReview
      <4>1. run' = run
        BY <3>2 DEF StoreReview
      <4>2. PICK mismatched \in IF run.declared THEN BOOLEAN ELSE {FALSE} :
               reviews' = Put(Review(Findings(mismatched)))
        BY <3>2 DEF StoreReview
      <4>3. Review(Findings(mismatched)).form = "whole"
        BY DEF Review
      <4>4. run.head \in DOMAIN reviews' /\ reviews'[run.head].form = "whole"
        BY <4>2, <4>3 DEF Put
      <4>. QED
        BY <4>1, <4>4 DEF Whole
    <3>. QED
      BY <2>3, <3>1, <3>2, StoredBeforeRecording
  <2>. QED
    BY <2>1, <2>2, <2>3, TalliedStep DEF Tallied
<1>. QED
  BY <1>1, <1>2, InvHolds, LeftShapeHolds, TypeCorrect, ReadShapeHolds, RegionsHold, PTL DEF Spec

\* A score is of what it says it is of: no more is matched than was labelled or
\* than was reported, in any family and of the defects; a case that says nothing of
\* a figure leaves the figure of several cases alone; recorded and replayed reviews
\* have no score together; a positive verdict is not credited with a gap; and a
\* review that recorded no defect missed all: scoring.py and defect_scoring.py, for
\* every review that is stored, every set of labels and every alignment.
THEOREM ScoresHold == Spec => []ScoresAreShares
<1>1. Tallied /\ Compared /\ TypeOK => ScoresAreShares
  <2> SUFFICES ASSUME Tallied, Compared, TypeOK,
                      NEW review \in JustStored, review.task \in DOMAIN GroundTruth,
                      NEW matches \in MatchReplies
               PROVE  LET of(r) == [labels |-> GroundTruth[review.task], review |-> r,
                                    matches |-> matches, mode |-> "record"]
                          case == of(review)
                          earlier == IF prior # NoReview /\ prior.task = review.task
                                     THEN of(prior) ELSE case
                          counts == CountsOf(case)
                          set == ScoreCaseSet(<<earlier, case>>)
                          alone == <<set.per_case[1].figures, set.per_case[2].figures>>
                          score == ScoreCase(case, [d \in DOMAIN review.kills |->
                                                      IF review.kills[d] THEN {"t"} ELSE {}]).defects
                      IN  /\ \A family \in Families : \A figure \in {"recall", "precision"} :
                                /\ counts[family].matched <= counts[family].truth
                                /\ counts[family].matched <= counts[family].reported
                                /\ alone[2][family][figure] = Absent =>
                                      set.figures[family][figure] = alone[1][family][figure]
                          /\ ScoreCaseSet(<<earlier, [case EXCEPT !.mode = "replay"]>>) = Absent
                          /\ review.verdict = "no_material_gaps" => counts.gap.matched = 0
                          /\ score # Absent =>
                                /\ score.matched <= score.labelled /\ score.matched <= score.recorded
                                /\ score.recorded = 0 =>
                                      /\ score.enumeration_recall = <<0, score.labelled>>
                                      /\ score.kill_agreement = Absent
                                /\ score.kill_agreement # Absent =>
                                      Cardinality(DOMAIN score.kill_agreement) <= score.matched
    BY Zenon DEF ScoresAreShares
  <2> DEFINE labels == GroundTruth[review.task]
             of(r) == [labels |-> labels, review |-> r, matches |-> matches, mode |-> "record"]
             case == of(review)
             replayed == [case EXCEPT !.mode = "replay"]
             earlier == IF prior # NoReview /\ prior.task = review.task THEN of(prior) ELSE case
             counts == CountsOf(case)
             set == ScoreCaseSet(<<earlier, case>>)
             alone == <<set.per_case[1].figures, set.per_case[2].figures>>
             predicted == [d \in DOMAIN review.kills |-> IF review.kills[d] THEN {"t"} ELSE {}]
             score == ScoreCase(case, predicted).defects
  <2>1. AreLabels(labels) /\ IsList(matches)
    BY CasesAreRunnable, MatchesAreLists
  <2>2. Countable(review)
    <3>1. run.head \in Whole /\ review = reviews[run.head]
      BY DEF JustStored, Tallied
    <3>. QED
      BY <3>1 DEF Tallied
  <2> HIDE DEF labels
  <2>3. ASSUME NEW r, Countable(r)
        PROVE  /\ of(r).mode = "record" /\ DOMAIN CountsOf(of(r)) = Families
               /\ \A family \in Families : IsCount(CountsOf(of(r))[family])
               /\ r.verdict = "no_material_gaps" => CountsOf(of(r)).gap.matched = 0
    <3>1. CountsOf(of(r)) = AllCounts(labels, r, matches) /\ of(r).mode = "record"
      BY DEF CountsOf
    <3>. QED
      BY <2>1, <2>3, <3>1, AllCounted
  <2>4. ScoreCase(case, predicted).defects = DefectScore(labels, review, matches, predicted)
    BY DEF ScoreCase
  <2>5. replayed.mode = "replay"
    OBVIOUS
  <2>6. earlier = case \/ (prior # NoReview /\ earlier = of(prior))
    OBVIOUS
  <2> HIDE DEF of, predicted, replayed
  <2>7. /\ earlier.mode = "record" /\ DOMAIN CountsOf(earlier) = Families
        /\ \A family \in Families : IsCount(CountsOf(earlier)[family])
    BY <2>2, <2>3, <2>6 DEF Tallied
  <2>8. /\ case.mode = "record" /\ DOMAIN counts = Families
        /\ \A family \in Families : IsCount(counts[family])
        /\ review.verdict = "no_material_gaps" => counts.gap.matched = 0
    BY <2>2, <2>3
  <2> HIDE DEF case, earlier
  <2>9. ASSUME NEW family \in Families, NEW figure \in {"recall", "precision"}
        PROVE  /\ counts[family].matched <= counts[family].truth
               /\ counts[family].matched <= counts[family].reported
               /\ alone[2][family][figure] = Absent =>
                     set.figures[family][figure] = alone[1][family][figure]
    <3>1. counts[family].matched <= counts[family].truth /\ counts[family].matched <= counts[family].reported
      BY <2>8 DEF IsCount
    <3>2. set.per_case[2].figures[family][figure] = Absent =>
             set.figures[family][figure] = set.per_case[1].figures[family][figure]
      <4> HIDE DEF set
      <4>1. LET two == ScoreCaseSet(<<earlier, case>>)
            IN  two.per_case[2].figures[family][figure] = Absent =>
                   two.figures[family][figure] = two.per_case[1].figures[family][figure]
        BY <2>7, <2>8, SilentCase
      <4>. QED
        BY <4>1 DEF set
    <3> HIDE DEF set
    <3>. QED
      BY <3>1, <3>2
  <2>10. ScoreCaseSet(<<earlier, replayed>>) = Absent
    BY <2>5, <2>7, TwoModes
  <2>11. LET said == DefectScore(labels, review, matches, predicted)
         IN  said # Absent =>
                /\ said.matched <= said.labelled /\ said.matched <= said.recorded
                /\ said.recorded = 0 =>
                      said.enumeration_recall = <<0, said.labelled>> /\ said.kill_agreement = Absent
                /\ said.kill_agreement # Absent =>
                      Cardinality(DOMAIN said.kill_agreement) <= said.matched
    BY <2>1, <2>2, DefectsScored
  <2>12. score # Absent =>
            /\ score.matched <= score.labelled /\ score.matched <= score.recorded
            /\ score.recorded = 0 =>
                  score.enumeration_recall = <<0, score.labelled>> /\ score.kill_agreement = Absent
            /\ score.kill_agreement # Absent =>
                  Cardinality(DOMAIN score.kill_agreement) <= score.matched
    BY <2>4, <2>11, Zenon
  <2> HIDE DEF set, counts, score, alone
  <2>13. /\ \A family \in Families : \A figure \in {"recall", "precision"} :
               /\ counts[family].matched <= counts[family].truth
               /\ counts[family].matched <= counts[family].reported
               /\ alone[2][family][figure] = Absent =>
                     set.figures[family][figure] = alone[1][family][figure]
         /\ ScoreCaseSet(<<earlier, replayed>>) = Absent
         /\ review.verdict = "no_material_gaps" => counts.gap.matched = 0
    BY <2>8, <2>9, <2>10
  <2>. QED
    BY <2>12, <2>13, Zenon DEF set, counts, score, alone, case, earlier, replayed, predicted, of, labels
<1>. QED
  BY <1>1, TalliedHolds, ComparedHolds, TypeCorrect, PTL

(***************************************************************************)
(* The page of a decompose.  What is listed by kind is counted by kind,    *)
(* and each requirement has a block of its own.                            *)
(***************************************************************************)

\* How many of the first places of a list are in a set.
PlacesOf(seq, S, n) == {k \in 1..n : seq[k] \in S}

\* One more place is one more, or none.
LEMMA OnePlaceMore ==
    ASSUME NEW seq, NEW S, NEW n \in Nat
    PROVE  /\ IsFiniteSet(PlacesOf(seq, S, n))
           /\ Cardinality(PlacesOf(seq, S, n + 1)) =
                 Cardinality(PlacesOf(seq, S, n)) + (IF seq[n + 1] \in S THEN 1 ELSE 0)
<1> DEFINE before == PlacesOf(seq, S, n)
<1>1. \A m \in Nat : IsFiniteSet(1..m)
  BY FS_Interval
<1>2. before \subseteq 1..n
  BY DEF PlacesOf
<1>3. IsFiniteSet(before)
  BY <1>1, <1>2, FS_Subset
<1>4. Cardinality(before) \in Nat
  BY <1>3, FS_CardinalityType
<1>5. n + 1 \notin before
  BY DEF PlacesOf
<1>6. CASE seq[n + 1] \in S
  <2>1. PlacesOf(seq, S, n + 1) = before \cup {n + 1}
    BY <1>6 DEF PlacesOf
  <2> HIDE DEF before
  <2>2. Cardinality(before \cup {n + 1}) = Cardinality(before) + 1
    BY <1>3, <1>5, FS_AddElement
  <2>. QED
    BY <1>3, <1>6, <2>1, <2>2 DEF before
<1>7. CASE seq[n + 1] \notin S
  <2>1. PlacesOf(seq, S, n + 1) = before
    <3>1. \A k \in 1..(n + 1) : k \in 1..n \/ k = n + 1
      OBVIOUS
    <3>2. 1..n \subseteq 1..(n + 1)
      OBVIOUS
    <3>. QED
      BY <1>7, <3>1, <3>2 DEF PlacesOf
  <2>. QED
    BY <1>3, <1>4, <1>7, <2>1
<1>. QED
  BY <1>6, <1>7

\* What a list has of a set is as long as the list has places with it.
LEMMA OnlyCounts ==
    ASSUME NEW seq, IsList(seq), NEW S
    PROVE  Len(Only(seq, S)) = Cardinality({n \in DOMAIN seq : seq[n] \in S})
<1> DEFINE one(n) == IF seq[n] \in S THEN <<seq[n]>> ELSE <<>>
           L == Len(seq)
           ss == [n \in DOMAIN seq |-> one(n)]
           V == ToSet(seq)
<1>1. L \in Nat /\ DOMAIN seq = 1..L
  BY Listed DEF IsList
<1>2. \A n \in 1..L : ss[n] = one(n) /\ ss[n] \in Seq(V) /\ Len(ss[n]) = IF seq[n] \in S THEN 1 ELSE 0
  <2> SUFFICES ASSUME NEW n \in 1..L
               PROVE  one(n) \in Seq(V) /\ Len(one(n)) = IF seq[n] \in S THEN 1 ELSE 0
    BY <1>1
  <2>1. seq[n] \in V
    BY <1>1 DEF ToSet
  <2> DEFINE x == seq[n]
  <2> HIDE DEF V, x
  <2>2. <<x>> \in Seq(V) /\ Len(<<x>>) = 1 /\ <<>> \in Seq(V) /\ Len(<<>>) = 0
    BY <2>1 DEF x
  <2>3. CASE x \in S
    BY <2>2, <2>3 DEF x
  <2>4. CASE x \notin S
    BY <2>2, <2>4 DEF x
  <2>. QED
    BY <2>3, <2>4 DEF x
<1>3. Only(seq, S) = FlattenSeq(ss) /\ DOMAIN ss = 1..L
  BY <1>1 DEF Only
<1>4. ss \in [1..L -> Seq(V)]
  BY <1>1, <1>2
<1>5. ss \in Seq(Seq(V)) /\ Len(ss) = L
  BY <1>1, <1>3, <1>4
<1>6. {n \in DOMAIN seq : seq[n] \in S} = PlacesOf(seq, S, L)
  BY <1>1 DEF PlacesOf
<1>7. PlacesOf(seq, S, 0) = {} /\ Cardinality(PlacesOf(seq, S, 0)) = 0
  <2>1. PlacesOf(seq, S, 0) = {}
    BY DEF PlacesOf
  <2>. QED
    BY <2>1, FS_EmptySet
<1> HIDE DEF ss, V, L
<1>8. CASE L = 0
  <2>1. FlattenSeq(ss) = <<>>
    BY <1>5, <1>8 DEF FlattenSeq
  <2>2. Only(seq, S) = <<>> /\ Len(<<>>) = 0
    BY <1>3, <2>1
  <2>3. Cardinality(PlacesOf(seq, S, L)) = 0
    BY <1>7, <1>8
  <2>. QED
    BY <1>6, <2>2, <2>3
<1>9. CASE L # 0
  <2>1. PICK f : f \in Joins(ss, V, L)
    BY <1>1, <1>4, <1>9, JoinsExist
  <2>2. /\ f \in [1..L -> Seq(V)]
        /\ \A i \in 1..L : f[i] = IF i = 1 THEN ss[1] ELSE f[i - 1] \o ss[i]
    BY <2>1 DEF Joins
  <2>3. f = [i \in 1..L |-> IF i = 1 THEN ss[i] ELSE f[i - 1] \o ss[i]]
    BY <2>2
  <2> DEFINE g == CHOOSE h : h = [i \in 1..L |-> IF i = 1 THEN ss[i] ELSE h[i - 1] \o ss[i]]
  <2>4. g = [i \in 1..L |-> IF i = 1 THEN ss[i] ELSE g[i - 1] \o ss[i]]
    BY <2>3
  <2>5. FlattenSeq(ss) = g[L]
    BY <1>5, <1>9 DEF FlattenSeq
  <2> HIDE DEF g
  <2> DEFINE T == {n \in Nat : n \in 1..L =>
                      g[n] \in Seq(V) /\ Len(g[n]) = Cardinality(PlacesOf(seq, S, n))}
  <2>6. 0 \in T
    OBVIOUS
  <2>7. ASSUME NEW n \in Nat, n \in T PROVE n + 1 \in T
    <3> SUFFICES ASSUME n + 1 \in 1..L
                 PROVE  g[n + 1] \in Seq(V) /\ Len(g[n + 1]) = Cardinality(PlacesOf(seq, S, n + 1))
      OBVIOUS
    <3>1. /\ ss[n + 1] \in Seq(V)
          /\ Cardinality(PlacesOf(seq, S, n + 1)) = Cardinality(PlacesOf(seq, S, n)) + Len(ss[n + 1])
      <4>1. Cardinality(PlacesOf(seq, S, n + 1)) =
               Cardinality(PlacesOf(seq, S, n)) + (IF seq[n + 1] \in S THEN 1 ELSE 0)
        BY OnePlaceMore
      <4>. QED
        BY <1>2, <4>1
    <3>2. CASE n = 0
      <4>1. g[n + 1] = ss[n + 1] /\ n + 1 = 1
        BY <2>4, <3>2
      <4>2. Cardinality(PlacesOf(seq, S, n)) = 0
        BY <1>7, <3>2
      <4>3. Len(ss[n + 1]) \in Nat
        BY <3>1
      <4>. QED
        BY <3>1, <4>1, <4>2, <4>3
    <3>3. CASE n # 0
      <4>1. n \in 1..L
        BY <1>1, <3>3
      <4>2. g[n] \in Seq(V) /\ Len(g[n]) = Cardinality(PlacesOf(seq, S, n))
        BY <2>7, <4>1
      <4>3. g[n + 1] = g[n] \o ss[n + 1]
        <5>1. n + 1 # 1 /\ (n + 1) - 1 = n
          BY <3>3
        <5>. QED
          BY <2>4, <5>1
      <4>4. \A a, b \in Seq(V) : a \o b \in Seq(V) /\ Len(a \o b) = Len(a) + Len(b)
        OBVIOUS
      <4>5. g[n + 1] \in Seq(V) /\ Len(g[n + 1]) = Len(g[n]) + Len(ss[n + 1])
        BY <3>1, <4>2, <4>3, <4>4, Zenon
      <4>. QED
        BY <3>1, <4>2, <4>5
    <3>. QED
      BY <3>2, <3>3
  <2>8. Nat \subseteq T
    <3> HIDE DEF T
    <3>. QED
      BY <2>6, <2>7, Counting
  <2>9. L \in 1..L
    BY <1>1, <1>9
  <2>10. Len(g[L]) = Cardinality(PlacesOf(seq, S, L))
    BY <1>1, <2>8, <2>9
  <2>. QED
    BY <1>3, <1>6, <2>5, <2>10
<1>. QED
  BY <1>8, <1>9

\* Two lists that repeat nothing and share nothing, joined, repeat nothing.
NoneTwice(seq) == \A n, m \in DOMAIN seq : seq[n] = seq[m] => n = m

\* Two lists that share nothing, joined.
LEMMA JoinedNoneTwice ==
    ASSUME NEW s, IsList(s), NoneTwice(s), NEW t, IsList(t), NoneTwice(t), ToSet(s) \cap ToSet(t) = {}
    PROVE  NoneTwice(s \o t)
<1> DEFINE u == s \o t
<1>1. /\ DOMAIN s = 1..Len(s) /\ DOMAIN t = 1..Len(t) /\ Len(s) \in Nat /\ Len(t) \in Nat
  BY Listed DEF IsList
<1>2. s \in Seq(ToSet(s) \cup ToSet(t)) /\ t \in Seq(ToSet(s) \cup ToSet(t))
  <2>1. s \in Seq(ToSet(s)) /\ t \in Seq(ToSet(t))
    BY DEF IsList
  <2> DEFINE V == ToSet(s)
             W == ToSet(t)
  <2> HIDE DEF V, W
  <2>2. \A x \in Seq(V) : x \in Seq(V \cup W)
    OBVIOUS
  <2>3. \A x \in Seq(W) : x \in Seq(V \cup W)
    OBVIOUS
  <2>. QED
    BY <2>1, <2>2, <2>3 DEF V, W
<1>3. /\ DOMAIN u = 1..(Len(s) + Len(t))
      /\ \A i \in DOMAIN u : u[i] = IF i <= Len(s) THEN s[i] ELSE t[i - Len(s)]
  BY <1>2
<1> HIDE DEF u
<1>4. \A i \in 1..Len(s) : s[i] \in ToSet(s)
  BY <1>1 DEF ToSet
<1>5. \A i \in 1..Len(t) : t[i] \in ToSet(t)
  BY <1>1 DEF ToSet
<1> SUFFICES ASSUME NEW n \in DOMAIN u, NEW m \in DOMAIN u, u[n] = u[m] PROVE n = m
  BY DEF NoneTwice, u
<1>6. CASE n <= Len(s) /\ m <= Len(s)
  <2>1. n \in DOMAIN s /\ m \in DOMAIN s /\ s[n] = s[m]
    BY <1>1, <1>3, <1>6
  <2>. QED
    BY <2>1 DEF NoneTwice
<1>7. CASE ~(n <= Len(s)) /\ ~(m <= Len(s))
  <2>1. n - Len(s) \in DOMAIN t /\ m - Len(s) \in DOMAIN t /\ t[n - Len(s)] = t[m - Len(s)]
    BY <1>1, <1>3, <1>7
  <2>2. n - Len(s) = m - Len(s)
    BY <2>1 DEF NoneTwice
  <2>. QED
    BY <1>1, <1>3, <2>2
<1>8. CASE n <= Len(s) /\ ~(m <= Len(s))
  <2>1. n \in 1..Len(s) /\ m - Len(s) \in 1..Len(t) /\ s[n] = t[m - Len(s)]
    BY <1>1, <1>3, <1>8
  <2>. QED
    BY <1>4, <1>5, <2>1
<1>9. CASE ~(n <= Len(s)) /\ m <= Len(s)
  <2>1. m \in 1..Len(s) /\ n - Len(s) \in 1..Len(t) /\ s[m] = t[n - Len(s)]
    BY <1>1, <1>3, <1>9
  <2>. QED
    BY <1>4, <1>5, <2>1
<1>. QED
  BY <1>6, <1>7, <1>8, <1>9

\* A file lists no requirement twice.
LEMMA RegistryHasNoneTwice ==
    ASSUME NEW name \in DOMAIN Mandates
    PROVE  NoneTwice(Registry(Mandates[name]))
<1> DEFINE refs(section) == Refs(Mandates[name], section)
           two == refs("task") \o refs("constraint")
           three == two \o refs("exclusion")
           registry == Registry(Mandates[name])
<1>1. \A section \in MandateSections :
         IsList(refs(section)) /\ \A r \in ToSet(refs(section)) : r.section = section
  BY RefsAreNumbered
<1>2. \A section : NoneTwice(refs(section))
  BY DEF Refs, NoneTwice
<1>3. registry = three \o refs("completion")
  BY DEF Registry
<1> HIDE DEF refs, registry
<1>4. IsList(two) /\ ToSet(two) = ToSet(refs("task")) \cup ToSet(refs("constraint"))
  BY <1>1, JoinedLists DEF MandateSections
<1>5. NoneTwice(two)
  <2>1. ToSet(refs("task")) \cap ToSet(refs("constraint")) = {}
    BY <1>1 DEF MandateSections
  <2>. QED
    BY <1>1, <1>2, <2>1, JoinedNoneTwice DEF MandateSections
<1> HIDE DEF two
<1>6. IsList(three) /\ ToSet(three) = ToSet(two) \cup ToSet(refs("exclusion"))
  BY <1>1, <1>4, JoinedLists DEF MandateSections
<1>7. NoneTwice(three)
  <2>1. ToSet(two) \cap ToSet(refs("exclusion")) = {}
    BY <1>1, <1>4 DEF MandateSections
  <2>. QED
    BY <1>1, <1>2, <1>4, <1>5, <2>1, JoinedNoneTwice DEF MandateSections
<1> HIDE DEF three
<1>8. NoneTwice(registry)
  <2>1. ToSet(three) \cap ToSet(refs("completion")) = {}
    BY <1>1, <1>4, <1>6 DEF MandateSections
  <2>. QED
    BY <1>1, <1>2, <1>3, <1>6, <1>7, <2>1, JoinedNoneTwice DEF MandateSections
<1>. QED
  BY <1>8 DEF registry

\* The sentences of a file are a list.
LEMMA UnitsAreAList ==
    ASSUME NEW name \in DOMAIN Mandates
    PROVE  IsList(Units(Mandates[name]))
<1> DEFINE file == Mandates[name]
           given == [i \in DOMAIN file |->
                       IF file[i].type = "heading" THEN <<>> ELSE FlattenSeq(file[i].texts)]
<1>1. /\ IsList(file)
      /\ \A n \in DOMAIN file : file[n].type # "heading" =>
            IsList(file[n].texts) /\ \A text \in ToSet(file[n].texts) : IsList(text)
  BY MandatesAssumption DEF ToSet
<1>2. Units(file) = FlattenSeq(given)
  BY DEF Units
<1> HIDE DEF file
<1>3. ASSUME NEW n \in DOMAIN file PROVE IsList(given[n])
  <2>1. CASE file[n].type = "heading"
    BY <2>1, Emptied
  <2>2. CASE file[n].type # "heading"
    <3> DEFINE texts == file[n].texts
    <3>1. IsList(texts) /\ \A text \in ToSet(texts) : IsList(text)
      BY <1>1, <2>2
    <3> HIDE DEF texts
    <3>2. texts = [k \in DOMAIN texts |-> texts[k]] /\ \A k \in DOMAIN texts : IsList(texts[k])
      <4>1. texts \in Seq(ToSet(texts))
        BY <3>1 DEF IsList
      <4>2. \A k \in DOMAIN texts : texts[k] \in ToSet(texts)
        BY DEF ToSet
      <4>. QED
        BY <3>1, <4>1, <4>2
    <3>3. IsList(FlattenSeq(texts))
      BY <3>1, <3>2, AnsweredIs
    <3>. QED
      BY <2>2, <3>3 DEF texts
  <2>. QED
    BY <2>1, <2>2
<1>4. DOMAIN given = DOMAIN file /\ given = [n \in DOMAIN file |-> given[n]]
  OBVIOUS
<1> HIDE DEF given
<1>5. IsList(FlattenSeq(given))
  BY <1>1, <1>3, <1>4, AnsweredIs
<1>. QED
  BY <1>2, <1>5 DEF file

\* What the continued run had on a requirement that is gone is said to be gone, or
\* stands for one of these texts.
Rewords(S, removed) ==
    Readable(run.from) /\ run.from # Len(ledger) =>
        Cardinality(TextsOf(Entry(run.from)) \ Registered(Requirements))
           <= Cardinality({record.text : record \in ToSet(removed)}) + Cardinality(S)

PlanRewords ==
    \E S \in SUBSET Registered(Requirements) :
        /\ Rewords(S, plan.removed)
        /\ \A r \in ToSet(Requirements) :
              r.text \in S => RequirementId(r) \in DOMAIN plan.revised \ DOMAIN plan.carried

RecordsReword ==
    \E S \in SUBSET Registered(Requirements) :
        /\ Rewords(S, made.removed)
        /\ \A n \in DOMAIN Requirements :
              Requirements[n].text \in S => made.records[n].kind = "revised"

\* A decomposition has been made, of every requirement.
Divided ==
    \/ step = "linking"
    \/ run.command = "decompose" /\ step \in {"recording", "claiming", "synthesizing", "done"}

Decomposed ==
    /\ run.command # "none" => run.file \in DOMAIN Mandates
    /\ \A id \in DOMAIN made.dispositions : IsOfARequirement(id)
    /\ step = "asking" => PlanRewords
    /\ Divided =>
          /\ DOMAIN made.records = DOMAIN Requirements
          /\ \A n \in DOMAIN Requirements :
                /\ made.records[n].text = Requirements[n].text
                /\ made.records[n].kind \in {"carried", "revised", "derived"}
          /\ RecordsReword
    /\ run.command = "decompose" /\ step \in {"claiming", "synthesizing", "done"} =>
          (Len(ledger) \in DOMAIN ledger => ledger[Len(ledger)].records = made.records)
    /\ run.command = "decompose" /\ step \in {"synthesizing", "done"} => units \in Rulings[run.file]

\* What may be a rewording of what stands for no more than what is reworded.
LEMMA RemovedAre ==
    ASSUME NEW registry, IsList(registry), NEW entry, IsList(entry.records), NEW tool,
           NEW alignment \in Alignments(registry, entry, tool)
    PROVE  /\ DOMAIN alignment \subseteq Registered(registry) \ TextsOf(entry)
           /\ Cardinality(TextsOf(entry) \ Registered(registry))
                 <= Cardinality({record.text : record \in ToSet(Removed(registry, entry, alignment))})
                       + Cardinality(DOMAIN alignment)
<1> DEFINE old == TextsOf(entry) \ Registered(registry)
           new == Registered(registry) \ TextsOf(entry)
           S == DOMAIN alignment
           taken == {alignment[x] : x \in S}
           gone == {record.text : record \in ToSet(Removed(registry, entry, alignment))}
<1>1. S \subseteq new
  <2>1. CASE entry.logic # tool.logic
    BY <2>1 DEF Alignments
  <2>2. CASE entry.logic = tool.logic
    <3>1. \E T \in SUBSET new : alignment \in Injection(T, old)
      BY <2>2 DEF Alignments
    <3>. QED
      BY <3>1 DEF Injection
  <2>. QED
    BY <2>1, <2>2
<1>2. gone = old \ taken
  <2>1. ToSet(Removed(registry, entry, alignment)) =
           {record \in ToSet(entry.records) : record.text \notin Registered(registry) \cup Range(alignment)}
    BY OnlyHas DEF Removed, Where
  <2>2. Range(alignment) = taken
    BY DEF Range
  <2>3. TextsOf(entry) = {record.text : record \in ToSet(entry.records)}
    BY DEF TextsOf, ToSet
  <2> HIDE DEF taken
  <2>. QED
    BY <2>1, <2>2, <2>3
<1>3. IsFiniteSet(Registered(registry)) /\ IsFiniteSet(TextsOf(entry))
  <2> DEFINE text == [r \in ToSet(registry) |-> r.text]
             text2 == [r \in ToSet(entry.records) |-> r.text]
             R == ToSet(registry)
             Q == ToSet(entry.records)
  <2>1. Registered(registry) = {text[r] : r \in R} /\ TextsOf(entry) = {text2[r] : r \in Q}
    BY DEF Registered, TextsOf, ToSet
  <2>2. IsFiniteSet(R) /\ IsFiniteSet(Q)
    BY ListsAreFinite
  <2> HIDE DEF text, text2, R, Q
  <2>. QED
    BY <2>1, <2>2, ImagesAreFinite
<1> HIDE DEF gone, old, new
<1>4. IsFiniteSet(S)
  <2>1. S \subseteq Registered(registry)
    BY <1>1 DEF new
  <2>. QED
    BY <1>3, <2>1, FS_Subset
<1>5. IsFiniteSet(taken) /\ Cardinality(taken) <= Cardinality(S)
  <2> DEFINE f == [x \in S |-> alignment[x]]
  <2>1. f = [x \in S |-> f[x]] /\ taken = {f[x] : x \in S}
    OBVIOUS
  <2> HIDE DEF f, taken, S
  <2>. QED
    BY <1>4, <2>1, Imaged
<1>6. IsFiniteSet(old)
  BY <1>3, FS_Subset DEF old
<1> HIDE DEF taken, S
<1>7. IsFiniteSet(gone)
  BY <1>2, <1>6, FS_Subset
<1>8. /\ IsFiniteSet(gone \cup taken)
      /\ Cardinality(gone \cup taken) = Cardinality(gone) + Cardinality(taken) - Cardinality(gone \cap taken)
  BY <1>5, <1>7, FS_Union
<1>9. gone \cap taken = {} /\ old \subseteq gone \cup taken
  BY <1>2
<1>10. Cardinality(gone \cap taken) = 0
  BY <1>9, FS_EmptySet
<1>11. Cardinality(old) <= Cardinality(gone \cup taken)
  BY <1>8, <1>9, FS_Subset
<1>12. /\ Cardinality(old) \in Nat /\ Cardinality(gone) \in Nat /\ Cardinality(taken) \in Nat
       /\ Cardinality(S) \in Nat
  BY <1>4, <1>5, <1>6, <1>7, FS_CardinalityType
<1>13. Cardinality(old) <= Cardinality(gone) + Cardinality(S)
  BY <1>5, <1>8, <1>10, <1>11, <1>12
<1>. QED
  BY <1>1, <1>13 DEF gone, old, new, S

\* So it is of what is planned.
LEMMA PlanStands ==
    ASSUME RunShape, ReadShape, PlanCarry
    PROVE  PlanRewords'
<1>1. UNCHANGED <<run, ledger>> /\ Requirements' = Requirements
  BY DEF PlanCarry, Requirements
<1>2. CASE ~Readable(run.from)
  <2>1. {} \in SUBSET Registered(Requirements)
    OBVIOUS
  <2>2. Rewords({}, plan.removed)'
    BY <1>1, <1>2 DEF Rewords, Readable
  <2>. QED
    BY <1>1, <2>1, <2>2 DEF PlanRewords
<1>3. CASE Readable(run.from)
  <2> DEFINE entry == Entry(run.from)
             carried == Carried(Requirements, entry, run.tool)
  <2>1. PICK alignment \in Alignments(Requirements, entry, run.tool) :
           plan' = [carried |-> carried, revised |-> Revised(Requirements, entry, alignment),
                    removed |-> Removed(Requirements, entry, alignment)]
    BY <1>3 DEF PlanCarry
  <2>2. IsList(entry.records)
    BY <1>3 DEF ReadShape, IsOnRecord, Readable, Entry
  <2>3. /\ IsList(Requirements)
        /\ \A r, q \in ToSet(Requirements) : RequirementId(r) = RequirementId(q) => r = q
    BY RequirementsAreNumbered
  <2> DEFINE S == DOMAIN alignment
  <2>4. /\ S \subseteq Registered(Requirements) \ TextsOf(entry)
        /\ Cardinality(TextsOf(entry) \ Registered(Requirements))
              <= Cardinality({record.text : record \in ToSet(Removed(Requirements, entry, alignment))})
                    + Cardinality(S)
    BY <2>2, <2>3, RemovedAre
  <2>5. Rewords(S, plan.removed)'
    <3>1. Entry(run.from)' = entry /\ Registered(Requirements)' = Registered(Requirements)
      BY <1>1 DEF Entry, Registered
    <3>2. plan'.removed = Removed(Requirements, entry, alignment)
      BY <2>1
    <3>3. TextsOf(Entry(run.from))' = TextsOf(entry)
      BY <1>1 DEF Entry, TextsOf
    <3> HIDE DEF entry
    <3>. QED
      BY <2>4, <3>1, <3>2, <3>3 DEF Rewords
  <2>6. ASSUME NEW r \in ToSet(Requirements), r.text \in S
        PROVE  RequirementId(r) \in DOMAIN plan'.revised \ DOMAIN plan'.carried
    <3>1. RequirementId(r) \in DOMAIN plan'.revised
      BY <2>1, <2>6 DEF Revised
    <3>2. \A id \in DOMAIN plan'.carried :
             \E q \in ToSet(Requirements) : RequirementId(q) = id /\ q.text \in TextsOf(entry)
      BY <2>1 DEF Carried
    <3>3. r.text \notin TextsOf(entry)
      BY <2>4, <2>6
    <3>. QED
      BY <2>3, <3>1, <3>2, <3>3
  <2>. QED
    BY <1>1, <2>4, <2>5, <2>6 DEF PlanRewords, Registered
<1>. QED
  BY <1>2, <1>3

\* And of what is put together.
LEMMA ReconciledReword ==
    ASSUME RunShape, Deciding, Decomposed, Reconcile
    PROVE  /\ \A id \in DOMAIN made'.dispositions : IsOfARequirement(id)
           /\ Divided' =>
                 /\ DOMAIN made'.records = DOMAIN Requirements
                 /\ \A n \in DOMAIN Requirements :
                       /\ made'.records[n].text = Requirements[n].text
                       /\ made'.records[n].kind \in {"carried", "revised", "derived"}
                 /\ RecordsReword'
<1>1. UNCHANGED <<run, ledger>> /\ Requirements' = Requirements /\ PlanRewords
  BY DEF Reconcile, Requirements, Decomposed
<1>2. CASE made' = made /\ step' \in Outcomes
  <2>1. step' \in {"model_error", "crashed"} \/ step' = "linking"
    BY FaultsAreOutcomes DEF Reconcile
  <2>2. ~Divided'
    BY <1>2, <2>1 DEF Divided, Outcomes
  <2>. QED
    BY <1>2, <2>2 DEF Decomposed
<1>3. CASE made' = [obligations |-> ReconciledOs, questions |-> ReconciledQs,
                    dispositions |-> settled,
                    records |-> Records(Requirements, ReconciledOs, ReconciledQs),
                    removed |-> plan.removed]
  <2> DEFINE records == Records(Requirements, ReconciledOs, ReconciledQs)
  <2>1. made'.records = records /\ made'.dispositions = settled /\ made'.removed = plan.removed
    BY <1>3
  <2>2. /\ DOMAIN records = DOMAIN Requirements
        /\ \A n \in DOMAIN Requirements :
              /\ records[n].text = Requirements[n].text
              /\ records[n].kind = Kind(RequirementId(Requirements[n]))
    BY DEF Records
  <2> HIDE DEF records
  <2>3. \A id : Kind(id) \in {"carried", "revised", "derived"}
    BY DEF Kind
  <2>4. \A id \in DOMAIN plan.revised \ DOMAIN plan.carried : Kind(id) = "revised"
    BY DEF Kind
  <2>5. RecordsReword'
    <3>1. PICK S \in SUBSET Registered(Requirements) :
             /\ Rewords(S, plan.removed)
             /\ \A r \in ToSet(Requirements) :
                   r.text \in S => RequirementId(r) \in DOMAIN plan.revised \ DOMAIN plan.carried
      BY <1>1 DEF PlanRewords
    <3>2. Rewords(S, made.removed)'
      <4>1. /\ Readable(run.from)' = Readable(run.from) /\ Entry(run.from)' = Entry(run.from)
            /\ Registered(Requirements)' = Registered(Requirements)
        BY <1>1 DEF Readable, Entry, Registered
      <4>2. TextsOf(Entry(run.from))' = TextsOf(Entry(run.from))
        BY <4>1 DEF TextsOf
      <4>. QED
        BY <1>1, <2>1, <3>1, <4>1, <4>2 DEF Rewords
    <3>3. \A n \in DOMAIN Requirements :
             Requirements[n].text \in S => made'.records[n].kind = "revised"
      BY <2>1, <2>2, <2>4, <3>1 DEF ToSet
    <3>4. S \in SUBSET Registered(Requirements)'
      BY <1>1, <3>1 DEF Registered
    <3>. QED
      BY <1>1, <3>2, <3>3, <3>4 DEF RecordsReword
  <2>. QED
    BY <2>1, <2>2, <2>3, <2>5 DEF Deciding
<1>. QED
  BY <1>2, <1>3, Reconciling

\* What the earlier runs have on record is what it was, and so is what is asked of
\* the run.
LEMMA EarlierStays ==
    ASSUME UNCHANGED run, DOMAIN ledger' = DOMAIN ledger, Len(ledger') = Len(ledger),
           \A n \in DOMAIN ledger : n # Len(ledger) => ledger'[n] = ledger[n]
    PROVE  /\ Requirements' = Requirements
           /\ \A S, removed : Rewords(S, removed) =>
                 (Readable(run.from)' /\ run'.from # Len(ledger') =>
                    Cardinality(TextsOf(Entry(run.from)') \ Registered(Requirements)')
                       <= Cardinality({record.text : record \in ToSet(removed)}) + Cardinality(S))
<1>1. Requirements' = Requirements
  BY DEF Requirements
<1>2. Registered(Requirements)' = Registered(Requirements)
  BY <1>1 DEF Registered
<1>3. ASSUME Readable(run.from)', run'.from # Len(ledger')
      PROVE  Readable(run.from) /\ run.from # Len(ledger) /\ Entry(run.from)' = Entry(run.from)
  BY <1>3 DEF Readable, Entry
<1> SUFFICES ASSUME NEW S, NEW removed, Rewords(S, removed),
                    Readable(run.from)', run'.from # Len(ledger')
             PROVE  Cardinality(TextsOf(Entry(run.from)') \ Registered(Requirements)')
                       <= Cardinality({record.text : record \in ToSet(removed)}) + Cardinality(S)
  BY <1>1
<1>. QED
  BY <1>2, <1>3 DEF Rewords

\* What the records reword goes by the records and what was written before.
LEMMA RewordingStands ==
    ASSUME RecordsReword, UNCHANGED run, made'.records = made.records, made'.removed = made.removed,
           DOMAIN ledger' = DOMAIN ledger, Len(ledger') = Len(ledger),
           \A n \in DOMAIN ledger : n # Len(ledger) => ledger'[n] = ledger[n]
    PROVE  RecordsReword'
<1>1. PICK S \in SUBSET Registered(Requirements) :
         /\ Rewords(S, made.removed)
         /\ \A n \in DOMAIN Requirements :
               Requirements[n].text \in S => made.records[n].kind = "revised"
  BY DEF RecordsReword
<1>2. Requirements' = Requirements /\ Registered(Requirements)' = Registered(Requirements)
  BY EarlierStays DEF Registered
<1>3. Rewords(S, made.removed)'
  <2>1. TextsOf(Entry(run.from))' = TextsOf(Entry(run.from)')
    BY DEF TextsOf
  <2>. QED
    BY <1>1, <2>1, EarlierStays DEF Rewords
<1>. QED
  BY <1>1, <1>2, <1>3 DEF RecordsReword

\* What the plan rewords goes by the plan.
LEMMA PlanStays ==
    ASSUME PlanRewords, UNCHANGED <<run, plan, ledger>>
    PROVE  PlanRewords'
<1>1. PICK S \in SUBSET Registered(Requirements) :
         /\ Rewords(S, plan.removed)
         /\ \A r \in ToSet(Requirements) :
               r.text \in S => RequirementId(r) \in DOMAIN plan.revised \ DOMAIN plan.carried
  BY DEF PlanRewords
<1>2. Requirements' = Requirements /\ Registered(Requirements)' = Registered(Requirements)
  BY EarlierStays DEF Registered
<1>3. Rewords(S, plan.removed)'
  <2>1. TextsOf(Entry(run.from))' = TextsOf(Entry(run.from)')
    BY DEF TextsOf
  <2>. QED
    BY <1>1, <2>1, EarlierStays DEF Rewords
<1>. QED
  BY <1>1, <1>2, <1>3 DEF PlanRewords

\* Where linking leaves it.
LEMMA LinkedStands ==
    ASSUME ReadShape, Decomposed, Link
    PROVE  /\ UNCHANGED <<run, ledger>>
           /\ made'.records = made.records /\ made'.removed = made.removed
           /\ DOMAIN made'.dispositions = DOMAIN made.dispositions
<1>1. UNCHANGED <<run, ledger>>
  BY DEF Link
<1>2. CASE UNCHANGED <<made, merges>>
  BY <1>1, <1>2
<1>3. ASSUME NEW decisions, Linked(decisions)
      PROVE  /\ made'.records = made.records /\ made'.removed = made.removed
             /\ DOMAIN made'.dispositions = DOMAIN made.dispositions
  BY <1>3, LinkedHas DEF Relinked
<1>. QED
  BY <1>1, <1>2, <1>3, LinkingDecides

\* A command begins, or ends before its time, with nothing.
LEMMA NothingDecomposed ==
    ASSUME Inv, NothingRead,
           \/ StartDecompose \/ StartCheck
           \/ run' = NoRun /\ step' \in {"model_error", "killed"}
    PROVE  Decomposed'
<1>1. made' = Nothing /\ DOMAIN made'.dispositions = {}
  BY DEF NothingRead, Nothing
<1>2. /\ run'.command # "none" => run'.file \in DOMAIN Mandates
      /\ run'.command = "decompose" => step' = "planning"
      /\ step' \notin {"asking", "linking"}
  <2>1. CASE StartDecompose
    <3>1. run' = Head(commands) /\ step' = "planning" /\ commands # <<>>
      BY <2>1 DEF StartDecompose, Begin
    <3>2. IsCommand(Head(commands))
      BY <3>1 DEF Inv, CommandsShape, IsList, ToSet
    <3>. QED
      BY <3>1, <3>2 DEF IsCommand
  <2>2. CASE StartCheck
    <3>1. run' = Head(commands) /\ commands # <<>> /\ run'.command = "check"
          /\ step' \in {"refused", "crashed", "claiming"}
      BY <2>2 DEF StartCheck, Begin, Admission
    <3>2. IsCommand(Head(commands))
      BY <3>1 DEF Inv, CommandsShape, IsList, ToSet
    <3>. QED
      BY <3>1, <3>2 DEF IsCommand
  <2>3. CASE run' = NoRun /\ step' \in {"model_error", "killed"}
    BY <2>3 DEF NoRun
  <2>. QED
    BY <2>1, <2>2, <2>3
<1>. QED
  BY <1>1, <1>2 DEF Decomposed, Divided

\* The run has its task file, and what it has is of that file.
OfTheFile ==
    /\ run.command # "none" => run.file \in DOMAIN Mandates
    /\ \A id \in DOMAIN made.dispositions : IsOfARequirement(id)

\* What is of the file goes by the dispositions.
LEMMA FileStands ==
    ASSUME OfTheFile, UNCHANGED run, DOMAIN made'.dispositions = DOMAIN made.dispositions
    PROVE  OfTheFile'
<1>1. Requirements' = Requirements
  BY DEF Requirements
<1>. QED
  BY <1>1 DEF OfTheFile, IsOfARequirement

\* While the requirements are asked about, the plan stands.
LEMMA AskingDecomposed ==
    ASSUME Decomposed, AskAbout \/ DecideSpans \/ AskSpan \/ SummaryDone
    PROVE  Decomposed'
<1>1. /\ UNCHANGED <<run, plan, ledger, made>> /\ step = "asking"
      /\ step' \in {"asking", "model_error", "crashed"}
  BY DEF AskAbout, DecideSpans, AskSpan, SummaryDone
<1>2. PlanRewords'
  BY <1>1, PlanStays DEF Decomposed
<1>3. OfTheFile'
  BY <1>1, FileStands DEF Decomposed, OfTheFile
<1>. QED
  BY <1>1, <1>2, <1>3 DEF Decomposed, Divided, OfTheFile

\* The file is decomposed by what was planned, answered and linked.
LEMMA PutDecomposed ==
    ASSUME RunShape, ReadShape, Deciding, Decomposed, PlanCarry \/ Reconcile \/ Link
    PROVE  Decomposed'
<1>1. CASE PlanCarry
  <2>1. UNCHANGED <<run, ledger, made>> /\ step' = "asking" /\ PlanRewords'
    BY <1>1, PlanStands DEF PlanCarry
  <2>2. OfTheFile'
    BY <2>1, FileStands DEF Decomposed, OfTheFile
  <2>. QED
    BY <2>1, <2>2 DEF Decomposed, Divided, OfTheFile
<1>2. CASE Reconcile
  <2>1. /\ UNCHANGED run
        /\ step' \in {"linking", "model_error", "crashed"}
    <3>1. FirstFault(Requirements) # "none" => FirstFault(Requirements) \in {"model_error", "crashed"}
      BY <1>2, FaultsAreOutcomes DEF Reconcile
    <3>. QED
      BY <1>2, <3>1 DEF Reconcile
  <2>2. Requirements' = Requirements
    BY <2>1 DEF Requirements
  <2>. QED
    BY <1>2, <2>1, <2>2, ReconciledReword DEF Decomposed, IsOfARequirement
<1>3. CASE Link
  <2>1. /\ UNCHANGED <<run, ledger>> /\ step = "linking" /\ step' \in {"resolving", "recording"}
        /\ run.command = "check" => step' = "resolving"
        /\ made'.records = made.records /\ made'.removed = made.removed
        /\ DOMAIN made'.dispositions = DOMAIN made.dispositions
    BY <1>3, LinkedStands DEF Link
  <2>2. OfTheFile'
    BY <2>1, FileStands DEF Decomposed, OfTheFile
  <2>3. Divided
    BY <2>1 DEF Divided
  <2>4. RecordsReword'
    BY <2>1, <2>3, RewordingStands DEF Decomposed
  <2>5. Requirements' = Requirements
    BY <2>1 DEF Requirements
  <2>. QED
    BY <2>1, <2>2, <2>3, <2>4, <2>5 DEF Decomposed, Divided, OfTheFile
<1>. QED
  BY <1>1, <1>2, <1>3

\* It stays so while the entry is written and the claims are read,
LEMMA LaterDecomposed ==
    ASSUME Inv, Decomposed, Record \/ BuildClaims \/ Synthesize
    PROVE  Decomposed'
<1>1. /\ UNCHANGED <<run, made>>
      /\ step' \in {"claiming", "synthesizing", "planning", "done"}
      /\ run.command = "decompose" => step \in {"recording", "claiming", "synthesizing"}
  BY DEF Record, WriteLedger, readingVars, BuildClaims, Synthesize
<1>2. Requirements' = Requirements /\ OfTheFile'
  BY <1>1, FileStands DEF Decomposed, OfTheFile, Requirements
<1>3. PICK E : ledger \in Seq(E)
  BY DEF Inv, LedgerShape
<1>4. /\ DOMAIN ledger' = DOMAIN ledger /\ Len(ledger') = Len(ledger)
      /\ \A n \in DOMAIN ledger : n # Len(ledger) => ledger'[n] = ledger[n]
      /\ Record => (Len(ledger) \in DOMAIN ledger => ledger'[Len(ledger)].records = made.records)
      /\ ~Record => UNCHANGED ledger
  <2>1. CASE Record
    <3>1. ledger' = [ledger EXCEPT ![Len(ledger)] = LedgerEntry(<<>>)]
      BY <2>1 DEF Record, WriteLedger
    <3> DEFINE entry == LedgerEntry(<<>>)
    <3>2. entry.records = made.records
      BY DEF LedgerEntry
    <3> HIDE DEF entry
    <3>3. /\ Len(ledger) \in Nat /\ DOMAIN ledger = 1..Len(ledger)
          /\ ledger = [n \in 1..Len(ledger) |-> ledger[n]]
          /\ \A n \in 1..Len(ledger) : ledger[n] \in E
      BY <1>3
    <3>4. ledger' = [n \in 1..Len(ledger) |-> IF n = Len(ledger) THEN entry ELSE ledger[n]]
      BY <3>1, <3>3 DEF entry
    <3>5. ledger' \in Seq(E \cup {entry})
      BY <3>3, <3>4
    <3>6. DOMAIN ledger' = 1..Len(ledger) /\ DOMAIN ledger' = 1..Len(ledger') /\ Len(ledger') \in Nat
      BY <3>4, <3>5
    <3>7. Len(ledger') = Len(ledger)
      BY <3>3, <3>6
    <3>. QED
      BY <2>1, <3>2, <3>3, <3>4, <3>7
  <2>2. CASE ~Record
    BY <2>2 DEF BuildClaims, Synthesize
  <2>. QED
    BY <2>1, <2>2
<1>5. Divided' => run.command = "decompose" /\ Divided
  BY <1>1 DEF Divided
<1>6. Divided' => RecordsReword'
  BY <1>1, <1>4, <1>5, RewordingStands DEF Decomposed
<1>7. run'.command = "decompose" /\ step' \in {"claiming", "synthesizing", "done"} =>
         (Len(ledger') \in DOMAIN ledger' => ledger'[Len(ledger')].records = made'.records)
  <2>1. ~Record => step \in {"claiming", "synthesizing"}
    BY DEF BuildClaims, Synthesize
  <2>. QED
    BY <1>1, <1>4, <2>1 DEF Decomposed
<1>8. run'.command = "decompose" /\ step' \in {"synthesizing", "done"} => units' \in Rulings[run'.file]
  <2>1. CASE Record
    BY <2>1 DEF Record, WriteLedger
  <2>2. CASE BuildClaims
    BY <2>2 DEF BuildClaims
  <2>3. CASE Synthesize
    BY <2>3 DEF Synthesize, Decomposed
  <2>. QED
    BY <2>1, <2>2, <2>3
<1>. QED
  BY <1>1, <1>2, <1>5, <1>6, <1>7, <1>8 DEF Decomposed, OfTheFile

\* while a check judges,
LEMMA JudgingDecomposed ==
    ASSUME LeftShape, Decomposed, Judging
    PROVE  Decomposed'
<1>1. UNCHANGED <<run, made>>
  BY DEF Judging, ResolveQuestions, EnumerateDefects, JudgeDefects, ClassifyCoverage,
         DetectUnrequested, PrescribeTests, StoreReview, RecordCheck, WriteLedger, readingVars
<1>2. run.command = "check"
  BY DEF LeftShape, JudgingSteps, Judging, ResolveQuestions, EnumerateDefects, JudgeDefects,
         ClassifyCoverage, DetectUnrequested, PrescribeTests, StoreReview, RecordCheck
<1>3. step' \notin {"asking", "linking"}
  BY DEF Judging, ResolveQuestions, EnumerateDefects, JudgeDefects, ClassifyCoverage,
         DetectUnrequested, PrescribeTests, StoreReview, RecordCheck, WriteLedger
<1>4. OfTheFile'
  BY <1>1, FileStands DEF Decomposed, OfTheFile
<1>. QED
  BY <1>1, <1>2, <1>3, <1>4 DEF Decomposed, Divided, OfTheFile

\* and where nothing happens.
LEMMA SameDecomposed ==
    ASSUME Decomposed, UNCHANGED vars
    PROVE  Decomposed'
<1>1. UNCHANGED <<run, ledger, step, plan, made, units>>
  BY DEF vars, decomposeVars, readingVars
<1>2. OfTheFile' /\ Requirements' = Requirements
  BY <1>1, FileStands DEF Decomposed, OfTheFile, Requirements
<1>3. PlanRewords => PlanRewords'
  BY <1>1, PlanStays
<1>4. RecordsReword => RecordsReword'
  BY <1>1, RewordingStands
<1>. QED
  BY <1>1, <1>2, <1>3, <1>4 DEF Decomposed, Divided, OfTheFile

\* What is decomposed is so after any step.
LEMMA DecomposedStep ==
    ASSUME Inv, LeftShape, ReadShape, Deciding, Decomposed, [Next]_vars
    PROVE  Decomposed'
<1>1. CASE StartDecompose \/ StartCheck \/ CallFails \/ Kill
  BY <1>1, NothingDecomposed DEF StartDecompose, StartCheck, Begin, CallFails, Kill, Forget
<1>2. CASE ReadingStep
  BY <1>2, AskingDecomposed, PutDecomposed, LaterDecomposed DEF ReadingStep, Inv
<1>3. CASE Judging
  BY <1>3, JudgingDecomposed
<1>4. CASE Finished \/ UNCHANGED vars
  BY <1>4, SameDecomposed DEF Finished
<1>. QED
  BY <1>1, <1>2, <1>3, <1>4 DEF Next

\* A decomposition is of every requirement, and says of each how it came to be.
THEOREM DecomposedHolds == Spec => []Decomposed
<1>1. Init => Decomposed
  <2> SUFFICES ASSUME Init PROVE Decomposed
    OBVIOUS
  <2>1. run = NoRun /\ made = Nothing /\ step = "idle"
    BY DEF Init, InitDecompose
  <2>. QED
    BY <2>1 DEF Decomposed, Divided, NoRun, Nothing
<1>2. Inv /\ LeftShape /\ ReadShape /\ Deciding /\ Decomposed /\ [Next]_vars => Decomposed'
  BY DecomposedStep
<1>. QED
  BY <1>1, <1>2, InvHolds, LeftShapeHolds, ReadShapeHolds, DecidingHolds, PTL DEF Spec

\* What is gone is a list.
Gone == IsList(plan.removed) /\ IsList(made.removed)

\* It always holds.
LEMMA GoneHolds == Spec => []Gone
<1>1. Init => Gone
  BY Emptied DEF Init, InitDecompose, Gone, NoPlan, Nothing
<1>2. ReadShape /\ Gone /\ [Next]_vars => Gone'
  <2> SUFFICES ASSUME ReadShape, Gone, [Next]_vars PROVE Gone'
    OBVIOUS
  <2>1. CASE PlanCarry
    <3>1. CASE ~Readable(run.from)
      BY <2>1, <3>1, Emptied DEF PlanCarry, NoPlan, Gone
    <3>2. CASE Readable(run.from)
      <4>1. \E alignment : plan'.removed = Removed(Requirements, Entry(run.from), alignment)
        BY <2>1, <3>2 DEF PlanCarry
      <4>2. IsList(Entry(run.from).records)
        BY <3>2 DEF Entry, Readable, ReadShape, IsOnRecord
      <4>3. IsList(plan'.removed)
        BY <4>1, <4>2, OnlyHas DEF Removed, Where
      <4>. QED
        BY <2>1, <4>3 DEF PlanCarry, Gone
    <3>. QED
      BY <3>1, <3>2
  <2>2. CASE Reconcile
    <3>1. plan' = NoPlan
      BY <2>2 DEF Reconcile
    <3>2. made'.removed = made.removed \/ made'.removed = plan.removed
      BY <2>2 DEF Reconcile
    <3>. QED
      BY <3>1, <3>2, Emptied DEF Gone, NoPlan
  <2>3. CASE Link
    <3>1. made'.removed = made.removed
      BY <2>3, LinkingDecides, LinkedHas
    <3>. QED
      BY <2>3, <3>1 DEF Gone, Link
  <2>4. CASE NothingRead
    BY <2>4, Emptied DEF NothingRead, Gone, NoPlan, Nothing
  <2>5. CASE AskAbout \/ DecideSpans \/ AskSpan \/ UNCHANGED readVars
    BY <2>5 DEF AskAbout, DecideSpans, AskSpan, readVars, Gone
  <2>. QED
    BY <2>1, <2>2, <2>3, <2>4, <2>5, ReadingChanges
<1>. QED
  BY <1>1, <1>2, InvHolds, ReadShapeHolds, PTL DEF Spec

\* What is listed by kind.
KindAt(seq, kind) == {n \in DOMAIN seq : seq[n].kind = kind}

\* As many are listed of a kind as are of that kind.
LEMMA KindIsCounted ==
    ASSUME NEW seq, IsList(seq), NEW kind
    PROVE  Len(Where(seq, LAMBDA record : record.kind = kind)) = Cardinality(KindAt(seq, kind))
<1> DEFINE S == {x \in ToSet(seq) : x.kind = kind}
<1>1. Where(seq, LAMBDA record : record.kind = kind) = Only(seq, S)
  BY Zenon DEF Where
<1>2. {n \in DOMAIN seq : seq[n] \in S} = KindAt(seq, kind)
  BY DEF ToSet, KindAt
<1> HIDE DEF S
<1>. QED
  BY <1>1, <1>2, OnlyCounts

\* Every requirement was carried, was worded anew, or is new: none is two of them.
LEMMA KindsAddUp ==
    ASSUME IsList(made.records),
           \A n \in DOMAIN made.records : made.records[n].kind \in {"carried", "revised", "derived"}
    PROVE  /\ ReportRun(made).carried + ReportRun(made).revised + ReportRun(made).derived
                 = Len(made.records)
           /\ ReportRun(made).revised = Cardinality(KindAt(made.records, "revised"))
           /\ ReportRun(made).removed = {record.text : record \in ToSet(made.removed)}
<1> DEFINE seq == made.records
           D == DOMAIN seq
           A == KindAt(seq, "carried")
           B == KindAt(seq, "revised")
           C == KindAt(seq, "derived")
<1>1. /\ ReportRun(made).carried = Cardinality(A)
      /\ ReportRun(made).revised = Cardinality(B)
      /\ ReportRun(made).derived = Cardinality(C)
      /\ ReportRun(made).removed = {record.text : record \in ToSet(made.removed)}
  BY KindIsCounted DEF ReportRun
<1>2. D = 1..Len(seq) /\ Len(seq) \in Nat
  BY Listed DEF IsList
<1>3. A \cup B \cup C = D /\ A \cap B = {} /\ (A \cup B) \cap C = {}
  BY DEF KindAt
<1>4. IsFiniteSet(D) /\ Cardinality(D) = Len(seq)
  <2>1. \A n \in Nat : IsFiniteSet(1..n) /\ Cardinality(1..n) = n
    <3>. TAKE n \in Nat
    <3>1. /\ IsFiniteSet(1..n)
          /\ Cardinality(1..n) = IF 1 > n THEN 0 ELSE n - 1 + 1
      BY FS_Interval
    <3>. QED
      BY <3>1
  <2>. QED
    BY <1>2, <2>1
<1> HIDE DEF D, A, B, C
<1>5. IsFiniteSet(A) /\ IsFiniteSet(B) /\ IsFiniteSet(C) /\ IsFiniteSet(A \cup B)
  <2>1. A \subseteq D /\ B \subseteq D /\ C \subseteq D /\ A \cup B \subseteq D
    BY <1>3
  <2>. QED
    BY <1>4, <2>1, FS_Subset
<1>6. /\ Cardinality(A \cup B) = Cardinality(A) + Cardinality(B) - Cardinality(A \cap B)
      /\ Cardinality((A \cup B) \cup C)
            = Cardinality(A \cup B) + Cardinality(C) - Cardinality((A \cup B) \cap C)
  BY <1>5, FS_Union
<1>7. Cardinality(A \cap B) = 0 /\ Cardinality((A \cup B) \cap C) = 0
  BY <1>3, FS_EmptySet
<1>8. Cardinality(A) \in Nat /\ Cardinality(B) \in Nat /\ Cardinality(C) \in Nat
  BY <1>5, FS_CardinalityType
<1>9. Cardinality(A) + Cardinality(B) + Cardinality(C) = Len(seq)
  <2>1. Cardinality((A \cup B) \cup C) = Len(seq)
    BY <1>3, <1>4, Zenon
  <2>2. Cardinality(A \cup B) = Cardinality(A) + Cardinality(B)
    BY <1>6, <1>7, <1>8
  <2>3. Cardinality((A \cup B) \cup C) = Cardinality(A) + Cardinality(B) + Cardinality(C)
    BY <1>6, <1>7, <1>8, <2>2
  <2>. QED
    BY <2>1, <2>3
<1>10. /\ ReportRun(made).carried + ReportRun(made).revised + ReportRun(made).derived = Len(made.records)
       /\ ReportRun(made).revised = Cardinality(KindAt(made.records, "revised"))
  BY <1>1, <1>9 DEF B
<1>. QED
  BY <1>1, <1>10

\* What the continued run had on a requirement that is gone is here in other words
\* or is said to be gone.
LEMMA NothingIsLost ==
    ASSUME RecordsReword, IsList(Requirements), IsList(made.records), IsList(made.removed),
           \A n \in DOMAIN ledger : IsList(ledger[n].records),
           DOMAIN made.records = DOMAIN Requirements,
           \A n \in DOMAIN Requirements : made.records[n].text = Requirements[n].text,
           run.from = Len(ledger) /\ Readable(run.from) =>
              Entry(run.from).records = made.records,
           Readable(run.from)
    PROVE  Cardinality(TextsOf(Entry(run.from)) \ Registered(Requirements))
              <= Cardinality({record.text : record \in ToSet(made.removed)})
                    + Cardinality(KindAt(made.records, "revised"))
<1> DEFINE gone == {record.text : record \in ToSet(made.removed)}
           places == KindAt(made.records, "revised")
           lost == TextsOf(Entry(run.from)) \ Registered(Requirements)
<1>1. PICK S \in SUBSET Registered(Requirements) :
         /\ Rewords(S, made.removed)
         /\ \A n \in DOMAIN Requirements :
               Requirements[n].text \in S => made.records[n].kind = "revised"
  BY DEF RecordsReword
<1>2. IsFiniteSet(places)
  <2>1. DOMAIN made.records = 1..Len(made.records) /\ Len(made.records) \in Nat
    BY Listed DEF IsList
  <2>2. \A n \in Nat : IsFiniteSet(1..n)
    BY FS_Interval
  <2>3. places \subseteq 1..Len(made.records)
    BY <2>1 DEF KindAt
  <2>. QED
    BY <2>1, <2>2, <2>3, FS_Subset
<1>3. Cardinality(S) <= Cardinality(places) /\ IsFiniteSet(S)
  <2> DEFINE f == [n \in places |-> made.records[n].text]
             T == {f[n] : n \in places}
  <2>1. S \subseteq T
    <3>1. SUFFICES ASSUME NEW text \in S PROVE \E n \in places : f[n] = text
      BY DEF T
    <3>2. PICK n \in DOMAIN Requirements : Requirements[n].text = text
      BY <3>1 DEF Registered, ToSet
    <3>3. n \in places /\ f[n] = text
      BY <1>1, <3>2 DEF KindAt
    <3>. QED
      BY <3>3
  <2>2. f = [n \in places |-> f[n]] /\ T = {f[n] : n \in places}
    OBVIOUS
  <2> HIDE DEF f, T, places
  <2>3. IsFiniteSet(T) /\ Cardinality(T) <= Cardinality(places)
    BY <1>2, <2>2, Imaged
  <2>4. IsFiniteSet(S) /\ Cardinality(S) <= Cardinality(T)
    BY <2>1, <2>3, FS_Subset
  <2>5. Cardinality(S) \in Nat /\ Cardinality(T) \in Nat /\ Cardinality(places) \in Nat
    BY <1>2, <2>3, <2>4, FS_CardinalityType
  <2>. QED
    BY <2>3, <2>4, <2>5
<1>4. IsFiniteSet(gone)
  <2> DEFINE text == [r \in ToSet(made.removed) |-> r.text]
             R == ToSet(made.removed)
  <2>1. gone = {text[r] : r \in R}
    OBVIOUS
  <2>2. IsFiniteSet(R)
    BY ListsAreFinite
  <2> HIDE DEF text, R, gone
  <2>. QED
    BY <2>1, <2>2, ImagesAreFinite
<1>5. CASE run.from # Len(ledger)
  <2>1. Cardinality(lost) <= Cardinality(gone) + Cardinality(S)
    BY <1>1, <1>5 DEF Rewords
  <2>2. IsFiniteSet(lost)
    <3> DEFINE entry == ledger[run.from]
               text == [r \in ToSet(entry.records) |-> r.text]
               R == ToSet(entry.records)
    <3>1. TextsOf(Entry(run.from)) = {text[r] : r \in R}
      BY DEF Entry, TextsOf, ToSet
    <3>2. IsFiniteSet(R)
      BY ListsAreFinite DEF Readable
    <3> HIDE DEF text, R
    <3>3. IsFiniteSet(TextsOf(Entry(run.from)))
      BY <3>1, <3>2, ImagesAreFinite
    <3>. QED
      BY <3>3, FS_Subset
  <2> HIDE DEF gone, lost, places
  <2>3. /\ Cardinality(S) \in Nat /\ Cardinality(gone) \in Nat /\ Cardinality(places) \in Nat
        /\ Cardinality(lost) \in Nat
    BY <1>2, <1>3, <1>4, <2>2, FS_CardinalityType
  <2>4. Cardinality(lost) <= Cardinality(gone) + Cardinality(places)
    BY <1>3, <2>1, <2>3
  <2>. QED
    BY <2>4 DEF gone, lost, places
<1>6. CASE run.from = Len(ledger)
  <2>1. lost = {}
    <3>1. Entry(run.from).records = made.records
      BY <1>6
    <3>2. ASSUME NEW text \in TextsOf(Entry(run.from)) PROVE text \in Registered(Requirements)
      <4>1. PICK n \in DOMAIN made.records : text = made.records[n].text
        BY <3>1 DEF TextsOf
      <4>. QED
        BY <4>1 DEF Registered, ToSet
    <3>. QED
      BY <3>2
  <2> HIDE DEF gone, lost, places
  <2>2. Cardinality(lost) = 0
    BY <2>1, FS_EmptySet
  <2>3. Cardinality(gone) \in Nat /\ Cardinality(places) \in Nat
    BY <1>2, <1>4, FS_CardinalityType
  <2>4. Cardinality(lost) <= Cardinality(gone) + Cardinality(places)
    BY <2>2, <2>3
  <2>. QED
    BY <2>4 DEF gone, lost, places
<1>. QED
  BY <1>5, <1>6

\* Every sentence of the mandate is cited, is not, or was set aside.
LEMMA SentencesAddUp ==
    ASSUME NEW name \in DOMAIN Mandates, units \in Rulings[name]
    PROVE  LET claims == SynthesizedBlock(units, synthesized)
           IN  /\ claims.background + Cardinality(ClaimsOf(units)) = Len(Units(Mandates[name]))
               /\ ClaimsOf(units) = claims.uncited \cup UNION {o.claims : o \in ToSet(claims.obligations)}
<1> DEFINE claims == SynthesizedBlock(units, synthesized)
           D == DOMAIN units
           C == ClaimsOf(units)
           L == Len(Units(Mandates[name]))
<1>1. claims.background = Cardinality(D \ C)
  BY DEF SynthesizedBlock
<1>2. D = 1..L /\ L \in Nat
  <2>1. IsList(Units(Mandates[name])) /\ D = DOMAIN Units(Mandates[name])
    BY UnitsAreAList, RulingsAssumption
  <2> DEFINE V == ToSet(Units(Mandates[name]))
             seq == Units(Mandates[name])
  <2>2. seq \in Seq(V)
    BY <2>1 DEF IsList
  <2> HIDE DEF V, seq
  <2>3. DOMAIN seq = 1..Len(seq) /\ Len(seq) \in Nat
    BY <2>2
  <2>. QED
    BY <2>1, <2>3 DEF seq
<1>3. C \subseteq D
  BY DEF ClaimsOf
<1>4. C = claims.uncited \cup UNION {o.claims : o \in ToSet(claims.obligations)}
  <2>1. claims.uncited = C \ UNION {o.claims : o \in ToSet(synthesized)}
    BY DEF SynthesizedBlock
  <2>2. /\ DOMAIN claims.obligations = DOMAIN synthesized
        /\ \A n \in DOMAIN synthesized : claims.obligations[n].claims = synthesized[n].claims \cap C
    BY DEF SynthesizedBlock
  <2> HIDE DEF claims, C
  <2>3. UNION {o.claims : o \in ToSet(claims.obligations)}
           = C \cap UNION {o.claims : o \in ToSet(synthesized)}
    <3>1. ASSUME NEW x, x \in UNION {o.claims : o \in ToSet(claims.obligations)}
          PROVE  x \in C \cap UNION {o.claims : o \in ToSet(synthesized)}
      <4>1. PICK n \in DOMAIN synthesized : x \in claims.obligations[n].claims
        BY <2>2, <3>1 DEF ToSet
      <4>2. synthesized[n] \in ToSet(synthesized)
        BY DEF ToSet
      <4>. QED
        BY <2>2, <4>1, <4>2
    <3>2. ASSUME NEW x \in C, x \in UNION {o.claims : o \in ToSet(synthesized)}
          PROVE  x \in UNION {o.claims : o \in ToSet(claims.obligations)}
      <4>1. PICK n \in DOMAIN synthesized : x \in synthesized[n].claims
        BY <3>2 DEF ToSet
      <4>2. claims.obligations[n] \in ToSet(claims.obligations) /\ x \in claims.obligations[n].claims
        BY <2>2, <4>1 DEF ToSet
      <4>. QED
        BY <4>2
    <3>. QED
      BY <3>1, <3>2
  <2>. QED
    BY <2>1, <2>3
<1> HIDE DEF claims, C, D, L
<1>5. IsFiniteSet(D) /\ Cardinality(D) = L
  <2>1. \A n \in Nat : IsFiniteSet(1..n) /\ Cardinality(1..n) = n
    <3>. TAKE n \in Nat
    <3>1. /\ IsFiniteSet(1..n)
          /\ Cardinality(1..n) = IF 1 > n THEN 0 ELSE n - 1 + 1
      BY FS_Interval
    <3>. QED
      BY <3>1
  <2>. QED
    BY <1>2, <2>1
<1>6. Cardinality(D \ C) + Cardinality(C) = L
  <2>1. IsFiniteSet(C) /\ IsFiniteSet(D \ C)
    BY <1>3, <1>5, FS_Subset
  <2>2. Cardinality(C \cup (D \ C)) = Cardinality(C) + Cardinality(D \ C) - Cardinality(C \cap (D \ C))
    BY <2>1, FS_Union
  <2>3. Cardinality(C \cap (D \ C)) = 0
    <3>1. C \cap (D \ C) = {}
      OBVIOUS
    <3>. QED
      BY <3>1, FS_EmptySet, Zenon
  <2>4. Cardinality(C \cup (D \ C)) = L
    <3>1. C \cup (D \ C) = D
      BY <1>3
    <3>. QED
      BY <1>5, <3>1, Zenon
  <2>5. Cardinality(C) \in Nat /\ Cardinality(D \ C) \in Nat
    BY <2>1, FS_CardinalityType
  <2>. QED
    BY <2>2, <2>3, <2>4, <2>5
<1>. QED
  BY <1>1, <1>4, <1>6, Zenon DEF claims, C, L

\* The block of a requirement: its lines are those of what it is named to yield.
LEMMA BlockIs ==
    ASSUME NEW r, IsAccount(made.dispositions[r])
    PROVE  LET block == RequirementBlock(made, r)
               disposition == made.dispositions[r]
           IN  /\ block.requirement = r /\ block.questions = disposition.questions
               /\ ToSet(block.obligations)
                     = {ObligationLine(made, r, id) : id \in ToSet(disposition.obligations)}
               /\ block.obligations = <<>> <=> disposition.obligations = <<>>
               /\ block.declined <=>
                     disposition.obligations = <<>> /\ disposition.questions = <<>>
<1> DEFINE ids == made.dispositions[r].obligations
           lines == [n \in DOMAIN ids |-> ObligationLine(made, r, ids[n])]
<1>1. /\ RequirementBlock(made, r).requirement = r
      /\ RequirementBlock(made, r).questions = made.dispositions[r].questions
      /\ RequirementBlock(made, r).obligations = lines
      /\ RequirementBlock(made, r).declined <=>
            ids = <<>> /\ made.dispositions[r].questions = <<>>
  BY DEF RequirementBlock
<1>2. IsList(ids)
  BY DEF IsAccount
<1> HIDE DEF ids
<1>3. ToSet(lines) = {ObligationLine(made, r, id) : id \in ToSet(ids)}
  BY DEF ToSet
<1>4. /\ DOMAIN lines = DOMAIN ids /\ lines = [n \in DOMAIN ids |-> lines[n]]
      /\ \A n \in DOMAIN ids : lines[n] \in ToSet(lines)
  BY DEF ToSet
<1> HIDE DEF lines
<1>5. IsList(lines) /\ Len(lines) = Len(ids)
  BY <1>2, <1>4, Mapped
<1>6. lines = <<>> <=> ids = <<>>
  <2>1. \A s : IsList(s) => (s = <<>> <=> Len(s) = 0)
    BY DEF IsList
  <2>. QED
    BY <1>2, <1>5, <2>1
<1>. QED
  BY <1>1, <1>3, <1>6 DEF ids

\* Each requirement has a block, and a block is one's.
LEMMA BlocksAre ==
    ASSUME NEW file, DOMAIN made.dispositions = {RequirementId(r) : r \in ToSet(Registry(file))}
    PROVE  ToSet(RenderMap(file, made).blocks)
              = {RequirementBlock(made, id) : id \in DOMAIN made.dispositions}
<1> DEFINE registry == Registry(file)
           blocks == [n \in DOMAIN registry |-> RequirementBlock(made, RequirementId(registry[n]))]
<1>1. RenderMap(file, made).blocks = blocks
  BY DEF RenderMap
<1> HIDE DEF registry
<1>2. ToSet(blocks) = {RequirementBlock(made, RequirementId(r)) : r \in ToSet(registry)}
  BY DEF ToSet
<1>. QED
  BY <1>1, <1>2 DEF registry

\* What is on the page stands where it belongs.
LEMMA NothingIsLeftOut ==
    ASSUME NEW file, IsMade(made),
           DOMAIN made.dispositions = {RequirementId(r) : r \in ToSet(Registry(file))},
           \A id \in DOMAIN made.dispositions :
              ToSet(made.dispositions[id].obligations)
                 \subseteq IdsOf(made.obligations) \cup IdsOf(made.questions)
    PROVE  LET rest == RenderMap(file, made)
               blocks == ToSet(rest.blocks)
               lines == UNION {ToSet(b.obligations) : b \in blocks}
           IN  /\ IdsOf(made.obligations) =
                     {l.id : l \in {m \in lines : m.found}} \cup IdsOf(rest.orphans)
               /\ IdsOf(made.questions) \subseteq
                     (UNION {ToSet(b.questions) : b \in blocks}) \cup IdsOf(rest.loose)
               /\ \A b \in blocks : \A l \in ToSet(b.obligations) :
                     IF l.found
                     THEN \A r \in l.others :
                             \E c \in blocks : c.requirement = r /\ l.id \in IdsOf(c.obligations)
                     ELSE l.id \in IdsOf(made.questions)
<1> DEFINE rest == RenderMap(file, made)
           blocks == ToSet(rest.blocks)
           lines == UNION {ToSet(b.obligations) : b \in blocks}
           D == DOMAIN made.dispositions
           named(r) == ToSet(made.dispositions[r].obligations)
<1>1. blocks = {RequirementBlock(made, id) : id \in D}
  BY BlocksAre
<1>2. ASSUME NEW r \in D
      PROVE  /\ RequirementBlock(made, r) \in blocks
             /\ RequirementBlock(made, r).requirement = r
             /\ RequirementBlock(made, r).questions = made.dispositions[r].questions
             /\ ToSet(RequirementBlock(made, r).obligations)
                   = {ObligationLine(made, r, id) : id \in named(r)}
  BY <1>1, BlockIs DEF IsMade
<1>3. ASSUME NEW r, NEW id
      PROVE  LET l == ObligationLine(made, r, id)
             IN  /\ l.id = id /\ (l.found <=> id \in IdsOf(made.obligations))
                 /\ l.found => l.others = ServedBy(made.dispositions, id) \ {r}
  BY DEF ObligationLine
<1>4. /\ rest.orphans = OrphanObligations(made) /\ rest.loose = UnraisedQuestions(made)
  BY DEF RenderMap
<1>5. IdsOf(rest.orphans) = {o.id : o \in {x \in ToSet(made.obligations) :
                                              ServedBy(made.dispositions, x.id) = {}}}
  <2> DEFINE S == {x \in ToSet(made.obligations) : ServedBy(made.dispositions, x.id) = {}}
  <2>1. rest.orphans = Only(made.obligations, S)
    BY <1>4, Zenon DEF OrphanObligations, Where
  <2>2. IsList(made.obligations) /\ S \subseteq ToSet(made.obligations)
    BY DEF IsMade, AreObligations
  <2> HIDE DEF S, rest
  <2>3. ToSet(rest.orphans) = S
    <3>1. ToSet(Only(made.obligations, S)) = ToSet(made.obligations) \cap S
      BY <2>2, OnlyHas
    <3>2. ToSet(made.obligations) \cap S = S
      BY <2>2
    <3>. QED
      BY <2>1, <3>1, <3>2, Zenon
  <2>4. IdsOf(rest.orphans) = {x.id : x \in ToSet(rest.orphans)}
    BY IdsAre
  <2>5. IdsOf(rest.orphans) = {x.id : x \in S}
    BY <2>3, <2>4
  <2>. QED
    BY <2>5, Zenon DEF S
<1>6. IdsOf(rest.loose) = {q.id : q \in {x \in ToSet(made.questions) :
            x.id \notin UNION {ToSet(made.dispositions[r].questions) : r \in DOMAIN made.dispositions}}}
  <2> DEFINE claimed == UNION {ToSet(made.dispositions[r].questions) : r \in DOMAIN made.dispositions}
             S == {x \in ToSet(made.questions) : x.id \notin claimed}
  <2>1. rest.loose = Only(made.questions, S)
    BY <1>4, Zenon DEF UnraisedQuestions, Where
  <2>2. IsList(made.questions) /\ S \subseteq ToSet(made.questions)
    BY DEF IsMade
  <2> HIDE DEF S, rest
  <2>3. ToSet(rest.loose) = S
    <3>1. ToSet(Only(made.questions, S)) = ToSet(made.questions) \cap S
      BY <2>2, OnlyHas
    <3>2. ToSet(made.questions) \cap S = S
      BY <2>2
    <3>. QED
      BY <2>1, <3>1, <3>2, Zenon
  <2>4. IdsOf(rest.loose) = {x.id : x \in ToSet(rest.loose)}
    BY IdsAre
  <2>5. IdsOf(rest.loose) = {x.id : x \in S}
    BY <2>3, <2>4
  <2>. QED
    BY <2>5, Zenon DEF S
<1>7. IdsOf(made.obligations) = {o.id : o \in ToSet(made.obligations)}
      /\ IdsOf(made.questions) = {q.id : q \in ToSet(made.questions)}
  BY IdsAre
<1> HIDE DEF rest, blocks, D
<1>8. ASSUME NEW b \in blocks, NEW l \in ToSet(b.obligations)
      PROVE  \E r \in D : \E id \in named(r) :
                /\ b = RequirementBlock(made, r) /\ l = ObligationLine(made, r, id)
  <2>1. PICK r \in D : b = RequirementBlock(made, r)
    BY <1>1
  <2>. QED
    BY <1>2, <2>1
<1>9. ASSUME NEW r \in D, NEW id \in named(r)
      PROVE  ObligationLine(made, r, id) \in lines
  BY <1>2
<1>10. IdsOf(made.obligations) = {l.id : l \in {m \in lines : m.found}} \cup IdsOf(rest.orphans)
  <2>1. ASSUME NEW id \in IdsOf(made.obligations), ServedBy(made.dispositions, id) # {}
        PROVE  id \in {l.id : l \in {m \in lines : m.found}}
    <3>1. PICK r \in D : id \in named(r)
      BY <2>1 DEF ServedBy, D
    <3> DEFINE l == ObligationLine(made, r, id)
    <3>2. l \in lines /\ l.found /\ l.id = id
      BY <1>3, <1>9, <2>1, <3>1
    <3> HIDE DEF l, lines
    <3>. QED
      BY <3>2
  <2>2. ASSUME NEW id \in IdsOf(made.obligations), ServedBy(made.dispositions, id) = {}
        PROVE  id \in IdsOf(rest.orphans)
    BY <1>5, <1>7, <2>2
  <2>3. ASSUME NEW l \in lines, l.found PROVE l.id \in IdsOf(made.obligations)
    <3>1. PICK b \in blocks : l \in ToSet(b.obligations)
      BY <2>3
    <3>. QED
      BY <1>3, <1>8, <2>3, <3>1
  <2>4. IdsOf(rest.orphans) \subseteq IdsOf(made.obligations)
    BY <1>5, <1>7
  <2> HIDE DEF lines
  <2>. QED
    BY <2>1, <2>2, <2>3, <2>4
<1>11. IdsOf(made.questions) \subseteq
          (UNION {ToSet(b.questions) : b \in blocks}) \cup IdsOf(rest.loose)
  <2> SUFFICES ASSUME NEW q \in ToSet(made.questions), q.id \notin IdsOf(rest.loose)
               PROVE  \E b \in blocks : q.id \in ToSet(b.questions)
    BY <1>7
  <2>1. PICK r \in D : q.id \in ToSet(made.dispositions[r].questions)
    BY <1>6 DEF D
  <2>. QED
    BY <1>2, <2>1
<1>12. ASSUME NEW b \in blocks, NEW l \in ToSet(b.obligations)
       PROVE  IF l.found
              THEN \A r \in l.others :
                      \E c \in blocks : c.requirement = r /\ l.id \in IdsOf(c.obligations)
              ELSE l.id \in IdsOf(made.questions)
  <2>1. PICK r \in D : \E id \in named(r) : l = ObligationLine(made, r, id)
    BY <1>8
  <2>4. PICK id \in named(r) : l = ObligationLine(made, r, id)
    BY <2>1
  <2>2. CASE l.found
    <3> SUFFICES ASSUME NEW q \in l.others
                 PROVE  \E c \in blocks : c.requirement = q /\ l.id \in IdsOf(c.obligations)
      BY <2>2
    <3>1. q \in D /\ id \in named(q) /\ l.id = id
      BY <1>3, <2>2, <2>4 DEF ServedBy, D
    <3>2. ObligationLine(made, q, id) \in ToSet(RequirementBlock(made, q).obligations)
      BY <1>2, <3>1
    <3>3. id \in IdsOf(RequirementBlock(made, q).obligations)
      BY <1>3, <3>2, IdsAre
    <3>. QED
      BY <1>2, <3>1, <3>3
  <2>3. CASE ~l.found
    BY <1>3, <2>3, <2>4 DEF D
  <2>. QED
    BY <2>2, <2>3
<1>. QED
  BY <1>10, <1>11, <1>12 DEF rest, blocks

\* As many blocks as requirements they are of.
LEMMA BlocksCounted ==
    ASSUME NEW ids, IsFiniteSet(ids), \A id \in ids : IsAccount(made.dispositions[id])
    PROVE  Cardinality({RequirementBlock(made, id) : id \in ids}) = Cardinality(ids)
<1> DEFINE f == [id \in ids |-> RequirementBlock(made, id)]
           T == {RequirementBlock(made, id) : id \in ids}
<1>1. f = [id \in ids |-> f[id]] /\ T = {f[id] : id \in ids}
  OBVIOUS
<1>2. \A id \in ids : f[id].requirement = id
  BY BlockIs
<1> HIDE DEF f, T
<1>3. \A x, y \in ids : f[x] = f[y] => x = y
  BY <1>2
<1>4. Cardinality(T) = Cardinality(ids)
  BY <1>1, <1>3, Imaged
<1>. QED
  BY <1>4 DEF T

\* A file has as many requirements as ids of them.
LEMMA RequirementsCounted ==
    ASSUME NEW name \in DOMAIN Mandates
    PROVE  LET ids == {RequirementId(r) : r \in ToSet(Registry(Mandates[name]))}
           IN  IsFiniteSet(ids) /\ Cardinality(ids) = Len(Registry(Mandates[name]))
<1> DEFINE registry == Registry(Mandates[name])
           D == DOMAIN registry
           f == [n \in D |-> RequirementId(registry[n])]
           T == {RequirementId(r) : r \in ToSet(registry)}
<1>1. /\ IsList(registry) /\ NoneTwice(registry)
      /\ \A r, q \in ToSet(registry) : RequirementId(r) = RequirementId(q) => r = q
  BY RegistryIsNumbered, RegistryHasNoneTwice
<1> HIDE DEF registry
<1>2. D = 1..Len(registry) /\ Len(registry) \in Nat
  BY <1>1 DEF IsList
<1>3. f = [n \in D |-> f[n]] /\ T = {f[n] : n \in D}
  BY DEF ToSet
<1>4. \A n, m \in D : f[n] = f[m] => n = m
  BY <1>1 DEF NoneTwice, ToSet
<1> HIDE DEF D, f, T
<1>5. IsFiniteSet(D) /\ Cardinality(D) = Len(registry)
  <2>1. \A n \in Nat : IsFiniteSet(1..n) /\ Cardinality(1..n) = n
    <3>. TAKE n \in Nat
    <3>1. /\ IsFiniteSet(1..n)
          /\ Cardinality(1..n) = IF 1 > n THEN 0 ELSE n - 1 + 1
      BY FS_Interval
    <3>. QED
      BY <3>1
  <2>. QED
    BY <1>2, <2>1
<1>6. IsFiniteSet(T) /\ Cardinality(T) = Len(registry)
  BY <1>3, <1>4, <1>5, Imaged
<1>. QED
  BY <1>6 DEF T, registry

\* The counts at the head of the page are those of the blocks below.
LEMMA HeadCounts ==
    ASSUME NEW name \in DOMAIN Mandates, IsMade(made),
           DOMAIN made.dispositions = {RequirementId(r) : r \in ToSet(Registry(Mandates[name]))}
    PROVE  LET rest == RenderMap(Mandates[name], made)
               blocks == ToSet(rest.blocks)
               counted == rest.summary
           IN  /\ counted.total = Len(rest.blocks)
               /\ counted.yielding = Cardinality({b \in blocks : b.obligations # <<>>})
               /\ counted.questioned
                     = Cardinality({b \in blocks : b.obligations = <<>> /\ b.questions # <<>>})
               /\ counted.declined = Cardinality({b \in blocks : b.declined})
<1> DEFINE rest == RenderMap(Mandates[name], made)
           blocks == ToSet(rest.blocks)
           D == DOMAIN made.dispositions
           silent == Unyielding(made.dispositions)
           questioned == {r \in silent : made.dispositions[r].questions # <<>>}
<1>1. /\ rest.summary.total = Cardinality(D)
      /\ rest.summary.yielding = Cardinality(D \ silent)
      /\ rest.summary.questioned = Cardinality(questioned)
      /\ rest.summary.declined = Cardinality(silent \ questioned)
  BY DEF RenderMap, Summary
<1>2. Len(rest.blocks) = Len(Registry(Mandates[name]))
  <2> DEFINE registry == Registry(Mandates[name])
             f == rest.blocks
  <2>1. IsList(registry)
    BY RegistryIsNumbered
  <2>2. /\ f = [n \in DOMAIN registry |-> f[n]] /\ DOMAIN f = DOMAIN registry
        /\ \A n \in DOMAIN registry : f[n] \in ToSet(f)
    BY DEF RenderMap, ToSet
  <2> HIDE DEF registry, f
  <2>3. Len(f) = Len(registry)
    BY <2>1, <2>2, Mapped
  <2>. QED
    BY <2>3 DEF registry, f
<1>3. IsFiniteSet(D) /\ Cardinality(D) = Len(Registry(Mandates[name]))
  BY RequirementsCounted
<1>4. blocks = {RequirementBlock(made, id) : id \in D}
  BY BlocksAre
<1>5. \A id \in D :
         /\ IsAccount(made.dispositions[id])
         /\ RequirementBlock(made, id).questions = made.dispositions[id].questions
         /\ RequirementBlock(made, id).obligations = <<>> <=> made.dispositions[id].obligations = <<>>
         /\ RequirementBlock(made, id).declined <=>
               made.dispositions[id].obligations = <<>> /\ made.dispositions[id].questions = <<>>
  BY BlockIs DEF IsMade
<1>6. /\ silent \subseteq D /\ questioned \subseteq D
      /\ \A id \in D : /\ id \in silent <=> made.dispositions[id].obligations = <<>>
                       /\ id \in questioned <=> /\ made.dispositions[id].obligations = <<>>
                                                /\ made.dispositions[id].questions # <<>>
  BY DEF Unyielding
<1> HIDE DEF rest, blocks, D, silent, questioned
<1>7. ASSUME NEW ids, ids \subseteq D
      PROVE  Cardinality({RequirementBlock(made, id) : id \in ids}) = Cardinality(ids)
  <2>1. IsFiniteSet(ids)
    BY <1>3, <1>7, FS_Subset
  <2>2. \A id \in ids : IsAccount(made.dispositions[id])
    BY <1>5, <1>7
  <2>. QED
    BY <2>1, <2>2, BlocksCounted
<1>8. {b \in blocks : b.obligations # <<>>} = {RequirementBlock(made, id) : id \in D \ silent}
  BY <1>4, <1>5, <1>6
<1>9. {b \in blocks : b.obligations = <<>> /\ b.questions # <<>>}
         = {RequirementBlock(made, id) : id \in questioned}
  BY <1>4, <1>5, <1>6
<1>10. {b \in blocks : b.declined} = {RequirementBlock(made, id) : id \in silent \ questioned}
  BY <1>4, <1>5, <1>6
<1>11. /\ Cardinality({b \in blocks : b.obligations # <<>>}) = Cardinality(D \ silent)
       /\ Cardinality({b \in blocks : b.obligations = <<>> /\ b.questions # <<>>})
             = Cardinality(questioned)
       /\ Cardinality({b \in blocks : b.declined}) = Cardinality(silent \ questioned)
  <2>1. D \ silent \subseteq D /\ questioned \subseteq D /\ silent \ questioned \subseteq D
    BY <1>6
  <2>. QED
    BY <1>7, <1>8, <1>9, <1>10, <2>1
<1>. QED
  BY <1>1, <1>2, <1>3, <1>11 DEF rest, blocks

\* Lists with the same places are as long.
LEMMA SameLength ==
    ASSUME NEW a, IsList(a), NEW b, IsList(b), DOMAIN a = DOMAIN b
    PROVE  Len(a) = Len(b)
<1>1. DOMAIN a = 1..Len(a) /\ Len(a) \in Nat /\ DOMAIN b = 1..Len(b) /\ Len(b) \in Nat
  BY Listed DEF IsList
<1>2. 1..Len(a) = 1..Len(b)
  BY <1>1, Zenon
<1>3. \A k, n \in Nat : 1..k = 1..n => k = n
  <2> SUFFICES ASSUME NEW k \in Nat, NEW n \in Nat, 1..k = 1..n, k < n \/ n < k PROVE FALSE
    OBVIOUS
  <2>1. n \in 1..n => n \in 1..k
    OBVIOUS
  <2>2. k \in 1..k => k \in 1..n
    OBVIOUS
  <2>. QED
    BY <2>1, <2>2
<1>. QED
  BY <1>1, <1>2, <1>3

\* What is known when the page is written.
LEMMA DecomposedAtTheEnd ==
    ASSUME RunShape, ReadShape, Decomposed, EveryRequirementIsAccountedFor,
           step = "done", run.command = "decompose"
    PROVE  /\ run.file \in DOMAIN Mandates /\ units \in Rulings[run.file]
           /\ Requirements = Registry(Mandates[run.file])
           /\ IsList(Requirements) /\ IsList(made.records)
           /\ DOMAIN made.records = DOMAIN Requirements /\ Len(made.records) = Len(Requirements)
           /\ Requirements # <<>> =>
                 /\ DOMAIN made.dispositions = {RequirementId(r) : r \in ToSet(Requirements)}
                 /\ \A id \in DOMAIN made.dispositions :
                       ToSet(made.dispositions[id].obligations)
                          \subseteq IdsOf(made.obligations) \cup IdsOf(made.questions)
<1>1. run.file \in DOMAIN Mandates /\ units \in Rulings[run.file]
  BY DEF Decomposed
<1>2. run.file # "none"
  BY <1>1, MandatesAssumption
<1>3. Requirements = Registry(Mandates[run.file])
  BY <1>1, <1>2 DEF Requirements, RegistryOf
<1>4. /\ IsList(Requirements) /\ IsList(made.records)
      /\ DOMAIN made.records = DOMAIN Requirements
  BY RequirementsAreNumbered DEF Decomposed, Divided, ReadShape, IsMade
<1>5. Len(made.records) = Len(Requirements)
  BY <1>4, SameLength
<1>6. ASSUME Requirements # <<>>
      PROVE  /\ DOMAIN made.dispositions = {RequirementId(r) : r \in ToSet(Requirements)}
             /\ \A id \in DOMAIN made.dispositions :
                   ToSet(made.dispositions[id].obligations)
                      \subseteq IdsOf(made.obligations) \cup IdsOf(made.questions)
  <2>1. made # Nothing
    <3>1. DOMAIN Requirements # {}
      <4>1. \A S : \A seq \in Seq(S) : seq # <<>> => 1 \in DOMAIN seq
        OBVIOUS
      <4>. QED
        BY <1>4, <1>6, <4>1 DEF IsList
    <3>2. DOMAIN Nothing.records = {}
      BY DEF Nothing
    <3>. QED
      BY <1>4, <3>1, <3>2
  <2>2. \A r \in ToSet(Requirements) :
           /\ RequirementId(r) \in DOMAIN made.dispositions
           /\ ToSet(made.dispositions[RequirementId(r)].obligations)
                 \subseteq IdsOf(made.obligations) \cup IdsOf(made.questions)
    BY <2>1 DEF EveryRequirementIsAccountedFor
  <2>3. \A id \in DOMAIN made.dispositions : \E r \in ToSet(Requirements) : RequirementId(r) = id
    BY DEF Decomposed, IsOfARequirement
  <2>. QED
    BY <2>2, <2>3
<1>. QED
  BY <1>1, <1>3, <1>4, <1>5, <1>6

\* The page of a decompose and the report beside it leave nothing out, for every
\* file, every history of runs and every answer: each obligation, question, sentence
\* and requirement that is gone has its place, and the counts are those of what is
\* listed: cli.py, render_decomposition and _report_run.
THEOREM PageHolds == Spec => []PageLeavesNothingOut
<1>1. RunShape /\ ReadShape /\ Decomposed /\ Gone /\ EveryRequirementIsAccountedFor
         => PageLeavesNothingOut
  <2> SUFFICES ASSUME RunShape, ReadShape, Decomposed, Gone, EveryRequirementIsAccountedFor,
                      step = "done", run.command = "decompose"
               PROVE  LET page == RenderDecomposition(Mandates[run.file], made, units, synthesized)
                          blocks == ToSet(page.rest.blocks)
                          lines == UNION {ToSet(b.obligations) : b \in blocks}
                          report == ReportRun(made)
                      IN  /\ report.carried + report.revised + report.derived = Len(Requirements)
                          /\ Readable(run.from) =>
                                Cardinality(TextsOf(Entry(run.from)) \ Registered(Requirements))
                                   <= Cardinality(report.removed) + report.revised
                          /\ page.claims.background + Cardinality(ClaimsOf(units))
                                = Len(Units(Mandates[run.file]))
                          /\ ClaimsOf(units) = page.claims.uncited
                                \cup UNION {o.claims : o \in ToSet(page.claims.obligations)}
                          /\ page.rest.shape = "map" =>
                                /\ IdsOf(made.obligations) =
                                      {l.id : l \in {m \in lines : m.found}}
                                         \cup IdsOf(page.rest.orphans)
                                /\ IdsOf(made.questions) \subseteq
                                      (UNION {ToSet(b.questions) : b \in blocks})
                                         \cup IdsOf(page.rest.loose)
                                /\ \A b \in blocks : \A l \in ToSet(b.obligations) :
                                      IF l.found
                                      THEN \A r \in l.others :
                                              \E c \in blocks : /\ c.requirement = r
                                                                /\ l.id \in IdsOf(c.obligations)
                                      ELSE l.id \in IdsOf(made.questions)
                                /\ LET counted == page.rest.summary
                                   IN  /\ counted.total = Len(page.rest.blocks)
                                       /\ counted.yielding =
                                             Cardinality({b \in blocks : b.obligations # <<>>})
                                       /\ counted.questioned =
                                             Cardinality({b \in blocks : /\ b.obligations = <<>>
                                                                         /\ b.questions # <<>>})
                                       /\ counted.declined =
                                             Cardinality({b \in blocks : b.declined})
    BY Zenon DEF PageLeavesNothingOut
  <2> DEFINE page == RenderDecomposition(Mandates[run.file], made, units, synthesized)
             blocks == ToSet(page.rest.blocks)
             lines == UNION {ToSet(b.obligations) : b \in blocks}
             report == ReportRun(made)
  <2>1. /\ run.file \in DOMAIN Mandates /\ units \in Rulings[run.file]
        /\ Requirements = Registry(Mandates[run.file])
        /\ IsList(Requirements) /\ IsList(made.records)
        /\ DOMAIN made.records = DOMAIN Requirements /\ Len(made.records) = Len(Requirements)
        /\ Requirements # <<>> =>
              /\ DOMAIN made.dispositions = {RequirementId(r) : r \in ToSet(Requirements)}
              /\ \A id \in DOMAIN made.dispositions :
                    ToSet(made.dispositions[id].obligations)
                       \subseteq IdsOf(made.obligations) \cup IdsOf(made.questions)
    BY DecomposedAtTheEnd
  <2>2. /\ RecordsReword
        /\ \A n \in DOMAIN Requirements :
              /\ made.records[n].text = Requirements[n].text
              /\ made.records[n].kind \in {"carried", "revised", "derived"}
    BY DEF Decomposed, Divided
  <2>3. /\ report.carried + report.revised + report.derived = Len(Requirements)
        /\ report.revised = Cardinality(KindAt(made.records, "revised"))
        /\ report.removed = {record.text : record \in ToSet(made.removed)}
    BY <2>1, <2>2, KindsAddUp
  <2>4. ASSUME Readable(run.from)
        PROVE  Cardinality(TextsOf(Entry(run.from)) \ Registered(Requirements))
                  <= Cardinality(report.removed) + report.revised
    <3>1. run.from = Len(ledger) /\ Readable(run.from) => Entry(run.from).records = made.records
      BY DEF Decomposed, Readable, Entry
    <3>2. IsList(made.removed) /\ \A n \in DOMAIN ledger : IsList(ledger[n].records)
      BY DEF Gone, ReadShape, IsOnRecord
    <3>3. Cardinality(TextsOf(Entry(run.from)) \ Registered(Requirements))
             <= Cardinality({record.text : record \in ToSet(made.removed)})
                   + Cardinality(KindAt(made.records, "revised"))
      BY <2>1, <2>2, <2>4, <3>1, <3>2, NothingIsLost
    <3> HIDE DEF report
    <3>. QED
      BY <2>3, <3>3, Zenon
  <2>5. page.claims = SynthesizedBlock(units, synthesized)
    BY DEF RenderDecomposition
  <2>6. /\ page.claims.background + Cardinality(ClaimsOf(units)) = Len(Units(Mandates[run.file]))
        /\ ClaimsOf(units) = page.claims.uncited
              \cup UNION {o.claims : o \in ToSet(page.claims.obligations)}
    BY <2>1, <2>5, SentencesAddUp, Zenon
  <2>7. ASSUME page.rest.shape = "map"
        PROVE  /\ Requirements # <<>> /\ page.rest = RenderMap(Mandates[run.file], made)
    <3>1. Registry(Mandates[run.file]) # <<>>
      BY <2>7 DEF RenderDecomposition, RenderFlat
    <3>. QED
      BY <2>1, <3>1 DEF RenderDecomposition
  <2>8. IsMade(made)
    BY DEF ReadShape
  <2> HIDE DEF page, report
  <2>9. ASSUME page.rest.shape = "map"
        PROVE  /\ IdsOf(made.obligations) =
                     {l.id : l \in {m \in lines : m.found}} \cup IdsOf(page.rest.orphans)
               /\ IdsOf(made.questions) \subseteq
                     (UNION {ToSet(b.questions) : b \in blocks}) \cup IdsOf(page.rest.loose)
               /\ \A b \in blocks : \A l \in ToSet(b.obligations) :
                     IF l.found
                     THEN \A r \in l.others :
                             \E c \in blocks : c.requirement = r /\ l.id \in IdsOf(c.obligations)
                     ELSE l.id \in IdsOf(made.questions)
               /\ page.rest.summary.total = Len(page.rest.blocks)
               /\ page.rest.summary.yielding = Cardinality({b \in blocks : b.obligations # <<>>})
               /\ page.rest.summary.questioned
                     = Cardinality({b \in blocks : b.obligations = <<>> /\ b.questions # <<>>})
               /\ page.rest.summary.declined = Cardinality({b \in blocks : b.declined})
    <3>1. /\ page.rest = RenderMap(Mandates[run.file], made)
          /\ run.file \in DOMAIN Mandates
          /\ DOMAIN made.dispositions
                = {RequirementId(r) : r \in ToSet(Registry(Mandates[run.file]))}
          /\ \A id \in DOMAIN made.dispositions :
                ToSet(made.dispositions[id].obligations)
                   \subseteq IdsOf(made.obligations) \cup IdsOf(made.questions)
      BY <2>1, <2>7, <2>9
    <3>2. LET rest == RenderMap(Mandates[run.file], made)
              theirs == ToSet(rest.blocks)
              all == UNION {ToSet(b.obligations) : b \in theirs}
          IN  /\ IdsOf(made.obligations) =
                    {l.id : l \in {m \in all : m.found}} \cup IdsOf(rest.orphans)
              /\ IdsOf(made.questions) \subseteq
                    (UNION {ToSet(b.questions) : b \in theirs}) \cup IdsOf(rest.loose)
              /\ \A b \in theirs : \A l \in ToSet(b.obligations) :
                    IF l.found
                    THEN \A r \in l.others :
                            \E c \in theirs : c.requirement = r /\ l.id \in IdsOf(c.obligations)
                    ELSE l.id \in IdsOf(made.questions)
      BY <2>8, <3>1, NothingIsLeftOut
    <3>3. LET rest == RenderMap(Mandates[run.file], made)
              theirs == ToSet(rest.blocks)
              counted == rest.summary
          IN  /\ counted.total = Len(rest.blocks)
              /\ counted.yielding = Cardinality({b \in theirs : b.obligations # <<>>})
              /\ counted.questioned
                    = Cardinality({b \in theirs : b.obligations = <<>> /\ b.questions # <<>>})
              /\ counted.declined = Cardinality({b \in theirs : b.declined})
      BY <2>8, <3>1, HeadCounts
    <3>. QED
      BY <3>1, <3>2, <3>3, Zenon
  <2>. QED
    BY <2>3, <2>4, <2>6, <2>9, Zenon DEF page, report
<1>. QED
  BY <1>1, InvHolds, ReadShapeHolds, DecomposedHolds, GoneHolds, RequirementsAccounted, PTL DEF Inv

(***************************************************************************)
(* The page of a check.                                                    *)
(***************************************************************************)

\* The coverage of the obligations is known.
HasClassified ==
    \/ step \in {"detecting", "prescribing", "concluding"}
    \/ step = "recording" /\ run.command = "check"

OwedTests(gap) == \E o \in ToSet(obligations) : o.id = gap.obligation /\ RequiresTests(o)

\* What is judged is of what there is to judge, all of it, and so is what has just
\* been stored.
Rated ==
    /\ HasClassified => DOMAIN coverages = IdsOf(ToClassify)
    /\ open \subseteq IdsOf(made.questions)
    /\ StillReading => open = {} /\ unobtained = {}
    /\ \A gap \in unobtained : OwedTests(gap)
    /\ step = "recording" /\ run.command = "check" =>
          \E mismatched \in BOOLEAN : reviews[run.head] = Review(Findings(mismatched))

\* While the file is read nothing is judged.
LEMMA ReadingRated ==
    ASSUME Rated, ReadingStep, UNCHANGED checkVars
    PROVE  Rated'
<1>1. UNCHANGED <<open, unobtained>>
  BY DEF checkVars, judgementVars
<1>2. StillReading
  BY DEF ReadingStep, PlanCarry, AskAbout, DecideSpans, AskSpan, SummaryDone, Reconcile, Link,
         Record, WriteLedger, BuildClaims, Synthesize, StillReading
<1>3. /\ step' \notin {"detecting", "prescribing", "concluding"}
      /\ ~(step' = "recording" /\ run'.command = "check")
  <2>1. FirstFault(Requirements) # "none" =>
           FirstFault(Requirements) \notin {"detecting", "prescribing", "concluding", "recording"}
    BY FaultsAreOutcomes
  <2>. QED
    BY <2>1 DEF ReadingStep, PlanCarry, AskAbout, DecideSpans, AskSpan, SummaryDone, Reconcile, Link,
                Record, WriteLedger, BuildClaims, Synthesize
<1>4. open' = {} /\ unobtained' = {}
  BY <1>1, <1>2 DEF Rated
<1>. QED
  BY <1>3, <1>4 DEF Rated, HasClassified

\* What there is to classify goes by the obligations.
LEMMA SameToClassify ==
    ASSUME UNCHANGED <<made, obligations>>
    PROVE  ToClassify' = ToClassify
<1>1. Derived' = Derived
  BY DEF Derived
<1> HIDE DEF Derived
<1>2. ToClassify = Only(obligations, {o \in ToSet(obligations) : o \notin Derived /\ RequiresCode(o)})
  BY DEF ToClassify, Where
<1>3. ToClassify' = Only(obligations', {o \in ToSet(obligations') : o \notin Derived' /\ RequiresCode(o)})
  BY DEF ToClassify, Where
<1>. QED
  BY <1>1, <1>2, <1>3

\* Of an obligation that is looked up when nothing changed the same is judged.
LEMMA SameRated ==
    ASSUME Rated, UNCHANGED <<run, readingVars, prior, judgementVars>>
    PROVE  /\ ToClassify' = ToClassify /\ DOMAIN coverages' = DOMAIN coverages
           /\ open' \subseteq IdsOf(made'.questions)
           /\ \A gap \in unobtained' : OwedTests(gap)'
<1>1. UNCHANGED <<made, obligations, coverages, open, unobtained>>
  BY DEF readingVars, judgementVars
<1>2. ToClassify' = ToClassify
  BY <1>1, SameToClassify
<1>3. ASSUME NEW gap \in unobtained' PROVE OwedTests(gap)'
  <2>1. OwedTests(gap)
    BY <1>1 DEF Rated
  <2>. QED
    BY <1>1, <2>1 DEF OwedTests
<1>4. open' \subseteq IdsOf(made'.questions)
  BY <1>1 DEF Rated
<1>. QED
  BY <1>1, <1>2, <1>3, <1>4

\* A review is put together of what is judged, and leaves it.
LEMMA StoredRated ==
    ASSUME LeftShape, Rated, StoreReview
    PROVE  Rated'
<1>1. /\ UNCHANGED <<run, readingVars, prior, judgementVars>>
      /\ step = "concluding" /\ step' = "recording"
  BY DEF StoreReview
<1>2. run.command = "check"
  BY <1>1 DEF LeftShape, JudgingSteps
<1>3. PICK mismatched \in BOOLEAN : reviews' = Put(Review(Findings(mismatched)))
  BY DEF StoreReview
<1>4. reviews'[run'.head] = Review(Findings(mismatched))
  BY <1>1, <1>3 DEF Put
<1>5. reviews'[run'.head] = Review(Findings(mismatched))'
  <2>1. PICK findings : findings = Findings(mismatched)
    OBVIOUS
  <2>2. Findings(mismatched)' = Findings(mismatched)
    BY <1>1 DEF Findings, judgementVars
  <2>3. Review(findings)' = Review(findings)
    BY <1>1, ReviewStays
  <2>. QED
    BY <1>4, <2>1, <2>2, <2>3
<1>6. HasClassified /\ ~StillReading' /\ HasClassified'
  BY <1>1, <1>2 DEF HasClassified, StillReading
<1>. QED
  BY <1>1, <1>5, <1>6, SameRated DEF Rated

\* The questions a change leaves open are among those that were asked, and of none
\* that is open the obligations are known.
LEMMA ResolvedRated ==
    ASSUME Rated, ResolveQuestions
    PROVE  Rated'
<1>1. /\ StillReading /\ UNCHANGED <<made, unobtained>> /\ step' = "enumerating"
  BY DEF ResolveQuestions, StillReading, readingVars
<1>2. unobtained' = {}
  BY <1>1 DEF Rated
<1>3. open' \subseteq IdsOf(made'.questions)
  <2>1. PICK resolutions : open' = Unresolved(made.questions, resolutions)
    BY DEF ResolveQuestions
  <2>. QED
    BY <1>1, <2>1 DEF Unresolved
<1>. QED
  BY <1>1, <1>2, <1>3 DEF Rated, HasClassified, StillReading

\* Each obligation that owes code is classified, and nothing else.
LEMMA ClassifiedRated ==
    ASSUME Rated, ClassifyCoverage
    PROVE  Rated'
<1>1. /\ UNCHANGED <<run, made, obligations, open, unobtained>> /\ step' = "detecting"
  BY DEF ClassifyCoverage, readingVars
<1>2. DOMAIN coverages' = IdsOf(ToClassify)
  <2>1. PICK answers : coverages' = Coverages(ToClassify, answers, Files)
    BY DEF ClassifyCoverage
  <2>. HIDE DEF ToClassify, Files
  <2>. QED
    BY <2>1 DEF Coverages
<1>3. ToClassify' = ToClassify
  BY <1>1, SameToClassify
<1>4. ASSUME NEW gap \in unobtained' PROVE OwedTests(gap)'
  <2>1. OwedTests(gap)
    BY <1>1 DEF Rated
  <2>. QED
    BY <1>1, <2>1 DEF OwedTests
<1>5. open' \subseteq IdsOf(made'.questions)
  BY <1>1 DEF Rated
<1>. QED
  BY <1>1, <1>2, <1>3, <1>4, <1>5 DEF Rated, HasClassified, StillReading

\* A prescription is owed for what owes tests.
LEMMA PrescribedRated ==
    ASSUME Rated, PrescribeTests
    PROVE  Rated'
<1>1. /\ UNCHANGED <<run, made, obligations, coverages, open>>
      /\ step = "prescribing" /\ step' = "concluding"
  BY DEF PrescribeTests, readingVars
<1>2. ToClassify' = ToClassify
  BY <1>1, SameToClassify
<1>3. DOMAIN coverages' = IdsOf(ToClassify)
  BY <1>1 DEF Rated, HasClassified
<1>4. ASSUME NEW gap \in unobtained' PROVE OwedTests(gap)'
  <2>1. PICK caught : unobtained' \subseteq UncoveredDefects(obligations, defectSets, caught)
    BY DEF PrescribeTests
  <2>2. gap \in UncoveredDefects(obligations, defectSets, caught)
    BY <2>1
  <2>3. \E o \in ToSet(obligations) : o.id = gap.obligation /\ RequiresTests(o)
    BY <2>2 DEF UncoveredDefects
  <2>. QED
    BY <1>1, <2>3 DEF OwedTests
<1>5. open' \subseteq IdsOf(made'.questions)
  BY <1>1 DEF Rated
<1>. QED
  BY <1>1, <1>2, <1>3, <1>4, <1>5 DEF Rated, HasClassified, StillReading

\* The other steps of a check leave what is judged of the code, and of the tests
\* what is owed.
LEMMA OthersRated ==
    ASSUME Rated, EnumerateDefects \/ JudgeDefects \/ DetectUnrequested
    PROVE  Rated'
<1>1. /\ UNCHANGED <<run, made, obligations, coverages, open, unobtained>>
      /\ HasClassified' => HasClassified
      /\ ~StillReading' /\ step' # "recording"
  BY DEF EnumerateDefects, JudgeDefects, DetectUnrequested, readingVars, HasClassified, StillReading
<1>2. ToClassify' = ToClassify
  BY <1>1, SameToClassify
<1>3. ASSUME NEW gap \in unobtained' PROVE OwedTests(gap)'
  <2>1. OwedTests(gap)
    BY <1>1 DEF Rated
  <2>. QED
    BY <1>1, <2>1 DEF OwedTests
<1>4. open' \subseteq IdsOf(made'.questions)
  BY <1>1 DEF Rated
<1>. QED
  BY <1>1, <1>2, <1>3, <1>4 DEF Rated

\* Nor does a step that is none of a check's, or the last of them.
LEMMA EndedRated ==
    ASSUME Rated, UNCHANGED <<run, readingVars, prior, judgementVars, step, reviews>>
    PROVE  Rated'
<1>1. \A mismatched : Review(Findings(mismatched))' = Review(Findings(mismatched))
  <2> SUFFICES ASSUME NEW mismatched
               PROVE  Review(Findings(mismatched))' = Review(Findings(mismatched))
    OBVIOUS
  <2>1. PICK findings : findings = Findings(mismatched)
    OBVIOUS
  <2>2. Findings(mismatched)' = Findings(mismatched)
    BY DEF Findings, judgementVars
  <2>3. Review(findings)' = Review(findings)
    BY ReviewStays
  <2>. QED
    BY <2>1, <2>2, <2>3
<1>2. step = "recording" /\ run.command = "check" =>
         \E mismatched \in BOOLEAN : reviews'[run'.head] = Review(Findings(mismatched))'
  <2> SUFFICES ASSUME step = "recording", run.command = "check"
               PROVE  \E mismatched \in BOOLEAN : reviews'[run'.head] = Review(Findings(mismatched))'
    OBVIOUS
  <2>1. PICK mismatched \in BOOLEAN : reviews[run.head] = Review(Findings(mismatched))
    BY DEF Rated
  <2>2. reviews'[run'.head] = Review(Findings(mismatched))'
    BY <1>1, <2>1
  <2>. QED
    BY <2>2
<1>3. UNCHANGED <<open, unobtained>>
  BY DEF judgementVars
<1>4. /\ HasClassified' <=> HasClassified
      /\ StillReading' <=> StillReading
  BY DEF HasClassified, StillReading
<1>. QED
  BY <1>2, <1>3, <1>4, SameRated DEF Rated

\* A command that has just begun, or has ended, has judged nothing.
LEMMA NothingRated ==
    ASSUME NothingJudged,
           step' \notin {"detecting", "prescribing", "concluding", "recording"}
    PROVE  Rated'
<1>1. ~HasClassified'
  BY DEF HasClassified
<1>2. open' = {} /\ unobtained' = {}
  BY DEF NothingJudged
<1>3. open' \subseteq IdsOf(made'.questions) /\ \A gap \in unobtained' : OwedTests(gap)'
  BY <1>2
<1>. QED
  BY <1>1, <1>2, <1>3 DEF Rated

\* It always holds.
THEOREM RatedHolds == Spec => []Rated
<1>1. Init => Rated
  <2> SUFFICES ASSUME Init PROVE Rated
    OBVIOUS
  <2>1. /\ open = {} /\ unobtained = {}
        /\ step \notin {"detecting", "prescribing", "concluding", "recording"}
    BY DEF Init, InitDecompose
  <2>. QED
    BY <2>1 DEF Rated, HasClassified
<1>2. Rated /\ LeftShape /\ [Next]_vars => Rated'
  <2> SUFFICES ASSUME Rated, LeftShape, [Next]_vars PROVE Rated'
    OBVIOUS
  <2>1. CASE StartDecompose /\ prior' = NoReview /\ NothingJudged /\ UNCHANGED reviews
    <3>1. step' \notin {"detecting", "prescribing", "concluding", "recording"}
      BY <2>1 DEF StartDecompose, Begin
    <3>. QED
      BY <2>1, <3>1, NothingRated
  <2>2. CASE StartCheck
    <3>1. step' \notin {"detecting", "prescribing", "concluding", "recording"}
      BY <2>2 DEF StartCheck, Begin, Admission
    <3>. QED
      BY <2>2, <3>1, NothingRated DEF StartCheck
  <2>3. CASE ReadingStep /\ UNCHANGED checkVars
    BY <2>3, ReadingRated
  <2>4. CASE CallFails \/ Kill
    <3>1. step' \in {"model_error", "killed"} /\ NothingJudged
      BY <2>4 DEF CallFails, Kill, Forget
    <3>. QED
      BY <3>1, NothingRated
  <2>5. CASE RecordCheck
    <3>1. UNCHANGED <<run, readingVars, prior, judgementVars>> /\ step' = "done" /\ step = "recording"
      BY <2>5 DEF RecordCheck, WriteLedger, checkVars
    <3>. QED
      BY <3>1, SameRated DEF Rated, HasClassified, StillReading
  <2>6. CASE Finished \/ UNCHANGED vars
    <3>1. UNCHANGED <<run, readingVars, prior, judgementVars, step, reviews>>
      BY <2>6 DEF Finished, vars, decomposeVars, checkVars
    <3>. QED
      BY <3>1, EndedRated
  <2>. QED
    BY <2>1, <2>2, <2>3, <2>4, <2>5, <2>6, StoredRated, ResolvedRated, ClassifiedRated,
       PrescribedRated, OthersRated
       DEF Next, Judging
<1>. QED
  BY <1>1, <1>2, LeftShapeHolds, PTL DEF Spec

\* An obligation is the one of its id.
LEMMA ItsOwn ==
    ASSUME Apart(obligations), NEW o \in ToSet(obligations)
    PROVE  o.id \in IdsOf(obligations) /\ ById(obligations, o.id) = o
<1>1. o.id \in IdsOf(obligations)
  BY DEF ToSet, IdsOf
<1>2. ById(obligations, o.id) \in ToSet(obligations) /\ ById(obligations, o.id).id = o.id
  BY <1>1, LookedUp
<1>. QED
  BY <1>1, <1>2 DEF Apart

\* What there is to classify.
LEMMA ToClassifyHas ==
    ASSUME IsList(obligations), NEW id
    PROVE  /\ ToSet(ToClassify) = {o \in ToSet(obligations) : o \notin Derived /\ RequiresCode(o)}
           /\ id \in IdsOf(ToClassify) <=>
                 \E o \in ToSet(obligations) : o.id = id /\ o \notin Derived /\ RequiresCode(o)
<1> DEFINE those == {o \in ToSet(obligations) : o \notin Derived /\ RequiresCode(o)}
<1>1. ToClassify = Only(obligations, those)
  BY DEF ToClassify, Where
<1>2. those \subseteq ToSet(obligations)
  OBVIOUS
<1> HIDE DEF those
<1>3. ToSet(ToClassify) = those
  <2>1. ToSet(ToClassify) = ToSet(obligations) \cap those
    BY <1>1, OnlyHas, Zenon
  <2>. QED
    BY <1>2, <2>1
<1>4. id \in IdsOf(ToClassify) <=> \E o \in ToSet(ToClassify) : o.id = id
  BY DEF IdsOf, ToSet
<1>. QED
  BY <1>3, <1>4 DEF those

\* What the page shows of an obligation.
LEMMA BlockShows ==
    ASSUME NEW mismatched, Apart(obligations), NEW o \in ToSet(obligations)
    PROVE  LET b == ObligationBlock(Review(Findings(mismatched)), o)
           IN  /\ b.id = o.id /\ b.says = o.says
               /\ b.code = IF RequiresCode(o) THEN StatusOf(o) ELSE "not required"
               /\ b.tests = IF RequiresTests(o) THEN ClassOf(o) ELSE "not required"
               /\ b.missing = \E u \in unobtained : u.obligation = o.id
               /\ RequiresTests(o) /\ ClassOf(o) # "none" => b.measured # <<>>
<1> DEFINE findings == Findings(mismatched)
           review == Review(findings)
           record == Recorded(review, o)
<1>0. o.id \in IdsOf(obligations) /\ ById(obligations, o.id) = o
  BY ItsOwn
<1>1. /\ review.status = EachObligation(StatusOf) /\ review.class = EachObligation(ClassOf)
      /\ review.unobtained = unobtained
  BY DEF Review
<1>2. review.status[o.id] = StatusOf(o) /\ review.class[o.id] = ClassOf(o)
  BY <1>0, <1>1 DEF EachObligation
<1> HIDE DEF review
<1>3. record.status = StatusOf(o) /\ record.class = ClassOf(o)
  BY <1>2 DEF Recorded
<1> HIDE DEF record
<1>4. record.class # "none" => Denominator(record) # <<>>
  BY DEF Denominator
<1>. QED
  BY <1>1, <1>3, <1>4 DEF ObligationBlock, record, review

\* What is a gap, and of what.
LEMMA GapsAre ==
    ASSUME NEW mismatched, NEW says
    PROVE  says \in Gaps(Findings(mismatched)) <=>
              \E id \in DOMAIN coverages :
                 coverages[id].status # "addressed" /\ ById(obligations, id).says = says
<1>1. ASSUME says \in Gaps(Findings(mismatched))
      PROVE  \E id \in DOMAIN coverages :
                coverages[id].status # "addressed" /\ ById(obligations, id).says = says
  <2>1. PICK f \in Findings(mismatched) : f.type = "coverage_gap" /\ says \in f.about
    BY <1>1 DEF Gaps
  <2>2. MismatchFinding.type # "coverage_gap" /\ AbsenceFinding.type # "coverage_gap"
    BY DEF MismatchFinding, AbsenceFinding, StaticFinding
  <2>3. \A u : UnrequestedFinding(u).type # "coverage_gap"
    BY DEF UnrequestedFinding, StaticFinding
  <2>4. PICK id \in DOMAIN coverages :
           coverages[id].status # "addressed" /\ f = CoverageFinding(ById(obligations, id), coverages[id])
    BY <2>1, <2>2, <2>3 DEF Findings
  <2>5. f.about = {ById(obligations, id).says}
    BY <2>4 DEF CoverageFinding, StaticFinding
  <2>. QED
    BY <2>1, <2>4, <2>5
<1>2. ASSUME NEW id \in DOMAIN coverages, coverages[id].status # "addressed",
             ById(obligations, id).says = says
      PROVE  says \in Gaps(Findings(mismatched))
  BY <1>2, GapFound
<1>. QED
  BY <1>1, <1>2

\* A gap is of an obligation that owes code, and that the page does not show as
\* addressed.
LEMMA GapsShow ==
    ASSUME IsList(obligations), Found, Apart(obligations), DOMAIN coverages = IdsOf(ToClassify),
           NEW mismatched, NEW says \in Gaps(Findings(mismatched))
    PROVE  \E o \in ToSet(obligations) :
              /\ o.says = says /\ RequiresCode(o)
              /\ StatusOf(o) \notin {"addressed", "not required"}
<1>1. PICK id \in DOMAIN coverages :
         coverages[id].status # "addressed" /\ ById(obligations, id).says = says
  BY GapsAre
<1>2. PICK o \in ToSet(obligations) : o.id = id /\ o \notin Derived /\ RequiresCode(o)
  BY <1>1, ToClassifyHas
<1>3. ById(obligations, id) = o
  BY <1>2, ItsOwn
<1>4. StatusOf(o) = coverages[id].status
  BY <1>1, <1>2 DEF StatusOf
<1>5. coverages[id].status \in CoverageStatuses
  BY <1>1 DEF Found
<1>. QED
  BY <1>1, <1>2, <1>3, <1>4, <1>5 DEF CoverageStatuses

\* One that owes code and is no gap is addressed.
LEMMA NoGapAddressed ==
    ASSUME IsList(obligations), Apart(obligations), DOMAIN coverages = IdsOf(ToClassify), NEW mismatched,
           NEW o \in ToSet(obligations), RequiresCode(o), o.says \notin Gaps(Findings(mismatched))
    PROVE  StatusOf(o) = "addressed"
<1>1. CASE o \in Derived
  BY <1>1 DEF StatusOf
<1>2. CASE o \notin Derived
  <2>1. o.id \in DOMAIN coverages
    BY <1>2, ToClassifyHas
  <2>2. ById(obligations, o.id) = o
    BY ItsOwn
  <2>3. coverages[o.id].status = "addressed"
    BY <2>1, <2>2, GapFound
  <2>. QED
    BY <1>2, <2>1, <2>3 DEF StatusOf
<1>. QED
  BY <1>1, <1>2

\* One whose prescription is owed and did not come owes tests, and is not rated.
LEMMA OwedIsUnrated ==
    ASSUME Rated, Apart(obligations), NEW o \in ToSet(obligations), \E u \in unobtained : u.obligation = o.id
    PROVE  RequiresTests(o) /\ ClassOf(o) = "indeterminate"
<1>1. ClassOf(o) = "indeterminate"
  BY DEF ClassOf
<1>2. PICK u \in unobtained : u.obligation = o.id
  OBVIOUS
<1>3. PICK p \in ToSet(obligations) : p.id = u.obligation /\ RequiresTests(p)
  BY <1>2 DEF Rated, OwedTests
<1>4. p = o
  BY <1>2, <1>3 DEF Apart
<1>. QED
  BY <1>1, <1>3, <1>4

\* What a reader would hold against a positive headline, of one obligation.
Doubtful(b) ==
    \/ b.code \notin {"addressed", "not required"}
    \/ b.tests \notin {"strongly_supported", "no_plausible_defect", "not required"}
    \/ b.code = "not required" /\ b.tests = "not required"
    \/ b.missing

\* One that stands in nobody's way is not doubtful.
LEMMA StandingSure ==
    ASSUME IsList(obligations), Rated, Found, Typed, Apart(obligations), DOMAIN coverages = IdsOf(ToClassify),
           NEW mismatched, NEW o \in ToSet(obligations),
           Standing(o, ClassOf(o), Gaps(Findings(mismatched)))
              \notin {"gap", "weak", "non_code", "indeterminate"}
    PROVE  ~Doubtful(ObligationBlock(Review(Findings(mismatched)), o))
<1> DEFINE gaps == Gaps(Findings(mismatched))
           b == ObligationBlock(Review(Findings(mismatched)), o)
<1>1. /\ b.code = IF RequiresCode(o) THEN StatusOf(o) ELSE "not required"
      /\ b.tests = IF RequiresTests(o) THEN ClassOf(o) ELSE "not required"
      /\ b.missing = \E u \in unobtained : u.obligation = o.id
  BY BlockShows
<1> HIDE DEF b
<1>2. o.says \notin gaps /\ o.evidence # "neither"
  BY DEF Standing
<1>3. RequiresTests(o) => ClassOf(o) \in {"strongly_supported", "no_plausible_defect"}
  BY <1>2, ClassIsKnown DEF Standing, EvidenceClasses
<1>4. RequiresCode(o) => StatusOf(o) = "addressed"
  BY <1>2, NoGapAddressed
<1>5. RequiresCode(o) \/ RequiresTests(o)
  BY <1>2 DEF Typed, AreTyped, IsObligation, EvidenceKinds, RequiresCode, RequiresTests
<1>6. ~(\E u \in unobtained : u.obligation = o.id)
  BY <1>3, OwedIsUnrated
<1>. QED
  BY <1>1, <1>3, <1>4, <1>5, <1>6 DEF Doubtful, b

\* One that is not doubtful, and is no gap, stands in nobody's way.
LEMMA SureStanding ==
    ASSUME Apart(obligations), NEW mismatched, NEW o \in ToSet(obligations),
           o.says \notin Gaps(Findings(mismatched)),
           ~Doubtful(ObligationBlock(Review(Findings(mismatched)), o))
    PROVE  Standing(o, ClassOf(o), Gaps(Findings(mismatched))) \in {"code_only", "supported"}
<1> DEFINE b == ObligationBlock(Review(Findings(mismatched)), o)
<1>1. /\ b.code = IF RequiresCode(o) THEN StatusOf(o) ELSE "not required"
      /\ b.tests = IF RequiresTests(o) THEN ClassOf(o) ELSE "not required"
  BY BlockShows
<1> HIDE DEF b
<1>2. /\ b.tests \in {"strongly_supported", "no_plausible_defect", "not required"}
      /\ ~(b.code = "not required" /\ b.tests = "not required")
  BY DEF Doubtful, b
<1>3. o.evidence # "neither"
  BY <1>1, <1>2 DEF RequiresCode, RequiresTests
<1>4. RequiresTests(o) => ClassOf(o) \in {"strongly_supported", "no_plausible_defect"}
  BY <1>1, <1>2, ClassIsKnown DEF EvidenceClasses
<1>. QED
  BY <1>3, <1>4 DEF Standing

\* The page of what is put together, as a reader sees it.
LEMMA PageShows ==
    ASSUME NEW mismatched
    PROVE  LET review == Review(Findings(mismatched))
               page == RenderReport(review)
           IN  /\ page.headline = review.verdict
               /\ DOMAIN page.obligations = DOMAIN obligations
               /\ ToSet(page.obligations) = {ObligationBlock(review, o) : o \in ToSet(obligations)}
               /\ page.mandate.unjudged = Unjudged(made.dispositions, IdsOf(obligations))
               /\ page.short = review.explained.short
               /\ page.rationale = review.explained.why
               /\ (\E q \in ToSet(page.questions) : q.state = "open") <=>
                     open \cap IdsOf(made.questions) # {}
<1> DEFINE review == Review(Findings(mismatched))
           page == RenderReport(review)
<1>1. /\ review.obligations = obligations /\ review.dispositions = made.dispositions
      /\ review.questions = made.questions /\ review.open = open
  BY DEF Review
<1> HIDE DEF review
<1>2. /\ page.headline = review.verdict
      /\ page.obligations = [n \in DOMAIN obligations |-> ObligationBlock(review, obligations[n])]
      /\ page.mandate.unjudged = Unjudged(made.dispositions, IdsOf(obligations))
      /\ page.short = review.explained.short
      /\ page.rationale = review.explained.why
      /\ page.questions = QuestionLines(review)
  BY <1>1 DEF RenderReport, MandateBlock, CoverageOf, MandateCoverage
<1>3. page.questions = [n \in DOMAIN made.questions |->
                           [id |-> made.questions[n].id,
                            state |-> IF made.questions[n].id \in open THEN "open" ELSE "resolved"]]
  BY <1>1, <1>2 DEF QuestionLines
<1> HIDE DEF page
<1>4. (\E q \in ToSet(page.questions) : q.state = "open") <=> open \cap IdsOf(made.questions) # {}
  <2>1. (\E q \in ToSet(page.questions) : q.state = "open") <=>
           \E n \in DOMAIN made.questions : made.questions[n].id \in open
    BY <1>3 DEF ToSet
  <2>2. open \cap IdsOf(made.questions) # {} <=> \E n \in DOMAIN made.questions : made.questions[n].id \in open
    BY DEF IdsOf
  <2>. QED
    BY <2>1, <2>2
<1>5. ToSet(page.obligations) = {ObligationBlock(review, o) : o \in ToSet(obligations)}
  BY <1>2 DEF ToSet
<1>. QED
  BY <1>2, <1>4, <1>5 DEF page, review

\* The verdict of it, and what is said with it, where no id is of two obligations.
LEMMA HeadlineSays ==
    ASSUME NEW mismatched, Apart(obligations)
    PROVE  LET review == Review(Findings(mismatched))
               gaps == Gaps(Findings(mismatched))
               standings == {Standing(o, ClassOf(o), gaps) : o \in ToSet(obligations)}
               complete == Unjudged(made.dispositions, IdsOf(obligations)) = {} /\ ~Unread
           IN  /\ review.verdict = Bounded(RolledUp(standings, open), complete)
               /\ review.explained.short = {} <=> complete
               /\ \A o \in ToSet(obligations) :
                     /\ o.id \in review.explained.why.gaps => Standing(o, ClassOf(o), gaps) = "gap"
                     /\ o.id \in review.explained.why.weak => Standing(o, ClassOf(o), gaps) = "weak"
<1> DEFINE findings == Findings(mismatched)
           review == Review(findings)
           gaps == Gaps(findings)
           class == EachObligation(ClassOf)
           standings == {Standing(o, ClassOf(o), gaps) : o \in ToSet(obligations)}
           complete == Unjudged(made.dispositions, IdsOf(obligations)) = {} /\ ~Unread
           explained == Explained(obligations, class, findings, open, made.dispositions, Unread)
           standing == [id \in IdsOf(obligations) |-> Standing(ById(obligations, id), class[id], gaps)]
<1>1. /\ review.verdict = DeriveVerdict(obligations, class, findings, open, made.dispositions, Unread)
      /\ review.explained = explained
  BY DEF Review
<1>2. ASSUME NEW o \in ToSet(obligations)
      PROVE  /\ o.id \in IdsOf(obligations) /\ class[o.id] = ClassOf(o)
             /\ ById(obligations, o.id) = o
  BY ItsOwn DEF EachObligation
<1> HIDE DEF class, findings, review
<1>3. {Standing(o, class[o.id], gaps) : o \in ToSet(obligations)} = standings
  BY <1>2
<1>4. review.verdict = Bounded(RolledUp(standings, open), complete)
  BY <1>1, <1>3 DEF DeriveVerdict
<1>5. explained.short = {} <=> complete
  <2> DEFINE coverage == MandateCoverage(made.dispositions, IdsOf(obligations), Unread)
  <2>1. explained.short = IF SpeaksToAll(coverage) THEN {} ELSE Shortfall(coverage)
    BY DEF Explained
  <2>2. /\ coverage.unjudged = Unjudged(made.dispositions, IdsOf(obligations))
        /\ coverage.unread = Unread
    BY DEF MandateCoverage
  <2> HIDE DEF coverage, explained
  <2>3. SpeaksToAll(coverage) <=> complete
    BY <2>2 DEF SpeaksToAll
  <2>4. ~SpeaksToAll(coverage) => Shortfall(coverage) # {}
    <3>1. coverage.unjudged # {} => "requirements" \in Shortfall(coverage)
      BY DEF Shortfall
    <3>2. coverage.unread => "blocks" \in Shortfall(coverage)
      BY DEF Shortfall
    <3>. QED
      BY <3>1, <3>2 DEF SpeaksToAll
  <2>. QED
    BY <2>1, <2>3, <2>4
<1>6. \/ explained.why = IncompleteRationale(standing)
      \/ explained.why = IncompleteRationale(<<>>)
  BY DEF Explained
<1>7. ASSUME NEW o \in ToSet(obligations)
      PROVE  /\ o.id \in explained.why.gaps => Standing(o, ClassOf(o), gaps) = "gap"
             /\ o.id \in explained.why.weak => Standing(o, ClassOf(o), gaps) = "weak"
  <2>1. standing[o.id] = Standing(o, ClassOf(o), gaps)
    BY <1>2
  <2> HIDE DEF explained, standing, gaps
  <2>. QED
    BY <1>6, <2>1 DEF IncompleteRationale
<1>. QED
  BY <1>1, <1>4, <1>5, <1>7 DEF findings, review

\* The headline is positive exactly where nothing on the page is against it.
LEMMA HeadlineIsBorne ==
    ASSUME IsList(obligations), Rated, Found, Typed, Apart(obligations), DOMAIN coverages = IdsOf(ToClassify),
           NEW mismatched
    PROVE  LET page == RenderReport(Review(Findings(mismatched)))
           IN  page.headline = "no_material_gaps" <=> page.obligations # <<>> /\ ~Concern(page)
<1> DEFINE review == Review(Findings(mismatched))
           page == RenderReport(review)
           gaps == Gaps(Findings(mismatched))
           standings == {Standing(o, ClassOf(o), gaps) : o \in ToSet(obligations)}
           complete == Unjudged(made.dispositions, IdsOf(obligations)) = {} /\ ~Unread
           block(o) == ObligationBlock(review, o)
<1>1. /\ page.headline = review.verdict
      /\ DOMAIN page.obligations = DOMAIN obligations
      /\ ToSet(page.obligations) = {block(o) : o \in ToSet(obligations)}
      /\ page.mandate.unjudged = Unjudged(made.dispositions, IdsOf(obligations))
      /\ page.short = review.explained.short
      /\ (\E q \in ToSet(page.questions) : q.state = "open") <=> open \cap IdsOf(made.questions) # {}
  BY PageShows
<1>2. /\ review.verdict = Bounded(RolledUp(standings, open), complete)
      /\ review.explained.short = {} <=> complete
  BY HeadlineSays
<1>3. \A o \in ToSet(obligations) :
         Standing(o, ClassOf(o), gaps) \notin {"gap", "weak", "non_code", "indeterminate"} =>
            ~Doubtful(block(o))
  BY StandingSure
<1>4. \A o \in ToSet(obligations) :
         o.says \notin gaps /\ ~Doubtful(block(o)) =>
            Standing(o, ClassOf(o), gaps) \in {"code_only", "supported"}
  BY SureStanding
<1>5. \A says \in gaps : \E o \in ToSet(obligations) : Doubtful(block(o))
  <2> SUFFICES ASSUME NEW says \in gaps PROVE \E o \in ToSet(obligations) : Doubtful(block(o))
    OBVIOUS
  <2>1. PICK o \in ToSet(obligations) :
           RequiresCode(o) /\ StatusOf(o) \notin {"addressed", "not required"}
    BY GapsShow
  <2>2. block(o).code = StatusOf(o)
    BY <2>1, BlockShows
  <2>. QED
    BY <2>1, <2>2 DEF Doubtful
<1> HIDE DEF review, page, gaps, block
<1>6. Concern(page) <=> \/ open \cap IdsOf(made.questions) # {}
                        \/ \E o \in ToSet(obligations) : Doubtful(block(o))
                        \/ ~complete
  <2>1. (\E b \in ToSet(page.obligations) : Doubtful(b)) <=>
           \E o \in ToSet(obligations) : Doubtful(block(o))
    BY <1>1
  <2>2. Concern(page) <=> \/ \E q \in ToSet(page.questions) : q.state = "open"
                          \/ \E b \in ToSet(page.obligations) : Doubtful(b)
                          \/ page.mandate.unjudged # {} \/ page.short # {}
    BY DEF Concern, Doubtful
  <2>. QED
    BY <1>1, <1>2, <2>1, <2>2
<1>7. page.obligations # <<>> <=> standings # {}
  <2>1. page.obligations # <<>> <=> DOMAIN page.obligations # {}
    BY DEF page, RenderReport
  <2>2. ToSet(obligations) # {} <=> DOMAIN obligations # {}
    BY DEF ToSet
  <2>. QED
    BY <1>1, <2>1, <2>2
<1>8. ASSUME page.headline = "no_material_gaps"
      PROVE  page.obligations # <<>> /\ ~Concern(page)
  <2>1. complete /\ RolledUp(standings, open) = "no_material_gaps"
    BY <1>1, <1>2, <1>8 DEF Bounded
  <2>2. /\ standings # {} /\ open = {}
        /\ \A s \in standings : s \notin {"gap", "weak", "non_code", "indeterminate"}
    BY <2>1, RolledUpClean
  <2>3. \A o \in ToSet(obligations) : ~Doubtful(block(o))
    BY <1>3, <2>2
  <2>. QED
    BY <1>6, <1>7, <2>1, <2>2, <2>3
<1>9. ASSUME page.obligations # <<>>, ~Concern(page)
      PROVE  page.headline = "no_material_gaps"
  <2>1. complete /\ open = {} /\ \A o \in ToSet(obligations) : ~Doubtful(block(o))
    BY <1>6, <1>9 DEF Rated
  <2>2. gaps = {}
    BY <1>5, <2>1
  <2>3. \A s \in standings : s \in {"code_only", "supported"}
    BY <1>4, <2>1, <2>2
  <2>4. standings # {}
    BY <1>7, <1>9
  <2> HIDE DEF standings, complete
  <2>5. RolledUp(standings, open) = "no_material_gaps"
    BY <2>1, <2>3, <2>4 DEF RolledUp
  <2>. QED
    BY <1>1, <1>2, <2>1, <2>5 DEF Bounded
<1>. QED
  BY <1>8, <1>9 DEF page, review

\* What the rationale says of an obligation shows where one with its description is
\* listed.
LEMMA RationaleIsBorne ==
    ASSUME IsList(obligations), Found, Apart(obligations), DOMAIN coverages = IdsOf(ToClassify),
           NEW mismatched
    PROVE  LET page == RenderReport(Review(Findings(mismatched)))
           IN  \A b \in ToSet(page.obligations) :
                  /\ b.id \in page.rationale.gaps =>
                        \E c \in ToSet(page.obligations) :
                           c.says = b.says /\ c.code \notin {"addressed", "not required"}
                  /\ b.id \in page.rationale.weak => b.prescribed \/ b.missing \/ b.measured # <<>>
<1> DEFINE review == Review(Findings(mismatched))
           page == RenderReport(review)
           gaps == Gaps(Findings(mismatched))
           block(o) == ObligationBlock(review, o)
<1>1. /\ ToSet(page.obligations) = {block(o) : o \in ToSet(obligations)}
      /\ page.rationale = review.explained.why
  BY PageShows
<1>2. ASSUME NEW o \in ToSet(obligations)
      PROVE  /\ block(o).id = o.id /\ block(o).says = o.says
             /\ RequiresCode(o) => block(o).code = StatusOf(o)
             /\ RequiresTests(o) /\ ClassOf(o) # "none" => block(o).measured # <<>>
  BY BlockShows
<1>3. ASSUME NEW o \in ToSet(obligations)
      PROVE  /\ o.id \in review.explained.why.gaps => Standing(o, ClassOf(o), gaps) = "gap"
             /\ o.id \in review.explained.why.weak => Standing(o, ClassOf(o), gaps) = "weak"
  BY HeadlineSays
<1>4. \A says \in gaps : \E o \in ToSet(obligations) :
         o.says = says /\ RequiresCode(o) /\ StatusOf(o) \notin {"addressed", "not required"}
  BY GapsShow
<1> HIDE DEF review, page, gaps, block
<1>5. ASSUME NEW o \in ToSet(obligations), o.id \in page.rationale.gaps
      PROVE  \E c \in ToSet(page.obligations) :
                c.says = o.says /\ c.code \notin {"addressed", "not required"}
  <2>1. o.says \in gaps
    BY <1>1, <1>3, <1>5 DEF Standing
  <2>2. PICK p \in ToSet(obligations) :
           p.says = o.says /\ RequiresCode(p) /\ StatusOf(p) \notin {"addressed", "not required"}
    BY <1>4, <2>1
  <2>3. /\ block(p) \in ToSet(page.obligations) /\ block(p).says = o.says
        /\ block(p).code \notin {"addressed", "not required"}
    BY <1>1, <1>2, <2>2
  <2>. QED
    BY <2>3
<1>6. ASSUME NEW o \in ToSet(obligations), o.id \in page.rationale.weak
      PROVE  block(o).measured # <<>>
  <2>1. Standing(o, ClassOf(o), gaps) = "weak"
    BY <1>1, <1>3, <1>6
  <2>2. RequiresTests(o) /\ ClassOf(o) # "none"
    BY <2>1 DEF Standing
  <2>. QED
    BY <1>2, <2>2
<1>7. \A b \in ToSet(page.obligations) : \E o \in ToSet(obligations) :
         b = block(o) /\ b.id = o.id /\ b.says = o.says
  BY <1>1, <1>2
<1>8. \A b \in ToSet(page.obligations) :
         /\ b.id \in page.rationale.gaps =>
               \E c \in ToSet(page.obligations) :
                  c.says = b.says /\ c.code \notin {"addressed", "not required"}
         /\ b.id \in page.rationale.weak => b.prescribed \/ b.missing \/ b.measured # <<>>
  BY <1>5, <1>6, <1>7
<1>. QED
  BY <1>8 DEF page, review

\* The obligations are those of the file and those derived after them, and those of
\* the file have ids of their own.
HasResolved == step \in {"enumerating", "judging", "classifying"} \/ HasClassified

Separate ==
    /\ Apart(fresh) /\ Apart(made.obligations)
    /\ HasResolved => ToSet(obligations) \subseteq ToSet(made.obligations) \cup Derived

\* Merging leaves each its id.
LEMMA MergedApart ==
    ASSUME NEW os, AreObligations(os), Apart(os), NEW survivor
    PROVE  Apart(MergedObligations(os, survivor))
<1> DEFINE allSpans(id) == UNION {p.spans : p \in {q \in ToSet(os) : survivor[q.id] = id}}
           all == [n \in DOMAIN os |-> [os[n] EXCEPT !.spans = allSpans(os[n].id)]]
           merged == Only(all, {o \in ToSet(all) : survivor[o.id] = o.id})
<1>1. MergedObligations(os, survivor) = merged
  BY DEF MergedObligations, Where
<1>2. \A n \in DOMAIN os : os[n] \in ToSet(os) /\ ObligationFields \subseteq DOMAIN os[n]
  BY DEF AreObligations, ToSet
<1> HIDE DEF allSpans
<1>3. \A n \in DOMAIN os : all[n].id = os[n].id /\ all[n] = [os[n] EXCEPT !.spans = allSpans(os[n].id)]
  BY <1>2 DEF ObligationFields
<1>4. /\ DOMAIN all = DOMAIN os /\ all = [n \in DOMAIN os |-> all[n]]
      /\ \A x \in ToSet(all) : \E n \in DOMAIN os : x = all[n]
      /\ \A n \in DOMAIN os : all[n] \in ToSet(all)
  BY DEF ToSet
<1> HIDE DEF all
<1>5. ASSUME NEW x \in ToSet(all), NEW y \in ToSet(all), x.id = y.id PROVE x = y
  <2>1. PICK n \in DOMAIN os, m \in DOMAIN os : x = all[n] /\ y = all[m]
    BY <1>4
  <2>2. os[n].id = os[m].id
    BY <1>3, <1>5, <2>1
  <2>3. os[n] = os[m]
    BY <1>2, <2>2 DEF Apart
  <2>. QED
    BY <1>3, <2>1, <2>3
<1>6. IsList(all)
  BY <1>4, Mapped DEF AreObligations
<1>7. ToSet(merged) \subseteq ToSet(all)
  BY <1>6, OnlyHas
<1>. QED
  BY <1>1, <1>5, <1>7 DEF Apart

\* The file's obligations keep ids of their own.
LEMMA FileApart ==
    ASSUME Inv, ReadShape, Apart(fresh), Apart(made.obligations), [Next]_vars
    PROVE  Apart(made'.obligations)
<1>1. RunShape
  BY DEF Inv
<1>2. CASE NothingRead
  BY <1>2 DEF NothingRead, Nothing, Apart, ToSet
<1>3. CASE UNCHANGED made
  BY <1>3
<1>4. CASE Reconcile
  <2>1. CASE step' = "linking"
    BY <1>1, <1>4, <2>1, ReconciledStands DEF Stands
  <2>2. CASE step' # "linking"
    BY <1>3, <1>4, <2>2 DEF Reconcile
  <2>. QED
    BY <2>1, <2>2
<1>5. CASE Link
  <2>1. ASSUME NEW decisions, Linked(decisions) PROVE Apart(made'.obligations)
    <3>1. PICK survivor : made' = [made EXCEPT !.obligations = MergedObligations(made.obligations, survivor),
                                               !.dispositions = Relinked(made.dispositions, survivor)]
      BY <2>1 DEF Linked
    <3>2. made'.obligations = MergedObligations(made.obligations, survivor)
      BY <3>1 DEF ReadShape, IsMade
    <3>. QED
      BY <3>2, MergedApart DEF ReadShape, IsMade
  <2>. QED
    BY <1>3, <1>5, <2>1, LinkingDecides
<1>6. PlanCarry \/ AskAbout \/ DecideSpans \/ AskSpan => UNCHANGED made
  BY DEF PlanCarry, AskAbout, DecideSpans, AskSpan
<1>7. UNCHANGED readVars => UNCHANGED made
  BY DEF readVars
<1>. QED
  BY <1>2, <1>3, <1>4, <1>5, <1>6, <1>7, ReadingChanges

\* The second of two lists that were joined.
LEMMA TailOfJoined ==
    ASSUME NEW s, NEW t, IsList(s), IsList(t)
    PROVE  ToSet(SubSeq(s \o t, Len(s) + 1, Len(s \o t))) = ToSet(t)
<1> DEFINE u == SubSeq(s \o t, Len(s) + 1, Len(s \o t))
<1>1. s \in Seq(ToSet(s)) /\ t \in Seq(ToSet(t))
  BY DEF IsList
<1>2. Len(s \o t) = Len(s) + Len(t) /\ Len(s) \in Nat /\ Len(t) \in Nat
  BY <1>1
<1>3. /\ DOMAIN u = 1..Len(t)
      /\ \A k \in 1..Len(t) : u[k] = (s \o t)[Len(s) + k]
  BY <1>1, <1>2
<1>4. DOMAIN t = 1..Len(t) /\ \A k \in 1..Len(t) : (s \o t)[Len(s) + k] = t[k]
  BY <1>1, <1>2
<1> HIDE DEF u
<1>5. ToSet(u) = ToSet(t)
  BY <1>3, <1>4 DEF ToSet
<1>. QED
  BY <1>5 DEF u

\* Once the questions are resolved, what is judged is judged of the same
\* obligations to the end.
LEMMA StillJudged ==
    ASSUME LeftShape, [Next]_vars, HasResolved', ~ResolveQuestions
    PROVE  HasResolved /\ UNCHANGED <<made, obligations>>
<1>1. HasResolved' => step' \in {"enumerating", "judging", "classifying", "detecting", "prescribing",
                                 "concluding", "recording"}
  BY DEF HasResolved, HasClassified
<1>2. CASE StartDecompose \/ StartCheck \/ CallFails \/ Kill
  <2>1. step' \in {"planning", "claiming", "refused", "crashed", "model_error", "killed"}
    BY <1>2 DEF StartDecompose, StartCheck, Begin, Admission, CallFails, Kill
  <2>. QED
    BY <1>1, <2>1
<1>3. CASE ReadingStep
  <2>1. FirstFault(Requirements) # "none" =>
           FirstFault(Requirements) \notin {"enumerating", "judging", "classifying", "detecting",
                                            "prescribing", "concluding", "recording"}
    BY FaultsAreOutcomes
  <2>2. ~(step' \in {"enumerating", "judging", "classifying", "detecting", "prescribing", "concluding"})
    BY <1>3, <2>1 DEF ReadingStep, PlanCarry, AskAbout, DecideSpans, AskSpan, SummaryDone, Reconcile,
                      Link, Record, WriteLedger, BuildClaims, Synthesize
  <2>3. ~(step' = "recording" /\ run'.command = "check")
    BY <1>3, <2>1 DEF ReadingStep, PlanCarry, AskAbout, DecideSpans, AskSpan, SummaryDone, Reconcile,
                      Link, Record, WriteLedger, BuildClaims, Synthesize
  <2>. QED
    BY <2>2, <2>3 DEF HasResolved, HasClassified
<1>4. CASE EnumerateDefects \/ JudgeDefects \/ ClassifyCoverage \/ DetectUnrequested
           \/ PrescribeTests
  BY <1>4 DEF EnumerateDefects, JudgeDefects, ClassifyCoverage, DetectUnrequested, PrescribeTests,
              readingVars, HasResolved, HasClassified
<1>5. CASE StoreReview
  BY <1>5 DEF StoreReview, readingVars, judgementVars, HasResolved, HasClassified
<1>6. CASE RecordCheck
  BY <1>1, <1>6 DEF RecordCheck, WriteLedger
<1>7. CASE Finished \/ UNCHANGED vars
  BY <1>7 DEF Finished, vars, decomposeVars, checkVars, readingVars, judgementVars, HasResolved,
              HasClassified
<1>. QED
  BY <1>2, <1>3, <1>4, <1>5, <1>6, <1>7 DEF Next, Judging

\* What a check judges is of the file or derived.
LEMMA ResolvedSeparate ==
    ASSUME ReadShape, ResolveQuestions
    PROVE  ToSet(obligations') \subseteq ToSet(made'.obligations) \cup Derived'
<1>1. PICK resolutions :
         /\ IsList(DerivedObligations(resolutions))
         /\ obligations' = made.obligations \o DerivedObligations(resolutions)
  BY ResolvedHave
<1>2. UNCHANGED made
  BY DEF ResolveQuestions, readingVars
<1> DEFINE file == made.obligations
           derived == DerivedObligations(resolutions)
<1>3. IsList(file)
  BY DEF ReadShape, IsMade, AreObligations
<1>4. Derived' = ToSet(SubSeq(file \o derived, Len(file) + 1, Len(file \o derived)))
  BY <1>1, <1>2 DEF Derived
<1> HIDE DEF derived, file
<1>5. ToSet(SubSeq(file \o derived, Len(file) + 1, Len(file \o derived))) = ToSet(derived)
  BY <1>1, <1>3, TailOfJoined DEF derived
<1>6. ToSet(file \o derived) = ToSet(file) \cup ToSet(derived)
  BY <1>1, <1>3, JoinedLists DEF derived
<1>. QED
  BY <1>1, <1>2, <1>4, <1>5, <1>6 DEF file, derived

\* It always holds.
LEMMA SeparateHolds == Spec => []Separate
<1>1. Init => Separate
  <2> SUFFICES ASSUME Init PROVE Separate
    OBVIOUS
  <2>1. fresh = <<>> /\ made = Nothing /\ step = "idle"
    BY DEF Init, InitDecompose
  <2>. QED
    BY <2>1 DEF Separate, HasResolved, HasClassified, Apart, ToSet, Nothing
<1>2. Separate /\ ReadShape /\ LeftShape /\ Inv /\ [Next]_vars => Separate'
  <2> SUFFICES ASSUME Separate, ReadShape, LeftShape, Inv, [Next]_vars PROVE Separate'
    OBVIOUS
  <2>1. Apart(fresh')
    BY ApartKept DEF Separate
  <2>2. Apart(made'.obligations)
    BY FileApart DEF Separate
  <2>3. ASSUME HasResolved' PROVE ToSet(obligations') \subseteq ToSet(made'.obligations) \cup Derived'
    <3>1. CASE ResolveQuestions
      BY <3>1, ResolvedSeparate
    <3>2. ASSUME ~ResolveQuestions PROVE HasResolved /\ UNCHANGED <<made, obligations>>
      BY <2>3, <3>2, StillJudged
    <3>3. CASE ~ResolveQuestions
      BY <3>2, <3>3 DEF Separate, Derived
    <3>. QED
      BY <3>1, <3>3
  <2>. QED
    BY <2>1, <2>2, <2>3 DEF Separate
<1>. QED
  BY <1>1, <1>2, ReadShapeHolds, LeftShapeHolds, InvHolds, PTL DEF Spec

\* Each obligation that was derived from a question has an id of its own.  An answer
\* may have it otherwise: one that settles a question twice derives two with one id,
\* and an id that was minted for the file may have the form of a derived one
\* (coverage/open_questions.py, derived_obligation_id).
DerivedApart == \A o \in Derived : \A p \in ToSet(obligations) : o.id = p.id => o = p

\* The headline of a check is positive exactly when the rest of its page gives no
\* reason against it, and what its rationale says of an obligation shows on the page,
\* whatever file, change and answers it had, where the derived obligations have ids
\* of their own; those of the file always do: report.py, render_report, with
\* verdict.py.
THEOREM HeadlineBorne == Spec => [](DerivedApart => PageBearsTheHeadline)
<1>1. Rated /\ Separate /\ Regions /\ Found /\ Typed /\ DerivedApart => PageBearsTheHeadline
  <2> SUFFICES ASSUME Rated, Separate, Regions, Found, Typed, DerivedApart, NEW review \in JustStored
               PROVE  LET page == RenderReport(review)
                      IN  /\ page.headline = "no_material_gaps" <=>
                                page.obligations # <<>> /\ ~Concern(page)
                          /\ \A b \in ToSet(page.obligations) :
                                /\ b.id \in page.rationale.gaps =>
                                      \E c \in ToSet(page.obligations) :
                                         c.says = b.says /\ c.code \notin {"addressed", "not required"}
                                /\ b.id \in page.rationale.weak =>
                                      b.prescribed \/ b.missing \/ b.measured # <<>>
    BY DEF PageBearsTheHeadline
  <2>1. step = "recording" /\ run.command = "check" /\ review = reviews[run.head]
    BY DEF JustStored
  <2>2. PICK mismatched \in BOOLEAN : review = Review(Findings(mismatched))
    BY <2>1 DEF Rated
  <2>3. HasClassified /\ HasResolved
    BY <2>1 DEF HasClassified, HasResolved
  <2>4. Apart(obligations)
    <3>1. ToSet(obligations) \subseteq ToSet(made.obligations) \cup Derived /\ Apart(made.obligations)
      BY <2>3 DEF Separate
    <3>2. ASSUME NEW x \in ToSet(obligations), NEW y \in ToSet(obligations), x.id = y.id PROVE x = y
      <4>1. x \in Derived \/ y \in Derived => x = y
        BY <3>2 DEF DerivedApart
      <4>2. x \notin Derived /\ y \notin Derived => x = y
        BY <3>1, <3>2 DEF Apart
      <4>. QED
        BY <4>1, <4>2
    <3>. QED
      BY <3>2 DEF Apart
  <2>5. IsList(obligations)
    BY DEF Regions
  <2>6. DOMAIN coverages = IdsOf(ToClassify)
    BY <2>3 DEF Rated
  <2>. QED
    BY <2>2, <2>4, <2>5, <2>6, HeadlineIsBorne, RationaleIsBorne
<1>. QED
  BY <1>1, RatedHolds, SeparateHolds, RegionsHold, FoundHolds, TypedHolds, PTL
=============================================================================
