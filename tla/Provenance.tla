------------------------------- MODULE Provenance -------------------------------
(***************************************************************************)
(* What a run says of its own calls: which determinism controls and which  *)
(* models were in force (llm.ModelClient, config.provenance_for,           *)
(* review_state.ReviewProvenance), and what they cost (usage.py).          *)
(*                                                                         *)
(* Both are read off the calls the client completed, live or from a        *)
(* recording, and never off the configuration.  A call that failed, or     *)
(* whose reply was refused, is not among them.                             *)
(***************************************************************************)
EXTENDS ModelClient, FiniteSetsExt, SequencesExt

CONSTANTS
    Asks,            \* the keys each call may ask for
    Temperature,     \* what every completion asks for; the seed may be None
    Seed,
    Usage,           \* of each answer: the figures its recording has
    AnthropicModels, \* the models that Anthropic's own API serves
    Stages           \* the stages, in the order their rows come in

\* What the settings of a run decide.  Each model they name states its provider;
\* the temperature is always set; and how much a call reasons is settled for its
\* stage, so that it is not asked of an embedding.
RunConfig ==
    /\ Models \union AnthropicModels \subseteq DOMAIN Honours
    /\ Temperature # None
    /\ \A k \in Keys : Request[k].kind = "embedding" => Request[k].effort = None
    /\ \A k, l \in {n \in Keys : Request[n].kind = "completion"} :
          Request[k].stage = Request[l].stage => Request[k].effort = Request[l].effort

\* A client makes so many calls, a recording has amounts, and there is one row for
\* each stage that can ask, in its place.
ASSUME ProvenanceAssumption ==
    /\ RunConfig
    /\ IsFiniteSet(Calls) /\ None \notin {"recording", "provider"}
    /\ \A a \in Answers : \A figure \in DOMAIN Usage[a] : Usage[a][figure] \in Nat
    /\ Stages \in Seq(ToSet(Stages)) /\ IsInjective(Stages)
    /\ \A k \in Keys : Request[k].stage \in ToSet(Stages)

VARIABLE observed    \* of each completed call: where its answer came from

provenanceVars == <<vars, observed>>

\* The recordings that no call asks for are left out: none is read.
InitProvenance ==
    /\ Init /\ \A c \in Calls : key[c] \in Asks[c]
    /\ \A k \in Keys : (\A c \in Calls : key[c] # k) => file[k] = None
    /\ observed = [c \in Calls |-> None]

\* A call is noted once it has its answer: after the write, if it was live.
Observe(c, servedFrom) ==
    observed' = IF pc'[c] = "answered" THEN [observed EXCEPT ![c] = servedFrom] ELSE observed

\* A run has a client of its own.
NextProvenance ==
    \/ \E c \in Calls :
          \/ LookUp(c) /\ Observe(c, "recording")
          \/ Write(c) /\ Observe(c, "provider")
          \/ (Reply(c) \/ Open(c) \/ WriteFails(c)) /\ UNCHANGED observed
    \/ \E r \in Runs :
          \/ Kill(r) /\ UNCHANGED observed
          \/ Rerun(r) /\ observed' = [c \in Calls |-> IF RunOf[c] = r THEN None ELSE observed[c]]

ProvenanceSpec == InitProvenance /\ [][NextProvenance]_provenanceVars
-----------------------------------------------------------------------------
(***************************************************************************)
(* The calls of a run that is up.                                          *)
(***************************************************************************)

Observed(r) == {c \in Calls : RunOf[c] = r /\ observed[c] # None}
Live(calls) == {c \in calls : observed[c] = "provider"}

OfStage(calls, stage) == {c \in calls : Request[key[c]].stage = stage}
StagesOf(calls) == {Request[key[c]].stage : c \in calls}
Completions(r) == {c \in Observed(r) : Request[key[c]].kind = "completion"}

(***************************************************************************)
(* What was in force.                                                      *)
(***************************************************************************)

\* What a completion asks of the provider, as part of its request.
Requested(c) ==
    [temperature |-> Temperature, seed |-> Seed, reasoning_effort |-> Request[key[c]].effort]

\* What the provider applies of it.
EffectiveControls(c) ==
    [name \in DOMAIN Requested(c) |->
        IF name \in Honours[ModelOf(c)] THEN Requested(c)[name] ELSE None]

\* What the recording says a call ran under; older ones say nothing.
Controls(c) == IF record[c] \in Older THEN None ELSE EffectiveControls(c)

\* The value all agree on.
Agreed(values) == IF Cardinality(values) = 1 THEN CHOOSE v \in values : TRUE ELSE None

InForce(calls, name) ==
    Agreed({IF Controls(c) = None THEN None ELSE Controls(c)[name] : c \in calls})

\* Mutant: a call that reported nothing is left out.
ControlsInForceOfTheKnown(r) ==
    LET known == {c \in Completions(r) : Controls(c) # None}
    IN  IF known = {} THEN None
        ELSE [name \in {"temperature", "seed"} |-> InForce(known, name)]

\* A run is only as pinned as its least pinned call; None where nothing is known
\* of any.
ControlsInForce(r) ==
    IF \A c \in Completions(r) : Controls(c) = None THEN None
    ELSE [name \in {"temperature", "seed"} |-> InForce(Completions(r), name)]

StageControlsInForce(r) ==
    [stage \in StagesOf(Completions(r)) |->
        [name \in {"temperature", "seed", "reasoning_effort"} |->
            InForce(OfStage(Completions(r), stage), name)]]

\* A stage whose calls went to several models is left out.
StageModelsInForce(r) ==
    LET models(stage) == {ModelOf(c) : c \in OfStage(Observed(r), stage)}
    IN  [stage \in {s \in StagesOf(Observed(r)) : Cardinality(models(s)) = 1} |->
            Agreed(models(stage))]

\* So is one whose calls were partitioned differently.
PartitionSizesInForce(r) ==
    LET parted == {c \in Completions(r) : Request[key[c]].partition # None}
        sizes(stage) == {Request[key[c]].partition : c \in OfStage(parted, stage)}
    IN  [stage \in {s \in StagesOf(parted) : Cardinality(sizes(s)) = 1} |-> Agreed(sizes(stage))]

DeterminismControls == [temperature : {Temperature, None}, seed : {Seed, None}]

StageControls ==
    [temperature : {Temperature, None}, seed : {Seed, None},
     reasoning_effort : {Request[k].effort : k \in Keys} \union {None}]

\* What is said of some of the stages.
OfSome(values) == UNION {[stages -> values] : stages \in SUBSET ToSet(Stages)}

\* What a review says of how it was produced.  Nothing is in force that was not
\* asked for.
ReviewProvenance ==
    [determinism_mode : {"record", "replay"}, model : {Model},
     controls_requested : DeterminismControls,
     controls_in_force : DeterminismControls \union {None},
     request_partition_sizes : OfSome({Request[k].partition : k \in Keys} \ {None}),
     stage_models : OfSome({ModelFor(s) : s \in ToSet(Stages)} \union {EmbeddingModel}),
     stage_controls : OfSome(StageControls)]

ProvenanceFor(r) ==
    [determinism_mode |-> mode[r], model |-> Model,
     controls_requested |-> [temperature |-> Temperature, seed |-> Seed],
     controls_in_force |-> ControlsInForce(r),
     request_partition_sizes |-> PartitionSizesInForce(r),
     stage_models |-> StageModelsInForce(r), stage_controls |-> StageControlsInForce(r)]

Determinism(provenance) ==
    LET requested == provenance.controls_requested
        honoured == provenance.controls_in_force
    IN  IF honoured = None THEN "indeterminate"
        ELSE IF \A name \in DOMAIN requested : requested[name] \in {None, honoured[name]}
             THEN "pinned"
        ELSE "unpinned"

\* The models a live run is warned it has no key for, before its first call.
MissingKeysByModel(r) ==
    IF mode[r] = "record" THEN {m \in Models : Provider[m] \in keyless[r]} ELSE {}
-----------------------------------------------------------------------------
(***************************************************************************)
(* What they cost.                                                         *)
(***************************************************************************)

\* A figure a recording may lack.
Number(c, figure) ==
    IF figure \in DOMAIN Usage[record[c]] THEN Usage[record[c]][figure] ELSE None

\* The sum of the figures of its rows, or of its calls.
Sum(figures) == MapThenSumSet(LAMBDA row : figures[row], DOMAIN figures)

Reporting(calls, figure) == {c \in calls : Number(c, figure) # None}
Total(calls, figure) == Sum([c \in Reporting(calls, figure) |-> Number(c, figure)])

\* None where no call reported the figure.
Measured(calls, figure) ==
    IF Reporting(calls, figure) = {} THEN None ELSE Total(calls, figure)

Anthropic(calls) == {c \in calls : ModelOf(c) \in AnthropicModels}

Money(calls) ==
    [run_spend |-> Total(Live(calls), "cost"), evidence_cost |-> Total(calls, "cost")]

StageUsage(calls) ==
    [models |-> {ModelOf(c) : c \in calls},
     provider_calls |-> Cardinality(Live(calls)),
     replayed_calls |-> Cardinality(calls \ Live(calls)),
     prompt |-> Total(calls, "prompt"), completion |-> Total(calls, "completion"),
     cached |-> Measured(calls, "cached"),
     measured_prompt |-> Total(Reporting(calls, "cached"), "prompt"),
     reasoning |-> Measured(calls, "reasoning"),
     call_seconds |-> IF Live(calls) = {} THEN None ELSE Cardinality(Live(calls)),
     all |-> Money(calls), anthropic |-> Money(Anthropic(calls)),
     other |-> Money(calls \ Anthropic(calls))]

\* One row of each stage that issued a call.
Summarize(calls) ==
    [stage \in StagesOf(calls) |-> StageUsage(OfStage(calls, stage))]

CachedShare(row) ==
    IF row.cached = None \/ row.measured_prompt = 0 THEN None
    ELSE <<row.cached, row.measured_prompt>>

\* The stages among these in the order of their rows.
InOrder(stages) ==
    FlattenSeq([n \in DOMAIN Stages |-> IF Stages[n] \in stages THEN <<Stages[n]>> ELSE <<>>])

\* What a row shows.  A column of reasoning is there if some stage reasoned.
Columns(rows, row) ==
    [models |-> row.models, calls |-> row.provider_calls + row.replayed_calls,
     prompt |-> row.prompt, completion |-> row.completion,
     reasoning |-> IF \E s \in DOMAIN rows : rows[s].reasoning \notin {None, 0}
                   THEN row.reasoning ELSE None,
     cached |-> CachedShare(row), this_run |-> row.all.run_spend,
     recorded |-> row.all.evidence_cost, time |-> row.call_seconds]

\* The footer.
Render(rows) ==
    LET listed == InOrder(DOMAIN rows)
    IN  [lines |-> [n \in DOMAIN listed |-> Columns(rows, rows[listed[n]])],
         spent |-> Sum([s \in DOMAIN rows |-> rows[s].all.run_spend]),
         live |-> Sum([s \in DOMAIN rows |-> rows[s].provider_calls]),
         cost |-> Sum([s \in DOMAIN rows |-> rows[s].all.evidence_cost]),
         replayed |-> Sum([s \in DOMAIN rows |-> rows[s].replayed_calls]),
         credits |-> <<Sum([s \in DOMAIN rows |-> rows[s].anthropic.run_spend]),
                       Sum([s \in DOMAIN rows |-> rows[s].anthropic.evidence_cost])>>,
         others |-> <<Sum([s \in DOMAIN rows |-> rows[s].other.run_spend]),
                      Sum([s \in DOMAIN rows |-> rows[s].other.evidence_cost])>>]

\* What was spent on each labelled subject, by stage.
PerLabel(calls, stages) ==
    LET labelled == {c \in calls : Request[key[c]].stage \in stages /\ Request[key[c]].label # None}
        of(row) == {c \in OfStage(labelled, row[2]) : Request[key[c]].label = row[1]}
    IN  [row \in {<<Request[key[c]].label, Request[key[c]].stage>> : c \in labelled} |->
            [calls |-> Cardinality(of(row)), cost |-> Total(of(row), "cost"),
             seconds |-> IF Live(of(row)) = {} THEN None ELSE Cardinality(Live(of(row)))]]

\* It is shown only where the stage it is compared with did something.
RenderPerLabel(calls, stages, onlyWith) ==
    LET rows == PerLabel(calls, stages)
    IN  IF \A row \in DOMAIN rows : row[2] # onlyWith THEN <<>>
        ELSE [label \in {row[1] : row \in DOMAIN rows} |->
                [stage \in stages |->
                    IF <<label, stage>> \in DOMAIN rows THEN rows[<<label, stage>>] ELSE None]]

\* What a run prints of it.
ReportUsage(r) ==
    [usage |-> Render(Summarize(Observed(r))),
     byDefect |-> RenderPerLabel(Observed(r), {"mutation descriptor", "mutation agent"},
                                 "mutation agent")]
-----------------------------------------------------------------------------
\* The runs whose calls have come to an end, and that were not killed: a run gives
\* its account then.
Over == {r \in Runs : \A c \in Calls : RunOf[c] = r => pc[c] \in Ended \ {"dead"}}

\* The account a run gives of itself holds, whatever other runs do to the store
\* meanwhile: it covers the calls that were answered; a run is called pinned only
\* if each completion is known to have run as asked; its controls are those all
\* its stages agree on, and no other than it asked for; none is known to have run
\* without the effort its stage is configured with; two runs report the same
\* determinism of one request; no call is stopped for want of a key the run was
\* not warned of; what was spent is part of what the evidence cost, and nothing in
\* a replay; the stages, the labels and the two kinds of bill add up.  llm.py,
\* controls_in_force, observed_calls and ControlNotHonouredError; usage.py,
\* summarize.
AccountsAreOfTheRun ==
    \A r \in Over :
        LET calls == Observed(r)
            provenance == ProvenanceFor(r)
            stages == provenance.stage_controls
            footer == ReportUsage(r).usage
            byLabel == PerLabel(calls, ToSet(Stages))
        IN  /\ calls = {c \in Calls : RunOf[c] = r /\ pc[c] = "answered"}
            /\ provenance \in ReviewProvenance
            /\ Determinism(provenance) = "pinned" =>
                  \A c \in Completions(r) :
                     /\ Controls(c) # None /\ Controls(c).temperature = Temperature
                     /\ Seed # None => Controls(c).seed = Seed
            /\ provenance.controls_in_force # None =>
                  \A name \in {"temperature", "seed"} :
                     provenance.controls_in_force[name] =
                        Agreed({stages[s][name] : s \in DOMAIN stages})
            /\ \A c \in Completions(r) :
                  Controls(c) # None => Controls(c).reasoning_effort = Request[key[c]].effort
            /\ \A c \in Completions(r), d \in Calls :
                  observed[d] # None /\ pc[d] # "dead" /\ key[d] = key[c] => Controls(d) = Controls(c)
            /\ \A c \in Calls :
                  RunOf[c] = r /\ pc[c] = "unkeyed" => ModelOf(c) \in MissingKeysByModel(r)
            /\ footer.spent <= footer.cost /\ (mode[r] = "replay" => footer.spent = 0)
            /\ footer.spent = footer.credits[1] + footer.others[1]
            /\ footer.cost = footer.credits[2] + footer.others[2]
            /\ Len(footer.lines) = Cardinality(StagesOf(calls))
            /\ footer.live + footer.replayed = Cardinality(calls)
            /\ Sum([row \in DOMAIN byLabel |-> byLabel[row].cost]) <= footer.cost
=============================================================================
