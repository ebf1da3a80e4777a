------------------------------ MODULE Decompose ------------------------------
(***************************************************************************)
(* A run's reading of the task file: requirement/obligations.py, with the  *)
(* linking, the ledger and the claims after it, as cli.run_decompose and   *)
(* pipeline.run_review call them.  Runs follow one another; between them   *)
(* the file may be edited and the tool updated, and a run may continue any *)
(* earlier one.                                                            *)
(*                                                                         *)
(* The calls of a stage are concurrent, but what is done with the answers  *)
(* is done in order (MapCalls implements SerialStage), so a run is         *)
(* sequential here.                                                        *)
(***************************************************************************)
EXTENDS Carry, Claims

CONSTANTS
    Mandates,    \* the task files, by name
    Histories,   \* bound: the sequences of commands that are issued, each with
                 \* its file, its tool [prompt, logic, apart], the run it continues and
                 \* whether it may fail
    Replies,     \* what may be answered about each text
    Partitions,  \* how each summary may be divided
    Far,         \* the pairs of statements too distant to be asked about
    Rulings,     \* what may be ruled on the units of each file: for each unit the
                 \* decisions given on it
    Syntheses    \* the obligations that may be built from claims

\* A command is one of the two, is given a file and continues a run or none (0).
ASSUME HistoriesAssumption ==
    \A history \in Histories :
        /\ IsList(history)
        /\ \A n \in DOMAIN history : /\ history[n].command \in {"decompose", "check"}
                                     /\ history[n].file \in DOMAIN Mandates
                                     /\ history[n].from \in Nat

\* A file is a list of nodes, a block a list of texts, and a text one of sentences.
\* A file has a name.
ASSUME MandatesAssumption ==
    /\ "none" \notin DOMAIN Mandates
    /\ \A name \in DOMAIN Mandates :
          /\ IsList(Mandates[name])
          /\ \A node \in ToSet(Mandates[name]) :
                node.type # "heading" =>
                   IsList(node.texts) /\ \A text \in ToSet(node.texts) : IsList(text)

\* Of every unit of a file something is ruled, if only that nothing was.
ASSUME RulingsAssumption ==
    \A name \in DOMAIN Mandates : \A given \in Rulings[name] :
        DOMAIN given = DOMAIN Units(Mandates[name])

\* An answer has the shape its request asked for, or is none.  An id is a slug,
\* or a slug and a number.
ASSUME RepliesAssumption ==
    /\ \A text \in DOMAIN Replies : \A answer \in Replies[text] :
          /\ answer.tag \in {"yielded", "open_question", "no_obligation"}
          /\ IsList(answer.drafts) /\ IsList(answer.names) /\ IsList(answer.asks)
          /\ \A x \in ToSet(answer.drafts) \cup ToSet(answer.asks) : IsList(x.id)
    /\ \A text \in DOMAIN Partitions : \A answer \in Partitions[text] : IsList(answer.spans)

\* The answers that are listed for a subject.
Offered(replies, subject) == IF subject \in DOMAIN replies THEN replies[subject] ELSE {}

VARIABLES
    commands,    \* the commands still to be issued
    ledger,      \* what each run wrote: whole, torn or none yet
    step,        \* what the run is doing
    run,         \* the command, the file, the tool and the run it continues
    plan,        \* what the run takes from the run it continues
    todo,        \* the requirements still to be asked about
    spans,       \* the spans of a summary still to be asked about
    fresh,       \* the obligations answered so far
    asked,       \* the open questions answered so far
    settled,     \* the disposition of each requirement so far
    made,        \* the decomposition
    merges,      \* the answers on merging the run stands on
    units,       \* what was ruled on each unit of the mandate
    synthesized  \* the obligations built from the claims

readingVars == <<plan, todo, spans, fresh, asked, settled, made, merges, units, synthesized>>
decomposeVars == <<commands, ledger, step, run, readingVars>>

\* The requirements of each file.
RegistryOf == [file \in DOMAIN Mandates |-> Registry(Mandates[file])]
Requirements == IF run.file = "none" THEN <<>> ELSE RegistryOf[run.file]

NoPlan == [carried |-> <<>>, revised |-> <<>>, removed |-> <<>>]
Nothing == [obligations |-> <<>>, questions |-> <<>>, dispositions |-> <<>>, records |-> <<>>,
            removed |-> <<>>]
Entry(n) == ledger[n]
Blank(file) == [file |-> file, from |-> 0, logic |-> 0, records |-> <<>>,
                decisions |-> {}, sets |-> <<>>]
Readable(n) == n \in DOMAIN ledger /\ ledger[n].file = "whole"
Outcomes == {"idle", "done", "refused", "model_error", "crashed", "killed"}

NoRun == [command |-> "none", file |-> "none", from |-> 0, frail |-> FALSE,
          tool |-> [prompt |-> 0, logic |-> 0, apart |-> FALSE]]

InitDecompose ==
    /\ commands \in Histories /\ ledger = <<>> /\ step = "idle" /\ run = NoRun
    /\ plan = NoPlan /\ todo = <<>> /\ spans = <<>> /\ fresh = <<>> /\ asked = <<>>
    /\ settled = <<>> /\ made = Nothing /\ merges = {} /\ units = <<>> /\ synthesized = <<>>

\* Nothing a process held outlives it.
NothingRead ==
    /\ plan' = NoPlan /\ todo' = <<>> /\ spans' = <<>> /\ fresh' = <<>> /\ asked' = <<>>
    /\ settled' = <<>> /\ made' = Nothing /\ merges' = {} /\ units' = <<>> /\ synthesized' = <<>>

\* A run starts with a run id of its own, and nothing written under it.  The
\* run it continues may not be on record, which is as good as none.
Begin(next) ==
    /\ run' = Head(commands) /\ commands' = Tail(commands)
    /\ ledger' = Append(ledger, Blank("none"))
    /\ step' = next
    /\ NothingRead

StartDecompose ==
    /\ step \in Outcomes /\ commands # <<>> /\ Head(commands).command = "decompose"
    /\ Begin("planning")

(***************************************************************************)
(* The plan.                                                               *)
(***************************************************************************)

ToAsk(carried) ==
    LET open == Where(Requirements, LAMBDA r : RequirementId(r) \notin DOMAIN carried)
    IN  Where(open, LAMBDA r : r.section # "task")
            \o Where(open, LAMBDA r : r.section = "task")

CarriedDisposition(record) ==
    [tag |-> record.tag, obligations |-> [n \in DOMAIN record.obligations |-> record.obligations[n].id],
     questions |-> [n \in DOMAIN record.questions |-> record.questions[n].id], reason |-> record.reason]

PlanCarry ==
    /\ step = "planning" /\ step' = "asking"
    /\ IF ~Readable(run.from)
       THEN plan' = NoPlan /\ todo' = ToAsk(<<>>) /\ settled' = <<>>
       ELSE LET entry == Entry(run.from)
                carried == Carried(Requirements, entry, run.tool)
            IN  \E alignment \in Alignments(Requirements, entry, run.tool) :
                  /\ plan' = [carried |-> carried,
                              revised |-> Revised(Requirements, entry, alignment),
                              removed |-> Removed(Requirements, entry, alignment)]
                  /\ todo' = ToAsk(carried)
                  /\ settled' = [id \in DOMAIN carried |-> CarriedDisposition(carried[id])]
    /\ UNCHANGED <<commands, ledger, run, spans, fresh, asked, made, merges, units, synthesized>>

(***************************************************************************)
(* Asking about one requirement.                                           *)
(***************************************************************************)

\* One call, about one text alone: any of the answers to it may come.
AnswersAbout(text) == Offered(Replies, text)

\* An answer that disposes of a requirement it was not asked about is not used.
Usable(answer) == answer.about

\* An answer that repeats its first obligation as the rest meant it once.
Decoded(drafts) ==
    IF Len(drafts) > 1 /\ drafts[1] = drafts[2]
    THEN <<drafts[1]>> \o SubSeq(drafts, 3, Len(drafts)) ELSE drafts

\* Less evidence is owed only with a reason; a scope exclusion owes no test.
RequiredEvidence(draft, absent) ==
    IF absent THEN "code_only"
    ELSE IF draft.reasoned THEN draft.evidence ELSE "code_and_tests"

\* The obligations of an answer.  A quotation from elsewhere is not kept, the
\* obligation is.  A span of the summary is quoted whatever the answer says.
ObligationsFrom(answer, r, quote) ==
    LET drafts == IF Usable(answer) /\ answer.tag = "yielded" THEN Decoded(answer.drafts) ELSE <<>>
        ids == Minted([n \in DOMAIN drafts |-> drafts[n].id], IdsOf(fresh) \cup IdsOf(asked))
        absent == r.section = "exclusion"
    IN  [n \in DOMAIN drafts |->
            LET quoted == IF quote = <<>> THEN drafts[n].quote ELSE quote
            IN  [id |-> ids[n], says |-> drafts[n].says, type |-> drafts[n].type,
                 spans |-> IF LocateWithin(r.text, quoted) THEN {quoted} ELSE {},
                 absent |-> absent, evidence |-> RequiredEvidence(drafts[n], absent)]]

\* The questions of an answer, their ids minted after the obligations'.
QuestionsFrom(answer, obligations) ==
    LET ids == Minted([n \in DOMAIN answer.asks |-> answer.asks[n].id],
                      IdsOf(fresh) \cup IdsOf(asked) \cup IdsOf(obligations))
    IN  [n \in DOMAIN answer.asks |-> [id |-> ids[n], says |-> answer.asks[n].says]]

\* The questions a disposition names, of those the same answer asked.
Resolve(answer, questions) ==
    LET known == Where(answer.names, LAMBDA name :
                    \E n \in DOMAIN answer.asks : answer.asks[n].id = name)
    IN  Distinct([k \in DOMAIN known |->
            questions[CHOOSE n \in DOMAIN answer.asks :
                        /\ answer.asks[n].id = known[k]
                        /\ \A m \in 1..(n - 1) : answer.asks[m].id # known[k]].id])

Ids(seq) == [n \in DOMAIN seq |-> seq[n].id]

AskAbout ==
    /\ step = "asking" /\ todo # <<>> /\ Head(todo).section # "task"
    /\ \E answer \in AnswersAbout(Head(todo).text) :
         LET obligations == ObligationsFrom(answer, Head(todo), <<>>)
             questions == QuestionsFrom(answer, obligations)
         IN  /\ fresh' = fresh \o obligations /\ asked' = asked \o questions
             /\ settled' = IF ~Usable(answer) THEN settled
                           ELSE With(settled, RequirementId(Head(todo)),
                                     [tag |-> answer.tag, obligations |-> Ids(obligations),
                                      questions |-> IF answer.tag = "open_question"
                                                    THEN Resolve(answer, questions) ELSE <<>>,
                                      reason |-> answer.reason])
    /\ todo' = Tail(todo)
    /\ UNCHANGED <<commands, ledger, step, run, plan, spans, made, merges, units, synthesized>>

(***************************************************************************)
(* What is at fault with a disposition.                                    *)
(***************************************************************************)

\* Mutant: a disposition that lacks what it claims is kept.
FaultOfQuestions(id) ==
    IF settled[id].tag = "open_question" /\ settled[id].questions = <<>>
    THEN IF id \in DOMAIN plan.carried THEN "crashed" ELSE "model_error"
    ELSE "none"

\* A response that leaves a requirement out is no decomposition, nor is one
\* that names questions it did not ask.  A disposition that lacks what it
\* claims is refused by its own validator, which no command handles.
Fault(id) ==
    LET disposition == settled[id]
    IN  CASE disposition.tag = "open_question" /\ disposition.questions = <<>>
               -> IF id \in DOMAIN plan.carried THEN "crashed" ELSE "model_error"
          [] disposition.tag = "yielded" /\ disposition.obligations = <<>> -> "crashed"
          [] disposition.tag = "no_obligation" /\ ~disposition.reason -> "crashed"
          [] OTHER -> "none"

\* A requirement's carried disposition is built anew, and may not pass.
CarriedAtFault == \E id \in DOMAIN plan.carried : Fault(id) # "none"

(***************************************************************************)
(* The summary, after the rest: it is divided into spans, and each one the *)
(* obligations do not cover is asked about alone.                          *)
(***************************************************************************)

\* Every obligation of the other requirements, carried or answered.
AlreadyDerived ==
    UNION {ToSet(settled[id].obligations) : id \in {i \in DOMAIN settled : i[1] # "task"}}

\* What was carried is validated first.
DecideSpans ==
    /\ step = "asking" /\ todo # <<>> /\ Head(todo).section = "task" /\ spans = <<>>
    /\ RequirementId(Head(todo)) \notin DOMAIN settled
    /\ \/ CarriedAtFault /\ step' = "crashed" /\ UNCHANGED <<spans, settled>>
       \/ ~CarriedAtFault /\ \E answer \in Offered(Partitions, Head(todo).text) :
             IF Rejected(answer, Head(todo).text, AlreadyDerived)
             THEN step' = "model_error" /\ UNCHANGED <<spans, settled>>
             ELSE /\ spans' = [k \in DOMAIN Uncovered(answer) |->
                                  answer.spans[Uncovered(answer)[k]]]
                  /\ settled' = With(settled, RequirementId(Head(todo)),
                                     [tag |-> "no_obligation", obligations |-> <<>>,
                                      questions |-> <<>>, reason |-> TRUE])
                  /\ UNCHANGED step
    /\ UNCHANGED <<commands, ledger, run, plan, todo, fresh, asked, made, merges, units, synthesized>>

\* A span is asked about as a constraint of its own.
SpanRequirement(span) == [section |-> "constraint", ordinal |-> 0, text |-> span]

\* What the summary has come to with one more span's obligations and questions.
Account(account, obligations, questions) ==
    LET all == account.obligations \o obligations
        open == account.questions \o questions
    IN  [tag |-> IF all # <<>> THEN "yielded" ELSE IF open # <<>> THEN "open_question"
                 ELSE "no_obligation",
         obligations |-> all, questions |-> open, reason |-> TRUE]

\* The question that two answers on one span disagree.
Disagreement(span, taken) ==
    [id |-> Unique(<<"disagreement", span>>, taken), says |-> "disagreement"]

\* A span that was found uncovered and yields nothing is a disagreement, which
\* is put as a question.
AskSpan ==
    /\ step = "asking" /\ spans # <<>>
    /\ \E answer \in AnswersAbout(Head(spans)) :
         LET obligations == ObligationsFrom(answer, SpanRequirement(Head(spans)), Head(spans))
             questions == QuestionsFrom(answer, obligations)
             raised == IF Usable(answer) /\ answer.tag = "open_question"
                       THEN Resolve(answer, questions) ELSE <<>>
             disagreement == Disagreement(Head(spans),
                                          IdsOf(fresh) \cup IdsOf(asked) \cup IdsOf(questions))
             silent == obligations = <<>> /\ raised = <<>>
         IN  /\ fresh' = fresh \o obligations
             /\ asked' = asked \o questions \o (IF silent THEN <<disagreement>> ELSE <<>>)
             /\ settled' = [settled EXCEPT ![RequirementId(Head(todo))] =
                              Account(@, Ids(obligations),
                                      IF silent THEN <<disagreement.id>> ELSE raised)]
    /\ spans' = Tail(spans)
    /\ UNCHANGED <<commands, ledger, step, run, plan, todo, made, merges, units, synthesized>>

\* Mutant: a summary is asked about until an obligation is found for it.
SummaryDoneWhenYielded ==
    /\ step = "asking" /\ todo # <<>> /\ spans = <<>>
    /\ Head(todo).section = "task" /\ RequirementId(Head(todo)) \in DOMAIN settled
    /\ IF settled[RequirementId(Head(todo))].tag = "open_question"
       THEN todo' = todo /\ settled' = [id \in DOMAIN settled \ {RequirementId(Head(todo))} |-> settled[id]]
       ELSE todo' = Tail(todo) /\ UNCHANGED settled
    /\ UNCHANGED <<commands, ledger, step, run, plan, spans, fresh, asked, made, merges, units,
                   synthesized>>

SummaryDone ==
    /\ step = "asking" /\ todo # <<>> /\ spans = <<>>
    /\ Head(todo).section = "task" /\ RequirementId(Head(todo)) \in DOMAIN settled
    /\ todo' = Tail(todo)
    /\ UNCHANGED <<commands, ledger, step, run, plan, spans, fresh, asked, settled, made, merges, units,
                   synthesized>>

(***************************************************************************)
(* The decomposition: every requirement accounted for, in registry order.  *)
(***************************************************************************)

\* The first fault in registry order, unless it was carried.
FirstFault(registry) ==
    IF CarriedAtFault THEN "crashed"
    ELSE IF \E r \in ToSet(registry) : RequirementId(r) \notin DOMAIN settled THEN "model_error"
    ELSE LET faulty == Where(registry, LAMBDA r : Fault(RequirementId(r)) # "none")
         IN  IF faulty = <<>> THEN "none" ELSE Fault(RequirementId(Head(faulty)))

\* What an id stands for: what was carried replaces what was answered.
Pool(answered, carried) ==
    LET held == UNION {ToSet(carried[id]) : id \in DOMAIN carried}
    IN  [id \in IdsOf(answered) \cup {x.id : x \in held} |->
            IF \E x \in held : x.id = id THEN CHOOSE x \in held : x.id = id
            ELSE ById(answered, id)]

\* The ids the dispositions name, each one once, whatever it is the id of.
Named(registry) ==
    LET named == FlattenSeq([n \in DOMAIN registry |->
                    LET disposition == settled[RequirementId(registry[n])]
                    IN  [k \in DOMAIN disposition.obligations |->
                            [kind |-> "obligation", id |-> disposition.obligations[k]]]
                        \o [k \in DOMAIN disposition.questions |->
                            [kind |-> "question", id |-> disposition.questions[k]]]])
        firsts == Distinct(Ids(named))
    IN  [k \in DOMAIN firsts |->
            named[CHOOSE n \in DOMAIN named : /\ named[n].id = firsts[k]
                                              /\ \A m \in 1..(n - 1) : named[m].id # firsts[k]]]

\* The outputs in registry order, and after them those no disposition names.
InRegistryOrder(registry, kind, answered, carried) ==
    LET pool == Pool(answered, carried)
        named == Where(Named(registry), LAMBDA m : m.kind = kind)
        seen == IdsOf(Named(registry))
    IN  [k \in DOMAIN named |-> pool[named[k].id]]
            \o Where(answered, LAMBDA x : x.id \notin seen)

Kind(id) == IF id \in DOMAIN plan.carried THEN "carried"
            ELSE IF id \in DOMAIN plan.revised THEN "revised" ELSE "derived"

\* What the ledger keeps of each requirement: the obligations as derived,
\* before any are merged.
Records(registry, obligations, questions) ==
    [n \in DOMAIN registry |->
        LET r == registry[n]
            disposition == settled[RequirementId(r)]
            of(ids, seq) == LET known == Where(ids, LAMBDA id : id \in IdsOf(seq))
                            IN  [k \in DOMAIN known |-> ById(seq, known[k])]
        IN  [text |-> r.text, key |-> KeyFor(run.tool, r), kind |-> Kind(RequirementId(r)),
             tag |-> disposition.tag, reason |-> disposition.reason,
             obligations |-> of(disposition.obligations, obligations),
             questions |-> of(disposition.questions, questions)]]

\* What the calls have said is held no longer than it takes to put it together.
Reconcile ==
    /\ step = "asking" /\ todo = <<>>
    /\ LET held(field) == [id \in DOMAIN plan.carried |-> plan.carried[id][field]]
           obligations == InRegistryOrder(Requirements, "obligation", fresh, held("obligations"))
           questions == InRegistryOrder(Requirements, "question", asked, held("questions"))
       IN  IF FirstFault(Requirements) # "none"
           THEN step' = FirstFault(Requirements) /\ UNCHANGED made
           ELSE /\ step' = "linking"
                /\ made' = [obligations |-> obligations, questions |-> questions,
                            dispositions |-> settled,
                            records |-> Records(Requirements, obligations, questions),
                            removed |-> plan.removed]
    /\ plan' = NoPlan /\ fresh' = <<>> /\ asked' = <<>> /\ settled' = <<>>
    /\ UNCHANGED <<commands, ledger, run, todo, spans, merges, units, synthesized>>

(***************************************************************************)
(* Linking.                                                                *)
(***************************************************************************)

\* Every admissible pair that no stored decision is about is put to the model,
\* which may pass over it.
Link ==
    /\ step = "linking"
    /\ LET os == made.obligations
           pairs == Pairs(os, Far)
           stored == IF Readable(run.from) THEN Entry(run.from).decisions ELSE {}
           onFile == OnFile(os, pairs, stored)
       IN  IF Len(os) < 2 THEN UNCHANGED <<made, merges>>
           ELSE \E answer \in [Unasked(os, pairs, stored) -> {"same", "different", "none"}] :
                  LET given == {pair \in DOMAIN answer : answer[pair] # "none"}
                      decisions == onFile \cup {[pair |-> Asked(os, pair),
                                                same |-> answer[pair] = "same"] : pair \in given}
                      survivor == Survivors(os, Confirmed(decisions))
                  IN  /\ merges' = decisions
                      /\ made' = [made EXCEPT !.obligations = MergedObligations(os, survivor),
                                              !.dispositions = Relinked(@, survivor)]
    /\ step' = IF run.command = "check" THEN "resolving" ELSE "recording"
    /\ UNCHANGED <<commands, ledger, run, plan, todo, spans, fresh, asked, settled, units, synthesized>>

(***************************************************************************)
(* The ledger.                                                             *)
(***************************************************************************)

LedgerEntry(sets) ==
    [file |-> "whole", from |-> run.from, logic |-> run.tool.logic, records |-> made.records,
     decisions |-> merges, sets |-> sets]

\* Mutant: a run goes on writing the entry of the run it continues.
WriteLedgerOver(sets, next) ==
    LET own == IF Readable(run.from) THEN run.from ELSE Len(ledger)
    IN  /\ ledger' = [ledger EXCEPT ![own] = LedgerEntry(sets)]
        /\ step' = next
        /\ UNCHANGED <<commands, run, readingVars>>

\* The entry of the run's own id, which nothing else writes.
WriteLedger(sets, next) ==
    /\ ledger[Len(ledger)].file = "none"
    /\ ledger' = [ledger EXCEPT ![Len(ledger)] = LedgerEntry(sets)]
    /\ step' = next
    /\ UNCHANGED <<commands, run, readingVars>>

Record ==
    /\ step = "recording" /\ run.command = "decompose"
    /\ WriteLedger(<<>>, "claiming")

(***************************************************************************)
(* Claims and synthesis.                                                   *)
(***************************************************************************)

BuildClaims ==
    /\ step = "claiming" /\ step' = "synthesizing"
    /\ units' \in Rulings[run.file]
    /\ UNCHANGED <<commands, ledger, run, plan, todo, spans, fresh, asked, settled, made, merges,
                   synthesized>>

Synthesize ==
    /\ step = "synthesizing"
    /\ step' = IF run.command = "check" THEN "planning" ELSE "done"
    /\ IF ClaimsOf(units) = {} THEN synthesized' = <<>>
       ELSE \E answer \in Syntheses : synthesized' = Synthesized(answer, ClaimsOf(units))
    /\ UNCHANGED <<commands, ledger, run, plan, todo, spans, fresh, asked, settled, made, merges, units>>

ReadingStep ==
    \/ PlanCarry \/ AskAbout \/ DecideSpans \/ AskSpan \/ SummaryDone \/ Reconcile
    \/ Link \/ Record \/ BuildClaims \/ Synthesize
=============================================================================
