------------------------------- MODULE Mandate -------------------------------
(***************************************************************************)
(* The task file as the stages read it: requirement/task_file.py routes    *)
(* its blocks into sections, requirement/registry.py numbers the           *)
(* requirements, requirement/spans.py says what an answer may quote, and   *)
(* requirement/summary.py when a division of the summary is usable.        *)
(*                                                                         *)
(* A file is a sequence of nodes: a heading, or a block with the texts of  *)
(* its leaves (a list has one for every block of every item).  A text is a *)
(* sequence of sentences.                                                  *)
(***************************************************************************)
EXTENDS Lists

MandateSections == {"task", "constraint", "exclusion", "completion"}

\* The heading a node stands under, and the level of the Context heading the
\* file is inside (0: none).  A deeper heading stays inside Context, unless it
\* names a section of the mandate.
Under(file) ==
    LET under[i \in 0..Len(file)] ==
            IF i = 0 THEN [name |-> "none", context |-> 0]
            ELSE LET node == file[i]
                     before == under[i - 1]
                     nested == before.context \in 1..(node.level - 1)
                 IN  IF \/ node.type # "heading"
                        \/ nested /\ node.name \notin MandateSections
                     THEN before
                     ELSE [name |-> node.name,
                           context |-> IF node.name = "context" THEN node.level ELSE 0]
    IN  under

\* Where a block under heading `name` goes.  What no field takes is kept apart.
Field(node, name) ==
    CASE name = "context" -> "context"
      [] name = "task" /\ node.type = "paragraph" -> "task"
      [] name \in MandateSections \ {"task"} /\ node.type = "list" -> name
      [] OTHER -> "unclaimed"

\* The texts a field took, in the order of the file.
Taken(file, field) ==
    LET under == Under(file)
        taken == [i \in DOMAIN file |->
                    IF file[i].type # "heading" /\ Field(file[i], under[i].name) = field
                    THEN file[i].texts ELSE <<>>]
    IN  FlattenSeq(taken)

Refs(file, section) ==
    LET texts == Taken(file, section)
    IN  [n \in DOMAIN texts |-> [section |-> section, ordinal |-> n, text |-> texts[n]]]

\* The requirements, by section whatever the order of the file.  The id of a
\* requirement is its section and its place in it.
Registry(file) ==
    Refs(file, "task") \o Refs(file, "constraint") \o Refs(file, "exclusion")
        \o Refs(file, "completion")

RequirementId(r) == <<r.section, r.ordinal>>

(***************************************************************************)
(* Quotations.                                                             *)
(***************************************************************************)

\* A quotation is found again in the requirement's own text only.
LocateWithin(text, quote) ==
    \E i, j \in DOMAIN text : SubSeq(text, i, j) = quote

\* Every sentence of every block, whichever field took it, in document order.
Units(file) ==
    FlattenSeq([i \in DOMAIN file |->
                  IF file[i].type = "heading" THEN <<>> ELSE FlattenSeq(file[i].texts)])

(***************************************************************************)
(* The summary: an answer divides it into spans, and rules on each one     *)
(* whether the obligations listed to it already require what it states.    *)
(***************************************************************************)

Rejected(answer, text, listed) ==
    \/ \E n \in DOMAIN answer.spans : ~LocateWithin(text, answer.spans[n])
    \/ \E n \in DOMAIN answer.rulings : answer.rulings[n].span \notin DOMAIN answer.spans
    \/ \E s \in DOMAIN answer.spans :
           Cardinality({n \in DOMAIN answer.rulings : answer.rulings[n].span = s}) # 1
    \/ \E n \in DOMAIN answer.rulings :
           LET ruling == answer.rulings[n]
           IN  ~(ruling.nearest \subseteq listed) \/ (ruling.covered <=> ruling.counterexample)

\* The spans an obligation must still be found for, in the order of the text.
Uncovered(answer) ==
    LET open == {s \in DOMAIN answer.spans :
                    \E n \in DOMAIN answer.rulings :
                        answer.rulings[n].span = s /\ ~answer.rulings[n].covered}
    IN  Where([s \in DOMAIN answer.spans |-> s], LAMBDA s : s \in open)
=============================================================================
