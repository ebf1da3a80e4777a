------------------------------- MODULE Taxonomy -------------------------------
(***************************************************************************)
(* The vocabulary of obligations and of the ways to fail them:             *)
(* review_state.py names the types, defects/taxonomy.py says which ways    *)
(* the enumeration is walked through for which type of obligation.         *)
(***************************************************************************)
EXTENDS Integers

\* What an obligation read off a requirement may be, and what one built from
\* claims may be.
LegacyTypes ==
    {"functional", "boundary", "error_handling", "invariant", "regression", "compatibility",
     "explanation_observability", "docs_config", "human_review", "test_demand"}
SynthesisTypes == {"requested_behavior", "constraint", "scope_exclusion", "test_deliverable"}

\* Walked for every type that has a checklist.
Core == {"qualifier_ignored", "condition_inverted", "scope_too_narrow", "not_wired"}

\* The checklist of a type.  The types a test or a person settles have none.
Checklist ==
    [functional     |-> Core \cup {"wrong_output_shape", "missing_case"},
     boundary       |-> Core \cup {"boundary_wrong_side", "boundary_unhandled"},
     error_handling |-> Core \cup {"error_swallowed", "wrong_error_surfaced"},
     invariant      |-> Core \cup {"established_not_maintained", "unenforced_on_one_path"},
     regression     |-> Core \cup {"prior_behavior_altered", "prior_behavior_removed"},
     compatibility  |-> Core \cup {"old_input_rejected", "stored_form_unreadable"},
     explanation_observability |->
                       Core \cup {"explanation_absent", "explanation_states_wrong_cause"},
     docs_config    |-> Core \cup {"documented_not_implemented", "default_disagrees_with_docs"}]

\* An obligation of another type gets no defect set at all.
Enumerable(type) == type \in DOMAIN Checklist

DefectTypes == (UNION {Checklist[type] : type \in DOMAIN Checklist}) \cup {"other"}

\* What an answer may type a defect as, and what is kept of a type it may not.
OfferedTypes(type) == IF Enumerable(type) THEN Checklist[type] \cup {"other"} ELSE {"other"}
DefectType(value) == IF value \in DefectTypes THEN value ELSE "other"
=============================================================================
