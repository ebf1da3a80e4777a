-------------------------------- MODULE Carry --------------------------------
(***************************************************************************)
(* What a run may take from the run it continues: carry.py says when one   *)
(* stored result may be reused, requirement/carry.py applies it to every   *)
(* requirement of the file.                                                *)
(*                                                                         *)
(* A tool is [prompt, logic, apart]: what goes into a request besides its  *)
(* subject, the version of what is done with the answer, and whether the   *)
(* summary is asked about of a model of its own.  A record of a            *)
(* requirement is what a run found of it, under which key.  An entry is    *)
(* what a run wrote: its records, its answers on merging and its tool's    *)
(* logic version.                                                          *)
(***************************************************************************)
EXTENDS Mandate

\* The summary is asked about in a stage of its own.  Where that runs on the model
\* of the others, a text has one key, whatever section it is in.
CarryKey(tool, summary, text) ==
    [prompt |-> tool.prompt, logic |-> tool.logic, apart |-> summary /\ tool.apart, text |-> text]
KeyFor(tool, requirement) == CarryKey(tool, requirement.section = "task", requirement.text)

\* Mutant: what is asked of the model is not compared.
RefusalUnderAnyRequest(stored, logicMatches, storedKey, key, applies) ==
    CASE ~stored -> "no_prior"
      [] stored /\ ~logicMatches -> "stage_logic_moved"
      [] stored /\ logicMatches /\ ~applies -> "not_applicable"
      [] OTHER -> "none"

\* Why a stored result is not reused, "none" if it is.
Refusal(stored, logicMatches, storedKey, key, applies) ==
    CASE ~stored -> "no_prior"
      [] stored /\ ~logicMatches -> "stage_logic_moved"
      [] stored /\ logicMatches /\ storedKey # key -> "request_moved"
      [] stored /\ logicMatches /\ storedKey = key /\ ~applies -> "not_applicable"
      [] OTHER -> "none"

\* Some obligation quotes what the text no longer says.
StaleSpans(record, text) ==
    \E o \in ToSet(record.obligations) : \E quote \in o.spans : ~LocateWithin(text, quote)

\* The record of a text: of several, the last one.
RecordOf(entry, text) ==
    LET places == {n \in DOMAIN entry.records : entry.records[n].text = text}
    IN  entry.records[CHOOSE n \in places : \A m \in places : m <= n]

TextsOf(entry) == {entry.records[n].text : n \in DOMAIN entry.records}

Registered(registry) == {r.text : r \in ToSet(registry)}

\* The requirements a run carries, by id.  Only an identical text is matched.
Carried(registry, entry, tool) ==
    LET may == {r \in ToSet(registry) :
                  /\ r.text \in TextsOf(entry)
                  /\ LET record == RecordOf(entry, r.text)
                     IN  Refusal(TRUE, entry.logic = tool.logic, record.key, KeyFor(tool, r),
                                 ~StaleSpans(record, r.text)) = "none"}
    IN  [id \in {RequirementId(r) : r \in may} |->
            RecordOf(entry, (CHOOSE r \in may : RequirementId(r) = id).text)]

\* The new texts that may be rewordings of stored ones, which the file has no
\* longer.  Which are is for the model to say, one to one.
Alignments(registry, entry, tool) ==
    LET new == Registered(registry) \ TextsOf(entry)
        old == TextsOf(entry) \ Registered(registry)
    IN  IF entry.logic # tool.logic THEN {<<>>}
        ELSE UNION {Injection(S, old) : S \in SUBSET new}

\* The requirements asked again against what they used to say.
Revised(registry, entry, alignment) ==
    LET may == {r \in ToSet(registry) : r.text \in DOMAIN alignment}
    IN  [id \in {RequirementId(r) : r \in may} |->
            RecordOf(entry, alignment[(CHOOSE r \in may : RequirementId(r) = id).text])]

\* The stored records whose requirement is gone.
Removed(registry, entry, alignment) ==
    Where(entry.records,
              LAMBDA record : record.text \notin Registered(registry) \cup Range(alignment))
=============================================================================
