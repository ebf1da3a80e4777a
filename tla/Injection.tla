------------------------------- MODULE Injection -------------------------------
(***************************************************************************)
(* What injecting one defect shows: mutation.baseline and mutation.runner. *)
(*                                                                         *)
(* The control run decides which tests may be used.  pytest must collect   *)
(* them, together; they must pass in the project; and they must pass in an *)
(* unmodified copy of it.  Then builders are asked for an edit that makes  *)
(* the defect true, one candidate after another, until one passes every    *)
(* check.  The usable tests are run in a copy that has the edit, and the   *)
(* run is read as a kill, as a survival, or as nothing at all.             *)
(***************************************************************************)
EXTENDS Integers, FiniteSets

CONSTANTS
    Tests, Files,
    FileOf,          \* the file of each candidate test
    Path,            \* the place of each file by its path
    Candidates,      \* the values of `max_candidates`
    Floor, Num, Den  \* the breadth check: more than Floor, and more than Num/Den

Max1(n) == IF n < 1 THEN 1 ELSE n

ASSUME InjectionAssumption ==
    /\ IsFiniteSet(Tests)
    /\ FileOf \in [Tests -> Files]
    /\ Path \in [Files -> Nat]
    /\ \A f, g \in Files : f # g => Path[f] # Path[g]
    /\ Candidates \subseteq Nat
    /\ Floor \in Nat /\ Num \in Nat /\ Den \in Nat

\* A set of files that pytest collects together, it collects without some of
\* them: the failures it reports come of one file, or of files that collide.
Hereditary == {s \in SUBSET (SUBSET Files) : \A a \in s : SUBSET a \subseteq s}

Stages == {"collecting", "admitting", "controlling", "mirroring", "asking", "done",
           "aborted", "refused"}

\* What the run under an edit says of a test: it passed, it failed on what it
\* checks, it failed on code that no longer loads, or it was not seen to end.
Kinds == {"passed", "asserts", "breaks", "unseen"}

Outcomes == {"killed", "survived", "not_mutable", "not_attempted", "no_usable_edit",
             "not_a_code_property", "already_present"}
Corroborations == {"none", "not_run", "a_test_asserts_defective", "no_test_pins_expected"}

\* `used` is 0 for None.
MutationAttempt ==
    [outcome : Outcomes \union {"none"}, edit : BOOLEAN,
     run : SUBSET Tests, killing : SUBSET Tests,
     corroboration : Corroborations, failing : SUBSET Tests,
     asked : Nat, aside : Nat, used : Nat]

NoAttempt ==
    [outcome |-> "none", edit |-> FALSE, run |-> {}, killing |-> {},
     corroboration |-> "none", failing |-> {}, asked |-> 0, aside |-> 0, used |-> 0]

VARIABLES
    together,   \* the sets of files that pytest collects: the project's own
    config,     \* max_candidates, and whether there is a fallback builder
    stage,
    left,       \* the files that have yet to be tried, once collecting failed
    admitted,   \* the files that collect together
    inPlace,    \* the tests that passed in the project
    inCopy,     \* the tests that passed in an unmodified copy of it
    usable,     \* Baseline.usable_tests
    setAside,   \* Baseline.set_aside
    asked,      \* how many candidate edits were asked for
    aside,      \* how many of them were set aside
    under,      \* what became of each test in the last run under an edit
    attempt     \* the MutationAttempt

vars == <<together, config, stage, left, admitted, inPlace, inCopy, usable, setAside,
          asked, aside, under, attempt>>
given == <<together, config>>
baseline == <<left, admitted, inPlace, inCopy, usable, setAside>>
trial == <<asked, aside, under, attempt>>

Unrun == [t \in Tests |-> "unrun"]

Init ==
    /\ together \in Hereditary
    /\ config \in [candidates : Candidates, fallback : BOOLEAN]
    /\ stage = "collecting"
    /\ left = {} /\ admitted = {}
    /\ inPlace = {} /\ inCopy = {} /\ usable = {} /\ setAside = {}
    /\ asked = 0 /\ aside = 0 /\ under = Unrun
    /\ attempt = NoAttempt
-----------------------------------------------------------------------------
(* Collecting.                                                             *)

TestsOf(fs) == {t \in Tests : FileOf[t] \in fs}

\* Largest first; ties break on the path.
Before(f, g) ==
    LET size(x) == Cardinality(TestsOf({x})) IN
    size(f) > size(g) \/ (size(f) = size(g) /\ Path[f] < Path[g])

\* The tests that pytest does not collect are set aside before anything runs.
\* One that it deselects in a file that it keeps counts with those that do not
\* pass, which is what it comes to.
Collected(fs) ==
    /\ admitted' = fs
    /\ setAside' = Tests \ TestsOf(fs)
    /\ stage' = "controlling"

\* One pytest is asked to collect some files: it does, or it ends on an error, or
\* outlasts its budget.
CollectsOnce(fs) == fs \in together

\* All of them at once, in one process.
CollectJointly ==
    /\ stage = "collecting"
    /\ IF CollectsOnce(Files)
         THEN Collected(Files) /\ UNCHANGED left
         ELSE /\ stage' = "admitting" /\ left' = Files
              /\ UNCHANGED <<admitted, setAside>>
    /\ UNCHANGED <<given, inPlace, inCopy, usable, trial>>

\* The workspace cannot be made, say: the answer is that nothing collects.
CollectFails ==
    /\ stage = "collecting"
    /\ Collected({})
    /\ UNCHANGED <<given, left, inPlace, inCopy, usable, trial>>

\* Mutant: one file that does not fit ends the search.
AdmitUntilConflict ==
    /\ stage = "admitting"
    /\ \E f \in left :
         /\ \A g \in left \ {f} : Before(f, g)
         /\ IF CollectsOnce(admitted \union {f})
              THEN left' = left \ {f} /\ admitted' = admitted \union {f}
              ELSE left' = {} /\ UNCHANGED admitted
    /\ UNCHANGED <<given, stage, inPlace, inCopy, usable, setAside, trial>>

\* File by file: each is kept only if the set still collects with it.
Admit ==
    /\ stage = "admitting"
    /\ \E f \in left :
         /\ \A g \in left \ {f} : Before(f, g)
         /\ left' = left \ {f}
         /\ admitted' = IF CollectsOnce(admitted \union {f}) THEN admitted \union {f}
                        ELSE admitted
    /\ UNCHANGED <<given, stage, inPlace, inCopy, usable, setAside, trial>>

AllTried ==
    /\ stage = "admitting"
    /\ left = {}
    /\ Collected(admitted)
    /\ UNCHANGED <<given, left, inPlace, inCopy, usable, trial>>
-----------------------------------------------------------------------------
(* The control run.                                                        *)

\* Any of the tests may pass; if none was seen to end, they are run file by
\* file, and again any may.
Control ==
    /\ stage = "controlling"
    /\ inPlace' \in SUBSET TestsOf(admitted)
    /\ usable' = inPlace'
    /\ setAside' = setAside \union (TestsOf(admitted) \ inPlace')
    /\ stage' = IF inPlace' = {} THEN "asking" ELSE "mirroring"
    /\ UNCHANGED <<given, left, admitted, inCopy, trial>>

\* Mutant: the tests that differ in the copy replace those already set aside.
MirrorForgetting ==
    /\ stage = "mirroring"
    /\ inCopy' \in SUBSET usable
    /\ usable' = inCopy'
    /\ setAside' = usable \ inCopy'
    /\ stage' = "asking"
    /\ UNCHANGED <<given, left, admitted, inPlace, trial>>

\* Once more in an unmodified copy; if it cannot be made, no test passes there.
Mirror ==
    /\ stage = "mirroring"
    /\ inCopy' \in SUBSET usable
    /\ usable' = inCopy'
    /\ setAside' = setAside \union (usable \ inCopy')
    /\ stage' = "asking"
    /\ UNCHANGED <<given, left, admitted, inPlace, trial>>
-----------------------------------------------------------------------------
(* Reading a run, and recording what became of the defect.                 *)

\* What the run of the usable tests under an edit may show.
Runs == {u \in [Tests -> Kinds \union {"unrun"}] :
           \A t \in Tests : u[t] = "unrun" <=> t \notin usable}

Failed(u) == {t \in Tests : u[t] \in {"asserts", "breaks"}}

TooBroad(n) == n > Floor /\ n * Den > Num * Cardinality(usable)

\* The edit broke the program rather than injecting the defect.
Refuses(u) ==
    \/ Failed(u) # {} /\ \A t \in Failed(u) : u[t] = "breaks"
    \/ TooBroad(Cardinality(Failed(u)))

Unseen(u) == {t \in Tests : u[t] = "unseen"}

\* Mutant: no test went red, so the defect survived.
ClassifyUnwatched(u) == IF Failed(u) # {} THEN "killed" ELSE "survived"

Classify(u) ==
    IF Failed(u) # {} THEN "killed"
    ELSE IF Unseen(u) # {} THEN "not_attempted"
    ELSE "survived"

\* The record's validators: they raise rather than let such an attempt through.
Accepts(a) ==
    /\ a.corroboration # "none" \/ a.failing # {} => a.outcome = "already_present"
    /\ a.failing # {} => a.corroboration = "a_test_asserts_defective"
    /\ a.aside <= a.asked
    /\ a.used # 0 => a.used = a.aside + 1 /\ a.used <= a.asked /\ a.edit
    /\ a.outcome = "no_usable_edit" => a.asked >= 1 /\ a.aside = a.asked /\ a.used = 0
    /\ a.outcome = "killed" <=> a.killing # {}
    /\ a.outcome \in {"killed", "survived"} => a.edit
    /\ a.killing \subseteq a.run

\* The record of an attempt no candidate was used for, and of one that used the
\* last candidate asked for (_with_candidates).
Unused(outcome) ==
    [outcome |-> outcome, edit |-> FALSE, run |-> {}, killing |-> {},
     corroboration |-> "none", failing |-> {},
     asked |-> asked', aside |-> aside, used |-> 0]

Used(outcome, run, killing) ==
    [outcome |-> outcome, edit |-> TRUE, run |-> run, killing |-> killing,
     corroboration |-> "none", failing |-> {},
     asked |-> asked', aside |-> aside, used |-> asked']

\* The code is said to have the defect already.
Finding(corroboration, failing) ==
    [outcome |-> "already_present", edit |-> FALSE, run |-> {}, killing |-> {},
     corroboration |-> corroboration, failing |-> failing,
     asked |-> asked', aside |-> aside, used |-> 0]

Record(a) ==
    IF Accepts(a) THEN stage' = "done" /\ attempt' = a
    ELSE stage' = "refused" /\ UNCHANGED attempt
-----------------------------------------------------------------------------
(* One defect's attempt.                                                   *)

\* No test is left to observe an edit against.
NotAttempted ==
    /\ stage = "asking" /\ asked = 0
    /\ usable = {}
    /\ UNCHANGED <<given, baseline, asked, aside, under>>
    /\ Record(Unused("not_attempted"))

\* No file that the defect names can be read.
NoRegion ==
    /\ stage = "asking" /\ asked = 0
    /\ usable # {}
    /\ UNCHANGED <<given, baseline, asked, aside, under>>
    /\ Record(Unused("not_mutable"))

\* The builders are asked in turn, the fallback last.
Builders == Max1(config.candidates) + (IF config.fallback THEN 1 ELSE 0)

Ask ==
    /\ stage = "asking"
    /\ usable # {}
    /\ asked < Builders
    /\ asked' = asked + 1
    /\ UNCHANGED <<given, baseline>>

\* Only a model answers with more than an edit; the coding agent does not.
AskModel == Ask /\ asked < Max1(config.candidates)

\* Nothing usable in the answer, or the edit fails a check: it never ran.
Refused ==
    /\ Ask
    /\ aside' = aside + 1
    /\ UNCHANGED <<stage, under, attempt>>

Declined ==
    /\ AskModel
    /\ \E outcome \in {"not_mutable", "not_a_code_property", "already_present"} :
         Record(Unused(outcome))
    /\ UNCHANGED <<aside, under>>

\* The copy cannot be prepared, or has no such file.
CopyFails ==
    /\ Ask
    /\ Record(Used("not_attempted", {}, {}))
    /\ UNCHANGED <<aside, under>>

\* Mutant: the gates on a broken or too broad edit are left out.
InjectUngated ==
    /\ Ask
    /\ under' \in Runs
    /\ Record(Used(Classify(under'), usable, Failed(under')))
    /\ UNCHANGED aside

\* The tests are run under the edit.  An edit that broke the program is set
\* aside, like one that failed a check.
Inject ==
    /\ Ask
    /\ under' \in Runs
    /\ IF Refuses(under')
         THEN aside' = aside + 1 /\ UNCHANGED <<stage, attempt>>
         ELSE /\ Record(Used(Classify(under'), usable, Failed(under')))
              /\ UNCHANGED aside

\* The model says the code has the defect already, and its repair is absent,
\* or refused, or its copy cannot be prepared.
ClaimUntested ==
    /\ AskModel
    /\ Record(Finding("not_run", {}))
    /\ UNCHANGED <<aside, under>>

\* The tests are run on the repaired code.
ClaimTested ==
    /\ AskModel
    /\ under' \in Runs
    /\ Record(IF Refuses(under') THEN Finding("not_run", {})
              ELSE IF Failed(under') # {}
                     THEN Finding("a_test_asserts_defective", Failed(under'))
              ELSE IF Unseen(under') # {} THEN Finding("not_run", {})
              ELSE Finding("no_test_pins_expected", {}))
    /\ UNCHANGED aside

\* The call for a candidate fails, and the exception ends the review.
CallFails ==
    /\ Ask
    /\ stage' = "aborted"
    /\ UNCHANGED <<aside, under, attempt>>

\* Mutant: the fallback's candidate is left out of the count.
GiveUpUncounted ==
    /\ stage = "asking" /\ usable # {}
    /\ asked = Builders
    /\ UNCHANGED <<given, baseline, asked, aside, under>>
    /\ Record([Unused("no_usable_edit") EXCEPT !.asked = Max1(config.candidates)])

\* Mutant: giving up is left to a fallback builder.
GiveUpAfterFallback ==
    /\ stage = "asking" /\ usable # {}
    /\ asked = Max1(config.candidates) + 1
    /\ UNCHANGED <<given, baseline, asked, aside, under>>
    /\ Record(Unused("no_usable_edit"))

\* Every builder was asked, and every candidate set aside.
GiveUp ==
    /\ stage = "asking" /\ usable # {}
    /\ asked = Builders
    /\ UNCHANGED <<given, baseline, asked, aside, under>>
    /\ Record(Unused("no_usable_edit"))
-----------------------------------------------------------------------------
Collecting == CollectJointly \/ CollectFails \/ Admit \/ AllTried
Attempting ==
    \/ NotAttempted \/ NoRegion \/ Refused \/ Declined \/ CopyFails \/ Inject
    \/ ClaimUntested \/ ClaimTested \/ CallFails \/ GiveUp

Next == Collecting \/ Control \/ Mirror \/ Attempting

Spec == Init /\ [][Next]_vars

\* The stage is sequential, every run is under a time budget, and every call
\* comes back.
FairSpec == Spec /\ WF_vars(Next)
-----------------------------------------------------------------------------
TypeOK ==
    /\ together \in SUBSET (SUBSET Files)
    /\ config \in [candidates : Candidates, fallback : BOOLEAN]
    /\ stage \in Stages
    /\ left \in SUBSET Files /\ admitted \in SUBSET Files
    /\ inPlace \in SUBSET Tests /\ inCopy \in SUBSET Tests
    /\ usable \in SUBSET Tests /\ setAside \in SUBSET Tests
    /\ asked \in 0..Builders /\ aside \in 0..Builders
    /\ under \in [Tests -> Kinds \union {"unrun"}]
    /\ attempt \in MutationAttempt

\* Collecting loses as little as it can (sandbox._collect_in_workspace).  The
\* files it keeps collect together, no file it drops would have collected with
\* them, and the largest file that collects at all is among them.
LittleIsLost ==
    stage \notin {"collecting", "admitting"} /\ admitted # {} =>
        /\ admitted \in together
        /\ \A f \in Files \ admitted : admitted \union {f} \notin together
        /\ \A f \in Files :
             /\ {f} \in together
             /\ \A g \in Files \ {f} : {g} \in together => Before(f, g)
             => f \in admitted

\* Every candidate test is either usable or set aside with its reason, however
\* it was excluded: "A test missing from it is missing from every later
\* verdict, which is why `set_aside` records each one".
EveryTestIsAccountedFor ==
    stage \notin {"collecting", "admitting", "controlling", "mirroring"} =>
        /\ usable \union setAside = Tests
        /\ usable \intersect setAside = {}

\* A test that is said to have gone red, under an edit or on a repair, passed
\* in the project and in an unmodified copy of it and failed in the last run;
\* and that run neither failed on code that no longer loads throughout, nor
\* failed more tests than one defect accounts for.
RedIsTheEditsDoing ==
    LET red == attempt.killing \union attempt.failing IN
    red # {} =>
        /\ red \subseteq inPlace \intersect inCopy
        /\ red = Failed(under)
        /\ \E t \in red : under[t] = "asserts"
        /\ Cardinality(red) <= Floor
           \/ Cardinality(red) * Den <= Num * Cardinality(usable)

\* A finding against the tests rests on every one of them: a defect survives,
\* and no test pins the expected behaviour, only if each usable test was seen
\* to pass ("it may not rest on tests nobody watched").
GreenIsFullyObserved ==
    \/ attempt.outcome = "survived"
    \/ attempt.corroboration = "no_test_pins_expected"
    => usable # {} /\ \A t \in usable : under[t] = "passed"

\* The stage never builds a record that its validators refuse: run_mutations
\* would raise, and the review be lost for one defect.
NoRecordIsRefused == stage # "refused"

\* Every defect gets an attempt, unless a call fails.
AttemptEnds == <>(stage \in {"done", "aborted"})

\* The tests of which a verdict or the record of a pair that was not asked says
\* "the test still passed when the defect was injected" (mutation.verdicts).
SaidToHavePassed ==
    IF attempt.outcome \in {"killed", "survived"} THEN attempt.run \ attempt.killing ELSE {}

\* execution/outcome.py, on passing and failing: "Only these may be read as
\* evidence about the test itself".
StillPassedMeansPassed == \A t \in SaidToHavePassed : under[t] = "passed"
=============================================================================
