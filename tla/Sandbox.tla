-------------------------------- MODULE Sandbox --------------------------------
(***************************************************************************)
(* Runs of the tests of the project under review: execution.sandbox, and   *)
(* the plugin it loads into pytest, execution.netblock.                    *)
(*                                                                         *)
(* Every run has a process group of its own.  The plugin notes what pytest *)
(* reports of each phase of a case, and writes the case's outcome down as  *)
(* soon as it is final.  A run that exceeds its budget is                  *)
(* stopped; what it wrote is read all the same.  Under the user's own test *)
(* command pytest is a child of a shell, and a run holds one of            *)
(* `parallel_runs` numbered slots; locked down, it is the leader of its    *)
(* group, and needs no slot.                                               *)
(***************************************************************************)
EXTENDS Integers

CONSTANTS
    Runs,
    ParallelRuns,   \* how many runs of the command the user allows at once
    Tests,          \* the tests every run is asked for
    NumCases,       \* how many cases they have, all together
    TestOf          \* the test each case is one of

Slots == 1..ParallelRuns
Cases == 1..NumCases

ASSUME SandboxAssumption ==
    /\ ParallelRuns \in Nat \ {0}
    /\ NumCases \in Nat
    /\ TestOf \in [Cases -> Tests]

Phases == {"waiting", "running", "terminating", "killing", "reading", "done"}

\* A case passes, fails, or does not complete: it tries to reach the network, runs
\* out of its own time, or is skipped or never reached.
Kinds == {"passed", "failed", "network_blocked", "timed_out", "not_started"}
Completed == {"passed", "failed"}

\* Why a test has no outcome of its own: the run was stopped, wrote nothing, ended
\* without reaching it, or could not be started.
Unreached == {"budget", "no_report", "unreached", "could_not_run"}

\* A test's outcome has a reason exactly when it did not complete: that of the case
\* that stands for it, or that it has none.
Outcomes == {o \in [kind : Kinds, reason : Unreached \union {"none", "of_the_case"}] :
                 o.kind \in Completed <=> o.reason = "none"}
NoOutcome == [kind |-> "none", reason |-> "none"]

VARIABLES
    command,    \* whether there is a test command
    free,       \* the slots in the pool
    phase,      \* how far run_tests has come
    slot,       \* the slot it holds, or 0
    alive,      \* its processes: "shell" and "pytest"
    signalled,  \* the last signal sent to its group
    aborted,    \* whether its budget ran out
    next,       \* the case its pytest runs next
    report,     \* the outcome of each case that pytest wrote down
    result      \* the outcomes it returns

vars == <<command, free, phase, slot, alive, signalled, aborted, next, report, result>>
group == <<alive, signalled, aborted>>
outcomes == <<next, report, result>>

NoOutcomes == [t \in Tests |-> NoOutcome]
NotStarted(reason) == [kind |-> "not_started", reason |-> reason]

Init ==
    /\ command \in BOOLEAN
    /\ free = Slots
    /\ phase = [r \in Runs |-> "waiting"]
    /\ slot = [r \in Runs |-> 0]
    /\ alive = [r \in Runs |-> {}]
    /\ signalled = [r \in Runs |-> "none"]
    /\ aborted = [r \in Runs |-> FALSE]
    /\ next = [r \in Runs |-> 1]
    /\ report = [r \in Runs |-> [c \in Cases |-> "none"]]
    /\ result = [r \in Runs |-> NoOutcomes]

Leader == IF command THEN "shell" ELSE "pytest"
Group == IF command THEN {"shell", "pytest"} ELSE {"pytest"}
-----------------------------------------------------------------------------
(* The caller.                                                             *)

Spawn(r, n) ==
    /\ phase[r] = "waiting"
    /\ slot' = [slot EXCEPT ![r] = n]
    /\ phase' = [phase EXCEPT ![r] = "running"]
    /\ alive' = [alive EXCEPT ![r] = Group]
    /\ UNCHANGED <<command, signalled, aborted, outcomes>>

SpawnLockedDown(r) == ~command /\ Spawn(r, 0) /\ UNCHANGED free

SpawnInSlot(r) ==
    /\ command
    /\ \E n \in free : Spawn(r, n) /\ free' = free \ {n}

\* No test was started; every one of them says so.
AllNotStarted(r) ==
    /\ phase[r] = "waiting"
    /\ command => free # {}
    /\ phase' = [phase EXCEPT ![r] = "done"]
    /\ result' = [result EXCEPT ![r] = [t \in Tests |-> NotStarted("could_not_run")]]

\* Mutant: the slot of a run that could not be started is not put back.
SpawnFailsKeepingSlot(r) ==
    /\ AllNotStarted(r)
    /\ IF command THEN \E n \in free : free' = free \ {n} ELSE UNCHANGED free
    /\ UNCHANGED <<command, slot, group, next, report>>

\* The run cannot be started: its slot is back at once.
SpawnFails(r) ==
    /\ AllNotStarted(r)
    /\ UNCHANGED <<command, free, slot, group, next, report>>

\* The run is over for its caller: the slot goes back to the pool.
Release(r) ==
    /\ phase' = [phase EXCEPT ![r] = "reading"]
    /\ slot' = [slot EXCEPT ![r] = 0]
    /\ free' = IF command THEN free \union {slot[r]} ELSE free
    /\ UNCHANGED <<command, group, outcomes>>

\* Mutant: a leader that was killed is waited for.
EndedForSure(r) ==
    /\ phase[r] \in {"running", "terminating", "killing"}
    /\ Leader \notin alive[r]
    /\ Release(r)

\* The leader ended by itself, or on a signal; or it is still there when its
\* second grace is over, and the run returns without it.
Ended(r) ==
    /\ phase[r] \in {"running", "terminating", "killing"}
    /\ phase[r] # "killing" => Leader \notin alive[r]
    /\ Release(r)

\* A signal is sent only if the leader is still there.
Signal(r, signal) ==
    signalled' = [signalled EXCEPT ![r] = IF Leader \in alive[r] THEN signal ELSE @]

\* The whole-run budget is over.
Terminate(r) ==
    /\ phase[r] = "running"
    /\ phase' = [phase EXCEPT ![r] = "terminating"]
    /\ aborted' = [aborted EXCEPT ![r] = TRUE]
    /\ Signal(r, "SIGTERM")
    /\ UNCHANGED <<command, free, slot, alive, outcomes>>

\* The leader is still there when its first grace is over.
Kill(r) ==
    /\ phase[r] = "terminating"
    /\ Leader \in alive[r]
    /\ phase' = [phase EXCEPT ![r] = "killing"]
    /\ Signal(r, "SIGKILL")
    /\ UNCHANGED <<command, free, slot, alive, aborted, outcomes>>

CasesOf(t) == {c \in Cases : TestOf[c] = t}

\* The outcome a line of the report is read as.
OutcomeOf(kind) ==
    [kind |-> kind, reason |-> IF kind \in Completed THEN "none" ELSE "of_the_case"]

First(cases) == CHOOSE c \in cases : \A d \in cases : c <= d

\* Mutant: the case that is found first speaks for the test.
FoldFirst(rep, t) == OutcomeOf(rep[First({c \in CasesOf(t) : rep[c] # "none"})])

\* The cases of a test are folded into one outcome: the first that failed speaks
\* for it, then the first that did not complete.
Fold(rep, t) ==
    LET written == {c \in CasesOf(t) : rep[c] # "none"}
        failed == {c \in written : rep[c] = "failed"}
        incomplete == {c \in written : rep[c] \notin Completed}
    IN  OutcomeOf(rep[First(IF failed # {} THEN failed
                            ELSE IF incomplete # {} THEN incomplete ELSE written)])

\* Why a test of which nothing was written was not reached.
WhyUnreached(r) ==
    IF aborted[r] THEN "budget"
    ELSE IF \A c \in Cases : report[r][c] = "none" THEN "no_report" ELSE "unreached"

Read(r) ==
    /\ phase[r] = "reading"
    /\ result' = [result EXCEPT ![r] = [t \in Tests |->
                    IF \E c \in CasesOf(t) : report[r][c] # "none" THEN Fold(report[r], t)
                    ELSE NotStarted(WhyUnreached(r))]]
    /\ phase' = [phase EXCEPT ![r] = "done"]
    /\ UNCHANGED <<command, free, slot, group, next, report>>
-----------------------------------------------------------------------------
(* The processes.                                                          *)

\* How a phase of a case may end.  Its failure shows whether the alarm of its own
\* budget rang in it, and whether it was refused the network.
Failures(blocked) ==
    {"failed", "timed_out"} \union (IF blocked THEN {"network_blocked"} ELSE {})
Ends(blocked) == {"passed", "skipped"} \union Failures(blocked)

\* What the report of a phase says of its case: a skip is no verdict, and only the
\* call can pass it.
KindOf(when, end) ==
    IF end = "skipped" THEN "not_started"
    ELSE IF end = "passed" /\ when # "call" THEN "none"
    ELSE end

\* The first that is not a pass is what explains the case.
Noted(pending, kind) == IF kind # "none" /\ pending \in {"none", "passed"} THEN kind ELSE pending

\* The call is made if the setup passed; the teardown always is.
Line(setup, call, teardown) ==
    LET begun == Noted("none", KindOf("setup", setup))
        called == IF setup = "passed" THEN Noted(begun, KindOf("call", call)) ELSE begun
    IN  Noted(called, KindOf("teardown", teardown))
Lines == [blocked \in BOOLEAN |->
              {Line(setup, call, teardown) : setup, call, teardown \in Ends(blocked)}]

\* The network is closed unless the user's own command runs the tests.
Blocked == ~command

\* pytest runs a case and writes its outcome down in one line.  A line that is
\* cut short is not read, so it is as if the case had not been run.
RunCase(r) ==
    /\ "pytest" \in alive[r]
    /\ next[r] <= NumCases
    /\ \E line \in Lines[Blocked] : report' = [report EXCEPT ![r][next[r]] = line]
    /\ next' = [next EXCEPT ![r] = @ + 1]
    /\ UNCHANGED <<command, free, phase, slot, group, result>>

\* pytest exits when it has run everything, or before: it may refuse an id, have
\* no alarm to keep a budget with, be told to stop at a failure, or be brought down
\* by a test.  The shell exits
\* when its child has.  A process that was sent a signal may die of it.
Dies(r, p) ==
    /\ p \in alive[r]
    /\ \/ p = "pytest"
       \/ p = "shell" /\ "pytest" \notin alive[r]
       \/ signalled[r] # "none"
    /\ alive' = [alive EXCEPT ![r] = @ \ {p}]
    /\ UNCHANGED <<command, free, phase, slot, signalled, aborted, outcomes>>
-----------------------------------------------------------------------------
Caller(r) ==
    \/ SpawnLockedDown(r) \/ SpawnInSlot(r) \/ SpawnFails(r)
    \/ Ended(r) \/ Terminate(r) \/ Kill(r) \/ Read(r)

Next == \E r \in Runs :
    Caller(r) \/ RunCase(r) \/ \E p \in {"shell", "pytest"} : Dies(r, p)

Spec == Init /\ [][Next]_vars

\* Nothing is owed by the tests or by a signal.  A budget and a grace run out,
\* and a thread that can go on does.
FairSpec == Spec /\ \A r \in Runs : WF_vars(Caller(r))
-----------------------------------------------------------------------------
TypeOK ==
    /\ command \in BOOLEAN
    /\ free \in SUBSET Slots
    /\ phase \in [Runs -> Phases]
    /\ slot \in [Runs -> Slots \union {0}]
    /\ alive \in [Runs -> SUBSET {"shell", "pytest"}]
    /\ signalled \in [Runs -> {"none", "SIGTERM", "SIGKILL"}]
    /\ next \in [Runs -> 1..(NumCases + 1)]
    /\ aborted \in [Runs -> BOOLEAN]
    /\ report \in [Runs -> [Cases -> Kinds \union {"none"}]]
    /\ result \in [Runs -> [Tests -> Outcomes \union {NoOutcome}]]

InFlight == {r \in Runs : phase[r] \in {"running", "terminating", "killing"}}

\* Under a test command, runs that are in flight together are told different
\* numbers, and a number is in the pool or held, whichever way its last run
\* ended: none is lost, so no caller waits for good (_run_slot).
SlotsAddUp ==
    command =>
        /\ \A r \in InFlight : slot[r] \in Slots \ free
        /\ \A r, q \in InFlight : r # q => slot[r] # slot[q]
        /\ \A n \in Slots \ free : \E r \in InFlight : slot[r] = n

\* A run says of a test what was written of its cases, however the run ended: a
\* failure that was written down is never lost, no test is said to have completed
\* of which nothing was, and none to be unreached of which something was; and a run
\* is said to have written nothing, or to have been stopped, only if it was.
OutcomesAreReported ==
    [][\A r \in Runs : phase[r] = "reading" /\ phase'[r] = "done" =>
         \A t \in Tests :
            LET written == {c \in CasesOf(t) : report[r][c] # "none"}
                outcome == result'[r][t]
            IN  /\ outcome.kind = "failed" <=> \E c \in written : report[r][c] = "failed"
                /\ outcome.kind = "passed" =>
                     written # {} /\ \A c \in written : report[r][c] = "passed"
                /\ outcome.reason \in Unreached <=> written = {}
                /\ outcome.reason = "no_report" => \A c \in Cases : report[r][c] = "none"
                /\ outcome.reason = "budget" => aborted[r]]_vars

\* run_tests returns, though a test hangs and its processes heed no signal, and
\* though every slot is taken when it is called.
EveryRunReturns == \A r \in Runs : <>(phase[r] = "done")

\* sandbox._fold_parametrised: "An incomplete case wins over passing cases for
\* the same reason: nothing was established about a test whose cases did not
\* all finish."
PassedMeansEveryCase ==
    \A r \in Runs, t \in Tests :
        result[r][t].kind = "passed" => \A c \in CasesOf(t) : report[r][c] = "passed"
=============================================================================
