------------------------------- MODULE MCCheck -------------------------------
(***************************************************************************)
(* Small mandates, changes and answers for Check.  A text is a sequence of *)
(* sentences, each a string; an obligation's slug and what it says are     *)
(* strings too.                                                            *)
(***************************************************************************)
EXTENDS Check

Heading(level, name) == [type |-> "heading", level |-> level, name |-> name]
Paragraph(text) == [type |-> "paragraph", texts |-> <<text>>]
List(texts) == [type |-> "list", texts |-> texts]

\* A mandate, the same with one constraint reworded, three without a summary, one
\* of which states what another has as its summary, one that leaves something open,
\* one with a block no field takes, and two that give a question and an obligation
\* one slug, with a part of each, and one of them with a summary.
MCMandates ==
    [name \in {"First", "Second", "Feature", "Small", "Larger", "Open", "Unread",
               "Summed", "Asked", "AskedFirst", "Told", "ToldFirst", "ToldSummed"} |->
        CASE name = "First" ->
                <<Heading(1, "task"), Paragraph(<<"s1", "s2">>),
                  Heading(2, "constraint"), List(<<<<"c1">>, <<"c2">>>>)>>
          [] name = "Second" ->
                <<Heading(1, "task"), Paragraph(<<"s1", "s2">>),
                  Heading(2, "constraint"), List(<<<<"c1", "c3">>, <<"c2">>>>)>>
          [] name = "Feature" ->
                <<Heading(1, "constraint"), List(<<<<"c4">>>>),
                  Heading(1, "exclusion"), List(<<<<"e1">>>>)>>
          [] name = "Small" -> <<Heading(1, "completion"), List(<<<<"c5">>>>)>>
          [] name = "Summed" -> <<Heading(1, "task"), Paragraph(<<"c5">>)>>
          [] name = "Larger" ->
                <<Heading(1, "constraint"), List(<<<<"c4">>>>),
                  Heading(1, "completion"), List(<<<<"c5">>>>)>>
          [] name = "Open" ->
                <<Heading(1, "completion"), List(<<<<"q1">>>>),
                  Heading(2, "context"), Paragraph(<<"k1">>),
                  Heading(3, "constraint"), List(<<<<"e1">>>>)>>
          [] name = "Unread" ->
                <<Heading(1, "completion"), List(<<<<"n1">>>>), Paragraph(<<"u1">>)>>
          [] name = "Asked" -> <<Heading(1, "constraint"), List(<<<<"q1">>>>)>>
          [] name = "AskedFirst" ->
                <<Heading(1, "constraint"), List(<<<<"q1">>>>),
                  Heading(1, "completion"), List(<<<<"g1">>>>)>>
          [] name = "Told" -> <<Heading(1, "constraint"), List(<<<<"g1">>>>)>>
          [] name = "ToldFirst" ->
                <<Heading(1, "constraint"), List(<<<<"g1">>>>),
                  Heading(1, "completion"), List(<<<<"q1">>>>)>>
          [] name = "ToldSummed" ->
                <<Heading(1, "task"), Paragraph(<<"c5">>),
                  Heading(1, "constraint"), List(<<<<"g1">>>>),
                  Heading(1, "completion"), List(<<<<"q1">>>>)>>]

Tool(prompt, logic) == [prompt |-> prompt, logic |-> logic, apart |-> FALSE]
Apart == [Tool(1, 1) EXCEPT !.apart = TRUE]

(***************************************************************************)
(* Changes.                                                                *)
(***************************************************************************)

Hunk(first, last, content, defines) ==
    [first |-> first, last |-> last, content |-> content, documents |-> FALSE,
     defines |-> defines, imports |-> {}, newTests |-> FALSE]

Source(content) ==
    [path |-> "m.py", stem |-> "m", status |-> "modified", old |-> "none", category |-> "source",
     readable |-> TRUE, hunks |-> <<Hunk(1, 2, content, {"f"}), Hunk(8, 9, "new", {})>>]
TestFile ==
    [path |-> "test_m.py", stem |-> "test_m", status |-> "modified", old |-> "none",
     category |-> "test", readable |-> TRUE, hunks |-> <<Hunk(1, 3, "test", {})>>]
TaskFile ==
    [path |-> "task.md", stem |-> "task", status |-> "modified", old |-> "none",
     category |-> "other", readable |-> TRUE, hunks |-> <<Hunk(1, 1, "task", {})>>]
Importer ==
    [path |-> "n.py", stem |-> "n", status |-> "added", old |-> "none", category |-> "source",
     readable |-> TRUE,
     hunks |-> <<[Hunk(1, 1, "import", {}) EXCEPT !.imports = {[module |-> "m", name |-> "f"]}]>>]
Binary == [Importer EXCEPT !.path = "b.py", !.stem = "b", !.readable = FALSE]

Definition(name, first, last) == [name |-> name, first |-> first, last |-> last]
Module(definitions, tests, collected) ==
    [parses |-> TRUE, definitions |-> definitions, imports |-> {}, tests |-> tests,
     collected |-> collected]
Test(name, calls) == [name |-> name, calls |-> calls, names |-> calls, hints |-> {}]

Modules ==
    [p \in {"m.py", "test_m.py", "test_o.py"} |->
        CASE p = "m.py" -> Module(<<Definition(<<"C">>, 1, 9), Definition(<<"C", "f">>, 1, 4)>>,
                                  <<>>, FALSE)
          [] p = "test_m.py" -> Module(<<>>, <<Test("t", {"f"})>>, TRUE)
          [] p = "test_o.py" -> Module(<<>>, <<Test("u", {"f"}), Test("v", {"g"})>>, TRUE)]

Checkout(diff, untracked) ==
    [diff |-> diff, untracked |-> untracked, ignored |-> {"task.md"},
     paths |-> <<"m.py", "test_m.py", "test_o.py">>, modules |-> Modules]

\* A change with a test, the same edited further, and two without the test.
MCCheckouts ==
    [name \in {"tested", "edited", "worked", "untested"} |->
        CASE name = "tested" -> Checkout(<<Source("one"), TestFile, TaskFile>>, <<>>)
          [] name = "edited" -> Checkout(<<Source("two"), TestFile>>, <<Importer, Binary>>)
          [] name = "worked" ->
                [Checkout(<<Source("one")>>, <<Importer, Binary>>) EXCEPT !.paths = <<"m.py">>]
          [] name = "untested" ->
                [Checkout(<<Source("one")>>, <<>>) EXCEPT !.paths = <<"m.py">>]]

(***************************************************************************)
(* Commands.                                                               *)
(***************************************************************************)

DecomposeOf(file, tool, from, frail) ==
    [command |-> "decompose", file |-> file, tool |-> tool, from |-> from, frail |-> frail]
CheckOf(file, from, checkout, head, since, declared, frail) ==
    [command |-> "check", file |-> file, tool |-> Tool(1, 1), from |-> from, frail |-> frail,
     checkout |-> checkout, head |-> head, at |-> "r2", since |-> since, declared |-> declared]

MCHistories ==
    { \* the same file twice, then reworded
      <<DecomposeOf("First", Tool(1, 1), 0, TRUE), DecomposeOf("First", Tool(1, 1), 1, FALSE),
        DecomposeOf("Second", Tool(1, 1), 2, FALSE)>>,
      \* the tool updated in between
      <<DecomposeOf("Second", Tool(1, 1), 0, FALSE), DecomposeOf("First", Tool(1, 2), 1, FALSE)>>,
      <<DecomposeOf("First", Tool(1, 1), 0, FALSE), DecomposeOf("First", Tool(2, 1), 1, FALSE)>>,
      \* a text that becomes the summary, or is it no longer, with and without a
      \* model of its own for that
      <<DecomposeOf("Small", Tool(1, 1), 0, FALSE), DecomposeOf("Summed", Tool(1, 1), 1, FALSE),
        DecomposeOf("Summed", Apart, 2, FALSE)>>,
      <<DecomposeOf("Summed", Tool(1, 1), 0, FALSE), DecomposeOf("Small", Tool(1, 1), 1, FALSE)>>,
      \* a check that builds on the nearest review, and one that names it
      <<CheckOf("Small", 0, "tested", "r1", "none", FALSE, FALSE),
        CheckOf("Small", 1, "worked", WorkingTree, "none", FALSE, FALSE)>>,
      <<CheckOf("Small", 0, "untested", "r1", "none", FALSE, FALSE),
        CheckOf("Small", 1, "edited", WorkingTree, "r1", TRUE, FALSE)>>,
      \* the same head twice or another one, the first of them killed or failed
      <<CheckOf("Small", 0, "tested", "r1", "none", FALSE, TRUE),
        CheckOf("Small", 1, "untested", "r1", "none", FALSE, FALSE)>>,
      <<CheckOf("Small", 0, "untested", "r1", "none", FALSE, TRUE),
        CheckOf("Small", 1, "untested", "r2", "none", FALSE, FALSE)>>,
      <<CheckOf("Small", 0, "untested", "r1", "none", TRUE, TRUE),
        CheckOf("Small", 1, "untested", "r2", "r1", FALSE, FALSE)>>,
      \* a mandate with a boundary, one that leaves something open and is carried,
      \* and one that is not read to the end
      <<CheckOf("Feature", 0, "tested", "r1", "none", FALSE, FALSE)>>,
      <<DecomposeOf("Open", Tool(1, 1), 0, FALSE),
        CheckOf("Open", 1, "tested", "r2", "none", TRUE, FALSE)>>,
      <<CheckOf("Unread", 7, "untested", "r1", "none", FALSE, FALSE)>>,
      \* a question that was carried and an obligation that has its id, and the
      \* other way round, with what is carried of that
      <<DecomposeOf("Asked", Tool(1, 1), 0, FALSE),
        CheckOf("AskedFirst", 1, "untested", "r1", "none", FALSE, FALSE)>>,
      <<DecomposeOf("Told", Tool(1, 1), 0, FALSE), DecomposeOf("ToldFirst", Tool(1, 1), 1, FALSE),
        DecomposeOf("ToldFirst", Tool(1, 1), 2, FALSE)>>,
      <<DecomposeOf("Told", Tool(1, 1), 0, FALSE), DecomposeOf("ToldFirst", Tool(1, 1), 1, FALSE),
        DecomposeOf("ToldSummed", Tool(1, 1), 2, FALSE)>>,
      \* one input twice, asked anew
      <<CheckOf("Asked", 0, "untested", "r1", "none", FALSE, FALSE),
        CheckOf("Asked", 0, "untested", "r2", "none", FALSE, FALSE)>> }

(***************************************************************************)
(* Answers.                                                                *)
(***************************************************************************)

Draft(slug, says, type, quote) ==
    [id |-> <<slug>>, says |-> says, type |-> type, quote |-> quote,
     evidence |-> "code_and_tests", reasoned |-> FALSE]
NonCode(quote) ==
    [Draft("n", "N", "human_review", quote) EXCEPT !.evidence = "neither", !.reasoned = TRUE]
Yields(drafts) ==
    [about |-> TRUE, tag |-> "yielded", drafts |-> drafts, names |-> <<>>, asks |-> <<>>,
     reason |-> FALSE]
Declines(reason) ==
    [about |-> TRUE, tag |-> "no_obligation", drafts |-> <<>>, names |-> <<>>, asks |-> <<>>,
     reason |-> reason]
Asking(named) ==
    [about |-> TRUE, tag |-> "open_question", drafts |-> <<>>,
     names |-> IF named THEN <<<<"q">>>> ELSE <<>>,
     asks |-> <<[id |-> <<"q">>, says |-> "Q"], [id |-> <<"p">>, says |-> "P"]>>, reason |-> FALSE]

ReplyOf(text) ==
    CASE text = <<"c1">> -> {Yields(<<Draft("a", "A", "functional", text)>>),
                             Yields(<<Draft("a", "A", "functional", text),
                                      Draft("b", "B", "functional", <<"zz">>)>>)}
      [] text = <<"c1", "c3">> -> {Yields(<<Draft("a2", "A", "functional", <<"c1">>)>>),
                                   Yields(<<Draft("a2", "C", "functional", text)>>)}
      [] text = <<"c2">> -> {Yields(<<Draft("d", "D", "functional", text)>>)}
      [] text = <<"c4">> -> {Yields(<<Draft("f", "F", "functional", text)>>),
                             Yields(<<Draft("f", "F", "functional", text),
                                      Draft("g", "G", "functional", text)>>)}
      [] text = <<"c5">> -> {Yields(<<Draft("h", "H", "functional", text)>>)}
      [] text = <<"g1">> -> {Yields(<<Draft("q", "G", "functional", text)>>)}
      [] text = <<"e1">> -> {Yields(<<Draft("e", "E", "functional", text)>>)}
      [] text = <<"q1">> -> {Asking(TRUE), Asking(FALSE), Declines(TRUE), [Declines(FALSE) EXCEPT !.about = FALSE]}
      [] text = <<"s1">> -> {Yields(<<Draft("s", "S", "functional", text)>>), Declines(TRUE)}
      [] text = <<"n1">> -> {Yields(<<NonCode(text), Draft("g", "G", "functional", text)>>),
                             Yields(<<NonCode(text)>>),
                             Yields(<<[Draft("l", "L", "functional", text) EXCEPT
                                         !.evidence = "code_only", !.reasoned = TRUE]>>),
                             Declines(FALSE)}
      [] OTHER -> {Declines(TRUE)}

MCReplies ==
    [text \in {<<"s1">>, <<"s2">>, <<"c1">>, <<"c1", "c3">>, <<"c2">>, <<"c4">>, <<"c5">>, <<"e1">>,
              <<"q1">>, <<"n1">>, <<"g1">>} |-> ReplyOf(text)]

Division(covered) ==
    [spans |-> <<<<"s1">>>>,
     rulings |-> <<[span |-> 1, nearest |-> IF covered THEN {<<"d">>} ELSE {},
                    counterexample |-> ~covered, covered |-> covered]>>]
Halves ==
    [spans |-> <<<<"s1">>, <<"s2">>>>,
     rulings |-> [n \in 1..2 |-> [span |-> n, nearest |-> {}, counterexample |-> TRUE, covered |-> FALSE]]]
MCPartitions ==
    [text \in {<<"s1", "s2">>, <<"c5">>} |->
        IF text = <<"c5">> THEN {[Division(FALSE) EXCEPT !.spans = <<text>>]}
        ELSE {Division(TRUE), Division(FALSE), Halves, [Division(FALSE) EXCEPT !.spans = <<<<"s9">>>>]}]

MCFar == {{"A", "S"}, {"B", "S"}, {"D", "S"}, {"C", "S"}, {"A", "B"}}

\* The rulings on one file vary.
MCRulings ==
    [file \in DOMAIN MCMandates |->
        LET ruled(r) == [u \in DOMAIN Units(MCMandates[file]) |-> IF u = 1 THEN r ELSE <<"background">>]
        IN  IF file = "Second"
            THEN {ruled(<<"background", "feeds">>), ruled(<<"background">>)}
            ELSE {ruled(<<>>)}]
MCSyntheses ==
    {<<[slug |-> "x", cites |-> {1}, type |-> "constraint"],
       [slug |-> "x", cites |-> {1, 9}, type |-> "scope_exclusion"],
       [slug |-> "y", cites |-> {9}, type |-> "test_deliverable"]>>}

MCQuestionReplies ==
    [says \in {"P", "Q", "disagreement"} |->
        LET answer(resolved, refs, behavior) ==
                [resolved |-> resolved, refs |-> refs, behavior |-> behavior]
        IN  IF says = "P" THEN {<<answer(TRUE, {<<"m.py", 1>>}, "")>>} ELSE
            {<<>>, <<answer(TRUE, {<<"m.py", 1>>, <<"x.py", 1>>}, "K")>>,
             <<answer(TRUE, {<<"x.py", 1>>}, "K")>>,
             <<answer(TRUE, {<<"m.py", 1>>}, "K"), answer(FALSE, {}, "")>>}]

MCCoverageReplies ==
    [says \in {"E", "F", "G", "H", "L"} |->
        LET answer(status, refs) == [status |-> status, refs |-> refs]
        IN  CASE says = "F" -> {<<answer("addressed", {<<"m.py", 1>>, <<"x.py", 1>>})>>,
                                <<answer("addressed", {}), answer("not_addressed", {})>>}
              [] says \in {"E", "H", "L"} -> {<<answer("addressed", {<<"m.py", 2>>})>>, <<>>}
              [] OTHER -> {<<answer("partially_addressed", {<<"m.py", 2>>})>>}]

MCDefectReplies ==
    [says \in {"E", "F", "G", "H", "K"} |->
        IF says \in {"F", "H"}
        THEN {<<[slug |-> "w", type |-> "missing_case", refs |-> {<<"m.py", 1>>, <<"test_m.py", 1>>}],
                [slug |-> "w", type |-> "not listed", refs |-> {<<"m.py", 2>>}]>>}
        ELSE {<<>>, <<[slug |-> "v", type |-> "not_wired", refs |-> {}]>>}]

MCUnrequestedReplies ==
    {<<>>, <<[refs |-> {<<"m.py", 2>>, <<"x.py", 1>>}, requested |-> FALSE],
             [refs |-> {<<"n.py", 1>>}, requested |-> FALSE],
             [refs |-> {<<"m.py", 1>>}, requested |-> TRUE]>>}

MCAncestors == [r \in {"r1", "r2"} |-> IF r = "r1" THEN [s \in {"r1"} |-> 0]
                                       ELSE [s \in {"r1", "r2"} |-> IF s = "r1" THEN 1 ELSE 0]]

(***************************************************************************)
(* The benchmark.                                                          *)
(***************************************************************************)

Label(id, says, class, type) ==
    [id |-> id, says |-> says, class |-> class, type |-> type, tests |-> {"t"}, hopeless |-> FALSE]

\* Both questions that "Open" may leave have one label; one of the defects of
\* "Small" is not what the enumeration answers.
MCGroundTruth ==
    [file \in {"Small", "Open", "Feature"} |->
        CASE file = "Small" ->
                [obligations |-> <<Label("one", "H", "strongly_supported", "functional"),
                                   Label("two", "H too", "unsupported", "none")>>,
                 gaps |-> <<[id |-> "gap", about |-> "one"], [id |-> "claim", about |-> "none"]>>,
                 unrequested |-> <<[id |-> "extra", file |-> "n.py"]>>, questions |-> <<>>,
                 defects |-> <<[id |-> "d1", about |-> "one", type |-> "missing_case", killed |-> {"t"}],
                               [id |-> "d2", about |-> "two", type |-> "other", killed |-> {}]>>]
          [] file = "Open" ->
                [obligations |-> <<[Label("one", "K", "no_plausible_defect", "functional") EXCEPT
                                      !.hopeless = TRUE]>>,
                 gaps |-> <<>>, unrequested |-> <<>>,
                 questions |-> <<[id |-> <<"q">>, aliases |-> {<<"p">>}, raise |-> TRUE],
                                 [id |-> <<"other">>, aliases |-> {}, raise |-> FALSE]>>,
                 defects |-> <<>>]
          [] file = "Feature" ->
                [obligations |-> <<Label("one", "F", "unsupported", "constraint"),
                                   Label("two", "E", "none", "none")>>,
                 gaps |-> <<[id |-> "gap", about |-> "two"]>>, unrequested |-> <<>>,
                 questions |-> <<>>,
                 defects |-> <<[id |-> "d1", about |-> "two", type |-> "not_wired", killed |-> {}]>>]]

Match(truth, reported) == [truth |-> truth, reported |-> reported]
MCMatchReplies == {<<>>, <<Match(1, 1), Match(1, 2), Match(2, 2), Match(2, 9)>>}

MCCompareReplies ==
    {[matches |-> <<Match(1, 1)>>, covered |-> {"Q", "K"}],
     [matches |-> <<>>, covered |-> {}]}

(***************************************************************************)
(* A file that grew, of which every requirement is answered with an        *)
(* obligation of the same slug.                                            *)
(***************************************************************************)

MCGrown ==
    {<<DecomposeOf("Small", Tool(1, 1), 0, FALSE), DecomposeOf("Larger", Tool(1, 1), 1, FALSE)>>}

MCOneSlug ==
    [text \in DOMAIN MCReplies |-> {Yields(<<Draft("a", Last(text), "functional", text)>>)}]
=============================================================================
