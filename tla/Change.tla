-------------------------------- MODULE Change --------------------------------
(***************************************************************************)
(* What a check looks at besides the task file: change/diff.py extracts    *)
(* the change set, change/context.py finds the definitions it touches, and *)
(* evidence/discovery.py the tests that may bear on it.                    *)
(*                                                                         *)
(* A checkout is what git and the file system answer: [diff, untracked,    *)
(* ignored, paths, modules].  A file of the diff has a status, an old path *)
(* if it was renamed, a category and hunks, each with the lines it covers  *)
(* and what it says; a module that can be read and parsed has definitions, *)
(* imports and tests.                                                      *)
(***************************************************************************)
EXTENDS Lists

CONSTANT MaxFilesScanned   \* the test files a scan reads at most

ASSUME BudgetAssumption == MaxFilesScanned \in Nat

(***************************************************************************)
(* The change set.                                                         *)
(***************************************************************************)

Kept(files, checkout) == Where(files, LAMBDA f : f.path \notin checkout.ignored)

\* Between two revisions, only what git knows; in a working tree, the files git
\* does not know are read as additions, if they can be.
ChangeSet(checkout, workingTree) ==
    Kept(checkout.diff, checkout)
        \o (IF workingTree
            THEN Where(Kept(checkout.untracked, checkout), LAMBDA f : f.readable)
            ELSE <<>>)

IgnoredPaths(checkout, workingTree) ==
    {f.path : f \in ToSet(checkout.diff \o (IF workingTree THEN checkout.untracked ELSE <<>>))}
        \cap checkout.ignored

\* The hunks of a change set, by label: the path and the hunk's place in it.
Labels(files) ==
    UNION {{<<files[i].path, n>> : n \in DOMAIN files[i].hunks} : i \in DOMAIN files}

FileAt(files, path) == CHOOSE f \in ToSet(files) : f.path = path
HunkAt(files, label) == FileAt(files, label[1]).hunks[label[2]]

\* The labels of an answer that name hunks the change set has.
ResolvedRefs(labels, files) == labels \cap Labels(files)

\* What a stage that must not see the tests is given.
NonTestChanges(files) == Where(files, LAMBDA f : f.category # "test")

(***************************************************************************)
(* The definitions a change touches.                                       *)
(***************************************************************************)

LiveSources(files) ==
    Where(files, LAMBDA f : f.category = "source" /\ f.status # "deleted")

Parsed(checkout, path) == path \in DOMAIN checkout.modules /\ checkout.modules[path].parses

\* A hunk is attributed to the shortest definition it overlaps, the first of
\* several: at most one, however many it overlaps.
Enclosing(module, hunk) ==
    LET over == {k \in DOMAIN module.definitions :
                    module.definitions[k].first <= hunk.last
                    /\ hunk.first <= module.definitions[k].last}
        length(k) == module.definitions[k].last - module.definitions[k].first
    IN  {k \in over : \A j \in over : length(k) < length(j) \/ (length(k) = length(j) /\ k <= j)}

\* By qualified name, so that of two files' definitions of one name the later
\* file's is kept.
ChangedDefinitions(files, checkout) ==
    LET sources == Where(LiveSources(files), LAMBDA f : Parsed(checkout, f.path))
        found == FlattenSeq([i \in DOMAIN sources |->
                    LET module == checkout.modules[sources[i].path]
                    IN  FlattenSeq([n \in DOMAIN sources[i].hunks |->
                            SetToSeq({[name |-> module.definitions[k].name,
                                       file |-> sources[i].path] :
                                        k \in Enclosing(module, sources[i].hunks[n])})])])
    IN  [name \in {found[n].name : n \in DOMAIN found} |->
            found[Max({n \in DOMAIN found : found[n].name = name})].file]

\* A qualified name is a path of names; what a call or a test mentions is the
\* last of them.
ChangedSymbols(files, checkout) == {Last(name) : name \in DOMAIN ChangedDefinitions(files, checkout)}

(***************************************************************************)
(* The tests that may bear on a change.                                    *)
(***************************************************************************)

\* The stems of the changed source modules.
ChangedModules(files) == {f.stem : f \in ToSet(LiveSources(files))}

\* Every test of a test file the change adds or edits.  Not every file under
\* the tests is one pytest collects from.
AddedOrModifiedTests(files, checkout) ==
    UNION {{<<f.path, t.name>> : t \in ToSet(checkout.modules[f.path].tests)} :
              f \in {g \in ToSet(files) : /\ g.category = "test" /\ g.status # "deleted"
                                          /\ Parsed(checkout, g.path)
                                          /\ checkout.modules[g.path].collected}}

Reasons(test, module, symbols, stems) ==
    {reason \in {"calls", "references", "imports", "name"} :
        CASE reason = "calls" -> test.calls \cap symbols # {}
          [] reason = "references" -> (test.names \cap symbols) \ test.calls # {}
          [] reason = "imports" -> module.imports \cap stems # {}
          [] reason = "name" -> test.hints \cap symbols # {}}

DiscoverTests(files, checkout) ==
    LET symbols == ChangedSymbols(files, checkout)
        stems == ChangedModules(files)
        testPaths == Where(checkout.paths, LAMBDA p : checkout.modules[p].collected)
        scanned == {testPaths[n] : n \in 1..Min({MaxFilesScanned, Len(testPaths)})}
        existing == {path \in scanned : /\ Parsed(checkout, path)
                                        /\ \A f \in ToSet(files) : f.path # path}
    IN  AddedOrModifiedTests(files, checkout) \cup
        UNION {{<<path, t.name>> :
                  t \in {u \in ToSet(checkout.modules[path].tests) :
                           Reasons(u, checkout.modules[path], symbols, stems) # {}}} :
                  path \in existing}
=============================================================================
