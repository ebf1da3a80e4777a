-------------------------------- MODULE Claims --------------------------------
(***************************************************************************)
(* The other way to obligations: requirement/claims.py decides of every    *)
(* sentence of the mandate whether it states something, and                *)
(* requirement/synthesis.py builds obligations that cite the sentences     *)
(* that do.                                                                *)
(***************************************************************************)
EXTENDS Linking

\* An id is a slug, or a slug and the number that makes it unique.
Unique(candidate, seen) ==
    IF candidate \notin seen THEN candidate
    ELSE Append(candidate,
                CHOOSE k \in 2..(Cardinality(seen) + 2) :
                    /\ Append(candidate, k) \notin seen
                    /\ \A j \in 2..(k - 1) : Append(candidate, j) \in seen)

\* The ids a sequence of candidates gets, after those that are taken.
Minted(candidates, taken) ==
    LET minted[n \in 0..Len(candidates)] ==
            IF n = 0 THEN <<>>
            ELSE LET before == minted[n - 1]
                 IN  Append(before, Unique(candidates[n], taken \cup ToSet(before)))
    IN  minted[Len(candidates)]

\* One decision stands.  Of several, background stands only if all say so;
\* a unit that is not decided states something.
Feeds(rulings) ==
    CASE rulings = <<>> -> TRUE
      [] Len(rulings) = 1 -> rulings[1] # "background"
      [] OTHER -> \E n \in DOMAIN rulings : rulings[n] # "background"

\* A claim is a unit that feeds.
ClaimsOf(rulings) == {unit \in DOMAIN rulings : Feeds(rulings[unit])}

Evidence(type) ==
    CASE type = "requested_behavior" -> "code_and_tests"
      [] type \in {"constraint", "scope_exclusion"} -> "code_only"
      [] type = "test_deliverable" -> "tests_only"

\* The obligations of an answer: their citations are the claims they name, and
\* one that names none is dropped.
Synthesized(answer, claims) ==
    LET cited == Where(answer, LAMBDA a : a.cites \cap claims # {})
        ids == Minted([n \in DOMAIN cited |-> <<cited[n].slug>>], {})
    IN  [n \in DOMAIN cited |->
            [id |-> ids[n], type |-> cited[n].type, claims |-> cited[n].cites \cap claims,
             evidence |-> Evidence(cited[n].type),
             absent |-> cited[n].type = "scope_exclusion"]]
=============================================================================
