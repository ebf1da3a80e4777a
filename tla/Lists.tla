-------------------------------- MODULE Lists --------------------------------
(***************************************************************************)
(* Sequences of records with ids, as the stages keep them.  What is left   *)
(* of a sequence is put together by FlattenSeq and not by SelectSeq, and   *)
(* a function is extended by With and not by @@: of those two the proof    *)
(* system knows no definition.                                             *)
(***************************************************************************)
EXTENDS Integers, SequencesExt, FiniteSetsExt

IsList(seq) == seq \in Seq(ToSet(seq))

\* What a sequence has of a set, and what it has that is so, in its order.
Only(seq, S) == FlattenSeq([n \in DOMAIN seq |-> IF seq[n] \in S THEN <<seq[n]>> ELSE <<>>])
Where(seq, P(_)) == Only(seq, {x \in ToSet(seq) : P(x)})

\* Each element once, where it comes first.
Distinct(seq) ==
    LET firsts == Only([n \in DOMAIN seq |-> n],
                       {n \in DOMAIN seq : \A m \in 1..(n - 1) : seq[m] # seq[n]})
    IN  [k \in DOMAIN firsts |-> seq[firsts[k]]]

\* A function with one more value, or another one.
With(f, x, y) == [z \in DOMAIN f \cup {x} |-> IF z = x THEN y ELSE f[z]]

IdsOf(seq) == {seq[n].id : n \in DOMAIN seq}
PlaceOf(seq, id) == CHOOSE n \in DOMAIN seq : seq[n].id = id
ById(seq, id) == seq[PlaceOf(seq, id)]
=============================================================================
