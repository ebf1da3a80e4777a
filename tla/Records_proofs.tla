--------------------------- MODULE Records_proofs ---------------------------
(***************************************************************************)
(* What Check reads and what it leaves on record, for every mandate, every *)
(* answer and every history of commands: that what was written stays, that *)
(* a command comes to its end, and that every requirement is accounted for; *)
(* with what is known of lists, which those rest on.                       *)
(***************************************************************************)
EXTENDS Check, SequenceTheorems, FiniteSetTheorems, WellFoundedInduction, TLAPS

\* A set of numbers that holds 0 and, with a number, the next one holds them all.
LEMMA Counting ==
    ASSUME NEW T, 0 \in T, \A n \in Nat : n \in T => n + 1 \in T
    PROVE  Nat \subseteq T
<1> SUFFICES ASSUME Nat \ T # {} PROVE FALSE
  OBVIOUS
<1>1. IsWellFoundedOn(OpToRel(<, Nat), Nat)
  BY NatLessThanWellFounded
<1>2. PICK least \in Nat \ T : \A n \in Nat \ T : ~ (<<n, least>> \in OpToRel(<, Nat))
  BY <1>1, WFMin
<1>3. least - 1 \in Nat /\ least - 1 < least
  OBVIOUS
<1>4. <<least - 1, least>> \in OpToRel(<, Nat)
  BY <1>3 DEF OpToRel
<1>5. least - 1 \in T
  BY <1>2, <1>3, <1>4
<1>. QED
  BY <1>3, <1>5

\* Two sequences joined hold what both held.
LEMMA Joining ==
    ASSUME NEW S, NEW s \in Seq(S), NEW t \in Seq(S)
    PROVE  s \o t \in Seq(S) /\ ToSet(s \o t) = ToSet(s) \cup ToSet(t)
<1>1. s \o t \in Seq(S) /\ Len(s \o t) = Len(s) + Len(t) /\ Len(s) \in Nat /\ Len(t) \in Nat
  OBVIOUS
<1>2. DOMAIN s = 1..Len(s) /\ DOMAIN t = 1..Len(t) /\ DOMAIN (s \o t) = 1..(Len(s) + Len(t))
  BY <1>1
<1>3. \A i \in 1..Len(s) : (s \o t)[i] = s[i]
  OBVIOUS
<1>4. \A i \in 1..Len(t) : (s \o t)[Len(s) + i] = t[i]
  OBVIOUS
<1>5. \A i \in 1..(Len(s) + Len(t)) : (s \o t)[i] = IF i <= Len(s) THEN s[i] ELSE t[i - Len(s)]
  OBVIOUS
<1>6. ToSet(s \o t) \subseteq ToSet(s) \cup ToSet(t)
  <2> SUFFICES ASSUME NEW i \in 1..(Len(s) + Len(t)) PROVE (s \o t)[i] \in ToSet(s) \cup ToSet(t)
    BY <1>2 DEF ToSet
  <2>1. CASE i <= Len(s)
    BY <1>1, <1>2, <1>5, <2>1 DEF ToSet
  <2>2. CASE ~(i <= Len(s))
    <3>1. i - Len(s) \in 1..Len(t) /\ (s \o t)[i] = t[i - Len(s)]
      BY <1>1, <1>5, <2>2
    <3>. QED
      BY <1>2, <3>1 DEF ToSet
  <2>. QED
    BY <2>1, <2>2
<1>7. ToSet(s) \subseteq ToSet(s \o t)
  BY <1>1, <1>2, <1>3 DEF ToSet
<1>8. ToSet(t) \subseteq ToSet(s \o t)
  <2> SUFFICES ASSUME NEW i \in 1..Len(t) PROVE t[i] \in ToSet(s \o t)
    BY <1>2 DEF ToSet
  <2>1. Len(s) + i \in 1..(Len(s) + Len(t))
    BY <1>1
  <2>. QED
    BY <1>2, <1>4, <2>1 DEF ToSet
<1>. QED
  BY <1>1, <1>6, <1>7, <1>8

\* What FlattenSeq has joined after each of the first n.
Joins(ss, S, n) ==
    {f \in [1..n -> Seq(S)] : \A i \in 1..n : f[i] = IF i = 1 THEN ss[1] ELSE f[i - 1] \o ss[i]}

\* What joins the first n of some sequences can be gone on with.
LEMMA JoinsNext ==
    ASSUME NEW S, NEW L \in Nat, NEW ss \in [1..L -> Seq(S)], NEW n \in 1..L, n + 1 \in 1..L,
           NEW f \in Joins(ss, S, n)
    PROVE  Joins(ss, S, n + 1) # {}
<1> DEFINE g == [i \in 1..(n + 1) |-> IF i = n + 1 THEN f[n] \o ss[n + 1] ELSE f[i]]
<1>1. f \in [1..n -> Seq(S)] /\ \A i \in 1..n : f[i] = IF i = 1 THEN ss[1] ELSE f[i - 1] \o ss[i]
  BY DEF Joins
<1>2. f[n] \in Seq(S) /\ ss[n + 1] \in Seq(S)
  BY <1>1
<1>3. f[n] \o ss[n + 1] \in Seq(S)
  BY <1>2
<1>4. g \in [1..(n + 1) -> Seq(S)]
  <2>1. \A i \in 1..(n + 1) : i # n + 1 => i \in 1..n
    OBVIOUS
  <2>. QED BY <1>1, <1>3, <2>1
<1>5. g[n + 1] = f[n] \o ss[n + 1]
  <2>1. n + 1 \in 1..(n + 1)
    OBVIOUS
  <2>. QED BY <2>1
<1>6. \A i \in 1..n : g[i] = f[i]
  <2>1. \A i \in 1..n : i \in 1..(n + 1) /\ i # n + 1
    OBVIOUS
  <2>. QED BY <2>1
<1> HIDE DEF g
<1>7. ASSUME NEW i \in 1..(n + 1)
      PROVE  g[i] = IF i = 1 THEN ss[1] ELSE g[i - 1] \o ss[i]
  <2>1. CASE i = n + 1
    <3>1. i - 1 = n /\ i # 1 /\ n \in 1..n
      BY <2>1
    <3>2. g[i - 1] = f[n]
      BY <1>6, <3>1
    <3>. QED
      BY <1>5, <2>1, <3>1, <3>2
  <2>2. CASE i # n + 1
    <3>1. i \in 1..n /\ (i # 1 => i - 1 \in 1..n)
      BY <2>2
    <3>2. g[i] = f[i] /\ (i # 1 => g[i - 1] = f[i - 1])
      BY <1>6, <3>1
    <3>3. f[i] = IF i = 1 THEN ss[1] ELSE f[i - 1] \o ss[i]
      BY <1>1, <3>1
    <3>. QED
      BY <3>2, <3>3
  <2>. QED
    BY <2>1, <2>2
<1>8. g \in Joins(ss, S, n + 1)
  BY <1>4, <1>7 DEF Joins
<1>. QED
  BY <1>8

\* The sequences can be joined, up to the last.
LEMMA JoinsExist ==
    ASSUME NEW S, NEW L \in Nat, NEW ss \in [1..L -> Seq(S)], L # 0
    PROVE  Joins(ss, S, L) # {}
<1> DEFINE T == {n \in Nat : n \in 1..L => Joins(ss, S, n) # {}}
<1>1. 0 \in T
  OBVIOUS
<1>2. ASSUME NEW n \in Nat, n \in T PROVE n + 1 \in T
  <2>1. CASE n = 0 /\ n + 1 \in 1..L
    <3> DEFINE f == [i \in 1..1 |-> ss[1]]
    <3>1. ss[1] \in Seq(S)
      BY <2>1
    <3>2. f \in [1..1 -> Seq(S)] /\ f[1] = ss[1] /\ \A i \in 1..1 : i = 1
      BY <3>1
    <3> HIDE DEF f
    <3>3. f \in Joins(ss, S, 1)
      BY <3>2 DEF Joins
    <3>. QED
      BY <2>1, <3>3
  <2>2. CASE n # 0 /\ n + 1 \in 1..L
    <3>1. n \in 1..L
      BY <2>2
    <3>2. PICK f : f \in Joins(ss, S, n)
      BY <1>2, <3>1
    <3>3. Joins(ss, S, n + 1) # {}
      BY <2>2, <3>1, <3>2, JoinsNext
    <3>. QED
      BY <3>3
  <2>3. CASE n + 1 \notin 1..L
    BY <2>3
  <2>. QED
    BY <2>1, <2>2, <2>3
<1>3. Nat \subseteq T
  <2> HIDE DEF T
  <2>. QED BY <1>1, <1>2, Counting
<1>4. L \in T /\ L \in 1..L
  BY <1>3
<1>. QED
  BY <1>4

\* What they hold after the first n.
Joined(g, ss, S, n) == g[n] \in Seq(S) /\ ToSet(g[n]) = UNION {ToSet(ss[k]) : k \in 1..n}

\* Joining one more adds what it holds.
LEMMA JoinedNext ==
    ASSUME NEW S, NEW ss, NEW g, NEW n \in Nat, ss[n + 1] \in Seq(S), Joined(g, ss, S, n),
           g[n + 1] = g[n] \o ss[n + 1]
    PROVE  Joined(g, ss, S, n + 1)
<1>1. g[n + 1] \in Seq(S) /\ ToSet(g[n + 1]) = ToSet(g[n]) \cup ToSet(ss[n + 1])
  BY Joining DEF Joined
<1>2. 1..(n + 1) = 1..n \cup {n + 1}
  OBVIOUS
<1>3. UNION {ToSet(ss[k]) : k \in 1..(n + 1)}
         = (UNION {ToSet(ss[k]) : k \in 1..n}) \cup ToSet(ss[n + 1])
  BY <1>2
<1>. QED
  BY <1>1, <1>3 DEF Joined

\* Whatever joins them one by one holds what they hold.
LEMMA JoinsTo ==
    ASSUME NEW S, NEW L \in Nat, NEW ss \in [1..L -> Seq(S)], NEW g,
           \A i \in 1..L : g[i] = IF i = 1 THEN ss[i] ELSE g[i - 1] \o ss[i]
    PROVE  \A n \in 1..L : Joined(g, ss, S, n)
<1> DEFINE T == {n \in Nat : n \in 1..L => Joined(g, ss, S, n)}
<1>1. 0 \in T
  OBVIOUS
<1>2. ASSUME NEW n \in Nat, n \in T PROVE n + 1 \in T
  <2>1. CASE n = 0 /\ n + 1 \in 1..L
    <3>1. g[1] = ss[1] /\ ss[1] \in Seq(S) /\ 1..1 = {1}
      BY <2>1
    <3>2. Joined(g, ss, S, 1)
      BY <3>1 DEF Joined
    <3>. QED
      BY <2>1, <3>2
  <2>2. CASE n # 0 /\ n + 1 \in 1..L
    <3>1. n \in 1..L /\ Joined(g, ss, S, n)
      BY <1>2, <2>2
    <3>2. g[n + 1] = g[n] \o ss[n + 1] /\ ss[n + 1] \in Seq(S)
      <4>1. n + 1 # 1 /\ (n + 1) - 1 = n
        BY <2>2
      <4>. QED BY <2>2, <4>1
    <3>3. Joined(g, ss, S, n + 1)
      BY <3>1, <3>2, JoinedNext
    <3>. QED
      BY <3>3
  <2>3. CASE n + 1 \notin 1..L
    BY <2>3
  <2>. QED
    BY <2>1, <2>2, <2>3
<1>3. Nat \subseteq T
  <2> HIDE DEF T
  <2>. QED BY <1>1, <1>2, Counting
<1>. QED
  BY <1>3

\* FlattenSeq joins sequences into one that holds what they hold.
LEMMA Flattening ==
    ASSUME NEW S, NEW ss \in Seq(Seq(S))
    PROVE  /\ FlattenSeq(ss) \in Seq(S)
           /\ ToSet(FlattenSeq(ss)) = UNION {ToSet(ss[n]) : n \in DOMAIN ss}
<1>1. CASE Len(ss) = 0
  <2>1. ss = <<>> /\ FlattenSeq(ss) = <<>>
    BY <1>1 DEF FlattenSeq
  <2>2. ToSet(<<>>) = {} /\ DOMAIN ss = {} /\ <<>> \in Seq(S)
    BY <2>1 DEF ToSet
  <2>. QED
    BY <2>1, <2>2
<1>2. CASE Len(ss) # 0
  <2>1. Len(ss) \in Nat /\ ss \in [1..Len(ss) -> Seq(S)]
    OBVIOUS
  <2>2. PICK f : f \in Joins(ss, S, Len(ss))
    BY <1>2, <2>1, JoinsExist
  <2>3. /\ f \in [1..Len(ss) -> Seq(S)]
        /\ \A i \in 1..Len(ss) : f[i] = IF i = 1 THEN ss[1] ELSE f[i - 1] \o ss[i]
    BY <2>2 DEF Joins
  <2>4. \A i \in 1..Len(ss) : f[i] = IF i = 1 THEN ss[i] ELSE f[i - 1] \o ss[i]
    BY <2>3
  <2>5. f = [i \in 1..Len(ss) |-> IF i = 1 THEN ss[i] ELSE f[i - 1] \o ss[i]]
    BY <2>3, <2>4
  <2> DEFINE g == CHOOSE h : h = [i \in 1..Len(ss) |-> IF i = 1 THEN ss[i] ELSE h[i - 1] \o ss[i]]
  <2>6. g = [i \in 1..Len(ss) |-> IF i = 1 THEN ss[i] ELSE g[i - 1] \o ss[i]]
    BY <2>5
  <2>7. FlattenSeq(ss) = g[Len(ss)]
    BY <1>2 DEF FlattenSeq
  <2> HIDE DEF g
  <2>8. Len(ss) \in 1..Len(ss)
    BY <1>2, <2>1
  <2>9. /\ g[Len(ss)] \in Seq(S)
        /\ ToSet(g[Len(ss)]) = UNION {ToSet(ss[k]) : k \in 1..Len(ss)}
    <3>1. \A i \in 1..Len(ss) : g[i] = IF i = 1 THEN ss[i] ELSE g[i - 1] \o ss[i]
      BY <2>6
    <3>2. Joined(g, ss, S, Len(ss))
      BY <2>1, <2>8, <3>1, JoinsTo
    <3>. QED
      BY <3>2 DEF Joined
  <2>10. DOMAIN ss = 1..Len(ss)
    BY <2>1
  <2>. QED
    BY <2>7, <2>9, <2>10
<1>. QED
  BY <1>1, <1>2

\* What is known of a sequence over any set.
LEMMA Listed ==
    ASSUME NEW S, NEW seq \in Seq(S)
    PROVE  /\ IsList(seq) /\ ToSet(seq) \subseteq S
           /\ Len(seq) \in Nat /\ DOMAIN seq = 1..Len(seq)
<1>1. Len(seq) \in Nat /\ DOMAIN seq = 1..Len(seq) /\ seq \in [1..Len(seq) -> S]
  OBVIOUS
<1>2. \A i \in 1..Len(seq) : seq[i] \in ToSet(seq)
  BY <1>1 DEF ToSet
<1>3. seq \in [1..Len(seq) -> ToSet(seq)]
  BY <1>1, <1>2
<1>4. IsList(seq)
  BY <1>1, <1>3 DEF IsList
<1>. QED
  BY <1>1, <1>4 DEF ToSet

\* A list with something else at each place.
LEMMA Mapped ==
    ASSUME NEW seq, IsList(seq), NEW f, NEW S, DOMAIN f = DOMAIN seq,
           \A n \in DOMAIN seq : f[n] \in S, f = [n \in DOMAIN seq |-> f[n]]
    PROVE  f \in Seq(S) /\ IsList(f) /\ Len(f) = Len(seq)
<1>1. seq \in Seq(ToSet(seq))
  BY DEF IsList
<1>2. Len(seq) \in Nat /\ DOMAIN seq = 1..Len(seq)
  BY <1>1
<1>3. f \in [1..Len(seq) -> S]
  BY <1>2
<1>4. f \in Seq(S) /\ Len(f) = Len(seq)
  BY <1>2, <1>3
<1>. QED
  BY <1>4, Listed

\* The empty list, and no other, holds nothing.
LEMMA Emptied ==
    /\ IsList(<<>>) /\ ToSet(<<>>) = {} /\ DOMAIN <<>> = {} /\ IdsOf(<<>>) = {}
    /\ \A seq : IsList(seq) => (seq = <<>> <=> ToSet(seq) = {})
<1>1. IsList(<<>>) /\ ToSet(<<>>) = {} /\ DOMAIN <<>> = {} /\ IdsOf(<<>>) = {}
  BY DEF IsList, ToSet, IdsOf
<1>2. ASSUME NEW seq, IsList(seq), ToSet(seq) = {} PROVE seq = <<>>
  <2>1. seq \in Seq({})
    BY <1>2 DEF IsList
  <2>2. Len(seq) = 0
    BY <2>1
  <2>. QED
    BY <2>1, <2>2
<1>. QED
  BY <1>1, <1>2

\* Two lists joined are a list of what both held.
LEMMA JoinedLists ==
    ASSUME NEW s, NEW t, IsList(s), IsList(t)
    PROVE  /\ IsList(s \o t) /\ ToSet(s \o t) = ToSet(s) \cup ToSet(t)
           /\ IdsOf(s \o t) = IdsOf(s) \cup IdsOf(t)
<1> DEFINE S == ToSet(s) \cup ToSet(t)
<1>1. s \in Seq(S) /\ t \in Seq(S)
  BY DEF IsList
<1>2. s \o t \in Seq(S) /\ ToSet(s \o t) = S
  BY <1>1, Joining
<1>3. \A seq : IdsOf(seq) = {x.id : x \in ToSet(seq)}
  BY DEF IdsOf, ToSet
<1>. QED
  BY <1>2, <1>3, Listed

\* What a list has of a set is a list of just that.
LEMMA OnlyHas ==
    ASSUME NEW seq, IsList(seq), NEW S
    PROVE  IsList(Only(seq, S)) /\ ToSet(Only(seq, S)) = ToSet(seq) \cap S
<1> DEFINE T == ToSet(seq)
           ss == [n \in DOMAIN seq |-> IF seq[n] \in S THEN <<seq[n]>> ELSE <<>>]
<1>1. seq \in Seq(T)
  BY DEF IsList
<1>2. Len(seq) \in Nat /\ DOMAIN seq = 1..Len(seq) /\ \A n \in DOMAIN seq : seq[n] \in T
  BY <1>1
<1>3. \A n \in DOMAIN seq : ss[n] \in Seq(T)
  <2>. SUFFICES ASSUME NEW n \in DOMAIN seq PROVE ss[n] \in Seq(T)
    OBVIOUS
  <2>1. <<seq[n]>> \in Seq(T) /\ <<>> \in Seq(T)
    BY <1>2
  <2>. QED BY <2>1
<1>4. ss \in Seq(Seq(T))
  <2>1. ss \in [1..Len(seq) -> Seq(T)]
    BY <1>2, <1>3
  <2> HIDE DEF ss
  <2>. QED BY <1>2, <2>1
<1>5. \A n \in DOMAIN seq : ToSet(ss[n]) = IF seq[n] \in S THEN {seq[n]} ELSE {}
  <2>1. \A x : ToSet(<<x>>) = {x}
    BY DEF ToSet
  <2>2. ToSet(<<>>) = {}
    BY DEF ToSet
  <2>. QED BY <2>1, <2>2
<1>6. Only(seq, S) = FlattenSeq(ss) /\ DOMAIN ss = DOMAIN seq
  BY DEF Only
<1> HIDE DEF ss
<1>7. /\ Only(seq, S) \in Seq(T)
      /\ ToSet(Only(seq, S)) = UNION {ToSet(ss[n]) : n \in DOMAIN seq}
  BY <1>4, <1>6, Flattening
<1>8. ToSet(Only(seq, S)) = T \cap S
  <2>1. T = {seq[n] : n \in DOMAIN seq}
    BY DEF ToSet
  <2> HIDE DEF T
  <2>2. ASSUME NEW x \in ToSet(Only(seq, S)) PROVE x \in T \cap S
    <3>1. PICK n \in DOMAIN seq : x \in ToSet(ss[n])
      BY <1>7, <2>2
    <3>2. seq[n] \in S /\ x = seq[n]
      BY <1>5, <3>1
    <3>. QED BY <2>1, <3>2
  <2>3. ASSUME NEW x \in T \cap S PROVE x \in ToSet(Only(seq, S))
    <3>1. PICK n \in DOMAIN seq : x = seq[n]
      BY <2>1, <2>3
    <3>2. x \in ToSet(ss[n])
      BY <1>5, <2>3, <3>1
    <3>. QED BY <1>7, <3>2
  <2>. QED BY <2>2, <2>3
<1>. QED
  BY <1>7, <1>8, Listed

\* The least of some numbers.
LEMMA Least ==
    ASSUME NEW T, T \subseteq Nat, T # {}
    PROVE  \E least \in T : \A n \in T : least <= n
<1>1. IsWellFoundedOn(OpToRel(<, Nat), Nat)
  BY NatLessThanWellFounded
<1>2. PICK least \in T : \A n \in T : ~ (<<n, least>> \in OpToRel(<, Nat))
  BY <1>1, WFMin
<1>3. \A n \in T : ~ (n < least)
  BY <1>2 DEF OpToRel
<1>4. \A n \in T : least <= n
  BY <1>3
<1>. QED
  BY <1>4

\* The first place of something in a list.
LEMMA FirstPlace ==
    ASSUME NEW seq, IsList(seq), NEW x \in ToSet(seq)
    PROVE  \E n \in DOMAIN seq : seq[n] = x /\ \A m \in 1..(n - 1) : seq[m] # x
<1> DEFINE T == {n \in DOMAIN seq : seq[n] = x}
<1>1. DOMAIN seq = 1..Len(seq) /\ Len(seq) \in Nat
  BY Listed DEF IsList
<1>2. T \subseteq Nat /\ T # {}
  BY <1>1 DEF ToSet
<1>3. PICK least \in T : \A n \in T : least <= n
  BY <1>2, Least
<1>4. ASSUME NEW m \in 1..(least - 1) PROVE seq[m] # x
  <2>1. m \in DOMAIN seq /\ ~(least <= m)
    BY <1>1
  <2>. QED BY <1>3, <2>1
<1>. QED
  BY <1>3, <1>4

\* Of a list without repetitions nothing is gone, and nothing comes twice.
LEMMA DistinctHas ==
    ASSUME NEW seq, IsList(seq)
    PROVE  IsList(Distinct(seq)) /\ ToSet(Distinct(seq)) = ToSet(seq)
<1> DEFINE places == [n \in DOMAIN seq |-> n]
           S == {n \in DOMAIN seq : \A m \in 1..(n - 1) : seq[m] # seq[n]}
           firsts == Only(places, S)
<1>1. DOMAIN seq = 1..Len(seq) /\ Len(seq) \in Nat
  BY Listed DEF IsList
<1>2. places \in Seq(DOMAIN seq)
  <2>1. places \in [1..Len(seq) -> DOMAIN seq]
    BY <1>1
  <2> HIDE DEF places
  <2>. QED BY <1>1, <2>1
<1>3. IsList(places)
  BY <1>2, Listed
<1>4. ToSet(places) = DOMAIN seq
  BY DEF ToSet
<1> HIDE DEF places
<1>5. IsList(firsts) /\ ToSet(firsts) = S
  BY <1>3, <1>4, OnlyHas
<1>6. Distinct(seq) = [k \in DOMAIN firsts |-> seq[firsts[k]]]
  BY DEF Distinct, places
<1> HIDE DEF firsts
<1>7. \A k \in DOMAIN firsts : firsts[k] \in DOMAIN seq /\ seq[firsts[k]] \in ToSet(seq)
  <2>1. \A k \in DOMAIN firsts : firsts[k] \in S
    BY <1>5 DEF ToSet
  <2>. QED BY <2>1 DEF ToSet
<1>8. IsList(Distinct(seq)) /\ ToSet(Distinct(seq)) \subseteq ToSet(seq)
  <2>1. \A k \in DOMAIN firsts : Distinct(seq)[k] \in ToSet(seq)
    BY <1>6, <1>7
  <2>2. /\ DOMAIN Distinct(seq) = DOMAIN firsts
        /\ Distinct(seq) = [k \in DOMAIN firsts |-> Distinct(seq)[k]]
    BY <1>6
  <2>3. Distinct(seq) \in Seq(ToSet(seq))
    BY <1>5, <2>1, <2>2, Mapped
  <2>. QED BY <2>3, Listed
<1>9. ASSUME NEW x \in ToSet(seq) PROVE x \in ToSet(Distinct(seq))
  <2>1. PICK n \in DOMAIN seq : seq[n] = x /\ \A m \in 1..(n - 1) : seq[m] # x
    BY FirstPlace
  <2>2. n \in S
    BY <2>1
  <2>3. PICK k \in DOMAIN firsts : firsts[k] = n
    BY <1>5, <2>2 DEF ToSet
  <2>4. Distinct(seq)[k] = x /\ k \in DOMAIN Distinct(seq)
    BY <1>6, <2>1, <2>3
  <2>. QED BY <2>4 DEF ToSet
<1>. QED
  BY <1>8, <1>9

\* The first of a list, and the rest.
LEMMA Taking ==
    ASSUME NEW seq, IsList(seq), seq # <<>>
    PROVE  /\ Head(seq) \in ToSet(seq) /\ IsList(Tail(seq)) /\ ToSet(Tail(seq)) \subseteq ToSet(seq)
           /\ Len(Tail(seq)) = Len(seq) - 1 /\ Len(seq) \in Nat
           /\ ToSet(seq) = {Head(seq)} \cup ToSet(Tail(seq))
<1>1. seq \in Seq(ToSet(seq))
  BY DEF IsList
<1>2. /\ Head(seq) \in ToSet(seq) /\ Tail(seq) \in Seq(ToSet(seq)) /\ Len(Tail(seq)) = Len(seq) - 1
      /\ Len(seq) \in Nat
  BY <1>1, HeadTailProperties
<1>3. IsList(Tail(seq)) /\ ToSet(Tail(seq)) \subseteq ToSet(seq)
  BY <1>2, Listed
<1>4. Head(seq) = seq[1] /\ \A i \in 1..(Len(seq) - 1) : Tail(seq)[i] = seq[i + 1]
  BY <1>1
<1>5. DOMAIN seq = 1..Len(seq) /\ DOMAIN Tail(seq) = 1..(Len(seq) - 1)
  BY <1>1, <1>2
<1>6. ASSUME NEW n \in DOMAIN seq PROVE seq[n] \in {Head(seq)} \cup ToSet(Tail(seq))
  <2>1. CASE n = 1
    BY <1>4, <2>1
  <2>2. CASE n # 1
    <3>1. n - 1 \in DOMAIN Tail(seq) /\ Tail(seq)[n - 1] = seq[n]
      BY <1>2, <1>4, <1>5, <2>2
    <3>. QED BY <3>1 DEF ToSet
  <2>. QED BY <2>1, <2>2
<1>. QED
  BY <1>2, <1>3, <1>6 DEF ToSet

\* A list holds finitely many things.
LEMMA ListsAreFinite ==
    ASSUME NEW seq, IsList(seq)
    PROVE  IsFiniteSet(ToSet(seq))
<1>1. seq \in [1..Len(seq) -> ToSet(seq)] /\ Len(seq) \in Nat
  BY DEF IsList
<1>2. \A x \in ToSet(seq) : \E n \in 1..Len(seq) : seq[n] = x
  BY <1>1 DEF ToSet
<1>3. seq \in Surjection(1..Len(seq), ToSet(seq))
  BY <1>1, <1>2 DEF Surjection
<1>. QED
  BY <1>1, <1>3, FS_NatSurjection DEF ExistsSurjection

\* What is looked up under an id is in the sequence and has that id.
LEMMA LookedUp ==
    ASSUME NEW seq, NEW id \in IdsOf(seq)
    PROVE  ById(seq, id) \in ToSet(seq) /\ ById(seq, id).id = id
BY DEF IdsOf, ById, PlaceOf, ToSet

Steps == {"claiming", "synthesizing", "planning", "asking", "linking", "resolving", "enumerating",
          "judging", "classifying", "detecting", "prescribing", "concluding", "recording"}

\* The commands are a list of commands, and the ledger a sequence.
IsCommand(c) ==
    /\ c.command \in {"decompose", "check"} /\ c.file \in DOMAIN Mandates /\ c.from \in Nat
    /\ c.command = "check" => c.checkout \in DOMAIN Checkouts
CommandsShape == IsList(commands) /\ \A c \in ToSet(commands) : IsCommand(c)
LedgerShape == \E S : ledger \in Seq(S)

\* A decompose is done with the ledger before it looks at the claims.
PastLedger == run.command # "check" /\ step \in {"claiming", "synthesizing"}

\* Until a run writes its entry nothing is written under its id.
Unwritten ==
    step \notin Outcomes /\ ~PastLedger =>
        ledger # <<>> /\ ledger[Len(ledger)].file = "none"

RunShape ==
    /\ run.from \in Nat /\ run.file \in DOMAIN Mandates \cup {"none"}
    /\ run.command = "check" => run.checkout \in DOMAIN Checkouts

Inv == CommandsShape /\ LedgerShape /\ Unwritten /\ RunShape

\* No command has begun, and nothing is on record.
LEMMA InitInv == Init => Inv
<1> SUFFICES ASSUME Init PROVE Inv
  OBVIOUS
<1>1. CommandsShape
  <2>1. commands \in Histories
    BY DEF Init, InitDecompose
  <2>. QED
    BY <2>1, HistoriesAssumption, ChecksAssumption DEF CommandsShape, IsCommand, ToSet
<1>2. LedgerShape
  <2>1. ledger \in Seq({})
    BY DEF Init, InitDecompose
  <2>. QED
    BY <2>1 DEF LedgerShape
<1>3. Unwritten /\ RunShape
  BY DEF Init, InitDecompose, Unwritten, Outcomes, RunShape, NoRun
<1>. QED
  BY <1>1, <1>2, <1>3 DEF Inv

\* What a step may do to the ledger: an entry stays, or one that nothing was
\* written in is written.
LedgerMoves ==
    /\ DOMAIN ledger \subseteq DOMAIN ledger'
    /\ \A n \in DOMAIN ledger' :
          \/ n \in DOMAIN ledger /\ ledger'[n] = ledger[n]
          \/ /\ ledger'[n].file \in {"none", "torn", "whole"} /\ ledger'[n].from \in Nat
             /\ n \in DOMAIN ledger => ledger[n].file = "none"

\* A command begins with an entry of its own that nothing is written in.
LEMMA Begun ==
    ASSUME Inv, commands # <<>>, NEW next, Begin(next)
    PROVE  Inv' /\ LedgerMoves
<1>1. IsList(commands) /\ \A c \in ToSet(commands) : IsCommand(c)
  BY DEF Inv, CommandsShape
<1>2. /\ Head(commands) \in ToSet(commands) /\ IsList(Tail(commands))
      /\ ToSet(Tail(commands)) \subseteq ToSet(commands)
  BY <1>1, Taking
<1>3. CommandsShape' /\ RunShape'
  <2>1. commands' = Tail(commands) /\ run' = Head(commands)
    BY DEF Begin
  <2>. QED
    BY <1>1, <1>2, <2>1 DEF CommandsShape, RunShape, IsCommand
<1>4. PICK E : ledger \in Seq(E)
  BY DEF Inv, LedgerShape
<1>5. ledger' = Append(ledger, Blank("none")) /\ ledger \in Seq(E \cup {Blank("none")})
  BY <1>4 DEF Begin
<1>6. /\ ledger' \in Seq(E \cup {Blank("none")}) /\ Len(ledger') = Len(ledger) + 1
      /\ \A n \in 1..Len(ledger) : ledger'[n] = ledger[n]
      /\ ledger'[Len(ledger) + 1] = Blank("none")
  BY <1>5
<1>7. Blank("none").file = "none"
  BY DEF Blank
<1>8. LedgerShape' /\ Unwritten'
  BY <1>5, <1>6, <1>7 DEF LedgerShape, Unwritten
<1>9. DOMAIN ledger = 1..Len(ledger) /\ Len(ledger) \in Nat /\ DOMAIN ledger' = 1..(Len(ledger) + 1)
  BY <1>5, <1>6
<1>10. LedgerMoves
  BY <1>6, <1>9 DEF LedgerMoves, Blank
<1>. QED
  BY <1>3, <1>8, <1>10 DEF Inv

\* A step that leaves the ledger be, and goes on to one that may.
LEMMA Untouched ==
    ASSUME Inv, UNCHANGED <<commands, ledger, run>>,
           \/ step' \in Outcomes \/ PastLedger' \/ UNCHANGED step
           \/ step \notin Outcomes /\ ~PastLedger
    PROVE  Inv' /\ LedgerMoves
BY DEF Inv, CommandsShape, LedgerShape, Unwritten, RunShape, PastLedger, LedgerMoves

\* A step that writes the entry of the run's own id, and is past it.
LEMMA Written ==
    ASSUME Inv, UNCHANGED commands, run' \in {run, NoRun}, step \notin Outcomes, ~PastLedger,
           step' \in Outcomes \/ PastLedger',
           \E entry : /\ entry.file \in {"none", "torn", "whole"} /\ entry.from \in Nat
                      /\ ledger' = [ledger EXCEPT ![Len(ledger)] = entry]
    PROVE  Inv' /\ LedgerMoves
<1>. PICK entry : /\ entry.file \in {"none", "torn", "whole"} /\ entry.from \in Nat
                  /\ ledger' = [ledger EXCEPT ![Len(ledger)] = entry]
  OBVIOUS
<1>1. PICK E : ledger \in Seq(E)
  BY DEF Inv, LedgerShape
<1>2. ledger \in Seq(E \cup {entry}) /\ Len(ledger) \in Nat /\ DOMAIN ledger = 1..Len(ledger)
  BY <1>1
<1>3. ledger[Len(ledger)].file = "none" /\ ledger # <<>>
  BY DEF Inv, Unwritten
<1>4. ledger' \in Seq(E \cup {entry})
  <2>1. Len(ledger) \in 1..Len(ledger)
    BY <1>2, <1>3
  <2>. QED
    BY <1>2, <2>1, ExceptSeq
<1>5. DOMAIN ledger' = DOMAIN ledger
  OBVIOUS
<1>6. LedgerMoves
  BY <1>2, <1>3, <1>5 DEF LedgerMoves
<1>7. CommandsShape' /\ LedgerShape' /\ Unwritten' /\ RunShape'
  BY <1>4 DEF Inv, CommandsShape, LedgerShape, Unwritten, RunShape, NoRun
<1>. QED
  BY <1>6, <1>7 DEF Inv

\* A command that fails or is killed writes nothing, or nothing that is whole.
LEMMA Ends ==
    ASSUME Inv, UNCHANGED <<commands, ledger>>, run' = NoRun, step' \in Outcomes
    PROVE  Inv' /\ LedgerMoves
BY DEF Inv, CommandsShape, LedgerShape, Unwritten, RunShape, NoRun, LedgerMoves

\* A fault ends the run.
LEMMA FaultsAreOutcomes ==
    ASSUME NEW registry
    PROVE  FirstFault(registry) \in {"none", "model_error", "crashed"}
<1>1. \A id : Fault(id) \in {"none", "model_error", "crashed"}
  BY DEF Fault
<1>. QED
  BY <1>1 DEF FirstFault

\* A step of reading the file.
LEMMA ReadingMoves ==
    ASSUME Inv, ReadingStep
    PROVE  Inv' /\ LedgerMoves /\ step' \in Outcomes \cup Steps
<1>1. CASE PlanCarry
  BY <1>1, Untouched DEF PlanCarry, PastLedger, Outcomes, Steps
<1>2. CASE AskAbout
  BY <1>2, Untouched DEF AskAbout, Outcomes, Steps
<1>3. CASE DecideSpans
  BY <1>3, Untouched DEF DecideSpans, Outcomes, Steps
<1>4. CASE AskSpan
  BY <1>4, Untouched DEF AskSpan, Outcomes, Steps
<1>5. CASE SummaryDone
  BY <1>5, Untouched DEF SummaryDone, Outcomes, Steps
<1>6. CASE Reconcile
  <2>1. step' \in {"linking", "model_error", "crashed"} /\ step = "asking"
    BY <1>6, FaultsAreOutcomes DEF Reconcile
  <2>2. UNCHANGED <<commands, ledger, run>>
    BY <1>6 DEF Reconcile
  <2>. QED
    BY <2>1, <2>2, Untouched DEF PastLedger, Outcomes, Steps
<1>7. CASE Link
  <2>1. step' \in {"resolving", "recording"} /\ step = "linking"
    BY <1>7 DEF Link
  <2>2. UNCHANGED <<commands, ledger, run>>
    BY <1>7 DEF Link
  <2>. QED
    BY <2>1, <2>2, Untouched DEF PastLedger, Outcomes, Steps
<1>8. CASE Record
  <2>1. \E entry : /\ entry.file \in {"none", "torn", "whole"} /\ entry.from \in Nat
                    /\ ledger' = [ledger EXCEPT ![Len(ledger)] = entry]
    BY <1>8 DEF Record, WriteLedger, LedgerEntry, Inv, RunShape
  <2>2. /\ UNCHANGED <<commands, run>> /\ step = "recording" /\ step' = "claiming"
        /\ run.command = "decompose"
    BY <1>8 DEF Record, WriteLedger
  <2>3. step \notin Outcomes /\ ~PastLedger /\ PastLedger' /\ step' \in Steps
    BY <2>2 DEF PastLedger, Outcomes, Steps
  <2>. QED
    BY <2>1, <2>2, <2>3, Written
<1>9. CASE BuildClaims
  BY <1>9, Untouched DEF BuildClaims, PastLedger, Outcomes, Steps
<1>10. CASE Synthesize
  <2>1. /\ step = "synthesizing" /\ UNCHANGED <<commands, ledger, run>>
        /\ step' = IF run.command = "check" THEN "planning" ELSE "done"
    BY <1>10 DEF Synthesize
  <2>. QED
    BY <2>1, Untouched DEF PastLedger, Outcomes, Steps
<1>. QED
  BY <1>1, <1>2, <1>3, <1>4, <1>5, <1>6, <1>7, <1>8, <1>9, <1>10 DEF ReadingStep

\* A step of looking at the change.
LEMMA JudgingMoves ==
    ASSUME Inv, Judging
    PROVE  Inv' /\ LedgerMoves /\ step' \in Outcomes \cup Steps
<1>1. CASE RecordCheck
  <2>1. \E entry : /\ entry.file \in {"none", "torn", "whole"} /\ entry.from \in Nat
                    /\ ledger' = [ledger EXCEPT ![Len(ledger)] = entry]
    BY <1>1 DEF RecordCheck, WriteLedger, LedgerEntry, Inv, RunShape
  <2>2. UNCHANGED <<commands, run>> /\ step = "recording" /\ step' = "done"
    BY <1>1 DEF RecordCheck, WriteLedger
  <2>3. step \notin Outcomes /\ ~PastLedger /\ step' \in Outcomes
    BY <2>2 DEF PastLedger, Outcomes
  <2>. QED
    BY <2>1, <2>2, <2>3, Written
<1>2. CASE ~RecordCheck
  <2>1. /\ UNCHANGED <<commands, ledger, run>> /\ step' \in Steps
        /\ step \in Steps \ {"claiming", "synthesizing"}
    BY <1>2 DEF Judging, ResolveQuestions, EnumerateDefects, JudgeDefects, ClassifyCoverage,
                DetectUnrequested, PrescribeTests, StoreReview, Steps
  <2>. QED
    BY <2>1, Untouched DEF PastLedger, Outcomes, Steps
<1>. QED
  BY <1>1, <1>2

\* A run that is killed leaves its own entry torn, or unwritten.
LEMMA KillMoves ==
    ASSUME Inv, Kill
    PROVE  Inv' /\ LedgerMoves
<1>1. UNCHANGED commands /\ run' = NoRun /\ step \notin Outcomes /\ step' \in Outcomes
  BY DEF Kill, Forget, Outcomes
<1>2. CASE UNCHANGED ledger
  BY <1>1, <1>2, Ends
<1>3. CASE step = "recording" /\ ledger' = [ledger EXCEPT ![Len(ledger)] = Blank("torn")]
  <2>1. \E entry : /\ entry.file \in {"none", "torn", "whole"} /\ entry.from \in Nat
                    /\ ledger' = [ledger EXCEPT ![Len(ledger)] = entry]
    BY <1>3 DEF Blank
  <2>2. ~PastLedger
    BY <1>3 DEF PastLedger
  <2>. QED
    BY <1>1, <2>1, <2>2, Written
<1>. QED
  BY <1>2, <1>3 DEF Kill

\* Any step.
LEMMA NextMoves ==
    ASSUME Inv, [Next]_vars
    PROVE  Inv' /\ LedgerMoves /\ (step' \in Outcomes \cup Steps \/ UNCHANGED step)
<1>1. CASE StartDecompose
  <2>1. commands # <<>> /\ Begin("planning")
    BY <1>1 DEF StartDecompose
  <2>2. step' = "planning"
    BY <2>1 DEF Begin
  <2>. QED
    BY <2>1, <2>2, Begun DEF Steps
<1>2. CASE StartCheck
  <2>1. PICK next \in {"refused", "crashed", "claiming"} : commands # <<>> /\ Begin(next)
    BY <1>2 DEF StartCheck, Admission
  <2>2. step' = next
    BY <2>1 DEF Begin
  <2>. QED
    BY <2>1, <2>2, Begun DEF Steps, Outcomes
<1>3. CASE ReadingStep
  BY <1>3, ReadingMoves
<1>4. CASE Judging
  BY <1>4, JudgingMoves
<1>5. CASE CallFails
  <2>1. UNCHANGED <<commands, ledger>> /\ run' = NoRun /\ step' \in Outcomes
    BY <1>5 DEF CallFails, Forget, Outcomes
  <2>. QED
    BY <2>1, Ends
<1>6. CASE Kill
  <2>1. step' \in Outcomes
    BY <1>6 DEF Kill, Outcomes
  <2>. QED
    BY <1>6, <2>1, KillMoves
<1>7. CASE Finished \/ UNCHANGED vars
  <2>1. UNCHANGED <<commands, ledger, run, step>>
    BY <1>7 DEF Finished, vars, decomposeVars
  <2>. QED
    BY <2>1, Untouched
<1>. QED
  BY <1>1, <1>2, <1>3, <1>4, <1>5, <1>6, <1>7 DEF Next

\* It always holds.
LEMMA InvHolds == Spec => []Inv
<1>1. Inv /\ [Next]_vars => Inv'
  BY NextMoves
<1>. QED
  BY <1>1, InitInv, PTL DEF Spec

\* What a run wrote in the ledger is never written again, by it or by a later
\* run, whole or torn: LedgerStore.write of requirement/ledger.py, which nothing
\* calls twice for one run.
THEOREM LedgerKept == Spec => LedgerIsFinal
<1>1. Inv /\ [Next]_vars =>
         [\A n \in DOMAIN ledger :
             ledger[n].file # "none" => n \in DOMAIN ledger' /\ ledger'[n] = ledger[n]]_vars
  <2> SUFFICES ASSUME Inv, [Next]_vars, NEW n \in DOMAIN ledger, ledger[n].file # "none"
               PROVE  n \in DOMAIN ledger' /\ ledger'[n] = ledger[n]
    OBVIOUS
  <2>. QED
    BY NextMoves DEF LedgerMoves
<1>. QED
  BY <1>1, InvHolds, PTL DEF Spec, LedgerIsFinal

(***************************************************************************)
(* The requirements of a file.                                             *)
(***************************************************************************)

\* What a field of the file takes from the blocks is a list.
LEMMA TakenIsAList ==
    ASSUME NEW name \in DOMAIN Mandates, NEW field
    PROVE  IsList(Taken(Mandates[name], field))
<1> DEFINE file == Mandates[name]
           under == Under(file)
           S == UNION {ToSet(file[n].texts) : n \in DOMAIN file}
           taken == [i \in DOMAIN file |->
                       IF file[i].type # "heading" /\ Field(file[i], under[i].name) = field
                       THEN file[i].texts ELSE <<>>]
<1>1. IsList(file) /\ \A n \in DOMAIN file : file[n].type # "heading" => IsList(file[n].texts)
  BY MandatesAssumption DEF ToSet
<1>2. Taken(file, field) = FlattenSeq(taken)
  BY DEF Taken
<1> HIDE DEF under
<1>3. ASSUME NEW n \in DOMAIN file PROVE taken[n] \in Seq(S)
  <2>1. <<>> \in Seq(S)
    OBVIOUS
  <2>2. CASE file[n].type # "heading"
    <3>1. file[n].texts \in Seq(ToSet(file[n].texts)) /\ ToSet(file[n].texts) \subseteq S
      BY <1>1, <2>2 DEF IsList
    <3>2. file[n].texts \in Seq(S)
      BY <3>1
    <3> HIDE DEF file, S
    <3>. QED BY <2>1, <3>2
  <2>3. CASE file[n].type = "heading"
    <3> HIDE DEF file, S
    <3>. QED BY <2>1, <2>3
  <2>. QED BY <2>2, <2>3
<1>4. DOMAIN taken = DOMAIN file /\ taken = [n \in DOMAIN file |-> taken[n]]
  OBVIOUS
<1> HIDE DEF file, S, taken
<1>5. taken \in Seq(Seq(S))
  BY <1>1, <1>3, <1>4, Mapped
<1>. QED
  BY <1>2, <1>5, Flattening, Listed DEF file

\* The requirements of a section: a list of them, of which an id names one.
LEMMA RefsAreNumbered ==
    ASSUME NEW name \in DOMAIN Mandates, NEW section \in MandateSections
    PROVE  LET refs == Refs(Mandates[name], section)
           IN  /\ IsList(refs)
               /\ \A r \in ToSet(refs) : r.section = section /\ r.ordinal \in Nat
               /\ \A r, q \in ToSet(refs) : r.ordinal = q.ordinal => r = q
<1> DEFINE texts == Taken(Mandates[name], section)
           refs == Refs(Mandates[name], section)
<1>1. IsList(texts)
  BY TakenIsAList
<1>2. refs = [n \in DOMAIN texts |-> [section |-> section, ordinal |-> n, text |-> texts[n]]]
  BY DEF Refs
<1>3. DOMAIN texts = 1..Len(texts) /\ Len(texts) \in Nat
  BY <1>1, Listed DEF IsList
<1> HIDE DEF texts, refs
<1>4. DOMAIN refs = DOMAIN texts /\ refs = [n \in DOMAIN texts |-> refs[n]]
      /\ \A n \in DOMAIN texts : refs[n] \in ToSet(refs)
  BY <1>2 DEF ToSet
<1>5. IsList(refs)
  BY <1>1, <1>4, Mapped
<1>6. \A r \in ToSet(refs) : \E n \in DOMAIN texts :
         r = [section |-> section, ordinal |-> n, text |-> texts[n]]
  BY <1>2 DEF ToSet
<1>. QED
  BY <1>3, <1>5, <1>6 DEF refs

\* So are the requirements of a file.
LEMMA RegistryIsNumbered ==
    ASSUME NEW name \in DOMAIN Mandates
    PROVE  LET registry == Registry(Mandates[name])
           IN  /\ IsList(registry)
               /\ \A r, q \in ToSet(registry) : RequirementId(r) = RequirementId(q) => r = q
               /\ \A r \in ToSet(registry) : r.section \in MandateSections
<1> DEFINE refs(section) == Refs(Mandates[name], section)
           two == refs("task") \o refs("constraint")
           three == two \o refs("exclusion")
           registry == Registry(Mandates[name])
<1>1. \A section \in MandateSections :
         /\ IsList(refs(section))
         /\ \A r \in ToSet(refs(section)) : r.section = section
         /\ \A r, q \in ToSet(refs(section)) : r.ordinal = q.ordinal => r = q
  BY RefsAreNumbered
<1>2. registry = three \o refs("completion")
  BY DEF Registry
<1> HIDE DEF refs, registry
<1>3. IsList(two) /\ ToSet(two) = ToSet(refs("task")) \cup ToSet(refs("constraint"))
  BY <1>1, JoinedLists DEF MandateSections
<1> HIDE DEF two
<1>4. IsList(three) /\ ToSet(three) = ToSet(two) \cup ToSet(refs("exclusion"))
  BY <1>1, <1>3, JoinedLists DEF MandateSections
<1> HIDE DEF three
<1>5. IsList(registry) /\ ToSet(registry) = ToSet(three) \cup ToSet(refs("completion"))
  BY <1>1, <1>2, <1>4, JoinedLists DEF MandateSections
<1>6. \A r \in ToSet(registry) : r.section \in MandateSections /\ r \in ToSet(refs(r.section))
  BY <1>1, <1>3, <1>4, <1>5 DEF MandateSections
<1>7. ASSUME NEW r \in ToSet(registry), NEW q \in ToSet(registry), RequirementId(r) = RequirementId(q)
      PROVE  r = q
  <2>1. r.section = q.section /\ r.ordinal = q.ordinal
    BY <1>7 DEF RequirementId
  <2>. QED BY <1>1, <1>6, <2>1
<1>. QED
  BY <1>5, <1>6, <1>7 DEF registry

\* The requirements of the run's own file.
LEMMA RequirementsAreNumbered ==
    ASSUME RunShape
    PROVE  /\ IsList(Requirements)
           /\ \A r, q \in ToSet(Requirements) : RequirementId(r) = RequirementId(q) => r = q
           /\ \A r \in ToSet(Requirements) : r.section \in MandateSections
<1>1. CASE run.file = "none"
  BY <1>1, Emptied DEF Requirements
<1>2. CASE run.file # "none"
  <2>1. run.file \in DOMAIN Mandates
    BY <1>2 DEF RunShape
  <2>2. Requirements = Registry(Mandates[run.file])
    BY <1>2, <2>1 DEF Requirements, RegistryOf
  <2>. QED BY <2>1, <2>2, RegistryIsNumbered
<1>. QED
  BY <1>1, <1>2

\* What is asked about: each requirement that is not carried, the summary last.
LEMMA AskedAbout ==
    ASSUME RunShape, NEW carried
    PROVE  /\ IsList(ToAsk(carried))
           /\ ToSet(ToAsk(carried)) =
                 {r \in ToSet(Requirements) : RequirementId(r) \notin DOMAIN carried}
<1> DEFINE without == {r \in ToSet(Requirements) : RequirementId(r) \notin DOMAIN carried}
           those == Only(Requirements, without)
           rest == Only(those, {r \in ToSet(those) : r.section # "task"})
           summary == Only(those, {r \in ToSet(those) : r.section = "task"})
<1>1. ToAsk(carried) = rest \o summary
  BY DEF ToAsk, Where
<1>2. IsList(those) /\ ToSet(those) = without
  BY RequirementsAreNumbered, OnlyHas
<1> HIDE DEF those
<1>3. /\ IsList(rest) /\ ToSet(rest) = {r \in without : r.section # "task"}
      /\ IsList(summary) /\ ToSet(summary) = {r \in without : r.section = "task"}
  BY <1>2, OnlyHas
<1> HIDE DEF rest, summary
<1>4. IsList(ToAsk(carried)) /\ ToSet(ToAsk(carried)) = ToSet(rest) \cup ToSet(summary)
  BY <1>1, <1>3, JoinedLists
<1>. QED
  BY <1>3, <1>4

(***************************************************************************)
(* Every command ends.                                                     *)
(***************************************************************************)

JudgingSteps == {"resolving", "enumerating", "judging", "classifying", "detecting", "prescribing",
                 "concluding"}

\* What is left to do is in lists, and only a check judges.
LeftShape ==
    /\ step \in Outcomes \cup Steps
    /\ IsList(todo) /\ IsList(spans)
    /\ step \in JudgingSteps => run.command = "check"

\* What a step that is not the last of its kind may leave of the lists.
LEMMA UncoveredIsAList ==
    ASSUME NEW answer, IsList(answer.spans)
    PROVE  IsList(Uncovered(answer)) /\ ToSet(Uncovered(answer)) \subseteq DOMAIN answer.spans
<1> DEFINE places == [s \in DOMAIN answer.spans |-> s]
           uncovered == {s \in DOMAIN answer.spans :
                           \E n \in DOMAIN answer.rulings :
                              answer.rulings[n].span = s /\ ~answer.rulings[n].covered}
           S == {s \in ToSet(places) : s \in uncovered}
<1>1. Uncovered(answer) = Only(places, S)
  BY DEF Uncovered, Where
<1>2. ToSet(places) = DOMAIN answer.spans
  BY DEF ToSet
<1>3. DOMAIN places = DOMAIN answer.spans /\ places = [n \in DOMAIN answer.spans |-> places[n]]
      /\ \A n \in DOMAIN answer.spans : places[n] \in DOMAIN answer.spans
  OBVIOUS
<1> HIDE DEF places, S
<1>4. IsList(places)
  BY <1>3, Mapped
<1>. QED
  BY <1>1, <1>2, <1>4, OnlyHas

\* The spans still to be asked about are some of those of the answer.
LEMMA SpansAreAList ==
    ASSUME NEW text, NEW answer \in Offered(Partitions, text)
    PROVE  LET uncovered == [k \in DOMAIN Uncovered(answer) |-> answer.spans[Uncovered(answer)[k]]]
           IN  IsList(uncovered) /\ ToSet(uncovered) \subseteq ToSet(answer.spans)
<1> DEFINE uncovered == Uncovered(answer)
           seq == [k \in DOMAIN uncovered |-> answer.spans[uncovered[k]]]
<1>1. IsList(answer.spans)
  BY RepliesAssumption DEF Offered
<1>2. IsList(uncovered) /\ ToSet(uncovered) \subseteq DOMAIN answer.spans
  BY <1>1, UncoveredIsAList
<1> HIDE DEF uncovered
<1>3. \A k \in DOMAIN uncovered : uncovered[k] \in DOMAIN answer.spans
  BY <1>2 DEF ToSet
<1>4. /\ DOMAIN seq = DOMAIN uncovered /\ seq = [k \in DOMAIN uncovered |-> seq[k]]
      /\ \A k \in DOMAIN uncovered : seq[k] \in ToSet(answer.spans)
  BY <1>3 DEF ToSet
<1> HIDE DEF seq
<1>5. seq \in Seq(ToSet(answer.spans))
  BY <1>2, <1>4, Mapped
<1>6. IsList(seq) /\ ToSet(seq) \subseteq ToSet(answer.spans)
  BY <1>5, Listed
<1>. QED
  BY <1>6 DEF seq, uncovered

\* What a command has still to do stays a list of it.
LEMMA LeftShapeKept ==
    ASSUME LeftShape, RunShape, [Next]_vars
    PROVE  LeftShape'
<1>. USE DEF LeftShape, Outcomes, Steps, JudgingSteps
<1>1. IsList(<<>>)
  BY Emptied
<1>2. CASE StartDecompose
  BY <1>1, <1>2 DEF StartDecompose, Begin, NothingRead
<1>3. CASE StartCheck
  BY <1>1, <1>3 DEF StartCheck, Begin, NothingRead, Admission
<1>4. CASE PlanCarry
  <2>1. \E carried : todo' = ToAsk(carried)
    BY <1>4 DEF PlanCarry
  <2>2. IsList(todo')
    BY <2>1, AskedAbout
  <2>. QED
    BY <1>4, <2>2 DEF PlanCarry
<1>5. CASE AskAbout
  <2>1. IsList(Tail(todo))
    BY <1>5, Taking DEF AskAbout
  <2>. QED
    BY <1>5, <2>1 DEF AskAbout
<1>6. CASE DecideSpans
  <2>1. IsList(spans')
    BY <1>6, SpansAreAList DEF DecideSpans
  <2>. QED
    BY <1>6, <2>1 DEF DecideSpans
<1>7. CASE AskSpan
  <2>1. IsList(Tail(spans))
    BY <1>7, Taking DEF AskSpan
  <2>. QED
    BY <1>7, <2>1 DEF AskSpan
<1>8. CASE SummaryDone
  <2>1. IsList(Tail(todo))
    BY <1>8, Taking DEF SummaryDone
  <2>. QED
    BY <1>8, <2>1 DEF SummaryDone
<1>9. CASE Reconcile
  BY <1>9, FaultsAreOutcomes DEF Reconcile
<1>10. CASE Link \/ Record \/ BuildClaims \/ Synthesize
  BY <1>10 DEF Link, Record, WriteLedger, BuildClaims, Synthesize, readingVars
<1>11. CASE Judging
  BY <1>11 DEF Judging, ResolveQuestions, EnumerateDefects, JudgeDefects, ClassifyCoverage,
               DetectUnrequested, PrescribeTests, StoreReview, RecordCheck, WriteLedger, readingVars
<1>12. CASE CallFails \/ Kill
  BY <1>1, <1>12 DEF CallFails, Kill, Forget, NothingRead
<1>13. CASE Finished \/ UNCHANGED vars
  BY <1>13 DEF Finished, vars, decomposeVars, readingVars
<1>. QED
  BY <1>2, <1>3, <1>4, <1>5, <1>6, <1>7, <1>8, <1>9, <1>10, <1>11, <1>12, <1>13 DEF Next, ReadingStep

\* Fewer commands, less of this one, fewer requirements, fewer summaries or
\* fewer spans.
Lessened ==
    \/ Len(commands') < Len(commands)
    \/ commands' = commands /\ StepsLeft' < StepsLeft
    \/ commands' = commands /\ StepsLeft' = StepsLeft /\ Len(todo') < Len(todo)
    \/ /\ commands' = commands /\ StepsLeft' = StepsLeft /\ todo' = todo
       /\ Cardinality(Undivided') < Cardinality(Undivided)
    \/ /\ commands' = commands /\ StepsLeft' = StepsLeft /\ todo' = todo /\ Undivided' = Undivided
       /\ Len(spans') < Len(spans)

\* Where one part of what is left is less and none before it is more, less is left.
LEMMA LessenedIsLess ==
    ASSUME Lessened
    PROVE  LessIsLeft
<1>1. /\ Left[1] = Len(commands) /\ Left[2] = StepsLeft /\ Left[3] = Len(todo)
      /\ Left[4] = Cardinality(Undivided) /\ Left[5] = Len(spans)
  BY DEF Left
<1>2. /\ Left'[1] = Len(commands') /\ Left'[2] = StepsLeft' /\ Left'[3] = Len(todo')
      /\ Left'[4] = Cardinality(Undivided') /\ Left'[5] = Len(spans')
  BY DEF Left
<1>. USE DEF LessIsLeft
<1>3. CASE Len(commands') < Len(commands)
  <2>1. \A j \in 1..0 : FALSE
    OBVIOUS
  <2>. QED
    BY <1>1, <1>2, <1>3, <2>1
<1>4. CASE commands' = commands /\ StepsLeft' < StepsLeft
  <2>1. \A j \in 1..1 : j = 1
    OBVIOUS
  <2>. QED
    BY <1>1, <1>2, <1>4, <2>1
<1>5. CASE commands' = commands /\ StepsLeft' = StepsLeft /\ Len(todo') < Len(todo)
  <2>1. \A j \in 1..2 : j \in {1, 2}
    OBVIOUS
  <2>. QED
    BY <1>1, <1>2, <1>5, <2>1
<1>6. CASE /\ commands' = commands /\ StepsLeft' = StepsLeft /\ todo' = todo
           /\ Cardinality(Undivided') < Cardinality(Undivided)
  <2>1. \A j \in 1..3 : j \in {1, 2, 3}
    OBVIOUS
  <2>. QED
    BY <1>1, <1>2, <1>6, <2>1
<1>7. CASE /\ commands' = commands /\ StepsLeft' = StepsLeft /\ todo' = todo /\ Undivided' = Undivided
           /\ Len(spans') < Len(spans)
  <2>1. \A j \in 1..4 : j \in {1, 2, 3, 4}
    OBVIOUS
  <2>. QED
    BY <1>1, <1>2, <1>7, <2>1
<1>. QED
  BY <1>3, <1>4, <1>5, <1>6, <1>7 DEF Lessened

\* A summary that is divided is one less to be.
LEMMA DividedOnce ==
    ASSUME LeftShape, todo # <<>>, UNCHANGED todo, NEW disposition,
           Head(todo).section = "task", RequirementId(Head(todo)) \notin DOMAIN settled,
           settled' = With(settled, RequirementId(Head(todo)), disposition)
    PROVE  Cardinality(Undivided') < Cardinality(Undivided)
<1>1. DOMAIN settled' = DOMAIN settled \cup {RequirementId(Head(todo))}
  BY DEF With
<1>2. Head(todo) \in Undivided /\ IsFiniteSet(ToSet(todo))
  BY Taking, ListsAreFinite DEF LeftShape, Undivided
<1>3. Undivided' \subseteq Undivided \ {Head(todo)}
  BY <1>1 DEF Undivided
<1>4. IsFiniteSet(Undivided) /\ Cardinality(Undivided) \in Nat
  BY <1>2, FS_Subset, FS_CardinalityType DEF Undivided
<1>5. /\ IsFiniteSet(Undivided \ {Head(todo)})
      /\ Cardinality(Undivided \ {Head(todo)}) = Cardinality(Undivided) - 1
  BY <1>2, <1>4, FS_RemoveElement
<1>6. Cardinality(Undivided') <= Cardinality(Undivided \ {Head(todo)}) /\ Cardinality(Undivided') \in Nat
  <2>1. IsFiniteSet(Undivided') /\ Cardinality(Undivided') <= Cardinality(Undivided \ {Head(todo)})
    BY <1>3, <1>5, FS_Subset
  <2>. QED
    BY <2>1, FS_CardinalityType
<1>. QED
  BY <1>4, <1>5, <1>6

\* Every step is one less to take.
LEMMA StepsLessen ==
    ASSUME CommandsShape, LeftShape, [Next]_vars
    PROVE  Lessened \/ UNCHANGED vars
<1>1. CASE StartDecompose \/ StartCheck
  <2>1. commands # <<>> /\ commands' = Tail(commands)
    BY <1>1 DEF StartDecompose, StartCheck, Begin
  <2>2. Len(commands') < Len(commands)
    BY <2>1, Taking DEF CommandsShape
  <2>. QED
    BY <2>2 DEF Lessened
<1>2. CASE AskAbout \/ SummaryDone
  <2>1. /\ step = "asking" /\ step' = step /\ UNCHANGED commands
        /\ todo # <<>> /\ todo' = Tail(todo)
    BY <1>2 DEF AskAbout, SummaryDone
  <2>2. StepsLeft = 11 /\ StepsLeft' = 11
    BY <2>1 DEF StepsLeft, Outcomes
  <2>3. Len(todo') < Len(todo)
    BY <2>1, Taking DEF LeftShape
  <2>. QED
    BY <2>1, <2>2, <2>3 DEF Lessened
<1>3. CASE DecideSpans
  <2>1. /\ step = "asking" /\ UNCHANGED <<commands, todo>> /\ todo # <<>>
        /\ Head(todo).section = "task" /\ RequirementId(Head(todo)) \notin DOMAIN settled
    BY <1>3 DEF DecideSpans
  <2>2. CASE step' \in {"model_error", "crashed"}
    BY <2>1, <2>2 DEF Lessened, StepsLeft, Outcomes
  <2>3. CASE step' \notin {"model_error", "crashed"}
    <3>1. step' = step /\ \E disposition : settled' = With(settled, RequirementId(Head(todo)), disposition)
      BY <1>3, <2>3 DEF DecideSpans
    <3>2. StepsLeft' = StepsLeft
      BY <2>1, <3>1 DEF StepsLeft, Outcomes
    <3>3. Cardinality(Undivided') < Cardinality(Undivided)
      BY <2>1, <3>1, DividedOnce
    <3>. QED
      BY <2>1, <3>2, <3>3 DEF Lessened
  <2>. QED
    BY <2>2, <2>3
<1>4. CASE AskSpan
  <2>1. /\ step = "asking" /\ UNCHANGED <<commands, step, todo>> /\ spans # <<>>
        /\ spans' = Tail(spans) /\ DOMAIN settled' = DOMAIN settled
    BY <1>4 DEF AskSpan
  <2>2. StepsLeft' = StepsLeft /\ Undivided' = Undivided
    BY <2>1 DEF StepsLeft, Outcomes, Undivided
  <2>3. Len(spans') < Len(spans)
    BY <2>1, Taking DEF LeftShape
  <2>. QED
    BY <2>1, <2>2, <2>3 DEF Lessened
<1>5. CASE PlanCarry \/ Reconcile \/ Link \/ Record \/ BuildClaims \/ Synthesize
  <2>1. CASE PlanCarry
    BY <2>1 DEF PlanCarry, Lessened, StepsLeft, Outcomes
  <2>2. CASE Reconcile
    <3>1. UNCHANGED commands /\ step = "asking" /\ step' \in {"linking", "model_error", "crashed"}
      BY <2>2, FaultsAreOutcomes DEF Reconcile
    <3>. QED
      BY <3>1 DEF Lessened, StepsLeft, Outcomes
  <2>3. CASE Link
    <3>1. UNCHANGED commands /\ step = "linking" /\ step' \in {"resolving", "recording"}
      BY <2>3 DEF Link
    <3>. QED
      BY <3>1 DEF Lessened, StepsLeft, Outcomes
  <2>4. CASE Record
    BY <2>4 DEF Record, WriteLedger, Lessened, StepsLeft, Outcomes
  <2>5. CASE BuildClaims \/ Synthesize
    BY <2>5 DEF BuildClaims, Synthesize, Lessened, StepsLeft, Outcomes
  <2>. QED
    BY <1>5, <2>1, <2>2, <2>3, <2>4, <2>5
<1>6. CASE Judging
  <2>1. CASE StoreReview
    BY <2>1 DEF StoreReview, LeftShape, JudgingSteps, Lessened, StepsLeft, Outcomes
  <2>2. CASE RecordCheck
    BY <2>2 DEF RecordCheck, WriteLedger, Lessened, StepsLeft, Outcomes
  <2>3. CASE ~StoreReview /\ ~RecordCheck
    <3>1. /\ UNCHANGED commands
          /\ \/ step = "resolving" /\ step' = "enumerating"
             \/ step = "enumerating" /\ step' = "judging"
             \/ step = "judging" /\ step' = "classifying"
             \/ step = "classifying" /\ step' = "detecting"
             \/ step = "detecting" /\ step' = "prescribing"
             \/ step = "prescribing" /\ step' = "concluding"
      BY <1>6, <2>3 DEF Judging, ResolveQuestions, EnumerateDefects, JudgeDefects,
                        ClassifyCoverage, DetectUnrequested, PrescribeTests
    <3>. QED
      BY <3>1 DEF Lessened, StepsLeft, Outcomes
  <2>. QED
    BY <2>1, <2>2, <2>3
<1>7. CASE CallFails
  <2>1. step \in Steps /\ step' \in Outcomes /\ UNCHANGED commands
    BY <1>7 DEF CallFails, Asks, Steps, Outcomes
  <2>. QED
    BY <2>1 DEF Lessened, StepsLeft, Steps, Outcomes
<1>8. CASE Kill
  <2>1. step \in Steps /\ step' \in Outcomes /\ UNCHANGED commands
    BY <1>8 DEF Kill, LeftShape, Outcomes
  <2>. QED
    BY <2>1 DEF Lessened, StepsLeft, Steps, Outcomes
<1>9. CASE Finished
  BY <1>9 DEF Finished
<1>. QED
  BY <1>1, <1>2, <1>3, <1>4, <1>5, <1>6, <1>7, <1>8, <1>9 DEF Next, ReadingStep

\* It always holds.
LEMMA LeftShapeHolds == Spec => []LeftShape
<1>1. Init => LeftShape
  BY Emptied DEF Init, InitDecompose, LeftShape, Outcomes, JudgingSteps
<1>2. LeftShape /\ Inv /\ [Next]_vars => LeftShape'
  BY LeftShapeKept DEF Inv
<1>. QED
  BY <1>1, <1>2, InvHolds, PTL DEF Spec

\* A command comes to its end, however often it fails and whatever it is
\* answered: every step of pipeline.run_review and of what it calls is taken once,
\* or once for each requirement, summary or span.
THEOREM CommandsEnd == Spec => EveryCommandEnds
<1>1. LeftShape /\ Inv /\ [Next]_vars =>
         [LessIsLeft]_vars
  BY StepsLessen, LessenedIsLess DEF Inv
<1>. QED
  BY <1>1, LeftShapeHolds, InvHolds, PTL DEF Spec, EveryCommandEnds

\* A set of numbers up to some number has a greatest one.
LEMMA Greatest ==
    ASSUME NEW n \in Nat, NEW T, T \subseteq 1..n, T # {}
    PROVE  \E greatest \in T : \A m \in T : m <= greatest
<1> DEFINE below == {n - m : m \in T}
<1>1. below \subseteq Nat /\ below # {}
  <2>1. \A m \in T : m \in 1..n
    OBVIOUS
  <2>2. \A m \in T : n - m \in Nat
    BY <2>1
  <2>. QED
    BY <2>2
<1>2. PICK least \in below : \A m \in below : least <= m
  BY <1>1, Least
<1>3. PICK greatest \in T : least = n - greatest
  OBVIOUS
<1>4. \A m \in T : n - m \in below /\ m \in Int /\ n \in Int /\ greatest \in Int
  OBVIOUS
<1>5. \A m \in T : m <= greatest
  BY <1>2, <1>3, <1>4
<1>. QED
  BY <1>5

\* The ids of a list are those of what it holds.
LEMMA IdsAre ==
    /\ \A seq : IdsOf(seq) = {x.id : x \in ToSet(seq)}
    /\ \A seq : ToSet(Ids(seq)) = IdsOf(seq)
    /\ \A seq : IsList(seq) => IsList(Ids(seq))
<1>1. \A seq : IdsOf(seq) = {x.id : x \in ToSet(seq)}
  BY DEF IdsOf, ToSet
<1>2. \A seq : ToSet(Ids(seq)) = IdsOf(seq)
  BY DEF Ids, IdsOf, ToSet
<1>3. ASSUME NEW seq, IsList(seq) PROVE IsList(Ids(seq))
  <2>1. /\ DOMAIN Ids(seq) = DOMAIN seq /\ Ids(seq) = [n \in DOMAIN seq |-> Ids(seq)[n]]
        /\ \A n \in DOMAIN seq : Ids(seq)[n] \in ToSet(Ids(seq))
    BY DEF Ids, ToSet
  <2>. QED
    BY <1>3, <2>1, Mapped
<1>. QED
  BY <1>1, <1>2, <1>3

(***************************************************************************)
(* Records and entries.                                                    *)
(***************************************************************************)

\* The record of a text an entry has is one of its records, and of that text.
LEMMA RecordFound ==
    ASSUME NEW entry, IsList(entry.records), NEW text \in TextsOf(entry)
    PROVE  /\ RecordOf(entry, text) \in ToSet(entry.records)
           /\ RecordOf(entry, text).text = text
<1> DEFINE places == {n \in DOMAIN entry.records : entry.records[n].text = text}
<1>1. DOMAIN entry.records = 1..Len(entry.records) /\ Len(entry.records) \in Nat
  BY Listed DEF IsList
<1>2. places # {} /\ places \subseteq 1..Len(entry.records)
  BY <1>1 DEF TextsOf
<1>3. \E n \in places : \A m \in places : m <= n
  BY <1>1, <1>2, Greatest
<1>4. PICK n \in places : RecordOf(entry, text) = entry.records[n]
  BY <1>3 DEF RecordOf
<1>. QED
  BY <1>4 DEF ToSet

\* What is carried of a requirement is what the entry has on its text, if that
\* was found by the same logic and asked for in the same way, and quotes only
\* what the text says.
LEMMA CarriedIs ==
    ASSUME NEW registry, NEW entry, NEW tool, NEW id \in DOMAIN Carried(registry, entry, tool)
    PROVE  \E r \in ToSet(registry) :
              /\ RequirementId(r) = id /\ r.text \in TextsOf(entry)
              /\ Carried(registry, entry, tool)[id] = RecordOf(entry, r.text)
              /\ entry.logic = tool.logic
              /\ RecordOf(entry, r.text).key = KeyFor(tool, r)
              /\ ~StaleSpans(RecordOf(entry, r.text), r.text)
<1> DEFINE may == {r \in ToSet(registry) :
                     /\ r.text \in TextsOf(entry)
                     /\ Refusal(TRUE, entry.logic = tool.logic, RecordOf(entry, r.text).key,
                                KeyFor(tool, r), ~StaleSpans(RecordOf(entry, r.text), r.text)) = "none"}
           the == CHOOSE r \in may : RequirementId(r) = id
<1>1. /\ DOMAIN Carried(registry, entry, tool) = {RequirementId(r) : r \in may}
      /\ Carried(registry, entry, tool)[id] = RecordOf(entry, the.text)
  BY DEF Carried
<1>2. the \in may /\ RequirementId(the) = id
  BY <1>1
<1> HIDE DEF the
<1>3. the \in ToSet(registry) /\ the.text \in TextsOf(entry)
  BY <1>2
<1>4. /\ entry.logic = tool.logic /\ RecordOf(entry, the.text).key = KeyFor(tool, the)
      /\ ~StaleSpans(RecordOf(entry, the.text), the.text)
  BY <1>2 DEF Refusal
<1>. QED
  BY <1>1, <1>2, <1>3, <1>4 DEF the

(***************************************************************************)
(* Faults.                                                                 *)
(***************************************************************************)

\* Without a fault every requirement is settled, and none is at fault.
LEMMA NoFault ==
    ASSUME RunShape, FirstFault(Requirements) = "none"
    PROVE  \A r \in ToSet(Requirements) :
              RequirementId(r) \in DOMAIN settled /\ Fault(RequirementId(r)) = "none"
<1> DEFINE S == {r \in ToSet(Requirements) : Fault(RequirementId(r)) # "none"}
           faulty == Only(Requirements, S)
<1>1. \A r \in ToSet(Requirements) : RequirementId(r) \in DOMAIN settled
  BY DEF FirstFault
<1>2. faulty = <<>> \/ Fault(RequirementId(Head(faulty))) = "none"
  BY <1>1 DEF FirstFault, Where
<1>3. IsList(faulty) /\ ToSet(faulty) = ToSet(Requirements) \cap S
  BY RequirementsAreNumbered, OnlyHas
<1> HIDE DEF faulty
<1>4. faulty = <<>>
  BY <1>2, <1>3, Taking
<1>5. S = {}
  BY <1>3, <1>4, Emptied
<1>. QED
  BY <1>1, <1>5

(***************************************************************************)
(* What dispositions name.                                                 *)
(***************************************************************************)

\* A disposition, or a record: what became of a requirement, and of what.
Tags == {"yielded", "open_question", "no_obligation"}
AccountFields == {"tag", "obligations", "questions", "reason"}
IsAccount(d) ==
    /\ AccountFields \subseteq DOMAIN d
    /\ d.tag \in Tags /\ IsList(d.obligations) /\ IsList(d.questions)

Naming(kind, id) == [kind |-> kind, id |-> id]

\* Each id that is named is named as something it is named as.
LEMMA NamedIs ==
    ASSUME RunShape, FirstFault(Requirements) = "none",
           \A id \in DOMAIN settled : IsAccount(settled[id])
    PROVE  /\ IsList(Named(Requirements))
           /\ IdsOf(Named(Requirements)) =
                 UNION {ToSet(settled[RequirementId(r)].obligations)
                           \cup ToSet(settled[RequirementId(r)].questions) : r \in ToSet(Requirements)}
           /\ \A m \in ToSet(Named(Requirements)) :
                 \E r \in ToSet(Requirements) :
                    \/ m.kind = "obligation" /\ m.id \in ToSet(settled[RequirementId(r)].obligations)
                    \/ m.kind = "question" /\ m.id \in ToSet(settled[RequirementId(r)].questions)
<1> DEFINE registry == Requirements
           of(n) == settled[RequirementId(registry[n])]
           os(n) == [k \in DOMAIN of(n).obligations |-> Naming("obligation", of(n).obligations[k])]
           qs(n) == [k \in DOMAIN of(n).questions |-> Naming("question", of(n).questions[k])]
           S == UNION {ToSet(os(n)) \cup ToSet(qs(n)) : n \in DOMAIN registry}
           each == [n \in DOMAIN registry |-> os(n) \o qs(n)]
           named == FlattenSeq(each)
           firsts == Distinct(Ids(named))
           pick(k) == CHOOSE n \in DOMAIN named : /\ named[n].id = firsts[k]
                                                  /\ \A m \in 1..(n - 1) : named[m].id # firsts[k]
<1>1. Named(Requirements) = [k \in DOMAIN firsts |-> named[pick(k)]]
  BY DEF Named, Naming
<1>2. \A n \in DOMAIN registry : registry[n] \in ToSet(Requirements) /\ IsAccount(of(n))
  BY NoFault DEF ToSet
<1> HIDE DEF of
<1>3. ASSUME NEW n \in DOMAIN registry
      PROVE  /\ IsList(os(n)) /\ IsList(qs(n))
             /\ \A x \in ToSet(os(n)) : x.kind = "obligation" /\ x.id \in ToSet(of(n).obligations)
             /\ \A x \in ToSet(qs(n)) : x.kind = "question" /\ x.id \in ToSet(of(n).questions)
             /\ \A id \in ToSet(of(n).obligations) : \E x \in ToSet(os(n)) : id = x.id
             /\ \A id \in ToSet(of(n).questions) : \E x \in ToSet(qs(n)) : id = x.id
  <2>1. IsList(of(n).obligations) /\ IsList(of(n).questions)
    BY <1>2 DEF IsAccount
  <2>2. /\ DOMAIN os(n) = DOMAIN of(n).obligations
        /\ os(n) = [k \in DOMAIN of(n).obligations |-> os(n)[k]]
        /\ \A k \in DOMAIN of(n).obligations : os(n)[k] \in ToSet(os(n))
    BY DEF ToSet
  <2>3. /\ DOMAIN qs(n) = DOMAIN of(n).questions
        /\ qs(n) = [k \in DOMAIN of(n).questions |-> qs(n)[k]]
        /\ \A k \in DOMAIN of(n).questions : qs(n)[k] \in ToSet(qs(n))
    BY DEF ToSet
  <2>4. IsList(os(n)) /\ IsList(qs(n))
    BY <2>1, <2>2, <2>3, Mapped
  <2>5. /\ \A k \in DOMAIN os(n) : /\ os(n)[k].kind = "obligation"
                                    /\ os(n)[k].id = of(n).obligations[k]
        /\ \A k \in DOMAIN qs(n) : qs(n)[k].kind = "question" /\ qs(n)[k].id = of(n).questions[k]
    BY DEF Naming
  <2> HIDE DEF os, qs
  <2>6. /\ \A x \in ToSet(os(n)) : x.kind = "obligation" /\ x.id \in ToSet(of(n).obligations)
        /\ \A id \in ToSet(of(n).obligations) : \E x \in ToSet(os(n)) : id = x.id
    <3>1. DOMAIN os(n) = DOMAIN of(n).obligations
      BY <2>2
    <3>2. ASSUME NEW x \in ToSet(os(n))
          PROVE  x.kind = "obligation" /\ x.id \in ToSet(of(n).obligations)
      <4>1. PICK k \in DOMAIN os(n) : x = os(n)[k]
        BY DEF ToSet
      <4>2. of(n).obligations[k] \in ToSet(of(n).obligations)
        BY <3>1 DEF ToSet
      <4>. QED
        BY <2>5, <4>1, <4>2
    <3>3. ASSUME NEW id \in ToSet(of(n).obligations)
          PROVE  \E x \in ToSet(os(n)) : id = x.id
      <4>1. PICK k \in DOMAIN of(n).obligations : id = of(n).obligations[k]
        BY DEF ToSet
      <4>2. os(n)[k] \in ToSet(os(n))
        BY <3>1 DEF ToSet
      <4>. QED
        BY <2>5, <3>1, <4>1, <4>2
    <3>. QED
      BY <3>2, <3>3
  <2>7. /\ \A x \in ToSet(qs(n)) : x.kind = "question" /\ x.id \in ToSet(of(n).questions)
        /\ \A id \in ToSet(of(n).questions) : \E x \in ToSet(qs(n)) : id = x.id
    <3>1. DOMAIN qs(n) = DOMAIN of(n).questions
      BY <2>3
    <3>2. ASSUME NEW x \in ToSet(qs(n))
          PROVE  x.kind = "question" /\ x.id \in ToSet(of(n).questions)
      <4>1. PICK k \in DOMAIN qs(n) : x = qs(n)[k]
        BY DEF ToSet
      <4>2. of(n).questions[k] \in ToSet(of(n).questions)
        BY <3>1 DEF ToSet
      <4>. QED
        BY <2>5, <4>1, <4>2
    <3>3. ASSUME NEW id \in ToSet(of(n).questions)
          PROVE  \E x \in ToSet(qs(n)) : id = x.id
      <4>1. PICK k \in DOMAIN of(n).questions : id = of(n).questions[k]
        BY DEF ToSet
      <4>2. qs(n)[k] \in ToSet(qs(n))
        BY <3>1 DEF ToSet
      <4>. QED
        BY <2>5, <3>1, <4>1, <4>2
    <3>. QED
      BY <3>2, <3>3
  <2>. QED
    BY <2>4, <2>6, <2>7
<1> HIDE DEF os, qs
<1>4. \A n \in DOMAIN registry : each[n] \in Seq(S) /\ ToSet(each[n]) = ToSet(os(n)) \cup ToSet(qs(n))
  <2> SUFFICES ASSUME NEW n \in DOMAIN registry
               PROVE  each[n] \in Seq(S) /\ ToSet(each[n]) = ToSet(os(n)) \cup ToSet(qs(n))
    OBVIOUS
  <2>1. each[n] = os(n) \o qs(n)
    OBVIOUS
  <2>2. IsList(each[n]) /\ ToSet(each[n]) = ToSet(os(n)) \cup ToSet(qs(n))
    BY <1>3, <2>1, JoinedLists
  <2>3. ToSet(each[n]) \subseteq S
    BY <2>2
  <2> HIDE DEF each, S
  <2>. QED
    BY <2>2, <2>3 DEF IsList
<1>5. DOMAIN each = DOMAIN registry /\ each = [n \in DOMAIN registry |-> each[n]]
  OBVIOUS
<1>6. IsList(registry)
  BY RequirementsAreNumbered
<1> HIDE DEF each, S
<1>7. each \in Seq(Seq(S))
  BY <1>4, <1>5, <1>6, Mapped
<1>8. IsList(named) /\ ToSet(named) = UNION {ToSet(os(n)) \cup ToSet(qs(n)) : n \in DOMAIN registry}
  <2>1. named \in Seq(S) /\ ToSet(named) = UNION {ToSet(each[n]) : n \in DOMAIN registry}
    BY <1>5, <1>7, Flattening
  <2>. QED
    BY <1>4, <2>1, Listed
<1> HIDE DEF named
<1>9. IsList(firsts) /\ ToSet(firsts) = IdsOf(named)
  BY <1>8, IdsAre, DistinctHas
<1> HIDE DEF firsts
<1>10. ASSUME NEW k \in DOMAIN firsts
       PROVE  named[pick(k)] \in ToSet(named) /\ named[pick(k)].id = firsts[k]
  <2>1. firsts[k] \in ToSet(Ids(named)) /\ IsList(Ids(named))
    BY <1>8, <1>9, IdsAre DEF ToSet
  <2>2. PICK n \in DOMAIN Ids(named) : /\ Ids(named)[n] = firsts[k]
                                       /\ \A m \in 1..(n - 1) : Ids(named)[m] # firsts[k]
    BY <2>1, FirstPlace
  <2>3. /\ DOMAIN Ids(named) = DOMAIN named /\ \A m \in DOMAIN named : Ids(named)[m] = named[m].id
        /\ DOMAIN named = 1..Len(named) /\ Len(named) \in Nat
    BY <1>8, Listed DEF Ids, IsList
  <2>4. \A m \in 1..(n - 1) : m \in DOMAIN named
    BY <2>2, <2>3
  <2>5. n \in DOMAIN named /\ named[n].id = firsts[k] /\ \A m \in 1..(n - 1) : named[m].id # firsts[k]
    BY <2>2, <2>3, <2>4
  <2>6. pick(k) \in DOMAIN named /\ named[pick(k)].id = firsts[k]
    BY <2>5
  <2>. QED
    BY <2>6 DEF ToSet
<1> HIDE DEF pick
<1>11. IsList(Named(Requirements)) /\ ToSet(Named(Requirements)) = {named[pick(k)] : k \in DOMAIN firsts}
  <2> DEFINE result == [k \in DOMAIN firsts |-> named[pick(k)]]
  <2>1. /\ DOMAIN result = DOMAIN firsts /\ result = [k \in DOMAIN firsts |-> result[k]]
        /\ \A k \in DOMAIN firsts : result[k] \in ToSet(result)
        /\ ToSet(result) = {named[pick(k)] : k \in DOMAIN firsts}
    BY DEF ToSet
  <2> HIDE DEF result
  <2>2. IsList(result)
    BY <1>9, <2>1, Mapped
  <2>. QED
    BY <1>1, <2>1, <2>2 DEF result
<1>12. IdsOf(Named(Requirements)) = IdsOf(named)
  <2>1. IdsOf(Named(Requirements)) = {named[pick(k)].id : k \in DOMAIN firsts}
    BY <1>11, IdsAre
  <2>2. ToSet(firsts) = {firsts[k] : k \in DOMAIN firsts}
    BY DEF ToSet
  <2>. QED
    BY <1>9, <1>10, <2>1, <2>2
<1>14. ToSet(registry) = {registry[n] : n \in DOMAIN registry}
  BY DEF ToSet
<1>15. IdsOf(named) = UNION {ToSet(of(n).obligations) \cup ToSet(of(n).questions) : n \in DOMAIN registry}
  <2>1. IdsOf(named) = {x.id : x \in ToSet(named)}
    BY IdsAre
  <2>2. ASSUME NEW id \in IdsOf(named)
        PROVE  \E n \in DOMAIN registry : id \in ToSet(of(n).obligations) \cup ToSet(of(n).questions)
    <3>1. PICK n \in DOMAIN registry : \E x \in ToSet(os(n)) \cup ToSet(qs(n)) : id = x.id
      BY <1>8, <2>1
    <3>. QED
      BY <1>3, <3>1
  <2>3. ASSUME NEW n \in DOMAIN registry, NEW id \in ToSet(of(n).obligations) \cup ToSet(of(n).questions)
        PROVE  id \in IdsOf(named)
    <3>1. PICK x \in ToSet(os(n)) \cup ToSet(qs(n)) : id = x.id
      BY <1>3, <2>3
    <3>. QED
      BY <1>8, <2>1, <3>1
  <2>. QED
    BY <2>2, <2>3
<1>16. ASSUME NEW m \in ToSet(named)
       PROVE  \E n \in DOMAIN registry :
                 \/ m.kind = "obligation" /\ m.id \in ToSet(of(n).obligations)
                 \/ m.kind = "question" /\ m.id \in ToSet(of(n).questions)
  <2>1. PICK n \in DOMAIN registry : m \in ToSet(os(n)) \cup ToSet(qs(n))
    BY <1>8
  <2>. QED
    BY <1>3, <2>1 DEF Naming
<1>17. ASSUME NEW m \in ToSet(Named(Requirements)) PROVE m \in ToSet(named)
  BY <1>10, <1>11
<1>18. IdsOf(Named(Requirements)) =
          UNION {ToSet(settled[RequirementId(r)].obligations)
                    \cup ToSet(settled[RequirementId(r)].questions) : r \in ToSet(Requirements)}
  BY <1>12, <1>14, <1>15 DEF of
<1>19. \A m \in ToSet(Named(Requirements)) :
          \E r \in ToSet(Requirements) :
             \/ m.kind = "obligation" /\ m.id \in ToSet(settled[RequirementId(r)].obligations)
             \/ m.kind = "question" /\ m.id \in ToSet(settled[RequirementId(r)].questions)
  BY <1>14, <1>16, <1>17 DEF of
<1>. QED
  BY <1>11, <1>18, <1>19

(***************************************************************************)
(* What a step does to what was read, and to the ledger.                   *)
(***************************************************************************)

readVars == <<run, plan, spans, fresh, asked, settled, made, merges>>

\* The steps that change what was read.
LEMMA ReadingChanges ==
    ASSUME [Next]_vars
    PROVE  \/ PlanCarry \/ AskAbout \/ DecideSpans \/ AskSpan \/ Reconcile \/ Link
           \/ NothingRead \/ UNCHANGED readVars
<1>. USE DEF readVars
<1>1. CASE StartDecompose \/ StartCheck
  BY <1>1 DEF StartDecompose, StartCheck, Begin
<1>2. CASE SummaryDone \/ Record \/ BuildClaims \/ Synthesize
  BY <1>2 DEF SummaryDone, Record, WriteLedger, BuildClaims, Synthesize, readingVars
<1>3. CASE Judging
  BY <1>3 DEF Judging, ResolveQuestions, EnumerateDefects, JudgeDefects, ClassifyCoverage,
              DetectUnrequested, PrescribeTests, StoreReview, RecordCheck, WriteLedger, readingVars
<1>4. CASE CallFails \/ Kill
  BY <1>4 DEF CallFails, Kill, Forget
<1>5. CASE Finished \/ UNCHANGED vars
  BY <1>5 DEF Finished, vars, decomposeVars, readingVars
<1>. QED
  BY <1>1, <1>2, <1>3, <1>4, <1>5 DEF Next, ReadingStep

\* What a step does to the ledger.
LEMMA LedgerChanges ==
    ASSUME [Next]_vars
    PROVE  \/ UNCHANGED ledger
           \/ ledger' = Append(ledger, Blank("none"))
           \/ ledger' = [ledger EXCEPT ![Len(ledger)] = Blank("torn")]
           \/ /\ step = "recording" /\ UNCHANGED <<run, made, merges>>
              /\ \E sets \in {<<>>, defectSets} :
                    ledger' = [ledger EXCEPT ![Len(ledger)] = LedgerEntry(sets)]
<1>1. CASE StartDecompose \/ StartCheck
  BY <1>1 DEF StartDecompose, StartCheck, Begin
<1>2. CASE Record
  BY <1>2 DEF Record, WriteLedger, readingVars
<1>3. CASE RecordCheck
  BY <1>3 DEF RecordCheck, WriteLedger, readingVars
<1>4. CASE ReadingStep /\ ~Record
  BY <1>4 DEF ReadingStep, PlanCarry, AskAbout, DecideSpans, AskSpan, SummaryDone, Reconcile, Link,
              BuildClaims, Synthesize
<1>5. CASE Judging /\ ~RecordCheck
  BY <1>5 DEF Judging, ResolveQuestions, EnumerateDefects, JudgeDefects, ClassifyCoverage,
              DetectUnrequested, PrescribeTests, StoreReview
<1>6. CASE CallFails \/ Kill
  BY <1>6 DEF CallFails, Kill
<1>7. CASE Finished \/ UNCHANGED vars
  BY <1>7 DEF Finished, vars, decomposeVars
<1>. QED
  BY <1>1, <1>2, <1>3, <1>4, <1>5, <1>6, <1>7 DEF Next

\* An entry stays, or is a blank one, or is what the run has just come to.
LEMMA EntriesChange ==
    ASSUME Inv, [Next]_vars, NEW n \in DOMAIN ledger'
    PROVE  \/ n \in DOMAIN ledger /\ ledger'[n] = ledger[n]
           \/ ledger'[n] \in {Blank("none"), Blank("torn")}
           \/ /\ n = Len(ledger) /\ step = "recording" /\ UNCHANGED <<run, made, merges>>
              /\ DOMAIN ledger' = DOMAIN ledger
              /\ \E sets \in {<<>>, defectSets} : ledger'[n] = LedgerEntry(sets)
<1>1. PICK E : ledger \in Seq(E)
  BY DEF Inv, LedgerShape
<1>2. Len(ledger) \in Nat /\ DOMAIN ledger = 1..Len(ledger)
  BY <1>1
<1>3. CASE ledger' = Append(ledger, Blank("none"))
  <2>1. ledger \in Seq(E \cup {Blank("none")})
    BY <1>1
  <2>2. /\ DOMAIN ledger' = 1..(Len(ledger) + 1)
        /\ \A m \in 1..Len(ledger) : ledger'[m] = ledger[m]
        /\ ledger'[Len(ledger) + 1] = Blank("none")
    BY <1>3, <2>1
  <2>3. n \in 1..Len(ledger) \/ n = Len(ledger) + 1
    BY <1>2, <2>2
  <2>. QED
    BY <1>2, <2>2, <2>3
<1>4. ASSUME NEW entry, ledger' = [ledger EXCEPT ![Len(ledger)] = entry]
      PROVE  /\ DOMAIN ledger' = DOMAIN ledger /\ n \in DOMAIN ledger
             /\ ledger'[n] = IF n = Len(ledger) THEN entry ELSE ledger[n]
  <2>1. DOMAIN ledger' = DOMAIN ledger
    BY <1>4
  <2>2. n \in DOMAIN ledger
    BY <2>1
  <2>. QED
    BY <1>4, <2>1, <2>2
<1>5. CASE ledger' = [ledger EXCEPT ![Len(ledger)] = Blank("torn")]
  BY <1>4, <1>5
<1>6. CASE /\ step = "recording" /\ UNCHANGED <<run, made, merges>>
           /\ \E sets \in {<<>>, defectSets} :
                 ledger' = [ledger EXCEPT ![Len(ledger)] = LedgerEntry(sets)]
  <2>1. PICK sets \in {<<>>, defectSets} :
           ledger' = [ledger EXCEPT ![Len(ledger)] = LedgerEntry(sets)]
    BY <1>6
  <2>2. /\ DOMAIN ledger' = DOMAIN ledger /\ n \in DOMAIN ledger
        /\ ledger'[n] = IF n = Len(ledger) THEN LedgerEntry(sets) ELSE ledger[n]
    BY <1>4, <2>1
  <2>. QED
    BY <1>6, <2>2
<1>. QED
  BY <1>3, <1>5, <1>6, LedgerChanges

(***************************************************************************)
(* What an answer comes to.                                                *)
(***************************************************************************)

\* An answer that repeats itself is a shorter list.
LEMMA DecodedIsAList ==
    ASSUME NEW drafts, IsList(drafts)
    PROVE  IsList(Decoded(drafts)) /\ ToSet(Decoded(drafts)) \subseteq ToSet(drafts)
<1> DEFINE S == ToSet(drafts)
<1>1. drafts \in Seq(S) /\ Len(drafts) \in Nat
  BY DEF IsList
<1>2. CASE Len(drafts) > 1
  <2>1. drafts[1] \in S
    BY <1>1, <1>2
  <2>2. <<drafts[1]>> \in Seq(S) /\ SubSeq(drafts, 3, Len(drafts)) \in Seq(S)
    BY <1>1, <2>1
  <2>3. <<drafts[1]>> \o SubSeq(drafts, 3, Len(drafts)) \in Seq(S)
    BY <2>2
  <2>4. Decoded(drafts) \in Seq(S)
    BY <1>1, <2>3 DEF Decoded
  <2>. QED
    BY <2>4, Listed
<1>3. CASE ~(Len(drafts) > 1)
  BY <1>3 DEF Decoded
<1>. QED
  BY <1>2, <1>3

\* Obligations have their fields.
ObligationFields == {"id", "says", "type", "spans", "absent", "evidence"}
AreObligations(seq) == IsList(seq) /\ \A o \in ToSet(seq) : ObligationFields \subseteq DOMAIN o

\* The obligations of an answer, and its questions.
LEMMA ObligationsAreAList ==
    ASSUME NEW text, NEW answer \in AnswersAbout(text), NEW r, NEW quote
    PROVE  AreObligations(ObligationsFrom(answer, r, quote))
<1> DEFINE drafts == IF Usable(answer) /\ answer.tag = "yielded" THEN Decoded(answer.drafts) ELSE <<>>
           got == ObligationsFrom(answer, r, quote)
<1>1. IsList(answer.drafts)
  BY RepliesAssumption DEF AnswersAbout, Offered
<1>2. IsList(drafts)
  BY <1>1, DecodedIsAList, Emptied
<1>3. /\ DOMAIN got = DOMAIN drafts
      /\ got = [n \in DOMAIN drafts |-> got[n]]
      /\ \A n \in DOMAIN drafts : got[n] \in ToSet(got)
      /\ \A o \in ToSet(got) : ObligationFields \subseteq DOMAIN o
  BY DEF ObligationsFrom, ToSet, ObligationFields
<1> HIDE DEF drafts, got
<1>4. IsList(got)
  BY <1>2, <1>3, Mapped
<1>. QED
  BY <1>3, <1>4 DEF got, AreObligations

\* As many questions as the answer asks.
LEMMA QuestionsAreAList ==
    ASSUME NEW text, NEW answer \in AnswersAbout(text), NEW got
    PROVE  LET questions == QuestionsFrom(answer, got)
           IN  IsList(questions) /\ DOMAIN questions = DOMAIN answer.asks
<1> DEFINE questions == QuestionsFrom(answer, got)
<1>1. IsList(answer.asks)
  BY RepliesAssumption DEF AnswersAbout, Offered
<1>2. /\ DOMAIN questions = DOMAIN answer.asks
      /\ questions = [n \in DOMAIN answer.asks |-> questions[n]]
      /\ \A n \in DOMAIN answer.asks : questions[n] \in ToSet(questions)
  BY DEF QuestionsFrom, ToSet
<1> HIDE DEF questions
<1>3. IsList(questions)
  BY <1>1, <1>2, Mapped
<1>. QED
  BY <1>2, <1>3 DEF questions

\* The questions a disposition is resolved to are among those that were asked.
LEMMA ResolvedIsAList ==
    ASSUME NEW text, NEW answer \in AnswersAbout(text), NEW questions,
           DOMAIN questions = DOMAIN answer.asks
    PROVE  /\ IsList(Resolve(answer, questions))
           /\ ToSet(Resolve(answer, questions)) \subseteq IdsOf(questions)
<1> DEFINE S == {name \in ToSet(answer.names) : \E n \in DOMAIN answer.asks : answer.asks[n].id = name}
           known == Only(answer.names, S)
           pick(k) == CHOOSE n \in DOMAIN answer.asks :
                        /\ answer.asks[n].id = known[k]
                        /\ \A m \in 1..(n - 1) : answer.asks[m].id # known[k]
           seq == [k \in DOMAIN known |-> questions[pick(k)].id]
<1>1. IsList(answer.names) /\ IsList(answer.asks)
  BY RepliesAssumption DEF AnswersAbout, Offered
<1>2. Resolve(answer, questions) = Distinct(seq)
  BY DEF Resolve, Where
<1>3. IsList(known) /\ ToSet(known) = ToSet(answer.names) \cap S
  BY <1>1, OnlyHas
<1> HIDE DEF known
<1>4. ASSUME NEW k \in DOMAIN known PROVE pick(k) \in DOMAIN answer.asks
  <2>1. known[k] \in S
    BY <1>3 DEF ToSet
  <2>2. known[k] \in ToSet(Ids(answer.asks)) /\ IsList(Ids(answer.asks))
    BY <1>1, <2>1, IdsAre DEF IdsOf
  <2>3. PICK n \in DOMAIN Ids(answer.asks) :
           /\ Ids(answer.asks)[n] = known[k] /\ \A m \in 1..(n - 1) : Ids(answer.asks)[m] # known[k]
    BY <2>2, FirstPlace
  <2>4. /\ DOMAIN Ids(answer.asks) = DOMAIN answer.asks
        /\ \A m \in DOMAIN answer.asks : Ids(answer.asks)[m] = answer.asks[m].id
        /\ DOMAIN answer.asks = 1..Len(answer.asks) /\ Len(answer.asks) \in Nat
    BY <1>1, Listed DEF Ids, IsList
  <2>5. \A m \in 1..(n - 1) : m \in DOMAIN answer.asks
    BY <2>3, <2>4
  <2>6. /\ n \in DOMAIN answer.asks /\ answer.asks[n].id = known[k]
        /\ \A m \in 1..(n - 1) : answer.asks[m].id # known[k]
    BY <2>3, <2>4, <2>5
  <2>. QED
    BY <2>6
<1> HIDE DEF pick
<1>5. /\ DOMAIN seq = DOMAIN known /\ seq = [k \in DOMAIN known |-> seq[k]]
      /\ \A k \in DOMAIN known : seq[k] \in IdsOf(questions)
  BY <1>4 DEF IdsOf
<1> HIDE DEF seq
<1>6. seq \in Seq(IdsOf(questions))
  BY <1>3, <1>5, Mapped
<1>7. IsList(seq) /\ ToSet(seq) \subseteq IdsOf(questions)
  BY <1>6, Listed
<1>. QED
  BY <1>2, <1>7, DistinctHas

(***************************************************************************)
(* The shape of what was read.                                             *)
(***************************************************************************)

\* The ids of what is carried.
CarriedIds(field) ==
    UNION {IdsOf(plan.carried[id][field]) : id \in DOMAIN plan.carried}

\* The ids there are: what is settled names what was answered or is carried.
GivenOs == IdsOf(fresh) \cup CarriedIds("obligations")
GivenQs == IdsOf(asked) \cup CarriedIds("questions")

Backed(disposition, os, qs) ==
    /\ IsAccount(disposition)
    /\ ToSet(disposition.obligations) \subseteq os /\ ToSet(disposition.questions) \subseteq qs

\* What the ledger keeps of a requirement.
IsRecord(record) == IsAccount(record) /\ AreObligations(record.obligations)

MadeFields == {"obligations", "questions", "dispositions", "records", "removed"}
IsMade(decomposition) ==
    /\ MadeFields \subseteq DOMAIN decomposition
    /\ AreObligations(decomposition.obligations) /\ IsList(decomposition.questions)
    /\ \A id \in DOMAIN decomposition.dispositions : IsAccount(decomposition.dispositions[id])
    /\ IsList(decomposition.records)
    /\ \A record \in ToSet(decomposition.records) : IsRecord(record)

IsOnRecord(entry) ==
    IsList(entry.records) /\ \A record \in ToSet(entry.records) : IsRecord(record)

ReadShape ==
    /\ AreObligations(fresh) /\ IsList(asked)
    /\ \A id \in DOMAIN plan.carried : IsRecord(plan.carried[id])
    /\ \A id \in DOMAIN settled : Backed(settled[id], GivenOs, GivenQs)
    /\ IsMade(made)
    /\ \A n \in DOMAIN ledger : IsOnRecord(ledger[n])

\* A run that has read nothing, and what it finds on record.
LEMMA NothingIsShaped ==
    ASSUME NothingRead, \A n \in DOMAIN ledger' : IsOnRecord(ledger'[n])
    PROVE  ReadShape'
BY Emptied DEF NothingRead, ReadShape, NoPlan, Nothing, IsMade, MadeFields, AreObligations

\* What is written on record.
LEMMA EntriesShaped ==
    ASSUME Inv, ReadShape, [Next]_vars
    PROVE  \A n \in DOMAIN ledger' : IsOnRecord(ledger'[n])
<1> SUFFICES ASSUME NEW n \in DOMAIN ledger' PROVE IsOnRecord(ledger'[n])
  OBVIOUS
<1>1. \A file : IsOnRecord(Blank(file))
  BY Emptied DEF IsOnRecord, Blank
<1>2. \A sets : IsOnRecord(LedgerEntry(sets))
  BY DEF ReadShape, IsMade, IsOnRecord, LedgerEntry
<1>3. \A m \in DOMAIN ledger : IsOnRecord(ledger[m])
  BY DEF ReadShape
<1>. QED
  BY <1>1, <1>2, <1>3, EntriesChange

\* What is carried is on record.
LEMMA CarriedIsAccount ==
    ASSUME NEW registry, NEW entry, IsOnRecord(entry), NEW tool,
           NEW id \in DOMAIN Carried(registry, entry, tool)
    PROVE  LET record == Carried(registry, entry, tool)[id]
           IN  /\ record \in ToSet(entry.records) /\ IsRecord(record)
               /\ IsAccount(CarriedDisposition(record))
               /\ ToSet(CarriedDisposition(record).obligations) = IdsOf(record.obligations)
               /\ ToSet(CarriedDisposition(record).questions) = IdsOf(record.questions)
               /\ CarriedDisposition(record).tag = record.tag
               /\ CarriedDisposition(record).reason = record.reason
<1> DEFINE record == Carried(registry, entry, tool)[id]
<1>1. record \in ToSet(entry.records) /\ IsRecord(record)
  BY CarriedIs, RecordFound DEF IsOnRecord
<1> HIDE DEF record
<1>2. /\ CarriedDisposition(record).obligations = Ids(record.obligations)
      /\ CarriedDisposition(record).questions = Ids(record.questions)
      /\ CarriedDisposition(record).tag = record.tag
      /\ CarriedDisposition(record).reason = record.reason
      /\ AccountFields \subseteq DOMAIN CarriedDisposition(record)
  BY DEF CarriedDisposition, Ids, AccountFields
<1>. QED
  BY <1>1, <1>2, IdsAre DEF IsAccount, IsRecord, record

\* What is planned, asked, divided and asked of a span.
LEMMA PlannedShape ==
    ASSUME RunShape, ReadShape, PlanCarry
    PROVE  ReadShape'
<1>1. UNCHANGED <<ledger, fresh, asked, made>>
  BY DEF PlanCarry
<1>2. CASE ~Readable(run.from)
  <2>1. plan' = NoPlan /\ settled' = <<>>
    BY <1>2 DEF PlanCarry
  <2>. QED
    BY <1>1, <2>1 DEF ReadShape, NoPlan
<1>3. CASE Readable(run.from)
  <2> DEFINE entry == Entry(run.from)
             carried == Carried(Requirements, entry, run.tool)
  <2>1. IsOnRecord(entry)
    BY <1>3 DEF Readable, ReadShape, Entry
  <2>2. /\ plan'.carried = carried
        /\ settled' = [id \in DOMAIN carried |-> CarriedDisposition(carried[id])]
    BY <1>3 DEF PlanCarry
  <2> HIDE DEF entry
  <2>3. ASSUME NEW id \in DOMAIN carried
        PROVE  IsRecord(carried[id]) /\ Backed(settled'[id], GivenOs', GivenQs')
    <3> DEFINE record == carried[id]
    <3>1. /\ IsRecord(record) /\ IsAccount(CarriedDisposition(record))
          /\ ToSet(CarriedDisposition(record).obligations) = IdsOf(record.obligations)
          /\ ToSet(CarriedDisposition(record).questions) = IdsOf(record.questions)
      BY <2>1, CarriedIsAccount
    <3>2. settled'[id] = CarriedDisposition(record) /\ plan'.carried[id] = record
      BY <2>2
    <3> HIDE DEF carried
    <3>3. /\ IdsOf(record["obligations"]) \subseteq CarriedIds("obligations")'
          /\ IdsOf(record["questions"]) \subseteq CarriedIds("questions")'
      BY <2>2, <3>2 DEF CarriedIds
    <3>. QED
      BY <3>1, <3>2, <3>3 DEF Backed, GivenOs, GivenQs
  <2> HIDE DEF carried
  <2>. QED
    BY <1>1, <2>2, <2>3 DEF ReadShape
<1>. QED
  BY <1>2, <1>3

\* What was answered is added to, and what is settled may be too.
LEMMA MoreShape ==
    ASSUME ReadShape, UNCHANGED <<plan, made, ledger>>,
           NEW os, NEW qs, AreObligations(os), IsList(qs), fresh' = fresh \o os, asked' = asked \o qs,
           \A id \in DOMAIN settled' :
              \/ Backed(settled'[id], GivenOs \cup IdsOf(os), GivenQs \cup IdsOf(qs))
              \/ id \in DOMAIN settled /\ settled'[id] = settled[id]
    PROVE  ReadShape'
<1>1. /\ AreObligations(fresh') /\ IdsOf(fresh') = IdsOf(fresh) \cup IdsOf(os)
      /\ IsList(asked') /\ IdsOf(asked') = IdsOf(asked) \cup IdsOf(qs)
  BY JoinedLists DEF ReadShape, AreObligations
<1>2. GivenOs' = GivenOs \cup IdsOf(os) /\ GivenQs' = GivenQs \cup IdsOf(qs)
  BY <1>1 DEF GivenOs, GivenQs, CarriedIds
<1>3. ASSUME NEW id \in DOMAIN settled PROVE Backed(settled[id], GivenOs', GivenQs')
  <2>1. Backed(settled[id], GivenOs, GivenQs)
    BY DEF ReadShape
  <2>. QED
    BY <1>2, <2>1 DEF Backed
<1>5. \A id \in DOMAIN settled' : Backed(settled'[id], GivenOs', GivenQs')
  BY <1>2, <1>3
<1>. QED
  BY <1>1, <1>5 DEF ReadShape

\* What one answer adds.
LEMMA AskedShape ==
    ASSUME ReadShape, AskAbout
    PROVE  ReadShape'
<1>1. PICK answer \in AnswersAbout(Head(todo).text) :
         LET got == ObligationsFrom(answer, Head(todo), <<>>)
             questions == QuestionsFrom(answer, got)
         IN  /\ fresh' = fresh \o got /\ asked' = asked \o questions
             /\ settled' = IF ~Usable(answer) THEN settled
                           ELSE With(settled, RequirementId(Head(todo)),
                                     [tag |-> answer.tag, obligations |-> Ids(got),
                                      questions |-> IF answer.tag = "open_question"
                                                    THEN Resolve(answer, questions) ELSE <<>>,
                                      reason |-> answer.reason])
  BY DEF AskAbout
<1> DEFINE os == ObligationsFrom(answer, Head(todo), <<>>)
           qs == QuestionsFrom(answer, os)
           named == IF answer.tag = "open_question" THEN Resolve(answer, qs) ELSE <<>>
           disposition == [tag |-> answer.tag, obligations |-> Ids(os), questions |-> named,
                           reason |-> answer.reason]
<1>2. AreObligations(os) /\ IsList(os) /\ IsList(qs) /\ DOMAIN qs = DOMAIN answer.asks
  BY ObligationsAreAList, QuestionsAreAList DEF AreObligations
<1>3. /\ fresh' = fresh \o os /\ asked' = asked \o qs
      /\ settled' \in {settled, With(settled, RequirementId(Head(todo)), disposition)}
  BY <1>1
<1> HIDE DEF os, qs
<1>4. IsList(named) /\ ToSet(named) \subseteq IdsOf(qs)
  BY <1>2, ResolvedIsAList, Emptied
<1>5. /\ disposition.tag = answer.tag /\ disposition.obligations = Ids(os)
      /\ disposition.questions = named /\ AccountFields \subseteq DOMAIN disposition
  BY DEF AccountFields
<1>6. answer.tag \in Tags
  BY RepliesAssumption DEF AnswersAbout, Offered, Tags
<1> HIDE DEF named, disposition
<1>7. UNCHANGED <<plan, made, ledger>>
  BY DEF AskAbout
<1>8. Backed(disposition, GivenOs \cup IdsOf(os), GivenQs \cup IdsOf(qs))
  BY <1>2, <1>4, <1>5, <1>6, IdsAre DEF Backed, IsAccount
<1>9. \A id \in DOMAIN settled' : \/ settled'[id] = disposition
                                  \/ id \in DOMAIN settled /\ settled'[id] = settled[id]
  BY <1>3 DEF With
<1>. QED
  BY <1>2, <1>3, <1>7, <1>8, <1>9, MoreShape

\* A summary that is divided is settled as having none, until a span has one.
LEMMA DividedShape ==
    ASSUME ReadShape, DecideSpans
    PROVE  ReadShape'
<1> DEFINE disposition == [tag |-> "no_obligation", obligations |-> <<>>, questions |-> <<>>,
                           reason |-> TRUE]
<1>1. /\ UNCHANGED <<plan, made, ledger, fresh, asked>>
      /\ settled' \in {settled, With(settled, RequirementId(Head(todo)), disposition)}
  BY DEF DecideSpans
<1>2. \A os, qs : Backed(disposition, os, qs)
  BY Emptied DEF Backed, IsAccount, Tags, AccountFields
<1> HIDE DEF disposition
<1>3. \A id \in DOMAIN settled' : \/ settled'[id] = disposition
                                  \/ id \in DOMAIN settled /\ settled'[id] = settled[id]
  BY <1>1 DEF With
<1>4. GivenOs' = GivenOs /\ GivenQs' = GivenQs
  BY <1>1 DEF GivenOs, GivenQs, CarriedIds
<1>. QED
  BY <1>1, <1>2, <1>3, <1>4 DEF ReadShape

\* What the summary has come to is what it had come to and more.
LEMMA AccountIs ==
    ASSUME NEW account, IsAccount(account), NEW os, NEW qs, IsList(os), IsList(qs)
    PROVE  LET more == Account(account, os, qs)
           IN  /\ IsAccount(more)
               /\ ToSet(more.obligations) = ToSet(account.obligations) \cup ToSet(os)
               /\ ToSet(more.questions) = ToSet(account.questions) \cup ToSet(qs)
<1> DEFINE more == Account(account, os, qs)
<1>1. /\ more.tag \in Tags
      /\ more.obligations = account.obligations \o os /\ more.questions = account.questions \o qs
      /\ AccountFields \subseteq DOMAIN more
  BY DEF Account, Tags, AccountFields
<1>2. IsList(account.obligations) /\ IsList(account.questions)
  BY DEF IsAccount
<1> HIDE DEF more
<1>. QED
  BY <1>1, <1>2, JoinedLists DEF IsAccount, more

\* What the answer about a span adds.
LEMMA SpanShape ==
    ASSUME ReadShape, AskSpan
    PROVE  ReadShape'
<1> DEFINE which == RequirementId(Head(todo))
<1>1. PICK answer \in AnswersAbout(Head(spans)) :
         LET got == ObligationsFrom(answer, SpanRequirement(Head(spans)), Head(spans))
             questions == QuestionsFrom(answer, got)
             raised == IF Usable(answer) /\ answer.tag = "open_question"
                       THEN Resolve(answer, questions) ELSE <<>>
             disagreement == Disagreement(Head(spans),
                                          IdsOf(fresh) \cup IdsOf(asked) \cup IdsOf(questions))
             silent == got = <<>> /\ raised = <<>>
         IN  /\ fresh' = fresh \o got
             /\ asked' = asked \o questions \o (IF silent THEN <<disagreement>> ELSE <<>>)
             /\ settled' = [settled EXCEPT ![which] =
                              Account(@, Ids(got),
                                      IF silent THEN <<disagreement.id>> ELSE raised)]
  BY DEF AskSpan
<1> DEFINE os == ObligationsFrom(answer, SpanRequirement(Head(spans)), Head(spans))
           qs == QuestionsFrom(answer, os)
           raised == IF Usable(answer) /\ answer.tag = "open_question" THEN Resolve(answer, qs) ELSE <<>>
           disagreement == Disagreement(Head(spans), IdsOf(fresh) \cup IdsOf(asked) \cup IdsOf(qs))
           silent == os = <<>> /\ raised = <<>>
           more == IF silent THEN <<disagreement>> ELSE <<>>
           named == IF silent THEN <<disagreement.id>> ELSE raised
           disposition == Account(settled[which], Ids(os), named)
<1>2. AreObligations(os) /\ IsList(os) /\ IsList(qs) /\ DOMAIN qs = DOMAIN answer.asks
  BY ObligationsAreAList, QuestionsAreAList DEF AreObligations
<1>3. /\ fresh' = fresh \o os /\ asked' = asked \o qs \o more
      /\ settled' = [settled EXCEPT ![which] = disposition]
  BY <1>1
<1> HIDE DEF os, qs
<1>4. IsList(raised) /\ ToSet(raised) \subseteq IdsOf(qs)
  BY <1>2, ResolvedIsAList, Emptied
<1> HIDE DEF raised, disagreement, silent
<1>5. /\ IsList(more) /\ IsList(named) /\ ToSet(named) \subseteq IdsOf(qs) \cup IdsOf(more)
  <2>1. \A x : IsList(<<x>>) /\ ToSet(<<x>>) = {x} /\ IdsOf(<<x>>) = {x.id}
    BY DEF IsList, ToSet, IdsOf
  <2>. QED
    BY <1>4, <2>1, Emptied
<1> HIDE DEF more, named
<1>6. /\ IsList(qs \o more) /\ IdsOf(qs \o more) = IdsOf(qs) \cup IdsOf(more)
  BY <1>2, <1>5, JoinedLists
<1>7. asked' = asked \o (qs \o more)
  <2> DEFINE S == ToSet(asked) \cup ToSet(qs) \cup ToSet(more)
  <2>1. asked \in Seq(S) /\ qs \in Seq(S) /\ more \in Seq(S)
    BY <1>2, <1>5 DEF ReadShape, IsList
  <2> HIDE DEF S
  <2>. QED
    BY <1>3, <2>1
<1>8. UNCHANGED <<plan, made, ledger>>
  BY DEF AskSpan
<1>9. CASE which \in DOMAIN settled
  <2>1. Backed(settled[which], GivenOs, GivenQs)
    BY <1>9 DEF ReadShape
  <2>2. Backed(disposition, GivenOs \cup IdsOf(os), GivenQs \cup IdsOf(qs \o more))
    <3>1. IsList(Ids(os)) /\ ToSet(Ids(os)) = IdsOf(os) /\ IsAccount(settled[which])
      BY <1>2, <2>1, IdsAre DEF Backed
    <3>2. /\ IsAccount(disposition)
          /\ ToSet(disposition.obligations) = ToSet(settled[which].obligations) \cup ToSet(Ids(os))
          /\ ToSet(disposition.questions) = ToSet(settled[which].questions) \cup ToSet(named)
      BY <1>5, <3>1, AccountIs
    <3> HIDE DEF disposition
    <3>. QED
      BY <1>5, <1>6, <2>1, <3>1, <3>2 DEF Backed
  <2> HIDE DEF disposition
  <2>3. \A id \in DOMAIN settled' : \/ settled'[id] = disposition
                                    \/ id \in DOMAIN settled /\ settled'[id] = settled[id]
    BY <1>3
  <2>. QED
    BY <1>2, <1>3, <1>6, <1>7, <1>8, <2>2, <2>3, MoreShape
<1>10. CASE which \notin DOMAIN settled
  <2> HIDE DEF disposition
  <2>1. \A id \in DOMAIN settled' : id \in DOMAIN settled /\ settled'[id] = settled[id]
    BY <1>3, <1>10
  <2>. QED
    BY <1>2, <1>3, <1>6, <1>7, <1>8, <2>1, MoreShape
<1>. QED
  BY <1>9, <1>10

(***************************************************************************)
(* The decomposition a run comes to.                                       *)
(***************************************************************************)

\* What a sequence has under some ids.
Picked(ids, seq) ==
    LET known == Only(ids, {id \in ToSet(ids) : id \in IdsOf(seq)})
    IN  [k \in DOMAIN known |-> ById(seq, known[k])]

\* What is picked by id is what has one of the ids.
LEMMA PickedHas ==
    ASSUME NEW ids, IsList(ids), NEW seq
    PROVE  /\ IsList(Picked(ids, seq))
           /\ ToSet(Picked(ids, seq)) = {ById(seq, id) : id \in ToSet(ids) \cap IdsOf(seq)}
           /\ ToSet(Picked(ids, seq)) \subseteq ToSet(seq)
           /\ IdsOf(Picked(ids, seq)) = ToSet(ids) \cap IdsOf(seq)
<1> DEFINE known == Only(ids, {id \in ToSet(ids) : id \in IdsOf(seq)})
           picked == [k \in DOMAIN known |-> ById(seq, known[k])]
<1>1. Picked(ids, seq) = picked
  BY DEF Picked
<1>2. IsList(known) /\ ToSet(known) = ToSet(ids) \cap IdsOf(seq)
  BY OnlyHas
<1> HIDE DEF known
<1>3. /\ DOMAIN picked = DOMAIN known /\ picked = [k \in DOMAIN known |-> picked[k]]
      /\ \A k \in DOMAIN known : picked[k] \in ToSet(picked)
      /\ ToSet(picked) = {ById(seq, known[k]) : k \in DOMAIN known}
      /\ ToSet(known) = {known[k] : k \in DOMAIN known}
  BY DEF ToSet
<1> HIDE DEF picked
<1>4. IsList(picked)
  BY <1>2, <1>3, Mapped
<1>5. ToSet(picked) = {ById(seq, id) : id \in ToSet(ids) \cap IdsOf(seq)}
  BY <1>2, <1>3
<1>6. \A id \in IdsOf(seq) : ById(seq, id) \in ToSet(seq) /\ ById(seq, id).id = id
  BY LookedUp
<1>7. IdsOf(picked) = {x.id : x \in ToSet(picked)}
  BY IdsAre
<1>8. IdsOf(picked) = ToSet(ids) \cap IdsOf(seq)
  <2>1. \A id \in IdsOf(picked) : id \in ToSet(ids) \cap IdsOf(seq)
    BY <1>5, <1>6, <1>7
  <2>2. ASSUME NEW id \in ToSet(ids) \cap IdsOf(seq) PROVE id \in IdsOf(picked)
    <3>1. ById(seq, id) \in ToSet(picked) /\ ById(seq, id).id = id
      BY <1>5, <1>6
    <3>. QED
      BY <1>7, <3>1
  <2>. QED
    BY <2>1, <2>2
<1>. QED
  BY <1>1, <1>4, <1>5, <1>6, <1>8

\* A record says of its requirement what was settled.
LEMMA RecordsAre ==
    ASSUME RunShape, NEW os, AreObligations(os), NEW qs,
           \A r \in ToSet(Requirements) : IsAccount(settled[RequirementId(r)])
    PROVE  LET records == Records(Requirements, os, qs)
           IN  /\ IsList(records) /\ DOMAIN records = DOMAIN Requirements
               /\ \A record \in ToSet(records) : IsRecord(record)
               /\ \A n \in DOMAIN Requirements :
                     LET id == RequirementId(Requirements[n])
                     IN  /\ records[n].text = Requirements[n].text
                         /\ records[n].key = KeyFor(run.tool, Requirements[n])
                         /\ records[n].kind = Kind(id)
                         /\ records[n].tag = settled[id].tag /\ records[n].reason = settled[id].reason
                         /\ records[n].obligations = Picked(settled[id].obligations, os)
                         /\ records[n].questions = Picked(settled[id].questions, qs)
<1> DEFINE records == Records(Requirements, os, qs)
           id(n) == RequirementId(Requirements[n])
           what(n) == [text |-> Requirements[n].text, key |-> KeyFor(run.tool, Requirements[n]),
                       kind |-> Kind(id(n)), tag |-> settled[id(n)].tag,
                       reason |-> settled[id(n)].reason,
                       obligations |-> Picked(settled[id(n)].obligations, os),
                       questions |-> Picked(settled[id(n)].questions, qs)]
<1>1. records = [n \in DOMAIN Requirements |-> what(n)]
  BY DEF Records, Picked, Where
<1>2. /\ DOMAIN records = DOMAIN Requirements /\ \A n \in DOMAIN Requirements : records[n] = what(n)
      /\ records = [n \in DOMAIN Requirements |-> records[n]]
      /\ \A n \in DOMAIN Requirements : records[n] \in ToSet(records)
      /\ \A record \in ToSet(records) : \E n \in DOMAIN Requirements : record = what(n)
  BY <1>1 DEF ToSet
<1>3. \A n \in DOMAIN Requirements : IsRecord(what(n))
  <2> SUFFICES ASSUME NEW n \in DOMAIN Requirements PROVE IsRecord(what(n))
    OBVIOUS
  <2>1. IsAccount(settled[id(n)])
    BY DEF ToSet
  <2>2. /\ what(n).tag = settled[id(n)].tag
        /\ what(n).obligations = Picked(settled[id(n)].obligations, os)
        /\ what(n).questions = Picked(settled[id(n)].questions, qs)
        /\ AccountFields \subseteq DOMAIN what(n)
    BY DEF AccountFields
  <2> HIDE DEF what, id
  <2>3. IsAccount(what(n))
    BY <2>1, <2>2, PickedHas DEF IsAccount
  <2>4. AreObligations(what(n).obligations)
    BY <2>1, <2>2, PickedHas DEF IsAccount, AreObligations
  <2>. QED
    BY <2>3, <2>4 DEF IsRecord
<1>4. ASSUME NEW n \in DOMAIN Requirements
      PROVE  /\ records[n].text = Requirements[n].text
             /\ records[n].key = KeyFor(run.tool, Requirements[n])
             /\ records[n].kind = Kind(id(n))
             /\ records[n].tag = settled[id(n)].tag /\ records[n].reason = settled[id(n)].reason
             /\ records[n].obligations = Picked(settled[id(n)].obligations, os)
             /\ records[n].questions = Picked(settled[id(n)].questions, qs)
  <2>1. records[n] = what(n)
    BY <1>2
  <2> HIDE DEF records, id
  <2>. QED
    BY <2>1
<1> HIDE DEF records, what
<1>5. IsList(records)
  BY <1>2, RequirementsAreNumbered, Mapped
<1>. QED
  BY <1>2, <1>3, <1>4, <1>5 DEF records

\* What an id stands for is what was carried under it, or else what was answered.
LEMMA PoolHas ==
    ASSUME NEW answered, NEW carried, NEW id \in DOMAIN Pool(answered, carried)
    PROVE  LET x == Pool(answered, carried)[id]
           IN  /\ x.id = id
               /\ \/ \E c \in DOMAIN carried : x \in ToSet(carried[c])
                  \/ /\ x \in ToSet(answered)
                     /\ \A c \in DOMAIN carried : id \notin IdsOf(carried[c])
<1> DEFINE held == UNION {ToSet(carried[c]) : c \in DOMAIN carried}
           x == Pool(answered, carried)[id]
<1>1. /\ id \in IdsOf(answered) \cup {y.id : y \in held}
      /\ x = IF \E y \in held : y.id = id THEN CHOOSE y \in held : y.id = id ELSE ById(answered, id)
  BY DEF Pool
<1>2. CASE \E y \in held : y.id = id
  <2>1. x \in held /\ x.id = id
    BY <1>1, <1>2
  <2>. QED
    BY <2>1
<1>3. CASE ~ \E y \in held : y.id = id
  <2>1. id \in IdsOf(answered) /\ x = ById(answered, id)
    BY <1>1, <1>3
  <2>2. x \in ToSet(answered) /\ x.id = id
    BY <2>1, LookedUp
  <2>3. ASSUME NEW c \in DOMAIN carried, id \in IdsOf(carried[c]) PROVE FALSE
    <3>1. PICK y \in ToSet(carried[c]) : y.id = id
      BY <2>3, IdsAre
    <3>. QED
      BY <1>3, <3>1
  <2> HIDE DEF x
  <2>. QED
    BY <2>2, <2>3 DEF x
<1>. QED
  BY <1>2, <1>3

\* There is an id for everything that was carried or answered.
LEMMA PoolsOf ==
    ASSUME NEW answered, NEW carried
    PROVE  DOMAIN Pool(answered, carried) =
              IdsOf(answered) \cup UNION {IdsOf(carried[c]) : c \in DOMAIN carried}
<1> DEFINE held == UNION {ToSet(carried[c]) : c \in DOMAIN carried}
<1>1. DOMAIN Pool(answered, carried) = IdsOf(answered) \cup {y.id : y \in held}
  BY DEF Pool
<1>2. ASSUME NEW y \in held PROVE y.id \in UNION {IdsOf(carried[c]) : c \in DOMAIN carried}
  <2>1. PICK c \in DOMAIN carried : y \in ToSet(carried[c])
    OBVIOUS
  <2>2. y.id \in IdsOf(carried[c])
    BY <2>1, IdsAre
  <2>. QED
    BY <2>2
<1>3. ASSUME NEW c \in DOMAIN carried, NEW id \in IdsOf(carried[c])
      PROVE  id \in {y.id : y \in held}
  <2>1. PICK y \in ToSet(carried[c]) : y.id = id
    BY IdsAre
  <2>. QED
    BY <2>1
<1>. QED
  BY <1>1, <1>2, <1>3

\* The outputs of a kind, in order: what is named of it, and what nothing names.
LEMMA InOrderHas ==
    ASSUME NEW kind, NEW answered, IsList(answered), NEW carried,
           IsList(Named(Requirements)),
           \A m \in ToSet(Named(Requirements)) : m.kind = kind => m.id \in DOMAIN Pool(answered, carried)
    PROVE  LET seq == InRegistryOrder(Requirements, kind, answered, carried)
           IN  /\ IsList(seq)
               /\ \A x \in ToSet(seq) :
                     \/ /\ x = Pool(answered, carried)[x.id] /\ x.id \in DOMAIN Pool(answered, carried)
                        /\ \E m \in ToSet(Named(Requirements)) : m.kind = kind /\ m.id = x.id
                     \/ x \in ToSet(answered) /\ x.id \notin IdsOf(Named(Requirements))
               /\ \A m \in ToSet(Named(Requirements)) : m.kind = kind => m.id \in IdsOf(seq)
               /\ \A x \in ToSet(answered) : x.id \notin IdsOf(Named(Requirements)) => x \in ToSet(seq)
<1> DEFINE pool == Pool(answered, carried)
           all == Named(Requirements)
           named == Only(all, {m \in ToSet(all) : m.kind = kind})
           outputs == [k \in DOMAIN named |-> pool[named[k].id]]
           others == Only(answered, {x \in ToSet(answered) : x.id \notin IdsOf(all)})
           seq == InRegistryOrder(Requirements, kind, answered, carried)
<1>1. seq = outputs \o others
  BY DEF InRegistryOrder, Where
<1>2. IsList(named) /\ ToSet(named) = {m \in ToSet(all) : m.kind = kind}
  BY OnlyHas
<1>3. IsList(others) /\ ToSet(others) = {x \in ToSet(answered) : x.id \notin IdsOf(all)}
  BY OnlyHas
<1>4. \A m \in ToSet(all) : m.kind = kind => m.id \in DOMAIN pool
  OBVIOUS
<1>5. \A id \in DOMAIN pool : pool[id].id = id
  BY PoolHas
<1> HIDE DEF pool, all, named, others, seq
<1>6. /\ DOMAIN outputs = DOMAIN named /\ outputs = [k \in DOMAIN named |-> outputs[k]]
      /\ \A k \in DOMAIN named : outputs[k] \in ToSet(outputs)
      /\ ToSet(outputs) = {pool[named[k].id] : k \in DOMAIN named}
      /\ ToSet(named) = {named[k] : k \in DOMAIN named}
  BY DEF ToSet
<1> HIDE DEF outputs
<1>7. IsList(outputs)
  BY <1>2, <1>6, Mapped
<1>8. ToSet(outputs) = {pool[m.id] : m \in ToSet(named)}
  BY <1>6
<1>9. IsList(seq) /\ ToSet(seq) = ToSet(outputs) \cup ToSet(others)
  BY <1>1, <1>3, <1>7, JoinedLists
<1>10. ASSUME NEW x \in ToSet(seq)
       PROVE  \/ /\ x = pool[x.id] /\ x.id \in DOMAIN pool
                 /\ \E m \in ToSet(all) : m.kind = kind /\ m.id = x.id
              \/ x \in ToSet(answered) /\ x.id \notin IdsOf(all)
  BY <1>2, <1>3, <1>4, <1>5, <1>8, <1>9
<1>11. ASSUME NEW m \in ToSet(all), m.kind = kind PROVE m.id \in IdsOf(seq)
  <2>1. pool[m.id] \in ToSet(seq) /\ pool[m.id].id = m.id
    BY <1>2, <1>4, <1>5, <1>8, <1>9, <1>11
  <2>. QED
    BY <2>1, IdsAre
<1>. QED
  BY <1>3, <1>9, <1>10, <1>11 DEF seq, pool, all

(***************************************************************************)
(* Linking.                                                                *)
(***************************************************************************)

\* The sets that hold what is confirmed to be the same as one of theirs.
IsClosed(S, confirmed) == \A pair \in confirmed : pair \cap S # {} => pair \subseteq S

\* A component is the least set of ids that holds one and is closed.
LEMMA ComponentIs ==
    ASSUME NEW ids, NEW confirmed, \A pair \in confirmed : pair \subseteq ids, NEW id \in ids
    PROVE  LET C == Component(ids, confirmed, id)
           IN  /\ C \subseteq ids /\ id \in C /\ IsClosed(C, confirmed)
               /\ \A S \in SUBSET ids : id \in S /\ IsClosed(S, confirmed) => C \subseteq S
<1> DEFINE C == Component(ids, confirmed, id)
           closed == {S \in SUBSET ids : id \in S /\ IsClosed(S, confirmed)}
<1>1. C = {a \in ids : \A S \in closed : a \in S}
  BY DEF Component, IsClosed
<1>2. \A S \in closed : S \in SUBSET ids /\ id \in S /\ IsClosed(S, confirmed)
  OBVIOUS
<1>3. \A S \in SUBSET ids : id \in S /\ IsClosed(S, confirmed) => S \in closed
  OBVIOUS
<1> HIDE DEF C, closed
<1>4. C \subseteq ids /\ id \in C /\ \A S \in closed : C \subseteq S
  BY <1>1, <1>2
<1>5. IsClosed(C, confirmed)
  <2> SUFFICES ASSUME NEW pair \in confirmed, NEW a \in pair \cap C, NEW b \in pair
               PROVE  b \in C
    BY DEF IsClosed
  <2>1. \A S \in closed : b \in S
    BY <1>1, <1>2 DEF IsClosed
  <2>. QED
    BY <1>1, <2>1
<1>. QED
  BY <1>3, <1>4, <1>5 DEF C

\* What is joined to one is joined to the same as that one.
LEMMA ComponentsAgree ==
    ASSUME NEW ids, NEW confirmed, \A pair \in confirmed : pair \subseteq ids, NEW id \in ids,
           NEW a \in Component(ids, confirmed, id)
    PROVE  Component(ids, confirmed, a) = Component(ids, confirmed, id)
<1> DEFINE C == Component(ids, confirmed, id)
           D == Component(ids, confirmed, a)
<1>1. /\ C \subseteq ids /\ id \in C /\ IsClosed(C, confirmed)
      /\ \A S \in SUBSET ids : id \in S /\ IsClosed(S, confirmed) => C \subseteq S
  BY ComponentIs
<1>2. /\ D \subseteq ids /\ a \in D /\ IsClosed(D, confirmed)
      /\ \A S \in SUBSET ids : a \in S /\ IsClosed(S, confirmed) => D \subseteq S
  BY <1>1, ComponentIs
<1>3. a \in C
  OBVIOUS
<1> HIDE DEF C, D
<1>4. D \subseteq C
  BY <1>1, <1>2, <1>3
<1>5. IsClosed(C \ D, confirmed)
  <2> SUFFICES ASSUME NEW pair \in confirmed, NEW x \in pair \cap (C \ D), NEW b \in pair
               PROVE  b \in C \ D
    BY DEF IsClosed
  <2>1. b \in C
    BY <1>1 DEF IsClosed
  <2>2. b \notin D
    BY <1>2 DEF IsClosed
  <2>. QED
    BY <2>1, <2>2
<1>6. id \in D
  BY <1>1, <1>2, <1>3, <1>5
<1>7. C \subseteq D
  BY <1>1, <1>2, <1>6
<1>. QED
  BY <1>4, <1>7 DEF C, D

\* Of some ids of a list, the one that comes first.
LEMMA FirstOf ==
    ASSUME NEW os, IsList(os), NEW members, members \subseteq IdsOf(os), members # {}
    PROVE  \E a \in members : \A b \in members : PlaceOf(os, a) <= PlaceOf(os, b)
<1> DEFINE places == {PlaceOf(os, a) : a \in members}
<1>1. DOMAIN os = 1..Len(os) /\ Len(os) \in Nat
  BY Listed DEF IsList
<1>2. \A a \in members : PlaceOf(os, a) \in DOMAIN os
  BY DEF IdsOf, PlaceOf
<1>3. places \subseteq Nat /\ places # {}
  BY <1>1, <1>2
<1>4. PICK least \in places : \A n \in places : least <= n
  BY <1>3, Least
<1>. QED
  BY <1>4

\* An obligation that does not survive was confirmed to be the one that does.
LEMMA SurvivorsAre ==
    ASSUME NEW os, IsList(os), NEW confirmed, \A pair \in confirmed : pair \subseteq IdsOf(os)
    PROVE  LET survivor == Survivors(os, confirmed)
           IN  /\ DOMAIN survivor = IdsOf(os)
               /\ \A id \in IdsOf(os) :
                     /\ survivor[id] \in IdsOf(os) /\ survivor[survivor[id]] = survivor[id]
                     /\ survivor[id] # id => {id, survivor[id]} \in confirmed
<1> DEFINE ids == IdsOf(os)
           survivor == Survivors(os, confirmed)
           C(id) == Component(ids, confirmed, id)
           first(id) == CHOOSE a \in C(id) : \A b \in C(id) : PlaceOf(os, a) <= PlaceOf(os, b)
<1>1. /\ DOMAIN survivor = ids
      /\ \A id \in ids : survivor[id] = IF Complete(C(id), confirmed) THEN first(id) ELSE id
  BY DEF Survivors
<1> HIDE DEF survivor
<1> SUFFICES ASSUME NEW id \in ids
             PROVE  /\ survivor[id] \in ids /\ survivor[survivor[id]] = survivor[id]
                    /\ survivor[id] # id => {id, survivor[id]} \in confirmed
  BY <1>1 DEF survivor
<1>2. CASE Complete(C(id), confirmed)
  <2>1. C(id) \subseteq ids /\ id \in C(id)
    BY ComponentIs
  <2>2. first(id) \in C(id)
    BY <2>1, FirstOf
  <2>3. C(first(id)) = C(id)
    BY <2>2, ComponentsAgree
  <2>4. first(first(id)) = first(id)
    BY <2>3
  <2> HIDE DEF C, first
  <2>. QED
    BY <1>1, <1>2, <2>1, <2>2, <2>3, <2>4 DEF Complete
<1>3. CASE ~Complete(C(id), confirmed)
  BY <1>1, <1>3
<1>. QED
  BY <1>2, <1>3

\* An obligation that stands for some: one of them, with the spans of all.
StandsFor(kept, os, survivor) ==
    \E p \in ToSet(os) :
       /\ kept.id = p.id /\ kept.says = p.says /\ kept.type = p.type /\ kept.absent = p.absent
       /\ kept.evidence = p.evidence
       /\ \A q \in ToSet(os) : survivor[q.id] = p.id => q.spans \subseteq kept.spans

\* What is left after merging: each survivor, with the spans of those it is for.
LEMMA MergedHas ==
    ASSUME NEW os, AreObligations(os), NEW survivor
    PROVE  LET merged == MergedObligations(os, survivor)
           IN  /\ AreObligations(merged)
               /\ IdsOf(merged) = {id \in IdsOf(os) : survivor[id] = id}
               /\ \A kept \in ToSet(merged) : StandsFor(kept, os, survivor)
<1> DEFINE with(o) == [o EXCEPT !.spans =
                          UNION {p.spans : p \in {q \in ToSet(os) : survivor[q.id] = o.id}}]
           all == [n \in DOMAIN os |-> with(os[n])]
           merged == Only(all, {o \in ToSet(all) : survivor[o.id] = o.id})
<1>1. MergedObligations(os, survivor) = merged
  BY DEF MergedObligations, Where
<1>2. ASSUME NEW o \in ToSet(os)
      PROVE  /\ ObligationFields \subseteq DOMAIN with(o)
             /\ with(o).id = o.id /\ with(o).says = o.says /\ with(o).type = o.type
             /\ with(o).absent = o.absent /\ with(o).evidence = o.evidence
             /\ with(o).spans = UNION {p.spans : p \in {q \in ToSet(os) : survivor[q.id] = o.id}}
  BY DEF AreObligations, ObligationFields
<1> HIDE DEF with
<1>3. /\ DOMAIN all = DOMAIN os /\ all = [n \in DOMAIN os |-> all[n]]
      /\ \A n \in DOMAIN os : all[n] \in ToSet(all)
      /\ ToSet(all) = {with(o) : o \in ToSet(os)}
  BY DEF ToSet
<1> HIDE DEF all
<1>4. IsList(all)
  BY <1>3, Mapped DEF AreObligations
<1>5. IsList(merged) /\ ToSet(merged) = {o \in ToSet(all) : survivor[o.id] = o.id}
  BY <1>4, OnlyHas
<1> HIDE DEF merged
<1>6. ToSet(merged) = {with(o) : o \in {p \in ToSet(os) : survivor[p.id] = p.id}}
  BY <1>2, <1>3, <1>5
<1>7. AreObligations(merged)
  BY <1>2, <1>5, <1>6 DEF AreObligations
<1>8. IdsOf(merged) = {id \in IdsOf(os) : survivor[id] = id}
  <2>1. IdsOf(merged) = {o.id : o \in ToSet(merged)} /\ IdsOf(os) = {o.id : o \in ToSet(os)}
    BY IdsAre
  <2>2. ASSUME NEW id \in IdsOf(merged) PROVE id \in IdsOf(os) /\ survivor[id] = id
    <3>1. PICK o \in ToSet(os) : survivor[o.id] = o.id /\ id = with(o).id
      BY <1>6, <2>1
    <3>. QED
      BY <1>2, <2>1, <3>1
  <2>3. ASSUME NEW id \in IdsOf(os), survivor[id] = id PROVE id \in IdsOf(merged)
    <3>1. PICK o \in ToSet(os) : id = o.id
      BY <2>1
    <3>2. with(o) \in ToSet(merged) /\ with(o).id = id
      BY <1>2, <1>6, <2>3, <3>1
    <3>. QED
      BY <2>1, <3>2
  <2>. QED
    BY <2>2, <2>3
<1>9. ASSUME NEW kept \in ToSet(merged)
      PROVE  StandsFor(kept, os, survivor)
  <2>1. PICK p \in ToSet(os) : kept = with(p)
    BY <1>6, <1>9
  <2>. QED
    BY <1>2, <2>1 DEF StandsFor
<1>. QED
  BY <1>1, <1>7, <1>8, <1>9

\* What an id has come to.
Through(survivor, id) == IF id \in DOMAIN survivor THEN survivor[id] ELSE id

\* The dispositions name survivors, and what was not an obligation as before.
LEMMA RelinkedHas ==
    ASSUME NEW dispositions, NEW survivor, NEW r \in DOMAIN dispositions,
           IsAccount(dispositions[r])
    PROVE  LET before == dispositions[r]
               after == Relinked(dispositions, survivor)[r]
           IN  /\ DOMAIN Relinked(dispositions, survivor) = DOMAIN dispositions
               /\ IsAccount(after)
               /\ after.tag = before.tag /\ after.reason = before.reason
               /\ after.questions = before.questions
               /\ ToSet(after.obligations) =
                     {Through(survivor, id) : id \in ToSet(before.obligations)}
<1> DEFINE before == dispositions[r]
           ids == before.obligations
           through == [n \in DOMAIN ids |-> Through(survivor, ids[n])]
           after == [before EXCEPT !.obligations = Distinct(through)]
<1>1. /\ DOMAIN Relinked(dispositions, survivor) = DOMAIN dispositions
      /\ Relinked(dispositions, survivor)[r] = after
  BY DEF Relinked, Through
<1>2. IsList(ids) /\ AccountFields \subseteq DOMAIN before
  BY DEF IsAccount
<1>3. /\ DOMAIN through = DOMAIN ids /\ through = [n \in DOMAIN ids |-> through[n]]
      /\ \A n \in DOMAIN ids : through[n] \in ToSet(through)
      /\ ToSet(through) = {Through(survivor, id) : id \in ToSet(ids)}
  BY DEF ToSet
<1> HIDE DEF through
<1>4. IsList(through)
  BY <1>2, <1>3, Mapped
<1>5. IsList(Distinct(through)) /\ ToSet(Distinct(through)) = ToSet(through)
  BY <1>4, DistinctHas
<1>6. /\ AccountFields \subseteq DOMAIN after /\ after.tag = before.tag
      /\ after.reason = before.reason /\ after.questions = before.questions
      /\ after.obligations = Distinct(through)
  BY <1>2 DEF AccountFields
<1> HIDE DEF after
<1>7. IsAccount(after)
  BY <1>5, <1>6 DEF IsAccount
<1>. QED
  BY <1>1, <1>3, <1>5, <1>6, <1>7

CarriedOf(field) == [id \in DOMAIN plan.carried |-> plan.carried[id][field]]
ReconciledOs == InRegistryOrder(Requirements, "obligation", fresh, CarriedOf("obligations"))
ReconciledQs == InRegistryOrder(Requirements, "question", asked, CarriedOf("questions"))

\* What a kind's pool has.
LEMMA PoolsAre ==
    /\ DOMAIN Pool(fresh, CarriedOf("obligations")) = GivenOs
    /\ DOMAIN Pool(asked, CarriedOf("questions")) = GivenQs
<1>1. \A field : UNION {IdsOf(CarriedOf(field)[c]) : c \in DOMAIN CarriedOf(field)} = CarriedIds(field)
  BY DEF CarriedOf, CarriedIds
<1>. QED
  BY <1>1, PoolsOf DEF GivenOs, GivenQs

\* What is reconciled is what was answered or is carried, and all that is named.
LEMMA ReconciledHas ==
    ASSUME RunShape, ReadShape, FirstFault(Requirements) = "none"
    PROVE  /\ AreObligations(ReconciledOs) /\ IsList(ReconciledQs)
           /\ \A r \in ToSet(Requirements) :
                 LET disposition == settled[RequirementId(r)]
                 IN  /\ RequirementId(r) \in DOMAIN settled
                     /\ ToSet(disposition.obligations)
                           \subseteq IdsOf(ReconciledOs) \cup IdsOf(ReconciledQs)
                     /\ \A id \in ToSet(disposition.questions) :
                           \/ id \in IdsOf(ReconciledQs)
                           \/ /\ id \in IdsOf(ReconciledOs)
                              /\ \E q \in ToSet(Requirements) :
                                    id \in ToSet(settled[RequirementId(q)].obligations)
           /\ \A o \in ToSet(ReconciledOs) :
                 \/ o \in ToSet(fresh)
                 \/ \E id \in DOMAIN plan.carried : o \in ToSet(plan.carried[id].obligations)
<1> DEFINE all == Named(Requirements)
           poolOs == Pool(fresh, CarriedOf("obligations"))
           poolQs == Pool(asked, CarriedOf("questions"))
<1>1. \A id \in DOMAIN settled : Backed(settled[id], GivenOs, GivenQs)
  BY DEF ReadShape
<1>2. \A r \in ToSet(Requirements) : RequirementId(r) \in DOMAIN settled
  BY NoFault
<1>3. /\ IsList(all)
      /\ IdsOf(all) = UNION {ToSet(settled[RequirementId(r)].obligations)
                               \cup ToSet(settled[RequirementId(r)].questions) : r \in ToSet(Requirements)}
      /\ \A m \in ToSet(all) :
            \E r \in ToSet(Requirements) :
               \/ m.kind = "obligation" /\ m.id \in ToSet(settled[RequirementId(r)].obligations)
               \/ m.kind = "question" /\ m.id \in ToSet(settled[RequirementId(r)].questions)
  BY <1>1, NamedIs DEF Backed
<1> HIDE DEF all
<1>4. ASSUME NEW m \in ToSet(all)
      PROVE  /\ m.kind \in {"obligation", "question"}
             /\ m.kind = "obligation" => m.id \in DOMAIN poolOs
             /\ m.kind = "question" => m.id \in DOMAIN poolQs
  <2>1. PICK r \in ToSet(Requirements) :
           \/ m.kind = "obligation" /\ m.id \in ToSet(settled[RequirementId(r)].obligations)
           \/ m.kind = "question" /\ m.id \in ToSet(settled[RequirementId(r)].questions)
    BY <1>3
  <2>2. /\ ToSet(settled[RequirementId(r)].obligations) \subseteq GivenOs
        /\ ToSet(settled[RequirementId(r)].questions) \subseteq GivenQs
    BY <1>1, <1>2 DEF Backed
  <2>. QED
    BY <2>1, <2>2, PoolsAre
<1>5. IsList(fresh) /\ IsList(asked)
  BY DEF ReadShape, AreObligations
<1>6. /\ IsList(ReconciledOs)
      /\ \A x \in ToSet(ReconciledOs) :
            (x = poolOs[x.id] /\ x.id \in DOMAIN poolOs) \/ x \in ToSet(fresh)
      /\ \A m \in ToSet(all) : m.kind = "obligation" => m.id \in IdsOf(ReconciledOs)
  BY <1>3, <1>4, <1>5, InOrderHas DEF ReconciledOs, all
<1>7. /\ IsList(ReconciledQs)
      /\ \A m \in ToSet(all) : m.kind = "question" => m.id \in IdsOf(ReconciledQs)
  BY <1>3, <1>4, <1>5, InOrderHas DEF ReconciledQs, all
<1>8. ASSUME NEW o \in ToSet(ReconciledOs)
      PROVE  \/ o \in ToSet(fresh)
             \/ \E id \in DOMAIN plan.carried : o \in ToSet(plan.carried[id].obligations)
  <2>1. CASE o = poolOs[o.id] /\ o.id \in DOMAIN poolOs
    <3>1. \/ \E c \in DOMAIN CarriedOf("obligations") : o \in ToSet(CarriedOf("obligations")[c])
          \/ o \in ToSet(fresh)
      BY <2>1, PoolHas
    <3>2. DOMAIN CarriedOf("obligations") = DOMAIN plan.carried
          /\ \A c \in DOMAIN plan.carried : CarriedOf("obligations")[c] = plan.carried[c].obligations
      BY DEF CarriedOf
    <3>. QED
      BY <3>1, <3>2
  <2>. QED
    BY <1>6, <1>8, <2>1
<1>9. AreObligations(ReconciledOs)
  BY <1>6, <1>8 DEF ReadShape, AreObligations, IsRecord
<1>10. ASSUME NEW r \in ToSet(Requirements),
              NEW id \in ToSet(settled[RequirementId(r)].obligations)
                           \cup ToSet(settled[RequirementId(r)].questions)
       PROVE  \/ id \in IdsOf(ReconciledQs)
              \/ /\ id \in IdsOf(ReconciledOs)
                 /\ \E q \in ToSet(Requirements) :
                       id \in ToSet(settled[RequirementId(q)].obligations)
  <2>1. id \in IdsOf(all)
    BY <1>3
  <2>2. PICK m \in ToSet(all) : m.id = id
    BY <2>1, IdsAre
  <2>3. PICK q \in ToSet(Requirements) :
           \/ m.kind = "obligation" /\ m.id \in ToSet(settled[RequirementId(q)].obligations)
           \/ m.kind = "question" /\ m.id \in ToSet(settled[RequirementId(q)].questions)
    BY <1>3
  <2>. QED
    BY <1>6, <1>7, <2>2, <2>3
<1>. QED
  BY <1>2, <1>7, <1>8, <1>9, <1>10

\* A decomposition that comes to be is put together of these.
LEMMA Reconciling ==
    ASSUME RunShape, Reconcile
    PROVE  \/ made' = made /\ step' \in Outcomes
           \/ /\ FirstFault(Requirements) = "none" /\ step' = "linking"
              /\ made' = [obligations |-> ReconciledOs, questions |-> ReconciledQs,
                          dispositions |-> settled,
                          records |-> Records(Requirements, ReconciledOs, ReconciledQs),
                          removed |-> plan.removed]
<1>1. CASE FirstFault(Requirements) # "none"
  BY <1>1, FaultsAreOutcomes DEF Reconcile, Outcomes
<1>2. CASE FirstFault(Requirements) = "none"
  BY <1>2 DEF Reconcile, ReconciledOs, ReconciledQs, CarriedOf
<1>. QED
  BY <1>1, <1>2

\* The decomposition is put together.
LEMMA ReconciledShape ==
    ASSUME RunShape, ReadShape, Reconcile
    PROVE  ReadShape'
<1>1. /\ plan' = NoPlan /\ fresh' = <<>> /\ asked' = <<>> /\ settled' = <<>> /\ UNCHANGED ledger
  BY DEF Reconcile
<1>2. IsMade(made')
  <2>1. CASE made' = made
    BY <2>1 DEF ReadShape
  <2>2. CASE /\ FirstFault(Requirements) = "none" /\ step' = "linking"
             /\ made' = [obligations |-> ReconciledOs, questions |-> ReconciledQs,
                         dispositions |-> settled,
                         records |-> Records(Requirements, ReconciledOs, ReconciledQs),
                         removed |-> plan.removed]
    <3>1. /\ made'.obligations = ReconciledOs /\ made'.questions = ReconciledQs
          /\ made'.dispositions = settled
          /\ made'.records = Records(Requirements, ReconciledOs, ReconciledQs)
          /\ MadeFields \subseteq DOMAIN made'
      BY <2>2 DEF MadeFields
    <3>2. AreObligations(ReconciledOs) /\ IsList(ReconciledQs)
      BY <2>2, ReconciledHas
    <3>3. \A id \in DOMAIN settled : IsAccount(settled[id])
      BY DEF ReadShape, Backed
    <3>4. \A r \in ToSet(Requirements) : IsAccount(settled[RequirementId(r)])
      BY <2>2, <3>3, NoFault
    <3>5. /\ IsList(made'.records) /\ \A record \in ToSet(made'.records) : IsRecord(record)
      BY <3>1, <3>2, <3>4, RecordsAre
    <3>. QED
      BY <3>1, <3>2, <3>3, <3>5 DEF IsMade
  <2>. QED
    BY <2>1, <2>2, Reconciling
<1>. QED
  BY <1>1, <1>2, Emptied DEF ReadShape, NoPlan, AreObligations

\* What linking decides is about pairs of the obligations.
Linked(decisions) ==
    LET survivor == Survivors(made.obligations, Confirmed(decisions))
    IN  /\ merges' = decisions
        /\ made' = [made EXCEPT !.obligations = MergedObligations(made.obligations, survivor),
                                !.dispositions = Relinked(made.dispositions, survivor)]
        /\ \A d \in decisions : \E pair \in Pairs(made.obligations, Far) :
              d.pair = Asked(made.obligations, pair)

\* Linking leaves it alone, or merges it along what was decided.
LEMMA LinkingDecides ==
    ASSUME Link
    PROVE  UNCHANGED <<made, merges>> \/ \E decisions : Linked(decisions)
<1> DEFINE os == made.obligations
           pairs == Pairs(os, Far)
           stored == IF Readable(run.from) THEN Entry(run.from).decisions ELSE {}
           unasked == Unasked(os, pairs, stored)
           onFile == OnFile(os, pairs, stored)
           given(answer) == {pair \in DOMAIN answer : answer[pair] # "none"}
           decisions(answer) == onFile \cup {[pair |-> Asked(os, pair), same |-> answer[pair] = "same"] :
                                               pair \in given(answer)}
<1>1. CASE Len(os) < 2
  BY <1>1 DEF Link
<1>2. CASE ~(Len(os) < 2)
  <2>1. PICK answer \in [unasked -> {"same", "different", "none"}] :
           LET survivor == Survivors(os, Confirmed(decisions(answer)))
           IN  /\ merges' = decisions(answer)
               /\ made' = [made EXCEPT !.obligations = MergedObligations(os, survivor),
                                       !.dispositions = Relinked(@, survivor)]
    BY <1>2 DEF Link
  <2>2. \A d \in onFile : \E pair \in pairs : d.pair = Asked(os, pair)
    BY DEF OnFile
  <2>3. \A pair \in given(answer) : pair \in pairs
    BY DEF Unasked
  <2>4. \A d \in decisions(answer) : \E pair \in pairs : d.pair = Asked(os, pair)
    BY <2>2, <2>3
  <2>. QED
    BY <2>1, <2>4 DEF Linked
<1>. QED
  BY <1>1, <1>2

\* A confirmed pair is two obligations of which a decision says they are the same.
LEMMA ConfirmedAre ==
    ASSUME NEW decisions, Linked(decisions)
    PROVE  \A pair \in Confirmed(decisions) :
              /\ pair \subseteq IdsOf(made.obligations)
              /\ \E d \in decisions : \E places \in Pairs(made.obligations, Far) :
                    /\ d.same /\ d.pair = Asked(made.obligations, places)
                    /\ pair = {made.obligations[i].id : i \in places}
<1> SUFFICES ASSUME NEW pair \in Confirmed(decisions)
             PROVE  /\ pair \subseteq IdsOf(made.obligations)
                    /\ \E d \in decisions : \E places \in Pairs(made.obligations, Far) :
                          /\ d.same /\ d.pair = Asked(made.obligations, places)
                          /\ pair = {made.obligations[i].id : i \in places}
  OBVIOUS
<1>1. PICK d \in decisions : d.same /\ pair = {f[1] : f \in d.pair}
  BY DEF Confirmed
<1>2. PICK places \in Pairs(made.obligations, Far) : d.pair = Asked(made.obligations, places)
  BY DEF Linked
<1>3. pair = {made.obligations[i].id : i \in places}
  <2>1. d.pair = {Fingerprint(made.obligations[i]) : i \in places}
    BY <1>2 DEF Asked
  <2>2. \A i \in places : Fingerprint(made.obligations[i])[1] = made.obligations[i].id
    BY DEF Fingerprint
  <2>. QED
    BY <1>1, <2>1, <2>2
<1>4. places \subseteq DOMAIN made.obligations
  BY DEF Pairs, kSubset
<1>5. \A i \in places : made.obligations[i].id \in IdsOf(made.obligations)
  BY <1>4 DEF IdsOf
<1>6. pair \subseteq IdsOf(made.obligations)
  BY <1>3, <1>5
<1>. QED
  BY <1>1, <1>2, <1>3, <1>6

\* What linking does to each part.
LEMMA LinkedHas ==
    ASSUME ReadShape, NEW decisions, Linked(decisions)
    PROVE  LET os == made.obligations
               survivor == Survivors(os, Confirmed(decisions))
           IN  /\ made'.obligations = MergedObligations(os, survivor)
               /\ made'.dispositions = Relinked(made.dispositions, survivor)
               /\ made'.questions = made.questions /\ made'.records = made.records
               /\ made'.removed = made.removed /\ MadeFields \subseteq DOMAIN made'
               /\ DOMAIN survivor = IdsOf(os)
               /\ \A id \in IdsOf(os) :
                     /\ survivor[id] \in IdsOf(made'.obligations)
                     /\ survivor[id] # id => {id, survivor[id]} \in Confirmed(decisions)
<1> DEFINE os == made.obligations
           survivor == Survivors(os, Confirmed(decisions))
<1>1. IsMade(made)
  BY DEF ReadShape
<1>2. /\ made'.obligations = MergedObligations(os, survivor)
      /\ made'.dispositions = Relinked(made.dispositions, survivor)
      /\ made'.questions = made.questions /\ made'.records = made.records
      /\ made'.removed = made.removed /\ MadeFields \subseteq DOMAIN made'
  BY <1>1 DEF Linked, IsMade, MadeFields
<1>3. \A pair \in Confirmed(decisions) : pair \subseteq IdsOf(os)
  BY ConfirmedAre
<1>4. /\ DOMAIN survivor = IdsOf(os)
      /\ \A id \in IdsOf(os) :
            /\ survivor[id] \in IdsOf(os) /\ survivor[survivor[id]] = survivor[id]
            /\ survivor[id] # id => {id, survivor[id]} \in Confirmed(decisions)
  BY <1>1, <1>3, SurvivorsAre DEF IsMade, AreObligations
<1> HIDE DEF survivor
<1>5. IdsOf(made'.obligations) = {id \in IdsOf(os) : survivor[id] = id}
  BY <1>1, <1>2, MergedHas DEF IsMade
<1>. QED
  BY <1>2, <1>4, <1>5 DEF survivor

\* Obligations are merged.
LEMMA LinkedShape ==
    ASSUME ReadShape, Link
    PROVE  ReadShape'
<1>1. UNCHANGED <<plan, fresh, asked, settled, ledger>>
  BY DEF Link
<1>2. IsMade(made')
  <2>1. CASE UNCHANGED <<made, merges>>
    BY <2>1 DEF ReadShape
  <2>2. CASE \E decisions : Linked(decisions)
    <3>1. PICK decisions : Linked(decisions)
      BY <2>2
    <3> DEFINE survivor == Survivors(made.obligations, Confirmed(decisions))
    <3>2. /\ made'.obligations = MergedObligations(made.obligations, survivor)
          /\ made'.dispositions = Relinked(made.dispositions, survivor)
          /\ made'.questions = made.questions /\ made'.records = made.records
          /\ MadeFields \subseteq DOMAIN made'
      BY <3>1, LinkedHas
    <3>3. IsMade(made)
      BY DEF ReadShape
    <3> HIDE DEF survivor
    <3>4. AreObligations(made'.obligations)
      BY <3>2, <3>3, MergedHas DEF IsMade
    <3>5. \A id \in DOMAIN made'.dispositions : IsAccount(made'.dispositions[id])
      <4>1. DOMAIN made'.dispositions = DOMAIN made.dispositions
        BY <3>2 DEF Relinked
      <4>. QED
        BY <3>2, <3>3, <4>1, RelinkedHas DEF IsMade
    <3>. QED
      BY <3>2, <3>3, <3>4, <3>5 DEF IsMade
  <2>. QED
    BY <2>1, <2>2, LinkingDecides
<1>. QED
  BY <1>1, <1>2 DEF ReadShape, GivenOs, GivenQs, CarriedIds

\* What was read keeps its shape.
LEMMA ReadShapeKept ==
    ASSUME Inv, ReadShape, [Next]_vars
    PROVE  ReadShape'
<1>1. RunShape
  BY DEF Inv
<1>2. CASE NothingRead
  BY <1>2, EntriesShaped, NothingIsShaped
<1>3. CASE UNCHANGED readVars
  BY <1>3, EntriesShaped DEF readVars, ReadShape, GivenOs, GivenQs, CarriedIds
<1>. QED
  BY <1>1, <1>2, <1>3, PlannedShape, AskedShape, DividedShape, SpanShape, ReconciledShape,
     LinkedShape, ReadingChanges

\* It always holds.
LEMMA ReadShapeHolds == Spec => []ReadShape
<1>1. Init => ReadShape
  BY Emptied DEF Init, InitDecompose, ReadShape, NoPlan, Nothing, IsMade, MadeFields, AreObligations
<1>2. ReadShape /\ Inv /\ [Next]_vars => ReadShape'
  BY ReadShapeKept
<1>. QED
  BY <1>1, <1>2, InvHolds, PTL DEF Spec

(***************************************************************************)
(* Every requirement is accounted for.                                     *)
(***************************************************************************)

\* A disposition that has what it claims, and names what there is.
HasItsClaim(disposition) ==
    CASE disposition.tag = "yielded" -> disposition.obligations # <<>>
      [] disposition.tag = "open_question" -> disposition.questions # <<>>
      [] disposition.tag = "no_obligation" -> disposition.reason

Accounted(disposition, os, qs) ==
    /\ ToSet(disposition.obligations) \subseteq os
    /\ ToSet(disposition.questions) \subseteq qs
    /\ HasItsClaim(disposition)

DerivedIds == UNION {IdsOf(record.obligations) : record \in ToSet(made.records)}
MadeIds == IdsOf(made.obligations) \cup IdsOf(made.questions)
AskedIds == IdsOf(made.questions) \cup DerivedIds

AllAccounted ==
    made # Nothing =>
        \A r \in ToSet(Requirements) :
            /\ RequirementId(r) \in DOMAIN made.dispositions
            /\ Accounted(made.dispositions[RequirementId(r)], MadeIds, AskedIds)

\* A disposition of which nothing is lost has what it claims.
LEMMA StillHasItsClaim ==
    ASSUME NEW before, NEW after, before.tag \in Tags, HasItsClaim(before), after.tag = before.tag,
           after.questions = before.questions, after.reason = before.reason,
           before.obligations # <<>> => after.obligations # <<>>
    PROVE  HasItsClaim(after)
<1>1. CASE before.tag = "yielded"
  BY <1>1 DEF HasItsClaim
<1>2. CASE before.tag = "open_question"
  BY <1>2 DEF HasItsClaim
<1>3. CASE before.tag = "no_obligation"
  BY <1>3 DEF HasItsClaim
<1>. QED
  BY <1>1, <1>2, <1>3 DEF Tags

\* A disposition that is not at fault has what it claims.
LEMMA FaultlessHasItsClaim ==
    ASSUME NEW id, settled[id].tag \in Tags, Fault(id) = "none"
    PROVE  HasItsClaim(settled[id])
<1>1. CASE settled[id].tag = "yielded"
  BY <1>1 DEF HasItsClaim, Fault
<1>2. CASE settled[id].tag = "open_question"
  BY <1>2 DEF HasItsClaim, Fault
<1>3. CASE settled[id].tag = "no_obligation"
  BY <1>3 DEF HasItsClaim, Fault
<1>. QED
  BY <1>1, <1>2, <1>3 DEF Tags

\* An obligation that a requirement names is on its record.
LEMMA RecordedIds ==
    ASSUME RunShape, ReadShape, FirstFault(Requirements) = "none",
           NEW r \in ToSet(Requirements), NEW id \in ToSet(settled[RequirementId(r)].obligations),
           id \in IdsOf(ReconciledOs)
    PROVE  \E record \in ToSet(Records(Requirements, ReconciledOs, ReconciledQs)) :
              id \in IdsOf(record.obligations)
<1> DEFINE records == Records(Requirements, ReconciledOs, ReconciledQs)
<1>1. PICK n \in DOMAIN Requirements : r = Requirements[n]
  BY DEF ToSet
<1>2. AreObligations(ReconciledOs)
  BY ReconciledHas
<1>3. \A q \in ToSet(Requirements) : IsAccount(settled[RequirementId(q)])
  BY ReconciledHas DEF ReadShape, Backed
<1>4. /\ DOMAIN records = DOMAIN Requirements
      /\ records[n].obligations = Picked(settled[RequirementId(r)].obligations, ReconciledOs)
  BY <1>1, <1>2, <1>3, RecordsAre
<1> HIDE DEF records
<1>5. id \in IdsOf(records[n].obligations)
  BY <1>3, <1>4, PickedHas DEF IsAccount
<1>6. records[n] \in ToSet(records)
  BY <1>4 DEF ToSet
<1>. QED
  BY <1>5, <1>6 DEF records

\* The decomposition accounts for every requirement when it is put together.
LEMMA ReconciledAccounted ==
    ASSUME RunShape, ReadShape, AllAccounted, Reconcile
    PROVE  AllAccounted'
<1>1. Requirements' = Requirements
  BY DEF Reconcile, Requirements
<1>2. CASE made' = made
  BY <1>1, <1>2 DEF AllAccounted, MadeIds, AskedIds, DerivedIds
<1>3. CASE /\ FirstFault(Requirements) = "none" /\ step' = "linking"
           /\ made' = [obligations |-> ReconciledOs, questions |-> ReconciledQs,
                       dispositions |-> settled,
                       records |-> Records(Requirements, ReconciledOs, ReconciledQs),
                       removed |-> plan.removed]
  <2> DEFINE records == Records(Requirements, ReconciledOs, ReconciledQs)
  <2>1. /\ MadeIds' = IdsOf(ReconciledOs) \cup IdsOf(ReconciledQs) /\ made'.dispositions = settled
        /\ AskedIds' = IdsOf(ReconciledQs)
                          \cup UNION {IdsOf(record.obligations) : record \in ToSet(records)}
    BY <1>3 DEF MadeIds, AskedIds, DerivedIds
  <2>2. \A r \in ToSet(Requirements) :
           RequirementId(r) \in DOMAIN settled /\ IsAccount(settled[RequirementId(r)])
    BY <1>3, ReconciledHas DEF ReadShape, Backed
  <2>3. ASSUME NEW r \in ToSet(Requirements), NEW id \in ToSet(settled[RequirementId(r)].obligations),
               id \in IdsOf(ReconciledOs)
        PROVE  \E record \in ToSet(records) : id \in IdsOf(record.obligations)
    BY <1>3, <2>3, RecordedIds
  <2> HIDE DEF records
  <2>4. ASSUME NEW r \in ToSet(Requirements)
        PROVE  /\ RequirementId(r) \in DOMAIN settled
               /\ Accounted(settled[RequirementId(r)], MadeIds', AskedIds')
    <3> DEFINE disposition == settled[RequirementId(r)]
    <3>1. /\ ToSet(disposition.obligations) \subseteq MadeIds'
          /\ \A id \in ToSet(disposition.questions) :
                \/ id \in IdsOf(ReconciledQs)
                \/ /\ id \in IdsOf(ReconciledOs)
                   /\ \E q \in ToSet(Requirements) :
                         id \in ToSet(settled[RequirementId(q)].obligations)
      BY <1>3, <2>1, ReconciledHas
    <3>2. ToSet(disposition.questions) \subseteq AskedIds'
      BY <2>1, <2>3, <3>1
    <3>3. Fault(RequirementId(r)) = "none" /\ RequirementId(r) \in DOMAIN settled
      BY <1>3, NoFault
    <3>4. HasItsClaim(disposition)
      BY <2>2, <3>3, FaultlessHasItsClaim DEF IsAccount
    <3>. QED
      BY <3>1, <3>2, <3>3, <3>4 DEF Accounted
  <2>. QED
    BY <1>1, <2>1, <2>4 DEF AllAccounted
<1>. QED
  BY <1>2, <1>3, Reconciling

\* And still does when obligations are merged.
LEMMA LinkedAccounted ==
    ASSUME ReadShape, AllAccounted, Link
    PROVE  AllAccounted'
<1>1. Requirements' = Requirements
  BY DEF Link, Requirements
<1>2. CASE UNCHANGED <<made, merges>>
  BY <1>1, <1>2 DEF AllAccounted, MadeIds, AskedIds, DerivedIds
<1>3. ASSUME NEW decisions, Linked(decisions) PROVE AllAccounted'
  <2> DEFINE os == made.obligations
             survivor == Survivors(os, Confirmed(decisions))
  <2>1. /\ made'.dispositions = Relinked(made.dispositions, survivor)
        /\ made'.questions = made.questions /\ made'.records = made.records
        /\ DOMAIN survivor = IdsOf(os)
        /\ \A id \in IdsOf(os) : survivor[id] \in IdsOf(made'.obligations)
    BY <1>3, LinkedHas
  <2> HIDE DEF survivor
  <2>2. CASE made = Nothing
    <3>1. os = <<>> /\ Len(os) < 2
      BY <2>2 DEF Nothing
    <3>. QED
      BY <1>2, <3>1 DEF Link
  <2>3. CASE made # Nothing
    <3>1. ASSUME NEW r \in ToSet(Requirements)
          PROVE  /\ RequirementId(r) \in DOMAIN made'.dispositions
                 /\ Accounted(made'.dispositions[RequirementId(r)], MadeIds', AskedIds')
      <4> DEFINE id == RequirementId(r)
                 before == made.dispositions[id]
                 after == made'.dispositions[id]
      <4>1. id \in DOMAIN made.dispositions /\ Accounted(before, MadeIds, AskedIds)
        BY <2>3 DEF AllAccounted
      <4>2. IsAccount(before)
        BY <4>1 DEF ReadShape, IsMade
      <4>3. /\ DOMAIN made'.dispositions = DOMAIN made.dispositions
            /\ IsAccount(after) /\ after.tag = before.tag /\ after.reason = before.reason
            /\ after.questions = before.questions
            /\ ToSet(after.obligations) =
                  {Through(survivor, i) : i \in ToSet(before.obligations)}
        BY <2>1, <4>1, <4>2, RelinkedHas
      <4> HIDE DEF before, after
      <4>4. \A i \in MadeIds : Through(survivor, i) \in MadeIds'
        BY <2>1 DEF MadeIds, Through
      <4>5. ToSet(after.obligations) \subseteq MadeIds'
        BY <4>1, <4>3, <4>4 DEF Accounted
      <4>6. ToSet(after.questions) \subseteq AskedIds'
        BY <2>1, <4>1, <4>3 DEF Accounted, AskedIds, DerivedIds
      <4>7. before.obligations # <<>> => after.obligations # <<>>
        <5>1. before.obligations # <<>> => ToSet(before.obligations) # {}
          BY <4>2, Emptied DEF IsAccount
        <5>2. ToSet(before.obligations) # {} => ToSet(after.obligations) # {}
          BY <4>3
        <5>. QED
          BY <5>1, <5>2, Emptied
      <4>8. HasItsClaim(after)
        BY <4>1, <4>2, <4>3, <4>7, StillHasItsClaim DEF Accounted, IsAccount
      <4>9. Accounted(after, MadeIds', AskedIds')
        BY <4>5, <4>6, <4>8 DEF Accounted
      <4>. QED
        BY <4>1, <4>3, <4>9 DEF after
    <3>. QED
      BY <1>1, <3>1 DEF AllAccounted
  <2>. QED
    BY <2>2, <2>3
<1>. QED
  BY <1>2, <1>3, LinkingDecides

\* Which is what is promised.
LEMMA AccountedIs == AllAccounted => EveryRequirementIsAccountedFor
<1>1. \A d : HasItsClaim(d) = (CASE d.tag = "yielded" -> d.obligations # <<>>
                                [] d.tag = "open_question" -> d.questions # <<>>
                                [] d.tag = "no_obligation" -> d.reason)
  BY DEF HasItsClaim
<1>. QED
  BY <1>1 DEF AllAccounted, Accounted, HasItsClaim, MadeIds, AskedIds, DerivedIds,
              EveryRequirementIsAccountedFor

\* A decomposition accounts for every requirement of its file, whatever was
\* answered, carried or merged.
THEOREM RequirementsAccounted == Spec => []EveryRequirementIsAccountedFor
<1>1. Init => AllAccounted
  BY DEF Init, InitDecompose, AllAccounted
<1>2. AllAccounted /\ ReadShape /\ Inv /\ [Next]_vars => AllAccounted'
  <2> SUFFICES ASSUME AllAccounted, ReadShape, Inv, [Next]_vars PROVE AllAccounted'
    OBVIOUS
  <2>1. CASE NothingRead
    BY <2>1 DEF NothingRead, AllAccounted
  <2>2. CASE UNCHANGED <<run, made>>
    BY <2>2 DEF AllAccounted, Requirements, MadeIds, AskedIds, DerivedIds
  <2>3. UNCHANGED readVars => UNCHANGED <<run, made>>
    BY DEF readVars
  <2>4. PlanCarry \/ AskAbout \/ DecideSpans \/ AskSpan => UNCHANGED <<run, made>>
    BY DEF PlanCarry, AskAbout, DecideSpans, AskSpan
  <2>. QED
    BY <2>1, <2>2, <2>3, <2>4, ReadingChanges, ReconciledAccounted, LinkedAccounted DEF Inv
<1>. QED
  BY <1>1, <1>2, AccountedIs, ReadShapeHolds, InvHolds, PTL DEF Spec

(***************************************************************************)
(* Ids.                                                                    *)
(***************************************************************************)

\* What leads from one value of a set to another, N times.
Leads(follow, N, V) == \A n \in 1..N : \A x \in V : follow[n][x] \in V
Follows(f, start, follow, N) == f[0] = start /\ \A n \in 1..N : f[n] = follow[n][f[n - 1]]

\* A sequence of values, each got from the one before, exists.
LEMMA Iterating ==
    ASSUME NEW N \in Nat, NEW V, NEW start \in V, NEW follow, Leads(follow, N, V)
    PROVE  \E f \in [0..N -> V] : Follows(f, start, follow, N)
<1> DEFINE Upto(n) == {f \in [0..n -> V] : f[0] = start /\ \A m \in 1..n : f[m] = follow[m][f[m - 1]]}
           T == {n \in Nat : n \in 0..N => Upto(n) # {}}
<1>1. 0 \in T
  <2> DEFINE f == [n \in 0..0 |-> start]
  <2>1. f \in [0..0 -> V] /\ f[0] = start /\ 1..0 = {}
    OBVIOUS
  <2> HIDE DEF f
  <2>2. f \in Upto(0)
    BY <2>1
  <2>. QED
    BY <2>2
<1>2. ASSUME NEW n \in Nat, n \in T PROVE n + 1 \in T
  <2>1. CASE n + 1 \in 0..N
    <3>1. n \in 0..N /\ n + 1 \in 1..N
      BY <2>1
    <3>2. PICK f : f \in Upto(n)
      BY <1>2, <3>1
    <3>3. /\ f \in [0..n -> V] /\ f[0] = start
          /\ \A m \in 1..n : f[m] = follow[m][f[m - 1]]
      BY <3>2
    <3> DEFINE g == [m \in 0..(n + 1) |-> IF m = n + 1 THEN follow[n + 1][f[n]] ELSE f[m]]
    <3>4. f[n] \in V
      BY <3>1, <3>3
    <3>5. follow[n + 1][f[n]] \in V
      BY <3>1, <3>4 DEF Leads
    <3>6. \A m \in 0..(n + 1) : m # n + 1 => m \in 0..n
      OBVIOUS
    <3>7. g \in [0..(n + 1) -> V]
      BY <3>3, <3>5, <3>6
    <3>8. g[n + 1] = follow[n + 1][f[n]] /\ \A m \in 0..n : g[m] = f[m]
      <4>1. n + 1 \in 0..(n + 1) /\ \A m \in 0..n : m \in 0..(n + 1) /\ m # n + 1
        OBVIOUS
      <4>. QED
        BY <4>1
    <3> HIDE DEF g
    <3>9. ASSUME NEW m \in 1..(n + 1) PROVE g[m] = follow[m][g[m - 1]]
      <4>1. CASE m = n + 1
        <5>1. m - 1 = n /\ n \in 0..n
          BY <4>1
        <5>. QED
          BY <3>8, <4>1, <5>1
      <4>2. CASE m # n + 1
        <5>1. m \in 1..n /\ m \in 0..n /\ m - 1 \in 0..n
          BY <4>2
        <5>. QED
          BY <3>3, <3>8, <5>1
      <4>. QED
        BY <4>1, <4>2
    <3>10. g[0] = start
      <4>1. 0 \in 0..n
        OBVIOUS
      <4>. QED
        BY <3>3, <3>8, <4>1
    <3>11. g \in Upto(n + 1)
      BY <3>7, <3>9, <3>10
    <3> HIDE DEF Upto
    <3>12. Upto(n + 1) # {}
      BY <3>11
    <3>. QED
      BY <3>12
  <2>2. CASE n + 1 \notin 0..N
    BY <2>2
  <2>. QED
    BY <2>1, <2>2
<1>3. Nat \subseteq T
  <2> HIDE DEF T
  <2>. QED
    BY <1>1, <1>2, Counting
<1>4. Upto(N) # {}
  <2>1. N \in T /\ N \in 0..N
    BY <1>3
  <2> HIDE DEF Upto
  <2>. QED
    BY <2>1
<1>5. PICK f : f \in Upto(N)
  BY <1>4
<1>. QED
  BY <1>5 DEF Follows

\* An id has a number that makes it unlike any finite number of ids.
LEMMA UniqueIs ==
    ASSUME NEW candidate, IsList(candidate), NEW seen, IsFiniteSet(seen)
    PROVE  /\ Unique(candidate, seen) \notin seen
           /\ \/ Unique(candidate, seen) = candidate
              \/ \E k \in Nat : Unique(candidate, seen) = Append(candidate, k)
<1>1. CASE candidate \notin seen
  BY <1>1 DEF Unique
<1>2. CASE candidate \in seen
  <2> DEFINE numbers == 2..(Cardinality(seen) + 2)
             free == {k \in numbers : Append(candidate, k) \notin seen}
             with == [k \in numbers |-> Append(candidate, k)]
  <2>1. Cardinality(seen) \in Nat
    BY FS_CardinalityType
  <2>2. \A j, k \in Nat : Append(candidate, j) = Append(candidate, k) => j = k
    <3>1. candidate \in Seq(ToSet(candidate) \cup Nat)
      BY DEF IsList
    <3> SUFFICES ASSUME NEW j \in Nat, NEW k \in Nat, Append(candidate, j) = Append(candidate, k)
                 PROVE  j = k
      OBVIOUS
    <3>2. Append(candidate, j)[Len(candidate) + 1] = j /\ Append(candidate, k)[Len(candidate) + 1] = k
      BY <3>1
    <3>. QED
      BY <3>2
  <2>3. free # {}
    <3> SUFFICES ASSUME free = {} PROVE FALSE
      OBVIOUS
    <3>1. IsFiniteSet(numbers) /\ Cardinality(numbers) = Cardinality(seen) + 1
      BY <2>1, FS_Interval
    <3>2. with \in [numbers -> seen]
      OBVIOUS
    <3>3. \A j, k \in numbers : with[j] = with[k] => j = k
      <4>1. \A k \in numbers : k \in Nat /\ with[k] = Append(candidate, k)
        BY <2>1
      <4> HIDE DEF with, numbers
      <4>. QED
        BY <2>2, <4>1
    <3> HIDE DEF numbers, with
    <3>4. with \in Injection(numbers, seen)
      BY <3>2, <3>3 DEF Injection, IsInjective
    <3>5. Cardinality(numbers) <= Cardinality(seen)
      BY <3>1, <3>4, FS_Injection DEF ExistsInjection
    <3>. QED
      BY <2>1, <3>1, <3>5
  <2>4. PICK k \in free : \A j \in free : k <= j
    <3>1. free \subseteq Nat
      BY <2>1
    <3> HIDE DEF free
    <3>. QED
      BY <2>3, <3>1, Least
  <2>5. \A j \in 2..(k - 1) : Append(candidate, j) \in seen
    <3> SUFFICES ASSUME NEW j \in 2..(k - 1), Append(candidate, j) \notin seen PROVE FALSE
      OBVIOUS
    <3>1. j \in numbers /\ ~(k <= j)
      BY <2>1
    <3>2. j \in free
      BY <3>1
    <3> HIDE DEF free
    <3>. QED
      BY <2>4, <3>1, <3>2
  <2> DEFINE the == CHOOSE i \in numbers : /\ Append(candidate, i) \notin seen
                                           /\ \A j \in 2..(i - 1) : Append(candidate, j) \in seen
  <2>6. the \in numbers /\ Append(candidate, the) \notin seen
    <3>1. k \in numbers /\ Append(candidate, k) \notin seen
      BY <2>4
    <3>. QED
      BY <2>5, <3>1
  <2>7. Unique(candidate, seen) = Append(candidate, the)
    BY <1>2 DEF Unique
  <2>8. the \in Nat
    BY <2>1, <2>6
  <2> HIDE DEF the
  <2>. QED
    BY <2>6, <2>7, <2>8
<1>. QED
  BY <1>1, <1>2

\* Ids that are given are as many as were asked for, none is taken, and no two
\* are the same.
AreGiven(ids, n, U, taken) ==
    /\ ids \in Seq(U) /\ Len(ids) = n
    /\ \A i \in 1..n : ids[i] \notin taken
    /\ \A i, j \in 1..n : ids[i] = ids[j] => i = j

\* One more id that is not taken.
LEMMA GivenOneMore ==
    ASSUME NEW n \in Nat, NEW U, NEW taken, NEW ids, AreGiven(ids, n, U, taken),
           NEW id \in U, id \notin taken \cup ToSet(ids)
    PROVE  AreGiven(Append(ids, id), n + 1, U, taken)
<1> DEFINE more == Append(ids, id)
<1>1. ids \in Seq(U) /\ Len(ids) = n /\ DOMAIN ids = 1..n
  BY DEF AreGiven
<1>2. /\ more \in Seq(U) /\ Len(more) = n + 1 /\ more[n + 1] = id
      /\ \A i \in 1..n : more[i] = ids[i]
  BY <1>1
<1>3. \A i \in 1..n : ids[i] \in ToSet(ids)
  BY <1>1 DEF ToSet
<1> HIDE DEF more
<1>4. ASSUME NEW i \in 1..(n + 1) PROVE more[i] \notin taken
  BY <1>2 DEF AreGiven
<1>5. ASSUME NEW i \in 1..(n + 1), NEW j \in 1..(n + 1), more[i] = more[j] PROVE i = j
  <2>1. (i = n + 1 \/ i \in 1..n) /\ (j = n + 1 \/ j \in 1..n)
    OBVIOUS
  <2>. QED
    BY <1>2, <1>3, <1>5, <2>1 DEF AreGiven
<1>. QED
  BY <1>2, <1>4, <1>5 DEF AreGiven, more

\* As many ids are minted as there are candidates, none taken and no two the same.
LEMMA MintedAre ==
    ASSUME NEW candidates, IsList(candidates), \A c \in ToSet(candidates) : IsList(c),
           NEW taken, IsFiniteSet(taken)
    PROVE  \E U : AreGiven(Minted(candidates, taken), Len(candidates), U, taken)
<1> DEFINE L == Len(candidates)
           U == ToSet(candidates) \cup {Append(c, k) : c \in ToSet(candidates), k \in Nat}
           one(n, before) == Append(before, Unique(candidates[n], taken \cup ToSet(before)))
           next == [n \in 1..L |-> [before \in Seq(U) |-> one(n, before)]]
           minted == CHOOSE f : f = [n \in 0..L |-> IF n = 0 THEN <<>> ELSE one(n, f[n - 1])]
<1>1. L \in Nat /\ DOMAIN candidates = 1..L /\ \A n \in 1..L : candidates[n] \in ToSet(candidates)
  BY Listed DEF IsList, ToSet
<1>2. ASSUME NEW n \in 1..L, NEW before \in Seq(U)
      PROVE  /\ Unique(candidates[n], taken \cup ToSet(before)) \in U
             /\ Unique(candidates[n], taken \cup ToSet(before)) \notin taken \cup ToSet(before)
             /\ one(n, before) \in Seq(U)
  <2> HIDE DEF U, next, minted
  <2>1. IsFiniteSet(taken \cup ToSet(before))
    <3>1. IsFiniteSet(ToSet(before))
      BY Listed, ListsAreFinite
    <3>. QED
      BY <3>1, FS_Union
  <2>2. candidates[n] \in ToSet(candidates) /\ IsList(candidates[n])
    BY <1>1
  <2> DEFINE candidate == candidates[n]
             seen == taken \cup ToSet(before)
             id == Unique(candidate, seen)
  <2>3. /\ id \notin taken \cup ToSet(before)
        /\ id = candidates[n] \/ \E k \in Nat : id = Append(candidates[n], k)
    <3>1. IsList(candidate) /\ IsFiniteSet(seen)
      BY <2>1, <2>2
    <3> HIDE DEF candidate, seen
    <3>2. /\ id \notin seen
          /\ id = candidate \/ \E k \in Nat : id = Append(candidate, k)
      BY <3>1, UniqueIs
    <3>. QED
      BY <3>2 DEF candidate, seen
  <2> HIDE DEF id
  <2>4. id \in U
    BY <2>2, <2>3 DEF U
  <2> HIDE DEF U
  <2>5. Append(before, id) \in Seq(U)
    BY <2>4
  <2>. QED
    BY <2>3, <2>4, <2>5 DEF id
<1> HIDE DEF U
<1>3. /\ \A n \in 1..L : \A before \in Seq(U) : next[n][before] \in Seq(U)
      /\ \A n \in 1..L : \A before \in Seq(U) : next[n][before] = one(n, before)
  <2>1. \A n \in 1..L : \A before \in Seq(U) : one(n, before) \in Seq(U)
    BY <1>2
  <2> HIDE DEF one
  <2>. QED
    BY <2>1
<1>4. \A n \in 1..L : \A before \in Seq(U) : next[n][before] = one(n, before)
  BY <1>3
<1> HIDE DEF next, one
<1>5. PICK f \in [0..L -> Seq(U)] : f[0] = <<>> /\ \A n \in 1..L : f[n] = next[n][f[n - 1]]
  <2> DEFINE S == Seq(U)
             first == <<>>
  <2>1. L \in Nat /\ first \in S /\ Leads(next, L, S)
    BY <1>1, <1>3 DEF Leads
  <2> HIDE DEF L, S, first, minted
  <2>2. \E f \in [0..L -> S] : Follows(f, first, next, L)
    BY <2>1, Iterating
  <2>. QED
    BY <2>2 DEF Follows, S, L, first
<1>6. f = [n \in 0..L |-> IF n = 0 THEN <<>> ELSE one(n, f[n - 1])]
  <2>1. ASSUME NEW n \in 0..L PROVE f[n] = IF n = 0 THEN <<>> ELSE one(n, f[n - 1])
    <3>1. CASE n = 0
      BY <1>5, <3>1
    <3>2. CASE n # 0
      <4>1. n \in 1..L /\ n - 1 \in 0..L
        BY <1>1, <3>2
      <4>2. f[n - 1] \in Seq(U)
        BY <1>5, <4>1
      <4>. QED
        BY <1>4, <1>5, <3>2, <4>1, <4>2
    <3>. QED
      BY <3>1, <3>2
  <2>. QED
    BY <1>5, <2>1
<1>7. minted = [n \in 0..L |-> IF n = 0 THEN <<>> ELSE one(n, minted[n - 1])]
  BY <1>6
<1>8. Minted(candidates, taken) = minted[L]
  BY DEF Minted, one
<1> HIDE DEF minted
<1> DEFINE T == {n \in Nat : n \in 0..L => AreGiven(minted[n], n, U, taken)}
<1>9. 0 \in T
  <2>1. 0 \in 0..L
    BY <1>1
  <2>2. minted[0] = <<>>
    BY <1>7, <2>1
  <2>3. AreGiven(<<>>, 0, U, taken)
    BY DEF AreGiven
  <2>. QED
    BY <2>2, <2>3
<1>10. ASSUME NEW n \in Nat, n \in T PROVE n + 1 \in T
  <2>1. CASE n + 1 \in 0..L
    <3>1. n \in 0..L /\ n + 1 \in 1..L /\ n + 1 # 0 /\ (n + 1) - 1 = n
      BY <2>1
    <3>2. AreGiven(minted[n], n, U, taken)
      BY <1>10, <3>1
    <3>3. minted[n + 1] = one(n + 1, minted[n])
      BY <1>7, <2>1, <3>1
    <3>4. minted[n] \in Seq(U)
      BY <3>2 DEF AreGiven
    <3> DEFINE id == Unique(candidates[n + 1], taken \cup ToSet(minted[n]))
    <3>5. id \in U /\ id \notin taken \cup ToSet(minted[n])
      BY <1>2, <3>1, <3>4
    <3>6. minted[n + 1] = Append(minted[n], id)
      BY <3>3 DEF one
    <3> HIDE DEF id
    <3>7. AreGiven(minted[n + 1], n + 1, U, taken)
      BY <3>2, <3>5, <3>6, GivenOneMore
    <3>. QED
      BY <3>7
  <2>2. CASE n + 1 \notin 0..L
    BY <2>2
  <2>. QED
    BY <2>1, <2>2
<1>11. Nat \subseteq T
  <2> HIDE DEF T
  <2>. QED
    BY <1>9, <1>10, Counting
<1>12. AreGiven(minted[L], L, U, taken)
  <2>1. L \in T /\ L \in 0..L
    BY <1>1, <1>11
  <2>. QED
    BY <2>1
<1>. QED
  BY <1>8, <1>12

\* Of one id there is one.
Apart(seq) == \A x, y \in ToSet(seq) : x.id = y.id => x = y

\* The obligations of one answer have ids of their own.
LEMMA MintedApart ==
    ASSUME IsList(fresh), IsList(asked), NEW text, NEW answer \in AnswersAbout(text),
           NEW r, NEW quote
    PROVE  LET os == ObligationsFrom(answer, r, quote)
           IN  Apart(os) /\ \A o \in ToSet(os) : o.id \notin IdsOf(fresh)
<1> DEFINE drafts == IF Usable(answer) /\ answer.tag = "yielded" THEN Decoded(answer.drafts) ELSE <<>>
           candidates == [n \in DOMAIN drafts |-> drafts[n].id]
           taken == IdsOf(fresh) \cup IdsOf(asked)
           ids == Minted(candidates, taken)
           os == ObligationsFrom(answer, r, quote)
<1>1. IsList(answer.drafts) /\ \A x \in ToSet(answer.drafts) : IsList(x.id)
  BY RepliesAssumption DEF AnswersAbout, Offered
<1>2. IsList(drafts) /\ ToSet(drafts) \subseteq ToSet(answer.drafts)
  BY <1>1, DecodedIsAList, Emptied
<1>3. DOMAIN os = DOMAIN drafts /\ \A n \in DOMAIN drafts : os[n].id = ids[n]
  BY DEF ObligationsFrom
<1>4. \A o \in ToSet(os) : \E n \in DOMAIN os : o = os[n]
  BY DEF ToSet
<1> HIDE DEF os, drafts
<1>5. /\ DOMAIN candidates = DOMAIN drafts /\ candidates = [n \in DOMAIN drafts |-> candidates[n]]
      /\ \A n \in DOMAIN drafts : candidates[n] = drafts[n].id /\ candidates[n] \in ToSet(candidates)
      /\ \A c \in ToSet(candidates) : \E n \in DOMAIN drafts : c = drafts[n].id
      /\ \A n \in DOMAIN drafts : drafts[n] \in ToSet(drafts)
  BY DEF ToSet
<1> HIDE DEF candidates
<1>6. IsList(candidates) /\ Len(candidates) = Len(drafts)
  BY <1>2, <1>5, Mapped
<1>7. \A c \in ToSet(candidates) : IsList(c)
  BY <1>1, <1>2, <1>5
<1>8. IsFiniteSet(taken)
  <2>1. IsList(Ids(fresh)) /\ ToSet(Ids(fresh)) = IdsOf(fresh)
    BY IdsAre
  <2>2. IsList(Ids(asked)) /\ ToSet(Ids(asked)) = IdsOf(asked)
    BY IdsAre
  <2>3. IsFiniteSet(IdsOf(fresh)) /\ IsFiniteSet(IdsOf(asked))
    BY <2>1, <2>2, ListsAreFinite
  <2>. QED
    BY <2>3, FS_Union
<1> HIDE DEF taken
<1>9. PICK U : AreGiven(ids, Len(candidates), U, taken)
  BY <1>6, <1>7, <1>8, MintedAre
<1>10. DOMAIN drafts = 1..Len(drafts)
  BY <1>2, Listed DEF IsList
<1>11. /\ \A n \in DOMAIN drafts : ids[n] \notin taken
       /\ \A n, m \in DOMAIN drafts : ids[n] = ids[m] => n = m
  BY <1>6, <1>9, <1>10 DEF AreGiven
<1> HIDE DEF ids
<1>12. Apart(os)
  BY <1>3, <1>4, <1>11 DEF Apart
<1>13. \A o \in ToSet(os) : o.id \notin IdsOf(fresh)
  BY <1>3, <1>4, <1>11 DEF taken
<1>. QED
  BY <1>12, <1>13 DEF os

\* Obligations with new ids are added.
LEMMA MoreApart ==
    ASSUME IsList(fresh), Apart(fresh), NEW os, IsList(os), Apart(os),
           \A o \in ToSet(os) : o.id \notin IdsOf(fresh), fresh' = fresh \o os
    PROVE  Apart(fresh')
<1>1. ToSet(fresh') = ToSet(fresh) \cup ToSet(os)
  BY JoinedLists
<1>2. \A o \in ToSet(fresh) : o.id \in IdsOf(fresh)
  BY IdsAre
<1>. QED
  BY <1>1, <1>2 DEF Apart

\* What was answered has ids of its own, over any number of answers.
LEMMA ApartKept ==
    ASSUME ReadShape, Apart(fresh), [Next]_vars
    PROVE  Apart(fresh')
<1>1. IsList(fresh) /\ IsList(asked)
  BY DEF ReadShape, AreObligations
<1>2. CASE fresh' = <<>>
  BY <1>2 DEF Apart, ToSet
<1>3. CASE fresh' = fresh
  BY <1>3
<1>4. CASE AskAbout
  <2>1. PICK answer \in AnswersAbout(Head(todo).text) :
           fresh' = fresh \o ObligationsFrom(answer, Head(todo), <<>>)
    BY <1>4 DEF AskAbout
  <2>. QED
    BY <1>1, <2>1, MintedApart, MoreApart, ObligationsAreAList DEF AreObligations
<1>5. CASE AskSpan
  <2>1. PICK answer \in AnswersAbout(Head(spans)) :
           fresh' = fresh \o ObligationsFrom(answer, SpanRequirement(Head(spans)), Head(spans))
    BY <1>5 DEF AskSpan
  <2>. QED
    BY <1>1, <2>1, MintedApart, MoreApart, ObligationsAreAList DEF AreObligations
<1>6. PlanCarry \/ DecideSpans \/ Link => fresh' = fresh
  BY DEF PlanCarry, DecideSpans, Link
<1>7. Reconcile \/ NothingRead => fresh' = <<>>
  BY DEF Reconcile, NothingRead
<1>8. UNCHANGED readVars => fresh' = fresh
  BY DEF readVars
<1>. QED
  BY <1>2, <1>3, <1>4, <1>5, <1>6, <1>7, <1>8, ReadingChanges

\* The obligations of a decomposition have ids of their own.
LEMMA ReconciledApart ==
    ASSUME RunShape, ReadShape, Apart(fresh), FirstFault(Requirements) = "none"
    PROVE  Apart(ReconciledOs)
<1> DEFINE all == Named(Requirements)
           pool == Pool(fresh, CarriedOf("obligations"))
<1>1. \A id \in DOMAIN settled : Backed(settled[id], GivenOs, GivenQs)
  BY DEF ReadShape
<1>2. \A r \in ToSet(Requirements) : RequirementId(r) \in DOMAIN settled
  BY NoFault
<1>3. /\ IsList(all)
      /\ \A m \in ToSet(all) :
            \E r \in ToSet(Requirements) :
               \/ m.kind = "obligation" /\ m.id \in ToSet(settled[RequirementId(r)].obligations)
               \/ m.kind = "question" /\ m.id \in ToSet(settled[RequirementId(r)].questions)
  BY <1>1, <1>2, NamedIs DEF Backed
<1> HIDE DEF all
<1>4. ASSUME NEW m \in ToSet(all), m.kind = "obligation" PROVE m.id \in DOMAIN pool
  BY <1>1, <1>2, <1>3, <1>4, PoolsAre DEF Backed
<1>5. IsList(fresh)
  BY DEF ReadShape, AreObligations
<1>6. \A x \in ToSet(ReconciledOs) :
         \/ /\ x = pool[x.id]
            /\ \E m \in ToSet(all) : m.kind = "obligation" /\ m.id = x.id
         \/ x \in ToSet(fresh) /\ x.id \notin IdsOf(all)
  BY <1>3, <1>4, <1>5, InOrderHas DEF ReconciledOs, all
<1>7. \A m \in ToSet(all) : m.id \in IdsOf(all)
  BY IdsAre
<1> HIDE DEF pool
<1> SUFFICES ASSUME NEW x \in ToSet(ReconciledOs), NEW y \in ToSet(ReconciledOs), x.id = y.id
             PROVE  x = y
  BY DEF Apart
<1>8. CASE x.id \in IdsOf(all)
  <2>1. x = pool[x.id] /\ y = pool[y.id]
    BY <1>6, <1>8
  <2>. QED
    BY <2>1
<1>9. CASE x.id \notin IdsOf(all)
  <2>1. x \in ToSet(fresh) /\ y \in ToSet(fresh)
    BY <1>6, <1>7, <1>9
  <2>. QED
    BY <2>1 DEF Apart
<1>. QED
  BY <1>8, <1>9
=============================================================================
