--------------------------- MODULE MapCalls_proofs ---------------------------
(***************************************************************************)
(* Theorems about MapCalls, for every number of items, every limit and     *)
(* every set of failing calls.                                             *)
(***************************************************************************)
EXTENDS MapCalls, SequenceTheorems, FiniteSetTheorems, TLAPS

\* A call that has not begun is on the queue or in one worker's hands, and one that
\* runs is in one worker's; what is on the queue has not begun.
PoolInv ==
    /\ \A i \in Item : status[i] = "running" => \E w \in Workers : task[w] = i
    /\ \A i \in Item : status[i] = "pending" => i \in queue \/ \E w \in Workers : task[w] = i
    /\ \A i \in queue : status[i] \in {"pending", "cancelled"}
    /\ \A w \in Workers : task[w] # Idle =>
         /\ status[task[w]] \in {"pending", "running", "cancelled"}
         /\ task[w] \notin queue
    /\ \A v, w \in Workers : task[v] = task[w] /\ task[v] # Idle => v = w

\* The queue is first in, first out, and futures are cancelled from the last.
OrderInv ==
    \A i, j \in Item : i < j =>
        /\ status[i] = "unsubmitted" => status[j] = "unsubmitted"
        /\ i \in queue => j \in queue \/ status[j] = "unsubmitted"
        /\ status[i] = "cancelled" => status[j] \notin {"unsubmitted", "pending"}

\* No call was begun before as many earlier ones as there are workers.
TurnInv == \A i \in Item : Asked(i) => Cardinality(Unasked(i)) < Cardinality(Workers)

\* What has been collected is a prefix of the input, all of it answered.
ResultsInv ==
    /\ \A k \in 1..Len(results) : /\ k \in Item \ failing
                                  /\ results[k] = k
                                  /\ status[k] = "done"
    /\ raising => NextItem \in failing /\ status[NextItem] = "done"

\* What the calling thread's position says about the futures.
MainInv ==
    /\ main \in {"start", "rejected"} =>
         /\ results = <<>>
         /\ \A i \in Item : status[i] = "unsubmitted"
    /\ main \in {"start", "inline", "submitting", "collecting", "rejected"} => ~raising
    /\ main = "rejected" <=> main # "start" /\ InFlight(limit) < 1
    /\ main = "inline" =>
         \A i \in Item : status[i] = IF i <= Len(results) THEN "done"
                                     ELSE "unsubmitted"
    /\ main = "submitting" => results = <<>>
    /\ main = "collecting" => \A i \in Item : status[i] # "unsubmitted"
    /\ main = "cancelling" => raising /\ \A i \in Item : status[i] # "unsubmitted"
    /\ main = "closing" => \A i \in Item : status[i] \notin {"unsubmitted", "pending"}
    /\ main = "closing" /\ ~raising => Len(results) = items
    /\ main = "raised" => NextItem \in failing
    /\ main = "returned" => Len(results) = items
    /\ Ended => queue = {}
    /\ main = "raised" => \A i \in Item : i <= NextItem => status[i] = "done"

IInv == /\ TypeOK
        /\ PoolInv
        /\ OrderInv
        /\ TurnInv
        /\ ResultsInv
        /\ MainInv
        /\ NothingOutlivesTheStage
-----------------------------------------------------------------------------
\* What collecting one more answer does to the list of answers.
LEMMA AppendFacts ==
    ASSUME NEW S, NEW s \in Seq(S), NEW e \in S
    PROVE  /\ Append(s, e) \in Seq(S)
           /\ Len(Append(s, e)) = Len(s) + 1
           /\ \A k \in 1..Len(s) : Append(s, e)[k] = s[k]
           /\ Append(s, e)[Len(s) + 1] = e
  BY AppendProperties

LEMMA InitIInv == Init => IInv
<1> SUFFICES ASSUME Init PROVE IInv
  OBVIOUS
<1>1. items \in Nat
  BY MapCallsAssumption DEF Init
<1>2. TypeOK
  <2>1. results \in Seq(Item) BY EmptySeq DEF Init
  <2>2. status \in [Item -> Statuses] BY DEF Init, Item, Statuses
  <2>3. task \in [Workers -> Item \union {Idle}] BY DEF Init
  <2> QED BY <2>1, <2>2, <2>3 DEF Init, TypeOK, Stages, Item
<1>3. PoolInv /\ OrderInv /\ TurnInv /\ ResultsInv
  BY <1>1 DEF Init, PoolInv, OrderInv, TurnInv, ResultsInv, Item, Asked, Workers, Idle
<1>4. MainInv /\ NothingOutlivesTheStage
  BY DEF Init, MainInv, NothingOutlivesTheStage, Ended, Item
<1> QED
  BY <1>2, <1>3, <1>4 DEF IInv

\* There are finitely many workers, and no more items before one than in all.
LEMMA Finite ==
    ASSUME items \in Nat
    PROVE  /\ IsFiniteSet(Workers) /\ Cardinality(Workers) \in Nat
           /\ \A i \in Item : IsFiniteSet(Unasked(i)) /\ Cardinality(Unasked(i)) \in Nat
<1>1. IsFiniteSet(Item)
  BY FS_Interval DEF Item
<1>2. IsFiniteSet(Workers) /\ \A i \in Item : IsFiniteSet(Unasked(i))
  BY <1>1, FS_Subset DEF Workers, Unasked
<1> QED BY <1>2, FS_CardinalityType

\* A worker that begins its call now overtakes the others in theirs, and nothing else:
\* what is unasked before it has been taken, and not cancelled.
LEMMA Overtaken ==
    ASSUME IInv, items \in Nat, NEW w \in Workers, task[w] # Idle,
           status[task[w]] = "pending"
    PROVE  Cardinality(Unasked(task[w])) < Cardinality(Workers)
<1> DEFINE U == Unasked(task[w])
           holder == [j \in U |-> CHOOSE v \in Workers : task[v] = j]
<1>1. task[w] \in Item /\ task[w] \notin queue
  BY DEF IInv, TypeOK, PoolInv
<1>2. ASSUME NEW j \in U PROVE \E v \in Workers : task[v] = j
  <2>1. j \in Item /\ j < task[w] /\ ~Asked(j)
    BY DEF Unasked
  <2>2. status[j] \notin {"unsubmitted", "cancelled"} /\ j \notin queue
    BY <1>1, <2>1 DEF IInv, OrderInv
  <2>3. status[j] = "pending"
    BY <2>1, <2>2 DEF IInv, TypeOK, Statuses, Asked
  <2> QED BY <2>1, <2>2, <2>3 DEF IInv, PoolInv
<1>3. \A j \in U : holder[j] \in Workers /\ task[holder[j]] = j
  BY <1>2
<1>4. \A j \in U : j # task[w]
  BY <1>1 DEF Unasked, Item
<1>5. holder \in Injection(U, Workers \ {w})
  <2>1. \A j \in U : holder[j] \in Workers \ {w}
    BY <1>3, <1>4
  <2>2. holder \in [U -> Workers \ {w}]
    BY <2>1
  <2>3. \A j, k \in U : holder[j] = holder[k] => j = k
    BY <1>3
  <2> HIDE DEF holder, U
  <2> QED BY <2>2, <2>3 DEF Injection, IsInjective
<1>6. /\ IsFiniteSet(Workers \ {w})
      /\ Cardinality(Workers \ {w}) = Cardinality(Workers) - 1
  BY Finite, FS_RemoveElement
<1>7. Cardinality(U) <= Cardinality(Workers \ {w})
  <2> HIDE DEF holder, U
  <2> QED BY <1>5, <1>6, FS_Injection
<1> QED BY <1>1, <1>6, <1>7, Finite

\* What was asked about stays so: only an item that was not can be out of turn.
LEMMA StillInTurn ==
    ASSUME TurnInv, items \in Nat, UNCHANGED input, NEW new,
           \A i \in Item : Asked(i) => Asked(i)',
           \A i \in Item : Asked(i)' => Asked(i) \/ i = new,
           new \in Item => Cardinality(Unasked(new)) < Cardinality(Workers)
    PROVE  TurnInv'
<1> SUFFICES ASSUME NEW i \in Item', Asked(i)'
             PROVE  Cardinality(Unasked(i)') < Cardinality(Workers')
  BY DEF TurnInv
<1>1. Item' = Item /\ Workers' = Workers
  BY DEF input, Item, Workers
<1>2. Unasked(i)' \subseteq Unasked(i)
  BY <1>1 DEF Unasked
<1>3. Cardinality(Unasked(i)) < Cardinality(Workers)
  BY <1>1 DEF TurnInv
<1>4. /\ Cardinality(Unasked(i)') <= Cardinality(Unasked(i))
      /\ Cardinality(Unasked(i)') \in Nat
  BY <1>1, <1>2, Finite, FS_Subset, FS_CardinalityType
<1> QED BY <1>1, <1>3, <1>4, Finite

\* A step that asks about nothing new.
LEMMA NoneAsked ==
    ASSUME TurnInv, items \in Nat, UNCHANGED input,
           \A i \in Item : Asked(i) <=> Asked(i)'
    PROVE  TurnInv'
<1>1. Idle \notin Item
  BY DEF Idle, Item
<1> QED BY <1>1, StillInTurn

LEMMA StepIInv == IInv /\ [Next]_vars => IInv'
<1> SUFFICES ASSUME IInv, [Next]_vars PROVE IInv'
  OBVIOUS
<1> USE DEF IInv
<1>0. items \in Nat /\ limit \in Limits /\ Len(results) \in Nat
  BY MapCallsAssumption DEF TypeOK
<1>1. CASE Start
  <2> USE DEF Start, input, pool
  <2>1. TypeOK' BY <1>1 DEF TypeOK, Stages, Item, Workers
  <2>2. (PoolInv /\ OrderInv /\ ResultsInv)'
    BY <1>1 DEF PoolInv, OrderInv, ResultsInv, Item, Workers, NextItem
  <2>3. TurnInv' BY <1>0, <1>1, NoneAsked DEF Asked
  <2>4. MainInv'
    <3>1. queue = {} BY <1>1 DEF MainInv, PoolInv, TypeOK
    <3> QED BY <1>1, <1>0, <3>1 DEF MainInv, Item, TypeOK, Stages, NextItem, Ended
  <2>5. NothingOutlivesTheStage'
    BY <1>1 DEF NothingOutlivesTheStage, Ended, Item, Workers, MainInv, PoolInv, TypeOK
  <2> QED BY <2>1, <2>2, <2>3, <2>4, <2>5
<1>2. CASE CallInline
  <2> USE DEF CallInline, input, NextItem
  <2>a. queue = {} /\ \A w \in Workers : task[w] = Idle
    BY <1>2 DEF MainInv, PoolInv, TypeOK
  <2>0. NextItem \notin failing =>
          /\ results' \in Seq(Item)
          /\ Len(results') = Len(results) + 1
          /\ \A k \in 1..Len(results) : results'[k] = results[k]
          /\ results'[NextItem] = NextItem
    <3>1. results \in Seq(Item) /\ Len(results) + 1 \in Item BY <1>2 DEF TypeOK
    <3>2. NextItem \notin failing => results' = Append(results, Len(results) + 1)
      BY <1>2
    <3> QED BY <3>1, <3>2, AppendFacts
  <2>1. TypeOK'
    <3>1. results' \in Seq(Item') BY <1>2, <2>0 DEF TypeOK, Item
    <3> QED BY <1>2, <1>0, <3>1 DEF TypeOK, Stages, Statuses, Item, Workers
  <2>2. PoolInv'
    BY <1>2, <1>0, <2>a DEF PoolInv, MainInv, TypeOK, Item, Workers
  <2>3. OrderInv'
    BY <1>2, <1>0, <2>a DEF OrderInv, MainInv, TypeOK, Item
  <2>7. TurnInv'
    <3>1. \A i \in Item : /\ Asked(i) => Asked(i)'
                          /\ Asked(i)' => Asked(i) \/ i = NextItem
      BY <1>2 DEF TypeOK, Asked
    <3>2. Unasked(NextItem) = {}
      BY <1>2, <1>0 DEF Unasked, Asked, MainInv, Item
    <3>3. Cardinality(Unasked(NextItem)) < Cardinality(Workers)
      <4>1. InFlight(limit) >= 1
        BY <1>2, MapCallsAssumption DEF MainInv, TypeOK, InFlight
      <4>2. 1 \in Workers BY <1>2, <1>0, <4>1 DEF Workers, Item
      <4>3. Cardinality(Workers) \in Nat /\ Cardinality(Workers) # 0
        BY <1>0, <4>2, Finite, FS_EmptySet
      <4>4. Cardinality(Unasked(NextItem)) = 0 BY <3>2, FS_EmptySet
      <4> HIDE DEF NextItem
      <4> QED BY <4>3, <4>4
    <3> QED BY <1>2, <1>0, <3>1, <3>3, StillInTurn
  <2>4. ResultsInv'
    BY <1>2, <1>0, <2>0 DEF ResultsInv, MainInv, TypeOK, Item
  <2>5. MainInv'
    BY <1>2, <1>0, <2>0, <2>a DEF ResultsInv, MainInv, TypeOK, Item, Stages, Statuses, Ended
  <2>6. NothingOutlivesTheStage'
    BY <1>2, <1>0, <2>a DEF NothingOutlivesTheStage, Ended, MainInv, TypeOK, Item, Workers
  <2> QED BY <2>1, <2>2, <2>3, <2>4, <2>5, <2>6, <2>7
<1>3. CASE ReturnInline
  <2> USE DEF ReturnInline, input, pool
  <2>a. queue = {} /\ \A w \in Workers : task[w] = Idle
    BY <1>3 DEF MainInv, PoolInv, TypeOK
  <2>1. TypeOK' BY <1>3 DEF TypeOK, Stages, Item, Workers
  <2>2. (PoolInv /\ OrderInv /\ ResultsInv)'
    BY <1>3 DEF PoolInv, OrderInv, ResultsInv, Item, Workers, NextItem
  <2>3. TurnInv' BY <1>0, <1>3, NoneAsked DEF Asked
  <2>4. MainInv' BY <1>3, <1>0, <2>a DEF MainInv, Item, NextItem, Ended
  <2>5. NothingOutlivesTheStage'
    BY <1>3, <2>a DEF MainInv, NothingOutlivesTheStage, Item, Workers
  <2> QED BY <2>1, <2>2, <2>3, <2>4, <2>5
<1>4. ASSUME NEW i \in Item, Submit(i) PROVE IInv'
  <2> USE DEF Submit, input
  <2>1. TypeOK' BY <1>4 DEF TypeOK, Stages, Statuses, Item, Workers
  <2>2. PoolInv' BY <1>4 DEF PoolInv, TypeOK, Item, Workers
  <2>3. OrderInv'
    BY <1>4, <1>0 DEF OrderInv, TypeOK, Item
  <2>7. TurnInv'
    <3>1. \A j \in Item : Asked(j) <=> Asked(j)' BY <1>4 DEF TypeOK, Asked
    <3> QED BY <1>0, <1>4, <3>1, NoneAsked
  <2>4. ResultsInv' BY <1>4, <1>0 DEF ResultsInv, MainInv, TypeOK, Item, NextItem
  <2>5. MainInv' BY <1>4, <1>0 DEF MainInv, TypeOK, Item, NextItem, Ended
  <2>6. NothingOutlivesTheStage' BY <1>4 DEF NothingOutlivesTheStage, Ended
  <2> QED BY <2>1, <2>2, <2>3, <2>4, <2>5, <2>6, <2>7
<1>5. ASSUME NEW i \in Item, Collect(i) PROVE IInv'
  <2> USE DEF Collect, input, pool, NextItem
  <2>0. NextItem \notin failing =>
          /\ results' \in Seq(Item)
          /\ Len(results') = Len(results) + 1
          /\ \A k \in 1..Len(results) : results'[k] = results[k]
          /\ results'[NextItem] = NextItem
    BY <1>5, AppendFacts DEF TypeOK
  <2>1. TypeOK'
    <3>1. results' \in Seq(Item') BY <1>5, <2>0 DEF TypeOK, Item
    <3> QED BY <1>5, <1>0, <3>1 DEF TypeOK, Stages, Statuses, Item, Workers
  <2>2. (PoolInv /\ OrderInv)' BY <1>5 DEF PoolInv, OrderInv, Item, Workers
  <2>6. TurnInv' BY <1>0, <1>5, NoneAsked DEF Asked
  <2>3. ResultsInv' BY <1>5, <1>0, <2>0 DEF ResultsInv, MainInv, TypeOK, Item
  <2>4. MainInv' BY <1>5, <1>0, <2>0 DEF MainInv, TypeOK, Item, Ended
  <2>5. NothingOutlivesTheStage' BY <1>5 DEF NothingOutlivesTheStage, Ended
  <2> QED BY <2>1, <2>2, <2>3, <2>4, <2>5, <2>6
<1>6. ASSUME NEW i \in Item, Cancel(i) PROVE IInv'
  <2> USE DEF Cancel, input
  <2>1. TypeOK' BY <1>6 DEF TypeOK, Stages, Statuses, Item, Workers
  <2>2. PoolInv' BY <1>6 DEF PoolInv, TypeOK, Item, Workers
  <2>3. OrderInv'
    BY <1>6, <1>0 DEF OrderInv, MainInv, TypeOK, Statuses, Item
  <2>7. TurnInv'
    <3>1. \A j \in Item : Asked(j) <=> Asked(j)' BY <1>6 DEF TypeOK, Asked
    <3> QED BY <1>0, <1>6, <3>1, NoneAsked
  <2>4. ResultsInv' BY <1>6, <1>0 DEF ResultsInv, TypeOK, Item, NextItem
  <2>5. MainInv' BY <1>6, <1>0 DEF MainInv, TypeOK, Item, NextItem, Ended
  <2>6. NothingOutlivesTheStage' BY <1>6 DEF NothingOutlivesTheStage, Ended
  <2> QED BY <2>1, <2>2, <2>3, <2>4, <2>5, <2>6, <2>7
<1>7. CASE CollectedAll \/ CancelledAll
  <2> USE DEF CollectedAll, CancelledAll, input, pool
  <2>1. TypeOK' BY <1>7 DEF TypeOK, Stages, Item, Workers
  <2>2. (PoolInv /\ OrderInv /\ ResultsInv)'
    BY <1>7 DEF PoolInv, OrderInv, ResultsInv, Item, Workers, NextItem
  <2>5. TurnInv' BY <1>0, <1>7, NoneAsked DEF Asked
  <2>3. MainInv' BY <1>7, <1>0 DEF MainInv, ResultsInv, TypeOK, Item, NextItem, Ended
  <2>4. NothingOutlivesTheStage' BY <1>7 DEF NothingOutlivesTheStage, Ended
  <2> QED BY <2>1, <2>2, <2>3, <2>4, <2>5
<1>8. CASE Close
  <2> USE DEF Close, input, pool
  <2>1. TypeOK' BY <1>8 DEF TypeOK, Stages, Item, Workers
  <2>2. (PoolInv /\ OrderInv /\ ResultsInv)'
    BY <1>8 DEF PoolInv, OrderInv, ResultsInv, Item, Workers, NextItem
  <2>5. TurnInv' BY <1>0, <1>8, NoneAsked DEF Asked
  <2>3. MainInv' BY <1>8, <1>0 DEF MainInv, ResultsInv, TypeOK, Item, NextItem, Ended
  <2>4. NothingOutlivesTheStage'
    BY <1>8, <1>0 DEF NothingOutlivesTheStage, MainInv, PoolInv, TypeOK, Item, Workers, Idle
  <2> QED BY <2>1, <2>2, <2>3, <2>4, <2>5
<1>9. ASSUME NEW w \in Workers, NEW i \in Item, Take(w, i) PROVE IInv'
  <2> USE DEF Take, input
  <2>0. ~Ended
    BY <1>9 DEF MainInv
  <2>1. TypeOK' BY <1>9 DEF TypeOK, Item, Workers
  <2>2. PoolInv'
    <3>1. i # Idle /\ \A v \in Workers : task[v] # i
      BY <1>9, <1>0 DEF PoolInv, Item, Idle
    <3>2. \A v \in Workers : task'[v] = IF v = w THEN i ELSE task[v]
      BY <1>9 DEF TypeOK
    <3>3. \A u, v \in Workers : task'[u] = task'[v] /\ task'[u] # Idle => u = v
      BY <3>1, <3>2 DEF PoolInv
    <3>4. \A j \in Item : (\E v \in Workers : task[v] = j) => \E v \in Workers : task'[v] = j
      BY <1>9, <1>0, <3>2 DEF Idle, Item
    <3>5. \E v \in Workers : task'[v] = i BY <3>2
    <3>6. Item' = Item /\ Workers' = Workers BY <1>9 DEF Item, Workers
    <3> QED BY <1>9, <3>1, <3>2, <3>3, <3>4, <3>5, <3>6 DEF PoolInv
  <2>3. OrderInv'
    BY <1>9, <1>0 DEF OrderInv, TypeOK, Item
  <2>7. TurnInv' BY <1>0, <1>9, NoneAsked DEF Asked
  <2>4. ResultsInv' BY <1>9, <1>0 DEF ResultsInv, TypeOK, Item, NextItem
  <2>5. MainInv' BY <1>9, <1>0, <2>0 DEF MainInv, TypeOK, Item, NextItem, Ended
  <2>6. NothingOutlivesTheStage' BY <1>9, <2>0 DEF NothingOutlivesTheStage, Ended
  <2> QED BY <2>1, <2>2, <2>3, <2>4, <2>5, <2>6, <2>7
<1>10. ASSUME NEW w \in Workers, Begin(w) \/ Finish(w) PROVE IInv'
  <2> USE DEF Begin, Finish, input
  <2>0. task[w] \in Item /\ status[task[w]] \in {"pending", "running"} /\ task[w] \notin queue
    BY <1>10 DEF PoolInv, TypeOK
  <2>a. ~Ended
    BY <1>10 DEF NothingOutlivesTheStage
  <2>b. \A j \in Item : j # task[w] => status'[j] = status[j]
    BY <1>10 DEF TypeOK
  <2>c. \/ Begin(w) /\ status[task[w]] = "pending" /\ status'[task[w]] = "running" /\ task' = task
        \/ Finish(w) /\ status[task[w]] = "running" /\ status'[task[w]] = "done"
    BY <1>10, <2>0 DEF TypeOK
  <2>d. Item' = Item /\ Workers' = Workers /\ queue' = queue
    BY <1>10 DEF Item, Workers
  <2>1. TypeOK'
    <3>1. status' \in [Item -> Statuses]
      BY <1>10, <2>0 DEF TypeOK, Statuses
    <3>2. task' \in [Workers -> Item \union {Idle}]
      BY <1>10 DEF TypeOK
    <3>3. UNCHANGED <<items, limit, failing, main, raising, queue, results>>
      BY <1>10
    <3> QED BY <2>d, <3>1, <3>2, <3>3 DEF TypeOK
  <2>2. PoolInv'
    <3>1. CASE Begin(w)
      BY <2>0, <2>b, <2>c, <2>d, <3>1 DEF PoolInv
    <3>2. CASE Finish(w)
      <4>1. \A v \in Workers : task'[v] = IF v = w THEN Idle ELSE task[v]
        BY <3>2 DEF TypeOK
      <4>2. \A j \in Item \ {task[w]} :
              (\E v \in Workers : task[v] = j) => \E v \in Workers : task'[v] = j
        BY <4>1
      <4>3. \A v \in Workers : v # w /\ task[v] # Idle => task[v] # task[w]
        BY <2>0, <3>2 DEF PoolInv
      <4>4. status'[task[w]] = "done" BY <2>0, <3>2 DEF TypeOK
      <4>5. \A v \in Workers : task'[v] # Idle =>
              /\ status'[task'[v]] \in {"pending", "running", "cancelled"}
              /\ task'[v] \notin queue'
        BY <2>b, <2>d, <4>1, <4>3 DEF PoolInv, TypeOK
      <4>6. \A u, v \in Workers : task'[u] = task'[v] /\ task'[u] # Idle => u = v
        BY <4>1 DEF PoolInv
      <4>7. \A j \in queue : status'[j] \in {"pending", "cancelled"}
        BY <2>0, <2>b DEF PoolInv, TypeOK
      <4>8. \A j \in Item :
              /\ status'[j] = "running" => \E v \in Workers : task'[v] = j
              /\ status'[j] = "pending" => j \in queue \/ \E v \in Workers : task'[v] = j
        BY <2>b, <4>2, <4>4 DEF PoolInv
      <4> QED BY <2>d, <4>5, <4>6, <4>7, <4>8 DEF PoolInv
    <3> QED BY <1>10, <3>1, <3>2
  <2>3. OrderInv'
    BY <1>0, <2>0, <2>b, <2>c, <2>d DEF OrderInv, TypeOK, Item
  <2>7. TurnInv'
    <3>1. CASE Begin(w)
      <4>1. \A j \in Item : /\ Asked(j) => Asked(j)'
                            /\ Asked(j)' => Asked(j) \/ j = task[w]
        BY <2>b, <3>1 DEF TypeOK, Asked
      <4>2. Cardinality(Unasked(task[w])) < Cardinality(Workers)
        BY <1>0, <3>1, Overtaken
      <4> QED BY <1>0, <3>1, <4>1, <4>2, StillInTurn
    <3>2. CASE Finish(w)
      <4>1. \A j \in Item : Asked(j) <=> Asked(j)'
        BY <2>b, <3>2 DEF TypeOK, Asked
      <4> QED BY <1>0, <3>2, <4>1, NoneAsked
    <3> QED BY <1>10, <3>1, <3>2
  <2>4. ResultsInv'
    <3>1. \A j \in Item : status[j] = "done" => status'[j] = "done"
      BY <2>0, <2>b
    <3>2. raising => NextItem \in Item
      BY DEF ResultsInv, TypeOK
    <3>3. UNCHANGED <<items, failing, raising, results>>
      BY <1>10
    <3> QED BY <2>d, <3>1, <3>2, <3>3 DEF ResultsInv, NextItem
  <2>5. MainInv'
    <3>1. \A j \in Item : status[j] = "done" => status'[j] = "done"
      BY <2>0, <2>b
    <3>2. \A j \in Item : status'[j] \in {"unsubmitted", "pending"} => status'[j] = status[j]
      BY <2>b, <2>c
    <3>3. main \notin {"start", "inline"}
      BY <2>0 DEF MainInv
    <3>4. UNCHANGED <<items, limit, failing, main, raising, results>>
      BY <1>10
    <3> QED BY <2>a, <2>d, <3>1, <3>2, <3>3, <3>4 DEF MainInv, Ended, NextItem
  <2>6. NothingOutlivesTheStage' BY <1>10, <2>a DEF NothingOutlivesTheStage, Ended
  <2> QED BY <2>1, <2>2, <2>3, <2>4, <2>5, <2>6, <2>7
<1>12. ASSUME NEW w \in Workers, Drop(w) PROVE IInv'
  <2> USE DEF Drop, input
  <2>0. ~Ended
    BY <1>12 DEF NothingOutlivesTheStage
  <2>1. TypeOK' BY <1>12 DEF TypeOK, Item, Workers
  <2>2. PoolInv'
    <3>1. \A v \in Workers : task'[v] = IF v = w THEN Idle ELSE task[v]
      BY <1>12 DEF TypeOK
    <3>2. \A j \in Item : status[j] \in {"running", "pending"} =>
            ((\E v \in Workers : task[v] = j) => \E v \in Workers : task'[v] = j)
      BY <1>12, <3>1
    <3>3. Item' = Item /\ Workers' = Workers BY <1>12 DEF Item, Workers
    <3> QED BY <1>12, <3>1, <3>2, <3>3 DEF PoolInv
  <2>3. OrderInv' BY <1>12 DEF OrderInv, Item
  <2>7. TurnInv' BY <1>0, <1>12, NoneAsked DEF Asked
  <2>4. ResultsInv' BY <1>12 DEF ResultsInv, Item, NextItem
  <2>5. MainInv' BY <1>12 DEF MainInv, Item, NextItem, Ended
  <2>6. NothingOutlivesTheStage' BY <1>12, <2>0 DEF NothingOutlivesTheStage, Ended
  <2> QED BY <2>1, <2>2, <2>3, <2>4, <2>5, <2>6, <2>7
<1>11. CASE UNCHANGED vars
  <2>1. TypeOK' BY <1>11 DEF vars, TypeOK, Item, Workers
  <2>2. (PoolInv /\ OrderInv /\ TurnInv /\ ResultsInv /\ MainInv /\ NothingOutlivesTheStage)'
    BY <1>11 DEF vars, PoolInv, OrderInv, TurnInv, ResultsInv, MainInv,
                 NothingOutlivesTheStage, Item, Workers, Asked, Unasked, NextItem, Ended
  <2> QED BY <2>1, <2>2
<1> QED
  BY <1>1, <1>2, <1>3, <1>4, <1>5, <1>6, <1>7, <1>8, <1>9, <1>10, <1>11, <1>12
  DEF Next, Main, Worker

LEMMA Invariance == Spec => []IInv
  BY InitIInv, StepIInv, PTL DEF Spec

\* Every field keeps its type.
THEOREM TypeCorrect == Spec => []TypeOK
  BY Invariance, PTL DEF IInv

\* However many items and workers there are, and whichever calls fail, nothing
\* is running or queued once map_calls has handed control back.
THEOREM NothingOutlives == Spec => []NothingOutlivesTheStage
  BY Invariance, PTL DEF IInv

\* However many items and workers there are, and wherever a worker is overtaken and
\* its item cancelled, fewer than the workers' number of items are left unasked
\* before one that is asked about, and none before the failing one that is raised.
THEOREM InTurn == Spec => []AskedInTurn
<1>1. IInv => AskedInTurn
  BY DEF IInv, TurnInv, MainInv, AskedInTurn, Asked
<1> QED BY <1>1, Invariance, PTL
-----------------------------------------------------------------------------
(* map_calls implements the sequential loop.                               *)

LEMMA InitRefines == Init => Serial!Init
  BY DEF Init, Serial!Init, Ended

LEMMA StepRefines == IInv /\ [Next]_vars => [Serial!Next]_Serial!vars
<1> SUFFICES ASSUME IInv, [Next]_vars PROVE [Serial!Next]_Serial!vars
  OBVIOUS
<1> USE DEF Serial!vars, Ended, input, Serial!InFlight, InFlight, Serial!NextItem, NextItem, pool
<1>0. Len(results) \in Nat /\ items \in Nat
  BY MapCallsAssumption DEF IInv, TypeOK
<1>00. InFlight(limit) \in Int
  BY MapCallsAssumption DEF IInv, TypeOK
<1>1. CASE Start
  BY <1>1 DEF Start, Serial!Next, Serial!Reject, IInv, MainInv
<1>2. CASE CallInline
  <2>1. InFlight(limit) >= 1
    BY <1>2, <1>00 DEF CallInline, IInv, MainInv
  <2> QED BY <1>2, <2>1 DEF CallInline, Serial!Next, Serial!Keep, Serial!Raise, Item
<1>3. CASE ReturnInline
  <2>1. InFlight(limit) >= 1
    BY <1>3, <1>00 DEF ReturnInline, IInv, MainInv
  <2> QED BY <1>3, <2>1 DEF ReturnInline, Serial!Next, Serial!Return
<1>4. ASSUME NEW i \in Item, Collect(i) PROVE [Serial!Next]_Serial!vars
  <2>1. InFlight(limit) >= 1
    BY <1>4, <1>00 DEF Collect, IInv, MainInv
  <2> QED BY <1>4, <2>1 DEF Collect, Serial!Next, Serial!Keep, Item
<1>5. CASE Close
  <2>1. InFlight(limit) >= 1
    BY <1>5, <1>00 DEF Close, IInv, MainInv
  <2> QED
    BY <1>5, <2>1
    DEF Close, Serial!Next, Serial!Raise, Serial!Return, IInv, MainInv, ResultsInv
<1>6. ASSUME NEW i \in Item, Submit(i) \/ Cancel(i) PROVE [Serial!Next]_Serial!vars
  BY <1>6 DEF Submit, Cancel
<1>7. CASE CollectedAll \/ CancelledAll
  BY <1>7 DEF CollectedAll, CancelledAll
<1>8. ASSUME NEW w \in Workers, Worker(w) PROVE [Serial!Next]_Serial!vars
  BY <1>8 DEF Worker, Take, Begin, Drop, Finish
<1>9. CASE UNCHANGED vars
  BY <1>9 DEF vars
<1> QED
  BY <1>1, <1>2, <1>3, <1>4, <1>5, <1>6, <1>7, <1>8, <1>9 DEF Next, Main

\* The pool is the loop it replaced: same answers, same order, and on failure
\* the exception of the first failing item in input order.
THEOREM Refinement == Spec => ImplementsSerialStage
  BY InitRefines, StepRefines, Invariance, PTL DEF Spec, ImplementsSerialStage, Serial!Spec
=============================================================================
