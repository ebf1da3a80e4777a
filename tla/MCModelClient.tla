--------------------------- MODULE MCModelClient ---------------------------
EXTENDS Provenance

CONSTANTS r1, r2, c1, c2, c3, k1, k2, k3, k4, a1, old, base, own, embedder, openai, anthropic

\* Two threads of one run, and one of another that shares the store.
MCRunOf == c1 :> r1 @@ c2 :> r1 @@ c3 :> r2

\* The first run asks one request twice, or two of them; the other asks one too.
MCAsks == c1 :> {k1, k2} @@ c2 :> {k1, k3, k4} @@ c3 :> {k1}

\* Linking embeds and asks, with a model of its own that reasons; another stage
\* asks about a defect, and a third is configured with an effort its model drops.
MCRequest ==
    k1 :> [kind |-> "completion", stage |-> "obligation linking", label |-> None,
           effort |-> "low", partition |-> 25]
    @@ k2 :> [kind |-> "embedding", stage |-> "obligation linking", label |-> None,
              effort |-> None, partition |-> None]
    @@ k3 :> [kind |-> "completion", stage |-> "mutation descriptor", label |-> "D1",
              effort |-> None, partition |-> 1]
    @@ k4 :> [kind |-> "completion", stage |-> "pair mapping", label |-> None,
              effort |-> "high", partition |-> 1]
MCStageModels == [stage \in {"obligation linking"} |-> own]
MCProvider == base :> openai @@ own :> anthropic @@ embedder :> openai
MCHonours ==
    base :> {"temperature", "seed"} @@ own :> {"temperature", "reasoning_effort"}
    @@ embedder :> {}
MCUsage ==
    a1 :> [cost |-> 3, prompt |-> 4, completion |-> 2, cached |-> 2, reasoning |-> 1]
    @@ old :> [cost |-> 1, prompt |-> 5, completion |-> 2]
MCStages == <<"obligation linking", "mutation descriptor", "pair mapping">>
=============================================================================
