----------------------------- MODULE MCInjection -----------------------------
EXTENDS Injection, TLC

\* Two of the tests share the file that comes last by its path.
MCFileOf == 1 :> 3 @@ 2 :> 3 @@ 3 :> 1 @@ 4 :> 2
MCPath == [f \in Files |-> f]
=============================================================================
