------------------------------ MODULE MCSandbox ------------------------------
EXTENDS Sandbox, TLC

\* The first test has two cases; the second one is an id that pytest runs no
\* case of.
MCTestOf == 1 :> 1 @@ 2 :> 1
=============================================================================
