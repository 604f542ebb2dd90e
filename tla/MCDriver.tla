------------------------------ MODULE MCDriver ------------------------------
(* Driver on small instances for TLC: three runs one after the other, or at  *)
(* the same time.  A build has a program without imports, a run one with an  *)
(* import at most, a check one with two, whose errors it prints.             *)
EXTENDS Driver

ImportsOf == [r \in Runs |-> CASE r \in CheckRuns -> 2
                               [] r \in RunRuns   -> 1
                               [] OTHER           -> 0]
=============================================================================
