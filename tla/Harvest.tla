------------------------------- MODULE Harvest -------------------------------
(***************************************************************************)
(* What a retrieval run promises, without leases, retries or tables: one   *)
(* execution at a time collects; each source's articles are collected      *)
(* once; who collects may end the run, and then it is over for everybody.  *)
(* An execution takes the run only from nobody, so that a stalled one has  *)
(* to lose it first.  RetrievalRun implements it (ImplementsHarvest there).*)
(***************************************************************************)
EXTENDS Integers

CONSTANTS Execs, Sources, Nobody

VARIABLES collector,  \* the execution that collects, or Nobody
          collected,  \* how often each source's articles have been collected
          closed      \* the run is over

vars == <<collector, collected, closed>>

Init == /\ collector = Nobody
        /\ collected = [s \in Sources |-> 0]
        /\ closed = FALSE

Take(e) == /\ collector = Nobody
           /\ ~closed
           /\ collector' = e
           /\ UNCHANGED <<collected, closed>>

Lose == /\ collector' = Nobody
        /\ UNCHANGED <<collected, closed>>

Collect(s) == /\ collector # Nobody
              /\ collected[s] = 0
              /\ collected' = [collected EXCEPT ![s] = 1]
              /\ UNCHANGED <<collector, closed>>

Close == /\ collector # Nobody
         /\ collector' = Nobody
         /\ closed' = TRUE
         /\ collected' = collected

Next == (\E e \in Execs : Take(e)) \/ Lose \/ (\E s \in Sources : Collect(s)) \/ Close

Spec == Init /\ [][Next]_vars
=============================================================================
