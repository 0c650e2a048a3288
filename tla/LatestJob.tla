----------------------------- MODULE LatestJob -----------------------------
(***************************************************************************)
(* What job dispatch promises to the mining workers, without saying how:   *)
(* the pool offers a growing sequence of jobs, the miner adopts some of    *)
(* them, always forwards and never one that more than Lag newer offers     *)
(* have overtaken, and every worker moves forwards through adopted jobs.   *)
(* Jobs are numbered in the order in which the pool sent them; 0 is "no    *)
(* job yet".  JobDispatch implements this module.                          *)
(***************************************************************************)
EXTENDS Naturals

CONSTANTS Miners,   \* the mining workers
          Lag       \* how many newer offers may wait while one is adopted

VARIABLES offered,  \* the number of jobs offered so far
          adopted,  \* the newest job the miner has adopted
          mining    \* mining[m]: the job worker m last took up

vars == <<offered, adopted, mining>>

Init == /\ offered = 0
        /\ adopted = 0
        /\ mining = [m \in Miners |-> 0]

Offer == /\ offered' = offered + 1
         /\ UNCHANGED <<adopted, mining>>

Adopt == /\ adopted' \in (adopted + 1) .. offered
         /\ offered - adopted' <= Lag
         /\ UNCHANGED <<offered, mining>>

\* A worker may take up the same job again (another extranonce), never an
\* older one, and never one that was not adopted.
TakeUp(m) == /\ \E j \in mining[m] .. adopted :
                  mining' = [mining EXCEPT ![m] = j]
             /\ UNCHANGED <<offered, adopted>>

Next == Offer \/ Adopt \/ \E m \in Miners : TakeUp(m)

Spec == Init /\ [][Next]_vars
=============================================================================
