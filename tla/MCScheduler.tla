---------------------------- MODULE MCScheduler ----------------------------
(* A small campaign for TLC: six trials, two resources, three workers.    *)
(* Trial 2 claims all of "gpu", trial 1 one slot of it, trials 3 and 4     *)
(* claim both resources, 5 and 6 nothing: the queue has to be              *)
(* overtaken, the resources block independently, and so do the workers.    *)
EXTENDS Scheduler

MCResources == {"gpu", "api"}

MCCapacity == [r \in MCResources |-> IF r = "gpu" THEN 2 ELSE 1]

MCSlots == <<<<1, 0>>, <<2, 0>>, <<1, 1>>, <<1, 1>>, <<0, 0>>, <<0, 0>>>>

MCClaim == [t \in 1..6 |->
               [r \in MCResources |-> MCSlots[t][IF r = "gpu" THEN 1 ELSE 2]]]
=============================================================================
