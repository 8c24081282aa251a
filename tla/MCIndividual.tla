---------------------------- MODULE MCIndividual ----------------------------
(* Constants of the runs on Individual.                                    *)
EXTENDS Individual, TLC

NoLimit == -1

(* The threads other than the initial one are alike.                       *)
Created == Permutations(Threads \ {Main})

=============================================================================
