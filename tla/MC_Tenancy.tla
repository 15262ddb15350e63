----------------------------- MODULE MC_Tenancy -----------------------------
(* A small instance of Tenancy: one tenant, with and without a quota.      *)
EXTENDS Tenancy, TLC

CONSTANTS t1, t2, id1, ka, kb

MCIdentity == [t \in Tasks |-> id1]
MCBytes == (ka :> {1}) @@ (kb :> {2})

Q(subscribers, rate, burst, budget) ==
    [subscribers |-> subscribers, rate |-> rate, burst |-> burst, budget |-> budget]

MCQuotas == {Q(1, 1, 2, 3)}
MCFlags == Q(2, 0, 0, 2)

TaskSymmetry == Permutations(Tasks)
=============================================================================
