----------------------------- MODULE MCSettlePool -----------------------------
(* A small instance of SettlePool: the jobs are interchangeable.            *)
EXTENDS SettlePool, TLC

CONSTANTS k1, k2, k3

MCRoster == <<k1, k2, k3>>
Jobs == Permutations(Client)
=============================================================================
