----------------------------- MODULE SettleSlots -----------------------------
(***************************************************************************)
(* What the settle-admin pool promises, apart from how it keeps it: every  *)
(* key can send from one nonce sequence per chain, and each of those       *)
(* nonce sequences ("slots") belongs to at most one job at a time.  A job  *)
(* takes only slots nobody owns, and only their owner gives them back.     *)
(***************************************************************************)
CONSTANTS Admin,    \* the settle_contractAdmin keys
          Client,   \* the jobs that send transactions
          Nobody    \* the owner of a free slot, no client

Chain == {"base", "conet"}
Slot  == Chain \X Admin

VARIABLE owner      \* owner[s]: the job that may send from slot s

TypeOK == owner \in [Slot -> Client \cup {Nobody}]

Init == owner = [s \in Slot |-> Nobody]

Owned(c) == {s \in Slot : owner[s] = c}

\* A job becomes the owner of free slots, all of them at once.
Occupy(c, S) ==
  /\ \A s \in S : owner[s] = Nobody
  /\ owner' = [s \in Slot |-> IF s \in S THEN c ELSE owner[s]]

\* A job gives back slots it owns.
Vacate(c, S) ==
  /\ S \subseteq Owned(c)
  /\ owner' = [s \in Slot |-> IF s \in S THEN Nobody ELSE owner[s]]

Next == \E c \in Client, S \in SUBSET Slot : Occupy(c, S) \/ Vacate(c, S)

Spec == Init /\ [][Next]_owner
=============================================================================
