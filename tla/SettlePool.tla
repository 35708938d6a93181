------------------------------ MODULE SettlePool ------------------------------
(***************************************************************************)
(* The occupancy pools of the settle-admin keys (settleContractPool.ts)    *)
(* with the three ways a job gets a key: take the first idle one, poll     *)
(* until one is idle, or pick the first one with enough gas money.         *)
(* JavaScript runs one callback at a time, so a step is what a function    *)
(* does between two awaits; clients interleave at the awaits.              *)
(*                                                                         *)
(* A client is one running job.  The pools are queues that a returned key  *)
(* re-enters at the FRONT (unshift) or, from the gas picker, at the tail   *)
(* (push).                                                                 *)
(***************************************************************************)
EXTENDS Naturals, Sequences, SequencesExt

CONSTANTS Client,            \* jobs that occupy admin keys
          Roster,            \* ~/.master.json settle_contractAdmin, in order
          GenesisInitiator,  \* GENESIS_NODE_BRIDGE_INITIATOR, perhaps not in Roster
          Nobody             \* the owner of an idle slot, in SettleSlots

Chain == {"base", "conet"}
Admin == Range(Roster)
Slot  == Chain \X Admin

\* The configured keys are distinct; nothing in the code checks it.
ASSUME RosterAssumption == Roster \in Seq(Admin) /\ IsInjective(Roster)
ASSUME NobodyIsNoClient == Nobody \notin Client

VARIABLES
  poolInitialized,  \* the flag that makes initSettleContractPool idempotent
  pool,             \* pool["base"] = Settle_BasePool, pool["conet"] = Settle_ConetPool
  held,             \* held[c]: the slots client c has shifted out of the pools
  tried,            \* tried[c]: keys the gas picker shifted, the last one awaited
  pc                \* where client c is

vars == <<poolInitialized, pool, held, tried, pc>>

Init ==
  /\ poolInitialized = FALSE
  /\ pool = [ch \in Chain |-> <<>>]
  /\ held = [c \in Client |-> {}]
  /\ tried = [c \in Client |-> <<>>]
  /\ pc = [c \in Client |-> "idle"]

\* Mutant: the idempotence flag is not consulted.
initSettleContractPool_Unguarded ==
  /\ poolInitialized' = TRUE
  /\ \A ch \in Chain : Len(pool[ch]) <= Len(Roster)
  /\ pool' = [ch \in Chain |-> pool[ch] \o Roster]
  /\ UNCHANGED <<held, tried, pc>>

\* Every importer and ensureSettleContractPoolInitialized may call it again.
initSettleContractPool ==
  /\ ~poolInitialized
  /\ poolInitialized' = TRUE
  /\ pool' = [ch \in Chain |-> pool[ch] \o Roster]
  /\ UNCHANGED <<held, tried, pc>>

------------------------------------------------------------------------------
(* Taking a key that is idle now.  With none, the functions return         *)
(* undefined (or the with... wrappers throw) and nothing changes.          *)

Occupy(c, slots) ==
  /\ held' = [held EXCEPT ![c] = slots]
  /\ pc' = [pc EXCEPT ![c] = "holding"]
  /\ UNCHANGED <<poolInitialized, tried>>

\* The head of one chain's pool goes to c.
Shift(c, ch) ==
  /\ pool[ch] # <<>>
  /\ pool' = [pool EXCEPT ![ch] = Tail(@)]
  /\ Occupy(c, {<<ch, Head(pool[ch])>>})

shiftSettleBase(c)  == pc[c] = "idle" /\ Shift(c, "base")
shiftSettleConet(c) == pc[c] = "idle" /\ Shift(c, "conet")

\* Positions in the two pools of a key that is idle on both chains.
IdleOnBoth(i, j) ==
  /\ i \in DOMAIN pool["base"]
  /\ j \in DOMAIN pool["conet"]
  /\ pool["base"][i] = pool["conet"][j]

\* Mutant: the CoNET pool is shifted instead of spliced at the same key.
SpliceBoth_HeadOfConet(c, i, j) ==
  /\ pool' = [pool EXCEPT !["base"] = RemoveAt(@, i), !["conet"] = Tail(@)]
  /\ Occupy(c, Chain \X {pool["base"][i]})

SpliceBoth(c, i, j) ==
  /\ pool' = [pool EXCEPT !["base"] = RemoveAt(@, i), !["conet"] = RemoveAt(@, j)]
  /\ Occupy(c, Chain \X {pool["base"][i]})

\* The first key of the base pool that is idle on CoNET as well.
shiftSettleBoth(c) ==
  /\ pc[c] = "idle"
  /\ \E i \in DOMAIN pool["base"], j \in DOMAIN pool["conet"] :
       /\ IdleOnBoth(i, j)
       /\ \A k \in 1 .. (i - 1), l \in DOMAIN pool["conet"] : ~IdleOnBoth(k, l)
       /\ SpliceBoth(c, i, j)

shiftGenesisBridgeInitiatorBase(c) ==
  /\ pc[c] = "idle"
  /\ \E i \in DOMAIN pool["base"] :
       /\ pool["base"][i] = GenesisInitiator
       /\ pool' = [pool EXCEPT !["base"] = RemoveAt(@, i)]
       /\ Occupy(c, {<<"base", GenesisInitiator>>})

shiftGenesisBridgeInitiatorBoth(c) ==
  /\ pc[c] = "idle"
  /\ \E i \in DOMAIN pool["base"], j \in DOMAIN pool["conet"] :
       /\ IdleOnBoth(i, j)
       /\ pool["base"][i] = GenesisInitiator
       /\ SpliceBoth(c, i, j)

------------------------------------------------------------------------------
(* Polling for a key, at most two minutes.                                 *)

BeginPoll(c, ch) ==
  /\ pc[c] = "idle"
  /\ poolInitialized /\ Roster # <<>>     \* settleRosterInitialized
  /\ pc' = [pc EXCEPT ![c] = IF ch = "base" THEN "pollingBase" ELSE "pollingConet"]
  /\ UNCHANGED <<poolInitialized, pool, held, tried>>

shiftSettleContractForBaseWrite(c) == pc[c] = "pollingBase"  /\ Shift(c, "base")
shiftSettleContractForWrite(c)     == pc[c] = "pollingConet" /\ Shift(c, "conet")

\* The deadline passed between two polls: the caller's job fails.
PollTimeout(c) ==
  /\ pc[c] \in {"pollingBase", "pollingConet"}
  /\ pc' = [pc EXCEPT ![c] = "idle"]
  /\ UNCHANGED <<poolInitialized, pool, held, tried>>

------------------------------------------------------------------------------
(* shiftSettleContractForConetRelay: shift keys one by one, awaiting each  *)
(* one's balance, and keep the first that can pay for gas.                 *)

\* Shift the next key and await its balance.
TryNext(c) ==
  LET a == Head(pool["conet"])
  IN  /\ pool' = [pool EXCEPT !["conet"] = Tail(@)]
      /\ held' = [held EXCEPT ![c] = @ \cup {<<"conet", a>>}]
      /\ tried' = [tried EXCEPT ![c] = Append(@, a)]
      /\ pc' = [pc EXCEPT ![c] = "picking"]
      /\ UNCHANGED poolInitialized

RelayBegin(c) == pc[c] = "idle" /\ pool["conet"] # <<>> /\ TryNext(c)

\* Mutant: the keys passed over are not pushed back.
RelayFunded_Forgets(c) ==
  /\ pc[c] = "picking"
  /\ held' = [held EXCEPT ![c] = {<<"conet", Last(tried[c])>>}]
  /\ tried' = [tried EXCEPT ![c] = <<>>]
  /\ pc' = [pc EXCEPT ![c] = "holding"]
  /\ UNCHANGED <<poolInitialized, pool>>

\* Its balance is enough: the keys passed over go to the pool's tail.
RelayFunded(c) ==
  /\ pc[c] = "picking"
  /\ pool' = [pool EXCEPT !["conet"] = @ \o Front(tried[c])]
  /\ held' = [held EXCEPT ![c] = {<<"conet", Last(tried[c])>>}]
  /\ tried' = [tried EXCEPT ![c] = <<>>]
  /\ pc' = [pc EXCEPT ![c] = "holding"]
  /\ UNCHANGED poolInitialized

\* Mutant: "underfunded" is reported with the tried keys still out of the pool.
RelayUnderfunded_Keeps(c) ==
  /\ pc[c] = "picking"
  /\ \/ pool["conet"] # <<>> /\ TryNext(c)
     \/ /\ pool["conet"] = <<>>
        /\ pc' = [pc EXCEPT ![c] = "idle"]
        /\ UNCHANGED <<poolInitialized, pool, held, tried>>

\* It is not: try the next idle key, or give all of them back and report
\* "underfunded".
RelayUnderfunded(c) ==
  /\ pc[c] = "picking"
  /\ \/ pool["conet"] # <<>> /\ TryNext(c)
     \/ /\ pool["conet"] = <<>>
        /\ pool' = [pool EXCEPT !["conet"] = tried[c]]
        /\ held' = [held EXCEPT ![c] = {}]
        /\ tried' = [tried EXCEPT ![c] = <<>>]
        /\ pc' = [pc EXCEPT ![c] = "idle"]
        /\ UNCHANGED poolInitialized

------------------------------------------------------------------------------
(* Giving a key back, from the job's finally block.                        *)

Unshift(c, chains) ==
  /\ pc[c] = "holding"
  /\ \E a \in Admin :
       /\ held[c] = chains \X {a}
       /\ pool' = [ch \in Chain |-> IF ch \in chains THEN <<a>> \o pool[ch] ELSE pool[ch]]
  /\ held' = [held EXCEPT ![c] = {}]
  /\ pc' = [pc EXCEPT ![c] = "idle"]
  /\ UNCHANGED <<poolInitialized, tried>>

unshiftSettleBase(c)  == Unshift(c, {"base"})
unshiftSettleConet(c) == Unshift(c, {"conet"})
unshiftSettleBoth(c)  == Unshift(c, Chain)

------------------------------------------------------------------------------
Take(c) ==
  \/ shiftSettleBase(c)
  \/ shiftSettleConet(c)
  \/ shiftSettleBoth(c)
  \/ shiftGenesisBridgeInitiatorBase(c)
  \/ shiftGenesisBridgeInitiatorBoth(c)

Poll(c) ==
  \/ BeginPoll(c, "base")
  \/ BeginPoll(c, "conet")
  \/ shiftSettleContractForBaseWrite(c)
  \/ shiftSettleContractForWrite(c)
  \/ PollTimeout(c)

Relay(c) == RelayBegin(c) \/ RelayFunded(c) \/ RelayUnderfunded(c)

GiveBack(c) == unshiftSettleBase(c) \/ unshiftSettleConet(c) \/ unshiftSettleBoth(c)

Next ==
  \/ initSettleContractPool
  \/ \E c \in Client : Take(c) \/ Poll(c) \/ Relay(c) \/ GiveBack(c)

Spec == Init /\ [][Next]_vars

------------------------------------------------------------------------------
(* Properties.                                                             *)

TypeOK ==
  /\ poolInitialized \in BOOLEAN
  /\ pool \in [Chain -> Seq(Admin)]
  /\ held \in [Client -> SUBSET Slot]
  /\ tried \in [Client -> Seq(Admin)]
  /\ pc \in [Client -> {"idle", "pollingBase", "pollingConet", "picking", "holding"}]

IdleSlots == {s \in Slot : s[2] \in Range(pool[s[1]])}

\* The promise of settleContractPool.ts:42-44: a nonce sequence is owned by
\* one job or idle, never both and never twice.  A key unshifted twice, shifted
\* by two jobs, or pushed back by the gas picker while it is kept would break it.
SlotsExclusive ==
  /\ \A ch \in Chain : IsInjective(pool[ch])
  /\ \A c \in Client : held[c] \cap IdleSlots = {}
  /\ \A c, d \in Client : c # d => held[c] \cap held[d] = {}

\* No key is lost: whatever interleaving, every key of the roster is idle or
\* held on each chain once the pools are filled.  A path that forgets to give
\* back one of the keys it passed over shrinks the pool for ever.
NoSlotLost ==
  poolInitialized => Slot = IdleSlots \cup UNION {held[c] : c \in Client}

\* A job that is done, or that only waits, owns nothing; a job at work owns
\* one key, on one chain or on both.
HeldMatchesPc ==
  \A c \in Client :
    /\ pc[c] = "holding" => \E a \in Admin, chains \in SUBSET Chain :
                              chains # {} /\ held[c] = chains \X {a}
    /\ pc[c] = "picking" => /\ tried[c] # <<>>
                            /\ held[c] = {"conet"} \X Range(tried[c])
    /\ pc[c] \notin {"holding", "picking"} => held[c] = {}

\* The inductive invariant of the proofs: besides the properties above, the gas
\* picker tries a key once, and nothing is occupied before the pools are filled.
IInv ==
  /\ TypeOK
  /\ SlotsExclusive
  /\ NoSlotLost
  /\ HeldMatchesPc
  /\ \A c \in Client : IsInjective(tried[c])
  /\ \A c \in Client : pc[c] # "picking" => tried[c] = <<>>
  /\ ~poolInitialized => /\ pool = [ch \in Chain |-> <<>>]
                         /\ held = [c \in Client |-> {}]

\* The pool implements SettleSlots: taking is from free slots only, giving back
\* is by the owner only, and both chains of one key are taken at once.
owner == [s \in Slot |-> IF \E c \in Client : s \in held[c]
                         THEN CHOOSE c \in Client : s \in held[c]
                         ELSE Nobody]

Slots == INSTANCE SettleSlots WITH
           Admin <- Admin, Client <- Client, Nobody <- Nobody, owner <- owner
SlotsSpec == Slots!Spec
=============================================================================
