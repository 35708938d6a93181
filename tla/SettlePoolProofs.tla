--------------------------- MODULE SettlePoolProofs ---------------------------
(***************************************************************************)
(* For every roster, every set of jobs and every interleaving: the pool    *)
(* never gives one nonce sequence to two jobs, never loses one, and        *)
(* implements SettleSlots.                                                 *)
(*                                                                         *)
(* Every action either takes idle slots or gives slots back.  Two lemmas   *)
(* (TakeStep, GiveBackStep) say what taking and giving back preserve, in   *)
(* terms of sets of slots; what is left for an action is to show which     *)
(* set of slots its shift, splice, push or unshift moves.                  *)
(*                                                                         *)
(* The second half is about the presses (PoolPress), for every mix of      *)
(* requests: their steps are steps of the pool, or hand one key on, and    *)
(* keep requests in order, nonces apart and queues watched.                *)
(***************************************************************************)
EXTENDS PoolPress, QueueLemmas

QueuesDistinct == \A ch \in Chain : Distinct(pool[ch], Admin)

\* c takes the slots S out of the pools.
TakesSlots(c, S) ==
  /\ S \subseteq IdleSlots
  /\ IdleSlots' = IdleSlots \ S
  /\ held' = [held EXCEPT ![c] = held[c] \cup S]

\* c puts the slots S back into the pools.
GivesBackSlots(c, S) ==
  /\ S \subseteq held[c]
  /\ IdleSlots' = IdleSlots \cup S
  /\ held' = [held EXCEPT ![c] = held[c] \ S]

\* Taking idle slots keeps every slot with one owner, and keeps all of them.
LEMMA TakeStep ==
  ASSUME TypeOK, SlotsExclusive, NoSlotLost, NEW c \in Client, NEW S,
         TakesSlots(c, S), QueuesDistinct', UNCHANGED poolInitialized
  PROVE  SlotsExclusive' /\ NoSlotLost'
<1>1. /\ held \in [Client -> SUBSET Slot]
      /\ IdleSlots \subseteq Slot
      /\ \A d \in Client : held[d] \cap IdleSlots = {}
      /\ \A d, e \in Client : d # e => held[d] \cap held[e] = {}
  BY DEF TypeOK, SlotsExclusive, IdleSlots
<1>2. /\ held'[c] = held[c] \cup S
      /\ \A d \in Client : d # c => held'[d] = held[d]
  BY <1>1 DEF TakesSlots
<1>3. \A d \in Client : held'[d] \cap IdleSlots' = {}
  BY <1>1, <1>2 DEF TakesSlots
<1>4. \A d, e \in Client : d # e => held'[d] \cap held'[e] = {}
  BY <1>1, <1>2 DEF TakesSlots
<1>5. \A ch \in Chain : IsInjective(pool[ch])'
  BY DEF QueuesDistinct, Distinct
<1>6. SlotsExclusive' BY <1>3, <1>4, <1>5 DEF SlotsExclusive
<1>7. ASSUME poolInitialized' PROVE Slot = IdleSlots' \cup UNION {held'[d] : d \in Client}
  <2>1. Slot = IdleSlots \cup UNION {held[d] : d \in Client} BY <1>7 DEF NoSlotLost
  <2>2. ASSUME NEW s \in Slot PROVE s \in IdleSlots' \/ \E d \in Client : s \in held'[d]
    BY <2>1, <1>2 DEF TakesSlots
  <2>3. ASSUME NEW s, s \in IdleSlots' \/ \E d \in Client : s \in held'[d]
        PROVE  s \in Slot
    BY <2>3, <1>1, <1>2 DEF TakesSlots
  <2> QED BY <2>2, <2>3
<1> QED BY <1>6, <1>7 DEF NoSlotLost

\* So does giving back slots one holds.
LEMMA GiveBackStep ==
  ASSUME TypeOK, SlotsExclusive, NoSlotLost, NEW c \in Client, NEW S,
         GivesBackSlots(c, S), QueuesDistinct', UNCHANGED poolInitialized
  PROVE  SlotsExclusive' /\ NoSlotLost'
<1>1. /\ held \in [Client -> SUBSET Slot]
      /\ IdleSlots \subseteq Slot
      /\ \A d \in Client : held[d] \cap IdleSlots = {}
      /\ \A d, e \in Client : d # e => held[d] \cap held[e] = {}
  BY DEF TypeOK, SlotsExclusive, IdleSlots
<1>2. /\ held'[c] = held[c] \ S
      /\ \A d \in Client : d # c => held'[d] = held[d]
  BY <1>1 DEF GivesBackSlots
<1>3. \A d \in Client : held'[d] \cap IdleSlots' = {}
  BY <1>1, <1>2 DEF GivesBackSlots
<1>4. \A d, e \in Client : d # e => held'[d] \cap held'[e] = {}
  BY <1>1, <1>2 DEF GivesBackSlots
<1>5. \A ch \in Chain : IsInjective(pool[ch])'
  BY DEF QueuesDistinct, Distinct
<1>6. SlotsExclusive' BY <1>3, <1>4, <1>5 DEF SlotsExclusive
<1>7. ASSUME poolInitialized' PROVE Slot = IdleSlots' \cup UNION {held'[d] : d \in Client}
  <2>1. Slot = IdleSlots \cup UNION {held[d] : d \in Client} BY <1>7 DEF NoSlotLost
  <2>2. ASSUME NEW s \in Slot PROVE s \in IdleSlots' \/ \E d \in Client : s \in held'[d]
    BY <2>1, <1>2 DEF GivesBackSlots
  <2>3. ASSUME NEW s, s \in IdleSlots' \/ \E d \in Client : s \in held'[d]
        PROVE  s \in Slot
    BY <2>3, <1>1, <1>2 DEF GivesBackSlots
  <2> QED BY <2>2, <2>3
<1> QED BY <1>6, <1>7 DEF NoSlotLost

------------------------------------------------------------------------------
(* Which slots an action moves.                                            *)

\* The slots of one chain whose keys are in A.
OnChain(ch, A) == {ch} \X A

\* Replacing one chain's queue replaces that chain's idle slots.
LEMMA OneChain ==
  ASSUME TypeOK, NEW ch \in Chain, NEW q \in Seq(Admin),
         pool' = [pool EXCEPT ![ch] = q]
  PROVE  /\ pool' \in [Chain -> Seq(Admin)]
         /\ IdleSlots' = {s \in IdleSlots : s[1] # ch} \cup OnChain(ch, Range(q))
<1>1. pool \in [Chain -> Seq(Admin)] BY DEF TypeOK
<1>2. /\ pool' \in [Chain -> Seq(Admin)]
      /\ pool'[ch] = q
      /\ \A c2 \in Chain : c2 # ch => pool'[c2] = pool[c2]
  BY <1>1
<1>3. Range(q) \subseteq Admin BY RangeOfSeq
<1>4. ASSUME NEW s PROVE s \in IdleSlots' <=> \/ s \in IdleSlots /\ s[1] # ch
                                            \/ s \in OnChain(ch, Range(q))
  <2>1. CASE s \in Slot
    <3>1. s[1] \in Chain /\ s = <<s[1], s[2]>> BY <2>1 DEF Slot
    <3>2. s \in OnChain(ch, Range(q)) <=> s[1] = ch /\ s[2] \in Range(q)
      BY <3>1 DEF OnChain
    <3> QED BY <2>1, <3>1, <3>2, <1>2 DEF IdleSlots
  <2>2. CASE s \notin Slot
    BY <2>2, <1>3 DEF IdleSlots, OnChain, Slot
  <2> QED BY <2>1, <2>2
<1> QED BY <1>2, <1>4

\* The facts about the state every action's proof starts from.
LEMMA Facts ==
  ASSUME IInv
  PROVE  /\ pool \in [Chain -> Seq(Admin)]
         /\ held \in [Client -> SUBSET Slot]
         /\ QueuesDistinct
         /\ \A c \in Client : Distinct(tried[c], Admin)
         /\ \A ch \in Chain : Range(pool[ch]) \subseteq Admin
         /\ \A ch \in Chain, a \in Admin :
              <<ch, a>> \in IdleSlots <=> a \in Range(pool[ch])
<1>1. pool \in [Chain -> Seq(Admin)] /\ held \in [Client -> SUBSET Slot]
  BY DEF IInv, TypeOK
<1>2. QueuesDistinct BY <1>1 DEF IInv, SlotsExclusive, QueuesDistinct, Distinct
<1>3. \A c \in Client : Distinct(tried[c], Admin) BY DEF IInv, TypeOK, Distinct
<1>4. \A ch \in Chain : Range(pool[ch]) \subseteq Admin BY <1>1, RangeOfSeq
<1>5. \A ch \in Chain, a \in Admin : <<ch, a>> \in IdleSlots <=> a \in Range(pool[ch])
  BY DEF IdleSlots, Slot
<1> QED BY <1>1, <1>2, <1>3, <1>4, <1>5

\* shiftSettleBase, shiftSettleConet and the polls take one idle slot.
LEMMA ShiftTakes ==
  ASSUME IInv, NEW c \in Client, NEW ch \in Chain, held[c] = {}, Shift(c, ch)
  PROVE  /\ TakesSlots(c, {<<ch, Head(pool[ch])>>})
         /\ pool' \in [Chain -> Seq(Admin)]
         /\ QueuesDistinct'
         /\ Head(pool[ch]) \in Admin
<1> DEFINE a == Head(pool[ch])
           q == Tail(pool[ch])
<1>1. /\ Distinct(pool[ch], Admin) /\ pool[ch] # <<>>
      /\ pool' = [pool EXCEPT ![ch] = q]
      /\ held' = [held EXCEPT ![c] = {<<ch, a>>}]
  BY Facts DEF QueuesDistinct, Shift, Occupy
<1>2. Distinct(q, Admin) /\ a \in Range(pool[ch]) /\ Range(q) = Range(pool[ch]) \ {a}
  BY <1>1, ShiftDistinct
<1>3. a \in Admin /\ q \in Seq(Admin) BY <1>2, Facts DEF Distinct
<1> HIDE DEF a, q
<1>4. /\ pool' \in [Chain -> Seq(Admin)]
      /\ IdleSlots' = {s \in IdleSlots : s[1] # ch} \cup OnChain(ch, Range(q))
  BY <1>1, <1>3, OneChain DEF IInv
<1>5. QueuesDistinct' BY <1>1, <1>2, Facts DEF QueuesDistinct
<1>6. <<ch, a>> \in IdleSlots BY <1>2, <1>3, Facts
<1>7. IdleSlots' = IdleSlots \ {<<ch, a>>}
  BY <1>2, <1>3, <1>4, Facts DEF OnChain, IdleSlots, Slot
<1>8. held' = [held EXCEPT ![c] = held[c] \cup {<<ch, a>>}] BY <1>1
<1>9. TakesSlots(c, {<<ch, a>>}) BY <1>6, <1>7, <1>8 DEF TakesSlots
<1> QED BY <1>3, <1>4, <1>5, <1>9 DEF a

\* withGenesisBridgeInitiatorBase takes one idle Base slot.
LEMMA GenesisBaseTakes ==
  ASSUME IInv, NEW c \in Client, held[c] = {}, shiftGenesisBridgeInitiatorBase(c)
  PROVE  /\ TakesSlots(c, {<<"base", GenesisInitiator>>})
         /\ pool' \in [Chain -> Seq(Admin)]
         /\ QueuesDistinct'
         /\ GenesisInitiator \in Admin
<1>1. PICK i \in DOMAIN pool["base"] :
        /\ pool["base"][i] = GenesisInitiator
        /\ pool' = [pool EXCEPT !["base"] = RemoveAt(@, i)]
        /\ held' = [held EXCEPT ![c] = {<<"base", GenesisInitiator>>}]
  BY DEF shiftGenesisBridgeInitiatorBase, Occupy
<1> DEFINE a == GenesisInitiator
           q == RemoveAt(pool["base"], i)
<1>2. "base" \in Chain BY DEF Chain
<1>3. Distinct(pool["base"], Admin) BY <1>2, Facts DEF QueuesDistinct
<1>4. Distinct(q, Admin) /\ a \in Range(pool["base"]) /\ Range(q) = Range(pool["base"]) \ {a}
  BY <1>1, <1>3, SpliceDistinct
<1>5. a \in Admin /\ q \in Seq(Admin) BY <1>2, <1>4, Facts DEF Distinct
<1>6. pool' = [pool EXCEPT !["base"] = q] BY <1>1
<1> HIDE DEF q
<1>7. /\ pool' \in [Chain -> Seq(Admin)]
      /\ IdleSlots' = {s \in IdleSlots : s[1] # "base"} \cup OnChain("base", Range(q))
  BY <1>2, <1>5, <1>6, OneChain DEF IInv
<1>8. QueuesDistinct' BY <1>4, <1>6, Facts DEF QueuesDistinct
<1>9. <<"base", a>> \in IdleSlots BY <1>2, <1>4, <1>5, Facts
<1>10. IdleSlots' = IdleSlots \ {<<"base", a>>}
  BY <1>2, <1>4, <1>5, <1>7, Facts DEF OnChain, IdleSlots, Slot
<1>11. held' = [held EXCEPT ![c] = held[c] \cup {<<"base", a>>}] BY <1>1
<1> QED BY <1>5, <1>7, <1>8, <1>9, <1>10, <1>11 DEF TakesSlots

\* shiftSettleBoth and withGenesisBridgeInitiatorBoth take both slots of a key.
LEMMA SpliceBothTakes ==
  ASSUME IInv, NEW c \in Client, held[c] = {},
         NEW i \in DOMAIN pool["base"], NEW j \in DOMAIN pool["conet"],
         IdleOnBoth(i, j), SpliceBoth(c, i, j)
  PROVE  /\ TakesSlots(c, Chain \X {pool["base"][i]})
         /\ pool' \in [Chain -> Seq(Admin)]
         /\ QueuesDistinct'
         /\ pool["base"][i] \in Admin
<1> DEFINE a == pool["base"][i]
           p == RemoveAt(pool["base"], i)
           q == RemoveAt(pool["conet"], j)
<1>1. /\ pool' = [pool EXCEPT !["base"] = p, !["conet"] = q]
      /\ held' = [held EXCEPT ![c] = Chain \X {a}]
      /\ pool["conet"][j] = a
  BY DEF SpliceBoth, Occupy, IdleOnBoth
<1>2. "base" \in Chain /\ "conet" \in Chain BY DEF Chain
<1>3. Distinct(pool["base"], Admin) /\ Distinct(pool["conet"], Admin)
  BY <1>2, Facts DEF QueuesDistinct
<1>4. Distinct(p, Admin) /\ a \in Range(pool["base"]) /\ Range(p) = Range(pool["base"]) \ {a}
  BY <1>3, SpliceDistinct
<1>5. Distinct(q, Admin) /\ a \in Range(pool["conet"]) /\ Range(q) = Range(pool["conet"]) \ {a}
  BY <1>1, <1>3, SpliceDistinct
<1>6. a \in Admin BY <1>2, <1>4, Facts
<1> HIDE DEF a, p, q
<1>7. pool'["base"] = p /\ pool'["conet"] = q /\ DOMAIN pool' = Chain
  BY <1>1, <1>2, Facts
<1>8. QueuesDistinct' BY <1>4, <1>5, <1>7 DEF QueuesDistinct, Chain
<1>9. pool' \in [Chain -> Seq(Admin)]
  BY <1>1, <1>2, <1>4, <1>5, Facts DEF Distinct
<1>10. \A ch \in Chain : a \in Range(pool[ch]) /\ Range(pool'[ch]) = Range(pool[ch]) \ {a}
  BY <1>4, <1>5, <1>7 DEF Chain
<1>11. Chain \X {a} \subseteq IdleSlots
  BY <1>6, <1>10 DEF IdleSlots, Slot
<1>12. IdleSlots' = IdleSlots \ (Chain \X {a})
  BY <1>6, <1>10 DEF IdleSlots, Slot
<1>13. held' = [held EXCEPT ![c] = held[c] \cup (Chain \X {a})] BY <1>1
<1>14. TakesSlots(c, Chain \X {a}) BY <1>11, <1>12, <1>13 DEF TakesSlots
<1> QED BY <1>6, <1>8, <1>9, <1>14 DEF a

\* The gas picker takes one more idle CoNET slot and remembers its key.
LEMMA TryNextTakes ==
  ASSUME IInv, NEW c \in Client, pool["conet"] # <<>>, TryNext(c),
         held[c] = {"conet"} \X Range(tried[c])
  PROVE  LET a == Head(pool["conet"])
         IN  /\ TakesSlots(c, {<<"conet", a>>})
             /\ pool' \in [Chain -> Seq(Admin)]
             /\ QueuesDistinct'
             /\ a \in Admin
             /\ Distinct(Append(tried[c], a), Admin)
             /\ Range(Append(tried[c], a)) = Range(tried[c]) \cup {a}
<1> DEFINE a == Head(pool["conet"])
           q == Tail(pool["conet"])
<1>0. "conet" \in Chain BY DEF Chain
<1>1. /\ Distinct(pool["conet"], Admin)
      /\ pool' = [pool EXCEPT !["conet"] = q]
      /\ held' = [held EXCEPT ![c] = held[c] \cup {<<"conet", a>>}]
  BY <1>0, Facts DEF QueuesDistinct, TryNext
<1>2. Distinct(q, Admin) /\ a \in Range(pool["conet"]) /\ Range(q) = Range(pool["conet"]) \ {a}
  BY <1>1, ShiftDistinct
<1>3. a \in Admin /\ q \in Seq(Admin) BY <1>0, <1>2, Facts DEF Distinct
<1> HIDE DEF a, q
<1>4. /\ pool' \in [Chain -> Seq(Admin)]
      /\ IdleSlots' = {s \in IdleSlots : s[1] # "conet"} \cup OnChain("conet", Range(q))
  BY <1>0, <1>1, <1>3, OneChain DEF IInv
<1>5. QueuesDistinct' BY <1>1, <1>2, Facts DEF QueuesDistinct
<1>6. <<"conet", a>> \in IdleSlots BY <1>0, <1>2, <1>3, Facts
<1>7. IdleSlots' = IdleSlots \ {<<"conet", a>>}
  BY <1>0, <1>2, <1>3, <1>4, Facts DEF OnChain, IdleSlots, Slot
<1>8. TakesSlots(c, {<<"conet", a>>}) BY <1>1, <1>6, <1>7 DEF TakesSlots
<1>9. a \notin Range(tried[c])
  <2>1. held[c] \cap IdleSlots = {} BY DEF IInv, SlotsExclusive
  <2>2. <<"conet", a>> \notin held[c] BY <2>1, <1>6
  <2> QED BY <2>2
<1>10. /\ Distinct(Append(tried[c], a), Admin)
       /\ Range(Append(tried[c], a)) = Range(tried[c]) \cup {a}
  BY <1>3, <1>9, Facts, PushDistinct
<1> QED BY <1>3, <1>4, <1>5, <1>8, <1>10 DEF a

\* The gas picker keeps its last key and gives back the ones it passed over.
LEMMA RelayFundedGivesBack ==
  ASSUME IInv, NEW c \in Client, RelayFunded(c)
  PROVE  /\ GivesBackSlots(c, {"conet"} \X Range(Front(tried[c])))
         /\ pool' \in [Chain -> Seq(Admin)]
         /\ QueuesDistinct'
         /\ Last(tried[c]) \in Admin
<1> DEFINE t == tried[c]
           f == Front(t)
           q == pool["conet"] \o f
<1>0. "conet" \in Chain BY DEF Chain
<1>1. /\ pc[c] = "picking"
      /\ pool' = [pool EXCEPT !["conet"] = q]
      /\ held' = [held EXCEPT ![c] = {<<"conet", Last(t)>>}]
  BY DEF RelayFunded
<1>2. /\ t # <<>> /\ Distinct(t, Admin)
      /\ held[c] = {"conet"} \X Range(t)
      /\ Distinct(pool["conet"], Admin)
  BY <1>0, <1>1, Facts DEF IInv, HeldMatchesPc, QueuesDistinct
<1> HIDE DEF t
<1>3. Distinct(f, Admin) /\ Last(t) \in Range(t) /\ Range(f) = Range(t) \ {Last(t)}
  BY <1>2, FrontLastDistinct
<1>4. Range(t) \subseteq Admin BY <1>2, RangeOfSeq DEF Distinct
<1>5. Range(pool["conet"]) \cap Range(f) = {}
  <2>1. held[c] \cap IdleSlots = {} BY DEF IInv, SlotsExclusive
  <2>2. ASSUME NEW a \in Range(f) PROVE a \notin Range(pool["conet"])
    BY <2>1, <1>0, <1>2, <1>3, <1>4, Facts
  <2> QED BY <2>2
<1> HIDE DEF f
<1>6. Distinct(q, Admin) /\ Range(q) = Range(pool["conet"]) \cup Range(f)
  <2>1. Distinct(pool["conet"], Admin) /\ Distinct(f, Admin) BY <1>2, <1>3
  <2>2. /\ Distinct(pool["conet"] \o f, Admin)
        /\ Range(pool["conet"] \o f) = Range(pool["conet"]) \cup Range(f)
    BY <2>1, <1>5, ConcatDistinct
  <2> QED BY <2>2
<1> HIDE DEF q
<1>7. /\ pool' \in [Chain -> Seq(Admin)]
      /\ IdleSlots' = {s \in IdleSlots : s[1] # "conet"} \cup OnChain("conet", Range(q))
  BY <1>0, <1>1, <1>6, OneChain DEF IInv, Distinct
<1>8. QueuesDistinct' BY <1>1, <1>6, Facts DEF QueuesDistinct
<1>9. IdleSlots' = IdleSlots \cup ({"conet"} \X Range(f))
  BY <1>0, <1>3, <1>4, <1>6, <1>7, Facts DEF OnChain, IdleSlots, Slot
<1>10. {<<"conet", Last(t)>>} = held[c] \ ({"conet"} \X Range(f))
  BY <1>2, <1>3
<1>11. GivesBackSlots(c, {"conet"} \X Range(f))
  BY <1>1, <1>2, <1>3, <1>9, <1>10 DEF GivesBackSlots
<1> QED BY <1>3, <1>4, <1>7, <1>8, <1>11 DEF f, t

\* With no key left to try, the gas picker gives all of them back.
LEMMA RelayAllGivesBack ==
  ASSUME IInv, NEW c \in Client, pc[c] = "picking", pool["conet"] = <<>>,
         pool' = [pool EXCEPT !["conet"] = tried[c]],
         held' = [held EXCEPT ![c] = {}]
  PROVE  /\ GivesBackSlots(c, held[c])
         /\ pool' \in [Chain -> Seq(Admin)]
         /\ QueuesDistinct'
<1>0. "conet" \in Chain BY DEF Chain
<1>1. Distinct(tried[c], Admin) /\ held[c] = {"conet"} \X Range(tried[c])
  BY Facts DEF IInv, HeldMatchesPc
<1>2. /\ pool' \in [Chain -> Seq(Admin)]
      /\ IdleSlots' = {s \in IdleSlots : s[1] # "conet"} \cup OnChain("conet", Range(tried[c]))
  BY <1>0, <1>1, OneChain DEF IInv, Distinct
<1>3. Range(pool["conet"]) = {} BY DEF Range
<1>4. \A s \in IdleSlots : s[1] # "conet" BY <1>3 DEF IdleSlots
<1>5. IdleSlots' = IdleSlots \cup held[c]
  BY <1>1, <1>2, <1>4 DEF OnChain
<1>6. QueuesDistinct' BY <1>0, <1>1, Facts DEF QueuesDistinct
<1>7. held' = [held EXCEPT ![c] = held[c] \ held[c]] BY <1>1
<1> QED BY <1>2, <1>5, <1>6, <1>7 DEF GivesBackSlots

\* unshiftSettleBase, unshiftSettleConet, unshiftSettleBoth give back all of it.
LEMMA UnshiftGivesBack ==
  ASSUME IInv, NEW c \in Client, NEW chains \in SUBSET Chain, Unshift(c, chains)
  PROVE  /\ GivesBackSlots(c, held[c])
         /\ pool' \in [Chain -> Seq(Admin)]
         /\ QueuesDistinct'
<1>1. PICK a \in Admin :
        /\ held[c] = chains \X {a}
        /\ pool' = [ch \in Chain |-> IF ch \in chains THEN <<a>> \o pool[ch] ELSE pool[ch]]
  BY DEF Unshift
<1>2. held[c] \cap IdleSlots = {} BY DEF IInv, SlotsExclusive
<1>3. \A ch \in chains : a \notin Range(pool[ch]) BY <1>1, <1>2, Facts
<1>4. ASSUME NEW ch \in Chain
      PROVE  /\ Distinct(pool'[ch], Admin)
             /\ Range(pool'[ch]) = IF ch \in chains THEN Range(pool[ch]) \cup {a}
                                   ELSE Range(pool[ch])
  <2>1. Distinct(pool[ch], Admin) BY Facts DEF QueuesDistinct
  <2>2. CASE ch \in chains
    BY <2>1, <2>2, <1>1, <1>3, UnshiftDistinct
  <2>3. CASE ch \notin chains
    BY <2>1, <2>3, <1>1
  <2> QED BY <2>2, <2>3
<1>5. QueuesDistinct' BY <1>4 DEF QueuesDistinct
<1>6. pool' \in [Chain -> Seq(Admin)] BY <1>1, <1>4 DEF Distinct
<1>7. IdleSlots' = IdleSlots \cup held[c]
  <2>1. held[c] \subseteq Slot BY Facts
  <2>2. ASSUME NEW s \in Slot
        PROVE  s[2] \in Range(pool'[s[1]]) <=> s[2] \in Range(pool[s[1]]) \/ s \in held[c]
    <3>1. PICK ch \in Chain, b \in Admin : s = <<ch, b>> BY <2>2 DEF Slot
    <3>2. <<ch, b>> \in held[c] <=> ch \in chains /\ b = a BY <1>1
    <3> QED BY <3>1, <3>2, <1>4
  <2> QED BY <2>1, <2>2 DEF IdleSlots
<1>8. held' = [held EXCEPT ![c] = held[c] \ held[c]] BY DEF Unshift
<1> QED BY <1>5, <1>6, <1>7, <1>8 DEF GivesBackSlots

------------------------------------------------------------------------------
(* The inductive invariant.                                                *)

\* A job that had nothing and takes one key on some chains is "holding".
LEMMA OccupyKeepsIInv ==
  ASSUME IInv, NEW c \in Client, NEW a \in Admin, NEW chains \in SUBSET Chain,
         chains # {}, held[c] = {}, pc[c] # "picking",
         Occupy(c, chains \X {a}), TakesSlots(c, chains \X {a}),
         pool' \in [Chain -> Seq(Admin)], QueuesDistinct'
  PROVE  IInv'
<1>1. /\ held' = [held EXCEPT ![c] = chains \X {a}]
      /\ pc' = [pc EXCEPT ![c] = "holding"]
      /\ UNCHANGED <<poolInitialized, tried>>
  BY DEF Occupy
<1>2. TypeOK'
  <2>1. chains \X {a} \subseteq Slot BY DEF Slot
  <2> QED BY <1>1, <2>1 DEF IInv, TypeOK
<1>3. SlotsExclusive' /\ NoSlotLost' BY <1>1, TakeStep DEF IInv
<1>4. HeldMatchesPc'
  BY <1>1 DEF IInv, TypeOK, HeldMatchesPc
<1>5. /\ \A d \in Client : IsInjective(tried'[d])
      /\ \A d \in Client : pc'[d] # "picking" => tried'[d] = <<>>
  BY <1>1 DEF IInv, TypeOK
<1>6. poolInitialized'
  <2>1. SUFFICES ASSUME ~poolInitialized PROVE FALSE BY <1>1
  <2>2. PICK ch \in chains : TRUE OBVIOUS
  <2>3. <<ch, a>> \in IdleSlots BY <2>2 DEF TakesSlots
  <2>4. pool[ch] = <<>> BY <2>1, <2>2 DEF IInv
  <2> QED BY <2>3, <2>4 DEF IdleSlots, Range
<1> QED BY <1>2, <1>3, <1>4, <1>5, <1>6 DEF IInv

\* A job that gives back everything is "idle".
LEMMA ReleaseKeepsIInv ==
  ASSUME IInv, NEW c \in Client, GivesBackSlots(c, held[c]), held[c] # {},
         held' = [held EXCEPT ![c] = {}],
         pc' = [pc EXCEPT ![c] = "idle"],
         tried' = [tried EXCEPT ![c] = <<>>],
         UNCHANGED poolInitialized,
         pool' \in [Chain -> Seq(Admin)], QueuesDistinct'
  PROVE  IInv'
<1>1. TypeOK' BY DEF IInv, TypeOK
<1>2. SlotsExclusive' /\ NoSlotLost' BY GiveBackStep DEF IInv
<1>3. HeldMatchesPc' BY DEF IInv, TypeOK, HeldMatchesPc
<1>4. /\ \A d \in Client : IsInjective(tried'[d])
      /\ \A d \in Client : pc'[d] # "picking" => tried'[d] = <<>>
  BY DEF IInv, TypeOK, IsInjective
<1>5. poolInitialized' BY DEF IInv
<1> QED BY <1>1, <1>2, <1>3, <1>4, <1>5 DEF IInv

LEMMA InitIInv == Init => IInv
<1> SUFFICES ASSUME Init PROVE IInv
  OBVIOUS
<1>1. TypeOK
  <2>1. <<>> \in Seq(Admin) BY EmptySeq
  <2> QED BY <2>1 DEF Init, TypeOK
<1>2. SlotsExclusive BY DEF Init, SlotsExclusive, IsInjective
<1>3. NoSlotLost BY DEF Init, NoSlotLost
<1>4. HeldMatchesPc BY DEF Init, HeldMatchesPc
<1>5. \A c \in Client : IsInjective(tried[c]) BY DEF Init, IsInjective
<1> QED BY <1>1, <1>2, <1>3, <1>4, <1>5 DEF Init, IInv

\* Filling the pools puts every slot in, once.
LEMMA FillKeepsIInv ==
  ASSUME IInv, initSettleContractPool
  PROVE  IInv'
<1>1. /\ ~poolInitialized /\ poolInitialized' = TRUE
      /\ pool = [ch \in Chain |-> <<>>] /\ held = [c \in Client |-> {}]
      /\ pool' = [ch \in Chain |-> pool[ch] \o Roster]
      /\ UNCHANGED <<held, tried, pc>>
  BY DEF IInv, initSettleContractPool
<1>2. /\ Roster \in Seq(Admin) /\ IsInjective(Roster)
      /\ <<>> \o Roster = Roster
  BY RosterAssumption, ConcatEmptySeq
<1>3. pool' = [ch \in Chain |-> Roster] BY <1>1, <1>2
<1>4. TypeOK' BY <1>1, <1>2, <1>3 DEF IInv, TypeOK
<1>5. IdleSlots' = Slot BY <1>3 DEF IdleSlots, Slot, Admin
<1>6. SlotsExclusive' BY <1>1, <1>2, <1>3 DEF SlotsExclusive
<1>7. NoSlotLost' BY <1>1, <1>5 DEF NoSlotLost
<1>8. HeldMatchesPc' BY <1>1 DEF IInv, HeldMatchesPc
<1> QED BY <1>1, <1>4, <1>6, <1>7, <1>8 DEF IInv

LEMMA StepIInv == IInv /\ [Next]_vars => IInv'
<1> SUFFICES ASSUME IInv, [Next]_vars PROVE IInv'
  OBVIOUS
<1> USE DEF IInv
<1>1. CASE initSettleContractPool BY <1>1, FillKeepsIInv
<1>2. ASSUME NEW c \in Client, NEW ch \in Chain, pc[c] \notin {"picking", "holding"},
             Shift(c, ch)
      PROVE  IInv'
  <2>1. held[c] = {} BY <1>2 DEF HeldMatchesPc
  <2>2. PICK a \in Admin :
          /\ a = Head(pool[ch])
          /\ TakesSlots(c, {<<ch, a>>})
          /\ Occupy(c, {<<ch, a>>})
          /\ pool' \in [Chain -> Seq(Admin)]
          /\ QueuesDistinct'
    BY <1>2, <2>1, ShiftTakes DEF Shift
  <2>3. {<<ch, a>>} = {ch} \X {a} /\ {ch} \in SUBSET Chain OBVIOUS
  <2> QED BY <1>2, <2>1, <2>2, <2>3, OccupyKeepsIInv
<1>3. ASSUME NEW c \in Client, pc[c] = "idle",
             NEW i \in DOMAIN pool["base"], NEW j \in DOMAIN pool["conet"],
             IdleOnBoth(i, j), SpliceBoth(c, i, j)
      PROVE  IInv'
  <2>1. held[c] = {} BY <1>3 DEF HeldMatchesPc
  <2>2. /\ TakesSlots(c, Chain \X {pool["base"][i]})
        /\ Occupy(c, Chain \X {pool["base"][i]})
        /\ pool["base"][i] \in Admin
        /\ pool' \in [Chain -> Seq(Admin)]
        /\ QueuesDistinct'
    BY <1>3, <2>1, SpliceBothTakes DEF SpliceBoth
  <2>3. Chain # {} /\ Chain \in SUBSET Chain BY DEF Chain
  <2> QED BY <1>3, <2>1, <2>2, <2>3, OccupyKeepsIInv
<1>4. ASSUME NEW c \in Client, Take(c) PROVE IInv'
  <2>1. CASE shiftSettleBase(c) BY <2>1, <1>2 DEF shiftSettleBase, Chain
  <2>2. CASE shiftSettleConet(c) BY <2>2, <1>2 DEF shiftSettleConet, Chain
  <2>3. CASE shiftSettleBoth(c) BY <2>3, <1>3 DEF shiftSettleBoth
  <2>4. CASE shiftGenesisBridgeInitiatorBase(c)
    <3>1. held[c] = {} /\ pc[c] = "idle"
      BY <2>4 DEF HeldMatchesPc, shiftGenesisBridgeInitiatorBase
    <3>2. /\ TakesSlots(c, {<<"base", GenesisInitiator>>})
          /\ Occupy(c, {<<"base", GenesisInitiator>>})
          /\ GenesisInitiator \in Admin
          /\ pool' \in [Chain -> Seq(Admin)]
          /\ QueuesDistinct'
      BY <2>4, <3>1, GenesisBaseTakes DEF shiftGenesisBridgeInitiatorBase
    <3>3. {<<"base", GenesisInitiator>>} = {"base"} \X {GenesisInitiator}
      OBVIOUS
    <3>4. {"base"} \in SUBSET Chain /\ {"base"} # {} BY DEF Chain
    <3>5. /\ TakesSlots(c, {"base"} \X {GenesisInitiator})
          /\ Occupy(c, {"base"} \X {GenesisInitiator})
      BY <3>2, <3>3
    <3> QED BY <3>1, <3>2, <3>4, <3>5, OccupyKeepsIInv
  <2>5. CASE shiftGenesisBridgeInitiatorBoth(c)
    BY <2>5, <1>3 DEF shiftGenesisBridgeInitiatorBoth
  <2> QED BY <1>4, <2>1, <2>2, <2>3, <2>4, <2>5 DEF Take
<1>5. ASSUME NEW c \in Client, NEW step \in {"idle", "pollingBase", "pollingConet"},
             pc[c] \in {"idle", "pollingBase", "pollingConet"},
             pc' = [pc EXCEPT ![c] = step],
             UNCHANGED <<poolInitialized, pool, held, tried>>
      PROVE  IInv'
  <2>1. TypeOK' BY <1>5 DEF TypeOK
  <2>2. SlotsExclusive' /\ NoSlotLost'
    BY <1>5 DEF SlotsExclusive, NoSlotLost, IdleSlots
  <2>3. held[c] = {} /\ tried[c] = <<>> BY <1>5 DEF HeldMatchesPc
  <2>4. HeldMatchesPc' BY <1>5, <2>3 DEF TypeOK, HeldMatchesPc
  <2>5. \A d \in Client : pc'[d] # "picking" => tried'[d] = <<>>
    BY <1>5, <2>3 DEF TypeOK
  <2> QED BY <1>5, <2>1, <2>2, <2>4, <2>5
<1>6. ASSUME NEW c \in Client, Poll(c) PROVE IInv'
  <2>1. CASE BeginPoll(c, "base") BY <2>1, <1>5 DEF BeginPoll
  <2>2. CASE BeginPoll(c, "conet") BY <2>2, <1>5 DEF BeginPoll
  <2>3. CASE shiftSettleContractForBaseWrite(c)
    BY <2>3, <1>2 DEF shiftSettleContractForBaseWrite, Chain
  <2>4. CASE shiftSettleContractForWrite(c)
    BY <2>4, <1>2 DEF shiftSettleContractForWrite, Chain
  <2>5. CASE PollTimeout(c) BY <2>5, <1>5 DEF PollTimeout
  <2> QED BY <1>6, <2>1, <2>2, <2>3, <2>4, <2>5 DEF Poll
<1>7. ASSUME NEW c \in Client, pool["conet"] # <<>>, TryNext(c),
             held[c] = {"conet"} \X Range(tried[c])
      PROVE  IInv'
  <2> DEFINE a == Head(pool["conet"])
             t == Append(tried[c], a)
  <2>1. /\ TakesSlots(c, {<<"conet", a>>})
        /\ pool' \in [Chain -> Seq(Admin)]
        /\ QueuesDistinct'
        /\ a \in Admin
        /\ Distinct(t, Admin)
        /\ Range(t) = Range(tried[c]) \cup {a}
    BY <1>7, TryNextTakes
  <2>2. /\ held' = [held EXCEPT ![c] = held[c] \cup {<<"conet", a>>}]
        /\ tried' = [tried EXCEPT ![c] = t]
        /\ pc' = [pc EXCEPT ![c] = "picking"]
        /\ UNCHANGED poolInitialized
    BY <1>7 DEF TryNext
  <2>3. t # <<>>
    <3>1. tried[c] \in Seq(Admin) BY DEF TypeOK
    <3> QED BY <2>1, <3>1, AppendProperties
  <2> HIDE DEF a, t
  <2>4. TypeOK'
    BY <2>1, <2>2 DEF TypeOK, Slot, Chain, Distinct
  <2>5. SlotsExclusive' /\ NoSlotLost' BY <2>1, <2>2, TakeStep
  <2>6. HeldMatchesPc'
    <3>1. held'[c] = {"conet"} \X Range(t)
      BY <1>7, <2>1, <2>2, Facts
    <3> QED BY <2>2, <2>3, <3>1 DEF TypeOK, HeldMatchesPc
  <2>7. /\ \A d \in Client : IsInjective(tried'[d])
        /\ \A d \in Client : pc'[d] # "picking" => tried'[d] = <<>>
    BY <2>1, <2>2 DEF TypeOK, Distinct
  <2>8. poolInitialized'
    <3>1. "conet" \in Chain BY DEF Chain
    <3> QED BY <1>7, <2>2, <3>1
  <2> QED BY <2>4, <2>5, <2>6, <2>7, <2>8
<1>8. ASSUME NEW c \in Client, RelayFunded(c) PROVE IInv'
  <2> DEFINE a == Last(tried[c])
  <2>1. /\ GivesBackSlots(c, {"conet"} \X Range(Front(tried[c])))
        /\ pool' \in [Chain -> Seq(Admin)]
        /\ QueuesDistinct'
        /\ a \in Admin
    BY <1>8, RelayFundedGivesBack
  <2>2. /\ pc[c] = "picking"
        /\ held' = [held EXCEPT ![c] = {<<"conet", a>>}]
        /\ tried' = [tried EXCEPT ![c] = <<>>]
        /\ pc' = [pc EXCEPT ![c] = "holding"]
        /\ UNCHANGED poolInitialized
    BY <1>8 DEF RelayFunded
  <2> HIDE DEF a
  <2>3. TypeOK' BY <2>1, <2>2 DEF TypeOK, Slot, Chain
  <2>4. SlotsExclusive' /\ NoSlotLost' BY <2>1, <2>2, GiveBackStep
  <2>5. HeldMatchesPc'
    <3>1. /\ {<<"conet", a>>} = {"conet"} \X {a}
          /\ {"conet"} \in SUBSET Chain /\ {"conet"} # {}
      BY DEF Chain
    <3>2. pc'[c] = "holding" /\ held'[c] = {"conet"} \X {a}
      BY <2>2, <3>1 DEF TypeOK
    <3>3. \A d \in Client : d # c => pc'[d] = pc[d] /\ held'[d] = held[d] /\ tried'[d] = tried[d]
      BY <2>2 DEF TypeOK
    <3>4. \E b \in Admin, chains \in SUBSET Chain : chains # {} /\ held'[c] = chains \X {b}
      BY <2>1, <3>1, <3>2
    <3> QED BY <3>2, <3>3, <3>4 DEF HeldMatchesPc
  <2>6. /\ \A d \in Client : IsInjective(tried'[d])
        /\ \A d \in Client : pc'[d] # "picking" => tried'[d] = <<>>
    BY <2>2 DEF TypeOK, IsInjective
  <2>7. poolInitialized'
    <3>1. tried[c] # <<>> /\ held[c] = {"conet"} \X Range(tried[c])
      BY <2>2 DEF HeldMatchesPc
    <3>2. Last(tried[c]) \in Range(tried[c]) BY <3>1, Facts, FrontLastDistinct
    <3>3. <<"conet", Last(tried[c])>> \in held[c] BY <3>1, <3>2
    <3> QED BY <3>3, <2>2
  <2> QED BY <2>3, <2>4, <2>5, <2>6, <2>7
<1>9. ASSUME NEW c \in Client, RelayUnderfunded(c) PROVE IInv'
  <2>1. pc[c] = "picking" /\ tried[c] # <<>> /\ held[c] = {"conet"} \X Range(tried[c])
    BY <1>9 DEF RelayUnderfunded, HeldMatchesPc
  <2>2. CASE pool["conet"] # <<>>
    BY <1>9, <2>1, <2>2, <1>7 DEF RelayUnderfunded
  <2>3. CASE pool["conet"] = <<>>
    <3>1. /\ pool' = [pool EXCEPT !["conet"] = tried[c]]
          /\ held' = [held EXCEPT ![c] = {}]
          /\ tried' = [tried EXCEPT ![c] = <<>>]
          /\ pc' = [pc EXCEPT ![c] = "idle"]
          /\ UNCHANGED poolInitialized
      BY <1>9, <2>3 DEF RelayUnderfunded
    <3>2. /\ GivesBackSlots(c, held[c])
          /\ pool' \in [Chain -> Seq(Admin)]
          /\ QueuesDistinct'
      BY <2>1, <2>3, <3>1, RelayAllGivesBack
    <3>3. Last(tried[c]) \in Range(tried[c]) BY <2>1, Facts, FrontLastDistinct
    <3>4. <<"conet", Last(tried[c])>> \in held[c] BY <2>1, <3>3
    <3> QED BY <3>1, <3>2, <3>4, ReleaseKeepsIInv
  <2> QED BY <2>2, <2>3
<1>10. ASSUME NEW c \in Client, Relay(c) PROVE IInv'
  <2>1. CASE RelayBegin(c)
    <3>1. held[c] = {} /\ tried[c] = <<>> BY <2>1 DEF RelayBegin, HeldMatchesPc
    <3>2. Range(tried[c]) = {} BY <3>1 DEF Range
    <3> QED BY <2>1, <3>1, <3>2, <1>7 DEF RelayBegin
  <2> QED BY <1>10, <2>1, <1>8, <1>9 DEF Relay
<1>11. ASSUME NEW c \in Client, NEW chains \in SUBSET Chain, chains # {}, Unshift(c, chains)
       PROVE IInv'
  <2>1. /\ GivesBackSlots(c, held[c])
        /\ pool' \in [Chain -> Seq(Admin)]
        /\ QueuesDistinct'
    BY <1>11, UnshiftGivesBack
  <2>2. held[c] # {}
    <3>1. PICK a \in Admin : held[c] = chains \X {a} BY <1>11 DEF Unshift
    <3>2. PICK ch \in chains : TRUE BY <1>11
    <3>3. <<ch, a>> \in held[c] BY <3>1, <3>2
    <3> QED BY <3>3
  <2>3. pc[c] = "holding" /\ tried' = tried BY <1>11 DEF Unshift
  <2>4. tried' = [tried EXCEPT ![c] = <<>>]
    <3>1. tried[c] = <<>> /\ tried \in [Client -> Seq(Admin)] BY <2>3 DEF TypeOK
    <3> QED BY <2>3, <3>1
  <2> QED BY <1>11, <2>1, <2>2, <2>4, ReleaseKeepsIInv DEF Unshift
<1>12. ASSUME NEW c \in Client, GiveBack(c) PROVE IInv'
  BY <1>12, <1>11
     DEF GiveBack, unshiftSettleBase, unshiftSettleConet, unshiftSettleBoth, Chain
<1>13. CASE UNCHANGED vars
  BY <1>13 DEF vars, TypeOK, SlotsExclusive, NoSlotLost, HeldMatchesPc, IdleSlots
<1> QED BY <1>1, <1>4, <1>6, <1>10, <1>12, <1>13 DEF Next

\* IInv holds in every reachable state.
THEOREM Invariance == Spec => []IInv
<1> QED BY InitIInv, StepIInv, PTL DEF Spec

\* The pool never has one nonce sequence in two hands (settleContractPool.ts:42-44).
THEOREM SlotsStayExclusive == Spec => []SlotsExclusive
<1> QED BY Invariance, PTL DEF IInv

\* No key is ever lost from either chain's pool.
THEOREM SlotsAreConserved == Spec => []NoSlotLost
<1> QED BY Invariance, PTL DEF IInv

\* The variables have their types, and what a job holds fits where it is.
THEOREM TypeCorrect == Spec => [](TypeOK /\ HeldMatchesPc)
<1> QED BY Invariance, PTL DEF IInv

------------------------------------------------------------------------------
(* Refinement of SettleSlots.                                              *)

\* "The owner" is the one job that holds the slot.
OwnerIsHolder ==
  /\ owner \in [Slot -> Client \cup {Nobody}]
  /\ \A s \in Slot, c \in Client : owner[s] = c <=> s \in held[c]
  /\ \A s \in Slot : owner[s] = Nobody <=> \A c \in Client : s \notin held[c]

\* Exclusivity makes it so.
LEMMA OwnerOfSlot == TypeOK /\ SlotsExclusive => OwnerIsHolder
<1> SUFFICES ASSUME TypeOK, SlotsExclusive PROVE OwnerIsHolder
  OBVIOUS
<1> SUFFICES ASSUME NEW s \in Slot
             PROVE  /\ owner[s] \in Client \cup {Nobody}
                    /\ \A c \in Client : owner[s] = c <=> s \in held[c]
                    /\ owner[s] = Nobody <=> \A c \in Client : s \notin held[c]
  BY DEF owner, OwnerIsHolder
<1>1. CASE \E c \in Client : s \in held[c]
  <2>1. owner[s] \in Client /\ s \in held[owner[s]]
    BY <1>1 DEF owner
  <2>2. \A c \in Client : s \in held[c] => c = owner[s]
    BY <2>1 DEF SlotsExclusive
  <2> QED BY <1>1, <2>1, <2>2, NobodyIsNoClient
<1>2. CASE ~\E c \in Client : s \in held[c]
  BY <1>2, NobodyIsNoClient DEF owner
<1> QED BY <1>1, <1>2

\* A step that takes idle slots is an Occupy step of SettleSlots.
LEMMA TakeIsOccupy ==
  ASSUME IInv, IInv', NEW c \in Client, NEW S, TakesSlots(c, S)
  PROVE  Slots!Next
<1>1. /\ S \in SUBSET Slot
      /\ \A d \in Client : held[d] \cap S = {}
      /\ held'[c] = held[c] \cup S
      /\ \A d \in Client : d # c => held'[d] = held[d]
  BY DEF IInv, TypeOK, SlotsExclusive, TakesSlots, IdleSlots
<1>2. /\ \A s \in Slot, d \in Client : owner[s] = d <=> s \in held[d]
      /\ \A s \in Slot : owner[s] = Nobody <=> \A d \in Client : s \notin held[d]
      /\ owner \in [Slot -> Client \cup {Nobody}]
  BY OwnerOfSlot DEF IInv, OwnerIsHolder
<1>3. /\ \A s \in Slot, d \in Client : owner'[s] = d <=> s \in held'[d]
      /\ \A s \in Slot : owner'[s] = Nobody <=> \A d \in Client : s \notin held'[d]
      /\ owner' \in [Slot -> Client \cup {Nobody}]
  <2>1. (TypeOK /\ SlotsExclusive)' BY DEF IInv
  <2>2. (TypeOK /\ SlotsExclusive => OwnerIsHolder)' BY OwnerOfSlot, PTL
  <2> QED BY <2>1, <2>2 DEF OwnerIsHolder
<1>4. \A s \in S : owner[s] = Nobody BY <1>1, <1>2
<1>5. ASSUME NEW s \in Slot PROVE owner'[s] = IF s \in S THEN c ELSE owner[s]
  <2>1. CASE s \in S BY <2>1, <1>1, <1>3
  <2>2. CASE s \notin S
    <3>1. \A d \in Client : s \in held'[d] <=> s \in held[d] BY <2>2, <1>1
    <3> QED BY <2>2, <3>1, <1>2, <1>3
  <2> QED BY <2>1, <2>2
<1>6. owner' = [s \in Slot |-> IF s \in S THEN c ELSE owner[s]] BY <1>3, <1>5
<1>7. Slots!Occupy(c, S) BY <1>4, <1>6 DEF Slots!Occupy, Slots!Slot, Slots!Chain, Slot, Chain
<1> QED BY <1>1, <1>7 DEF Slots!Next, Slots!Slot, Slots!Chain, Slot, Chain

\* A step that gives slots back is a Vacate step of SettleSlots.
LEMMA GiveBackIsVacate ==
  ASSUME IInv, IInv', NEW c \in Client, NEW S, GivesBackSlots(c, S)
  PROVE  Slots!Next
<1>1. /\ S \in SUBSET Slot
      /\ S \subseteq held[c]
      /\ \A d \in Client : d # c => held[d] \cap S = {}
      /\ held'[c] = held[c] \ S
      /\ \A d \in Client : d # c => held'[d] = held[d]
  BY DEF IInv, TypeOK, SlotsExclusive, GivesBackSlots
<1>2. /\ \A s \in Slot, d \in Client : owner[s] = d <=> s \in held[d]
      /\ \A s \in Slot : owner[s] = Nobody <=> \A d \in Client : s \notin held[d]
      /\ owner \in [Slot -> Client \cup {Nobody}]
  BY OwnerOfSlot DEF IInv, OwnerIsHolder
<1>3. /\ \A s \in Slot, d \in Client : owner'[s] = d <=> s \in held'[d]
      /\ \A s \in Slot : owner'[s] = Nobody <=> \A d \in Client : s \notin held'[d]
      /\ owner' \in [Slot -> Client \cup {Nobody}]
  <2>1. (TypeOK /\ SlotsExclusive)' BY DEF IInv
  <2>2. (TypeOK /\ SlotsExclusive => OwnerIsHolder)' BY OwnerOfSlot, PTL
  <2> QED BY <2>1, <2>2 DEF OwnerIsHolder
<1>4. ASSUME NEW s \in Slot PROVE owner'[s] = IF s \in S THEN Nobody ELSE owner[s]
  <2>1. CASE s \in S BY <2>1, <1>1, <1>3
  <2>2. CASE s \notin S
    <3>1. \A d \in Client : s \in held'[d] <=> s \in held[d] BY <2>2, <1>1
    <3> QED BY <2>2, <3>1, <1>2, <1>3
  <2> QED BY <2>1, <2>2
<1>5. owner' = [s \in Slot |-> IF s \in S THEN Nobody ELSE owner[s]] BY <1>3, <1>4
<1>6. S \subseteq Slots!Owned(c)
  BY <1>1, <1>2 DEF Slots!Owned, Slots!Slot, Slots!Chain, Slot, Chain
<1>7. Slots!Vacate(c, S) BY <1>5, <1>6 DEF Slots!Vacate, Slots!Slot, Slots!Chain, Slot, Chain
<1> QED BY <1>1, <1>7 DEF Slots!Next, Slots!Slot, Slots!Chain, Slot, Chain

\* A step that moves no slot is a stutter of SettleSlots.
LEMMA StutterOwner ==
  ASSUME UNCHANGED held
  PROVE  UNCHANGED owner
BY DEF owner

LEMMA StepRefines ==
  ASSUME IInv, [Next]_vars
  PROVE  [Slots!Next]_owner
<1>0. IInv' BY StepIInv
<1>1. CASE initSettleContractPool BY <1>1, StutterOwner DEF initSettleContractPool
<1>2. CASE UNCHANGED vars BY <1>2, StutterOwner DEF vars
<1>3. ASSUME NEW c \in Client, NEW ch \in Chain, held[c] = {}, Shift(c, ch)
      PROVE  Slots!Next
  BY <1>0, <1>3, ShiftTakes, TakeIsOccupy
<1>4. ASSUME NEW c \in Client, held[c] = {},
             NEW i \in DOMAIN pool["base"], NEW j \in DOMAIN pool["conet"],
             IdleOnBoth(i, j), SpliceBoth(c, i, j)
      PROVE  Slots!Next
  BY <1>0, <1>4, SpliceBothTakes, TakeIsOccupy
<1>5. ASSUME NEW c \in Client, Take(c) PROVE Slots!Next
  <2>1. held[c] = {}
    BY <1>5 DEF IInv, HeldMatchesPc, Take, shiftSettleBase, shiftSettleConet,
                shiftSettleBoth, shiftGenesisBridgeInitiatorBase,
                shiftGenesisBridgeInitiatorBoth
  <2>2. CASE shiftGenesisBridgeInitiatorBase(c)
    BY <1>0, <2>1, <2>2, GenesisBaseTakes, TakeIsOccupy
  <2> QED BY <1>3, <1>4, <1>5, <2>1, <2>2
          DEF Take, shiftSettleBase, shiftSettleConet, shiftSettleBoth,
              shiftGenesisBridgeInitiatorBoth, Chain
<1>6. ASSUME NEW c \in Client, Poll(c) PROVE Slots!Next \/ UNCHANGED held
  <2>1. pc[c] \notin {"picking", "holding"} => held[c] = {} BY DEF IInv, HeldMatchesPc
  <2> QED BY <1>3, <1>6, <2>1
          DEF Poll, BeginPoll, PollTimeout, shiftSettleContractForBaseWrite,
              shiftSettleContractForWrite, Chain
<1>7. ASSUME NEW c \in Client, Relay(c) PROVE Slots!Next
  <2>1. ASSUME pool["conet"] # <<>>, TryNext(c), held[c] = {"conet"} \X Range(tried[c])
        PROVE  Slots!Next
    BY <1>0, <2>1, TryNextTakes, TakeIsOccupy
  <2>2. CASE RelayBegin(c)
    <3>1. held[c] = {} /\ tried[c] = <<>> BY <2>2 DEF RelayBegin, IInv, HeldMatchesPc
    <3>2. Range(tried[c]) = {} BY <3>1 DEF Range
    <3> QED BY <2>1, <2>2, <3>1, <3>2 DEF RelayBegin
  <2>3. CASE RelayFunded(c) BY <1>0, <2>3, RelayFundedGivesBack, GiveBackIsVacate
  <2>4. CASE RelayUnderfunded(c)
    <3>1. held[c] = {"conet"} \X Range(tried[c])
      BY <2>4 DEF RelayUnderfunded, IInv, HeldMatchesPc
    <3>2. CASE pool["conet"] # <<>>
      BY <2>1, <2>4, <3>1, <3>2 DEF RelayUnderfunded
    <3>3. CASE pool["conet"] = <<>>
      BY <1>0, <2>4, <3>3, RelayAllGivesBack, GiveBackIsVacate DEF RelayUnderfunded
    <3> QED BY <3>2, <3>3
  <2> QED BY <1>7, <2>2, <2>3, <2>4 DEF Relay
<1>8. ASSUME NEW c \in Client, GiveBack(c) PROVE Slots!Next
  <2>1. PICK chains \in SUBSET Chain : Unshift(c, chains)
    BY <1>8 DEF GiveBack, unshiftSettleBase, unshiftSettleConet, unshiftSettleBoth, Chain
  <2> QED BY <1>0, <2>1, UnshiftGivesBack, GiveBackIsVacate
<1> QED BY <1>1, <1>2, <1>5, <1>6, <1>7, <1>8, StutterOwner DEF Next

\* The pool implements SettleSlots.
THEOREM Refinement == Spec => SlotsSpec
<1>1. Init => Slots!Init
  BY DEF Init, Slots!Init, owner, Slots!Slot, Slots!Chain, Slot, Chain
<1>2. IInv /\ [Next]_vars => [Slots!Next]_owner BY StepRefines
<1> QED BY <1>1, <1>2, Invariance, PTL DEF Spec, SlotsSpec, Slots!Spec
------------------------------------------------------------------------------
(* The presses.  A worker's call is the only step that moves a request out *)
(* of a queue, but for the redeem's, which hands its key on; what both do  *)
(* to the pool is a Take or a GiveBack, or an exchange of the holder.      *)

\* ChainsOf by kind.
LEMMA ChainsOfKind ==
  ASSUME NEW j \in Client
  PROVE  /\ ChainsOf(j) \in SUBSET Chain
         /\ ChainsOf(j) # {}
         /\ kind[j] \notin {"base", "both"} => ChainsOf(j) = {"conet"}
         /\ kind[j] = "base" => ChainsOf(j) = {"base"}
         /\ kind[j] = "both" => ChainsOf(j) = Chain
BY DEF ChainsOf, Chain

\* The mix does not change, and what is said of it.
LEMMA MixStays ==
  ASSUME UNCHANGED mix
  PROVE  /\ worker' = worker /\ kind' = kind
         /\ \A j \in Client : ChainsOf(j)' = ChainsOf(j)
BY DEF worker, kind, ChainsOf

\* A mix gives every request a worker and a kind.
LEMMA MixFacts ==
  ASSUME PressTypeOK
  PROVE  /\ worker \in [Client -> Worker]
         /\ kind \in [Client -> Kind]
         /\ \A i, j \in Client : worker[i] = worker[j] /\ kind[i] = "redeem" => kind[j] = "redeem"
BY PressAssumption DEF PressTypeOK, worker, kind

\* A worker that finds a key takes one on the chains of the request's kind.
LEMMA ShiftSlotTakes ==
  ASSUME PressTypeOK, IInv, NEW j \in Client, ShiftSlot(j)
  PROVE  /\ IInv'
         /\ pc[j] = "idle"
         /\ pc' = [pc EXCEPT ![j] = "holding"]
         /\ \E a \in Admin : held' = [held EXCEPT ![j] = ChainsOf(j) \X {a}]
<1>1. Take(j)
  BY DEF ShiftSlot, Take
<1>2. IInv'
  BY <1>1, StepIInv DEF Next
<1>3. ASSUME NEW ch \in Chain, Shift(j, ch)
      PROVE  \E a \in Admin : held' = [held EXCEPT ![j] = {ch} \X {a}]
  <2>1. held' = [held EXCEPT ![j] = {<<ch, Head(pool[ch])>>}] /\ pool[ch] # <<>>
    BY <1>3 DEF Shift, Occupy
  <2>2. Head(pool[ch]) \in Admin
    <3>1. pool[ch] \in Seq(Admin) BY DEF IInv, TypeOK
    <3> QED BY <2>1, <3>1
  <2>3. {<<ch, Head(pool[ch])>>} = {ch} \X {Head(pool[ch])}
    OBVIOUS
  <2> QED BY <2>1, <2>2, <2>3
<1>4. CASE kind[j] = "base"
  BY <1>2, <1>3, <1>4 DEF ShiftSlot, shiftSettleBase, Shift, Occupy, ChainsOf, Chain
<1>5. CASE kind[j] = "both"
  <2>1. PICK i \in DOMAIN pool["base"], l \in DOMAIN pool["conet"] :
          pc[j] = "idle" /\ SpliceBoth(j, i, l)
    BY <1>5 DEF ShiftSlot, shiftSettleBoth
  <2>2. pool["base"][i] \in Admin
    <3>1. pool["base"] \in Seq(Admin) BY DEF IInv, TypeOK, Chain
    <3> QED BY <2>1, <3>1
  <2>3. ChainsOf(j) = Chain
    BY <1>5, ChainsOfKind
  <2> QED BY <1>2, <2>1, <2>2, <2>3 DEF SpliceBoth, Occupy
<1>6. CASE kind[j] \notin {"base", "both"}
  BY <1>2, <1>3, <1>6 DEF ShiftSlot, shiftSettleConet, Shift, Occupy, ChainsOf, Chain
<1> QED BY <1>4, <1>5, <1>6

\* A finally block gives back what the run held.
LEMMA UnshiftSlotGivesBack ==
  ASSUME IInv, NEW j \in Client, UnshiftSlot(j)
  PROVE  /\ IInv'
         /\ pc' = [pc EXCEPT ![j] = "idle"]
         /\ held' = [held EXCEPT ![j] = {}]
<1>1. GiveBack(j) /\ \E chains \in SUBSET Chain : Unshift(j, chains)
  BY DEF UnshiftSlot, GiveBack, unshiftSettleBase, unshiftSettleConet, unshiftSettleBoth, Chain
<1>2. IInv'
  BY <1>1, StepIInv DEF Next
<1> QED BY <1>1, <1>2 DEF Unshift

\* The redeem's finally block and the call after it, in one step: the next
\* request of the queue has the key.
LEMMA HandoverKeepsIInv ==
  ASSUME IInv, NEW j \in Client, NEW n \in Client, j # n,
         NEW a \in Admin, NEW chains \in SUBSET Chain, chains # {},
         held[j] = chains \X {a}, held[n] = {}, pc[n] = "idle", pc[j] = "holding",
         held' = [held EXCEPT ![j] = {}, ![n] = held[j]],
         pc' = [pc EXCEPT ![j] = "idle", ![n] = "holding"],
         UNCHANGED <<poolInitialized, pool, tried>>
  PROVE  IInv'
<1>1. /\ held \in [Client -> SUBSET Slot]
      /\ held'[j] = {} /\ held'[n] = held[j]
      /\ \A c \in Client : c # j /\ c # n => held'[c] = held[c] /\ pc'[c] = pc[c]
      /\ pc'[j] = "idle" /\ pc'[n] = "holding"
  BY DEF IInv, TypeOK
<1>2. TypeOK'
  BY <1>1 DEF IInv, TypeOK
<1>3. IdleSlots' = IdleSlots
  BY DEF IdleSlots
<1>4. SlotsExclusive'
  <2>1. \A c \in Client : held'[c] \cap IdleSlots' = {}
    BY <1>1, <1>3 DEF IInv, SlotsExclusive
  <2>2. ASSUME NEW c \in Client, NEW d \in Client, c # d PROVE held'[c] \cap held'[d] = {}
    <3>1. \A x, y \in Client : x # y => held[x] \cap held[y] = {}
      BY DEF IInv, SlotsExclusive
    <3>2. CASE c = j \/ d = j
      BY <1>1, <3>2
    <3>3. CASE c = n /\ d # j
      BY <1>1, <2>2, <3>1, <3>3
    <3>4. CASE d = n /\ c # j
      BY <1>1, <2>2, <3>1, <3>4
    <3>5. CASE c \notin {j, n} /\ d \notin {j, n}
      BY <1>1, <2>2, <3>1, <3>5
    <3> QED BY <3>2, <3>3, <3>4, <3>5
  <2> QED BY <2>1, <2>2 DEF IInv, SlotsExclusive
<1>5. NoSlotLost'
  <2>1. UNION {held'[c] : c \in Client} = UNION {held[c] : c \in Client}
    BY <1>1
  <2> QED BY <1>3, <2>1 DEF IInv, NoSlotLost
<1>6. HeldMatchesPc'
  <2> SUFFICES ASSUME NEW c \in Client
               PROVE  /\ pc'[c] = "holding" => \E b \in Admin, cs \in SUBSET Chain :
                                                  cs # {} /\ held'[c] = cs \X {b}
                      /\ pc'[c] = "picking" => /\ tried'[c] # <<>>
                                               /\ held'[c] = {"conet"} \X Range(tried'[c])
                      /\ pc'[c] \notin {"holding", "picking"} => held'[c] = {}
    BY DEF HeldMatchesPc
  <2>1. CASE c = j BY <1>1, <2>1
  <2>2. CASE c = n BY <1>1, <2>2
  <2>3. CASE c # j /\ c # n
    <3>1. pc'[c] = pc[c] /\ held'[c] = held[c] /\ tried'[c] = tried[c]
      BY <1>1, <2>3
    <3>2. /\ pc[c] = "holding" => \E b \in Admin, cs \in SUBSET Chain :
                                    cs # {} /\ held[c] = cs \X {b}
          /\ pc[c] = "picking" => /\ tried[c] # <<>>
                                  /\ held[c] = {"conet"} \X Range(tried[c])
          /\ pc[c] \notin {"holding", "picking"} => held[c] = {}
      <4>1. HeldMatchesPc BY DEF IInv
      <4> QED BY <4>1 DEF HeldMatchesPc
    <3> QED BY <3>1, <3>2
  <2> QED BY <2>1, <2>2, <2>3
<1>7. \A c \in Client : IsInjective(tried[c])'
  BY DEF IInv
<1>8. \A c \in Client : pc'[c] # "picking" => tried'[c] = <<>>
  BY <1>1 DEF IInv
<1>9. poolInitialized'
  <2>1. PICK ch \in chains : TRUE OBVIOUS
  <2>2. <<ch, a>> \in held[j] BY <2>1
  <2> QED BY <2>2 DEF IInv
<1> QED BY <1>2, <1>4, <1>5, <1>6, <1>7, <1>8, <1>9 DEF IInv

\* A worker's call on the queue q with t timers left, when the requests are at
\* the stages st: it keeps the invariant, if all but w is watched.
LEMMA WorkerCall ==
  ASSUME PressTypeOK, IInv, NEW w \in Worker, NEW q \in Seq(Client), NEW t \in Nat,
         NEW st \in [Client -> Stage], NEW q0, q0 = [queue EXCEPT ![w] = q],
         arrived' \in [Worker -> Seq(Client)],
         \A v \in Worker : /\ IsInjective(arrived'[v])
                           /\ \A j \in Range(arrived'[v]) : worker[j] = v /\ st[j] # "new",
         Lined(arrived', q0), Waiting(q0, st), Working(st),
         \A v \in Worker : v # w => Watched(v, queue, timers, st),
         Process(w, q, t), Started(w, st), UNCHANGED <<mix, sending, unseen>>
  PROVE  PressIInv'
<1>1. /\ queue \in [Worker -> Seq(Client)] /\ q0 \in [Worker -> Seq(Client)]
      /\ q0[w] = q /\ \A v \in Worker : v # w => q0[v] = queue[v]
      /\ timers \in [Worker -> Nat] /\ started \in [Worker -> Seq(Client)]
      /\ worker' = worker /\ kind' = kind
  BY DEF PressTypeOK, worker, kind
<1>2. \A j \in Client : ChainsOf(j)' = ChainsOf(j)
  BY <1>1 DEF ChainsOf
<1>3. ASSUME queue' = q0, timers' \in [Worker -> Nat], q # <<>> => timers'[w] > 0,
             \A v \in Worker : v # w => timers'[v] = timers[v],
             UNCHANGED <<vars, started>>
      PROVE  PressIInv'
  <2>1. stage' = st
    BY <1>3 DEF Started
  <2>2. PressTypeOK'
    BY <1>1, <1>3, <2>1 DEF PressTypeOK
  <2>3. IInv'
    BY <1>3, StepIInv
  <2>4. Lined(arrived, queue)'
    BY <1>3 DEF Lined
  <2>5. ArrivedOnce'
    BY <1>1, <2>1 DEF ArrivedOnce
  <2>6. Waiting(queue, stage)'
    BY <1>1, <1>3, <2>1 DEF Waiting
  <2>7. Working(stage)'
    BY <1>3, <2>1, MixStays DEF Working, AtWork, AtRest, LeftBehind, vars
  <2>8. QueuesWatched'
    BY <1>1, <1>3, <2>1 DEF QueuesWatched, Watched
  <2> QED BY <2>2, <2>3, <2>4, <2>5, <2>6, <2>7, <2>8 DEF PressIInv
<1>4. CASE q = <<>> /\ queue' = q0 /\ timers' = [timers EXCEPT ![w] = t]
           /\ UNCHANGED <<vars, started>>
  BY <1>1, <1>3, <1>4
<1>5. CASE q # <<>> /\ queue' = q0 /\ timers' = [timers EXCEPT ![w] = t + 1]
           /\ UNCHANGED <<vars, started>>
  <2>1. /\ timers' \in [Worker -> Nat] /\ timers'[w] > 0
        /\ \A v \in Worker : v # w => timers'[v] = timers[v]
    BY <1>1, <1>5
  <2> QED BY <1>3, <1>5, <2>1
<1>6. ASSUME q # <<>>, ShiftSlot(Head(q)),
             queue' = [queue EXCEPT ![w] = Tail(q)],
             timers' = [timers EXCEPT ![w] = t],
             started' = [started EXCEPT ![w] = Append(@, Head(q))]
      PROVE  PressIInv'
  <2> DEFINE h == Head(q)
  <2>1. /\ h \in Client /\ Tail(q) \in Seq(Client)
        /\ q = <<h>> \o Tail(q)
    BY <1>6
  <2>2. /\ Distinct(q, Client) /\ Distinct(Tail(q), Client)
        /\ h \in Range(q) /\ Range(Tail(q)) = Range(q) \ {h}
    <3>1. Distinct(q, Client)
      BY <1>1 DEF Waiting, Distinct
    <3> QED BY <1>6, <3>1, ShiftDistinct
  <2>3. worker[h] = w /\ st[h] = "queued"
    BY <1>1, <2>2 DEF Waiting
  <2>4. /\ started'[w] = Append(started[w], h)
        /\ started'[w] # started[w]
        /\ Last(started'[w]) = h
        /\ started'[w] \in Seq(Client)
        /\ \A v \in Worker : v # w => started'[v] = started[v]
        /\ Append(started[w], h) \o Tail(q) = started[w] \o q
    <3>1. started[w] \in Seq(Client)
      BY <1>1
    <3>2. started'[w] = Append(started[w], h) /\ \A v \in Worker : v # w => started'[v] = started[v]
      BY <1>1, <1>6
    <3>3. Append(started[w], h) \in Seq(Client) /\ Len(Append(started[w], h)) = Len(started[w]) + 1
      BY <2>1, <3>1
    <3>4. Len(started[w]) \in Nat
      BY <3>1
    <3>5. Append(started[w], h)[Len(started[w]) + 1] = h
      BY <2>1, <3>1
    <3>6. Append(started[w], h) \o Tail(q) = started[w] \o q
      BY <1>6, <3>1, AppendAssoc
    <3>7. Append(started[w], h) # started[w]
      BY <3>3, <3>4
    <3>8. Last(Append(started[w], h)) = h
      BY <3>3, <3>5 DEF Last
    <3> HIDE DEF h
    <3> QED BY <3>2, <3>3, <3>6, <3>7, <3>8
  <2>5. stage' = [st EXCEPT ![h] = "running"]
    BY <2>4 DEF Started
  <2>6. /\ IInv'
        /\ pc[h] = "idle" /\ pc' = [pc EXCEPT ![h] = "holding"]
        /\ \E a \in Admin : held' = [held EXCEPT ![h] = ChainsOf(h) \X {a}]
    BY <1>6, <2>1, ShiftSlotTakes
  <2> HIDE DEF h
  <2>7. queue'[w] = Tail(q) /\ \A v \in Worker : v # w => queue'[v] = queue[v]
    BY <1>1, <1>6 DEF h
  <2>8. PressTypeOK'
    <3>1. queue' \in [Worker -> Seq(Client)] /\ timers' \in [Worker -> Nat]
      BY <1>1, <1>6, <2>1
    <3>2. stage' \in [Client -> Stage]
      BY <2>5 DEF Stage
    <3>3. started' \in [Worker -> Seq(Client)]
      BY <1>1, <1>6, <2>4
    <3> QED BY <3>1, <3>2, <3>3 DEF PressTypeOK
  <2>9. Lined(arrived, queue)'
    <3> SUFFICES ASSUME NEW v \in Worker PROVE arrived'[v] = started'[v] \o queue'[v]
      BY DEF Lined
    <3>1. CASE v = w
      BY <1>1, <2>4, <2>7, <3>1 DEF Lined
    <3>2. CASE v # w
      BY <1>1, <2>4, <2>7, <3>2 DEF Lined
    <3> QED BY <3>1, <3>2
  <2>10. ArrivedOnce'
    BY <1>1, <2>5 DEF ArrivedOnce
  <2>11. Waiting(queue, stage)'
    <3>1. ASSUME NEW v \in Worker
          PROVE  /\ IsInjective(queue'[v])
                 /\ \A j \in Range(queue'[v]) : worker[j] = v /\ stage'[j] = "queued"
      <4>1. CASE v = w
        <5>1. ASSUME NEW j \in Range(Tail(q)) PROVE worker[j] = w /\ stage'[j] = "queued"
          <6>1. j \in Range(q) /\ j # h
            BY <2>2
          <6>2. j \in Client
            BY <6>1, RangeOfSeq
          <6> QED BY <1>1, <2>5, <6>1, <6>2 DEF Waiting
        <5> QED BY <2>2, <2>7, <4>1, <5>1 DEF Distinct
      <4>2. CASE v # w
        <5>1. q0[v] \in Seq(Client) /\ queue'[v] = q0[v]
          BY <1>1, <2>7, <4>2
        <5>2. ASSUME NEW j \in Range(q0[v]) PROVE worker[j] = v /\ stage'[j] = "queued"
          <6>1. j \in Client
            BY <5>1, RangeOfSeq
          <6>2. worker[j] = v /\ st[j] = "queued"
            BY DEF Waiting
          <6> QED BY <2>3, <2>5, <4>2, <6>1, <6>2
        <5> QED BY <5>1, <5>2 DEF Waiting
      <4> QED BY <4>1, <4>2
    <3>2. ASSUME NEW j \in Client, stage'[j] = "queued"
          PROVE  j \in Range(queue'[worker[j]])
      <4>1. j # h /\ st[j] = "queued"
        BY <2>1, <2>5, <3>2 DEF Stage
      <4>2. j \in Range(q0[worker[j]]) /\ worker[j] \in Worker
        BY <4>1, MixFacts DEF Waiting
      <4> QED BY <1>1, <2>2, <2>7, <4>1, <4>2
    <3> QED BY <1>1, <3>1, <3>2 DEF Waiting
  <2>12. Working(stage)'
    <3>1. sending' = sending
      OBVIOUS
    <3>2. PICK a \in Admin : held' = [held EXCEPT ![h] = ChainsOf(h) \X {a}]
      BY <2>6
    <3>3. held \in [Client -> SUBSET Slot] /\ pc \in [Client -> {"idle", "pollingBase", "pollingConet", "picking", "holding"}]
      BY DEF IInv, TypeOK
    <3>4. /\ stage'[h] = "running" /\ pc'[h] = "holding" /\ held'[h] = ChainsOf(h) \X {a}
          /\ sending[h] = {}
      <4>1. sending[h] = {}
        BY <2>1, <2>3 DEF Working, AtRest, Active
      <4> QED BY <2>1, <2>5, <2>6, <3>2, <3>3, <4>1
    <3>5. \A j \in Client : j # h => stage'[j] = st[j] /\ pc'[j] = pc[j] /\ held'[j] = held[j]
      BY <2>5, <2>6, <3>2, <3>3
    <3> SUFFICES ASSUME NEW j \in Client
                 PROVE  IF stage'[j] \in Active THEN AtWork(j)' ELSE AtRest(j, stage)'
      BY DEF Working
    <3>6. CASE j = h
      BY <3>1, <3>4, <3>6, MixStays DEF Active, AtWork
    <3>7. CASE j # h
      <4>1. IF st[j] \in Active THEN AtWork(j) ELSE AtRest(j, st)
        BY DEF Working
      <4> QED BY <3>1, <3>5, <3>7, <4>1, MixStays DEF AtWork, AtRest, LeftBehind
    <3> QED BY <3>6, <3>7
  <2>13. QueuesWatched'
    <3> SUFFICES ASSUME NEW v \in Worker, queue'[v] # <<>>
                 PROVE  timers'[v] > 0 \/ \E j \in Client : worker[j] = v /\ stage'[j] \in Active
      BY <1>1 DEF QueuesWatched, Watched
    <3>1. CASE v = w
      <4>1. stage'[h] \in Active
        BY <2>1, <2>5 DEF Active
      <4> QED BY <2>1, <2>3, <3>1, <4>1
    <3>2. CASE v # w
      <4>1. timers'[v] = timers[v] /\ queue[v] # <<>>
        BY <1>1, <1>6, <2>7, <3>2
      <4>2. \A j \in Client : st[j] \in Active => stage'[j] \in Active
        BY <2>5 DEF Active
      <4> QED BY <3>2, <4>1, <4>2 DEF Watched
    <3> QED BY <3>1, <3>2
  <2> QED BY <2>6, <2>8, <2>9, <2>10, <2>11, <2>12, <2>13 DEF PressIInv
<1> QED BY <1>4, <1>5, <1>6 DEF Process

LEMMA PressInitIInv == PressInit => PressIInv
<1> SUFFICES ASSUME PressInit PROVE PressIInv
  OBVIOUS
<1>1. IInv
  BY InitIInv DEF PressInit
<1>2. PressTypeOK
  <2>1. <<>> \in Seq(Client) BY EmptySeq
  <2> QED BY <2>1 DEF PressInit, PressTypeOK, Stage
<1>3. Lined(arrived, queue)
  BY DEF PressInit, Lined
<1>4. ArrivedOnce
  BY DEF PressInit, ArrivedOnce, IsInjective, Range
<1>5. Waiting(queue, stage)
  BY DEF PressInit, Waiting, IsInjective, Range
<1>6. Working(stage)
  BY DEF PressInit, Init, Working, AtRest, Active
<1>7. QueuesWatched
  BY DEF PressInit, QueuesWatched, Watched
<1> QED BY <1>1, <1>2, <1>3, <1>4, <1>5, <1>6, <1>7 DEF PressIInv

\* A handler pushes its request and calls the worker.
LEMMA SubmitKeeps ==
  ASSUME PressIInv, NEW j \in Client, Submit(j), UNCHANGED mix
  PROVE  PressIInv'
<1> DEFINE w == worker[j]
           q == Append(queue[w], j)
           st == [stage EXCEPT ![j] = "queued"]
           q0 == [queue EXCEPT ![w] = q]
<1>1. PressTypeOK /\ IInv
  BY DEF PressIInv
<1>2. w \in Worker /\ kind \in [Client -> Kind]
  BY <1>1, MixFacts
<1>3. /\ stage[j] = "new"
      /\ arrived' = [arrived EXCEPT ![w] = Append(@, j)]
      /\ Process(w, q, timers[w])
      /\ Started(w, st)
      /\ UNCHANGED <<mix, sending, unseen>>
  BY DEF Submit
<1>4. /\ st \in [Client -> Stage]
      /\ st[j] = "queued" /\ \A i \in Client : i # j => st[i] = stage[i]
  BY <1>1 DEF PressTypeOK, Stage
<1>5. /\ queue[w] \in Seq(Client) /\ arrived[w] \in Seq(Client) /\ started[w] \in Seq(Client)
      /\ timers[w] \in Nat
      /\ arrived \in [Worker -> Seq(Client)]
      /\ queue \in [Worker -> Seq(Client)]
  BY <1>1, <1>2 DEF PressTypeOK
<1>6. Distinct(arrived[w], Client) /\ Distinct(queue[w], Client)
  BY <1>2, <1>5 DEF PressIInv, ArrivedOnce, Waiting, Distinct
<1>7. j \notin Range(arrived[w]) /\ j \notin Range(queue[w])
  <2>1. \A i \in Range(queue[w]) : stage[i] = "queued"
    BY <1>2 DEF PressIInv, Waiting
  <2> QED BY <1>2, <1>3, <2>1 DEF PressIInv, ArrivedOnce
<1>8. /\ Distinct(Append(arrived[w], j), Client)
      /\ Range(Append(arrived[w], j)) = Range(arrived[w]) \cup {j}
      /\ Distinct(q, Client)
      /\ Range(q) = Range(queue[w]) \cup {j}
  BY <1>6, <1>7, PushDistinct
<1>9. q \in Seq(Client)
  BY <1>8 DEF Distinct
<1>10. /\ q0[w] = q /\ \A v \in Worker : v # w => q0[v] = queue[v]
       /\ arrived'[w] = Append(arrived[w], j)
       /\ \A v \in Worker : v # w => arrived'[v] = arrived[v]
       /\ arrived' \in [Worker -> Seq(Client)]
  BY <1>2, <1>3, <1>5, <1>8 DEF Distinct
<1>11. Append(started[w] \o queue[w], j) = started[w] \o q
  <2>1. \A a, b \in Seq(Client), x \in Client : Append(a \o b, x) = a \o Append(b, x)
    OBVIOUS
  <2> QED BY <1>5, <2>1, Zenon
<1>12. arrived[w] = started[w] \o queue[w] /\ \A v \in Worker : arrived[v] = started[v] \o queue[v]
  BY <1>2 DEF PressIInv, Lined
<1> HIDE DEF q, st, q0
<1>13. \A v \in Worker : /\ IsInjective(arrived'[v])
                         /\ \A i \in Range(arrived'[v]) : worker[i] = v /\ st[i] # "new"
  <2> SUFFICES ASSUME NEW v \in Worker
               PROVE  /\ IsInjective(arrived'[v])
                      /\ \A i \in Range(arrived'[v]) : worker[i] = v /\ st[i] # "new"
    OBVIOUS
  <2>1. /\ IsInjective(arrived[v])
        /\ \A i \in Range(arrived[v]) : i \in Client /\ worker[i] = v /\ stage[i] # "new"
    BY <1>5, RangeOfSeq DEF PressIInv, ArrivedOnce
  <2>2. \A i \in Range(arrived[v]) : st[i] # "new"
    BY <1>4, <2>1
  <2>3. CASE v # w
    BY <1>10, <2>1, <2>2, <2>3
  <2>4. CASE v = w
    BY <1>4, <1>8, <1>10, <2>1, <2>2, <2>4 DEF Distinct
  <2> QED BY <2>3, <2>4
<1>14. Lined(arrived', q0)
  <2> SUFFICES ASSUME NEW v \in Worker PROVE arrived'[v] = started[v] \o q0[v]
    BY DEF Lined
  <2>1. CASE v = w BY <1>10, <1>11, <1>12, <2>1
  <2>2. CASE v # w BY <1>10, <1>12, <2>2
  <2> QED BY <2>1, <2>2
<1>15. Waiting(q0, st)
  <2>1. ASSUME NEW v \in Worker
        PROVE  /\ IsInjective(q0[v])
               /\ \A i \in Range(q0[v]) : worker[i] = v /\ st[i] = "queued"
    <3>1. /\ IsInjective(queue[v])
          /\ \A i \in Range(queue[v]) : i \in Client /\ worker[i] = v /\ stage[i] = "queued"
      BY <1>5, RangeOfSeq DEF PressIInv, Waiting
    <3>2. \A i \in Range(queue[v]) : st[i] = "queued"
      BY <1>4, <3>1
    <3>3. CASE v # w
      BY <1>10, <3>1, <3>2, <3>3
    <3>4. CASE v = w
      BY <1>4, <1>8, <1>10, <3>1, <3>2, <3>4 DEF Distinct
    <3> QED BY <3>3, <3>4
  <2>2. ASSUME NEW i \in Client, st[i] = "queued" PROVE i \in Range(q0[worker[i]])
    <3>1. worker[i] \in Worker
      BY <1>1, MixFacts
    <3>2. CASE i = j
      BY <1>8, <1>10, <3>2
    <3>3. CASE i # j
      <4>1. i \in Range(queue[worker[i]])
        BY <1>4, <2>2, <3>3 DEF PressIInv, Waiting
      <4> QED BY <1>8, <1>10, <3>1, <4>1
    <3> QED BY <3>2, <3>3
  <2> QED BY <2>1, <2>2 DEF Waiting
<1>16. Working(st)
  <2> SUFFICES ASSUME NEW i \in Client
               PROVE  IF st[i] \in Active THEN AtWork(i) ELSE AtRest(i, st)
    BY DEF Working
  <2>1. IF stage[i] \in Active THEN AtWork(i) ELSE AtRest(i, stage)
    BY DEF PressIInv, Working
  <2>2. CASE i = j
    BY <1>3, <1>4, <2>1, <2>2 DEF AtRest, Active
  <2>3. CASE i # j
    BY <1>4, <2>1, <2>3 DEF AtRest
  <2> QED BY <2>2, <2>3
<1>17. \A v \in Worker : v # w => Watched(v, queue, timers, st)
  <2>1. \A i \in Client : stage[i] \in Active => st[i] \in Active
    BY <1>3, <1>4 DEF Active
  <2> QED BY <2>1 DEF PressIInv, QueuesWatched, Watched
<1>18. q0 = [queue EXCEPT ![w] = q]
  BY DEF q0
<1> HIDE DEF w
<1> QED
  BY <1>1, <1>2, <1>3, <1>4, <1>5, <1>9, <1>10, <1>13, <1>14, <1>15, <1>16, <1>17, <1>18, WorkerCall

\* A timer calls the worker.
LEMMA FireKeeps ==
  ASSUME PressIInv, NEW w \in Worker, Fire(w), UNCHANGED mix
  PROVE  PressIInv'
<1>1. PressTypeOK /\ IInv
  BY DEF PressIInv
<1>2. /\ queue[w] \in Seq(Client) /\ timers[w] - 1 \in Nat
      /\ stage \in [Client -> Stage]
      /\ queue = [queue EXCEPT ![w] = queue[w]]
      /\ arrived' \in [Worker -> Seq(Client)] /\ arrived' = arrived
  BY <1>1 DEF PressTypeOK, Fire
<1>3. \A v \in Worker : /\ IsInjective(arrived'[v])
                        /\ \A j \in Range(arrived'[v]) : worker[j] = v /\ stage[j] # "new"
  BY <1>2 DEF PressIInv, ArrivedOnce
<1>4. Lined(arrived', queue) /\ Waiting(queue, stage) /\ Working(stage)
  BY <1>2 DEF PressIInv, Lined
<1>5. \A v \in Worker : v # w => Watched(v, queue, timers, stage)
  BY DEF PressIInv, QueuesWatched
<1>6. Process(w, queue[w], timers[w] - 1) /\ Started(w, stage) /\ UNCHANGED <<mix, sending, unseen>>
  BY DEF Fire
<1> QED BY <1>1, <1>2, <1>3, <1>4, <1>5, <1>6, WorkerCall
\* A request at work that goes on, or is answered, leaves the queues as they are.
LEMMA StageMoves ==
  ASSUME PressIInv, NEW j \in Client, stage[j] \in Active,
         NEW s \in Active \cup {"answered"}, stage' = [stage EXCEPT ![j] = s],
         UNCHANGED <<mix, queue, arrived, started>>
  PROVE  /\ stage' \in [Client -> Stage]
         /\ stage'[j] = s /\ \A i \in Client : i # j => stage'[i] = stage[i]
         /\ \A i \in Client : stage'[i] = "queued" <=> stage[i] = "queued"
         /\ Lined(arrived, queue)' /\ ArrivedOnce' /\ Waiting(queue, stage)'
<1>1. /\ PressTypeOK /\ Lined(arrived, queue) /\ ArrivedOnce /\ Waiting(queue, stage)
      /\ worker' = worker
  BY DEF PressIInv, worker
<1>2. /\ stage' \in [Client -> Stage]
      /\ stage'[j] = s /\ \A i \in Client : i # j => stage'[i] = stage[i]
  BY <1>1 DEF PressTypeOK, Stage, Active
<1>3. /\ s \notin {"new", "queued"} /\ stage[j] \notin {"new", "queued"}
  BY DEF Active
<1>4. /\ \A i \in Client : stage'[i] = "queued" <=> stage[i] = "queued"
      /\ \A i \in Client : stage'[i] = "new" <=> stage[i] = "new"
  BY <1>2, <1>3
<1>5. /\ \A v \in Worker : \A i \in Range(arrived[v]) : i \in Client
      /\ \A v \in Worker : \A i \in Range(queue[v]) : i \in Client
  <2>1. \A v \in Worker : arrived[v] \in Seq(Client) /\ queue[v] \in Seq(Client)
    BY <1>1 DEF PressTypeOK
  <2> QED BY <2>1, RangeOfSeq
<1>6. Lined(arrived, queue)'
  BY <1>1 DEF Lined
<1>7. ArrivedOnce'
  BY <1>1, <1>4, <1>5 DEF ArrivedOnce
<1>8. Waiting(queue, stage)'
  BY <1>1, <1>4, <1>5 DEF Waiting
<1> QED BY <1>2, <1>4, <1>6, <1>7, <1>8

\* DeployAccount and Write: the request's transaction uses only wallets it may use.
LEMMA SendKeeps ==
  ASSUME PressIInv, NEW j \in Client, stage[j] \in Active, NEW s \in Active,
         stage' = [stage EXCEPT ![j] = s],
         \/ \E S \in SUBSET held[j] : sending' = [sending EXCEPT ![j] = S]
         \/ kind[j] = "redeem" /\ sending' = [sending EXCEPT ![j] = {<<"base", x[2]>> : x \in held[j]}],
         UNCHANGED <<mix, vars, queue, timers, unseen, arrived, started>>
  PROVE  PressIInv'
<1>1. /\ stage' \in [Client -> Stage]
      /\ stage'[j] = s /\ \A i \in Client : i # j => stage'[i] = stage[i]
      /\ Lined(arrived, queue)' /\ ArrivedOnce' /\ Waiting(queue, stage)'
  BY StageMoves
<1>2. /\ PressTypeOK /\ IInv /\ Working(stage) /\ QueuesWatched
      /\ worker' = worker /\ kind' = kind
      /\ UNCHANGED <<poolInitialized, pool, held, tried, pc>>
      /\ sending \in [Client -> SUBSET Slot]
  BY DEF PressIInv, PressTypeOK, worker, kind, vars
<1>3. \A i \in Client : ChainsOf(i)' = ChainsOf(i)
  BY <1>2 DEF ChainsOf
<1>4. PressTypeOK'
  <2>1. /\ held[j] \subseteq Slot
        /\ {<<"base", x[2]>> : x \in held[j]} \subseteq Slot
    BY <1>2 DEF IInv, TypeOK, Slot, Chain
  <2>2. sending' \in [Client -> SUBSET Slot]
    BY <1>2, <2>1 DEF PressTypeOK
  <2> QED BY <1>1, <1>2, <2>2 DEF PressTypeOK
<1>5. IInv'
  BY <1>2, StepIInv DEF vars
<1>6. Working(stage)'
  <2> SUFFICES ASSUME NEW i \in Client
               PROVE  IF stage'[i] \in Active THEN AtWork(i)' ELSE AtRest(i, stage)'
    BY DEF Working
  <2>0. IF stage[i] \in Active THEN AtWork(i) ELSE AtRest(i, stage)
    BY <1>2 DEF Working
  <2>1. CASE i # j
    <3>1. sending'[i] = sending[i] /\ stage'[i] = stage[i]
      BY <1>1, <1>2, <2>1
    <3> QED BY <1>2, <2>0, <3>1, MixStays DEF AtWork, AtRest, LeftBehind
  <2>2. CASE i = j
    <3>1. pc[j] = "holding" /\ \E b \in Admin : held[j] = ChainsOf(j) \X {b}
      BY <2>0, <2>2 DEF AtWork
    <3>2. PICK b \in Admin : held[j] = ChainsOf(j) \X {b}
      BY <3>1
    <3>3. ChainsOf(j) \subseteq Chain /\ "base" \in Chain
      BY ChainsOfKind DEF Chain
    <3>4. sending'[j] \subseteq (IF kind[j] = "redeem" THEN Chain ELSE ChainsOf(j)) \X {b}
      <4>1. CASE \E S \in SUBSET held[j] : sending' = [sending EXCEPT ![j] = S]
        <5>1. sending'[j] \subseteq held[j] BY <1>2, <4>1
        <5> QED BY <3>2, <3>3, <5>1
      <4>2. CASE /\ kind[j] = "redeem"
                 /\ sending' = [sending EXCEPT ![j] = {<<"base", x[2]>> : x \in held[j]}]
        <5>1. sending'[j] = {<<"base", x[2]>> : x \in held[j]} BY <1>2, <4>2
        <5>2. sending'[j] \subseteq Chain \X {b}
          BY <3>2, <3>3, <5>1
        <5> QED BY <4>2, <5>2
      <4> QED BY <4>1, <4>2
    <3>5. stage'[j] \in Active BY <1>1
    <3> QED BY <1>2, <2>2, <3>1, <3>2, <3>4, <3>5, MixStays DEF AtWork
  <2> QED BY <2>1, <2>2
<1>7. QueuesWatched'
  <2>1. \A i \in Client : stage[i] \in Active => stage'[i] \in Active
    BY <1>1
  <2> QED BY <1>2, <2>1 DEF QueuesWatched, Watched
<1> QED BY <1>1, <1>4, <1>5, <1>6, <1>7 DEF PressIInv

\* What the end of a run leaves out is what it may.
LEMMA LeavesOutFacts ==
  ASSUME PressIInv, NEW j \in Client, stage[j] \in Active, LeavesOut(j), UNCHANGED mix
  PROVE  /\ sending' \in [Client -> SUBSET Slot] /\ unseen' \in SUBSET Client
         /\ sending'[j] \subseteq LeftBehind(j)'
         /\ \A i \in Client : i # j => /\ sending'[i] = sending[i]
                                         /\ LeftBehind(i)' = LeftBehind(i)
<1>1. /\ sending \in [Client -> SUBSET Slot] /\ unseen \in SUBSET Client
      /\ held[j] \subseteq Slot
  BY DEF PressIInv, PressTypeOK, IInv, TypeOK
<1>2. CASE sending' = [sending EXCEPT ![j] = {}] /\ UNCHANGED unseen
  BY <1>1, <1>2, MixStays DEF LeftBehind
<1>3. CASE unseen' = unseen \cup {j} /\ UNCHANGED sending
  BY <1>1, <1>3, MixStays DEF LeftBehind
<1>4. CASE /\ kind[j] \in Relayed /\ UNCHANGED unseen
           /\ sending' = [sending EXCEPT ![j] = {s \in held[j] : s[1] = "conet"}]
  <2>1. {s \in held[j] : s[1] = "conet"} \subseteq {"conet"} \X Admin
    BY <1>1 DEF Slot
  <2>2. /\ sending'[j] = {s \in held[j] : s[1] = "conet"}
        /\ \A i \in Client : i # j => sending'[i] = sending[i]
        /\ sending' \in [Client -> SUBSET Slot]
    BY <1>1, <1>4
  <2>3. sending'[j] \subseteq Slot BY <1>1, <2>2
  <2> QED BY <1>1, <1>4, <2>1, <2>2, <2>3, MixStays DEF LeftBehind
<1> QED BY <1>2, <1>3, <1>4 DEF LeavesOut

\* The end of a run: it holds nothing any more.
LEMMA ReleasedWorks ==
  ASSUME PressIInv, NEW j \in Client, stage[j] \in Active, UnshiftSlot(j),
         stage' = [stage EXCEPT ![j] = "answered"],
         LeavesOut(j), UNCHANGED mix
  PROVE  IInv' /\ Working(stage)'
<1>1. PressTypeOK /\ IInv /\ Working(stage)
  BY DEF PressIInv
<1>2. /\ IInv' /\ pc' = [pc EXCEPT ![j] = "idle"] /\ held' = [held EXCEPT ![j] = {}]
  BY <1>1, UnshiftSlotGivesBack
<1>3. /\ stage'[j] = "answered" /\ pc'[j] = "idle" /\ held'[j] = {}
      /\ \A i \in Client : i # j => /\ stage'[i] = stage[i] /\ pc'[i] = pc[i]
                                     /\ held'[i] = held[i]
  BY <1>1, <1>2 DEF PressTypeOK, IInv, TypeOK
<1>4. Working(stage)'
  <2> SUFFICES ASSUME NEW i \in Client
               PROVE  IF stage'[i] \in Active THEN AtWork(i)' ELSE AtRest(i, stage)'
    BY DEF Working
  <2>1. CASE i = j BY <1>3, <2>1, LeavesOutFacts DEF Active, AtRest
  <2>2. CASE i # j
    <3>1. IF stage[i] \in Active THEN AtWork(i) ELSE AtRest(i, stage)
      BY <1>1 DEF Working
    <3>2. sending'[i] = sending[i] /\ LeftBehind(i)' = LeftBehind(i)
      BY <2>2, LeavesOutFacts
    <3> QED BY <1>3, <2>2, <3>1, <3>2, MixStays DEF AtWork, AtRest
  <2> QED BY <2>1, <2>2
<1> QED BY <1>2, <1>4

LEMMA FinishKeeps ==
  ASSUME PressIInv, NEW j \in Client, Finish(j), UNCHANGED mix
  PROVE  PressIInv'
<1>1. /\ stage[j] \in Active /\ UnshiftSlot(j)
      /\ stage' = [stage EXCEPT ![j] = "answered"]
      /\ LeavesOut(j)
      /\ timers' = [timers EXCEPT ![worker[j]] = @ + 1]
      /\ UNCHANGED <<mix, queue, arrived, started>>
  BY DEF Finish, Active
<1>2. PressTypeOK /\ QueuesWatched /\ worker' = worker
  BY DEF PressIInv, worker
<1>3. IInv' /\ Working(stage)'
  BY <1>1, ReleasedWorks
<1>4. /\ stage' \in [Client -> Stage]
      /\ \A i \in Client : i # j => stage'[i] = stage[i]
      /\ Lined(arrived, queue)' /\ ArrivedOnce' /\ Waiting(queue, stage)'
  BY <1>1, StageMoves
<1>5. worker[j] \in Worker /\ timers \in [Worker -> Nat]
  BY <1>2, MixFacts DEF PressTypeOK
<1>6. /\ timers' \in [Worker -> Nat] /\ timers'[worker[j]] > 0
      /\ \A v \in Worker : v # worker[j] => timers'[v] = timers[v]
  BY <1>1, <1>5
<1>7. PressTypeOK'
  BY <1>1, <1>2, <1>4, <1>6, LeavesOutFacts DEF PressTypeOK
<1>8. QueuesWatched'
  <2> SUFFICES ASSUME NEW v \in Worker, queue[v] # <<>>, timers'[v] = 0
               PROVE  \E i \in Client : worker[i] = v /\ stage'[i] \in Active
    BY <1>1, <1>2, <1>6 DEF QueuesWatched, Watched
  <2>1. v # worker[j] /\ timers[v] = 0
    BY <1>6
  <2>2. PICK i \in Client : worker[i] = v /\ stage[i] \in Active
    BY <1>2, <2>1 DEF QueuesWatched, Watched
  <2> QED BY <1>4, <2>1, <2>2
<1> QED BY <1>3, <1>4, <1>7, <1>8 DEF PressIInv
LEMMA FinishRedeemKeeps ==
  ASSUME PressIInv, NEW j \in Client, FinishRedeem(j), UNCHANGED mix
  PROVE  PressIInv'
<1> DEFINE w == worker[j]
           n == Head(queue[w])
<1>1. /\ stage[j] \in Active /\ kind[j] = "redeem"
      /\ LeavesOut(j)
      /\ UNCHANGED <<mix, timers, arrived>>
  BY DEF FinishRedeem, Active
<1>2. /\ PressTypeOK /\ IInv /\ Working(stage) /\ QueuesWatched
      /\ worker' = worker /\ kind' = kind
  BY DEF PressIInv, worker, kind
<1>3. w \in Worker /\ \A i \in Client : worker[i] = w => kind[i] = "redeem"
  BY <1>1, <1>2, MixFacts
<1>4. CASE queue[w] = <<>>
  <2>1. /\ UnshiftSlot(j) /\ stage' = [stage EXCEPT ![j] = "answered"]
        /\ UNCHANGED <<queue, started>>
    BY <1>4 DEF FinishRedeem
  <2>2. IInv' /\ Working(stage)'
    BY <1>1, <2>1, ReleasedWorks
  <2>3. /\ stage' \in [Client -> Stage]
        /\ \A i \in Client : i # j => stage'[i] = stage[i]
        /\ Lined(arrived, queue)' /\ ArrivedOnce' /\ Waiting(queue, stage)'
    BY <1>1, <2>1, StageMoves
  <2>4. PressTypeOK'
    BY <1>1, <1>2, <2>1, <2>3, LeavesOutFacts DEF PressTypeOK
  <2>5. QueuesWatched'
    <3> SUFFICES ASSUME NEW v \in Worker, queue[v] # <<>>, timers[v] = 0
                 PROVE  \E i \in Client : worker[i] = v /\ stage'[i] \in Active
      BY <1>1, <1>2, <2>1 DEF QueuesWatched, Watched, PressTypeOK
    <3>1. PICK i \in Client : worker[i] = v /\ stage[i] \in Active
      BY <1>2 DEF QueuesWatched, Watched
    <3> QED BY <1>4, <2>3, <3>1
  <2> QED BY <2>2, <2>3, <2>4, <2>5 DEF PressIInv
<1>5. CASE queue[w] # <<>>
  <2>1. /\ held' = [held EXCEPT ![j] = {}, ![n] = held[j]]
        /\ pc' = [pc EXCEPT ![j] = "idle", ![n] = "holding"]
        /\ stage' = [[stage EXCEPT ![j] = "answered"] EXCEPT ![n] = "running"]
        /\ started' = [started EXCEPT ![w] = Append(@, n)]
        /\ queue' = [queue EXCEPT ![w] = Tail(@)]
        /\ UNCHANGED <<poolInitialized, pool, tried>>
    BY <1>5 DEF FinishRedeem
  <2>2. /\ queue \in [Worker -> Seq(Client)] /\ started \in [Worker -> Seq(Client)]
        /\ queue[w] \in Seq(Client) /\ started[w] \in Seq(Client)
        /\ arrived \in [Worker -> Seq(Client)]
        /\ stage \in [Client -> Stage]
        /\ held \in [Client -> SUBSET Slot] /\ sending \in [Client -> SUBSET Slot]
        /\ pc \in [Client -> {"idle", "pollingBase", "pollingConet", "picking", "holding"}]
    BY <1>2, <1>3 DEF PressTypeOK, IInv, TypeOK
  <2>3. n \in Client /\ Tail(queue[w]) \in Seq(Client)
    BY <1>5, <2>2, HeadThenTail
  <2>4. /\ Distinct(Tail(queue[w]), Client)
        /\ n \in Range(queue[w]) /\ Range(Tail(queue[w])) = Range(queue[w]) \ {n}
    <3>1. Distinct(queue[w], Client)
      BY <1>3, <2>2 DEF PressIInv, Waiting, Distinct
    <3> QED BY <1>5, <3>1, ShiftDistinct
  <2>5. worker[n] = w /\ stage[n] = "queued" /\ kind[n] = "redeem"
    BY <1>3, <2>3, <2>4 DEF PressIInv, Waiting
  <2>6. n # j
    BY <1>1, <2>5 DEF Active
  <2>7. Append(started[w], n) \o Tail(queue[w]) = started[w] \o queue[w]
    BY <1>5, <2>2, AppendAssoc
  <2>8. Append(started[w], n) \in Seq(Client)
    BY <2>2, <2>3
  <2> HIDE DEF n
  <2>9. /\ stage'[j] = "answered" /\ stage'[n] = "running"
        /\ \A i \in Client : i \notin {j, n} => stage'[i] = stage[i]
        /\ stage' \in [Client -> Stage]
    BY <2>1, <2>2, <2>3, <2>6 DEF Stage
  <2>10. /\ queue'[w] = Tail(queue[w]) /\ \A v \in Worker : v # w => queue'[v] = queue[v]
         /\ started'[w] = Append(started[w], n)
         /\ \A v \in Worker : v # w => started'[v] = started[v]
         /\ queue' \in [Worker -> Seq(Client)] /\ started' \in [Worker -> Seq(Client)]
    BY <1>3, <2>1, <2>2, <2>3, <2>8
  <2>11. PICK a \in Admin : held[j] = ChainsOf(j) \X {a}
    BY <1>1, <1>2 DEF Working, AtWork
  <2>12. /\ ChainsOf(j) = {"conet"} /\ ChainsOf(n) = {"conet"}
         /\ \A i \in Client : ChainsOf(i)' = ChainsOf(i)
    BY <1>1, <1>2, <2>3, <2>5, ChainsOfKind DEF ChainsOf
  <2>13. /\ held[n] = {} /\ pc[n] = "idle" /\ sending[n] = {} /\ pc[j] = "holding"
    BY <1>1, <1>2, <2>3, <2>5 DEF Working, AtWork, AtRest, Active
  <2>14. IInv'
    BY <1>2, <2>1, <2>3, <2>6, <2>11, <2>13, ChainsOfKind, HandoverKeepsIInv
  <2>15. PressTypeOK'
    BY <1>1, <1>2, <2>9, <2>10, LeavesOutFacts DEF PressTypeOK
  <2>16. Lined(arrived, queue)'
    <3> SUFFICES ASSUME NEW v \in Worker PROVE arrived[v] = started'[v] \o queue'[v]
      BY <1>1 DEF Lined
    <3>1. arrived[v] = started[v] \o queue[v]
      BY DEF PressIInv, Lined
    <3>2. CASE v = w BY <2>7, <2>10, <3>1, <3>2
    <3>3. CASE v # w BY <2>10, <3>1, <3>3
    <3> QED BY <3>2, <3>3
  <2>17. ArrivedOnce'
    <3>1. \A v \in Worker : \A i \in Range(arrived[v]) : i \in Client /\ worker[i] = v /\ stage[i] # "new"
      BY <2>2, RangeOfSeq DEF PressIInv, ArrivedOnce
    <3>2. \A i \in Client : stage[i] # "new" => stage'[i] # "new"
      BY <2>9
    <3> QED BY <1>1, <1>2, <3>1, <3>2 DEF PressIInv, ArrivedOnce
  <2>18. Waiting(queue, stage)'
    <3>1. ASSUME NEW v \in Worker
          PROVE  /\ IsInjective(queue'[v])
                 /\ \A i \in Range(queue'[v]) : worker[i] = v /\ stage'[i] = "queued"
      <4>1. IsInjective(queue[v])
        BY DEF PressIInv, Waiting
      <4>2. \A i \in Range(queue[v]) : i \in Client /\ worker[i] = v /\ stage[i] = "queued"
        BY <2>2, RangeOfSeq DEF PressIInv, Waiting
      <4>3. \A i \in Range(queue[v]) : i # n => stage'[i] = "queued"
        BY <1>1, <2>9, <4>2 DEF Active
      <4>4. CASE v = w
        BY <2>4, <2>10, <4>2, <4>3, <4>4 DEF Distinct
      <4>5. CASE v # w
        <5>1. n \notin Range(queue[v])
          BY <2>5, <4>2, <4>5
        <5> QED BY <2>10, <4>1, <4>2, <4>3, <4>5, <5>1
      <4> QED BY <4>4, <4>5
    <3>2. ASSUME NEW i \in Client, stage'[i] = "queued" PROVE i \in Range(queue'[worker[i]])
      <4>1. i # n /\ stage[i] = "queued"
        BY <2>9, <3>2
      <4>2. i \in Range(queue[worker[i]]) /\ worker[i] \in Worker
        BY <1>2, <4>1, MixFacts DEF PressIInv, Waiting
      <4> QED BY <2>4, <2>10, <4>1, <4>2
    <3> QED BY <1>2, <3>1, <3>2 DEF Waiting
  <2>19. Working(stage)'
    <3>1. /\ held'[j] = {} /\ held'[n] = {"conet"} \X {a}
          /\ pc'[j] = "idle" /\ pc'[n] = "holding"
      BY <2>1, <2>2, <2>3, <2>6, <2>11, <2>12
    <3>2. \A i \in Client : i \notin {j, n} => held'[i] = held[i] /\ pc'[i] = pc[i]
      BY <2>1, <2>2
    <3>3. /\ sending'[j] \subseteq LeftBehind(j)'
          /\ \A i \in Client : i # j => sending'[i] = sending[i] /\ LeftBehind(i)' = LeftBehind(i)
      BY <1>1, LeavesOutFacts
    <3> SUFFICES ASSUME NEW i \in Client
                 PROVE  IF stage'[i] \in Active THEN AtWork(i)' ELSE AtRest(i, stage)'
      BY DEF Working
    <3>4. CASE i = j BY <2>9, <3>1, <3>3, <3>4 DEF Active, AtRest
    <3>5. CASE i = n
      <4>1. sending'[i] = {} BY <2>3, <2>6, <2>13, <3>3, <3>5
      <4>2. ChainsOf(i)' = {"conet"} BY <2>12, <3>5
      <4>3. /\ stage'[i] = "running" /\ pc'[i] = "holding"
            /\ held'[i] = {"conet"} \X {a}
        BY <2>9, <3>1, <3>5
      <4> QED BY <4>1, <4>2, <4>3 DEF Active, AtWork
    <3>6. CASE i \notin {j, n}
      <4>1. IF stage[i] \in Active THEN AtWork(i) ELSE AtRest(i, stage)
        BY <1>2 DEF Working
      <4> QED BY <1>1, <2>9, <3>2, <3>3, <3>6, <4>1, MixStays DEF AtWork, AtRest
    <3> QED BY <3>4, <3>5, <3>6
  <2>20. QueuesWatched'
    <3> SUFFICES ASSUME NEW v \in Worker, queue'[v] # <<>>, timers[v] = 0
                 PROVE  \E i \in Client : worker[i] = v /\ stage'[i] \in Active
      BY <1>1, <1>2 DEF QueuesWatched, Watched, PressTypeOK
    <3>1. CASE v = w
      BY <2>3, <2>5, <2>9, <3>1 DEF Active
    <3>2. CASE v # w
      <4>1. queue[v] # <<>>
        BY <2>10, <3>2
      <4>2. PICK i \in Client : worker[i] = v /\ stage[i] \in Active
        BY <1>2, <4>1 DEF QueuesWatched, Watched
      <4> QED BY <2>5, <2>9, <3>2, <4>2
    <3> QED BY <3>1, <3>2
  <2> QED BY <2>14, <2>15, <2>16, <2>17, <2>18, <2>19, <2>20 DEF PressIInv
<1> QED BY <1>4, <1>5

\* The pools are filled once; no request is concerned.
LEMMA FillPoolsKeeps ==
  ASSUME PressIInv, FillPools, UNCHANGED mix
  PROVE  PressIInv'
<1>1. /\ initSettleContractPool
      /\ UNCHANGED <<held, pc, mix, queue, timers, stage, sending, unseen, arrived, started>>
  BY DEF FillPools, initSettleContractPool
<1>2. worker' = worker /\ kind' = kind /\ \A i \in Client : ChainsOf(i)' = ChainsOf(i)
  BY <1>1 DEF worker, kind, ChainsOf
<1>3. IInv'
  BY <1>1, StepIInv DEF Next, PressIInv
<1>4. PressTypeOK' /\ Lined(arrived, queue)' /\ ArrivedOnce' /\ Waiting(queue, stage)'
  BY <1>1, <1>2 DEF PressIInv, PressTypeOK, Lined, ArrivedOnce, Waiting
<1>5. Working(stage)' /\ QueuesWatched'
  BY <1>1, <1>2 DEF PressIInv, Working, AtWork, AtRest, LeftBehind, QueuesWatched, Watched
<1> QED BY <1>3, <1>4, <1>5 DEF PressIInv

\* What an ended request left out goes.
LEMMA MinedLateKeeps ==
  ASSUME PressIInv, NEW j \in Client, MinedLate(j), UNCHANGED mix
  PROVE  PressIInv'
<1>1. /\ stage[j] = "answered" /\ sending' = [sending EXCEPT ![j] = {}]
      /\ UNCHANGED <<vars, mix, queue, timers, stage, unseen, arrived, started>>
      /\ sending \in [Client -> SUBSET Slot]
  BY DEF MinedLate, PressIInv, PressTypeOK
<1>2. worker' = worker /\ kind' = kind /\ \A i \in Client : ChainsOf(i)' = ChainsOf(i)
  BY <1>1, MixStays
<1>3. IInv'
  BY <1>1, StepIInv DEF PressIInv
<1>4. PressTypeOK' /\ Lined(arrived, queue)' /\ ArrivedOnce' /\ Waiting(queue, stage)'
  BY <1>1, <1>2 DEF PressIInv, PressTypeOK, Lined, ArrivedOnce, Waiting
<1>5. Working(stage)'
  <2> SUFFICES ASSUME NEW i \in Client
               PROVE  IF stage[i] \in Active THEN AtWork(i)' ELSE AtRest(i, stage)'
    BY <1>1 DEF Working
  <2>1. IF stage[i] \in Active THEN AtWork(i) ELSE AtRest(i, stage)
    BY DEF PressIInv, Working
  <2>2. sending'[i] \subseteq sending[i] /\ LeftBehind(i)' = LeftBehind(i)
    BY <1>1, <1>2 DEF LeftBehind
  <2>3. pc' = pc /\ held' = held /\ stage' = stage
    BY <1>1 DEF vars
  <2> QED BY <1>2, <2>1, <2>2, <2>3 DEF AtWork, AtRest
<1>6. QueuesWatched'
  BY <1>1, <1>2 DEF PressIInv, QueuesWatched, Watched
<1> QED BY <1>3, <1>4, <1>5, <1>6 DEF PressIInv

LEMMA PressStepIInv == PressIInv /\ [PressNext]_pressVars => PressIInv'
<1> SUFFICES ASSUME PressIInv, [PressNext]_pressVars PROVE PressIInv'
  OBVIOUS
<1>1. ASSUME FillPools, UNCHANGED mix PROVE PressIInv'
  BY <1>1, FillPoolsKeeps
<1>2. ASSUME NEW w \in Worker, Fire(w), UNCHANGED mix PROVE PressIInv'
  BY <1>2, FireKeeps
<1>3. ASSUME NEW j \in Client, Submit(j), UNCHANGED mix PROVE PressIInv'
  BY <1>3, SubmitKeeps
<1>4. ASSUME NEW j \in Client, DeployAccount(j), UNCHANGED mix PROVE PressIInv'
  <2>1. /\ stage[j] \in Active /\ stage' = [stage EXCEPT ![j] = "deploying"]
        /\ kind[j] = "redeem" /\ sending' = [sending EXCEPT ![j] = {<<"base", x[2]>> : x \in held[j]}]
        /\ UNCHANGED <<mix, vars, queue, timers, unseen, arrived, started>>
    BY <1>4 DEF DeployAccount, Active
  <2>2. "deploying" \in Active BY DEF Active
  <2> QED BY <2>1, <2>2, SendKeeps
<1>5. ASSUME NEW j \in Client, Write(j), UNCHANGED mix PROVE PressIInv'
  <2>1. /\ stage[j] \in Active /\ stage' = [stage EXCEPT ![j] = "writing"]
        /\ \E S \in SUBSET held[j] : sending' = [sending EXCEPT ![j] = S]
        /\ UNCHANGED <<mix, vars, queue, timers, unseen, arrived, started>>
    BY <1>5 DEF Write, Active
  <2>2. "writing" \in Active BY DEF Active
  <2> QED BY <2>1, <2>2, SendKeeps
<1>6. ASSUME NEW j \in Client, Finish(j), UNCHANGED mix PROVE PressIInv'
  BY <1>6, FinishKeeps
<1>7. ASSUME NEW j \in Client, FinishRedeem(j), UNCHANGED mix PROVE PressIInv'
  BY <1>7, FinishRedeemKeeps
<1>9. ASSUME NEW j \in Client, MinedLate(j), UNCHANGED mix PROVE PressIInv'
  BY <1>9, MinedLateKeeps
<1>8. CASE UNCHANGED pressVars
  <2>1. UNCHANGED <<vars, mix, queue, timers, stage, sending, unseen, arrived, started>>
    BY <1>8 DEF pressVars, stepVars
  <2>2. worker' = worker /\ kind' = kind /\ \A i \in Client : ChainsOf(i)' = ChainsOf(i)
    BY <2>1 DEF worker, kind, ChainsOf
  <2>3. IInv'
    BY <2>1, StepIInv DEF PressIInv
  <2>4. PressTypeOK' /\ Lined(arrived, queue)' /\ ArrivedOnce' /\ Waiting(queue, stage)'
    BY <2>1, <2>2 DEF PressIInv, PressTypeOK, Lined, ArrivedOnce, Waiting
  <2>5. Working(stage)' /\ QueuesWatched'
    BY <2>1, <2>2 DEF PressIInv, Working, AtWork, AtRest, LeftBehind, QueuesWatched, Watched, vars
  <2> QED BY <2>3, <2>4, <2>5 DEF PressIInv
<1> QED BY <1>1, <1>2, <1>3, <1>4, <1>5, <1>6, <1>7, <1>8, <1>9 DEF PressNext, Step

\* PressIInv holds in every reachable state.
THEOREM PressInvariance == PressSpec => []PressIInv
<1> QED BY PressInitIInv, PressStepIInv, PTL DEF PressSpec

\* The presses keep what the pool promises, the redeem's handover included: no
\* nonce sequence in two hands, no key lost.
THEOREM PressKeepsPool == PressSpec => [](SlotsExclusive /\ NoSlotLost)
<1>1. PressIInv => SlotsExclusive /\ NoSlotLost
  BY DEF PressIInv, IInv
<1> QED BY <1>1, PressInvariance, PTL

\* Whatever timers, runs and keys do, a worker begins its requests in the order
\* in which they arrived, and none of them twice.
THEOREM RequestsStartInOrder ==
  PressSpec => [](StartedInOrder /\ \A w \in Worker : IsInjective(started[w]))
<1>1. ASSUME PressIInv, NEW w \in Worker
      PROVE  IsPrefix(started[w], arrived[w]) /\ IsInjective(started[w])
  <2>1. /\ started[w] \in Seq(Client) /\ queue[w] \in Seq(Client)
        /\ arrived[w] = started[w] \o queue[w]
        /\ IsInjective(arrived[w])
    BY <1>1 DEF PressIInv, PressTypeOK, Lined, ArrivedOnce
  <2> QED BY <2>1, FrontOfConcat
<1>2. PressIInv => StartedInOrder /\ \A w \in Worker : IsInjective(started[w])
  BY <1>1 DEF StartedInOrder
<1> QED BY <1>2, PressInvariance, PTL

\* For every mix of requests and any failures: two have a transaction out on one
\* nonce sequence only if one is a redeem, on the Base wallet of its CoNET key,
\* and the other a Base request; or if one has ended on a failed wait, or on a
\* relayed transfer whose fee nobody awaits.
THEOREM NoncesAreExclusive == PressSpec => []NonceExclusive
<1>1. ASSUME PressIInv, NEW i \in Client, NEW j \in Client, i # j,
             AtWork(i), AtWork(j),
             NEW s \in sending[i] \cap sending[j], kind[i] # "base" \/ kind[j] # "redeem",
             kind[i] # "redeem" \/ kind[j] # "base"
      PROVE  FALSE
  <2>1. held[i] \cap held[j] = {}
    BY <1>1 DEF PressIInv, IInv, SlotsExclusive
  <2>2. kind[i] \in Kind /\ kind[j] \in Kind
    BY <1>1, MixFacts DEF PressIInv
  <2>3. PICK a \in Admin :
          /\ held[i] = ChainsOf(i) \X {a}
          /\ sending[i] \subseteq (IF kind[i] = "redeem" THEN Chain ELSE ChainsOf(i)) \X {a}
    BY <1>1 DEF AtWork
  <2>4. PICK b \in Admin :
          /\ held[j] = ChainsOf(j) \X {b}
          /\ sending[j] \subseteq (IF kind[j] = "redeem" THEN Chain ELSE ChainsOf(j)) \X {b}
    BY <1>1 DEF AtWork
  <2>5. a = b
    BY <2>3, <2>4
  <2>6. ChainsOf(i) \cap ChainsOf(j) = {}
    <3> SUFFICES ASSUME NEW ch \in ChainsOf(i) \cap ChainsOf(j) PROVE FALSE
      OBVIOUS
    <3>1. <<ch, a>> \in held[i] /\ <<ch, a>> \in held[j]
      BY <2>3, <2>4, <2>5
    <3> QED BY <2>1, <3>1
  <2>7. \/ kind[i] = "base" /\ kind[j] \in {"conet", "relay", "redeem"}
        \/ kind[i] \in {"conet", "relay", "redeem"} /\ kind[j] = "base"
    BY <1>1, <2>2, <2>6, ChainsOfKind DEF Kind, Chain
  <2>8. ChainsOf(i) # ChainsOf(j) /\ kind[i] # "redeem" /\ kind[j] # "redeem"
    <3>1. kind[i] # "redeem" /\ kind[j] # "redeem"
      BY <1>1, <2>7
    <3> QED BY <2>6, <3>1, ChainsOfKind
  <2>9. s \in ChainsOf(i) \X {a} /\ s \in ChainsOf(j) \X {b}
    BY <2>3, <2>4, <2>8
  <2>10. s[1] \in ChainsOf(i) \cap ChainsOf(j)
    BY <2>9
  <2> QED BY <2>6, <2>10
<1>2. ASSUME PressIInv PROVE NonceExclusive
  <2> SUFFICES ASSUME NEW i \in Client, NEW j \in Client, NEW s \in sending[i] \cap sending[j],
                      i # j, {kind[i], kind[j]} # {"redeem", "base"}
               PROVE  \E k \in {i, j} : stage[k] = "answered" /\ s \in LeftBehind(k)
    BY DEF NonceExclusive
  <2>1. \A k \in Client : IF stage[k] \in Active THEN AtWork(k) ELSE AtRest(k, stage)
    BY <1>2 DEF PressIInv, Working
  <2>2. CASE AtWork(i) /\ AtWork(j)
    BY <1>1, <1>2, <2>2
  <2>3. CASE AtRest(i, stage) \/ AtRest(j, stage)
    BY <2>3 DEF AtRest
  <2> QED BY <2>1, <2>2, <2>3
<1> QED BY <1>2, PressInvariance, PTL

\* No worker leaves a queue with requests in it and nobody to call it again: the
\* safety half of EveryRequestAnswered; and no accepted request is out of its
\* queue before it runs.
THEOREM NoQueueAbandoned ==
  PressSpec => [](/\ QueuesWatched
                  /\ \A j \in Client : stage[j] = "queued" => j \in Range(queue[worker[j]]))
<1>1. PressIInv => /\ QueuesWatched
                   /\ \A j \in Client : stage[j] = "queued" => j \in Range(queue[worker[j]])
  BY DEF PressIInv, Waiting
<1> QED BY <1>1, PressInvariance, PTL
=============================================================================
