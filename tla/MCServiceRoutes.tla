---------------------------- MODULE MCServiceRoutes ----------------------------
(***************************************************************************)
(* The ledgers with which the runs of all scripts settle payment and fee,  *)
(* and what the runs beside them find of the payment.                      *)
(***************************************************************************)
EXTENDS MCServicePlaces, ServiceAnswers

\* From where new is reached by next, a function to sets.
RECURSIVE Sources(_, _, _)
Sources(next, met, new) ==
  IF new = {} THEN met
  ELSE LET all == met \cup new
       IN Sources(next, all, {p \in DOMAIN next \ all : next[p] \cap new # {}})

\* And what is reached by it from new.
RECURSIVE Targets(_, _, _)
Targets(next, met, new) ==
  IF new = {} THEN met
  ELSE LET all == met \cup new
       IN Targets(next, all, UNION {next[p] : p \in new} \ all)

\* A block of executeForOwner that waits for the receipt of the payment.
Watcher(p) == p.kind = "block" /\ p.name = "executeForOwner" /\ Watches(p)

\* The runs that begin somewhere, and those they begin.
MCStarts == Doors(AllRoutes) \cup UNION {Begun(p) : p \in MCPlaces.all}
MCRuns == [e \in MCStarts |-> From(WalkStep, {e})] @@ <<>>
MCBegun == [e \in MCStarts |-> UNION {Begun(p) : p \in MCRuns[e]}] @@ <<>>
StartStep(e) == MCBegun[e]
Made(D) == UNION {MCRuns[e] : e \in From(StartStep, D)}
NeverOf(names) == MCPlaces.all \ Made(Doors({r \in AllRoutes : r[2] \notin names}))

\* The starts of runs that lead to a place that Is, and the places on the way to it.
Makes(Is(_)) == Sources(MCBegun, {}, {e \in MCStarts : \E p \in MCRuns[e] : Is(p)})
Before(Is(_)) ==
  LET makers == Makes(Is)
      Towards(e) ==
        LET steps == [p \in MCRuns[e] |-> WalkStep(p)] @@ <<>>
        IN Sources(steps, {}, {p \in MCRuns[e] : Is(p) \/ Begun(p) \cap makers # {}})
  IN UNION {Towards(e) : e \in makers}

Spender(p) == Settles(p) /\ ~Watcher(p)

MCDoors == Doors(AllRoutes)
MCSpends == Before(Spender)
MCWatched == Made(MCDoors \cap Makes(Watcher))

MCCharges ==
  LET InLedger(K) == {k \in K : k[1] \in MCSpends}
      LedgerStep(k) ==
        LET p == k[1]
            a == k[2]
            v == k[3]
        IN InLedger({<<o[1], a, o[2]>> : o \in Outcomes(p, v)}
                      \cup {<<n, a, v>> : n \in Turns(MCPlaces, p) \cup Beside(p)}
                      \cup {<<p, a, [v EXCEPT !["main"] = x]>> :
                              x \in {y \in {"seen", "failed"} : p \in MCWatched /\ v["main"] = "sent"}})
      LedgerStart(k) == InLedger({<<n, Repeats(k[1], k[2]), k[3]>> : n \in Begun(k[1])})
  IN [spends |-> MCSpends,
      ledger |-> Throughout(LedgerStep, LedgerStart, {<<d, FALSE, Blank>> : d \in MCDoors \cap MCSpends}),
      watched |-> MCWatched,
      ahead |-> NeverOf(FeeFirst)]

\* Who may still settle the payment, and who hands Master's answer on.
Payer(p) == Settles(p) /\ Head1(p).name = "main" /\ p \in MCSpends
MCPays == Before(Payer)
MCEchoes ==
  LET EchoStep(p) == Turns(MCPlaces, p) \cup IF Head1(p).op = "ask" THEN {} ELSE Live(Same(p))
  IN Sources([p \in MCPlaces.asks |-> EchoStep(p)] @@ <<>>, {}, {p \in MCPlaces.asks : "inner" \in Speech(p)})

\* What the others find of the payment.
Asker(p) == Head1(p).op = "ask" /\ Moved(p) \cap MCEchoes \subseteq MCSpends
MCHeirs ==
  LET Finds(n, m, heired) == IF n \in MCSpends \/ Ended(n) THEN {} ELSE {n} \X Fates(m, heired)
      Heirs(k) ==
        LET p == k[1]
            v == k[3]
            begun == IF Asker(p) THEN Beside(p) ELSE News(p)
            after == (Same(p) \cup News(p)) \cap MCPays # {}
        IN UNION {Finds(o[1], o[2]["main"], News(p) \cap MCPays # {}) : o \in Outcomes(p, v)}
             \cup UNION {Finds(b, v["main"], after) : b \in begun}
  IN (MCDoors \ MCSpends) \X {"none"} \cup UNION {Heirs(k) : k \in MCCharges.ledger}
MCNexts ==
  [p \in MCPlaces.all |->
     Live(Own(p) \cup Turns(MCPlaces, p)) \cup IF Asker(p) THEN {} ELSE Begun(p)] @@ <<>>
Finders(m, also) == Targets(MCNexts, {}, {k[1] : k \in {x \in MCHeirs : x[2] = m}} \cup also)
MCBefore == Finders("sent", {})

MCTales ==
  LET Since(m) == IF m \in {"seen", "failed"} THEN MCBefore \cap MCWatched ELSE {}
  IN [pays |-> MCPays,
      echoes |-> MCEchoes,
      aside |-> UNION {Finders(m, Since(m)) \X {m} : m \in State},
      under |-> Throughout(WalkStep, Begun, UNION {Begun(p) : p \in {x \in MCPlaces.asks : Asker(x)}}),
      late |-> NeverOf(LateErrors)]

\* The scripts of all routes keep to these ledgers.
ASSUME ScriptsCharge == ChargeRules(AllRoutes, MCPlaces, MCCharges)

\* And what they answer is safe.
ASSUME ScriptsTell == AnswerRules(AllRoutes, MCPlaces, MCCharges, MCTales)
================================================================================
