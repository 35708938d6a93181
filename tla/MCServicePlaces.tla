---------------------------- MODULE MCServicePlaces ----------------------------
(***************************************************************************)
(* The places of all scripts, computed, and the sets of ServicePlaces.     *)
(***************************************************************************)
EXTENDS MCService, ServicePlaces

AllRoutes == MCRoutes \cup MCJobs
Live(S) == {p \in S : ~Ended(p)}

Throwing == {"risk", "throw", "send", "mined", "write", "ask", "await", "poll"}

\* Whether s may still come to a step of ops; a return is not passed by.
RECURSIVE Mentions(_, _)
Mentions(s, ops) ==
  LET i == SelectInSeq(s, LAMBDA x : x.op = "stop")
      Within(u) == \E j \in DOMAIN u :
        u[j].op \in ops \/ Mentions(u[j].then, ops) \/ Mentions(u[j].else, ops)
  IN IF i # 0 /\ ~Mentions(SubSeq(s, 1, i - 1), Throwing)
     THEN Within(SubSeq(s, 1, i - 1)) \/ Mentions(Returned(SubSeq(s, i + 1, Len(s))), ops)
     ELSE Within(s)

\* Workers that answer without looking, and put jobs back.
BoldWorkers == {"AAtoEOA", "ContainerRelay", "OpenContainerRelay", "cardGatewayRewardPool"}
\* Functions that are called for a job and not for a queue.
Direct == {"fulfil", "eoaUsdcStripe"}

IsCareful(p) ==
  ~Mentions(p.rest, {"answer", "relay", "push"}
                      \cup IF p.kind = "worker" /\ p.name \in BoldWorkers THEN {"requeue"} ELSE {})
IsSilent(p) ==
  /\ IsCareful(p) /\ ~Mentions(p.rest, {"say", "requeue"})
  /\ IsHandler(p) => ~Mentions(p.rest, Throwing)

\* Somebody else may answer, and the connection between the servers be renewed.
Flips(p) ==
  CASE p.conn = "none" -> {}
    [] p.conn = "inner" /\ IsSilent(p) -> {Flipped(p, TRUE), Flipped(p, FALSE)}
    [] OTHER -> IF IsCareful(p) THEN {Flipped(p, FALSE)} ELSE {}

\* What is reached by Step1 from each of starts.
From(Step1(_), starts) ==
  LET RECURSIVE Walk(_, _)
      Walk(met, new) ==
        IF new = {} THEN met
        ELSE LET all == met \cup new IN Walk(all, UNION {Step1(x) : x \in new} \ all)
  IN UNION {Walk({}, {e}) : e \in starts}

\* And from the new starts that Start1 makes on the way.
Throughout(Step1(_), Start1(_), starts) ==
  LET RECURSIVE Walks(_, _)
      Walks(met, new) ==
        IF new = {} THEN {}
        ELSE LET here == From(Step1, new)
                 all == met \cup new
             IN here \cup Walks(all, UNION {Start1(x) : x \in here} \ all)
  IN Walks({}, starts)

WalkStep(p) == Live(Own(p)) \cup Flips(p)
Walked(doors) == Throughout(WalkStep, Begun, doors)

OweStep(p) ==
  CASE Head1(p).op \in {"say", "answer", "push", "requeue", "relay"} -> {}
    [] Head1(p).op = "spawn" /\ Mentions(Block(p).rest, {"say", "answer"}) -> Beside(p)
    [] OTHER -> Live(Same(p))

MCAll == Walked(Doors(AllRoutes))
MCAsks == {p \in MCAll : ~OnMaster(p) /\ Mentions(p.rest, {"ask", "await", "say", "answer"})}

MCPlaces ==
  LET Turned(p) == {Flipped(p, TRUE), Flipped(p, FALSE)} \cap MCAll
      Starts(W) == {p \in MCAll : p.kind = "worker" /\ p.name \in W /\ p.rest = Script["worker"][p.name]}
      Handed == {e \in UNION {Begun(p) : p \in MCAll} : e.conn = "client" /\ e.open}
      UnheardStep(p) == Turned(p) \cup IF Head1(p).op = "await" THEN {} ELSE Live(Own(p))
      RingStep(p) ==
        Turned(p) \cup CASE Head1(p).op = "again" -> {}
                         [] Head1(p).op = "spawn" /\ Takes(p) -> Beside(p)
                         [] OTHER -> Live(Same(p))
      FirstStep(p) ==
        Turned(p) \cup IF Head1(p).op = "again" THEN {} ELSE {n \in Live(Same(p)) : Synchronous(n)}
  IN [all |-> MCAll,
      careful |-> {p \in MCAll : IsCareful(p)},
      silent |-> {p \in MCAll : IsSilent(p)},
      asks |-> MCAsks,
      heard |-> MCAsks \ From(UnheardStep, Doors(MCRoutes)),
      owes |-> From(OweStep, Doors(AllRoutes) \cup Handed),
      rings |-> From(RingStep, Starts(MCQueue \ Direct)),
      direct |-> Direct,
      first |-> From(FirstStep, Starts(Direct))]
================================================================================
