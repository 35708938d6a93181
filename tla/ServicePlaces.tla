----------------------------- MODULE ServicePlaces -----------------------------
(***************************************************************************)
(* Where a run can be.  A place is what a thread is about to do, without   *)
(* its request, its keys and the rest of the service: there are finitely   *)
(* many places in the scripts, however many requests, keys and faults a    *)
(* behaviour has.  This module says how a run goes from place to place and *)
(* what it must never do at one.  MCServicePlaces computes every place of  *)
(* the scripts, and TLC finds that they obey (MCServiceJobs);              *)
(* ServiceRunsProofs shows what a service whose scripts obey keeps.        *)
(***************************************************************************)
EXTENDS ServiceRuns

\* The place of a thread.  holds: the chains it has keys of; lent: those on
\* which it may use another's; open: its connection has no answer.
Seen(t, open) ==
  [kind |-> t.kind, name |-> t.name, conn |-> t.conn, job |-> t.job, rest |-> t.rest, err |-> t.err,
   holds |-> {s[1] : s \in t.keys}, lent |-> {s[1] : s \in t.lent}, open |-> open]

Open(x) == said[x.q][x.conn] = "none"
Place(t) == Seen(t, Open(t))

\* The place at which a run begins.
Entry(k, n, c, j, open) ==
  [kind |-> k, name |-> n, conn |-> c, job |-> j, rest |-> Script[k][n], err |-> "none",
   holds |-> {}, lent |-> {}, open |-> open]

\* The place at which job x of worker w will begin.
JobPlace(w, x) ==
  Entry("worker", w, x.conn, x.job, Open(x))

Ended(p) == p.rest = <<>>

------------------------------------------------------------------------------
(* Steps from place to place.                                              *)

Goto(p, s) == {With(p, s)}
Branches(p, s, t) == Goto(p, s \o Tail(p.rest)) \cup Goto(p, t \o Tail(p.rest))

\* Its own connection has an answer now.
Closed(p) == [p EXCEPT !.open = p.conn = "none"]

Chains(ch) == IF ch = "both" THEN {"base", "conet"} ELSE {ch}
Keyed(p) == [Next1(p) EXCEPT !.holds = p.holds \cup Chains(Head1(p).name)]

\* What a step may throw; a second answer is no place of a script that obeys.
Errors(p) ==
  CASE Head1(p).op \in {"risk", "mined", "write", "ask", "await", "poll"} -> {"other"}
    [] Head1(p).op = "throw" -> {p.err}
    [] Head1(p).op = "send" -> {"exists", "gas", "nonce", "other"}
    [] OTHER -> {}

Raised(p) ==
  IF Handler(p.rest) = 0 THEN {} ELSE {[With(p, Thrown(p.rest)) EXCEPT !.err = k] : k \in Errors(p)}

\* A block that returns the keys takes them along; another may go on using the
\* wallet on CoNET.
Takes(p) == \E i \in DOMAIN Head1(p).then : Head1(p).then[i].op = "give"
BlockKind(p) == IF Takes(p) THEN p.kind ELSE IF OnMaster(p) THEN "block" ELSE "clusterblock"
Block(p) ==
  [[[With(p, Head1(p).then) EXCEPT !.kind = BlockKind(p)]
      EXCEPT !.lent = IF Takes(p) THEN {} ELSE p.holds \cap {"conet"}]
      EXCEPT !.holds = IF Takes(p) THEN p.holds ELSE {}]
Spawner(p) == [Next1(p) EXCEPT !.holds = IF Takes(p) THEN {} ELSE p.holds]

\* The same run after a step that does not throw.
Moved(p) ==
  LET s == Head1(p)
  IN CASE s.op \in {"either", "ifdone", "await"} -> Branches(p, s.then, s.else)
       [] s.op = "iferror" -> Goto(p, (IF p.err = s.name THEN s.then ELSE s.else) \o Tail(p.rest))
       [] s.op = "ifjob" -> Goto(p, (IF p.job = s.name THEN s.then ELSE s.else) \o Tail(p.rest))
       [] s.op = "try" -> Goto(p, s.then \o s.else \o Tail(p.rest))
       [] s.op = "finally" -> Goto(p, s.then \o Tail(p.rest))
       [] s.op = "stop" -> Goto(p, Returned(Tail(p.rest)))
       [] s.op = "throw" -> {}
       [] s.op = "spawn" -> {Spawner(p)}
       [] s.op \in {"say", "answer"} -> {Closed(Next1(p))}
       [] s.op = "relay" -> {Next1(p), Closed(Next1(p))}
       [] s.op = "ask" -> Goto(p, Step("await", "inner", s.then, s.else) \o Tail(p.rest))
       [] s.op = "take" -> Goto(p, s.then \o Tail(p.rest)) \cup {Keyed(p)}
       [] s.op = "poll" -> {Keyed(p)}
       [] s.op = "idle" -> Branches(p, s.then, <<>>)
       [] s.op = "borrow" -> {[Next1(p) EXCEPT !.lent = {s.name}]}
       [] s.op = "give" -> {[Next1(p) EXCEPT !.holds = {}]}
       [] OTHER -> {Next1(p)}

Same(p) == Moved(p) \cup Raised(p)
Beside(p) == IF Head1(p).op = "spawn" THEN {Block(p)} ELSE {}
Own(p) == Same(p) \cup Beside(p)

\* Where the runs and jobs begin that a step makes.
JobOf(s) == IF s.then = Nothing THEN NoJob ELSE Head(s.then).name
Begun(p) ==
  LET s == Head1(p)
  IN CASE s.op = "relay" -> {Entry("master", s.name, p.conn, NoJob, p.open)}
       [] s.op = "ask" -> {Entry("master", s.name, "inner", NoJob, TRUE)}
       [] s.op = "post" -> {Entry("master", s.name, "none", NoJob, TRUE)}
       [] s.op = "push" -> {Entry("worker", s.name, p.conn, JobOf(s), p.open)}
       [] s.op = "pushsilent" -> {Entry("worker", s.name, "none", JobOf(s), TRUE)}
       [] s.op = "requeue" -> {Entry("worker", p.name, p.conn, p.job, p.open)}
       [] OTHER -> {}

------------------------------------------------------------------------------
(* What a run must not do, P being the places of the scripts and some that *)
(* the rules tell apart:                                                   *)
(*   P.all      every place,                                               *)
(*   P.careful  a run writes no answer without looking whether there is one, *)
(*   P.silent   it writes none and hands no connection on,                 *)
(*   P.asks     it asks Master, now or later,                              *)
(*   P.heard    and has been answered,                                     *)
(*   P.owes     it will answer the client, or hand the client on,          *)
(*   P.rings    it will call its worker again,                             *)
(*   P.first    a run of a direct worker before its first await;           *)
(* and P.direct, the workers that are called once for each job.            *)

Escaping(p) == Errors(p) # {} /\ Handler(p.rest) = 0
Flipped(p, open) == [p EXCEPT !.open = open]

\* Where the requests of the routes R begin.
Doors(R) == {Entry(r[1], r[2], "client", NoJob, TRUE) : r \in R}
DoorRules(R, P) == Doors(R) \subseteq (P.all \cap P.owes) \ (P.heard \cup P.first)

\* The places are closed under steps; a run ends without keys, and only a
\* route lets an exception escape.
PlaceRules(P) ==
  \A p \in P.all :
    /\ ~Ended(p)
    /\ p.conn \in Conn
    /\ \A n \in Own(p) : IF Ended(n) THEN n.holds = {} ELSE n \in P.all
    /\ Begun(p) \subseteq P.all
    /\ Escaping(p) => p.holds = {} /\ IsHandler(p)
    /\ Head1(p).op \in {"push", "pushsilent"} => Head1(p).name \in Queue
    /\ Head1(p).op = "requeue" => p.kind = "worker" /\ p.name \in Queue
    /\ Head1(p).op = "send" /\ p.lent # {} /\ p.holds = {} => p.name \in Borrowers

\* Two runs with one connection: one is silent, or both look first.
Fits(P, a, b) == a \in P.silent \/ b \in P.silent \/ {a, b} \subseteq P.careful

\* The runs that a step leaves with the connection of p, other than p's own.
Sharing(p) == Beside(p) \cup {b \in Begun(p) : b.conn = p.conn}

VoiceRules(P) ==
  /\ P.silent \subseteq P.careful
  /\ P.careful \subseteq P.all
  /\ \A p \in P.all :
       /\ Head1(p).op \in {"answer", "relay"} => p.open
       /\ Head1(p).op \in {"say", "answer"} => Head1(p).name \in (Said \ {"none"}) \cup {"inner"}
       /\ p.conn = "none" => p.open
       /\ p.conn # "none" =>
            /\ \A n \in Same(p), b \in Sharing(p) : Ended(n) \/ Ended(b) \/ Fits(P, n, b)
            /\ \A n \in Same(p) \cup Sharing(p) :
                 /\ p \in P.careful => Ended(n) \/ n \in P.careful
                 /\ p \in P.silent => Ended(n) \/ n \in P.silent
  /\ \A p \in P.careful : p.conn # "none" =>
       /\ Head1(p).op \notin {"answer", "relay"}
       /\ Flipped(p, FALSE) \in P.careful
  /\ \A p \in P.silent : p.conn # "none" =>
       /\ Head1(p).op \notin {"say", "push", "requeue"} /\ ~Escaping(p)
       /\ Flipped(p, FALSE) \in P.silent
       /\ p.conn = "inner" => Flipped(p, TRUE) \in P.silent

\* One run of a request asks Master, and asks again only when nobody is left
\* who would answer the last question.
AskRules(P) ==
  /\ P.heard \subseteq P.asks
  /\ P.asks \subseteq P.all
  /\ \A p \in P.all :
       /\ Head1(p).op \in {"ask", "await"} => p \in P.asks
       /\ Head1(p).op = "await" => Head1(p).name = "inner"
       /\ Head1(p).op = "ask" => \A n \in Moved(p) : Head1(n).op = "await"
       /\ Head1(p).op \in {"say", "answer"} /\ Head1(p).name = "inner" => p \in P.heard
       /\ p.conn = "inner" => OnMaster(p)
       /\ p.conn = "inner" /\ ~p.open => p \in P.silent
       /\ Flipped(p, FALSE) \in P.asks => p \in P.asks
       /\ Flipped(p, FALSE) \in P.heard => p \in P.heard
       /\ \A n \in Own(p) : n \in P.asks => p \in P.asks
       /\ \A n \in Same(p), b \in Beside(p) : ~({n, b} \subseteq P.asks)
       /\ \A n \in Own(p) : n \in P.heard =>
            Head1(p).op = "await" \/ (p \in P.heard /\ Head1(p).op # "ask")
  /\ \A p \in P.asks : ~OnMaster(p) /\ p.conn # "inner"

\* Whoever has a client's connection answers or hands it on.
OweRules(P) ==
  /\ P.owes \subseteq P.all
  /\ \A p \in P.all :
       /\ \A n \in Begun(p) : n.conn = "client" /\ n.open => n \in P.owes
       /\ ~OnMaster(p) /\ p.conn = "client" /\ p.open /\ ~Synchronous(p) => p \in P.owes
  /\ \A p \in P.owes :
       /\ p.conn = "client"
       /\ Head1(p).op \notin {"say", "answer", "relay", "push", "requeue"} =>
            Same(p) \subseteq P.owes \/ (Beside(p) # {} /\ Beside(p) \subseteq P.owes)

\* A run that puts a job back calls its worker again later, and every run does
\* unless each job has its own call.
RingRules(P) ==
  /\ P.rings \subseteq P.all
  /\ \A p \in P.all : p.kind = "worker" /\ p.name \notin P.direct =>
       /\ p.rest = Script["worker"][p.name] => p \in P.rings
       /\ Head1(p).op = "requeue" => p \in P.rings
       /\ p.name \in Single /\ ~Synchronous(p) => p \in P.rings
  /\ \A p \in P.rings :
       /\ p.kind = "worker"
       /\ Head1(p).op # "again" =>
            Same(p) \subseteq P.rings \/ (Beside(p) # {} /\ Beside(p) \subseteq P.rings)
       /\ \A open \in BOOLEAN : Flipped(p, open) \in P.all => Flipped(p, open) \in P.rings

\* A run of a direct worker that puts its job back calls the worker at once.
DirectRules(P) ==
  /\ P.direct \cap Single = {}
  /\ \A p \in P.all : p.kind = "worker" /\ p.name \in P.direct =>
       /\ p.rest = Script["worker"][p.name] => p \in P.first
       /\ Head1(p).op = "requeue" =>
            p \in P.first /\ \A n \in Same(p) : n \in P.first /\ Head1(n).op = "again"
  /\ \A p \in P.all : \A n \in Own(p) :
       n \in P.first => p \in P.first /\ n \notin Beside(p)
  /\ \A p \in P.first :
       /\ p \in P.all /\ p.kind = "worker" /\ Synchronous(p)
       /\ \A open \in BOOLEAN : Flipped(p, open) \in P.all => Flipped(p, open) \in P.first

Obeyed(R, P) ==
  /\ DoorRules(R, P) /\ PlaceRules(P) /\ VoiceRules(P)
  /\ AskRules(P) /\ OweRules(P) /\ RingRules(P) /\ DirectRules(P)

================================================================================
