----------------------------- MODULE ServiceEffects -----------------------------
(***************************************************************************)
(* What becomes of the payment and of the fee of a request, from place to  *)
(* place.  A ledger is what the program has seen of the two.  At most one  *)
(* run or job of a request may still send or settle them (one that         *)
(* executeForOwner leaves in the background may see the payment mined      *)
(* beside it), so that what it can find in the ledger follows from where   *)
(* it is, whatever else runs.  MCServiceRoutes computes the places and the *)
(* ledgers of the scripts.                                                 *)
(***************************************************************************)
EXTENDS ServicePlaces

Charged == {"main", "fee"}
Ledger(q) == [e \in Charged |-> fx[q][e]]
Blank == [e \in Charged |-> "none"]

Settles(p) == Head1(p).op \in {"send", "mined", "write"} /\ Head1(p).name \in Charged

\* The place of a run that is over.
Gone(p) == [p EXCEPT !.rest = <<>>]
Falls(p) == IF Handler(p.rest) = 0 THEN {Gone(p)} ELSE Raised(p)

\* Where a run at p goes that finds the ledger v, and the ledger it leaves.
Outcomes(p, v) ==
  LET s == Head1(p)
      e == s.name
      To(N, x) == N \X {[v EXCEPT ![e] = x]}
      Failing == IF v[e] \in OnChain THEN Falls(p) \X {v} ELSE To(Falls(p), "failed")
  IN CASE s.op = "send" /\ e \in Charged ->
            IF v[e] \in OnChain /\ e \in Unique THEN Falls(p) \X {v}
            ELSE To(Moved(p) \cup Falls(p), "sent") \cup Failing
       [] s.op = "mined" /\ e \in Charged ->
            IF v[e] = "seen" THEN To(Moved(p), "seen")
            ELSE IF v[e] = "sent" THEN To(Moved(p), "seen") \cup To(Falls(p), "failed") \cup Falls(p) \X {v}
            ELSE Falls(p) \X {v}
       [] s.op = "write" /\ e \in Charged -> To(Moved(p), "seen") \cup Failing
       [] s.op = "ifdone" /\ e \in Charged ->
            Goto(p, (IF v[e] = "seen" THEN s.then ELSE s.else) \o Tail(p.rest)) \X {v}
       [] OTHER -> Same(p) \X {v}

\* What a step begins beside its run, and whether an error has put that back.
News(p) == Beside(p) \cup Begun(p)
Repeats(p, again) ==
  CASE Head1(p).op = "spawn" -> again
    [] Head1(p).op = "requeue" -> again \/ p.err # "none"
    [] OTHER -> FALSE

\* Somebody else answers, or asks anew.
Turns(P, p) ==
  {n \in {Flipped(p, FALSE)} : p.conn # "none" /\ p \in P.careful}
    \cup {n \in {Flipped(p, TRUE)} : p.conn = "inner" /\ p \in P.silent}

------------------------------------------------------------------------------
(* P being the places of ServicePlaces, C says which of them               *)
(*   C.spends   may still settle the payment or the fee of the request,    *)
(*   C.ledger   and, as <<p, again, v>>, with which ledgers,               *)
(*   C.watched  are of a request whose payment a block may see mined,      *)
(*   C.ahead    are of a route that may take its fee first.                *)

\* The fee is on the chain only with the payment, or before its outcome is known.
Earned(v, watched, ahead) ==
  v["fee"] \in OnChain =>
    v["main"] = "seen" \/ (v["main"] = "sent" /\ ~watched) \/ ahead

Watches(p) == Head1(p).op = "mined" /\ Head1(p).name = "main"

SpendRules(P, C) ==
  /\ C.spends \subseteq P.all
  /\ \A p \in P.all :
       /\ Settles(p) => p \in C.spends \/ (p \in C.watched /\ Watches(p))
       /\ \A n \in Own(p) \cup Begun(p) \cup Turns(P, p) : ~Ended(n) =>
            /\ n \in C.spends => p \in C.spends
            /\ n \in C.ahead => p \in C.ahead
            /\ n \in C.watched <=> p \in C.watched
       /\ \A n \in Same(p), b \in News(p) : ~({n, b} \subseteq C.spends)

LedgerRules(P, C) ==
  \A k \in C.ledger :
    LET p == k[1]
        a == k[2]
        v == k[3]
    IN /\ Head1(p).op \in {"send", "write"} /\ Head1(p).name \in Charged \ Unique =>
            (v[Head1(p).name] \in OnChain => a = TRUE)
       /\ \A o \in Outcomes(p, v) :
            /\ o[1] \in C.spends => <<o[1], a, o[2]>> \in C.ledger
            /\ Earned(o[2], p \in C.watched, p \in C.ahead)
       /\ \A n \in News(p) : n \in C.spends => <<n, Repeats(p, a), v>> \in C.ledger
       /\ \A n \in Turns(P, p) : n \in C.spends => <<n, a, v>> \in C.ledger
       /\ p \in C.watched /\ v["main"] = "sent" =>
            \A x \in {"seen", "failed"} : <<p, a, [v EXCEPT !["main"] = x]>> \in C.ledger

ChargeRules(R, P, C) ==
  /\ Charged \subseteq Effect /\ Effect \ Unique \subseteq {"fee"}
  /\ \A r \in R : \A d \in Doors({r}) :
       /\ d \in C.spends => <<d, FALSE, Blank>> \in C.ledger
       /\ d \in C.ahead => r[2] \in FeeFirst
  /\ SpendRules(P, C) /\ LedgerRules(P, C)

================================================================================
