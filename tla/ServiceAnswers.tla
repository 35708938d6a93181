---------------------------- MODULE ServiceAnswers ----------------------------
(***************************************************************************)
(* What a run may say of the payment of its request.  Once no run can      *)
(* settle the payment any more, every run that is left can only find of it *)
(* what it was then; until then it may become anything, unless it has been *)
(* seen.  An answer is safe when what it says stays true either way.  The  *)
(* Cluster's run hands Master's answer on, so that an answer of Master     *)
(* must be safe for both.  MCServiceRoutes computes what the runs can find. *)
(***************************************************************************)
EXTENDS ServiceEffects

Bad == {"refused", "failed"}

\* What a run at p may say now on its connection.
Speech(p) ==
  IF p.conn = "none" \/ ~p.open THEN {}
  ELSE {n \in {Head1(p).name} : Head1(p).op \in {"say", "answer"}}
         \cup {n \in {"failed"} : Head1(p).op = "relay" \/ (Escaping(p) /\ IsHandler(p))}

\* Answer a stays true of the payment m; heired: a run may still settle it;
\* late: the route may answer an error for what has succeeded.  An answer of
\* Master that is handed on may be any.
Safe(a, m, heired, late) ==
  /\ a = "done" => m = "seen" \/ (~heired /\ m = "none")
  /\ a \in Bad => late \/ (~heired /\ m # "seen")
  /\ a = "inner" => (m = "seen" /\ late) \/ (~heired /\ m = "none")

\* What a run may find of the payment m, now or later.
Fates(m, heired) == IF heired /\ m # "seen" THEN State ELSE {m}

Nexts(P, p) == {n \in Own(p) \cup Begun(p) \cup Turns(P, p) : ~Ended(n)}

------------------------------------------------------------------------------
(* P being the places, C their ledgers, T says                             *)
(*   T.pays    which runs may still settle the payment, not just the fee,  *)
(*   T.aside   as <<p, m>>, which payment m a run finds that settles neither, *)
(*   T.under   which runs have been begun by a question of the Cluster whose *)
(*             answer is not handed on,                                    *)
(*   T.echoes  who may hand Master's answer on before asking again,        *)
(*   T.late    which runs are of routes in LateErrors only.                *)

\* p asks Master for itself.
Consults(C, T, p) == Head1(p).op = "ask" /\ Moved(p) \cap T.echoes \subseteq C.spends

PayRules(P, C, T) ==
  /\ T.pays \subseteq C.spends
  /\ \A p \in C.spends :
       /\ Settles(p) /\ Head1(p).name = "main" => p \in T.pays
       /\ Nexts(P, p) \cap T.pays # {} => p \in T.pays

EchoRules(P, T) ==
  /\ T.echoes \subseteq P.asks
  /\ \A p \in P.all :
       /\ "inner" \in Speech(p) => p \in T.echoes
       /\ Beside(p) \cap T.echoes = {}
       /\ Head1(p).op = "ask" => Raised(p) \cap T.echoes = {}
       /\ Head1(p).op # "ask" /\ Same(p) \cap T.echoes # {} => p \in T.echoes
       /\ Turns(P, p) \cap T.echoes # {} => p \in T.echoes

UnderRules(P, C, T) ==
  \A p \in T.under :
    /\ p \in P.all /\ p \notin C.spends /\ p \notin P.asks /\ p.conn # "client"
    /\ Nexts(P, p) \subseteq T.under

LateRules(P, C, T) ==
  /\ C.watched \subseteq T.late
  /\ \A p \in P.all : Nexts(P, p) \cap T.late # {} => p \in T.late

\* A handler that settles the payment or the fee catches its errors.
SpeechRules(P, C) ==
  \A p \in P.all :
    /\ Settles(p) => Speech(p) = {}
    /\ p \in C.spends => Turns(P, p) \subseteq C.spends

AsideRules(P, C, T) ==
  \A k \in T.aside :
    LET p == k[1]
        m == k[2]
    IN /\ p \in P.all /\ p \notin C.spends
       /\ \A n \in Nexts(P, p) : <<n, m>> \in T.aside \/ (n \in Begun(p) \cap T.under /\ Consults(C, T, p))
       /\ \A a \in Speech(p) \ {"inner"} : Safe(a, m, FALSE, p \in T.late)
       /\ p \in C.watched /\ m = "sent" => {p} \X {"seen", "failed"} \subseteq T.aside

\* The run that may settle the payment or the fee, with ledger v: what it leaves to others
\* and what it says.
HeirRules(C, T) ==
  \A k \in C.ledger :
    LET p == k[1]
        v == k[3]
        Pays(S) == S \cap T.pays # {}
        Knows(n, m, heired) == {n} \X Fates(m, heired) \subseteq T.aside
    IN /\ \A o \in Outcomes(p, v) : o[1] \notin C.spends /\ ~Ended(o[1]) =>
            /\ Knows(o[1], o[2]["main"], Pays(News(p)))
            /\ o[1] \in T.echoes /\ Head1(p).op # "ask" =>
                 Safe("inner", o[2]["main"], Pays(News(p)), o[1] \in T.late)
       /\ \A b \in News(p) \ C.spends : ~Ended(b) =>
            \/ Knows(b, v["main"], Pays(Same(p) \cup News(p)))
            \/ b \in Begun(p) \cap T.under /\ Consults(C, T, p)
       /\ \A a \in Speech(p) : Safe(a, v["main"], Pays(Same(p)) /\ ~Escaping(p), p \in T.late)

AnswerRules(R, P, C, T) ==
  /\ \A r \in R : \A d \in Doors({r}) :
       /\ d \notin C.spends => <<d, "none">> \in T.aside
       /\ d \in T.late => r[2] \in LateErrors
  /\ PayRules(P, C, T) /\ EchoRules(P, T) /\ UnderRules(P, C, T) /\ LateRules(P, C, T)
  /\ SpeechRules(P, C) /\ AsideRules(P, C, T) /\ HeirRules(C, T)

================================================================================
