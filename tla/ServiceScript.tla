----------------------------- MODULE ServiceScript -----------------------------
(***************************************************************************)
(* The vocabulary in which the handlers and workers of the service are     *)
(* written down.  A script is a sequence of steps; a step is what happens  *)
(* between two points at which the JavaScript engine may run something     *)
(* else, or an outcome the program branches on.  Everything a script does  *)
(* not name (parsing, formatting, reads whose failure is ignored) leaves   *)
(* the model's state alone.                                                *)
(*                                                                         *)
(* Answers are abstracted to their class: "refused" for 4xx, "failed" for  *)
(* 5xx; a 2xx is "done" when its body says that what was asked for has     *)
(* happened, "sent" when it gives the hash of a transaction whose receipt  *)
(* nobody insisted on, "accepted" when it says that it will happen,        *)
(* "already" when it says that it had happened before, and "ok" otherwise. *)
(* Consecutive checks with the same answer are one check, consecutive      *)
(* awaited calls under the same catch are one call.                        *)
(***************************************************************************)
EXTENDS Naturals, Sequences

Step(o, n, s, t) == <<[op |-> o, name |-> n, then |-> s, else |-> t]>>

Nothing == <<>>

------------------------------------------------------------------------------
(* Control.                                                                *)

\* The program goes on with s or with t, by data the model leaves out.
Either(s, t) == Step("either", "", s, t)

\* A check: the program goes on, or does s (which usually ends the run).
Unless(s) == Either(Nothing, s)

\* An awaited or computed value that may throw.
Risk == Step("risk", "", Nothing, Nothing)

\* An explicit throw of the program.
Throw == Step("throw", "", Nothing, Nothing)
Require == Unless(Throw)

\* try s catch h; try s finally f.
Try(s, h) == Step("try", "", s, Step("catch", "", h, Nothing))
Finally(s, f) == Step("try", "", s, Step("finally", "", f, Nothing))

\* In a catch block: s when the error is of the kind named, otherwise t.
IfError(n, s, t) == Step("iferror", n, s, t)

\* A later branch on whether effect e was seen to succeed.
IfDone(e, s, t) == Step("ifdone", e, s, t)

\* An asynchronous block nobody awaits.
Spawn(s) == Step("spawn", "", s, Nothing)

Stop == Step("stop", "", Nothing, Nothing)

------------------------------------------------------------------------------
(* Answers.  Say is guarded by res.headersSent, Answer is not.             *)

Say(c) == Step("say", c, Nothing, Nothing)
Answer(c) == Step("answer", c, Nothing, Nothing)

Refuse == Unless(Answer("refused") \o Stop)    \* if (bad) return res.status(4xx)
Fail == Unless(Answer("failed") \o Stop)       \* if (bad) return res.status(5xx)

\* A handler whose whole body is in a try with a 5xx in its catch.
Guarded(s) == Try(s, Answer("failed"))

\* An awaited read that answers 5xx itself when it throws.
ReadOrFail == Try(Risk, Answer("failed") \o Stop)

\* Routes that read and answer, with or without a 404, perhaps from a cache.
\* The bare one has no try: Express answers 500 for its exceptions.
Read == Guarded(Risk \o Answer("ok"))
Find == Guarded(Risk \o Refuse \o Answer("ok"))
Cached(s) == Either(Answer("ok") \o Stop, s)
Query == Refuse \o Read
Lookup == Refuse \o Find
CachedQuery == Refuse \o Cached(Read)
CachedLookup == Refuse \o Cached(Find)
BareQuery == Refuse \o Risk \o Refuse \o Answer("ok")

------------------------------------------------------------------------------
(* Effects: a transaction is sent; whether it was mined or reverted is      *)
(* settled when somebody looks: tx.wait() returns its receipt, throws on a  *)
(* revert, and throws when the RPC loses the answer.  A receipt without     *)
(* the event of the call counts as a revert: the program throws for both.  *)
(* Write is a database or file write.                                      *)

Send(e) == Step("send", e, Nothing, Nothing)
Mined(e) == Step("mined", e, Nothing, Nothing)
Tx(e) == Send(e) \o Mined(e)
Write(e) == Step("write", e, Nothing, Nothing)

\* A follow-up whose failure is logged and otherwise ignored, and a read of
\* that kind, on which nothing the model keeps depends.
Tolerate(s) == Try(s, Nothing)
Look == Nothing

------------------------------------------------------------------------------
(* Other processes: Relay pipes Master's answer to the client, Ask waits   *)
(* for it and goes on with s after a 2xx and with t after anything else.   *)

Relay(r) == Step("relay", r, Nothing, Nothing) \o Stop
Ask(r, s, t) == Step("ask", r, s, t)

Pass(r) == Refuse \o Relay(r)

\* A post whose answer nobody waits for.
Post(r) == Step("post", r, Nothing, Nothing)

\* The same answer to the client, after one's own catch: a 5xx.
Echo == Answer("inner")
Forward(r) == Try(Ask(r, Echo, Echo), Answer("failed"))

------------------------------------------------------------------------------
(* Master's queues and keys.  Push is pool.push and a call of the worker.  *)
(* Key is shiftSettle...: with no idle key the job goes back to the head   *)
(* of the queue, a timer is set and the run returns.                       *)

Push(w) == Step("push", w, Nothing, Nothing)       \* with the response object
PushOf(w, kind) == Step("push", w, Step("kind", kind, Nothing, Nothing), Nothing)
PushSilent(w) == Step("pushsilent", w, Nothing, Nothing)
PushAs(w, kind) == Step("pushsilent", w, Step("kind", kind, Nothing, Nothing), Nothing)
IfJob(kind, s, t) == Step("ifjob", kind, s, t)     \* a field of the job
Requeue == Step("requeue", "", Nothing, Nothing)
Again == Step("again", "", Nothing, Nothing)
TakeKey(ch, s) == Step("take", ch, s, Nothing)
GiveKeys == Step("give", "", Nothing, Nothing)
IdleKey(ch, s) == Step("idle", ch, s, Nothing)

\* Settle_ContractPool[0]: the wallet of the first key, without taking it.
Borrow(ch) == Step("borrow", ch, Nothing, Nothing)

Key(ch) == TakeKey(ch, Requeue \o Again \o Stop)

\* A helper that waits for a key of its own, up to two minutes.
PollKey(ch) == Step("poll", ch, Nothing, Nothing)

\* Mutant: the key goes back after the body, not in a finally block.
Worker_NoFinally(ch, body, h) == Key(ch) \o Try(body, h) \o GiveKeys \o Again

\* The common shape of a worker: try body catch h finally give back, again.
Worker(ch, body, h) == Key(ch) \o Finally(Try(body, h), GiveKeys \o Again)

================================================================================
