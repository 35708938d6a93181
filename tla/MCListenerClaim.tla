--------------------------- MODULE MCListenerClaim ---------------------------
(* Two blocks: an admin event and a claim in the first, another node's      *)
(* claim in the second; one block to a getLogs.                             *)
EXTENDS ListenerClaim

CONSTANTS a1, c1, f1

MCEvent == {a1, c1, f1}
MCKind == [e \in MCEvent |-> CASE e = a1 -> "admin" [] e = c1 -> "claim" [] e = f1 -> "foreign"]
MCBlock == [e \in MCEvent |-> IF e = f1 THEN 2 ELSE 1]
MCLog == <<a1, c1, f1>>
===============================================================================
