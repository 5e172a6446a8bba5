----------------------------- MODULE MCPipeline -----------------------------
(* Job j1 has up to two batches, j2 one; a search uses the other pool.      *)
EXTENDS Pipeline, TLC

CONSTANTS j1, j2, c1, c2, c3, q1

MCMaxBatches == [j \in Jobs |-> IF j = j1 THEN 2 ELSE 1]

MCJobOf == [c \in Calls |-> CASE c \in {c1, c2} -> j1 [] c = c3 -> j2 [] OTHER -> None]

MCPoolOf == [c \in Calls |-> IF c \in {c1, c2, c3} THEN "ingest" ELSE "query"]

MCSlots == [p \in Pools |-> 1]
=============================================================================
