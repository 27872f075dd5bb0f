---------------------------- MODULE MCAgentGraph ----------------------------
(* Every pair of analysts in both orders, and all four as the web client   *)
(* selects them.                                                           *)
EXTENDS AgentGraph

PairsAndAll ==
  {s \in Analysts \X Analysts : s[1] # s[2]}
    \cup {<<"market", "social", "news", "fundamentals">>}
FourDepths == 2..5
=============================================================================
