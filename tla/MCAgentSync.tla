---------------------------- MODULE MCAgentSync ----------------------------
(* AgentSync on small instances. *)
EXTENDS AgentSync, TLC

CONSTANTS c1, c2, x1, u1, u2, m1

OneFile == {c1}
OneOrder == (c1 :> 1)
OneSource == <<"claude">>
OneSourceOf == (c1 :> "claude")
NoUnruly == {}
TornWrites == {"torn"}
LostState == {"lose"}
Regrowth == {"regrow"}
LateRequests == {"late"}
OneCodexSource == <<"codex">>
OneCodexSourceOf == (x1 :> "codex")
OneCodexFile == {x1}
OneCodexOrder == (x1 :> 1)
ThreeOrder == (c1 :> 1) @@ (c2 :> 2) @@ (x1 :> 3)
TwoSources == <<"claude", "codex">>
ThreeSourceOf == (c1 :> "claude") @@ (c2 :> "claude") @@ (x1 :> "codex")
=============================================================================
