--------------------------- MODULE MCCredService ---------------------------
(* CredService on a small instance: two handlers, two agents, every        *)
(* sub-list of the agents in every order as a configuration.               *)
EXTENDS CredService, TLC

CONSTANTS h1, h2, a1, a2

MCHandlers == {h1, h2}
MCAgents   == {a1, a2}

MCConfigLists == {<<>>, <<a1>>, <<a2>>, <<a1, a2>>, <<a2, a1>>}

\* The configurations of the liveness run.
MCShortLists == {<<>>, <<a1>>}

\* Handlers and agents are only ever compared, and the lists are closed
\* under swapping the agents.
MCSymmetry == Permutations(MCHandlers) \cup Permutations(MCAgents)
=============================================================================
