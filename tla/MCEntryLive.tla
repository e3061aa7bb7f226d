----------------------------- MODULE MCEntryLive -----------------------------
(***************************************************************************)
(* An entry node on which either the agent or the proxy restarts.          *)
(***************************************************************************)
EXTENDS MCEntryNode

VARIABLE
    restarting      \* which of the two processes may restart

MCInit == EntryInit /\ restarting \in {"agent", "proxy"}

MCNext ==
    \/ EntryStep /\ UNCHANGED restarting
    \/ restarting = "agent" /\ AgentCrash /\ UNCHANGED restarting
    \/ restarting = "proxy" /\ ProxyCrash /\ UNCHANGED restarting

MCLiveSpec == MCInit /\ [][MCNext]_<<nodeVars, restarting>> /\ EntryFairness
=============================================================================
