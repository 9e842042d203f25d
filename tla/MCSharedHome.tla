----------------------------- MODULE MCSharedHome -----------------------------
(***************************************************************************)
(* SharedIdentity and AgentOnboarding for TLC.  A behaviour is of the      *)
(* clients or of the agent's processes: what the one writes the other does *)
(* not read, but for the device, which a call of the agent makes when      *)
(* there is none.                                                          *)
(***************************************************************************)
EXTENDS SharedIdentity, AgentOnboarding, TLC

CONSTANTS c1, c2, r1, r2, r3, k1, k2, k3, k4, a1, a2

VARIABLE who   \* "clients" or "agents"

\* c1 has two overlapping resolutions, c2 one.
MCClientOf == (r1 :> c1) @@ (r2 :> c1) @@ (r3 :> c2)

\* A model value stands for a key and for a consent id; neither is told apart
\* from its like.  Two ids are in use at a time: no third is made meanwhile.
HomeSymmetry == Permutations(Keys)

HomeInit ==
  /\ Init /\ AgentInit
  /\ \/ who = "clients" /\ ~device
     \/ who = "agents" /\ \A c \in Clients : snap[c].device = NoKey

HomeNext ==
  /\ UNCHANGED who
  /\ \/ who = "clients" /\ Next /\ UNCHANGED agentVars
     \/ who = "agents" /\ AgentNext /\ UNCHANGED vars

HomeSpec == HomeInit /\ [][HomeNext]_<<vars, agentVars, who>>
=============================================================================
