--------------------------- MODULE WriteOnceIdentity ---------------------------
(***************************************************************************)
(* What the shared identity file promises to the clients of one OS user,   *)
(* without saying how: there is one machine identity, the first key that   *)
(* is claimed defines it, it never changes afterwards, and a client either *)
(* knows that key or knows none.  SharedIdentity implements this module.   *)
(***************************************************************************)

CONSTANTS
  Clients,   \* the clients (DSH, HanaMesh desktop) that load Core
  Keys,      \* device keys
  NoKey      \* the absent key

VARIABLES
  shared,    \* the machine identity, NoKey until it is claimed
  known      \* known[c]: the identity client c currently acts under

vars == <<shared, known>>

Init ==
  /\ shared = NoKey
  /\ known = [c \in Clients |-> NoKey]

\* The first claim defines the identity.
Claim(k) ==
  /\ shared = NoKey
  /\ shared' = k
  /\ UNCHANGED known

\* A client learns the identity there is.
Learn(c) ==
  /\ shared # NoKey
  /\ known' = [known EXCEPT ![c] = shared]
  /\ UNCHANGED shared

\* A client stops acting under it: it restarts, or can no longer read it.
Forget(c) ==
  /\ known' = [known EXCEPT ![c] = NoKey]
  /\ UNCHANGED shared

Next ==
  \/ \E k \in Keys : Claim(k)
  \/ \E c \in Clients : Learn(c) \/ Forget(c)

Spec == Init /\ [][Next]_vars
=============================================================================
