---------------------------- MODULE MCClientWindows ----------------------------
(* The instance of ClientWindows for TLC. *)
EXTENDS ClientWindows, TLC

CONSTANTS w1, w2, m1, m2, m3

\* Two mounts in one window and one in another.
MCWindowOf == (m1 :> w1) @@ (m2 :> w1) @@ (m3 :> w2)
=============================================================================
