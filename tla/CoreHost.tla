------------------------------- MODULE CoreHost -------------------------------
(***************************************************************************)
(* The host as its windows see it: the state that src/routes.ts answers    *)
(* with, and what the routes change of it.  A route commits a change and   *)
(* takes the snapshot it answers with in one step; what is slow is the way *)
(* to the host and back.                                                   *)
(***************************************************************************)
EXTENDS Naturals

CONSTANT MaxActs   \* bound: how often a person, another window or a failure may still strike

ASSUME ActAssumption == MaxActs \in Nat

VARIABLES
  host,   \* the published state: `at` counts its changes, the rest is its consent,
          \* consent.changedAt # null, and usageConsentPromptShownAt # null
  left    \* the acts that are left

HostTypeOK ==
  /\ host.consent \in {"granted", "withheld"} /\ host.changed \in BOOLEAN /\ host.stamped \in BOOLEAN
  /\ host.at \in Nat /\ left \in 0..MaxActs

HostInit ==
  /\ host = [at |-> 0, consent |-> "withheld", changed |-> FALSE, stamped |-> FALSE]
  /\ left \in 0..MaxActs

Act == left > 0 /\ left' = left - 1

\* POST /consent, and POST /server or /website or /device/register.
SetConsent(state) == host' = [host EXCEPT !.at = @ + 1, !.consent = state, !.changed = TRUE]
SetAddress == host' = [host EXCEPT !.at = @ + 1]

\* POST /consent/prompt-shown: the marker is stamped once.
MarkShown == host' = IF host.stamped THEN host ELSE [host EXCEPT !.at = @ + 1, !.stamped = TRUE]

\* consentPrompt().show: a consent nobody has decided about, and nobody was asked.
Show == host.consent = "withheld" /\ ~host.changed /\ ~host.stamped

\* Another client, or the host itself, changes the state.
Elsewhere ==
  /\ Act
  /\ SetAddress \/ \E state \in {"granted", "withheld"} : SetConsent(state)
=============================================================================
