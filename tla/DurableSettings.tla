---------------------------- MODULE DurableSettings ----------------------------
(***************************************************************************)
(* What the controller promises of its settings, without saying how: they  *)
(* change by one operation at a time, on top of all before it; what is     *)
(* shown has been stored; an error may leave one change stored that is not *)
(* shown until the next start; and a registration is recorded only under   *)
(* consent, for the server in effect, and goes with that server.           *)
(* SessionController implements this module while no setting overtakes     *)
(* another.                                                                *)
(***************************************************************************)

CONSTANTS
  Servers, Websites,   \* origins
  ConfigServer,        \* the server of the configuration, or None
  Stamps,              \* values of the prompt markers
  None                 \* null

VARIABLES
  shown,   \* the settings as getState() gives them
  kept     \* the settings on the disk

vars == <<shown, kept>>

Fresh == [consent |-> "withheld", override |-> None, website |-> None,
          status |-> "unregistered", issuer |-> None, points |-> None, mark |-> None]

Init == shown = Fresh /\ kept = Fresh

InEffect(m) == IF m.override # None THEN m.override ELSE ConfigServer

(***************************************************************************)
(* The operations: what one of them makes of the settings m.               *)
(***************************************************************************)

Consents(m, n) == \E v \in {"granted", "withheld"} : n = [m EXCEPT !.consent = v]
Visits(m, n) == \E w \in Websites \cup {None} : n = [m EXCEPT !.website = w]

\* Another server in effect takes the registration away, in the same write.
Moves(m, n) ==
  \E s \in Servers \cup {None} :
    LET moved == [m EXCEPT !.override = s]
    IN  n = IF InEffect(moved) = InEffect(m) THEN moved
            ELSE [moved EXCEPT !.status = "unregistered", !.issuer = None]

\* The outcome of a registration.
Registers(m, n) ==
  /\ m.consent = "granted"
  /\ \/ n = [m EXCEPT !.status = "registered", !.issuer = InEffect(m)]
     \/ n = [m EXCEPT !.status = "failed"]

\* The consent prompt's marker is stamped once.  The points prompt's may be stamped again, by a
\* call that began before it was there.
Marks(m, n) ==
  \E s \in Stamps : n = [m EXCEPT !.points = s] \/ (m.mark = None /\ n = [m EXCEPT !.mark = s])

Changes(m, n) == n = m \/ Consents(m, n) \/ Visits(m, n) \/ Moves(m, n) \/ Registers(m, n) \/ Marks(m, n)

(***************************************************************************)
(* What becomes of them.                                                   *)
(***************************************************************************)

\* A change is stored, and then shown.
Commit == Changes(shown, shown') /\ kept' = shown'

\* A change is stored, but an error is reported.
Doubt == Changes(shown, kept') /\ UNCHANGED shown

\* What is stored counts.
Restart == shown' = kept /\ UNCHANGED kept

Next == Commit \/ Doubt \/ Restart

Spec == Init /\ [][Next]_vars
=============================================================================
