-------------------------------- MODULE Health --------------------------------
(***************************************************************************)
(* src/health/service.ts over src/health/loader.ts and                     *)
(* src/health/evaluate.ts: the checks of the required components.  Timer,  *)
(* loader event and person ask for checks; the checks run one after the    *)
(* other in a chain, each of them lists the loader's entries, then reads   *)
(* the package and the phase of each component, evaluates what it read,    *)
(* stores the result and shows it.                                         *)
(*                                                                         *)
(* An action is the code between two awaits.  The components change under  *)
(* a check at any time.  Texts, digests and version strings are abstract.  *)
(***************************************************************************)
EXTENDS Naturals, Sequences, FiniteSets

CONSTANTS
  Components,   \* the components of the suite profile
  Policy,       \* onFailure of each
  Facts,        \* what may be the case with each, in the loader and on disk
  Checks,       \* concurrent calls of recheck()
  MaxChanges,   \* bound: changes of the components
  MaxFaults     \* bound: failures of the loader and of the store

Packages == {"present", "incompatible", "damaged", "unreadable"}
EveryFact == [listed : {"none", "one", "many"}, phase : {"active", "failed", "inactive"},
              package : Packages]

ASSUME PolicyAssumption == Policy \in [Components -> {"block", "restrict", "notice"}]
ASSUME FactAssumption == Facts \in [Components -> SUBSET EveryFact]
ASSUME BoundAssumption == MaxChanges \in Nat /\ MaxFaults \in Nat

VARIABLES
  fact,      \* what is the case with each component
  changes,   \* how often that has changed
  faults,    \* how often the loader or the store has failed
  chain,     \* the calls in #chain, head first
  seen,      \* what the head's observe() knows of each component
  package,   \* the package that it has read, until it looks at the phase
  slow,      \* the components whose startup failure the head is waiting for
  shown,     \* #snapshot: its mode, or its fault
  closed,    \* #closed
  since      \* per call: what has been the case with each component since it was made

health == <<fact, changes, faults, chain, seen, package, slow, shown, closed, since>>

Statuses == {"satisfied", "missing", "incompatible", "damaged", "unreadable", "inactive",
             "failed", "ambiguous"}
Modes == {"normal", "restricted", "blocked", "repair"}
Shown == Modes \cup {"CHECK_NOT_RUN", "INVENTORY_UNAVAILABLE", "PERSISTENCE_UNAVAILABLE"}
Unseen == [k \in Components |-> "unseen"]
Unread == [k \in Components |-> "unread"]
Strict == {k \in Components : Policy[k] # "notice"}

HealthTypeOK ==
  /\ fact \in [Components -> EveryFact] /\ changes \in 0..MaxChanges /\ faults \in 0..MaxFaults
  /\ chain \in Seq(Checks)
  /\ seen \in [Components -> Statuses \cup {"unseen", "listed", "lost"}]
  /\ package \in [Components -> Packages \cup {"unread"}] /\ slow \subseteq Components
  /\ shown \in Shown /\ closed \in BOOLEAN
  /\ since \in [Checks -> SUBSET (Strict \X {"listed", "present", "active"})]

HealthInit ==
  /\ fact \in [Components -> EveryFact] /\ \A k \in Components : fact[k] \in Facts[k]
  /\ changes = 0 /\ faults = 0
  /\ chain = <<>> /\ seen = Unseen /\ package = Unread /\ slow = {}
  /\ shown = "CHECK_NOT_RUN" /\ closed = FALSE
  /\ since = [c \in Checks |-> {}]

(***************************************************************************)
(* The components.                                                         *)
(***************************************************************************)

\* What is good at the moment with the components that must run.
Good(f) ==
  {<<k, "listed">> : k \in {j \in Strict : f[j].listed = "one"}} \cup
  {<<k, "present">> : k \in {j \in Strict : f[j].package = "present"}} \cup
  {<<k, "active">> : k \in {j \in Strict : f[j].phase = "active"}}

\* A component is installed, broken, loaded, unloaded, ...
Change(k) ==
  /\ changes < MaxChanges /\ changes' = changes + 1
  /\ \E f \in Facts[k] \ {fact[k]} : fact' = [fact EXCEPT ![k] = f]
  /\ since' = [c \in Checks |-> IF c \in {chain[i] : i \in DOMAIN chain}
                                THEN since[c] \cup Good(fact') ELSE {}]
  /\ UNCHANGED <<faults, chain, seen, package, slow, shown, closed>>

(***************************************************************************)
(* A check.                                                                *)
(***************************************************************************)

\* recheck(): a check of its own after the ones that were asked for before.
Recheck(c) ==
  /\ ~closed /\ c \notin {chain[i] : i \in DOMAIN chain}
  /\ chain' = Append(chain, c)
  /\ since' = [since EXCEPT ![c] = Good(fact)]
  /\ UNCHANGED <<fact, changes, faults, seen, package, slow, shown, closed>>

\* The entries of the loader that match a component: none, too many, or one.
Entry(k) == CASE fact[k].listed = "none" -> "missing" [] fact[k].listed = "many" -> "ambiguous"
              [] fact[k].listed = "one" -> "listed"

\* observe(): the entries are listed at once.
List ==
  /\ chain # <<>> /\ seen = Unseen
  /\ seen' = [k \in Components |-> Entry(k)]
  /\ UNCHANGED <<fact, changes, faults, chain, package, slow, shown, closed, since>>

\* The loader's entries cannot be read.
ListFails ==
  /\ chain # <<>> /\ seen = Unseen
  /\ faults < MaxFaults /\ faults' = faults + 1
  /\ seen' = [k \in Components |-> "lost"]
  /\ UNCHANGED <<fact, changes, chain, package, slow, shown, closed, since>>

\* The package of a component has been read.
Inspect(k) ==
  /\ seen[k] = "listed" /\ package[k] = "unread"
  /\ package' = [package EXCEPT ![k] = fact[k].package]
  /\ UNCHANGED <<fact, changes, faults, chain, seen, slow, shown, closed, since>>

\* componentResult() of a component that has one entry.
Status(pack, phase) ==
  IF pack # "present" THEN pack
  ELSE CASE phase = "active" -> "satisfied" [] phase = "failed" -> "failed"
         [] phase = "inactive" -> "inactive"

\* Then its phase is read.
Look(k) ==
  /\ package[k] # "unread"
  /\ seen' = [seen EXCEPT ![k] = Status(package[k], fact[k].phase)]
  /\ package' = [package EXCEPT ![k] = "unread"]
  /\ slow' = IF fact[k].phase = "failed" THEN slow \cup {k} ELSE slow
  /\ UNCHANGED <<fact, changes, faults, chain, shown, closed, since>>

\* Mutant: the startup failure is awaited without a timeout.
DiagnosedAtLast(k) ==
  /\ k \in slow /\ fact[k].phase # "failed"
  /\ slow' = slow \ {k}
  /\ UNCHANGED <<fact, changes, faults, chain, seen, package, shown, closed, since>>

\* startupFailure(): the fiber tells why it failed, or the timeout ends the wait.
Diagnosed(k) ==
  /\ k \in slow
  /\ slow' = slow \ {k}
  /\ UNCHANGED <<fact, changes, faults, chain, seen, package, shown, closed, since>>

Observed == chain # <<>> /\ seen # Unseen /\ slow = {} /\ \A k \in Components : seen[k] # "listed"

\* Mutant: the mode is the policy of the first issue.
ModeByPolicy(status) ==
  LET issues == {k \in Components : status[k] # "satisfied"}
  IN  IF issues = {} THEN "normal" ELSE Policy[CHOOSE k \in issues : TRUE]

\* The mode of evaluate().
Mode(status) ==
  LET issues == {k \in Components : status[k] # "satisfied"}
      Is(policy) == \E k \in issues : Policy[k] = policy
  IN  CASE \E k \in issues : status[k] \in {"damaged", "unreadable", "failed", "ambiguous"} -> "repair"
        [] OTHER -> IF Is("block") THEN "blocked" ELSE IF Is("restrict") THEN "restricted" ELSE "normal"

\* The snapshot of the head's check: evaluate() or faultSnapshot().
Candidate ==
  IF \E k \in Components : seen[k] = "lost" THEN "INVENTORY_UNAVAILABLE" ELSE Mode(seen)

\* Mutant: the next check uses the inventory of the one before.
OverKeepingInventory ==
  chain' = Tail(chain) /\ seen' = seen /\ since' = [since EXCEPT ![Head(chain)] = {}]

\* The head's check is over; the next one begins.
Over == chain' = Tail(chain) /\ seen' = Unseen /\ since' = [since EXCEPT ![Head(chain)] = {}]

Published ==
  /\ Observed
  /\ shown' = Candidate
  /\ Over
  /\ UNCHANGED <<fact, changes, faults, package, slow, closed>>

\* The store rejects, whatever it did with the snapshot.
PublishFails ==
  /\ Observed /\ faults < MaxFaults /\ faults' = faults + 1
  /\ shown' = "PERSISTENCE_UNAVAILABLE"
  /\ Over
  /\ UNCHANGED <<fact, changes, package, slow, closed>>

Checking ==
  \/ List \/ ListFails \/ Published \/ PublishFails
  \/ \E k \in Components : Inspect(k) \/ Look(k) \/ Diagnosed(k)

\* The mode that a check would find if nothing changed.
ModeNow ==
  Mode([k \in Components |-> IF Entry(k) = "listed" THEN Status(fact[k].package, fact[k].phase)
                                                  ELSE Entry(k)])
=============================================================================
