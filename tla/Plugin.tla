-------------------------------- MODULE Plugin --------------------------------
(***************************************************************************)
(* src/dsh.mjs apply() with src/activation.ts, over the health checks: the *)
(* parts of the plugin are opened one after the other, requests wait at    *)
(* the gate meanwhile, and a failure or the host's disposal releases what  *)
(* was opened, each part whatever happens to the others.                   *)
(*                                                                         *)
(* An action is the code between two awaits.  The host disposes a plugin   *)
(* only after its apply() has ended, and activates it again afterwards.    *)
(* What the parts do is in their own modules.                              *)
(***************************************************************************)
EXTENDS Health

CONSTANTS
  Requests,   \* requests of pages
  First       \* the check that apply() awaits

ASSUME FirstAssumption == First \in Checks

VARIABLES
  gate,     \* phase
  step,     \* where apply() or cleanup() is
  held,     \* the parts that are open, registered or running
  todo,     \* the operations that cleanup() has not done
  failures, \* those that failed
  req       \* the requests at the gate

vars == <<health, gate, step, held, todo, failures, req>>
plugin == <<gate, step, held, todo, failures>>

\* The parts in the order in which apply() awaits them, those it adds at its end, and
\* those it has from the beginning.
Opening == <<"domain", "healthDomain", "sourceDomain", "source", "controller", "health">>
Ending == <<"coreService", "sourceService", "timer", "listener">>
Beginning == {"leases", "routes"}
Parts == Beginning \cup {Opening[i] : i \in DOMAIN Opening} \cup {Ending[i] : i \in DOMAIN Ending}

\* cleanup()'s operations in order, and the parts that each of them releases.
Operations == <<"source", "controller", "health", "leases",
                "listener", "sourceService", "coreService", "routes">>
Releases(op) == CASE op = "source"     -> {"source", "sourceDomain"}
                  [] op = "controller" -> {"controller", "domain"}
                  [] op = "health"     -> {"health", "healthDomain"}
                  [] OTHER             -> {op}

TypeOK ==
  /\ HealthTypeOK
  /\ gate \in {"starting", "ready", "failed", "disposed"}
  /\ step \in {"off", "opening", "checking", "up", "cleaning"}
  /\ held \subseteq Parts /\ todo \in Seq({Operations[i] : i \in DOMAIN Operations})
  /\ failures \subseteq {Operations[i] : i \in DOMAIN Operations}
  /\ req \in [Requests -> {"none", "waiting", "aborted", "handled"}]

Init ==
  /\ HealthInit
  /\ gate = "starting" /\ step = "opening" /\ held = Beginning /\ todo = <<>> /\ failures = {}
  /\ req = [r \in Requests |-> "none"]

Fault == faults < MaxFaults /\ faults' = faults + 1

(***************************************************************************)
(* Activation.                                                             *)
(***************************************************************************)

\* cleanup() begins: the gate and the timer at once, the rest one by one.
CleaningStarts(phase, open) ==
  /\ gate' = IF phase = "failed" THEN "failed" ELSE "disposed"
  /\ step' = "cleaning" /\ held' = open \ {"timer"} /\ todo' = Operations

\* The next part is open.
Open ==
  /\ step = "opening"
  /\ \E i \in DOMAIN Opening :
       /\ Opening[i] \notin held /\ \A j \in 1..(i - 1) : Opening[j] \in held
       /\ held' = held \cup {Opening[i]}
       /\ IF i < Len(Opening)
          THEN UNCHANGED <<step, chain, since>>
          ELSE /\ step' = "checking"
               /\ chain' = <<First>> /\ since' = [since EXCEPT ![First] = Good(fact)]
  /\ UNCHANGED <<fact, changes, faults, seen, package, slow, shown, closed>>
  /\ UNCHANGED <<gate, todo, failures, req>>

\* It cannot be opened.
OpenFails ==
  /\ step = "opening" /\ Fault
  /\ CleaningStarts("failed", held)
  /\ UNCHANGED <<fact, changes, chain, seen, package, slow, shown, closed, since>>
  /\ UNCHANGED <<failures, req>>

\* The first check has ended: all the rest at once.
Finish ==
  /\ step = "checking" /\ chain = <<>>
  /\ held' = Parts
  /\ step' = "up" /\ gate' = "ready"
  /\ UNCHANGED <<health, todo, failures, req>>

\* One of the registrations at the end throws.
FinishFails ==
  /\ step = "checking" /\ chain = <<>> /\ Fault
  /\ \E n \in 0..Len(Ending) : CleaningStarts("failed", held \cup {Ending[i] : i \in 1..n})
  /\ UNCHANGED <<fact, changes, chain, seen, package, slow, shown, closed, since>>
  /\ UNCHANGED <<failures, req>>

\* The timer, the loader's event or a person ask for a check.
Ask(c) ==
  /\ held \cap {"timer", "listener"} # {} /\ "health" \in held
  /\ Recheck(c)
  /\ UNCHANGED <<plugin, req>>

(***************************************************************************)
(* Disposal.                                                               *)
(***************************************************************************)

Dispose ==
  /\ step = "up"
  /\ CleaningStarts(gate, held)
  /\ UNCHANGED <<health, failures, req>>

\* HealthService.close() takes no more checks and awaits those it took.
HealthCloses ==
  /\ step = "cleaning" /\ todo # <<>> /\ Head(todo) = "health" /\ "health" \in held /\ ~closed
  /\ closed' = TRUE
  /\ UNCHANGED <<fact, changes, faults, chain, seen, package, slow, shown, since>>
  /\ UNCHANGED <<plugin, req>>

MayEnd(op) == op = "health" /\ "health" \in held => closed /\ chain = <<>>

\* The next operation is done, or has nothing to do.
Release ==
  /\ step = "cleaning" /\ todo # <<>> /\ MayEnd(Head(todo))
  /\ held' = held \ Releases(Head(todo)) /\ todo' = Tail(todo)
  /\ UNCHANGED <<health, gate, step, failures, req>>

\* Mutant: the cleanup ends at the first failure.
ReleaseFailsAndStops ==
  /\ step = "cleaning" /\ todo # <<>> /\ MayEnd(Head(todo))
  /\ Releases(Head(todo)) \cap held # {} /\ Fault
  /\ failures' = failures \cup {Head(todo)} /\ todo' = <<>>
  /\ UNCHANGED <<fact, changes, chain, seen, package, slow, shown, closed, since>>
  /\ UNCHANGED <<gate, step, held, req>>

\* It rejects: the failure is kept for the end, the next operation begins.
ReleaseFails ==
  /\ step = "cleaning" /\ todo # <<>> /\ MayEnd(Head(todo))
  /\ Releases(Head(todo)) \cap held # {} /\ Fault
  /\ failures' = failures \cup {Head(todo)} /\ todo' = Tail(todo)
  /\ UNCHANGED <<fact, changes, chain, seen, package, slow, shown, closed, since>>
  /\ UNCHANGED <<gate, step, held, req>>

\* cleanup() returns, or throws the failures that it kept.
CleaningEnds ==
  /\ step = "cleaning" /\ todo = <<>>
  /\ step' = "off"
  /\ UNCHANGED <<health, gate, held, todo, failures, req>>

\* The host activates the plugin again, in another apply() with another gate.
Activate ==
  /\ step = "off" /\ \A r \in Requests : req[r] = "none"
  /\ gate' = "starting" /\ step' = "opening" /\ held' = Beginning /\ failures' = {}
  /\ shown' = "CHECK_NOT_RUN" /\ closed' = FALSE
  /\ UNCHANGED <<fact, changes, faults, chain, seen, package, slow, since, todo, req>>

(***************************************************************************)
(* The gate.                                                               *)
(***************************************************************************)

\* What becomes of a request that does not wait, or not any longer: it is handled or
\* answered with an error, and forgotten.
Passed(gone) == IF ~gone /\ gate = "ready" THEN "handled" ELSE "none"

\* A request comes in.
Fetch(r) ==
  /\ "routes" \in held /\ req[r] = "none"
  /\ req' = [req EXCEPT ![r] = IF gate = "starting" THEN "waiting" ELSE Passed(FALSE)]
  /\ UNCHANGED <<health, plugin>>

Abort(r) ==
  /\ req[r] = "waiting" /\ req' = [req EXCEPT ![r] = "aborted"]
  /\ UNCHANGED <<health, plugin>>

\* The gate has settled or the page has gone: the wait is over.
Resume(r) ==
  /\ \/ req[r] = "aborted"
     \/ req[r] = "waiting" /\ gate # "starting"
  /\ req' = [req EXCEPT ![r] = Passed(req[r] = "aborted")]
  /\ UNCHANGED <<health, plugin>>

\* The handler has answered.
Handled(r) ==
  /\ req[r] = "handled" /\ req' = [req EXCEPT ![r] = "none"]
  /\ UNCHANGED <<health, plugin>>

CheckStep == Checking /\ UNCHANGED <<plugin, req>>
Cleaning == HealthCloses \/ Release \/ ReleaseFails \/ CleaningEnds

Next ==
  \/ \E k \in Components : Change(k) /\ UNCHANGED <<plugin, req>>
  \/ CheckStep
  \/ Open \/ OpenFails \/ Finish \/ FinishFails \/ Dispose \/ Cleaning \/ Activate
  \/ \E c \in Checks : Ask(c)
  \/ \E r \in Requests : Fetch(r) \/ Abort(r) \/ Resume(r) \/ Handled(r)

Spec == Init /\ [][Next]_vars

\* Every await of apply(), cleanup() and a check ends, one way or the other, waits of
\* settled promises are over, and the timer ticks.
FairSpec ==
  /\ Spec
  /\ WF_vars(Open \/ OpenFails) /\ WF_vars(Finish \/ FinishFails) /\ WF_vars(Cleaning)
  /\ WF_vars(CheckStep) /\ WF_vars(\E c \in Checks : Ask(c))
  /\ \A r \in Requests : WF_vars(Resume(r) \/ Handled(r))

(***************************************************************************)
(* Properties.                                                             *)
(***************************************************************************)

\* A check shows "normal" only when every component that may block or restrict was
\* listed, present and active at some time since the check was asked for: nothing
\* older than the request counts, whatever was found before.
HealthIsHonest ==
  [][chain # <<>> /\ chain' = Tail(chain) /\ shown' = "normal" =>
       Strict \X {"listed", "present", "active"} \subseteq since[Head(chain)]]_vars

\* The gate lets requests in only while every part is there, checks run only over an
\* open store, and a plugin that is off has released every part or reports the
\* operation that failed.
PluginIsWhole ==
  /\ gate = "ready" => step = "up" /\ held = Parts /\ ~closed
  /\ chain # <<>> => {"health", "healthDomain"} \subseteq held
  /\ step = "off" => held \subseteq UNION {Releases(op) : op \in failures}

\* Once the components and the disk are left alone, a plugin that is up comes to show
\* what is the case, and goes on showing it.
Converges ==
  <>[](changes = MaxChanges /\ faults = MaxFaults /\ step = "up" => shown = ModeNow)

\* Every request at the gate is answered, every check and every cleanup comes to its
\* end, also with a component that never tells why it failed.
EveryoneIsAnswered ==
  /\ \A r \in Requests : req[r] # "none" ~> req[r] = "none"
  /\ \A c \in Checks : c \in {chain[i] : i \in DOMAIN chain} ~> c \notin {chain[i] : i \in DOMAIN chain}
  /\ step = "cleaning" ~> step = "off"

\* After whatever went wrong everything comes to rest: nobody is left waiting, and what the
\* plugin shows is the case (activation.ts, dsh.mjs and health/service.ts together).
EverythingSettles == Converges /\ EveryoneIsAnswered
=============================================================================
