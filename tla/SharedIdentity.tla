---------------------------- MODULE SharedIdentity ----------------------------
(***************************************************************************)
(* The machine-wide device identity: src/shared-device.ts (the write-once  *)
(* file) and the part of src/controller.ts that resolves it, at activation *)
(* and again on a refresh while the identity is "failed".                  *)
(*                                                                         *)
(* Several clients, each with its own storage domain, share one file.  A   *)
(* resolution is one run of #resolveSharedIdentity; a client may have      *)
(* several at once (two refreshes).  Every await is a boundary between two *)
(* actions, so the claims of all clients interleave, and a client may      *)
(* crash at each of them.                                                  *)
(***************************************************************************)
EXTENDS Naturals, Sequences

CONSTANTS
  Clients,      \* processes that load Core, each with its own storage
  Resolvers,    \* concurrent runs of #resolveSharedIdentity
  ClientOf,     \* the client each run belongs to
  Keys,         \* device keys (a key stands for id, public and private key)
  NoKey,        \* no device / no file
  Torn,         \* a file whose bytes were not all written
  MaxRemovals   \* bound: how often a person moves a damaged file away

ASSUME ResolverAssumption == ClientOf \in [Resolvers -> Clients]
ASSUME KeyAssumption == NoKey \notin Keys /\ Torn \notin Keys /\ NoKey # Torn
ASSUME RemovalAssumption == MaxRemovals \in Nat

VARIABLES
  file,      \* identity/device.json: NoKey, a key, or Torn
  damaged,   \* the file is unreadable or corrupt for a reason outside Core
  removals,  \* how often the file was moved away
  running,   \* running[c]: "down", "starting" (inside create) or "up"
  identity,  \* identity[c]: the #identity field (volatile)
  snap,      \* snap[c]: the durable snapshot: device, replacedDevices and
             \* the key the recorded registration belongs to
  job,       \* job[r]: the locals of one resolution
  sending    \* sending[c]: the key an in-flight registration was sent with

vars == <<file, damaged, removals, running, identity, snap, job, sending>>

OptKey == Keys \cup {NoKey}
Sources == {"existing", "created", "migrated", "adopted", "conflict"}
Failed == [status |-> "failed", source |-> "none"]
Shared(source) == [status |-> "shared", source |-> source]
Identity == [status : {"failed", "shared"}, source : Sources \cup {"none"}]

PC == {"idle", "read", "open", "write", "link", "readback", "publish"}
Job == [pc : PC, local : OptKey, cand : OptKey, won : OptKey,
        temp : {"none", "partial", "whole"}]
IdleJob == [pc |-> "idle", local |-> NoKey, cand |-> NoKey, won |-> NoKey,
            temp |-> "none"]
Snapshot == [device : OptKey, replaced : Seq(Keys), registered : OptKey]

TypeOK ==
  /\ file \in OptKey \cup {Torn}
  /\ damaged \in {"no", "yes"}
  /\ removals \in 0..MaxRemovals
  /\ running \in [Clients -> {"down", "starting", "up"}]
  /\ identity \in [Clients -> Identity]
  /\ snap \in [Clients -> Snapshot]
  /\ job \in [Resolvers -> Job]
  /\ sending \in [Clients -> OptKey]

(***************************************************************************)
(* A client starts with the storage an older release left it: no device,   *)
(* or a device of its own, which may already be registered.                *)
(***************************************************************************)
Init ==
  /\ file = NoKey
  /\ damaged = "no"
  /\ removals = 0
  /\ running = [c \in Clients |-> "down"]
  /\ identity = [c \in Clients |-> Failed]
  /\ snap \in [Clients -> [device : OptKey, replaced : {<<>>}, registered : OptKey]]
  /\ \A c \in Clients : snap[c].registered \in {NoKey, snap[c].device}
  /\ job = [r \in Resolvers |-> IdleJob]
  /\ sending = [c \in Clients |-> NoKey]

(***************************************************************************)
(* Resolution.                                                             *)
(***************************************************************************)

\* createDevice(): a key nobody holds.  A key that was made and dropped
\* again is held by nobody and may be made anew.
Held ==
  {file} \cup {snap[c].device : c \in Clients}
         \cup {job[r].cand : r \in Resolvers}
         \cup UNION {{snap[c].replaced[i] : i \in DOMAIN snap[c].replaced} : c \in Clients}
FreshKey == Keys \ Held

SourceOf(j, won) ==
  IF j.cand = NoKey
  THEN IF j.local = NoKey THEN "adopted" ELSE IF j.local = won THEN "existing" ELSE "conflict"
  ELSE IF won = j.cand
       THEN IF j.local = NoKey THEN "created" ELSE "migrated"
       ELSE IF j.local = NoKey THEN "adopted" ELSE "conflict"

Begin(r) ==
  job' = [job EXCEPT ![r] = [IdleJob EXCEPT !.pc = "read", !.local = snap[ClientOf[r]].device]]

\* SessionController.create: one resolution, nothing else runs yet.
Boot(r) ==
  /\ running[ClientOf[r]] = "down"
  /\ running' = [running EXCEPT ![ClientOf[r]] = "starting"]
  /\ Begin(r)
  /\ UNCHANGED <<file, damaged, removals, identity, snap, sending>>

\* refresh() while the identity is failed; two refreshes may overlap.
Refresh(r) ==
  /\ running[ClientOf[r]] = "up"
  /\ identity[ClientOf[r]].status = "failed"
  /\ job[r].pc = "idle"
  /\ Begin(r)
  /\ UNCHANGED <<file, damaged, removals, running, identity, snap, sending>>

\* The identity is set and the resolution returns; create() returns with it.
Return(r, id) ==
  /\ identity' = [identity EXCEPT ![ClientOf[r]] = id]
  /\ running' = [running EXCEPT ![ClientOf[r]] = "up"]
  /\ job' = [job EXCEPT ![r] = IdleJob]

\* A winner that is already this client's device needs no publication.
Resolved(r, won) ==
  \/ /\ job[r].local = won
     /\ Return(r, Shared(SourceOf(job[r], won)))
  \/ /\ job[r].local # won
     /\ job' = [job EXCEPT ![r].pc = "publish", ![r].won = won]
     /\ UNCHANGED <<running, identity>>

ReadExisting(r) ==
  /\ job[r].pc = "read"
  /\ damaged = "no" /\ file \in Keys
  /\ Resolved(r, file)
  /\ UNCHANGED <<file, damaged, removals, snap, sending>>

ReadAbsent(r) ==
  /\ job[r].pc = "read"
  /\ file = NoKey
  /\ \E k \in IF job[r].local # NoKey THEN {job[r].local} ELSE FreshKey :
       job' = [job EXCEPT ![r].pc = "open", ![r].cand = k]
  /\ UNCHANGED <<file, damaged, removals, running, identity, snap, sending>>

\* mkdir and open(temp, 'wx'): the temp name is random, so it is always new.
OpenTemp(r) ==
  /\ job[r].pc = "open"
  /\ job' = [job EXCEPT ![r].pc = "write", ![r].temp = "partial"]
  /\ UNCHANGED <<file, damaged, removals, running, identity, snap, sending>>

WriteTemp(r) ==
  /\ job[r].pc = "write"
  /\ job' = [job EXCEPT ![r].pc = "link", ![r].temp = "whole"]
  /\ UNCHANGED <<file, damaged, removals, running, identity, snap, sending>>

\* Mutant: rename(2), which replaces the file of another client.
Rename(r) ==
  /\ job[r].pc = "link"
  /\ file' = IF job[r].temp = "whole" THEN job[r].cand ELSE Torn
  /\ job' = [job EXCEPT ![r].pc = "readback", ![r].temp = "none"]
  /\ UNCHANGED <<damaged, removals, running, identity, snap, sending>>

\* link(2) publishes whatever the temp holds, and never replaces a name:
\* EEXIST is the lost race, not an error.  The temp is unlinked either way
\* (best effort: what is left behind is inert).
Link(r) ==
  /\ job[r].pc = "link"
  /\ file' = IF file # NoKey THEN file
             ELSE IF job[r].temp = "whole" THEN job[r].cand ELSE Torn
  /\ job' = [job EXCEPT ![r].pc = "readback", ![r].temp = "none"]
  /\ UNCHANGED <<damaged, removals, running, identity, snap, sending>>

ReadBack(r) ==
  /\ job[r].pc = "readback"
  /\ damaged = "no" /\ file \in Keys
  /\ Resolved(r, file)
  /\ UNCHANGED <<file, damaged, removals, snap, sending>>

\* A read or write of the store fails: errno, corrupt content, a file that
\* is gone at the read back.  Nothing durable changes.
StoreFails(r) ==
  /\ job[r].pc \in {"read", "open", "write", "link", "readback"}
  /\ Return(r, Failed)
  /\ UNCHANGED <<file, damaged, removals, snap, sending>>

\* Mutants: the device is replaced without a look at the current one; a first
\* device counts as a replacement; the replaced key is not kept.
AdoptBlindly(current, won) ==
  IF current.device = NoKey THEN [current EXCEPT !.device = won]
  ELSE [device |-> won, replaced |-> Append(current.replaced, current.device),
        registered |-> NoKey]
AdoptOverNothing(current, won) ==
  IF current.device = won THEN current
  ELSE [device |-> won, replaced |-> Append(current.replaced, current.device),
        registered |-> NoKey]
AdoptAndForget(current, won) ==
  [current EXCEPT !.device = won, !.registered = NoKey]

\* The update is decided against the serialized current snapshot.
Adopt(current, won) ==
  IF current.device = won THEN current
  ELSE IF current.device = NoKey THEN [current EXCEPT !.device = won]
  ELSE [device |-> won, replaced |-> Append(current.replaced, current.device),
        registered |-> NoKey]

PublishDevice(r) ==
  /\ job[r].pc = "publish"
  /\ snap' = [snap EXCEPT ![ClientOf[r]] = Adopt(@, job[r].won)]
  /\ Return(r, Shared(SourceOf(job[r], job[r].won)))
  /\ UNCHANGED <<file, damaged, removals, sending>>

\* The storage domain rejects: create() rejects and activation is undone; a
\* refresh rejects and the identity stays what it was.
PublishFails(r) ==
  /\ job[r].pc = "publish"
  /\ running' = [running EXCEPT ![ClientOf[r]] = IF @ = "starting" THEN "down" ELSE @]
  /\ job' = [job EXCEPT ![r] = IdleJob]
  /\ UNCHANGED <<file, damaged, removals, identity, snap, sending>>

(***************************************************************************)
(* Registration, as far as it touches the device: #device() gates it, the  *)
(* key is captured before the request and recorded when the answer comes.  *)
(***************************************************************************)

\* #device(): not while the identity is failed or there is no device.
Ready(c) ==
  /\ running[c] = "up"
  /\ identity[c].status # "failed"
  /\ snap[c].device # NoKey

RegisterStart(c) ==
  /\ Ready(c)
  /\ sending[c] = NoKey
  /\ sending' = [sending EXCEPT ![c] = snap[c].device]
  /\ UNCHANGED <<file, damaged, removals, running, identity, snap, job>>

RegisterCommit(c) ==
  /\ sending[c] # NoKey
  /\ snap' = [snap EXCEPT ![c].registered = sending[c]]
  /\ sending' = [sending EXCEPT ![c] = NoKey]
  /\ UNCHANGED <<file, damaged, removals, running, identity, job>>

\* A failure keeps the recorded principal.
RegisterFails(c) ==
  /\ sending[c] # NoKey
  /\ sending' = [sending EXCEPT ![c] = NoKey]
  /\ UNCHANGED <<file, damaged, removals, running, identity, snap, job>>

(***************************************************************************)
(* Crash, and what happens to the file outside Core: it is damaged,        *)
(* repaired, or moved away by the user (docs/API.md:51).                   *)
(***************************************************************************)

Crash(c) ==
  /\ running[c] # "down"
  /\ running' = [running EXCEPT ![c] = "down"]
  /\ identity' = [identity EXCEPT ![c] = Failed]
  /\ job' = [r \in Resolvers |-> IF ClientOf[r] = c THEN IdleJob ELSE job[r]]
  /\ sending' = [sending EXCEPT ![c] = NoKey]
  /\ UNCHANGED <<file, damaged, removals, snap>>

Damage ==
  /\ file # NoKey /\ damaged = "no"
  /\ damaged' = "yes"
  /\ UNCHANGED <<file, removals, running, identity, snap, job, sending>>

Repair ==
  /\ damaged = "yes"
  /\ damaged' = "no"
  /\ UNCHANGED <<file, removals, running, identity, snap, job, sending>>

Remove ==
  /\ damaged = "yes" /\ removals < MaxRemovals
  /\ file' = NoKey
  /\ damaged' = "no"
  /\ removals' = removals + 1
  /\ UNCHANGED <<running, identity, snap, job, sending>>

Step(r) ==
  \/ ReadExisting(r) \/ ReadAbsent(r)
  \/ OpenTemp(r) \/ WriteTemp(r) \/ Link(r) \/ ReadBack(r)
  \/ StoreFails(r)
  \/ PublishDevice(r) \/ PublishFails(r)

Next ==
  \/ \E r \in Resolvers : Boot(r) \/ Refresh(r) \/ Step(r)
  \/ \E c \in Clients : RegisterStart(c) \/ RegisterCommit(c) \/ RegisterFails(c) \/ Crash(c)
  \/ Damage \/ Repair \/ Remove

Spec == Init /\ [][Next]_vars

(***************************************************************************)
(* Properties.                                                             *)
(***************************************************************************)

\* What is visible under the final name is a complete identity: claim
\* (shared-device.ts:57-78) links only what it wrote and synced.
NeverTorn == file # Torn

\* One machine, one identity: every client that reports "shared" acts under
\* the key in the file, whichever of the racing claims won.
Agreement ==
  \A c \in Clients : identity[c].status = "shared" => file # NoKey /\ snap[c].device = file

\* No key a client ever held is lost: a device leaves `device` only into
\* replacedDevices, and nothing leaves replacedDevices (controller.ts:217-225).
KeysOf(s) == {s.device} \cup {s.replaced[i] : i \in DOMAIN s.replaced}
NoKeyLost == [][\A c \in Clients : KeysOf(snap[c]) \ {NoKey} \subseteq KeysOf(snap'[c])]_vars

\* Overlapping resolutions record a replacement once, and never record the
\* identity that is in use as replaced (controller.ts:216-218).
ReplacedOnce ==
  \A c \in Clients :
    /\ \A i \in DOMAIN snap[c].replaced : snap[c].replaced[i] # snap[c].device
    /\ \A i, j \in DOMAIN snap[c].replaced :
         snap[c].replaced[i] = snap[c].replaced[j] => i = j

\* The recorded registration belongs to the device in use, although a
\* registration may be in flight while resolutions replace the device.
RegistrationOfDevice ==
  \A c \in Clients : snap[c].registered \in {NoKey, snap[c].device}

\* A client that says it created the identity is alone: no other client also
\* says it created it or brought its own.
FounderIsUnique ==
  \A c, d \in Clients :
    c # d /\ identity[c].source = "created" => identity[d].source \notin {"created", "migrated"}

\* One device for the machine: whole in its file, and, until somebody moves the file
\* away, the same in every client and in every record a client keeps.
OneDevice ==
  /\ NeverTorn
  /\ removals = 0 => Agreement /\ ReplacedOnce /\ RegistrationOfDevice /\ FounderIsUnique

\* The file and the clients implement the write-once register, until somebody moves
\* the file away: every step up to then is one of its steps, or changes nothing of it.
Abstract ==
  INSTANCE WriteOnceIdentity WITH
    shared <- file,
    known <- [c \in Clients |-> IF identity[c].status = "shared" THEN snap[c].device ELSE NoKey]
WriteOnce ==
  /\ Abstract!Init
  /\ [][removals' = 0 => Abstract!Next \/ UNCHANGED Abstract!vars]_vars
=============================================================================
