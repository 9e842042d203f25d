--------------------------- MODULE AgentOnboarding ---------------------------
(***************************************************************************)
(* src/agent.ts agentCall(): an agent's calls, each in a process of its    *)
(* own, over three files in the shared home and one consent generation at  *)
(* the server.  onboarding.json is claimed once, onboarding-grant.json is  *)
(* the website's answer, consent.json is the local close.                  *)
(*                                                                         *)
(* An action is one access of a file or one request.  A process may die    *)
(* between any two.  Files are replaced whole (rename) or claimed (link).  *)
(* One pair of origins; the checks of inputs, origins and answers' formats *)
(* only make calls fail, as a process that dies does.                      *)
(***************************************************************************)
EXTENDS Naturals, FiniteSets

CONSTANTS
  Procs,   \* processes under way at a time
  Ids,     \* consent ids (a bound on their number)
  None     \* null, undefined

ASSUME NoneAssumption == None \notin Ids /\ "absent" \notin Ids

VARIABLES
  closeFile,   \* consent.json: the id it was closed with, or "absent"
  prepared,    \* onboarding.json: the id that was claimed
  grant,       \* onboarding-grant.json: the id that was granted
  device,      \* the shared identity exists
  server,      \* state of each generation at the server
  proc,        \* the calls
  given        \* what calls have returned: links, grants, signatures

agentVars == <<closeFile, prepared, grant, device, server, proc, given>>
files == <<closeFile, prepared, grant>>

Ops == {"state", "withhold", "prepare", "sync", "withdraw", "sign"}
CallAt(op, pc, to, late) ==
  [op |-> op, pc |-> pc, to |-> to, prep |-> None, id |-> None, consent |-> "open",
   existing |-> FALSE, late |-> late]
Idle == CallAt("none", "idle", "none", FALSE)
\* prep: `prepared`; consent, id: what readConsent() returns; to: where it returns to;
\* existing: `existing`; late: the call began after the local close.
Proc == [op : Ops \cup {"none"},
         pc : {"idle", "consent", "prepared", "grant", "checked", "closing", "closed", "onboard",
               "claim", "reread", "post", "challenge", "get", "active", "final", "delete", "serve"},
         to : {"none", "checked", "closing", "closed", "final"},
         prep : Ids \cup {None}, id : Ids \cup {None}, consent : {"open", "granted", "closed"},
         existing : BOOLEAN, late : BOOLEAN]
Given == [what : {"link", "grant", "signature"}, id : Ids, late : BOOLEAN]

AgentTypeOK ==
  /\ closeFile \in Ids \cup {"absent"} /\ prepared \in Ids \cup {None} /\ grant \in Ids \cup {None}
  /\ device \in BOOLEAN /\ server \in [Ids -> {"none", "pending", "active", "withdrawn"}]
  /\ proc \in [Procs -> Proc] /\ given \subseteq Given

AgentInit ==
  /\ closeFile = "absent" /\ prepared = None /\ grant = None /\ device \in BOOLEAN
  /\ server = [i \in Ids |-> "none"] /\ proc = [p \in Procs |-> Idle] /\ given = {}

\* randomUUID(): an id that nobody has used.
New(i) ==
  /\ i \notin {closeFile, prepared} /\ server[i] = "none"
  /\ \A p \in Procs : i \notin {proc[p].prep, proc[p].id}

At(p, pc) == proc[p].pc = pc
Goes(p, pc) == proc' = [proc EXCEPT ![p].pc = pc]
Reads(p, to) == proc' = [proc EXCEPT ![p].pc = "consent", ![p].to = to]
Ends(p) == proc' = [proc EXCEPT ![p] = Idle]
Gives(p, what) ==
  given' = given \cup {[what |-> what, id |-> proc[p].id, late |-> proc[p].late]}

(***************************************************************************)
(* readConsent()                                                           *)
(***************************************************************************)

BeginCall(p, op) ==
  /\ At(p, "idle")
  /\ proc' = [proc EXCEPT ![p] = CallAt(op, "consent", "checked", closeFile # "absent")]
  /\ UNCHANGED <<files, device, server, given>>

\* The local close wins.
ReadClose(p) ==
  /\ At(p, "consent")
  /\ IF closeFile # "absent"
     THEN proc' = [proc EXCEPT ![p].consent = "closed", ![p].id = closeFile, ![p].pc = proc[p].to]
     ELSE Goes(p, "prepared")
  /\ UNCHANGED <<files, device, server, given>>

ReadPrepared(p) ==
  /\ At(p, "prepared")
  /\ proc' = [proc EXCEPT ![p].id = prepared, ![p].pc = "grant"]
  /\ UNCHANGED <<files, device, server, given>>

\* A grant without a preparation is refused: the preparation came after its file was read.
ReadGrant(p) ==
  /\ At(p, "grant")
  /\ IF grant # None /\ proc[p].id # grant THEN Ends(p)
     ELSE proc' = [proc EXCEPT ![p].consent = IF grant = None THEN "open" ELSE "granted",
                               ![p].pc = proc[p].to]
  /\ UNCHANGED <<files, device, server, given>>

(***************************************************************************)
(* The call.                                                               *)
(***************************************************************************)

\* The identity is read, and the operation begins if consent lets it.
Checked(p) ==
  /\ At(p, "checked")
  /\ LET op == proc[p].op
         next(pc) == proc' = [proc EXCEPT ![p].pc = pc, ![p].existing = device]
     IN  CASE op = "withhold" -> Reads(p, "closing")
           [] op = "withdraw" -> proc' = [proc EXCEPT ![p].existing = device,
                                                      ![p].pc = "consent", ![p].to = "closing"]
           [] op = "state" -> Ends(p)
           [] op \in {"prepare", "sync"} ->
                IF proc[p].consent = "closed" THEN Ends(p) ELSE next("onboard")
           [] op = "sign" -> IF proc[p].consent # "granted" THEN Ends(p) ELSE next("serve")
  /\ UNCHANGED <<files, device, server, given>>

\* Mutant: a close that knows no generation names none.
CloseAsKnown(p) ==
  /\ At(p, "closing")
  /\ closeFile' = proc[p].id
  /\ Reads(p, "closed")
  /\ UNCHANGED <<prepared, grant, device, server, given>>

\* close(): the record keeps the generation that was read, or gets a tombstone.
Close(p) ==
  /\ At(p, "closing")
  /\ IF proc[p].id # None THEN closeFile' = proc[p].id ELSE \E i \in Ids : New(i) /\ closeFile' = i
  /\ Reads(p, "closed")
  /\ UNCHANGED <<prepared, grant, device, server, given>>

\* What close() was called for goes on: withdraw sends its DELETE, the others have no
\* more to do than to fail or to report.
Closed(p) ==
  /\ At(p, "closed")
  /\ CASE proc[p].op = "withdraw" -> IF proc[p].existing THEN Goes(p, "delete") ELSE Ends(p)
       [] proc[p].op = "sync" -> Reads(p, "final")
       [] OTHER -> Ends(p)
  /\ UNCHANGED <<files, device, server, given>>

\* readPrepared(), and prepareOnboarding's claim of a device.
Onboard(p) ==
  /\ At(p, "onboard")
  /\ IF proc[p].op = "prepare"
     THEN /\ device' = TRUE
          /\ proc' = [proc EXCEPT ![p].prep = prepared,
                                  ![p].pc = IF prepared = None THEN "claim" ELSE "post"]
     ELSE /\ device' = device
          /\ IF prepared = None \/ ~proc[p].existing THEN Ends(p)
             ELSE proc' = [proc EXCEPT ![p].prep = prepared, ![p].pc = "get"]
  /\ UNCHANGED <<files, server, given>>

\* Mutant: the preparation is published by rename.
ClaimOver(p) ==
  /\ At(p, "claim")
  /\ \E i \in Ids : New(i) /\ prepared' = i
  /\ Goes(p, "reread")
  /\ UNCHANGED <<closeFile, grant, device, server, given>>

\* The preparation is linked into place, unless another one is there.
Claim(p) ==
  /\ At(p, "claim")
  /\ IF prepared # None THEN prepared' = prepared ELSE \E i \in Ids : New(i) /\ prepared' = i
  /\ Goes(p, "reread")
  /\ UNCHANGED <<closeFile, grant, device, server, given>>

Reread(p) ==
  /\ At(p, "reread")
  /\ proc' = [proc EXCEPT ![p].prep = prepared, ![p].pc = "post"]
  /\ UNCHANGED <<files, device, server, given>>

\* The device is registered and the generation announced; a withdrawn one closes here too.
Post(p) ==
  /\ At(p, "post")
  /\ server' = [server EXCEPT ![proc[p].prep] = IF @ = "none" THEN "pending" ELSE @]
  /\ IF server[proc[p].prep] = "withdrawn" THEN Reads(p, "closing") ELSE Goes(p, "challenge")
  /\ UNCHANGED <<files, device, given>>

\* The bind challenge is there; the consent is read once more.
Challenge(p) ==
  /\ At(p, "challenge")
  /\ Reads(p, "final")
  /\ UNCHANGED <<files, device, server, given>>

\* The server's state of the prepared generation.
Get(p) ==
  /\ At(p, "get") /\ server[proc[p].prep] # "none"
  /\ CASE server[proc[p].prep] = "withdrawn" -> Reads(p, "closing")
       [] server[proc[p].prep] = "active"    -> Goes(p, "active")
       [] OTHER                              -> Reads(p, "final")
  /\ UNCHANGED <<files, device, server, given>>

\* Mutant: the grant replaces the local close.
GrantOverClose(p) ==
  /\ At(p, "active")
  /\ grant' = proc[p].prep /\ closeFile' = "absent"
  /\ Reads(p, "final")
  /\ UNCHANGED <<prepared, device, server, given>>

\* The website's grant is stored beside the local close.
Grant(p) ==
  /\ At(p, "active")
  /\ grant' = proc[p].prep
  /\ Reads(p, "final")
  /\ UNCHANGED <<closeFile, prepared, device, server, given>>

\* The consent as it is now decides whether a link or a grant is returned.
Final(p) ==
  /\ At(p, "final") /\ Ends(p)
  /\ IF proc[p].op = "prepare" /\ proc[p].consent # "closed"
     THEN given' = given \cup {[what |-> "link", id |-> proc[p].prep, late |-> proc[p].late]}
     ELSE IF proc[p].consent = "granted" THEN Gives(p, "grant") ELSE given' = given
  /\ UNCHANGED <<files, device, server>>

\* sign, signRequest, register, bindLink: with a request or without one.
Serve(p) ==
  /\ At(p, "serve") /\ Ends(p)
  /\ Gives(p, "signature")
  /\ device' = TRUE
  /\ UNCHANGED <<files, server>>

\* withdraw's DELETE, for the generation that close() returned.
Delete(p) ==
  /\ At(p, "delete") /\ Ends(p)
  /\ server' = [server EXCEPT ![proc[p].id] = "withdrawn"]
  /\ UNCHANGED <<files, device, given>>

\* The process dies or the call throws; what it asked the server for may have happened.
Fails(p) ==
  /\ ~At(p, "idle") /\ Ends(p)
  /\ \/ UNCHANGED server
     \/ At(p, "post") /\ server' = [server EXCEPT ![proc[p].prep] = IF @ = "none" THEN "pending" ELSE @]
     \/ At(p, "delete") /\ server' = [server EXCEPT ![proc[p].id] = "withdrawn"]
  /\ UNCHANGED <<files, device, given>>

\* The account's owner agrees on the website, or withdraws there.
Website(i) ==
  /\ \/ server[i] = "pending" /\ server' = [server EXCEPT ![i] = "active"]
     \/ server[i] \in {"pending", "active"} /\ server' = [server EXCEPT ![i] = "withdrawn"]
  /\ UNCHANGED <<files, device, proc, given>>

AgentNext ==
  \/ \E i \in Ids : Website(i)
  \/ \E p \in Procs :
       \/ \E op \in Ops : BeginCall(p, op)
       \/ ReadClose(p) \/ ReadPrepared(p) \/ ReadGrant(p) \/ Checked(p) \/ Close(p) \/ Closed(p)
       \/ Onboard(p) \/ Claim(p) \/ Reread(p) \/ Post(p) \/ Challenge(p) \/ Get(p) \/ Grant(p)
       \/ Final(p) \/ Serve(p) \/ Delete(p) \/ Fails(p)

AgentSpec == AgentInit /\ [][AgentNext]_agentVars

(***************************************************************************)
(* Properties.                                                             *)
(***************************************************************************)

\* However many processes prepare, there is one generation: links, grants and signatures
\* are of the one that was claimed, and nothing is signed that the website has not
\* granted (docs/AGENT.md: "Concurrent prepares atomically claim the same pending
\* generation").
OneGeneration ==
  /\ grant # None => grant = prepared /\ server[grant] \in {"active", "withdrawn"}
  /\ \A g \in given : g.id = prepared /\ (g.what # "link" => grant = prepared)
  /\ \A i \in Ids : server[i] \in {"pending", "active"} => i = prepared

\* A local close is for good: no answer of the website undoes it, also one that was on
\* its way, and a call that begins after it returns no link, grant or signature.
ClosedForGood ==
  [][closeFile # "absent" => closeFile' # "absent" /\ \A g \in given' : ~g.late]_agentVars
=============================================================================
