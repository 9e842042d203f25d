--------------------------- MODULE SessionController ---------------------------
(***************************************************************************)
(* src/controller.ts: the settings (consent, server and website address),  *)
(* registration with the identity server (src/registration.ts over         *)
(* src/transport.ts), the bind link, the two prompt markers and the        *)
(* publication barrier they all share, with disposal, crash and restart.   *)
(*                                                                         *)
(* JavaScript runs one task at a time, so an action is the code between    *)
(* two awaits.  A call is one invocation of an async method; what it holds *)
(* across its awaits is its record in `call`.  A registration that a       *)
(* settings call starts in the background goes on in that call's record.   *)
(*                                                                         *)
(* The generation counters are compared only for equality with the value   *)
(* captured at the start of a call.  They are kept as what the comparison  *)
(* yields: `same` in the call's record, which is reset in every call when  *)
(* the counter is bumped.                                                  *)
(***************************************************************************)
EXTENDS Naturals, Sequences, FiniteSets

CONSTANTS
  Calls,          \* concurrent invocations
  Servers,        \* server origins
  Websites,       \* website origins
  None,           \* null
  ConfigServer,   \* config.serverOrigin
  ConfigWebsite,  \* config.websiteOrigin
  Local,          \* the origins on a loopback host
  Ops,            \* what a run exercises (see EveryOp)
  Exclusive       \* no settings write is overtaken by the start of another
                  \* one or of a registration

EveryOp == {"consent", "server", "website", "register", "bind", "points", "mark",
            "dispose", "crash", "fault", "refusal"}

ASSUME ServerAssumption == None \notin Servers /\ ConfigServer \in Servers \cup {None}
ASSUME WebsiteAssumption == None \notin Websites /\ ConfigWebsite \in Websites \cup {None}
ASSUME CallAssumption == None \notin Calls
ASSUME OpsAssumption == Ops \subseteq EveryOp /\ Exclusive \in BOOLEAN

VARIABLES
  running,    \* "down", "up", "disposed" (dispose() was called), "closed"
  stored,     \* the snapshot in the storage domain
  mem,        \* #state, the published snapshot
  override,   \* #serverOverride
  website,    \* #websiteOverride
  transport,  \* the origin #transport sends to
  timer,      \* "on" while #contributionsTimer is set
  failure,    \* "set" while #registrationFailure is
  queue,      \* the calls waiting in the #publishTail chain, head first
  writing,    \* "yes" while the head's update is with the store
  next,       \* what the head's update evaluated to, or else #state
  call,       \* the locals of each call
  asked,      \* the consent last asked for, and not refused
  heard,      \* the consent state the listeners were last told
  link        \* the bind link last handed out

vars == <<running, stored, mem, override, website, transport, timer, failure, queue,
          writing, next, call, asked, heard, link>>

OptServer == Servers \cup {None}
OptWebsite == Websites \cup {None}
Consent == {"granted", "withheld"}
Snapshot == [consent : Consent, override : OptServer, website : OptWebsite,
             status : {"unregistered", "registered", "failed"}, issuer : OptServer,
             points : Calls \cup {None}, mark : Calls \cup {None}]
\* What a call remembers: its argument (the website, for a bind link), where its
\* requests go, and which of these hold of it: its server or website address
\* "changed" what is effective; no generation was bumped since it captured them
\* ("same"); its transport is not disposed ("live"); its request carries the
\* "label"; startRegistration() made it ("auto"); the server registered ("ok").
Flags == {"changed", "same", "live", "label", "auto", "ok"}
Call == [op : {"none", "consent", "server", "website", "register", "bind", "points", "mark"},
         pc : {"idle", "challenge", "devices", "queued", "resolved", "rejected"},
         arg : Consent \cup OptServer \cup OptWebsite, origin : OptServer, has : SUBSET Flags]
Idle == [op |-> "none", pc |-> "idle", arg |-> None, origin |-> None, has |-> {}]
NoLink == [website |-> None, server |-> None]

Effective(o) == IF o # None THEN o ELSE ConfigServer
EffectiveWebsite == IF website # None THEN website ELSE ConfigWebsite

TypeOK ==
  /\ running \in {"down", "up", "disposed", "closed"}
  /\ stored \in Snapshot /\ mem \in Snapshot /\ next \in Snapshot
  /\ override \in OptServer /\ website \in OptWebsite /\ transport \in OptServer
  /\ timer \in {"on", "off"} /\ failure \in {"set", "null"} /\ writing \in {"yes", "no"}
  /\ queue \in Seq(Calls)
  /\ call \in [Calls -> Call]
  /\ asked \in Consent /\ heard \in Consent
  /\ link \in [website : OptWebsite, server : OptServer]

Fresh == [consent |-> "withheld", override |-> None, website |-> None,
          status |-> "unregistered", issuer |-> None, points |-> None, mark |-> None]

Init ==
  /\ running = "down"
  /\ stored = Fresh /\ mem = Fresh /\ next = Fresh
  /\ override = None /\ website = None /\ transport = None
  /\ timer = "off" /\ failure = "null" /\ writing = "no"
  /\ queue = <<>>
  /\ call = [c \in Calls |-> Idle]
  /\ asked = "withheld" /\ heard = "withheld"
  /\ link = NoLink

(***************************************************************************)
(* What the code reads.                                                    *)
(***************************************************************************)

Busy(ops) == \E c \in Calls : call[c].op \in ops
Settings == {"consent", "server", "website"}
\* #configurationWrites > 0
Saving == Busy({"server", "website"})

\* Mutant: the generations are not compared.
SameWhoever(r, m) == running = "up" /\ m.consent = "granted"

\* same() in register(), for the call record r and the snapshot m as #state.
Same(r, m) == "same" \in r.has /\ running = "up" /\ m.consent = "granted"

\* A settled publication continues its caller before any other task: no
\* request arrives, no answer and no file event comes in between.
Continuing == \E c \in Calls : call[c].pc \in {"resolved", "rejected"}

MayStart(op, c) ==
  /\ op \in Ops
  /\ running = "up" /\ ~Continuing
  /\ call[c].pc = "idle"
  /\ Exclusive /\ op \in Settings \cup {"register"} => ~Busy(Settings)

\* Mutant: a change of address does not bump #websiteGeneration.
BumpedOnlyRegister(ops) ==
  [c \in Calls |-> IF call[c].op \in ops /\ call[c].op = "register"
                   THEN [call[c] EXCEPT !.has = @ \ {"same"}] ELSE call[c]]

\* The calls, after the counters that the calls of kinds ops compare were bumped.
Bumped(ops) ==
  [c \in Calls |-> IF call[c].op \in ops THEN [call[c] EXCEPT !.has = @ \ {"same"}] ELSE call[c]]

(***************************************************************************)
(* The publication barrier #publish.                                       *)
(***************************************************************************)

\* Mutant: setConsent() writes the wrong field.
UpdateMixedUp(r, c, m) == [m EXCEPT !.override = r.arg]

\* The update function that call c, with record r, passes to #publish.
Update(r, c, m) ==
  CASE r.op = "consent" -> [m EXCEPT !.consent = r.arg]
    [] r.op = "server" /\ "changed" \in r.has ->
         [m EXCEPT !.override = r.arg, !.status = "unregistered", !.issuer = None]
    [] r.op = "server" /\ "changed" \notin r.has -> [m EXCEPT !.override = r.arg]
    [] r.op = "website" -> [m EXCEPT !.website = r.arg]
    [] r.op = "register" /\ "ok" \in r.has /\ Same(r, m) ->
         [m EXCEPT !.status = "registered", !.issuer = r.origin]
    [] r.op = "register" /\ "ok" \notin r.has /\ Same(r, m) -> [m EXCEPT !.status = "failed"]
    [] r.op = "points" -> [m EXCEPT !.points = c]
    [] r.op = "mark" -> [m EXCEPT !.mark = c]
    [] OTHER -> m

\* Mutant: the update works on the snapshot of before the last write.
TurnOnOldState(q, m, cs) ==
  /\ queue' = q
  /\ IF q # <<>> /\ running = "up"
     THEN writing' = "yes" /\ next' = Update(cs[Head(q)], Head(q), mem)
     ELSE writing' = "no" /\ next' = m

\* The chain becomes q while #state is m and the calls are cs.  The update of a
\* new head is evaluated at once and goes to the store; after dispose() the
\* head will reject instead.
Turn(q, m, cs) ==
  /\ queue' = q
  /\ IF q # <<>> /\ running = "up"
     THEN writing' = "yes" /\ next' = Update(cs[Head(q)], Head(q), m)
     ELSE writing' = "no" /\ next' = m

\* Call c, whose new record is r, enters the chain; cs are the other calls.
Enqueue(cs, c, r) ==
  LET queued == [cs EXCEPT ![c] = [r EXCEPT !.pc = "queued"]]
  IN  /\ call' = queued
      /\ IF queue = <<>> THEN Turn(<<c>>, mem, queued)
         ELSE queue' = Append(queue, c) /\ UNCHANGED <<writing, next>>
      /\ UNCHANGED <<stored, mem>>

\* The store has the snapshot: it becomes #state.
FinishHead ==
  /\ writing = "yes" /\ ~Continuing
  /\ stored' = next /\ mem' = next
  /\ call' = [call EXCEPT ![Head(queue)].pc = "resolved"]
  /\ Turn(Tail(queue), next, call)
  /\ UNCHANGED <<running, override, website, transport, timer, failure, asked, heard, link>>

\* The store may reject the head's write, of a setting or of anything else.
MayFail ==
  writing = "yes" /\ (IF call[Head(queue)].op \in Settings THEN "refusal" ELSE "fault") \in Ops

\* Mutant: the caller awaits #publishTail, which swallows the error.
FailHeadSilently ==
  /\ MayFail /\ ~Continuing
  /\ call' = [call EXCEPT ![Head(queue)].pc = "resolved"]
  /\ Turn(Tail(queue), mem, call)
  /\ UNCHANGED <<running, stored, mem, override, website, transport, timer, failure, asked,
                 heard, link>>

\* The store reports an error, whatever it did with the snapshot: #state stays
\* as it is and the chain goes on.
FailHead ==
  /\ MayFail /\ ~Continuing
  /\ stored' \in {stored, next}
  /\ call' = [call EXCEPT ![Head(queue)].pc = "rejected"]
  /\ Turn(Tail(queue), mem, call)
  /\ UNCHANGED <<running, mem, override, website, transport, timer, failure, asked,
                 heard, link>>

\* Mutant: after dispose() what is queued is dropped, and its callers hear nothing.
RejectNobody ==
  /\ queue # <<>> /\ writing = "no" /\ ~Continuing
  /\ queue' = Tail(queue)
  /\ UNCHANGED <<running, stored, mem, override, website, transport, timer, failure, call, writing,
                 next, asked, heard, link>>

\* After dispose() a head rejects before it evaluates its update.
RejectHead ==
  /\ queue # <<>> /\ writing = "no" /\ ~Continuing
  /\ call' = [call EXCEPT ![Head(queue)].pc = "rejected"]
  /\ queue' = Tail(queue)
  /\ UNCHANGED <<running, stored, mem, override, website, transport, timer, failure, writing,
                 next, asked, heard, link>>

Unpublished == UNCHANGED <<stored, mem, queue, writing, next>>
Return(c) == call' = [call EXCEPT ![c] = Idle] /\ Unpublished

(***************************************************************************)
(* Registration.                                                           *)
(***************************************************************************)

\* register() at its first request, sent to origin; flags is {"auto"} when
\* startRegistration() made the call.
Registering(origin, flags) ==
  [Idle EXCEPT !.op = "register", !.pc = "challenge", !.origin = origin,
               !.has = {"same", "live", "label"} \cup flags]

\* Mutant: startRegistration() does not look at #disposed.
RegistersAfterDispose(origin, m) == origin # None /\ m.consent = "granted"

\* Whether startRegistration() goes on to register().
Registers(origin, m) == origin # None /\ running = "up" /\ m.consent = "granted"

\* startContributions().
StartTimer == timer' = IF Registers(transport, mem) THEN "on" ELSE timer

\* register() returns: startRegistration(), if that was its caller, looks at
\* what is registered by now, by this call or another.
RegisterReturns(c) ==
  /\ Return(c)
  /\ IF "auto" \in call[c].has /\ mem.status = "registered" THEN StartTimer ELSE UNCHANGED timer

\* The catch block: a failure nobody waits for any more is dropped, any other
\* is kept and published.
RegistrationFails(c) ==
  IF Same(call[c], mem)
  THEN /\ failure' = "set"
       /\ Enqueue(call, c, [call[c] EXCEPT !.has = @ \ {"ok"}])
       /\ UNCHANGED timer
  ELSE RegisterReturns(c) /\ UNCHANGED failure

\* POST device/register.  Without consent it is refused and nothing changes.
Register(c) ==
  /\ MayStart("register", c)
  /\ mem.consent = "granted"
  /\ IF transport # None
     THEN /\ call' = [call EXCEPT ![c] = Registering(transport, {})]
          /\ Unpublished /\ UNCHANGED failure
     ELSE /\ failure' = "set"
          /\ Enqueue(call, c, Registering(None, {}))
  /\ UNCHANGED <<running, override, website, transport, timer, asked, heard, link>>

Answered(c, pc) == call[c].op = "register" /\ call[c].pc = pc /\ "live" \in call[c].has /\ ~Continuing

\* The nonce has arrived: if the call is still wanted, the signed key goes out.
SendDevice(c) ==
  /\ Answered(c, "challenge") /\ Same(call[c], mem)
  /\ call' = [call EXCEPT ![c].pc = "devices"]
  /\ Unpublished
  /\ UNCHANGED <<running, override, website, transport, timer, failure, asked, heard, link>>

\* Identity up to 0.2.0-rc.2 answers 400 to the label: once more without it.
RetryWithoutLabel(c) ==
  /\ Answered(c, "devices") /\ "label" \in call[c].has /\ Same(call[c], mem)
  /\ call' = [call EXCEPT ![c].pc = "challenge", ![c].has = @ \ {"label"}]
  /\ Unpublished
  /\ UNCHANGED <<running, override, website, transport, timer, failure, asked, heard, link>>

\* The server has registered the device.
Registered(c) ==
  /\ Answered(c, "devices")
  /\ IF Same(call[c], mem)
     THEN Enqueue(call, c, [call[c] EXCEPT !.has = @ \cup {"ok"}]) /\ UNCHANGED timer
     ELSE RegisterReturns(c)
  /\ UNCHANGED <<running, override, website, transport, failure, asked, heard, link>>

\* A request fails, times out or is aborted, an answer is not a registration
\* of this device, or the call is no longer wanted at one of its checks.
RequestFails(c) ==
  /\ call[c].op = "register" /\ call[c].pc \in {"challenge", "devices"} /\ ~Continuing
  /\ RegistrationFails(c)
  /\ UNCHANGED <<running, override, website, transport, asked, heard, link>>

RegisterContinues(c) ==
  /\ call[c].op = "register"
  /\ \/ /\ call[c].pc = "resolved" /\ "ok" \in call[c].has
        /\ failure' = IF Same(call[c], mem) THEN "null" ELSE failure
        /\ RegisterReturns(c)
     \/ /\ call[c].pc = "rejected" /\ "ok" \in call[c].has
        /\ RegistrationFails(c)
     \/ /\ call[c].pc \in {"resolved", "rejected"} /\ "ok" \notin call[c].has
        /\ Return(c)
        /\ UNCHANGED <<failure, timer>>
  /\ UNCHANGED <<running, override, website, transport, asked, heard, link>>

(***************************************************************************)
(* Settings.                                                               *)
(***************************************************************************)

SetConsent(c) ==
  /\ MayStart("consent", c)
  /\ \E state \in Consent :
       /\ asked' = state
       /\ Enqueue(Bumped({"register"}), c, [Idle EXCEPT !.op = "consent", !.arg = state])
  /\ UNCHANGED <<running, override, website, transport, timer, failure, heard, link>>

\* Mutant: nothing registers in the background.
NoBackground(cs, c, origin, starts) == call' = [cs EXCEPT ![c] = Idle] /\ Unpublished

\* The rest of call c of setConsent() or setServerOrigin(), the other calls
\* being cs: startRegistration() against origin, or nothing.
Background(cs, c, origin, starts) ==
  /\ call' = [cs EXCEPT ![c] = IF starts /\ Registers(origin, mem)
                               THEN Registering(origin, {"auto"}) ELSE Idle]
  /\ Unpublished

\* The listeners are told (dispose() has removed them), then the granted
\* consent registers and the withheld one stops the contributions timer.
ConsentContinues(c) ==
  /\ call[c].op = "consent"
  /\ \/ /\ call[c].pc = "resolved"
        /\ heard' = IF running = "up" THEN call[c].arg ELSE heard
        /\ Background(call, c, transport,
                      call[c].arg = "granted" /\ mem.status # "registered")
        /\ \/ call[c].arg = "withheld" /\ timer' = "off"
           \/ call[c].arg = "granted" /\ mem.status = "registered" /\ StartTimer
           \/ call[c].arg = "granted" /\ mem.status # "registered" /\ UNCHANGED timer
        /\ UNCHANGED asked
     \/ /\ call[c].pc = "rejected"
        /\ asked' = IF \E d \in Calls \ {c} : call[d].op = "consent" THEN asked ELSE mem.consent
        /\ Return(c)
        /\ UNCHANGED <<heard, timer>>
  /\ UNCHANGED <<running, override, website, transport, failure, link>>

\* Mutant: clearing the address is not taken for a change.
SetServerUnlessCleared(c) ==
  /\ MayStart("server", c)
  /\ \E origin \in OptServer :
       LET changed == origin # None /\ origin # Effective(override)
       IN  Enqueue(Bumped(IF changed THEN {"register", "bind"} ELSE {"bind"}), c,
                   [Idle EXCEPT !.op = "server", !.arg = origin,
                                !.has = IF changed THEN {"changed"} ELSE {}])
  /\ UNCHANGED <<running, override, website, transport, timer, failure, asked, heard, link>>

\* What the new address changes is decided here, before the write.
SetServer(c) ==
  /\ MayStart("server", c)
  /\ \E origin \in OptServer :
       LET changed == Effective(origin) # Effective(override)
       IN  Enqueue(Bumped(IF changed THEN {"register", "bind"} ELSE {"bind"}), c,
                   [Idle EXCEPT !.op = "server", !.arg = origin,
                                !.has = IF changed THEN {"changed"} ELSE {}])
  /\ UNCHANGED <<running, override, website, transport, timer, failure, asked, heard, link>>

\* The requests of the old transport are aborted; the new address registers.
ServerContinues(c) ==
  /\ call[c].op = "server"
  /\ \/ /\ call[c].pc = "resolved" /\ "changed" \in call[c].has
        /\ override' = call[c].arg
        /\ timer' = "off" /\ failure' = "null"
        /\ transport' = Effective(call[c].arg)
        /\ Background([d \in Calls |-> [call[d] EXCEPT !.has = @ \ (IF call[d].op = "bind"
                                                                   THEN {"live", "same"}
                                                                   ELSE {"live"})]],
                      c, transport', TRUE)
     \/ /\ call[c].pc = "resolved" /\ "changed" \notin call[c].has
        /\ override' = call[c].arg
        /\ Background(Bumped({"bind"}), c, None, FALSE)
        /\ UNCHANGED <<transport, timer, failure>>
     \/ /\ call[c].pc = "rejected"
        /\ Background(Bumped({"bind"}), c, None, FALSE)
        /\ UNCHANGED <<override, transport, timer, failure>>
  /\ UNCHANGED <<running, website, asked, heard, link>>

SetWebsite(c) ==
  /\ MayStart("website", c)
  /\ \E origin \in OptWebsite :
       Enqueue(Bumped({"bind"}), c, [Idle EXCEPT !.op = "website", !.arg = origin])
  /\ UNCHANGED <<running, override, website, transport, timer, failure, asked, heard, link>>

WebsiteContinues(c) ==
  /\ call[c].op = "website" /\ call[c].pc \in {"resolved", "rejected"}
  /\ website' = IF call[c].pc = "resolved" THEN call[c].arg ELSE website
  /\ Background(Bumped({"bind"}), c, None, FALSE)
  /\ UNCHANGED <<running, override, transport, timer, failure, asked, heard, link>>

(***************************************************************************)
(* The bind link.                                                          *)
(***************************************************************************)

\* #websiteBinding(): a local server goes with a local website only, and a
\* server other than the configured one with a website that was set.
Mismatch ==
  LET server == Effective(override)
  IN  /\ server # None /\ EffectiveWebsite # None
      /\ \/ server \in Local /\ EffectiveWebsite \notin Local
         \/ server # ConfigServer /\ website = None

BindLink(c) ==
  /\ MayStart("bind", c)
  /\ ~Saving /\ ~Mismatch
  /\ transport # None /\ EffectiveWebsite # None
  /\ mem.consent = "granted"
  /\ call' = [call EXCEPT ![c] = [Idle EXCEPT !.op = "bind", !.pc = "challenge",
                !.arg = EffectiveWebsite, !.origin = transport, !.has = {"same", "live"}]]
  /\ Unpublished
  /\ UNCHANGED <<running, override, website, transport, timer, failure, asked, heard, link>>

\* The nonce has arrived; it is thrown away when an address changed meanwhile.
BindAnswered(c) ==
  /\ call[c].op = "bind" /\ "live" \in call[c].has /\ ~Continuing
  /\ link' = IF "same" \in call[c].has
             THEN [website |-> call[c].arg, server |-> call[c].origin] ELSE link
  /\ Return(c)
  /\ UNCHANGED <<running, override, website, transport, timer, failure, asked, heard>>

BindFails(c) ==
  /\ call[c].op = "bind" /\ ~Continuing
  /\ Return(c)
  /\ UNCHANGED <<running, override, website, transport, timer, failure, asked, heard, link>>

(***************************************************************************)
(* The prompt markers.                                                     *)
(***************************************************************************)

\* markPointsPromptShown(): a marker that is there is returned as it is.
MarkPoints(c) ==
  /\ MayStart("points", c)
  /\ mem.points = None
  /\ Enqueue(call, c, [Idle EXCEPT !.op = "points"])
  /\ UNCHANGED <<running, override, website, transport, timer, failure, asked, heard, link>>

\* markConsentPromptShown(): so is the write that is under way.
MarkConsent(c) ==
  /\ MayStart("mark", c)
  /\ mem.mark = None /\ ~Busy({"mark"})
  /\ Enqueue(call, c, [Idle EXCEPT !.op = "mark"])
  /\ UNCHANGED <<running, override, website, transport, timer, failure, asked, heard, link>>

MarkContinues(c) ==
  /\ call[c].op \in {"points", "mark"} /\ call[c].pc \in {"resolved", "rejected"}
  /\ Return(c)
  /\ UNCHANGED <<running, override, website, transport, timer, failure, asked, heard, link>>

(***************************************************************************)
(* The life of the plugin.                                                 *)
(***************************************************************************)

\* The constructor, and at the end of the activation startRegistration().
Boot ==
  /\ running \in {"down", "closed"} /\ \A c \in Calls : call[c] = Idle
  /\ running' = "up"
  /\ mem' = stored /\ next' = stored
  /\ override' = stored.override /\ website' = stored.website
  /\ transport' = Effective(stored.override)
  /\ failure' = "null"
  /\ asked' = stored.consent /\ heard' = stored.consent
  /\ IF transport' # None /\ stored.consent = "granted"
     THEN \E c \in Calls : call' = [call EXCEPT ![c] = Registering(transport', {"auto"})]
     ELSE UNCHANGED call
  /\ UNCHANGED <<stored, timer, queue, writing, link>>

\* dispose(), up to its wait for the chain.
Dispose ==
  /\ "dispose" \in Ops
  /\ running = "up" /\ ~Continuing
  /\ running' = "disposed"
  /\ timer' = "off"
  /\ call' = [c \in Calls |-> [call[c] EXCEPT !.has = @ \ {"live"}]]
  /\ Unpublished
  /\ UNCHANGED <<override, website, transport, failure, asked, heard, link>>

\* The chain is empty: the store closes.
Close ==
  /\ running = "disposed" /\ queue = <<>>
  /\ running' = "closed"
  /\ Unpublished
  /\ UNCHANGED <<override, website, transport, timer, failure, call, asked, heard, link>>

\* The process dies; a write under way may or may not have reached the disk.
Crash ==
  /\ "crash" \in Ops
  /\ running # "down"
  /\ running' = "down"
  /\ stored' \in {stored} \cup (IF writing = "yes" THEN {next} ELSE {})
  /\ mem' = stored' /\ next' = stored'
  /\ timer' = "off" /\ failure' = "null"
  /\ queue' = <<>> /\ writing' = "no"
  /\ call' = [c \in Calls |-> Idle]
  /\ asked' = stored'.consent /\ heard' = stored'.consent
  /\ UNCHANGED <<override, website, transport, link>>

\* A settled publication goes on in its caller.
Continue(c) ==
  \/ RegisterContinues(c) \/ ConsentContinues(c) \/ ServerContinues(c)
  \/ WebsiteContinues(c) \/ MarkContinues(c)

Next ==
  \/ FinishHead \/ FailHead \/ RejectHead
  \/ Boot \/ Dispose \/ Close \/ Crash
  \/ \E c \in Calls :
       \/ Register(c) \/ SendDevice(c) \/ RetryWithoutLabel(c) \/ Registered(c)
       \/ RequestFails(c)
       \/ SetConsent(c) \/ SetServer(c) \/ SetWebsite(c)
       \/ BindLink(c) \/ BindAnswered(c) \/ BindFails(c)
       \/ MarkPoints(c) \/ MarkConsent(c)
       \/ Continue(c)

Spec == Init /\ [][Next]_vars

\* What the event loop and the timeout of ServerTransport guarantee: a caller
\* goes on, and though others keep going on before it, the store answers at
\* last, a request ends at last and dispose() finishes.
Fairness ==
  /\ SF_vars(FinishHead \/ FailHead \/ RejectHead) /\ WF_vars(Close)
  /\ \A c \in Calls : WF_vars(Continue(c)) /\ SF_vars(RequestFails(c) \/ BindFails(c))
FairSpec == Spec /\ Fairness

(***************************************************************************)
(* Properties.                                                             *)
(***************************************************************************)

\* The recorded registration belongs to the server in effect: what an earlier
\* server answered is never recorded for another one (controller.ts, register
\* and setServerOrigin).
IssuerInEffect ==
  stored.status = "registered" => stored.issuer = Effective(stored.override)

\* While no server address is being saved, requests go where getServerOrigin()
\* says, and that is what the snapshot says.
TransportFollowsOrigin ==
  running = "up" /\ ~Busy({"server"}) =>
    /\ transport = Effective(override)
    /\ override = mem.override

\* One server at a time: requests go to it and the registration is of it.
ServerInEffect == IssuerInEffect /\ TransportFollowsOrigin

\* The device key and label go out only while the consent last asked for is
\* granted: a withdrawal stops a registration between its two requests, even
\* before the withdrawal is stored.
SentWithConsent ==
  [][\A c \in Calls :
       call'[c].pc = "devices" /\ call[c].pc # "devices" => asked = "granted"]_vars

\* A write changes the fields of its own operation and keeps whatever writes of
\* other operations before it in the chain have set, also when the process dies.
\* Of two writes of one operation the later one counts.
Owned(r) ==
  CASE r.op = "consent" -> {"consent"}
    [] r.op = "server" -> {"override", "status", "issuer"}
    [] r.op = "website" -> {"website"}
    [] r.op = "register" -> {"status", "issuer"}
    [] r.op = "points" -> {"points"}
    [] r.op = "mark" -> {"mark"}
NoLostUpdate ==
  \A f \in DOMAIN stored :
    stored'[f] # mem[f] /\ writing = "yes" /\ stored' # stored => f \in Owned(call[Head(queue)])

\* The listeners of onConsentChange have been told the current consent, or the
\* call that will tell them is about to go on.
HeardIsCurrent ==
  running = "up" /\ heard # mem.consent =>
    \E c \in Calls : call[c].op = "consent" /\ call[c].pc = "resolved" /\ call[c].arg = mem.consent

\* Contributions are polled only while the plugin is up and consent is given,
\* or the call that took it back is about to stop the timer.
TimerStops ==
  timer = "on" =>
    /\ running = "up"
    /\ mem.consent = "withheld" =>
         \E c \in Calls : call[c].op = "consent" /\ call[c].pc = "resolved" /\ call[c].arg = "withheld"

\* A bind link leads to the website in effect and carries a challenge of the
\* server in effect, whatever was saved while the challenge was under way.
LinkMatches ==
  [][link' # link => link' = [website |-> EffectiveWebsite, server |-> Effective(override)]]_vars

\* The consent prompt's marker is stamped once and survives a restart: of
\* overlapping calls one writes.
MarkedOnce == mem.mark # None => mem'.mark = mem.mark

\* So the documents say of the points prompt's marker (docs/API.md 20: a marker that is there
\* is not overwritten; controller.ts 683).  The code asks for the marker before it waits for
\* its turn in the chain, and stamps without asking again: overlapping calls stamp twice.
PointsMarkedOnce == [][mem.points # None => mem'.points = mem.points]_vars

\* After the store was closed nothing is written until the next start.
NoWriteAfterClose == running = "closed" => stored' = stored

\* No update undoes that of another operation, the consent prompt's marker is stamped once,
\* nothing enters a store that was closed, and the listeners hear of the consent.  It does not
\* say that the points prompt's marker is stamped once: see PointsMarkedOnce.
WritesAreKept == [][NoLostUpdate /\ MarkedOnce /\ NoWriteAfterClose /\ HeardIsCurrent']_vars

\* dispose() leaves no request that could still be answered, and no timer.
DisposedIsQuiet ==
  running \in {"disposed", "closed"} =>
    timer = "off" /\ \A c \in Calls : "live" \notin call[c].has

\* What was withdrawn or disposed stays quiet: no polling, no answer to come.
StaysQuiet == TimerStops /\ DisposedIsQuiet

\* With consent and a server, a plugin that has nothing left to do has not
\* forgotten to register: it did, or kept why it failed.
Quiet == running = "up" /\ \A c \in Calls : call[c].pc = "idle"
NeverForgetsToRegister ==
  Quiet /\ Registers(transport, mem) => mem.status # "unregistered" \/ failure = "set"

\* For whoever reads and changes the settings the controller is a register that takes one
\* operation at a time: what is shown was stored before, an error leaves at most one change
\* stored that is not shown until the next start, and a registration is recorded under consent,
\* for the server in effect, in no other order (controller.ts, #publish and its callers).
Durable == INSTANCE DurableSettings WITH shown <- mem, kept <- stored, Stamps <- Calls
SettingsAreDurable == Durable!Spec

\* Nobody waits for ever: every call comes to an end, in whatever order the
\* store, the server and dispose() answer, and dispose() comes to its end.
EveryCallReturns ==
  /\ \A c \in Calls : call[c].pc # "idle" ~> call[c].pc = "idle"
  /\ running = "disposed" ~> running # "disposed"
=============================================================================
