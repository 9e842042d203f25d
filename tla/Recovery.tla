------------------------------- MODULE Recovery -------------------------------
(***************************************************************************)
(* src/controller.ts: refreshContributions() and #recoverRegistration(),   *)
(* with the parts of register(), setConsent() and setServerOrigin() that   *)
(* reset what they keep.  A server that loses the device (a restored       *)
(* database) answers the contributions request with a denial; the client   *)
(* asks Identity, registers again under the same key and lets Identity     *)
(* confirm it.                                                             *)
(*                                                                         *)
(* As in SessionController an action is the code between two awaits, what  *)
(* a call holds across them is its record, and a generation is kept as     *)
(* "it was not bumped since this call captured it".  The two requests of a *)
(* registration are one here, the disposal is left to SessionController,   *)
(* and one settings call runs at a time.                                   *)
(***************************************************************************)
EXTENDS Naturals, Sequences, FiniteSets

CONSTANTS
  Calls,        \* concurrent invocations
  Servers,      \* server origins
  Principals,   \* what a server may register the device as
  None,         \* null
  Home,         \* the server the device is registered with at first
  Scenarios,    \* bound: sets of what a behaviour exercises (see EveryOp)
  Exclusive     \* no refresh or registration starts while a server is saved

\* With "nonce" config.authNonceSource is "server": signing asks the server.
EveryOp == {"consent", "server", "register", "forget", "revoke", "down", "fault", "nonce"}

ASSUME ServerAssumption == Home \in Servers /\ None \notin Servers \cup Principals \cup Calls
ASSUME PrincipalAssumption == Principals # {}
ASSUME ScenarioAssumption == Scenarios \subseteq SUBSET EveryOp /\ Exclusive \in BOOLEAN

VARIABLES
  ops,        \* what this behaviour exercises
  device,     \* per server: the principal of the device, "unknown" or "revoked"
  consent,    \* #state.consent
  status,     \* #state.registration.status
  principal,  \* #state.registration.principalId
  transport,  \* the origin #transport sends to
  failure,    \* "set" while #registrationFailure is
  recovery,   \* #registrationRecovery.state, or "none"
  flight,     \* the call whose recovery #recoveryInFlight is
  attempt,    \* #recoveryAttemptAt: "never", "now" within the interval, "past"
  ready,      \* #contributions.status = "ready"
  fresh,      \* #contributionsCheckedAt is within the interval
  bound,      \* the server and principal whose answer #bound and #account hold
  refused,    \* the settings page shows that the last setting was not saved
  queue,      \* the calls waiting in the #publishTail chain, head first
  call        \* the locals of each call

vars == <<ops, device, consent, status, principal, transport, failure, recovery, flight, attempt,
          ready, fresh, bound, refused, queue, call>>

Consent == {"granted", "withheld"}
Settings == {"consent", "server"}
\* The steps of a refresh: its two requests, the wait for another's recovery,
\* and, in the order they are taken, those of its own recovery.
Requests == {"usage", "verify", "register", "confirm"}
Writes == {"block", "revalidate", "record", "unrecord", "blame", "setting"}
Recovering == {"revalidate", "register", "record", "unrecord", "confirm", "blame"}
Steps == {"idle", "joined", "told"} \cup Requests \cup Writes
\* Of a call hold: the server generation ("server") and the consent generation
\* ("consent") are those it captured, the latter once more at the start of a
\* recovery ("again"); its transport is not disposed ("live"); it waits for the
\* nonce of its signature ("signing"); the recovery is the retry of a failed one
\* ("retry"); the contributions were asked for twice ("second"); its update is
\* with the store ("writing") and was "kept" by its check.  `arg` is the argument
\* of a settings call, the server a registration goes to, or the call joined.
Flags == {"server", "consent", "again", "live", "signing", "retry", "second", "writing", "kept"}
NoAnswer == [kind |-> "none", who |-> None]
Call == [op : {"none", "refresh", "register"} \cup Settings, pc : Steps,
         arg : Calls \cup Consent \cup Servers \cup {None}, origin : Servers \cup {None},
         answer : [kind : {"none", "ok", "unknown", "revoked"}, who : Principals \cup {None}],
         has : SUBSET Flags]
Idle == [op |-> "none", pc |-> "idle", arg |-> None, origin |-> None, answer |-> NoAnswer,
         has |-> {}]

TypeOK ==
  /\ ops \in Scenarios
  /\ device \in [Servers -> Principals \cup {"unknown", "revoked"}]
  /\ consent \in Consent /\ status \in {"unregistered", "registered", "failed"}
  /\ principal \in Principals \cup {None} /\ transport \in Servers
  /\ failure \in {"set", "null"}
  /\ recovery \in {"none", "checking", "recovered", "failed", "blocked"}
  /\ flight \in Calls \cup {None} /\ attempt \in {"never", "now", "past"}
  /\ ready \in BOOLEAN /\ fresh \in BOOLEAN
  /\ bound \in [server : Servers, who : Principals] \cup {None}
  /\ refused \in BOOLEAN /\ queue \in Seq(Calls)
  /\ call \in [Calls -> Call]

\* A registered device whose contributions were read, or a client whose recovery
\* was interrupted; the server has the device or has lost it meanwhile.
Init ==
  /\ ops \in Scenarios
  /\ \E p \in Principals :
       /\ \E d \in {p, "unknown"} : device = [s \in Servers |-> IF s = Home THEN d ELSE "unknown"]
       /\ \/ /\ principal = p /\ bound = [server |-> Home, who |-> p]
             /\ status = "registered" /\ failure = "null"
             /\ recovery = "none" /\ attempt = "never" /\ ready = TRUE /\ fresh = TRUE
          \/ /\ principal \in {p, None} /\ bound = None
             /\ status = "failed" /\ failure = "set"
             /\ recovery = "failed" /\ attempt = "now" /\ ready = FALSE /\ fresh = FALSE
  /\ consent = "granted" /\ transport = Home /\ flight = None
  /\ refused = FALSE /\ queue = <<>>
  /\ call = [c \in Calls |-> Idle]

session == <<ops, device, consent, status, principal, transport, refused>>
reading == <<ready, fresh, bound>>
mending == <<recovery, flight, attempt>>

(***************************************************************************)
(* What the code reads.                                                    *)
(***************************************************************************)

\* current() of refreshContributions(), and of #recoverRegistration() and same()
\* of the register() in it, which capture the counters when it is true.
CurrentRefresh(c) == {"server", "consent"} \subseteq call[c].has /\ consent = "granted"
CurrentRecovery(c) == {"server", "again"} \subseteq call[c].has /\ consent = "granted"

\* A settled publication hands the chain on before any other task.
Turning == queue # <<>> /\ "writing" \notin call[Head(queue)].has

MayStart(op, c) ==
  /\ op \in ops \cup {"refresh"} /\ ~Turning
  /\ call[c].pc = "idle"
  /\ op \in Settings => \A d \in Calls : call[d].op \notin Settings
  /\ Exclusive => \A d \in Calls : call[d].op # "server"

Signing == IF "nonce" \in ops THEN {"signing"} ELSE {}
Ask(r, pc) == [r EXCEPT !.pc = pc, !.arg = None, !.answer = NoAnswer, !.has = @ \cup Signing]
\* Of the answer only what register() records is used after its arrival.
Queued(r, pc) ==
  [r EXCEPT !.pc = pc, !.answer = IF pc = "record" THEN @ ELSE NoAnswer,
            !.has = @ \ {"signing", "writing", "kept"}]

\* Call c waits in the chain as its record r; cs are the calls.
Enqueue(cs, c, r) == call' = [cs EXCEPT ![c] = r] /\ queue' = Append(queue, c)

(***************************************************************************)
(* The end of #recoverRegistration() in refreshContributions().            *)
(***************************************************************************)

\* Mutant: they go on waiting.
ToldNobody(c, result) == call

\* The calls that joined c's recovery get its result.
Told(c, result) ==
  [d \in Calls |->
     IF call[d].pc = "joined" /\ call[d].arg = c
     THEN [call[d] EXCEPT !.pc = "told", !.arg = None,
                          !.answer.kind = IF result THEN "ok" ELSE "unknown"]
     ELSE call[d]]

\* What c does with the result: nothing when it is not current; the first request
\* when it came to retry, unless the last answer is fresh; otherwise its request
\* once more, or, without success, the denial that made it recover.
Resumed(c, result) ==
  LET retry == "retry" \in call[c].has
      kept == call[c].has \ {"retry", "again", "signing", "writing", "kept"}
      asks == IF retry THEN [call[c] EXCEPT !.origin = transport, !.has = kept \cup {"live"}]
              ELSE [call[c] EXCEPT !.has = kept \cup {"second"}]
  IN  IF CurrentRefresh(c) /\ (IF retry THEN ~(ready /\ fresh) ELSE result)
      THEN Ask(asks, "usage") ELSE Idle

RecoveryEnds(c, result) ==
  /\ call' = [Told(c, result) EXCEPT ![c] = Resumed(c, result)]
  /\ ready' = (ready /\ (CurrentRefresh(c) /\ "retry" \notin call[c].has => result))
  /\ flight' = IF flight = c THEN None ELSE flight
  /\ UNCHANGED <<fresh, bound>>

\* The catch block of the recovery: it is retried in the next interval.
RecoveryFails(c) ==
  IF CurrentRecovery(c)
  THEN /\ recovery' = "failed"
       /\ Enqueue(call, c, Queued(call[c], "blame"))
       /\ UNCHANGED <<flight, reading>>
  ELSE RecoveryEnds(c, FALSE) /\ UNCHANGED <<recovery, queue>>

\* Mutant: nobody looks for a recovery that is under way.
TryRecoverAlone(c) ==
  \/ /\ attempt = "now"
     /\ RecoveryEnds(c, FALSE)
     /\ UNCHANGED <<queue, recovery, attempt>>
  \/ /\ attempt # "now"
     /\ flight' = c /\ attempt' = "now" /\ recovery' = "checking"
     /\ ready' = FALSE /\ bound' = None
     /\ Enqueue(call, c, Queued(call[c], "revalidate"))
     /\ UNCHANGED fresh

\* #recoverRegistration() from the check of the interval on: whoever recovers
\* already is joined, and nobody starts twice in an interval.
TryRecover(c) ==
  \/ /\ flight # None
     /\ call' = [call EXCEPT ![c].pc = "joined", ![c].arg = flight]
     /\ UNCHANGED <<queue, reading, mending>>
  \/ /\ flight = None /\ attempt = "now"
     /\ RecoveryEnds(c, FALSE)
     /\ UNCHANGED <<queue, recovery, attempt>>
  \/ /\ flight = None /\ attempt # "now"
     /\ flight' = c /\ attempt' = "now" /\ recovery' = "checking"
     /\ ready' = FALSE /\ bound' = None
     /\ Enqueue(call, c, Queued(call[c], "revalidate"))
     /\ UNCHANGED fresh

(***************************************************************************)
(* Requests.                                                               *)
(***************************************************************************)

ServerOf(c) == IF call[c].pc = "register" THEN call[c].arg ELSE call[c].origin

\* The server gets the request: a device it does not know is denied, or
\* registered as some principal; one it knows stays what it is.
Serve(c) ==
  LET s == ServerOf(c)
  IN  /\ call[c].pc \in Requests /\ "signing" \notin call[c].has
      /\ call[c].answer = NoAnswer /\ ~Turning
      /\ IF device[s] = "unknown" /\ call[c].pc = "register"
         THEN \E p \in Principals :
                /\ device' = [device EXCEPT ![s] = p]
                /\ call' = [call EXCEPT ![c].answer = [kind |-> "ok", who |-> p]]
         ELSE /\ call' = [call EXCEPT ![c].answer =
                            IF device[s] \in Principals THEN [kind |-> "ok", who |-> device[s]]
                            ELSE [kind |-> device[s], who |-> None]]
              /\ UNCHANGED device
      /\ UNCHANGED <<ops, consent, status, principal, transport, refused, failure, reading, mending, queue>>

\* Mutant: the request goes out whatever happened while it was signed.
SignAndSend(c) ==
  /\ "signing" \in call[c].has /\ "live" \in call[c].has /\ ~Turning
  /\ call' = [call EXCEPT ![c].has = @ \ {"signing"}]
  /\ UNCHANGED <<session, failure, reading, mending, queue>>

\* The request is signed: it goes out if the call is still wanted.
Sign(c) ==
  /\ "signing" \in call[c].has /\ "live" \in call[c].has /\ ~Turning
  /\ IF IF call[c].pc = "usage" THEN CurrentRefresh(c) ELSE CurrentRecovery(c)
     THEN call' = [call EXCEPT ![c].has = @ \ {"signing"}] /\ UNCHANGED <<reading, flight>>
     ELSE RecoveryEnds(c, FALSE)
  /\ UNCHANGED <<session, failure, recovery, attempt, queue>>

Arrived(c, pc) ==
  call[c].pc = pc /\ call[c].answer # NoAnswer /\ "live" \in call[c].has /\ ~Turning

\* Mutant: a failed recovery waits for the next denial.
RefreshOnly(c) ==
  /\ MayStart("refresh", c)
  /\ consent = "granted"
  /\ \E cleared \in BOOLEAN :
       LET valid == fresh /\ ~cleared
       IN  /\ fresh' = valid /\ ~(ready /\ valid)
           /\ call' = [call EXCEPT ![c] =
                         Ask([Idle EXCEPT !.op = "refresh", !.origin = transport,
                                          !.has = {"server", "consent", "live"}], "usage")]
  /\ UNCHANGED <<session, failure, ready, bound, mending, queue>>

\* refreshContributions() up to its first request.
Refresh(c) ==
  /\ MayStart("refresh", c)
  /\ consent = "granted"
  /\ \E cleared \in BOOLEAN :      \* refresh() clears the cache first
       LET valid == fresh /\ ~cleared
           r == [Idle EXCEPT !.op = "refresh", !.origin = transport,
                             !.has = {"server", "consent", "live"}]
       IN  /\ fresh' = valid
           /\ \/ /\ recovery = "failed" /\ attempt # "now"
                 /\ call' = [call EXCEPT ![c] =
                               Ask([r EXCEPT !.has = @ \cup {"again", "retry"}], "verify")]
              \/ /\ ~(recovery = "failed" /\ attempt # "now") /\ ~(ready /\ valid)
                 /\ call' = [call EXCEPT ![c] = Ask(r, "usage")]
  /\ UNCHANGED <<session, failure, ready, bound, mending, queue>>

\* Mutant: an answer is read without a look at its status.
UsageArrivesUnchecked(c) ==
  /\ Arrived(c, "usage")
  /\ ready' = TRUE /\ fresh' = TRUE
  /\ bound' = [server |-> call[c].origin, who |-> call[c].answer.who]
  /\ call' = [call EXCEPT ![c] = Idle]
  /\ UNCHANGED <<session, failure, mending, queue>>

\* The contributions and the binding of the device, kept when the call is current.
UsageArrives(c) ==
  /\ Arrived(c, "usage") /\ call[c].answer.kind = "ok"
  /\ IF CurrentRefresh(c)
     THEN /\ ready' = TRUE /\ fresh' = TRUE
          /\ bound' = [server |-> call[c].origin, who |-> call[c].answer.who]
     ELSE UNCHANGED reading
  /\ call' = [call EXCEPT ![c] = Idle]
  /\ UNCHANGED <<session, failure, mending, queue>>

\* A denial: the first one is verified with Identity by a recovery, which
\* captures the consent generation anew.
UsageDenied(c) ==
  /\ Arrived(c, "usage") /\ call[c].answer.kind # "ok"
  /\ IF "second" \notin call[c].has /\ "server" \in call[c].has /\ consent = "granted"
     THEN /\ call' = [call EXCEPT ![c] = Ask([call[c] EXCEPT !.has = @ \cup {"again"},
                                                             !.origin = transport], "verify")]
          /\ UNCHANGED <<reading, flight>>
     ELSE RecoveryEnds(c, FALSE)
  /\ UNCHANGED <<session, failure, recovery, attempt, queue>>

\* Identity knows the device, and no failed recovery is to be retried.
VerifiedAnyway(c) ==
  /\ Arrived(c, "verify")
  /\ \/ ~CurrentRecovery(c)
     \/ call[c].answer.kind = "ok" /\ ~("retry" \in call[c].has /\ recovery = "failed")
  /\ RecoveryEnds(c, FALSE)
  /\ UNCHANGED <<session, failure, recovery, attempt, queue>>

\* Identity has revoked the device: that is recorded and nothing is registered.
VerifiedRevoked(c) ==
  /\ Arrived(c, "verify") /\ CurrentRecovery(c)
  /\ call[c].answer.kind = "revoked"
  /\ recovery' = "blocked"
  /\ Enqueue(call, c, Queued(call[c], "block"))
  /\ UNCHANGED <<session, failure, reading, flight, attempt>>

\* Identity does not know the device, or a failed recovery is retried.
VerifiedUnknown(c) ==
  /\ Arrived(c, "verify") /\ CurrentRecovery(c)
  /\ \/ call[c].answer.kind = "unknown"
     \/ call[c].answer.kind = "ok" /\ "retry" \in call[c].has /\ recovery = "failed"
  /\ TryRecover(c)
  /\ UNCHANGED <<session, failure>>

\* The recovery that this call joined has ended.
JoinedContinues(c) ==
  /\ call[c].pc = "told" /\ ~Turning
  /\ RecoveryEnds(c, call[c].answer.kind = "ok")
  /\ UNCHANGED <<session, failure, recovery, attempt, queue>>

(***************************************************************************)
(* register().                                                             *)
(***************************************************************************)

\* register() against the transport in effect.
Registering(r) ==
  [r EXCEPT !.pc = "register", !.arg = transport, !.answer = NoAnswer,
            !.has = (@ \ {"writing", "kept"}) \cup {"live"}]

\* POST device/register.
Register(c) ==
  /\ MayStart("register", c)
  /\ consent = "granted"
  /\ call' = [call EXCEPT ![c] =
                Registering([Idle EXCEPT !.op = "register", !.has = {"server", "again"}])]
  /\ UNCHANGED <<session, failure, reading, mending, queue>>

\* What follows when register() throws; a call that is not current returns.
RegisterThrows(c) ==
  IF call[c].op = "refresh" THEN RecoveryFails(c)
  ELSE call' = [call EXCEPT ![c] = Idle] /\ UNCHANGED <<queue, reading, recovery, flight>>
RegisterFails(c) ==
  IF CurrentRecovery(c)
  THEN /\ failure' = "set"
       /\ Enqueue(call, c, Queued(call[c], "unrecord"))
       /\ UNCHANGED <<reading, recovery, flight>>
  ELSE RegisterThrows(c) /\ UNCHANGED failure

RegisterArrives(c) ==
  /\ Arrived(c, "register")
  /\ IF call[c].answer.kind = "ok" /\ CurrentRecovery(c)
     THEN /\ Enqueue(call, c, Queued(call[c], "record"))
          /\ UNCHANGED <<failure, reading, recovery, flight>>
     ELSE RegisterFails(c)
  /\ UNCHANGED <<session, attempt>>

\* Identity confirms the new registration, or does not.
ConfirmArrives(c) ==
  /\ Arrived(c, "confirm")
  /\ IF CurrentRecovery(c) /\ call[c].answer = [kind |-> "ok", who |-> principal]
     THEN recovery' = "recovered" /\ RecoveryEnds(c, TRUE) /\ UNCHANGED queue
     ELSE RecoveryFails(c)
  /\ UNCHANGED <<session, failure, attempt>>

\* A request fails, times out or is aborted, or its answer is malformed.
RequestFails(c) ==
  /\ call[c].pc \in Requests /\ ~Turning
  /\ "down" \in ops \/ "live" \notin call[c].has
  /\ CASE call[c].pc \in {"usage", "verify"} ->
            RecoveryEnds(c, FALSE) /\ UNCHANGED <<failure, recovery, queue>>
       [] call[c].pc = "register" -> RegisterFails(c)
       [] call[c].pc = "confirm" -> RecoveryFails(c) /\ UNCHANGED failure
  /\ UNCHANGED <<session, attempt>>

(***************************************************************************)
(* Publications.                                                           *)
(***************************************************************************)

\* The head of the chain evaluates its update and hands it to the store.
TakeTurn ==
  /\ Turning
  /\ LET c == Head(queue)
         kept == IF call[c].op \in Settings \/ CurrentRecovery(c) THEN {"kept"} ELSE {}
     IN  call' = [call EXCEPT ![c].has = @ \cup {"writing"} \cup kept]
  /\ UNCHANGED <<session, failure, reading, mending, queue>>

\* The store has, or with a fault has not, what call c wrote at step pc.
Stored(c, pc) ==
  /\ queue # <<>> /\ c = Head(queue)
  /\ call[c].pc = pc /\ "writing" \in call[c].has
Refused(c, pc) == "fault" \in ops /\ Stored(c, pc)
Registration(c, s, p) ==
  IF "kept" \in call[c].has THEN status' = s /\ principal' = p ELSE UNCHANGED <<status, principal>>
settled == <<ops, device, consent, transport, refused>>

\* The device is declared blocked, and the refresh goes on.
Blocked(c) ==
  /\ \/ Stored(c, "block") /\ Registration(c, "failed", principal)
     \/ Refused(c, "block") /\ UNCHANGED <<status, principal>>
  /\ queue' = Tail(queue)
  /\ RecoveryEnds(c, FALSE)
  /\ UNCHANGED <<settled, failure, recovery, attempt>>

\* The old registration is void; register() is called when c is still current.
Revalidated(c) ==
  /\ Stored(c, "revalidate")
  /\ Registration(c, "failed", None)
  /\ queue' = Tail(queue)
  /\ IF CurrentRecovery(c)
     THEN call' = [call EXCEPT ![c] = Registering(call[c])] /\ UNCHANGED <<reading, flight>>
     ELSE RecoveryEnds(c, FALSE)
  /\ UNCHANGED <<settled, failure, recovery, attempt>>

\* A settled write that is followed by another of the same call.
Again(c, pc) ==
  /\ call' = [call EXCEPT ![c] = Queued(call[c], pc)]
  /\ queue' = Append(Tail(queue), c)
  /\ UNCHANGED <<reading, flight>>

\* The catch block of the recovery, when it follows a write.
WriteThrows(c) ==
  IF CurrentRecovery(c)
  THEN recovery' = "failed" /\ Again(c, "blame")
  ELSE RecoveryEnds(c, FALSE) /\ queue' = Tail(queue) /\ UNCHANGED recovery

RevalidateRefused(c) ==
  /\ Refused(c, "revalidate")
  /\ WriteThrows(c)
  /\ UNCHANGED <<session, failure, attempt>>

\* register() has recorded its result: a recovery asks Identity to confirm it,
\* through the transport it captured at its start.
Recorded(c) ==
  /\ Stored(c, "record")
  /\ Registration(c, "registered", call[c].answer.who)
  /\ failure' = IF CurrentRecovery(c) THEN "null" ELSE failure
  /\ queue' = Tail(queue)
  /\ IF call[c].op = "refresh" /\ ~CurrentRecovery(c) THEN RecoveryEnds(c, FALSE)
     ELSE /\ call' = [call EXCEPT ![c] =
                        IF call[c].op = "register" THEN Idle
                        ELSE Ask([call[c] EXCEPT !.has = (@ \ {"writing", "kept"})
                                    \ (IF transport = call[c].origin THEN {} ELSE {"live"})],
                                 "confirm")]
          /\ UNCHANGED <<reading, flight>>
  /\ UNCHANGED <<settled, recovery, attempt>>

\* Mutant: the refused write of a registration goes unnoticed.
RecordRefusedSilently(c) ==
  /\ Refused(c, "record")
  /\ queue' = Tail(queue)
  /\ IF call[c].op = "refresh" THEN RecoveryEnds(c, FALSE)
     ELSE call' = [call EXCEPT ![c] = Idle] /\ UNCHANGED <<reading, flight>>
  /\ UNCHANGED <<session, failure, recovery, attempt>>

RecordRefused(c) ==
  /\ Refused(c, "record")
  /\ IF CurrentRecovery(c)
     THEN failure' = "set" /\ Again(c, "unrecord") /\ UNCHANGED recovery
     ELSE /\ UNCHANGED failure
          /\ IF call[c].op = "refresh" THEN WriteThrows(c)
             ELSE /\ call' = [call EXCEPT ![c] = Idle] /\ queue' = Tail(queue)
                  /\ UNCHANGED <<reading, flight, recovery>>
  /\ UNCHANGED <<session, attempt>>

\* register() has recorded its failure, or could not, and throws.
Unrecorded(c) ==
  /\ \/ Stored(c, "unrecord") /\ Registration(c, "failed", principal)
     \/ Refused(c, "unrecord") /\ UNCHANGED <<status, principal>>
  /\ IF call[c].op = "refresh" THEN WriteThrows(c)
     ELSE /\ call' = [call EXCEPT ![c] = Idle] /\ queue' = Tail(queue)
          /\ UNCHANGED <<reading, flight, recovery>>
  /\ UNCHANGED <<settled, failure, attempt>>

\* The failed recovery is recorded; nothing is checked before the failure is kept.
Blamed(c) ==
  /\ \/ Stored(c, "blame") /\ Registration(c, "failed", principal) /\ failure' = "set"
     \/ Refused(c, "blame") /\ UNCHANGED <<status, principal, failure>>
  /\ queue' = Tail(queue)
  /\ RecoveryEnds(c, FALSE)
  /\ UNCHANGED <<settled, recovery, attempt>>

(***************************************************************************)
(* Settings.                                                               *)
(***************************************************************************)

Bumped(flags) == [d \in Calls |-> [call[d] EXCEPT !.has = @ \ flags]]

\* What a recovery keeps is dropped before the write.
SetConsent(c) ==
  /\ MayStart("consent", c)
  /\ \E state \in Consent :
       Enqueue(Bumped({"consent", "again"}), c,
               [Idle EXCEPT !.op = "consent", !.pc = "setting", !.arg = state])
  /\ recovery' = "none" /\ attempt' = "never" /\ flight' = None
  /\ UNCHANGED <<session, failure, reading>>

\* startRegistration() in the background of a settings call, or nothing.
Background(cs, c, starts) ==
  call' = [cs EXCEPT ![c] =
             IF starts THEN [Idle EXCEPT !.op = "register", !.pc = "register", !.arg = transport',
                                         !.has = {"server", "again", "live"}] ELSE Idle]

ConsentStored(c) ==
  /\ Stored(c, "setting") /\ call[c].op = "consent"
  /\ consent' = call[c].arg /\ refused' = FALSE
  /\ queue' = Tail(queue)
  /\ UNCHANGED <<ops, device, status, principal, transport, failure, reading, mending>>
  /\ Background(call, c, consent' = "granted" /\ status # "registered")

SetServer(c) ==
  /\ MayStart("server", c)
  /\ \E origin \in Servers \ {transport} :
       Enqueue(Bumped({"server"}), c,
               [Idle EXCEPT !.op = "server", !.pc = "setting", !.arg = origin])
  /\ UNCHANGED <<session, failure, reading, mending>>

\* Mutant: the old server's binding is kept.
ServerStoredOnly(c) ==
  /\ Stored(c, "setting") /\ call[c].op = "server"
  /\ transport' = call[c].arg /\ refused' = FALSE
  /\ status' = "unregistered" /\ principal' = None /\ failure' = "null"
  /\ recovery' = "none" /\ attempt' = "never" /\ flight' = None
  /\ queue' = Tail(queue)
  /\ Background(Bumped({"live"}), c, consent = "granted")
  /\ UNCHANGED <<ops, device, consent, reading>>

\* The old transport is disposed, and everything the old server said is dropped.
ServerStored(c) ==
  /\ Stored(c, "setting") /\ call[c].op = "server"
  /\ transport' = call[c].arg /\ refused' = FALSE
  /\ status' = "unregistered" /\ principal' = None /\ failure' = "null"
  /\ recovery' = "none" /\ attempt' = "never" /\ flight' = None
  /\ ready' = FALSE /\ fresh' = FALSE /\ bound' = None
  /\ queue' = Tail(queue)
  /\ Background(Bumped({"live"}), c, consent = "granted")
  /\ UNCHANGED <<ops, device, consent>>

SettingRefused(c) ==
  /\ Refused(c, "setting")
  /\ call' = [call EXCEPT ![c] = Idle]
  /\ queue' = Tail(queue) /\ refused' = TRUE
  /\ UNCHANGED <<ops, device, consent, status, principal, transport, failure, reading, mending>>

(***************************************************************************)
(* Time, and the servers.                                                  *)
(***************************************************************************)

\* contributionIntervalMs has passed since an attempt, or since a reading.
AttemptAges ==
  /\ attempt = "now" /\ ~Turning /\ attempt' = "past"
  /\ UNCHANGED <<session, failure, reading, recovery, flight, queue, call>>
ReadingAges ==
  /\ fresh /\ ~Turning /\ fresh' = FALSE
  /\ UNCHANGED <<session, failure, ready, bound, mending, queue, call>>

\* A server is restored without the device, or its owner revokes it.
Forget ==
  /\ "forget" \in ops
  /\ \E s \in Servers : device[s] \in Principals /\ device' = [device EXCEPT ![s] = "unknown"]
  /\ UNCHANGED <<ops, consent, status, principal, transport, refused, failure, reading, mending, queue, call>>
Revoke ==
  /\ "revoke" \in ops
  /\ \E s \in Servers : device[s] \in Principals /\ device' = [device EXCEPT ![s] = "revoked"]
  /\ UNCHANGED <<ops, consent, status, principal, transport, refused, failure, reading, mending, queue, call>>

Settle(c) ==
  \/ Blocked(c) \/ Revalidated(c) \/ RevalidateRefused(c) \/ Recorded(c) \/ RecordRefused(c)
  \/ Unrecorded(c) \/ Blamed(c) \/ ConsentStored(c) \/ ServerStored(c) \/ SettingRefused(c)
Arrive(c) ==
  \/ UsageArrives(c) \/ UsageDenied(c)
  \/ VerifiedAnyway(c) \/ VerifiedRevoked(c) \/ VerifiedUnknown(c)
  \/ RegisterArrives(c) \/ ConfirmArrives(c) \/ RequestFails(c)

Next ==
  \/ TakeTurn \/ AttemptAges \/ ReadingAges \/ Forget \/ Revoke
  \/ \E c \in Calls :
       \/ Refresh(c) \/ Register(c) \/ SetConsent(c) \/ SetServer(c)
       \/ Sign(c) \/ Serve(c) \/ Arrive(c) \/ JoinedContinues(c) \/ Settle(c)

Spec == Init /\ [][Next]_vars

\* Requests are answered or time out, the store answers, time passes, and the
\* contributions timer refreshes again and again.  A task that waits while the
\* chain is handed on has its turn in the end.
Fairness ==
  /\ WF_vars(TakeTurn) /\ WF_vars(AttemptAges) /\ WF_vars(ReadingAges)
  /\ \A c \in Calls :
       /\ SF_vars(Sign(c)) /\ SF_vars(Serve(c)) /\ SF_vars(Arrive(c))
       /\ SF_vars(JoinedContinues(c)) /\ WF_vars(Settle(c))
       /\ SF_vars(Refresh(c))
FairSpec == Spec /\ Fairness

(***************************************************************************)
(* Properties.                                                             *)
(***************************************************************************)

\* Refreshes that are denied at the same time share one recovery: no two calls
\* that are current register the device again (controller.ts, the comment of
\* #recoverRegistration: "single flight").
Mending(c) == call[c].op = "refresh" /\ call[c].pc \in Recovering /\ CurrentRecovery(c)
SingleFlight == \A c, d \in Calls : Mending(c) /\ Mending(d) => c = d

\* What is shown as the binding of the device was read from the server in effect.
ReadFromServerInEffect == bound # None => bound.server = transport

\* While the page says that the device is being registered again, a call is at it,
\* or another server is being saved, or it says that it could not be.
CheckingIsAtWork ==
  recovery = "checking" /\ consent = "granted" /\ ~refused =>
    \E c \in Calls : Mending(c) \/ call[c].op = "server"

\* A signed request goes out only while consent is given: a withdrawal that is
\* stored while the nonce is fetched stops the request.
SentWithConsent ==
  [][\A c \in Calls :
       "signing" \in call[c].has /\ "signing" \notin call'[c].has /\ call'[c].pc \in Requests =>
         consent = "granted"]_vars

\* The recovery voids the registration before it makes a new one.  Whatever stops
\* it, a client that comes to rest with consent has a registration again, or it
\* says why it has none; the one that was stopped by a setting that could not be
\* saved says that.
Quiet == queue = <<>> /\ \A c \in Calls : call[c].pc = "idle"
NeverLeftVoid ==
  Quiet /\ consent = "granted" /\ ~refused =>
    principal # None \/ failure = "set" \/ recovery \in {"failed", "blocked"}

\* There is one recovery at a time; once begun it is at work, or its end can be seen.
OneRecoveryIsSeen == SingleFlight /\ CheckingIsAtWork /\ NeverLeftVoid

\* A device that its server has forgotten, and a recovery that was interrupted, are
\* put right: the client is registered, under the principal it has at the server; and
\* every refresh returns, the ones that wait for another's recovery included.
ComesBack ==
  /\ \A c \in Calls : call[c].op = "refresh" ~> call[c].pc = "idle"
  /\ principal # device[Home] \/ recovery = "failed" ~>
       status = "registered" /\ principal = device[Home]
=============================================================================
