-------------------------------- MODULE Points --------------------------------
(***************************************************************************)
(* src/controller.ts: refreshPoints() and #hanaName(), the reading of the  *)
(* points ledger.  The rows of an answer are named by parallel workers     *)
(* that ask the registry, or take the name from a cache, while the person  *)
(* may save another server.                                                *)
(*                                                                         *)
(* An action is the code between two awaits.  The server generation is     *)
(* kept as "it was not bumped since this call captured it".  Signing does  *)
(* not wait here: authNonceSource is "client", its default.                *)
(***************************************************************************)
EXTENDS Naturals, FiniteSets

CONSTANTS
  Calls,        \* concurrent invocations
  Servers,      \* server origins
  Hanas,        \* the rows a ledger may have
  None,         \* null
  Home,         \* the server in effect at first
  Concurrency,  \* config.catalogConcurrency
  Exclusive     \* no refresh starts while a server is saved

ASSUME ServerAssumption == Home \in Servers /\ None \notin Servers
ASSUME ConcurrencyAssumption == Concurrency \in Nat \ {0} /\ Exclusive \in BOOLEAN

VARIABLES
  consent,     \* #state.consent is "granted"
  registered,  \* #state.registration.status is "registered"
  transport,   \* the origin #transport and #profileTransport send to
  saving,      \* the server that setServerOrigin() is writing, or None
  points,      \* #points: where it was read and who named its rows
  fresh,       \* #pointsCheckedAt is within the interval
  names,       \* #hanaNames: the server that named each row, or None
  call         \* the locals of each call

vars == <<consent, registered, transport, saving, points, fresh, names, call>>

Named == Servers \cup {None, "failed"}
Unavailable == [origin |-> None, rows |-> {}, named |-> [h \in Hanas |-> None]]
Reading == [origin : Servers \cup {None}, rows : SUBSET Hanas, named : [Hanas -> Named]]
\* A call: what it read so far, which worker asks which server for a row
\* ("dead" once that transport is disposed), whether its transport lives and
\* whether the generation is the one it captured.
Idle == [pc |-> "idle", read |-> Unavailable, asking |-> [h \in Hanas |-> None],
         live |-> FALSE, same |-> FALSE]
Call == [pc : {"idle", "asked", "naming"}, read : Reading,
         asking : [Hanas -> Servers \cup {None, "dead"}], live : BOOLEAN, same : BOOLEAN]

TypeOK ==
  /\ consent \in BOOLEAN /\ registered \in BOOLEAN /\ fresh \in BOOLEAN
  /\ transport \in Servers /\ saving \in Servers \cup {None}
  /\ points \in Reading
  /\ names \in [Hanas -> Servers \cup {None}]
  /\ call \in [Calls -> Call]

Init ==
  /\ consent = TRUE /\ registered = TRUE /\ fresh = FALSE
  /\ transport = Home /\ saving = None
  /\ points = Unavailable
  /\ names = [h \in Hanas |-> None]
  /\ call = [c \in Calls |-> Idle]

settings == <<consent, registered, transport, saving>>

Asking(c) == {h \in Hanas : call[c].asking[h] # None}
\* Rows of c that no worker has taken yet.
Untaken(c) == {h \in call[c].read.rows : call[c].read.named[h] = None /\ call[c].asking[h] = None}

\* A worker that is free takes the next row at once, and a call whose rows are
\* all named goes on at once: no other task comes in between.
Taking(c) == call[c].pc = "naming" /\ Untaken(c) # {} /\ Cardinality(Asking(c)) < Concurrency
Ending(c) == call[c].pc = "naming" /\ Untaken(c) = {} /\ Asking(c) = {}
Continuing == \E c \in Calls : Taking(c) \/ Ending(c)

MayStart(c) ==
  /\ call[c].pc = "idle" /\ ~Continuing
  /\ Exclusive => saving = None

\* refreshPoints() up to its request, unless what it has is fresh.
Refresh(c) ==
  /\ MayStart(c)
  /\ consent /\ registered
  /\ ~(points.origin # None /\ fresh)
  /\ call' = [call EXCEPT ![c] = [Idle EXCEPT !.pc = "asked", !.read.origin = transport,
                                              !.live = TRUE, !.same = TRUE]]
  /\ UNCHANGED <<settings, points, fresh, names>>

\* Without consent or registration nothing is asked.
RefreshWithout(c) ==
  /\ MayStart(c)
  /\ ~(consent /\ registered)
  /\ points' = Unavailable
  /\ UNCHANGED <<settings, fresh, names, call>>

\* The ledger has arrived, with any rows.
Answered(c) ==
  /\ call[c].pc = "asked" /\ call[c].live /\ ~Continuing
  /\ \E rows \in SUBSET Hanas :
       call' = [call EXCEPT ![c].pc = "naming", ![c].read.rows = rows]
  /\ UNCHANGED <<settings, points, fresh, names>>

\* The request fails, times out or is aborted, or the answer is malformed.
Fails(c) ==
  /\ call[c].pc = "asked" /\ ~Continuing
  /\ points' = IF call[c].same THEN Unavailable ELSE points
  /\ call' = [call EXCEPT ![c] = Idle]
  /\ UNCHANGED <<settings, fresh, names>>

\* A free worker takes a row: from the cache, or it asks the registry.
TakeRow(c, h) ==
  /\ Taking(c) /\ h \in Untaken(c)
  /\ call' = IF names[h] # None THEN [call EXCEPT ![c].read.named[h] = names[h]]
             ELSE [call EXCEPT ![c].asking[h] = transport]
  /\ UNCHANGED <<settings, points, fresh, names>>

\* The registry names the row, or does not know it: both are remembered.
NameArrives(c, h) ==
  /\ call[c].asking[h] \in Servers /\ ~Continuing
  /\ call' = [call EXCEPT ![c].asking[h] = None, ![c].read.named[h] = call[c].asking[h]]
  /\ names' = IF call[c].same THEN [names EXCEPT ![h] = call[c].asking[h]] ELSE names
  /\ UNCHANGED <<settings, points, fresh>>

\* Mutant: a failure is remembered like a name.
NameFailsForGood(c, h) ==
  /\ call[c].asking[h] # None /\ ~Continuing
  /\ call' = [call EXCEPT ![c].asking[h] = None, ![c].read.named[h] = "failed"]
  /\ names' = IF call[c].same THEN [names EXCEPT ![h] = "failed"] ELSE names
  /\ UNCHANGED <<settings, points, fresh>>

\* A request for a name fails: the row says so, and nothing is remembered.
NameFails(c, h) ==
  /\ call[c].asking[h] # None /\ ~Continuing
  /\ call' = [call EXCEPT ![c].asking[h] = None, ![c].read.named[h] = "failed"]
  /\ UNCHANGED <<settings, points, fresh, names>>

\* All rows are named: the result is kept unless another server was saved.
End(c) ==
  /\ Ending(c)
  /\ IF call[c].same THEN points' = call[c].read /\ fresh' = TRUE
     ELSE UNCHANGED <<points, fresh>>
  /\ call' = [call EXCEPT ![c] = Idle]
  /\ UNCHANGED <<settings, names>>

(***************************************************************************)
(* What resets the points.                                                 *)
(***************************************************************************)

\* setServerOrigin() with another address, up to its write.
SetServer ==
  /\ saving = None /\ ~Continuing
  /\ saving' \in Servers \ {transport}
  /\ call' = [c \in Calls |-> [call[c] EXCEPT !.same = FALSE]]
  /\ UNCHANGED <<consent, registered, transport, points, fresh, names>>

Disposed(r) ==
  [r EXCEPT !.live = FALSE, !.asking = [h \in Hanas |-> IF @[h] # None THEN "dead" ELSE None]]

\* Mutant: the names stay in the cache.
ServerStoredOnly ==
  /\ saving # None /\ ~Continuing
  /\ transport' = saving /\ saving' = None
  /\ registered' = FALSE /\ points' = Unavailable /\ fresh' = FALSE
  /\ call' = [c \in Calls |-> Disposed(call[c])]
  /\ UNCHANGED <<consent, names>>

\* The address is stored: the old transports are disposed, what they read is dropped.
ServerStored ==
  /\ saving # None /\ ~Continuing
  /\ transport' = saving /\ saving' = None
  /\ registered' = FALSE /\ points' = Unavailable /\ fresh' = FALSE
  /\ names' = [h \in Hanas |-> None]
  /\ call' = [c \in Calls |-> Disposed(call[c])]
  /\ UNCHANGED consent
ServerRefused ==
  /\ saving # None /\ ~Continuing
  /\ saving' = None
  /\ UNCHANGED <<consent, registered, transport, points, fresh, names, call>>

\* setConsent(); register(), or its failure; a recovery drops the points before it
\* voids the registration; refresh() clears the cache; the interval passes.
SetConsent ==
  /\ ~Continuing
  /\ consent' = ~consent /\ fresh' = FALSE
  /\ UNCHANGED <<registered, transport, saving, points, names, call>>
Register ==
  /\ consent /\ saving = None /\ ~Continuing
  /\ registered' = ~registered
  /\ UNCHANGED <<consent, transport, saving, points, fresh, names, call>>
Recover ==
  /\ consent /\ ~Continuing
  /\ points' = Unavailable
  /\ UNCHANGED <<settings, fresh, names, call>>
Clear ==
  /\ ~Continuing
  /\ fresh' = FALSE /\ names' = [h \in Hanas |-> None]
  /\ UNCHANGED <<settings, points, call>>
Age ==
  /\ fresh /\ ~Continuing
  /\ fresh' = FALSE
  /\ UNCHANGED <<settings, points, names, call>>

Progress(c) ==
  \/ Answered(c) \/ Fails(c) \/ End(c)
  \/ \E h \in Hanas : TakeRow(c, h) \/ NameArrives(c, h) \/ NameFails(c, h)

Next ==
  \/ SetServer \/ ServerStored \/ ServerRefused \/ SetConsent \/ Register
  \/ Recover \/ Clear \/ Age
  \/ \E c \in Calls : Refresh(c) \/ RefreshWithout(c) \/ Progress(c)

Spec == Init /\ [][Next]_vars

(***************************************************************************)
(* Properties.                                                             *)
(***************************************************************************)

\* The points that are kept were read from the server in effect (controller.ts,
\* refreshPoints: "answer of the previous server").
PointsOfServerInEffect == points.origin # None => points.origin = transport

\* The cache holds names that the server in effect gave, whatever workers of an
\* earlier server are still about.
NamesOfServerInEffect == \A h \in Hanas : names[h] # None => names[h] = transport

\* No reading mixes servers: each row is named by the server that was read, or
\* its failure is shown; no row is left without either.
OneServerPerReading ==
  \A h \in points.rows : points.named[h] \in {points.origin, "failed"}

\* Rows, their names and the cache: all of the one server in effect.
OneServer == PointsOfServerInEffect /\ NamesOfServerInEffect /\ OneServerPerReading
=============================================================================
