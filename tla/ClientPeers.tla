----------------------------- MODULE ClientPeers -----------------------------
(***************************************************************************)
(* src/client/index.ts startClientPeerLease(), src/suite/client-peers.ts   *)
(* and the lease route of src/routes.ts.  Each page with a connection      *)
(* holds one request open; the set of open requests tells Core which React *)
(* the pages run.  A declaration of the suite takes a snapshot of it at    *)
(* its start and compares at its end (SuiteDeclaration.tla).               *)
(*                                                                         *)
(* A page may be hidden and shown, lose or replace its connection, and go. *)
(* An abort reaches the host late: as the abort of the request's signal,   *)
(* or, on carriers that do not forward it, as the cancellation of the      *)
(* response's body.                                                        *)
(***************************************************************************)
EXTENDS Naturals, FiniteSets

CONSTANTS
  Pages,      \* pages that load the client
  Versions,   \* versions of React
  Invs,       \* names for requests under way (a bound on their number)
  Signals,    \* the pages whose carrier forwards the abort of a request
  MaxGen,     \* bound: connection generations of a page
  None        \* null, undefined

ASSUME PageAssumption ==
  /\ Pages # {} /\ Invs # {} /\ IsFiniteSet(Invs) /\ Signals \subseteq Pages
  /\ MaxGen \in Nat \ {0}
  /\ None \notin Pages \cup Invs \cup Versions \cup {"spent"} /\ "spent" \notin Invs

VARIABLES
  version,   \* React.version of each page, None once it is gone
  gen,       \* generation.getSnapshot()?.id, 0 when there is none
  current,   \* `current`, 0 when undefined
  hidden,    \* `hidden`
  disposed,  \* `disposed`: the client's effect is gone
  active,    \* the request that `active` would abort, "spent" when it is aborted
  inv,       \* the requests
  closed,    \* the host's leases are disposed
  reader     \* the snapshot of SuiteDeclarationService.read()

peers == <<version, gen, current, hidden, disposed, active, inv, closed, reader>>
page == <<version, gen, current, hidden, disposed>>

\* A request with its React: live or aborted at its page; on its way, held as a lease, refused or
\* ended at the host, which may have been told of the abort.
Free == [page |-> None, react |-> None, side |-> "aborted", host |-> "ended", told |-> FALSE]
Inv == [page : Pages \cup {None}, react : Versions \cup {None}, side : {"live", "aborted"},
        host : {"sent", "held", "refused", "ended"}, told : BOOLEAN]
\* A reader: the leases it found and their React, and whether #revision is the same.
Reader == [pc : {"idle", "reading"}, react : Versions \cup {None}, seen : SUBSET Invs, same : BOOLEAN]

PeersTypeOK ==
  /\ version \in [Pages -> Versions \cup {None}]
  /\ gen \in [Pages -> 0..MaxGen] /\ current \in [Pages -> 0..MaxGen]
  /\ hidden \in [Pages -> BOOLEAN] /\ disposed \in [Pages -> BOOLEAN]
  /\ active \in [Pages -> Invs \cup {None, "spent"}]
  /\ inv \in [Invs -> Inv] /\ closed \in BOOLEAN
  /\ reader \in Reader

PeersInit ==
  /\ version = [p \in Pages |-> None]
  /\ gen = [p \in Pages |-> 0] /\ current = [p \in Pages |-> 0]
  /\ hidden = [p \in Pages |-> FALSE] /\ disposed = [p \in Pages |-> TRUE]
  /\ active = [p \in Pages |-> None] /\ inv = [i \in Invs |-> Free]
  /\ closed = FALSE
  /\ reader = [pc |-> "idle", react |-> None, seen |-> {}, same |-> FALSE]

Held == {i \in Invs : inv[i].host = "held"}
Reacts == {inv[i].react : i \in Held}
\* Mutant: all versions are reported together.
KnownAll == IF ~closed /\ Reacts # {} THEN Reacts ELSE None

\* snapshot().reactVersion
Known == IF ~closed /\ Cardinality(Reacts) = 1 THEN CHOOSE v \in Versions : Reacts = {v} ELSE None

\* A request that both sides are done with is forgotten.
Settled(r) == IF r.side = "aborted" /\ r.host \in {"refused", "ended"} THEN Free ELSE r
Aborted(is, i) == IF i \in Invs THEN [is EXCEPT ![i] = Settled([@ EXCEPT !.side = "aborted"])] ELSE is

(***************************************************************************)
(* The page.                                                               *)
(***************************************************************************)

\* Mutant: the request of the generation before is left open.
ObserveAndLeave(p, next, v) ==
  IF next = current[p] THEN UNCHANGED <<current, active, inv>>
  ELSE /\ current' = [current EXCEPT ![p] = next]
       /\ IF next = 0 THEN /\ active' = [active EXCEPT ![p] = None]
                           /\ inv' = inv
          ELSE \E i \in Invs :
                 /\ inv[i] = Free
                 /\ inv' = [inv EXCEPT ![i] =
                              [page |-> p, react |-> v, side |-> "live", host |-> "sent", told |-> FALSE]]
                 /\ active' = [active EXCEPT ![p] = i]

\* observe(): another generation gets another request.
Observe(p, next, v) ==
  IF next = current[p] THEN UNCHANGED <<current, active, inv>>
  ELSE /\ current' = [current EXCEPT ![p] = next]
       /\ IF next = 0 THEN /\ active' = [active EXCEPT ![p] = None]
                           /\ inv' = Aborted(inv, active[p])
          ELSE \E i \in Invs :
                 /\ inv[i] = Free
                 /\ inv' = [Aborted(inv, active[p]) EXCEPT ![i] =
                              [page |-> p, react |-> v, side |-> "live", host |-> "sent", told |-> FALSE]]
                 /\ active' = [active EXCEPT ![p] = i]

\* A page loads the client, with a connection or without one.
Load(p) ==
  /\ disposed[p]
  /\ disposed' = [disposed EXCEPT ![p] = FALSE] /\ hidden' = [hidden EXCEPT ![p] = FALSE]
  /\ \E v \in Versions, g \in 0..MaxGen :
       version' = [version EXCEPT ![p] = v] /\ gen' = [gen EXCEPT ![p] = g] /\ Observe(p, g, v)
  /\ \A i \in Invs : inv[i].page # p
  /\ UNCHANGED <<closed, reader>>

\* The connection has another generation, or none.
Generation(p) ==
  /\ ~disposed[p]
  /\ \E g \in {0, gen[p] + 1} \cap 0..MaxGen :
       /\ gen' = [gen EXCEPT ![p] = g]
       /\ IF hidden[p] THEN UNCHANGED <<current, active, inv>> ELSE Observe(p, g, version[p])
  /\ UNCHANGED <<version, hidden, disposed, closed, reader>>

\* pagehide
Hide(p) ==
  /\ ~disposed[p]
  /\ hidden' = [hidden EXCEPT ![p] = TRUE] /\ current' = [current EXCEPT ![p] = 0]
  /\ inv' = Aborted(inv, active[p]) /\ active' = [active EXCEPT ![p] = None]
  /\ UNCHANGED <<version, gen, disposed, closed, reader>>

\* pageshow
Show(p) ==
  /\ ~disposed[p] /\ hidden[p]
  /\ hidden' = [hidden EXCEPT ![p] = FALSE]
  /\ Observe(p, gen[p], version[p])
  /\ UNCHANGED <<version, gen, disposed, closed, reader>>

\* The client's effect is disposed, or the page is closed.
Leave(p) ==
  /\ ~disposed[p]
  /\ disposed' = [disposed EXCEPT ![p] = TRUE] /\ hidden' = [hidden EXCEPT ![p] = FALSE]
  /\ version' = [version EXCEPT ![p] = None]
  /\ inv' = Aborted(inv, active[p]) /\ active' = [active EXCEPT ![p] = None]
  /\ gen' = [gen EXCEPT ![p] = 0] /\ current' = [current EXCEPT ![p] = 0]
  /\ UNCHANGED <<closed, reader>>

\* failed(): the request is aborted and nothing is tried again.
Failed(i) ==
  /\ inv' = Aborted(inv, i)
  /\ active' = [active EXCEPT ![inv[i].page] = "spent"]
  /\ UNCHANGED <<page, closed, reader>>

\* The page sees the refusal, or the end of the response.
SeesEnd(i) ==
  /\ inv[i].side = "live" /\ inv[i].host \in {"refused", "ended"}
  /\ Failed(i)

\* The request fails on its way, or the response is malformed.
TransportFails(i) ==
  /\ inv[i].side = "live" /\ inv[i].host \in {"sent", "held"}
  /\ Failed(i)

(***************************************************************************)
(* The host.                                                               *)
(***************************************************************************)

\* #revision is bumped.
Bump == reader' = [reader EXCEPT !.same = FALSE]

\* Mutant: the abort that came before the request is not looked for.
ArrivesAnyway(i) ==
  /\ inv[i].host = "sent"
  /\ IF closed
     THEN inv' = [inv EXCEPT ![i] = Settled([@ EXCEPT !.host = "refused"])] /\ UNCHANGED reader
     ELSE inv' = [inv EXCEPT ![i].host = "held"] /\ Bump
  /\ UNCHANGED <<page, active, closed>>

\* open(): the request arrives.
Arrives(i) ==
  /\ inv[i].host = "sent"
  /\ IF closed \/ inv[i].told
     THEN inv' = [inv EXCEPT ![i] = Settled([@ EXCEPT !.host = "refused"])] /\ UNCHANGED reader
     ELSE inv' = [inv EXCEPT ![i].host = "held"] /\ Bump
  /\ UNCHANGED <<page, active, closed>>

\* It does not arrive any more.
Lost(i) ==
  /\ inv[i].side = "aborted" /\ inv[i].host = "sent"
  /\ inv' = [inv EXCEPT ![i] = Free]
  /\ UNCHANGED <<page, active, closed, reader>>

\* Mutant: a lease that ends leaves the revision alone.
FinishOnly(is, i) == inv' = [is EXCEPT ![i] = Settled([@ EXCEPT !.host = "ended"])] /\ UNCHANGED reader

\* finish()
Finish(is, i) == inv' = [is EXCEPT ![i] = Settled([@ EXCEPT !.host = "ended"])] /\ Bump

\* The request's signal aborts, once: before the request arrives, or during the lease.
SignalAborts(i) ==
  /\ inv[i].side = "aborted" /\ inv[i].page \in Signals /\ ~inv[i].told
  /\ \/ /\ inv[i].host = "held"
        /\ Finish([inv EXCEPT ![i].told = TRUE], i)
     \/ /\ inv[i].host = "sent"
        /\ inv' = [inv EXCEPT ![i].told = TRUE] /\ UNCHANGED reader
  /\ UNCHANGED <<page, active, closed>>

\* The response's body is cancelled.
BodyCancelled(i) ==
  /\ inv[i].side = "aborted" /\ inv[i].page \in Pages \ Signals /\ inv[i].host = "held"
  /\ Finish(inv, i)
  /\ UNCHANGED <<page, active, closed>>

\* close(), when the plugin is disposed: every lease ends.
Close ==
  /\ ~closed /\ closed' = TRUE
  /\ inv' = [i \in Invs |-> IF i \in Held THEN Settled([inv[i] EXCEPT !.host = "ended"]) ELSE inv[i]]
  /\ Bump
  /\ UNCHANGED <<page, active>>

\* The plugin is activated again, with new leases and readers.
Reopen ==
  /\ closed /\ closed' = FALSE
  /\ reader' = [reader EXCEPT !.pc = "idle", !.react = None, !.seen = {}, !.same = FALSE]
  /\ UNCHANGED <<page, active, inv>>

\* SuiteDeclarationService.read() takes a snapshot before everything else.
ReadStarts ==
  /\ ~closed /\ reader.pc = "idle"
  /\ reader' = [pc |-> "reading", react |-> Known, seen |-> Held, same |-> TRUE]
  /\ UNCHANGED <<page, active, inv, closed>>

\* At its end it takes another one and compares: the React it reports.
Reported == IF Known # None /\ reader.same THEN reader.react ELSE None

ReadEnds ==
  /\ reader.pc = "reading"
  /\ reader' = [reader EXCEPT !.pc = "idle", !.react = None, !.seen = {}, !.same = FALSE]
  /\ UNCHANGED <<page, active, inv, closed>>

Withdrawal(i) == SignalAborts(i) \/ BodyCancelled(i)

PeersNext ==
  \/ Close
  \/ \E p \in Pages : Load(p) \/ Generation(p) \/ Hide(p) \/ Show(p) \/ Leave(p)
  \/ \E i \in Invs : SeesEnd(i) \/ TransportFails(i) \/ Arrives(i) \/ Lost(i) \/ Withdrawal(i)

(***************************************************************************)
(* Properties.                                                             *)
(***************************************************************************)

\* A page has at most one request that it wants: the one of its present connection,
\* while it is shown (docs/SUITE_DECLARATION.md: "A generation loss/replacement,
\* pagehide or Core effect disposal aborts the invocation").
LiveIsWanted ==
  \A i \in Invs : inv[i].side = "live" =>
    LET p == inv[i].page
    IN  active[p] = i /\ ~disposed[p] /\ ~hidden[p] /\ gen[p] # 0 /\ current[p] = gen[p]

\* A page that is shown and connected has made its request for this connection, one
\* that came back from the page cache with the same connection included.
EveryActivationAsks ==
  \A p \in Pages : ~disposed[p] /\ ~hidden[p] /\ gen[p] # 0 =>
    current[p] = gen[p] /\ active[p] # None

\* A closed plugin holds no lease.
ClosedHoldsNothing == closed => Held = {}

\* The leases follow the pages: one for each that is shown, none for any other.
LeaseFollowsPage == LiveIsWanted /\ EveryActivationAsks /\ ClosedHoldsNothing

\* A lease whose page does not want it any more ends, and a page whose lease has
\* ended learns it.
BothSidesLearn ==
  \A i \in Invs : /\ inv[i].side = "aborted" /\ inv[i].host = "held" ~> inv[i].host # "held"
                  /\ inv[i].side = "live" /\ inv[i].host \in {"refused", "ended"} ~>
                       inv[i].side = "aborted"
=============================================================================
