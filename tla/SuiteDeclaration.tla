--------------------------- MODULE SuiteDeclaration ---------------------------
(***************************************************************************)
(* src/suite/service.ts, SuiteDeclarationService.read(): which packages of *)
(* the suite are installed, whether they make a whole, and which bundles   *)
(* of a registry they may be upgraded to.  Every package and every catalog *)
(* is a read of its own, while an installation replaces the packages one   *)
(* by one, a release is published package by package and the pages that    *)
(* hold the leases of ClientPeers come and go.                             *)
(*                                                                         *)
(* The records of a package (identity, repository, engines, peers) do not  *)
(* change once it is published: a bundle is the two versions it names and  *)
(* the Reacts that its records accept, none if they do not validate.       *)
(* `component` stands for the two components of the profile.               *)
(***************************************************************************)
EXTENDS ClientPeers, Sequences

CONSTANTS
  Bundles,    \* versions of the bundle, in the order of the releases
  Contents,   \* the versions of the members that each of them names
  Fits,       \* the components that the manifest of a version of Core accepts
  Takes,      \* the Reacts that the records of a bundle and its members accept
  Running     \* the bundle this Core was loaded from

Names == {"bundle", "core", "component"}
Whole(b) == [n \in Names |-> IF n = "bundle" THEN b ELSE Contents[b][n]]
Versioned(n) == {Whole(b)[n] : b \in Bundles}

ASSUME SuiteAssumption ==
  /\ Bundles \subseteq Nat \ {0} /\ Running \in Bundles /\ None \notin Bundles
  /\ Contents \in [Bundles -> [{"core", "component"} -> Nat \ {0}]]
  /\ Fits \in [Versioned("core") -> SUBSET Versioned("component")]
  /\ Takes \in [Bundles -> SUBSET Versions]

VARIABLES
  moving,     \* what moves in this behaviour: the pages, or the packages
  installed,  \* the version of each package on disk
  target,     \* the bundle being installed, or None
  catalog,    \* the versions of each package in the registry
  facts       \* the locals of read()

packages == <<installed, target, catalog>>
vars == <<peers, moving, packages, facts>>

\* The versions observed (0 unreadable), in the order of the reads; the catalogs; the bundles
\* asked for, none without a request.  For the properties: the bundles that were whole on disk
\* at some time, and whether nothing has been replaced or published.
Inventory == <<"component", "core", "bundle">>
Catalogs == <<"bundle", "core", "component">>
NoFacts == [got |-> <<>>, lists |-> <<>>, asks |-> {}, whole |-> {}, still |-> TRUE]

TypeOK ==
  /\ PeersTypeOK
  /\ moving \in {"pages", "packages"}
  /\ \A n \in Names : installed[n] \in Versioned(n) /\ catalog[n] \subseteq Versioned(n)
  /\ target \in Bundles \cup {None}
  /\ facts.got \in Seq(Nat) /\ Len(facts.got) <= 3
  /\ facts.lists \in Seq(SUBSET Nat) /\ Len(facts.lists) <= 3
  /\ facts.asks \subseteq Bundles /\ facts.whole \subseteq Bundles
  /\ facts.still \in BOOLEAN

\* A page whose lease is held.
Connected(p, v, i) ==
  /\ version = [q \in Pages |-> IF q = p THEN v ELSE None]
  /\ gen = [q \in Pages |-> IF q = p THEN 1 ELSE 0] /\ current = gen
  /\ hidden = [q \in Pages |-> FALSE] /\ disposed = [q \in Pages |-> q # p]
  /\ active = [q \in Pages |-> IF q = p THEN i ELSE None]
  /\ inv = [j \in Invs |-> IF j # i THEN Free ELSE
              [page |-> p, react |-> v, side |-> "live", host |-> "held", told |-> FALSE]]
  /\ closed = FALSE
  /\ reader = [pc |-> "idle", react |-> None, seen |-> {}, same |-> FALSE]

Init ==
  /\ \/ moving = "pages" /\ PeersInit
     \/ moving = "packages" /\ \E v \in Versions : Connected(CHOOSE p \in Pages : TRUE, v, CHOOSE i \in Invs : TRUE)
  /\ installed = Whole(Running) /\ target = None /\ facts = NoFacts
  /\ catalog = [n \in Names |-> IF moving = "pages" THEN Versioned(n) ELSE {Whole(Running)[n]}]

(***************************************************************************)
(* The registry and the disk, which are not Core's.                        *)
(***************************************************************************)

Published(b) == \A n \in Names : Whole(b)[n] \in catalog[n]
OnDisk == {b \in Bundles : installed = Whole(b)}
Reading == reader.pc = "reading"

\* A version is published; the packages of a release come in any order.
Publish(n) ==
  /\ \E v \in Versioned(n) \ catalog[n] : catalog' = [catalog EXCEPT ![n] = @ \cup {v}]
  /\ facts' = IF Reading THEN [facts EXCEPT !.still = FALSE] ELSE facts
  /\ UNCHANGED <<peers, moving, installed, target>>

\* An installation of a later bundle starts, and replaces the packages in any order.
Install ==
  /\ target = None
  /\ \E b \in Bundles : Published(b) /\ b > installed["bundle"] /\ target' = b
  /\ UNCHANGED <<peers, moving, installed, catalog, facts>>

Replace(n) ==
  /\ target # None /\ installed[n] # Whole(target)[n]
  /\ installed' = [installed EXCEPT ![n] = Whole(target)[n]]
  /\ target' = IF installed' = Whole(target) THEN None ELSE target
  /\ facts' = IF Reading THEN [facts EXCEPT !.still = FALSE, !.whole = @ \cup OnDisk'] ELSE facts
  /\ UNCHANGED <<peers, moving, catalog>>

(***************************************************************************)
(* read()                                                                  *)
(***************************************************************************)

\* The client's facts come first.  Where only the pages move, the rest is read at once.
Read ==
  /\ ReadStarts
  /\ \E asks \in IF moving = "pages" THEN {Bundles} ELSE {{}, Bundles} \cup {{b} : b \in Bundles \ {Running}} :
       facts' = [NoFacts EXCEPT !.asks = asks, !.whole = OnDisk,
                   !.got = IF moving = "pages" THEN [k \in 1..3 |-> installed[Inventory[k]]] ELSE @,
                   !.lists = IF moving = "pages" THEN [k \in 1..3 |-> catalog[Catalogs[k]]] ELSE @]
  /\ UNCHANGED <<moving, packages>>

\* One of the packages is observed, or it cannot be read.
Observed ==
  /\ Reading /\ Len(facts.got) < 3
  /\ \E v \in {installed[Inventory[Len(facts.got) + 1]], 0} : facts' = [facts EXCEPT !.got = Append(@, v)]
  /\ UNCHANGED <<peers, moving, packages>>

Wanting == Reading /\ Len(facts.got) = 3 /\ facts.asks # {} /\ Len(facts.lists) < 3

\* One of the catalogs is read.
Listed ==
  /\ Wanting
  /\ facts' = [facts EXCEPT !.lists = Append(@, catalog[Catalogs[Len(@) + 1]])]
  /\ UNCHANGED <<peers, moving, packages>>

\* The registry fails, answers for another package, or not in time: no candidates.
ListFails ==
  /\ Wanting
  /\ facts' = [facts EXCEPT !.lists = <<{}, {}, {}>>]
  /\ UNCHANGED <<peers, moving, packages>>

Over == Reading /\ Len(facts.got) = 3 /\ (facts.asks = {} \/ Len(facts.lists) = 3)

Seen == [n \in Names |-> facts.got[CHOOSE k \in 1..3 : Inventory[k] = n]]
In(n, v) == v \in facts.lists[CHOOSE k \in 1..3 : Catalogs[k] = n]

\* Mutant: the members need not be the ones that the bundle names.
AnyMembers == Seen["bundle"] # 0

\* The bundle on disk names exactly the members that were observed.
NamesItsMembers == Seen["bundle"] # 0 /\ Seen = Whole(Seen["bundle"])

\* completeness = 'complete', before the client's facts are looked at again.
Together ==
  /\ Seen["core"] = Whole(Running)["core"]
  /\ Seen["component"] \in Fits[Whole(Running)["core"]]
  /\ NamesItsMembers
  /\ reader.react \in Takes[Seen["bundle"]]

Complete == Together /\ Reported # None

\* Mutant: a member is taken for granted.
NamedOnly(b) == In("bundle", b)

\* The exact members of the bundle are in their catalogs.
Resolves(b) == \A n \in Names : In(n, Whole(b)[n])

\* The bundle goes forward, no member goes back.
Upgrades(b, from) == b > from["bundle"] /\ \A n \in Names : Whole(b)[n] >= from[n]

Fitting(b, react) == Contents[b]["component"] \in Fits[Contents[b]["core"]] /\ react \in Takes[b]

\* upgrades
Offers ==
  IF facts.asks = {} \/ ~Complete THEN {}
  ELSE {b \in facts.asks : Resolves(b) /\ Upgrades(b, Seen) /\ Fitting(b, reader.react)}

\* The client's facts are compared, and the declaration is returned.
Declare ==
  /\ Over /\ ReadEnds
  /\ facts' = NoFacts
  /\ UNCHANGED <<moving, packages>>

Reactivate == Reopen /\ facts' = NoFacts /\ UNCHANGED <<moving, packages>>

\* Where the packages move, the pages only leave.
Departs ==
  \/ \E p \in Pages : Leave(p)
  \/ \E i \in Invs : Withdrawal(i)

Next ==
  \/ moving = "pages" /\ PeersNext /\ UNCHANGED <<moving, packages, facts>>
  \/ moving = "packages" /\ Departs /\ UNCHANGED <<moving, packages, facts>>
  \/ moving = "packages" /\ (Install \/ \E n \in Names : Publish(n) \/ Replace(n))
  \/ Read \/ Observed \/ Listed \/ ListFails \/ Declare \/ Reactivate

Spec == Init /\ [][Next]_vars

\* Requests arrive or are lost, aborts and ends of responses get through.
FairSpec ==
  /\ Spec
  /\ \A i \in Invs : /\ WF_vars((Arrives(i) \/ Lost(i)) /\ UNCHANGED <<moving, packages, facts>>)
                     /\ WF_vars(Withdrawal(i) /\ UNCHANGED <<moving, packages, facts>>)
                     /\ WF_vars(SeesEnd(i) /\ UNCHANGED <<moving, packages, facts>>)

(***************************************************************************)
(* Properties.                                                             *)
(***************************************************************************)

\* A declaration says that the suite is complete only if there was a moment in its reading
\* at which exactly these packages were installed together: an installation under way, which
\* each read meets at another stage, is never taken for a suite.
CompleteWasReal == Complete => \E b \in facts.whole : Seen = Whole(b)

\* What is offered can be installed now, exactly as named, leads forward, and accepts the React
\* that the very same leases of all pages reported from the start to the end ("any change gives
\* unknown React ... and no upgrades"); a release half published is not offered.
OfferHolds ==
  \A b \in Offers :
    /\ Published(b)
    /\ \E a \in facts.whole : Upgrades(b, Whole(a))
    /\ Held = reader.seen /\ Reacts = {reader.react} /\ Fitting(b, reader.react)

\* A release in the registry that suits the suite on disk is offered, if nothing was replaced or
\* published meanwhile, no read failed and the leases stood still.
NothingMissed ==
  facts.still /\ 0 \notin {facts.got[k] : k \in 1..3} /\ {} \notin {facts.lists[k] : k \in DOMAIN facts.lists}
    /\ Reported # None /\ Running \in OnDisk /\ Fitting(Running, Reported) =>
    {b \in facts.asks : Published(b) /\ Upgrades(b, installed) /\ Fitting(b, Reported)} \subseteq Offers

\* No release takes a member back to a version that was given up before it, among the releases
\* that go with this Core.
NoWayBack ==
  \A a, d, b \in Bundles : \A n \in {"core", "component"} :
    (/\ a < d /\ d < b /\ Contents[b]["core"] = Contents[Running]["core"]
     /\ Contents[a][n] = Contents[b][n])
    => Contents[d][n] = Contents[b][n]

\* The declaration that is returned now: what it says of the suite and what it offers.
DeclarationIsTrue == Over => CompleteWasReal /\ OfferHolds /\ NothingMissed
=============================================================================
