----------------------- MODULE SuiteDeclarationProofs -----------------------
(***************************************************************************)
(* Proofs about ClientPeers and SuiteDeclaration: the leases follow the    *)
(* pages, and a declaration is true when it is returned, for any pages,    *)
(* requests, bundles and versions.                                         *)
(*                                                                         *)
(* Two invariants that meet in Declare.  One is about the leases: what a   *)
(* page's fields say of each other, and that a reader which nothing has    *)
(* disturbed still sees what it saw (PeersInv).  The other is about the    *)
(* packages: on the disk is a whole bundle or two of them are mixed, and   *)
(* what read() has met so far could be met at one moment, or is no bundle  *)
(* (DiskInv, FactsInv, PassingInv, ComingInv, WholeInv).                   *)
(***************************************************************************)
EXTENDS SuiteDeclaration, FiniteSetTheorems, TLAPS

(***************************************************************************)
(* The pages and their leases                                              *)
(***************************************************************************)

\* A request under way is one of a page.
OwnInv == \A i \in Invs : inv[i] # Free => inv[i].page \in Pages /\ inv[i].react \in Versions

\* What a page's fields say of each other.
PageInv ==
  \A p \in Pages :
    /\ disposed[p] => ~hidden[p] /\ gen[p] = 0
    /\ ~disposed[p] => version[p] \in Versions
    /\ disposed[p] \/ hidden[p] => current[p] = 0 /\ active[p] = None
    /\ ~disposed[p] /\ ~hidden[p] => current[p] = gen[p]
    /\ current[p] # 0 => active[p] # None

\* A reader that nothing has disturbed still sees what it saw.
ReaderInv ==
  reader.pc = "reading" /\ reader.same => ~closed /\ Held = reader.seen /\ reader.react = Known

PeersInv == PeersTypeOK /\ LiveIsWanted /\ ClosedHoldsNothing /\ OwnInv /\ PageInv /\ ReaderInv

LEMMA FreeIsInv == Free \in Inv /\ Free.side = "aborted" /\ Free.host = "ended" /\ Free.page = None
BY DEF Free, Inv

\* One React is reported by the leases exactly if Known says so.
LEMMA KnownReact ==
  ASSUME inv \in [Invs -> Inv], OwnInv, Known # None
  PROVE  ~closed /\ Known \in Versions /\ Reacts = {Known}
<1>1. ~closed /\ Cardinality(Reacts) = 1 /\ Known = CHOOSE v \in Versions : Reacts = {v}
  BY DEF Known
<1>2. IsFiniteSet(Reacts)
  <2>1. IsFiniteSet(Held)
    BY FS_Subset, PageAssumption DEF Held
  <2> DEFINE f == [i \in Held |-> inv[i].react]
  <2>2. f \in Surjection(Held, Reacts)
    BY DEF Surjection, Reacts
  <2> QED BY <2>1, <2>2, FS_Surjection
<1>3. PICK v : Reacts = {v}
  BY <1>1, <1>2, FS_Singleton
<1>4. v \in Versions
  <2>1. PICK i \in Invs : inv[i].host = "held" /\ v = inv[i].react
    BY <1>3 DEF Reacts, Held
  <2>2. inv[i] # Free
    BY <2>1, FreeIsInv
  <2> QED BY <2>1, <2>2 DEF OwnInv
<1> QED BY <1>1, <1>3, <1>4

\* The leases and what they report are the same if no request is held anew or let go.
LEMMA SameLeases ==
  ASSUME UNCHANGED closed,
         \A i \in Invs : /\ inv'[i].host = "held" <=> inv[i].host = "held"
                         /\ inv[i].host = "held" => inv'[i].react = inv[i].react
  PROVE  Held' = Held /\ Reacts' = Reacts /\ Known' = Known
<1>1. Held' = Held
  BY DEF Held
<1>2. Reacts' = Reacts
  BY <1>1 DEF Reacts, Held
<1> QED BY <1>1, <1>2 DEF Known

\* What the abort of a request at its page changes, and what it does not.
LEMMA AbortedInv ==
  ASSUME inv \in [Invs -> Inv], NEW i
  PROVE  LET is == Aborted(inv, i)
         IN  /\ is \in [Invs -> Inv]
             /\ \A j \in Invs :
                  /\ j # i => is[j] = inv[j]
                  /\ is[j].host = "held" <=> inv[j].host = "held"
                  /\ inv[j].host = "held" => is[j].react = inv[j].react
                  /\ is[j].side = "live" => j # i /\ inv[j].side = "live"
                  /\ is[j] # Free =>
                       inv[j] # Free /\ is[j].page = inv[j].page /\ is[j].react = inv[j].react
                  /\ inv[j] = Free => is[j] = Free
<1>1. CASE i \notin Invs
  BY <1>1 DEF Aborted
<1>2. CASE i \in Invs
  <2> DEFINE r == [inv[i] EXCEPT !.side = "aborted"]
  <2>1. inv[i] \in Inv /\ r \in Inv /\ r.side = "aborted" /\ r.host = inv[i].host
        /\ r.page = inv[i].page /\ r.react = inv[i].react
    BY <1>2 DEF Inv
  <2>2. Settled(r) = IF r.host \in {"refused", "ended"} THEN Free ELSE r
    BY <2>1 DEF Settled
  <2>3. Aborted(inv, i) = [inv EXCEPT ![i] = Settled(r)]
    BY <1>2 DEF Aborted
  <2> DEFINE s == Settled(r)
  <2>4. /\ s \in Inv /\ s.side = "aborted" /\ (s.host = "held" <=> inv[i].host = "held")
        /\ inv[i].host = "held" => s = r
        /\ s # Free => inv[i] # Free /\ s = r
        /\ inv[i] = Free => s = Free
    <3> HIDE DEF r
    <3> QED BY <2>1, <2>2, FreeIsInv
  <2>5. Aborted(inv, i) = [inv EXCEPT ![i] = s]
    BY <2>3
  <2> HIDE DEF r, s
  <2> QED BY <1>2, <2>1, <2>4, <2>5
<1> QED BY <1>1, <1>2

\* A step of a page neither holds nor ends a lease: reader and host see what they saw.
LEMMA PageStepIsUnseen ==
  ASSUME PeersInv, UNCHANGED <<closed, reader>>,
         \A i \in Invs : /\ inv'[i].host = "held" <=> inv[i].host = "held"
                         /\ inv[i].host = "held" => inv'[i].react = inv[i].react
  PROVE  ClosedHoldsNothing' /\ ReaderInv'
<1>1. Held' = Held /\ Known' = Known
  BY SameLeases
<1> QED BY <1>1 DEF PeersInv, ClosedHoldsNothing, ReaderInv

\* observe(): the page has one request for its connection, and none for another.
LEMMA ObserveKeeps ==
  ASSUME PeersInv, NEW p \in Pages, NEW next \in 0..MaxGen, NEW v \in Versions, Observe(p, next, v)
  PROVE  /\ inv' \in [Invs -> Inv] /\ current' \in [Pages -> 0..MaxGen]
         /\ active' \in [Pages -> Invs \cup {None, "spent"}]
         /\ current'[p] = next /\ (next # 0 => active'[p] # None)
         /\ \A q \in Pages : q # p => current'[q] = current[q] /\ active'[q] = active[q]
         /\ OwnInv'
         /\ \A i \in Invs :
              /\ inv'[i].host = "held" <=> inv[i].host = "held"
              /\ inv[i].host = "held" => inv'[i].react = inv[i].react
              /\ inv'[i].side = "live" =>
                   IF inv'[i].page = p THEN active'[p] = i /\ next # 0 ELSE inv'[i] = inv[i]
<1> USE DEF PeersInv, PeersTypeOK
<1>l. \A i \in Invs : inv[i].side = "live" =>
        inv[i].page \in Pages /\ active[inv[i].page] = i /\ current[inv[i].page] # 0
  BY FreeIsInv DEF LiveIsWanted, OwnInv
<1>1. CASE next = current[p]
  <2>1. UNCHANGED <<current, active, inv>>
    BY <1>1 DEF Observe
  <2> QED BY <1>1, <1>l, <2>1 DEF OwnInv, PageInv
<1>2. CASE next # current[p]
  <2> DEFINE is == Aborted(inv, active[p])
  <2>a. /\ is \in [Invs -> Inv]
        /\ \A j \in Invs :
             /\ is[j].host = "held" <=> inv[j].host = "held"
             /\ inv[j].host = "held" => is[j].react = inv[j].react
             /\ is[j].side = "live" => j # active[p] /\ inv[j].side = "live" /\ is[j] = inv[j]
             /\ is[j] # Free => is[j].page \in Pages /\ is[j].react \in Versions
    BY AbortedInv DEF OwnInv
  <2>b. \A j \in Invs : is[j].side = "live" => is[j].page # p
    BY <1>l, <2>a
  <2>c. current' = [current EXCEPT ![p] = next]
    BY <1>2 DEF Observe
  <2>1. CASE next = 0
    <3>1. active' = [active EXCEPT ![p] = None] /\ inv' = is
      BY <1>2, <2>1 DEF Observe
    <3> HIDE DEF is
    <3> QED BY <2>1, <2>a, <2>b, <2>c, <3>1 DEF OwnInv
  <2>2. CASE next # 0
    <3> DEFINE r == [page |-> p, react |-> v, side |-> "live", host |-> "sent", told |-> FALSE]
    <3>1. PICK i \in Invs : /\ inv[i] = Free /\ inv' = [is EXCEPT ![i] = r]
                            /\ active' = [active EXCEPT ![p] = i]
      BY <1>2, <2>2 DEF Observe
    <3>2. r \in Inv /\ r.page = p /\ r.react = v /\ r.side = "live" /\ r.host = "sent"
      BY DEF Inv
    <3>3. i # None
      BY PageAssumption
    <3> HIDE DEF is, r
    <3>4. \A j \in Invs : inv'[j] = IF j = i THEN r ELSE is[j]
      BY <2>a, <3>1
    <3>5. inv' \in [Invs -> Inv] /\ OwnInv'
      BY <2>a, <3>1, <3>2, <3>4 DEF OwnInv
    <3>6. \A j \in Invs :
              /\ inv'[j].host = "held" <=> inv[j].host = "held"
              /\ inv[j].host = "held" => inv'[j].react = inv[j].react
              /\ inv'[j].side = "live" =>
                   IF inv'[j].page = p THEN active'[p] = j /\ next # 0 ELSE inv'[j] = inv[j]
      BY <2>2, <2>a, <2>b, <3>1, <3>2, <3>4, FreeIsInv
    <3> QED BY <2>2, <2>c, <3>1, <3>3, <3>5, <3>6
  <2> QED BY <2>1, <2>2
<1> QED BY <1>1, <1>2

\* A page that observes, after whatever it has changed of its own.
LEMMA ObserverStep ==
  ASSUME PeersInv, NEW p \in Pages, NEW g \in 0..MaxGen, NEW v \in Versions, Observe(p, g, v),
         UNCHANGED <<closed, reader>>,
         version' = [version EXCEPT ![p] = v], gen' = [gen EXCEPT ![p] = g],
         hidden' = [hidden EXCEPT ![p] = FALSE], disposed' = [disposed EXCEPT ![p] = FALSE]
  PROVE  PeersInv'
<1> USE DEF PeersInv
<1>1. PeersTypeOK'
  BY ObserveKeeps DEF PeersTypeOK
<1>2. ClosedHoldsNothing' /\ ReaderInv'
  BY ObserveKeeps, PageStepIsUnseen
<1>3. PageInv'
  BY ObserveKeeps DEF PageInv, PeersTypeOK
<1>4. LiveIsWanted'
  <2> SUFFICES ASSUME NEW i \in Invs, inv'[i].side = "live"
               PROVE  LET q == inv'[i].page
                      IN  /\ active'[q] = i /\ ~disposed'[q] /\ ~hidden'[q]
                          /\ gen'[q] # 0 /\ current'[q] = gen'[q]
    BY DEF LiveIsWanted
  <2>1. CASE inv'[i].page = p
    BY <2>1, ObserveKeeps DEF PeersTypeOK
  <2>2. CASE inv'[i].page # p
    <3>1. inv'[i] = inv[i] /\ inv[i].side = "live" /\ inv[i].page \in Pages
      BY <2>2, ObserveKeeps, FreeIsInv DEF OwnInv
    <3> QED BY <2>2, <3>1, ObserveKeeps DEF PeersTypeOK, LiveIsWanted
  <2> QED BY <2>1, <2>2
<1> QED BY <1>1, <1>2, <1>3, <1>4, ObserveKeeps

\* A page that lets go of its request, if it has one.
LEMMA LetsGo ==
  ASSUME PeersInv, NEW p \in Pages, inv' = Aborted(inv, active[p])
  PROVE  /\ inv' \in [Invs -> Inv] /\ OwnInv'
         /\ \A i \in Invs :
              /\ inv'[i].host = "held" <=> inv[i].host = "held"
              /\ inv[i].host = "held" => inv'[i].react = inv[i].react
              /\ inv'[i].side = "live" =>
                   inv'[i] = inv[i] /\ inv[i].page \in Pages /\ inv[i].page # p
BY AbortedInv, FreeIsInv DEF PeersInv, PeersTypeOK, OwnInv, LiveIsWanted

\* What the pages do.
LEMMA PagesStep ==
  ASSUME PeersInv, NEW p \in Pages, Load(p) \/ Generation(p) \/ Hide(p) \/ Show(p) \/ Leave(p)
  PROVE  PeersInv'
<1> USE DEF PeersInv
<1>1. CASE Load(p)
  <2>1. PICK v \in Versions, g \in 0..MaxGen :
          version' = [version EXCEPT ![p] = v] /\ gen' = [gen EXCEPT ![p] = g] /\ Observe(p, g, v)
    BY <1>1 DEF Load
  <2> QED BY <1>1, <2>1, ObserverStep DEF Load
<1>2. CASE Generation(p)
  <2>1. PICK g \in 0..MaxGen :
          /\ gen' = [gen EXCEPT ![p] = g]
          /\ IF hidden[p] THEN UNCHANGED <<current, active, inv>> ELSE Observe(p, g, version[p])
    BY <1>2 DEF Generation
  <2>2. CASE hidden[p]
    <3>1. PeersTypeOK' /\ OwnInv' /\ PageInv'
      BY <1>2, <2>1, <2>2 DEF Generation, PeersTypeOK, OwnInv, PageInv
    <3>2. ClosedHoldsNothing' /\ ReaderInv'
      BY <1>2, <2>1, <2>2, PageStepIsUnseen DEF Generation
    <3>3. LiveIsWanted'
      BY <1>2, <2>1, <2>2, FreeIsInv DEF Generation, LiveIsWanted, OwnInv, PeersTypeOK
    <3> QED BY <3>1, <3>2, <3>3
  <2>3. CASE ~hidden[p]
    <3>1. /\ version' = [version EXCEPT ![p] = version[p]] /\ version[p] \in Versions
          /\ hidden' = [hidden EXCEPT ![p] = FALSE] /\ disposed' = [disposed EXCEPT ![p] = FALSE]
      BY <1>2, <2>3 DEF Generation, PeersTypeOK, PageInv
    <3> QED BY <1>2, <2>1, <2>3, <3>1, ObserverStep DEF Generation
  <2> QED BY <2>2, <2>3
<1>3. CASE Show(p)
  <2>1. /\ version' = [version EXCEPT ![p] = version[p]] /\ version[p] \in Versions
        /\ gen' = [gen EXCEPT ![p] = gen[p]] /\ gen[p] \in 0..MaxGen
        /\ disposed' = [disposed EXCEPT ![p] = FALSE]
    BY <1>3 DEF Show, PeersTypeOK, PageInv
  <2> QED BY <1>3, <2>1, ObserverStep DEF Show
<1>4. CASE Hide(p) \/ Leave(p)
  <2>1. /\ inv' = Aborted(inv, active[p]) /\ active' = [active EXCEPT ![p] = None]
        /\ current' = [current EXCEPT ![p] = 0] /\ UNCHANGED <<closed, reader>>
        /\ ~disposed[p]
    BY <1>4 DEF Hide, Leave
  <2>2. \/ UNCHANGED <<version, gen, disposed>> /\ hidden' = [hidden EXCEPT ![p] = TRUE]
        \/ /\ version' = [version EXCEPT ![p] = None] /\ gen' = [gen EXCEPT ![p] = 0]
           /\ disposed' = [disposed EXCEPT ![p] = TRUE] /\ hidden' = [hidden EXCEPT ![p] = FALSE]
    BY <1>4 DEF Hide, Leave
  <2>3. PeersTypeOK'
    <3>1. 0 \in 0..MaxGen
      BY PageAssumption
    <3>2. active' \in [Pages -> Invs \cup {None, "spent"}] /\ current' \in [Pages -> 0..MaxGen]
      BY <2>1, <3>1 DEF PeersTypeOK
    <3>3. /\ version' \in [Pages -> Versions \cup {None}] /\ gen' \in [Pages -> 0..MaxGen]
          /\ hidden' \in [Pages -> BOOLEAN] /\ disposed' \in [Pages -> BOOLEAN]
      BY <2>2, <3>1 DEF PeersTypeOK
    <3> QED BY <2>1, <3>2, <3>3, LetsGo DEF PeersTypeOK
  <2>4. PageInv'
    BY <2>1, <2>2 DEF PageInv, PeersTypeOK
  <2>5. ClosedHoldsNothing' /\ ReaderInv'
    BY <2>1, LetsGo, PageStepIsUnseen
  <2>6. LiveIsWanted'
    BY <2>1, <2>2, LetsGo DEF LiveIsWanted, PeersTypeOK
  <2> QED BY <2>1, <2>3, <2>4, <2>5, <2>6, LetsGo
<1> QED BY <1>1, <1>2, <1>3, <1>4

\* A page whose request failed has aborted it and does not ask again.
LEMMA FailedStep ==
  ASSUME PeersInv, NEW i \in Invs, inv[i].side = "live", Failed(i)
  PROVE  PeersInv'
<1> USE DEF PeersInv
<1> DEFINE p == inv[i].page
<1>1. p \in Pages /\ active[p] = i /\ ~disposed[p] /\ ~hidden[p]
  BY FreeIsInv DEF OwnInv, LiveIsWanted
<1>2. inv' = Aborted(inv, active[p]) /\ active' = [active EXCEPT ![p] = "spent"]
      /\ UNCHANGED <<page, closed, reader>>
  BY <1>1 DEF Failed
<1> HIDE DEF p
<1>3. ClosedHoldsNothing' /\ ReaderInv'
  BY <1>1, <1>2, LetsGo, PageStepIsUnseen
<1>4. PeersTypeOK' /\ PageInv'
  BY <1>1, <1>2, LetsGo, PageAssumption DEF PeersTypeOK, PageInv, page
<1>5. LiveIsWanted'
  BY <1>1, <1>2, LetsGo DEF LiveIsWanted, PeersTypeOK, page
<1> QED BY <1>1, <1>2, <1>3, <1>4, <1>5, LetsGo

\* What the host makes of a request: the page keeps it, or both sides are done with it.
LEMMA HostStep ==
  ASSUME PeersInv, UNCHANGED <<page, active, closed>>,
         \A i \in Invs : inv'[i] # inv[i] =>
           /\ \/ inv'[i] = Free /\ inv[i].side = "aborted"
              \/ /\ inv'[i] # Free /\ inv[i] # Free /\ inv'[i].page = inv[i].page
                 /\ inv'[i].react = inv[i].react /\ inv'[i].side = inv[i].side
           /\ inv'[i].host = "held" => ~closed,
         inv' \in [Invs -> Inv], reader' \in Reader,
         \/ UNCHANGED reader /\ \A i \in Invs : inv'[i].host = "held" <=> inv[i].host = "held"
         \/ reader'.same = FALSE
  PROVE  PeersInv'
<1> USE DEF PeersInv
<1>1. PeersTypeOK' /\ PageInv'
  BY DEF PeersTypeOK, PageInv, page
<1>2. OwnInv' /\ LiveIsWanted'
  BY FreeIsInv DEF OwnInv, LiveIsWanted, page
<1>3. ClosedHoldsNothing'
  BY DEF ClosedHoldsNothing, Held
<1>4. ReaderInv'
  <2>1. CASE reader'.same = FALSE
    BY <2>1 DEF ReaderInv
  <2>2. CASE /\ UNCHANGED reader
             /\ \A i \in Invs : inv'[i].host = "held" <=> inv[i].host = "held"
    <3>1. \A i \in Invs : inv[i].host = "held" => inv'[i].react = inv[i].react
      BY <2>2, FreeIsInv
    <3> QED BY <2>2, <3>1, PageStepIsUnseen
  <2> QED BY <2>1, <2>2
<1> QED BY <1>1, <1>2, <1>3, <1>4

\* What is left of a request that the host is done with.
LEMMA SettledInv ==
  ASSUME NEW r \in Inv
  PROVE  /\ Settled(r) \in Inv
         /\ \/ Settled(r) = r
            \/ Settled(r) = Free /\ r.side = "aborted" /\ r.host \in {"refused", "ended"}
<1>1. CASE r.side = "aborted" /\ r.host \in {"refused", "ended"}
  BY <1>1, FreeIsInv DEF Settled
<1>2. CASE ~(r.side = "aborted" /\ r.host \in {"refused", "ended"})
  BY <1>2 DEF Settled
<1> QED BY <1>1, <1>2

\* A request that is replaced by what is left of another form of it.
LEMMA Replaced ==
  ASSUME PeersInv, NEW i \in Invs, NEW r \in Inv, inv[i] # Free, inv' = [inv EXCEPT ![i] = Settled(r)],
         r.page = inv[i].page, r.react = inv[i].react, r.side = inv[i].side,
         r.host = "held" => ~closed,
         UNCHANGED <<page, active, closed>>, reader' \in Reader,
         \/ UNCHANGED reader /\ r.host # "held" /\ inv[i].host # "held"
         \/ reader'.same = FALSE
  PROVE  PeersInv'
<1> DEFINE s == Settled(r)
<1>1. s \in Inv /\ (s = r \/ (s = Free /\ r.side = "aborted" /\ r.host \in {"refused", "ended"}))
  BY SettledInv
<1>2. inv' = [inv EXCEPT ![i] = s]
  OBVIOUS
<1> HIDE DEF s
<1>3. inv[i].page # None
  BY PageAssumption DEF PeersInv, OwnInv
<1>4. r # Free
  BY <1>3, FreeIsInv
<1>5. inv' \in [Invs -> Inv] /\ \A j \in Invs : inv'[j] = IF j = i THEN s ELSE inv[j]
  BY <1>1, <1>2 DEF PeersInv, PeersTypeOK
<1> QED BY <1>1, <1>4, <1>5, FreeIsInv, HostStep

\* The host.
LEMMA HostsStep ==
  ASSUME PeersInv, NEW i \in Invs, Arrives(i) \/ Lost(i) \/ SignalAborts(i) \/ BodyCancelled(i)
  PROVE  PeersInv'
<1>1. inv[i] \in Inv /\ reader \in Reader /\ inv \in [Invs -> Inv]
  BY DEF PeersInv, PeersTypeOK
<1>b. [reader EXCEPT !.same = FALSE] \in Reader /\ [reader EXCEPT !.same = FALSE].same = FALSE
  BY <1>1 DEF Reader
<1>2. CASE Arrives(i)
  <2>0. inv[i] # Free /\ inv[i].host = "sent"
    BY <1>2, FreeIsInv DEF Arrives
  <2>1. CASE closed \/ inv[i].told
    <3> DEFINE r == [inv[i] EXCEPT !.host = "refused"]
    <3>1. r \in Inv /\ r.page = inv[i].page /\ r.react = inv[i].react /\ r.side = inv[i].side
          /\ r.host = "refused"
      BY <1>1 DEF Inv
    <3>2. inv' = [inv EXCEPT ![i] = Settled(r)] /\ UNCHANGED <<reader, page, active, closed>>
      BY <1>2, <2>1 DEF Arrives
    <3> HIDE DEF r
    <3> QED BY <1>1, <2>0, <3>1, <3>2, Replaced
  <2>2. CASE ~closed /\ ~inv[i].told
    <3> DEFINE r == [inv[i] EXCEPT !.host = "held"]
    <3>1. r \in Inv /\ r.page = inv[i].page /\ r.react = inv[i].react /\ r.side = inv[i].side
          /\ r.host = "held"
      BY <1>1 DEF Inv
    <3>2. inv' = [inv EXCEPT ![i] = r] /\ reader' = [reader EXCEPT !.same = FALSE]
          /\ UNCHANGED <<page, active, closed>>
      BY <1>2, <2>2 DEF Arrives, Bump
    <3>3. Settled(r) = r
      BY <3>1 DEF Settled
    <3> HIDE DEF r
    <3> QED BY <1>1, <1>b, <2>0, <2>2, <3>1, <3>2, <3>3, Replaced
  <2> QED BY <2>1, <2>2
<1>3. CASE Lost(i)
  <2>1. inv' \in [Invs -> Inv] /\ \A j \in Invs : inv'[j] = IF j = i THEN Free ELSE inv[j]
    BY <1>1, <1>3, FreeIsInv DEF Lost
  <2> QED BY <1>1, <1>3, <2>1, FreeIsInv, HostStep DEF Lost
<1>4. CASE SignalAborts(i) /\ inv[i].host = "sent"
  <2> DEFINE r == [inv[i] EXCEPT !.told = TRUE]
  <2>1. r \in Inv /\ r.page = inv[i].page /\ r.react = inv[i].react /\ r.side = inv[i].side
        /\ r.host = "sent"
    BY <1>1, <1>4 DEF Inv
  <2>2. inv' = [inv EXCEPT ![i] = r] /\ UNCHANGED <<reader, page, active, closed>>
    BY <1>4 DEF SignalAborts
  <2>3. Settled(r) = r
    BY <2>1 DEF Settled
  <2> HIDE DEF r
  <2> QED BY <1>1, <1>4, <2>1, <2>2, <2>3, FreeIsInv, Replaced
<1>5. CASE BodyCancelled(i) \/ (SignalAborts(i) /\ inv[i].host = "held")
  <2>1. PICK told \in BOOLEAN : LET r == [inv[i] EXCEPT !.told = told, !.host = "ended"]
                                IN  inv' = [inv EXCEPT ![i] = Settled(r)]
    <3>1. CASE BodyCancelled(i)
      <4>1. [inv[i] EXCEPT !.told = inv[i].told, !.host = "ended"] = [inv[i] EXCEPT !.host = "ended"]
        BY <1>1 DEF Inv
      <4>2. inv[i].told \in BOOLEAN
        BY <1>1 DEF Inv
      <4> QED BY <3>1, <4>1, <4>2 DEF BodyCancelled, Finish
    <3>2. CASE SignalAborts(i) /\ inv[i].host = "held"
      <4>1. inv' = [[inv EXCEPT ![i].told = TRUE] EXCEPT ![i] = Settled([@ EXCEPT !.host = "ended"])]
        BY <3>2 DEF SignalAborts, Finish
      <4> QED BY <1>1, <4>1
    <3> QED BY <1>5, <3>1, <3>2
  <2> DEFINE r == [inv[i] EXCEPT !.told = told, !.host = "ended"]
  <2>2. r \in Inv /\ r.page = inv[i].page /\ r.react = inv[i].react /\ r.side = inv[i].side
        /\ r.host = "ended"
    BY <1>1 DEF Inv
  <2>3. inv' = [inv EXCEPT ![i] = Settled(r)]
    BY <2>1
  <2>4. inv[i].host = "held" /\ reader' = [reader EXCEPT !.same = FALSE]
        /\ UNCHANGED <<page, active, closed>>
    BY <1>5 DEF BodyCancelled, SignalAborts, Finish, Bump
  <2> HIDE DEF r
  <2> QED BY <1>1, <1>b, <2>2, <2>3, <2>4, FreeIsInv, Replaced
<1>6. SignalAborts(i) => inv[i].host \in {"sent", "held"}
  BY DEF SignalAborts
<1> QED BY <1>2, <1>3, <1>4, <1>5, <1>6

\* close(): every lease ends, and no other is taken.
LEMMA CloseStep == ASSUME PeersInv, Close PROVE PeersInv'
<1> USE DEF PeersInv
<1>1. inv' = [i \in Invs |-> IF i \in Held THEN Settled([inv[i] EXCEPT !.host = "ended"]) ELSE inv[i]]
      /\ closed' = TRUE /\ reader' = [reader EXCEPT !.same = FALSE] /\ UNCHANGED <<page, active>>
  BY DEF Close, Bump
<1>2. \A i \in Invs :
        /\ inv'[i] \in Inv /\ inv'[i].host # "held"
        /\ inv'[i] # Free => inv[i] # Free /\ inv'[i].page = inv[i].page /\ inv'[i].react = inv[i].react
                             /\ inv'[i].side = inv[i].side
  <2> SUFFICES ASSUME NEW i \in Invs
               PROVE  /\ inv'[i] \in Inv /\ inv'[i].host # "held"
                      /\ inv'[i] # Free =>
                           inv[i] # Free /\ inv'[i].page = inv[i].page /\ inv'[i].react = inv[i].react
                           /\ inv'[i].side = inv[i].side
    OBVIOUS
  <2>0. inv[i] \in Inv
    BY DEF PeersTypeOK
  <2>1. CASE i \notin Held
    BY <1>1, <2>0, <2>1 DEF Held
  <2>2. CASE i \in Held
    <3> DEFINE r == [inv[i] EXCEPT !.host = "ended"]
    <3>1. r \in Inv /\ r.page = inv[i].page /\ r.react = inv[i].react /\ r.side = inv[i].side
          /\ r.host = "ended"
      BY <2>0 DEF Inv
    <3>2. inv'[i] = Settled(r) /\ inv[i] # Free
      BY <1>1, <2>2, FreeIsInv DEF Held
    <3> HIDE DEF r
    <3> QED BY <3>1, <3>2, SettledInv, FreeIsInv
  <2> QED BY <2>1, <2>2
<1>3. PeersTypeOK' /\ PageInv' /\ reader'.same = FALSE
  BY <1>1, <1>2 DEF PeersTypeOK, PageInv, page, Reader
<1>4. OwnInv' /\ LiveIsWanted'
  BY <1>1, <1>2, FreeIsInv DEF OwnInv, LiveIsWanted, page
<1> QED BY <1>2, <1>3, <1>4 DEF ClosedHoldsNothing, Held, ReaderInv

\* The snapshots of a reader, and another activation of the plugin.
LEMMA ReaderStep == ASSUME PeersInv, ReadStarts \/ ReadEnds \/ Reopen PROVE PeersInv'
<1> USE DEF PeersInv
<1>1. CASE ReadStarts
  <2>1. /\ ~closed /\ UNCHANGED <<page, active, inv, closed>>
        /\ reader' = [pc |-> "reading", react |-> Known, seen |-> Held, same |-> TRUE]
    BY <1>1 DEF ReadStarts
  <2>2. Held' = Held /\ Known' = Known
    BY <2>1, SameLeases
  <2>3. Known \in Versions \cup {None} /\ Held \subseteq Invs
    BY KnownReact DEF PeersTypeOK, Held
  <2>4. reader' \in Reader
    BY <2>1, <2>3 DEF Reader
  <2>5. ReaderInv'
    BY <2>1, <2>2 DEF ReaderInv
  <2> QED
    BY <2>1, <2>2, <2>4, <2>5
    DEF PeersTypeOK, PageInv, OwnInv, LiveIsWanted, ClosedHoldsNothing, page
<1>2. CASE ReadEnds \/ Reopen
  <2>1. /\ UNCHANGED <<page, active, inv>> /\ (closed' => closed) /\ closed' \in BOOLEAN
        /\ reader' = [reader EXCEPT !.pc = "idle", !.react = None, !.seen = {}, !.same = FALSE]
    <3>1. CASE ReadEnds
      BY <3>1 DEF ReadEnds, PeersTypeOK
    <3>2. CASE Reopen
      BY <3>2 DEF Reopen
    <3> QED BY <1>2, <3>1, <3>2
  <2>2. reader' \in Reader /\ reader'.same = FALSE
    BY <2>1 DEF PeersTypeOK, Reader
  <2>3. Held' = Held
    BY <2>1 DEF Held
  <2> QED
    BY <2>1, <2>2, <2>3
    DEF PeersTypeOK, PageInv, OwnInv, LiveIsWanted, ClosedHoldsNothing, ReaderInv, page
<1> QED BY <1>1, <1>2

LEMMA PeersStep == ASSUME PeersInv, PeersNext PROVE PeersInv'
BY PagesStep, FailedStep, HostsStep, CloseStep
DEF PeersNext, SeesEnd, TransportFails, Withdrawal

LEMMA PeersUnchanged == ASSUME PeersInv, UNCHANGED peers PROVE PeersInv'
<1>1. Held' = Held /\ Known' = Known
  BY SameLeases DEF peers
<1> QED
  BY <1>1
  DEF PeersInv, PeersTypeOK, PageInv, OwnInv, LiveIsWanted, ClosedHoldsNothing, ReaderInv, peers

\* A plugin with no page, or with one page whose lease is held.
LEMMA PeersStart ==
  ASSUME Init
  PROVE  PeersInv
<1> USE DEF PeersInv
<1>0. [pc |-> "idle", react |-> None, seen |-> {}, same |-> FALSE] \in Reader
  BY DEF Reader
<1>1. CASE PeersInit
  <2>1. PeersTypeOK
    <3>1. 0 \in 0..MaxGen
      BY PageAssumption
    <3>2. inv \in [Invs -> Inv] /\ gen \in [Pages -> 0..MaxGen] /\ current \in [Pages -> 0..MaxGen]
      BY <1>1, <3>1, FreeIsInv DEF PeersInit
    <3> QED BY <1>0, <1>1, <3>2 DEF PeersInit, PeersTypeOK
  <2>2. PageInv /\ OwnInv
    BY <1>1 DEF PeersInit, PageInv, OwnInv
  <2>3. LiveIsWanted /\ ClosedHoldsNothing /\ ReaderInv
    BY <1>1, FreeIsInv DEF PeersInit, LiveIsWanted, ClosedHoldsNothing, ReaderInv
  <2> QED BY <2>1, <2>2, <2>3
<1>2. ASSUME NEW v \in Versions, NEW p \in Pages, NEW i \in Invs, Connected(p, v, i) PROVE PeersInv
  <2> DEFINE r == [page |-> p, react |-> v, side |-> "live", host |-> "held", told |-> FALSE]
  <2>1. r \in Inv /\ r.page = p /\ r.react = v /\ r.host = "held" /\ r # Free
    BY FreeIsInv DEF Inv
  <2>2. inv = [j \in Invs |-> IF j = i THEN r ELSE Free]
    BY <1>2 DEF Connected
  <2> HIDE DEF r
  <2>3. PeersTypeOK
    <3>1. 0 \in 0..MaxGen /\ 1 \in 0..MaxGen
      BY PageAssumption
    <3>2. gen \in [Pages -> 0..MaxGen] /\ current \in [Pages -> 0..MaxGen]
      BY <1>2, <3>1 DEF Connected
    <3>3. inv \in [Invs -> Inv]
      BY <2>1, <2>2, FreeIsInv
    <3> QED BY <1>0, <1>2, <3>2, <3>3 DEF Connected, PeersTypeOK
  <2>4. OwnInv /\ PageInv
    BY <1>2, <2>1, <2>2, FreeIsInv, PageAssumption DEF Connected, OwnInv, PageInv
  <2>5. LiveIsWanted
    <3>1. \A j \in Invs : inv[j].side = "live" => j = i /\ inv[j].page = p
      BY <2>1, <2>2, FreeIsInv
    <3>2. active[p] = i /\ ~disposed[p] /\ ~hidden[p] /\ gen[p] = 1 /\ current[p] = 1
      BY <1>2 DEF Connected
    <3> QED BY <3>1, <3>2 DEF LiveIsWanted
  <2> QED BY <1>2, <2>3, <2>4, <2>5 DEF Connected, ClosedHoldsNothing, ReaderInv
<1>3. (CHOOSE p \in Pages : TRUE) \in Pages /\ (CHOOSE i \in Invs : TRUE) \in Invs
  BY PageAssumption
<1> QED BY <1>1, <1>2, <1>3 DEF Init

(***************************************************************************)
(* The packages, and what read() has met                                   *)
(***************************************************************************)

\* The bundle installed last, or being installed.
Latest == IF target = None THEN installed["bundle"] ELSE target

\* The disk holds a whole bundle, or is on its way from one to a later one.
DiskInv ==
  /\ installed \in [Names -> Nat] /\ catalog \in [Names -> SUBSET Nat]
  /\ \A n \in Names : catalog[n] \subseteq Versioned(n)
  /\ target \in Bundles \cup {None} /\ moving \in {"pages", "packages"}
  /\ moving = "pages" => target = None
  /\ target = None => installed["bundle"] \in Bundles /\ installed = Whole(installed["bundle"])
  /\ target # None =>
       /\ installed # Whole(target)
       /\ \E a \in Bundles :
            a < target /\ \A n \in Names : installed[n] \in {Whole(a)[n], Whole(target)[n]}

Facts == [got : Seq(Nat), lists : Seq(SUBSET Nat), asks : SUBSET Bundles, whole : SUBSET Bundles,
          still : BOOLEAN]

\* What read() has found so far was found on the disk and in the registry, and is there still
\* if nothing has moved.
FactsInv ==
  /\ facts \in Facts /\ Len(facts.got) <= 3 /\ Len(facts.lists) <= 3
  /\ ~Reading => facts = NoFacts
  /\ Reading => OnDisk \subseteq facts.whole
  /\ facts.lists # <<>> => facts.asks # {} /\ Len(facts.got) = 3
  /\ \A k \in DOMAIN facts.got :
       /\ facts.got[k] # 0 => \E e \in Bundles : e <= Latest /\ facts.got[k] = Whole(e)[Inventory[k]]
       /\ facts.still => facts.got[k] \in {0, installed[Inventory[k]]}
  /\ \A k \in DOMAIN facts.lists :
       /\ facts.lists[k] \subseteq catalog[Catalogs[k]]
       /\ facts.still => facts.lists[k] \in {{}, catalog[Catalogs[k]]}

\* The version of a member that was observed.
Observation(k, n) == k \in DOMAIN facts.got /\ facts.got[k] = n

\* An installation that began to replace the bundle before the reading did: its component and
\* its core are not both met.
PassingInv ==
  Reading /\ target # None /\ installed["bundle"] # target /\ installed["bundle"] \notin facts.whole =>
    LET old == Whole(installed["bundle"])
    IN  Observation(1, old["component"]) =>
          installed["core"] # old["core"] /\ ~Observation(2, old["core"])

PackagesInv == DiskInv /\ FactsInv /\ PassingInv

LEMMA WholeType ==
  \A b \in Bundles :
    /\ b \in Nat \ {0} /\ Whole(b) \in [Names -> Nat \ {0}] /\ Whole(b)["bundle"] = b
    /\ \A n \in Names : Whole(b)[n] \in Versioned(n) /\ (n # "bundle" => Whole(b)[n] = Contents[b][n])
<1> SUFFICES ASSUME NEW b \in Bundles
             PROVE  /\ b \in Nat \ {0} /\ Whole(b) \in [Names -> Nat \ {0}] /\ Whole(b)["bundle"] = b
                    /\ \A n \in Names : Whole(b)[n] \in Versioned(n)
                                       /\ (n # "bundle" => Whole(b)[n] = Contents[b][n])
  OBVIOUS
<1>1. b \in Nat \ {0} /\ Contents[b] \in [{"core", "component"} -> Nat \ {0}]
  BY SuiteAssumption
<1>2. "bundle" \in Names /\ \A n \in Names : n # "bundle" => n \in {"core", "component"}
  BY DEF Names
<1>3. \A n \in Names : n # "bundle" => Contents[b][n] \in Nat \ {0}
  BY <1>1, <1>2
<1>4. \A n \in Names : Whole(b)[n] = IF n = "bundle" THEN b ELSE Contents[b][n]
  BY DEF Whole
<1>5. Whole(b) \in [Names -> Nat \ {0}]
  BY <1>1, <1>3 DEF Whole
<1>6. \A n \in Names : Whole(b)[n] \in Versioned(n)
  BY DEF Versioned
<1> QED
  BY <1>1, <1>2, <1>4, <1>5, <1>6

LEMMA VersionedType == \A n \in Names : Versioned(n) \subseteq Nat \ {0}
BY WholeType DEF Versioned

\* Three packages make the whole.
LEMMA SameWhole ==
  ASSUME NEW f \in [Names -> Nat], NEW g \in [Names -> Nat],
         f["bundle"] = g["bundle"], f["core"] = g["core"], f["component"] = g["component"]
  PROVE  f = g
BY DEF Names

\* What is on the disk is of the latest bundle or of one before it.
LEMMA LatestType ==
  ASSUME DiskInv
  PROVE  /\ Latest \in Bundles
         /\ \A n \in Names : /\ installed[n] \in Versioned(n) /\ installed[n] \in Nat \ {0}
                              /\ \E e \in Bundles : e <= Latest /\ installed[n] = Whole(e)[n]
<1>1. CASE target = None
  BY <1>1, WholeType DEF DiskInv, Latest, Names
<1>2. CASE target # None
  <2>1. target \in Bundles /\ Latest = target
    BY <1>2 DEF DiskInv, Latest
  <2>2. PICK a \in Bundles :
          a < target /\ \A n \in Names : installed[n] \in {Whole(a)[n], Whole(target)[n]}
    BY <1>2 DEF DiskInv
  <2>3. a \in Nat /\ target \in Nat /\ a <= target /\ target <= target
    BY <2>1, <2>2, WholeType
  <2>4. \A n \in Names : installed[n] \in Versioned(n) /\ installed[n] \in Nat \ {0}
    BY <2>1, <2>2, WholeType
  <2> QED BY <2>1, <2>2, <2>3, <2>4
<1> QED BY <1>1, <1>2

LEMMA Indices ==
  /\ \A k \in 1..3 : Inventory[k] \in Names /\ Catalogs[k] \in Names
  /\ Inventory[1] = "component" /\ Inventory[2] = "core" /\ Inventory[3] = "bundle"
  /\ NoFacts \in Facts /\ Len(NoFacts.got) = 0 /\ Len(NoFacts.lists) = 0 /\ NoFacts.lists = <<>>
  /\ DOMAIN NoFacts.got = {} /\ DOMAIN NoFacts.lists = {}
BY DEF Inventory, Catalogs, Names, NoFacts, Facts

\* Nothing of the packages changes.
LEMMA PackagesUnchanged ==
  ASSUME PackagesInv, UNCHANGED <<moving, packages, facts>>, reader'.pc = reader.pc
  PROVE  PackagesInv'
BY DEF PackagesInv, DiskInv, FactsInv, PassingInv, packages, Latest, Reading, OnDisk, Observation

\* The end of a reading, and another activation.
LEMMA ForgetsFacts ==
  ASSUME PackagesInv, UNCHANGED <<moving, packages>>, facts' = NoFacts, reader'.pc = "idle"
  PROVE  PackagesInv'
<1>1. DiskInv'
  BY DEF PackagesInv, DiskInv, packages
<1>2. FactsInv'
  BY Indices DEF FactsInv, Reading
<1> QED BY <1>1, <1>2 DEF PackagesInv, PassingInv, Reading

LEMMA PublishStep ==
  ASSUME PackagesInv, NEW n \in Names, Publish(n)
  PROVE  PackagesInv'
<1> USE DEF PackagesInv
<1>1. PICK v \in Versioned(n) : catalog' = [catalog EXCEPT ![n] = @ \cup {v}]
  BY DEF Publish
<1>2. /\ UNCHANGED <<reader, moving, installed, target>>
      /\ facts' = IF Reading THEN [facts EXCEPT !.still = FALSE] ELSE facts
  BY DEF Publish, peers
<1>3. /\ catalog' \in [Names -> SUBSET Nat]
      /\ \A m \in Names : catalog[m] \subseteq catalog'[m] /\ catalog'[m] \subseteq Versioned(m)
  BY <1>1, VersionedType DEF DiskInv
<1>4. DiskInv'
  BY <1>2, <1>3 DEF DiskInv
<1>5. Latest' = Latest /\ Reading' = Reading /\ OnDisk' = OnDisk
  BY <1>2 DEF Latest, Reading, OnDisk
<1>6. CASE Reading
  <2>1. /\ facts' \in Facts /\ facts'.got = facts.got /\ facts'.lists = facts.lists
        /\ facts'.asks = facts.asks /\ facts'.whole = facts.whole /\ facts'.still = FALSE
    BY <1>2, <1>6 DEF FactsInv, Facts
  <2>2. \A k \in DOMAIN facts.lists : Catalogs[k] \in Names
    BY Indices DEF FactsInv, Facts
  <2>3. FactsInv'
    BY <1>3, <1>5, <1>6, <2>1, <2>2 DEF FactsInv
  <2> QED BY <1>2, <1>4, <1>5, <2>1, <2>3 DEF PassingInv, Observation
<1>7. CASE ~Reading
  <2>1. facts' = NoFacts
    BY <1>2, <1>7 DEF FactsInv
  <2>2. FactsInv'
    BY <1>5, <1>7, <2>1, Indices DEF FactsInv
  <2> QED BY <1>4, <1>5, <1>7, <2>2 DEF PassingInv
<1> QED BY <1>6, <1>7

LEMMA InstallStep ==
  ASSUME PackagesInv, Install, moving = "packages"
  PROVE  PackagesInv'
<1> USE DEF PackagesInv
<1>1. PICK b \in Bundles : b > installed["bundle"] /\ target' = b
  BY DEF Install
<1>2. target = None /\ UNCHANGED <<reader, moving, installed, catalog, facts>>
  BY DEF Install, peers
<1>3. /\ installed["bundle"] \in Bundles /\ installed = Whole(installed["bundle"])
      /\ Latest = installed["bundle"] /\ b # None
  BY <1>2, SuiteAssumption DEF DiskInv, Latest
<1>4. DiskInv' /\ Latest' = b
  <2>1. installed # Whole(b)
    BY <1>1, <1>3, WholeType
  <2>2. installed["bundle"] < b
    BY <1>1, <1>3, WholeType
  <2> QED BY <1>1, <1>2, <1>3, <2>1, <2>2 DEF DiskInv, Latest
<1>5. FactsInv'
  <2>1. \A e \in Bundles : e <= Latest => e <= Latest'
    BY <1>1, <1>3, <1>4, WholeType
  <2> QED BY <1>2, <2>1 DEF FactsInv, Reading, OnDisk
<1>6. PassingInv'
  <2>1. Reading => installed["bundle"] \in facts.whole
    BY <1>3 DEF FactsInv, OnDisk
  <2> QED BY <1>2, <2>1 DEF PassingInv, Reading
<1> QED BY <1>4, <1>5, <1>6

LEMMA ReplaceStep ==
  ASSUME PackagesInv, NEW n \in Names, Replace(n), moving = "packages"
  PROVE  /\ PackagesInv' /\ Latest' = Latest /\ facts'.got = facts.got
         /\ facts.whole \subseteq facts'.whole
         /\ \A m \in Names : installed[m] = Whole(Latest)[m] => installed'[m] = Whole(Latest)[m]
<1> USE DEF PackagesInv
<1>1. /\ target # None /\ target \in Bundles /\ installed[n] # Whole(target)[n]
      /\ installed' = [installed EXCEPT ![n] = Whole(target)[n]]
      /\ target' = IF installed' = Whole(target) THEN None ELSE target
      /\ UNCHANGED <<reader, moving, catalog>> /\ Latest = target
  BY DEF Replace, peers, DiskInv, Latest
<1>2. PICK a \in Bundles :
        a < target /\ \A m \in Names : installed[m] \in {Whole(a)[m], Whole(target)[m]}
  BY <1>1 DEF DiskInv
<1>3. /\ installed' \in [Names -> Nat]
      /\ \A m \in Names : installed'[m] \in {Whole(a)[m], Whole(target)[m]}
      /\ \A m \in Names : installed[m] = Whole(target)[m] => installed'[m] = Whole(target)[m]
  BY <1>1, <1>2, WholeType DEF DiskInv
<1>4. DiskInv' /\ Latest' = Latest
  <2>1. Whole(target)["bundle"] = target /\ "bundle" \in Names
    BY <1>1, WholeType DEF Names
  <2>2. CASE installed' = Whole(target)
    <3>1. target' = None /\ installed'["bundle"] = target
      BY <1>1, <2>1, <2>2
    <3> QED BY <1>1, <1>3, <2>2, <3>1 DEF DiskInv, Latest
  <2>3. CASE installed' # Whole(target)
    BY <1>1, <1>2, <1>3, <2>3 DEF DiskInv, Latest
  <2> QED BY <2>2, <2>3
<1>5. CASE ~Reading
  <2>1. facts' = facts /\ facts = NoFacts /\ ~Reading'
    BY <1>1, <1>5 DEF Replace, FactsInv, Reading
  <2> QED BY <1>1, <1>3, <1>4, <2>1, Indices DEF FactsInv, PassingInv
<1>6. CASE Reading
  <2>0. OnDisk' \subseteq Bundles /\ Reading'
    BY <1>1, <1>6 DEF OnDisk, Reading
  <2>1. /\ facts' \in Facts /\ facts'.got = facts.got /\ facts'.lists = facts.lists
        /\ facts'.asks = facts.asks /\ facts'.whole = facts.whole \cup OnDisk'
        /\ facts'.still = FALSE
    BY <1>6, <2>0 DEF Replace, FactsInv, Facts
  <2>2. FactsInv'
    BY <1>1, <1>4, <1>6, <2>0, <2>1 DEF FactsInv
  <2>3. PassingInv'
    <3> SUFFICES ASSUME NEW b, b = installed'["bundle"], target' # None, b # target', b \notin facts'.whole
                 PROVE  Observation(1, Whole(b)["component"])' =>
                          installed'["core"] # Whole(b)["core"] /\ ~Observation(2, Whole(b)["core"])'
      BY DEF PassingInv, Observation
    <3>1. target' = target /\ n # "bundle" /\ installed'["bundle"] = installed["bundle"]
      BY <1>1, WholeType DEF Names, DiskInv
    <3>2. installed["bundle"] = a
      BY <1>1, <1>2, <3>1, WholeType DEF Names
    <3>3. installed["core"] # Whole(a)["core"] => installed'["core"] = installed["core"]
      BY <1>1, <1>2, WholeType DEF Names, DiskInv
    <3>4. installed["bundle"] \notin facts.whole
      BY <2>1, <3>1
    <3> QED BY <1>1, <1>6, <2>1, <3>1, <3>2, <3>3, <3>4 DEF PassingInv, Observation
  <2> QED BY <1>1, <1>3, <1>4, <2>1, <2>2, <2>3
<1> QED BY <1>5, <1>6

LEMMA ReadStep ==
  ASSUME PackagesInv, Read
  PROVE  /\ PackagesInv' /\ UNCHANGED <<installed, target>>
         /\ (facts'.got = <<>>) \/ (target = None /\ Len(facts'.got) = 3 /\
              \A k \in 1..3 : facts'.got[k] = installed[Inventory[k]])
<1> USE DEF PackagesInv
<1>1. PICK asks \in SUBSET Bundles :
        /\ moving = "pages" => asks = Bundles
        /\ facts' = [NoFacts EXCEPT !.asks = asks, !.whole = OnDisk,
                       !.got = IF moving = "pages" THEN [k \in 1..3 |-> installed[Inventory[k]]] ELSE @,
                       !.lists = IF moving = "pages" THEN [k \in 1..3 |-> catalog[Catalogs[k]]] ELSE @]
  <2>1. PICK asks \in IF moving = "pages" THEN {Bundles} ELSE {{}, Bundles} \cup {{b} : b \in Bundles \ {Running}} :
          facts' = [NoFacts EXCEPT !.asks = asks, !.whole = OnDisk,
                       !.got = IF moving = "pages" THEN [k \in 1..3 |-> installed[Inventory[k]]] ELSE @,
                       !.lists = IF moving = "pages" THEN [k \in 1..3 |-> catalog[Catalogs[k]]] ELSE @]
    BY DEF Read
  <2>2. asks \in SUBSET Bundles /\ (moving = "pages" => asks = Bundles)
    OBVIOUS
  <2> QED BY <2>1, <2>2
<1>2. UNCHANGED <<moving, installed, target, catalog>> /\ reader'.pc = "reading"
  BY DEF Read, ReadStarts, packages
<1>3. DiskInv' /\ Latest' = Latest /\ OnDisk' = OnDisk /\ OnDisk \subseteq Bundles
  BY <1>2 DEF DiskInv, Latest, OnDisk
<1>4. CASE moving # "pages"
  <2>1. facts' = [got |-> <<>>, lists |-> <<>>, asks |-> asks, whole |-> OnDisk, still |-> TRUE]
    BY <1>1, <1>4 DEF NoFacts
  <2>2. facts' \in Facts /\ DOMAIN facts'.got = {} /\ DOMAIN facts'.lists = {}
    BY <1>3, <2>1 DEF Facts
  <2>3. FactsInv'
    BY <1>2, <1>3, <2>1, <2>2 DEF FactsInv, Reading
  <2>4. PassingInv'
    BY <2>2 DEF PassingInv, Observation
  <2> QED BY <1>2, <1>3, <2>1, <2>3, <2>4
<1>5. CASE moving = "pages"
  <2> DEFINE g == [k \in 1..3 |-> installed[Inventory[k]]]
             l == [k \in 1..3 |-> catalog[Catalogs[k]]]
  <2>1. facts' = [got |-> g, lists |-> l, asks |-> Bundles, whole |-> OnDisk, still |-> TRUE]
    BY <1>1, <1>5 DEF NoFacts
  <2>2. /\ g \in Seq(Nat) /\ Len(g) = 3 /\ DOMAIN g = 1..3
        /\ l \in Seq(SUBSET Nat) /\ Len(l) = 3 /\ DOMAIN l = 1..3 /\ l # <<>>
    BY Indices DEF DiskInv
  <2>3. \A k \in 1..3 : g[k] = installed[Inventory[k]] /\ l[k] = catalog[Catalogs[k]]
    OBVIOUS
  <2>4. target = None /\ target' = None
    BY <1>2, <1>5 DEF DiskInv
  <2> HIDE DEF g, l
  <2>5. facts' \in Facts /\ Bundles # {}
    BY <1>3, <2>1, <2>2, SuiteAssumption DEF Facts
  <2>6. FactsInv'
    <3>1. \A k \in 1..3 : \E e \in Bundles : e <= Latest /\ g[k] = Whole(e)[Inventory[k]]
      BY <2>3, Indices, LatestType
    <3>2. /\ facts'.got = g /\ facts'.lists = l /\ facts'.asks # {} /\ facts'.whole = OnDisk
          /\ Len(g) <= 3 /\ Len(l) <= 3
      BY <2>1, <2>2, <2>5
    <3>3. \A k \in DOMAIN l : l[k] \subseteq catalog'[Catalogs[k]] /\ l[k] = catalog'[Catalogs[k]]
      BY <1>2, <2>2, <2>3
    <3>4. \A k \in DOMAIN g : g[k] = installed'[Inventory[k]]
      BY <1>2, <2>2, <2>3
    <3> QED BY <1>2, <1>3, <2>2, <2>5, <3>1, <3>2, <3>3, <3>4 DEF FactsInv, Reading
  <2> QED BY <1>2, <1>3, <2>1, <2>2, <2>3, <2>4, <2>6 DEF PassingInv
<1> QED BY <1>4, <1>5

\* One more of three.
LEMMA OneMore ==
  ASSUME NEW S, NEW s \in Seq(S), Len(s) < 3, NEW x \in S
  PROVE  LET t == Append(s, x)
         IN  \E len \in {0, 1, 2} :
               /\ len = Len(s) /\ DOMAIN s = 1..len /\ len + 1 \in 1..3
               /\ t \in Seq(S) /\ Len(t) = len + 1 /\ Len(t) <= 3 /\ DOMAIN t = 1..(len + 1)
               /\ \A k \in 1..(len + 1) : t[k] = IF k = len + 1 THEN x ELSE s[k]
<1> DEFINE t == Append(s, x)
<1>1. Len(s) \in Nat /\ Len(s) < 3 /\ DOMAIN s = 1..Len(s)
  OBVIOUS
<1>2. /\ t \in Seq(S) /\ Len(t) = Len(s) + 1 /\ DOMAIN t = 1..(Len(s) + 1)
      /\ \A k \in 1..(Len(s) + 1) : t[k] = IF k = Len(s) + 1 THEN x ELSE s[k]
  OBVIOUS
<1> HIDE DEF t
<1>3. PICK len \in Nat : len = Len(s)
  BY <1>1
<1>4. len = 0 \/ len = 1 \/ len = 2
  BY <1>1, <1>3
<1>5. len + 1 \in 1..3 /\ len + 1 <= 3
  BY <1>4
<1> QED BY <1>1, <1>2, <1>3, <1>4, <1>5 DEF t

\* A package is observed as it is, or not at all.
LEMMA ObservedStep ==
  ASSUME PackagesInv, Observed
  PROVE  /\ PackagesInv' /\ UNCHANGED <<reader, installed, target>> /\ facts'.whole = facts.whole
         /\ Reading /\ \E v \in {installed[Inventory[Len(facts.got) + 1]], 0} :
              /\ facts'.got = Append(facts.got, v) /\ facts.got \in Seq(Nat)
              /\ v \in Nat /\ Len(facts.got) < 3
<1> USE DEF PackagesInv
<1>1. PICK v \in {installed[Inventory[Len(facts.got) + 1]], 0} : facts' = [facts EXCEPT !.got = Append(@, v)]
  BY DEF Observed
<1>2. Reading /\ Len(facts.got) < 3 /\ UNCHANGED <<reader, moving, installed, target, catalog>>
  BY DEF Observed, peers, packages
<1>3. facts.got \in Seq(Nat) /\ facts \in Facts
  BY DEF FactsInv, Facts
<1>4. v \in Nat
  <2>1. Len(facts.got) + 1 \in 1..3
    BY <1>2, <1>3, OneMore
  <2>2. installed[Inventory[Len(facts.got) + 1]] \in Nat
    BY <2>1, Indices, LatestType
  <2> QED BY <1>1, <2>2
<1>5. PICK len \in {0, 1, 2} :
        /\ len = Len(facts.got) /\ DOMAIN facts.got = 1..len /\ len + 1 \in 1..3
        /\ Append(facts.got, v) \in Seq(Nat) /\ Len(Append(facts.got, v)) = len + 1
        /\ Len(Append(facts.got, v)) <= 3 /\ DOMAIN Append(facts.got, v) = 1..(len + 1)
        /\ \A k \in 1..(len + 1) : Append(facts.got, v)[k] = IF k = len + 1 THEN v ELSE facts.got[k]
  BY <1>2, <1>3, <1>4, OneMore
<1>6. /\ facts' \in Facts /\ facts'.got = Append(facts.got, v) /\ facts'.lists = facts.lists
      /\ facts'.asks = facts.asks /\ facts'.whole = facts.whole /\ facts'.still = facts.still
      /\ facts'.got \in Seq(Nat) /\ Len(facts'.got) = len + 1
      /\ Len(facts'.got) <= 3 /\ DOMAIN facts'.got = 1..(len + 1) /\ facts'.got[len + 1] = v
      /\ \A k \in 1..len : facts'.got[k] = facts.got[k]
  <2>1. /\ facts' \in Facts /\ facts'.got = Append(facts.got, v) /\ facts'.lists = facts.lists
        /\ facts'.asks = facts.asks /\ facts'.whole = facts.whole /\ facts'.still = facts.still
    BY <1>1, <1>3, <1>5 DEF Facts
  <2>2. len + 1 \in 1..(len + 1) /\ \A k \in 1..len : k \in 1..(len + 1) /\ k # len + 1
    OBVIOUS
  <2> QED BY <1>5, <2>1, <2>2
<1>7. DiskInv' /\ Latest' = Latest /\ Reading' = Reading /\ OnDisk' = OnDisk
  BY <1>2 DEF DiskInv, Latest, Reading, OnDisk
<1>8. FactsInv'
  <2>1. \A k \in DOMAIN facts'.got :
          /\ facts'.got[k] # 0 =>
               \E e \in Bundles : e <= Latest /\ facts'.got[k] = Whole(e)[Inventory[k]]
          /\ facts.still => facts'.got[k] \in {0, installed[Inventory[k]]}
    <3> TAKE k \in DOMAIN facts'.got
    <3>1. CASE k \in 1..len
      BY <1>5, <1>6, <3>1 DEF FactsInv
    <3>2. CASE k = len + 1
      <4>1. facts'.got[k] \in {0, installed[Inventory[k]]} /\ Inventory[k] \in Names
        BY <1>1, <1>5, <1>6, <3>2, Indices
      <4> QED BY <4>1, LatestType
    <3>3. k \in 1..len \/ k = len + 1
      BY <1>6
    <3> QED BY <3>1, <3>2, <3>3
  <2>2. facts.lists = <<>>
    <3>1. Len(facts.got) # 3
      <4>1. \A n : n < 3 => n # 3
        OBVIOUS
      <4> QED BY <1>2, <4>1, Zenon
    <3> QED BY <3>1 DEF FactsInv
  <2> QED BY <1>2, <1>6, <1>7, <2>1, <2>2, Indices DEF FactsInv
<1>9. PassingInv'
  <2> SUFFICES ASSUME NEW b, b = installed["bundle"], target # None, b # target, b \notin facts.whole,
                      Observation(1, Whole(b)["component"])'
               PROVE  installed["core"] # Whole(b)["core"] /\ ~Observation(2, Whole(b)["core"])'
    BY <1>2, <1>6 DEF PassingInv, Observation
  <2>1. b \in Bundles /\ Whole(b) \in [Names -> Nat \ {0}] /\ "core" \in Names /\ "component" \in Names
    <3>1. PICK a \in Bundles : \A n \in Names : installed[n] \in {Whole(a)[n], Whole(target)[n]}
      BY DEF DiskInv
    <3>2. target \in Bundles
      BY DEF DiskInv
    <3> QED BY <3>1, <3>2, WholeType DEF Names
  <2>2. facts'.got[1] = Whole(b)["component"]
    BY DEF Observation
  <2>3. CASE len = 0
    <3>0. len + 1 = 1 /\ DOMAIN facts'.got = 1..1 /\ facts'.got[1] = v
      BY <1>6, <2>3
    <3>1. v = Whole(b)["component"] /\ v = installed["component"]
      BY <1>1, <1>5, <2>1, <2>2, <3>0, Indices
    <3>2. installed # Whole(b)
      BY <1>2, <2>1 DEF FactsInv, OnDisk
    <3>3. installed["core"] # Whole(b)["core"]
      BY <2>1, <3>1, <3>2, SameWhole, WholeType DEF DiskInv
    <3> QED BY <3>0, <3>3 DEF Observation
  <2>4. CASE len # 0
    <3>1. Observation(1, Whole(b)["component"])
      <4>1. 1 \in 1..len
        BY <2>4
      <4> QED BY <1>5, <1>6, <2>2, <4>1 DEF Observation
    <3>2. installed["core"] # Whole(b)["core"] /\ ~Observation(2, Whole(b)["core"])
      BY <1>2, <3>1 DEF PassingInv
    <3>3. CASE len = 1
      <4>1. len + 1 = 2 /\ facts'.got[2] = v
        BY <1>6, <3>3
      <4>2. v # Whole(b)["core"]
        BY <1>1, <1>5, <2>1, <3>2, <4>1, Indices
      <4> QED BY <3>2, <4>1, <4>2 DEF Observation
    <3>4. CASE len = 2
      <4>1. 2 \in 1..len /\ 2 \in DOMAIN facts.got /\ facts'.got[2] = facts.got[2]
        BY <1>5, <1>6, <3>4
      <4> QED BY <3>2, <4>1 DEF Observation
    <3> QED BY <2>4, <3>3, <3>4
  <2> QED BY <2>3, <2>4
<1> QED BY <1>1, <1>2, <1>3, <1>4, <1>6, <1>7, <1>8, <1>9

LEMMA ListsStep ==
  ASSUME PackagesInv, Listed \/ ListFails
  PROVE  PackagesInv' /\ UNCHANGED <<installed, target>> /\ facts'.got = facts.got
         /\ facts'.whole = facts.whole
<1> USE DEF PackagesInv
<1>1. /\ Reading /\ Len(facts.got) = 3 /\ facts.asks # {} /\ Len(facts.lists) < 3
      /\ UNCHANGED <<reader, moving, installed, target, catalog>>
  BY DEF Listed, ListFails, Wanting, peers, packages
<1>2. /\ facts' = [facts EXCEPT !.lists = facts'.lists]
      /\ facts'.lists \in Seq(SUBSET Nat) /\ Len(facts'.lists) <= 3
      /\ \A k \in DOMAIN facts'.lists :
           /\ facts'.lists[k] \subseteq catalog[Catalogs[k]]
           /\ facts.still => facts'.lists[k] \in {{}, catalog[Catalogs[k]]}
  <2>0. \A l : facts' = [facts EXCEPT !.lists = l] => facts'.lists = l
    BY DEF FactsInv, Facts
  <2>1. CASE Listed
    <3>1. facts.lists \in Seq(SUBSET Nat)
      BY DEF FactsInv, Facts
    <3>2. catalog[Catalogs[Len(facts.lists) + 1]] \in SUBSET Nat
      <4>1. Len(facts.lists) + 1 \in 1..3
        BY <1>1, <3>1, OneMore
      <4>2. Catalogs[Len(facts.lists) + 1] \in Names
        BY <4>1, Indices
      <4> QED BY <4>2 DEF DiskInv
    <3> DEFINE c == catalog[Catalogs[Len(facts.lists) + 1]]
               l == Append(facts.lists, c)
    <3>3. facts' = [facts EXCEPT !.lists = l]
      BY <2>1 DEF Listed
    <3>4. c \in SUBSET Nat
      BY <3>2
    <3>5. PICK len \in {0, 1, 2} :
            /\ len = Len(facts.lists) /\ DOMAIN facts.lists = 1..len /\ len + 1 \in 1..3
            /\ l \in Seq(SUBSET Nat) /\ Len(l) <= 3 /\ DOMAIN l = 1..(len + 1)
            /\ \A k \in 1..(len + 1) : l[k] = IF k = len + 1 THEN c ELSE facts.lists[k]
      <4> DEFINE VersionSets == SUBSET Nat
      <4>1. facts.lists \in Seq(VersionSets) /\ c \in VersionSets /\ Len(facts.lists) < 3
        BY <1>1, <3>1, <3>4
      <4> HIDE DEF c, VersionSets
      <4>2. \E len \in {0, 1, 2} :
              /\ len = Len(facts.lists) /\ DOMAIN facts.lists = 1..len /\ len + 1 \in 1..3
              /\ l \in Seq(VersionSets) /\ Len(l) <= 3 /\ DOMAIN l = 1..(len + 1)
              /\ \A k \in 1..(len + 1) : l[k] = IF k = len + 1 THEN c ELSE facts.lists[k]
        BY <4>1, OneMore
      <4> QED BY <4>2, Zenon DEF VersionSets
    <3>6. c = catalog[Catalogs[len + 1]]
      BY <3>5
    <3> HIDE DEF l, c
    <3>7. \A k \in DOMAIN l : /\ l[k] \subseteq catalog[Catalogs[k]]
                              /\ facts.still => l[k] \in {{}, catalog[Catalogs[k]]}
      <4> TAKE k \in DOMAIN l
      <4>1. CASE k \in 1..len
        <5>1. l[k] = facts.lists[k] /\ k \in DOMAIN facts.lists
          BY <3>5, <4>1
        <5> QED BY <5>1 DEF FactsInv
      <4>2. CASE k = len + 1
        BY <3>5, <3>6, <4>2
      <4>3. k \in 1..len \/ k = len + 1
        BY <3>5
      <4> QED BY <4>1, <4>2, <4>3
    <3>8. l \in Seq(SUBSET Nat) /\ Len(l) <= 3
      BY <3>5
    <3>9. facts'.lists = l
      BY <2>0, <3>3
    <3>10. facts' = [facts EXCEPT !.lists = facts'.lists]
      BY <3>3, <3>9, Zenon
    <3>11. facts'.lists \in Seq(SUBSET Nat) /\ Len(facts'.lists) <= 3
      BY <3>8, <3>9, Zenon
    <3>12. \A k \in DOMAIN facts'.lists :
             /\ facts'.lists[k] \subseteq catalog[Catalogs[k]]
             /\ facts.still => facts'.lists[k] \in {{}, catalog[Catalogs[k]]}
      BY <3>7, <3>9, Zenon
    <3> QED BY <3>10, <3>11, <3>12, Zenon
  <2>2. CASE ListFails
    <3> DEFINE l == <<{}, {}, {}>>
    <3>1. l \in Seq(SUBSET Nat) /\ Len(l) <= 3 /\ \A k \in DOMAIN l : l[k] = {}
      OBVIOUS
    <3>2. facts' = [facts EXCEPT !.lists = l]
      BY <2>2 DEF ListFails
    <3> HIDE DEF l
    <3>3. facts'.lists = l
      BY <2>0, <3>2
    <3> QED BY <3>1, <3>2, <3>3
  <2> QED BY <2>1, <2>2
<1>3. /\ facts' \in Facts /\ facts'.got = facts.got
      /\ facts'.asks = facts.asks /\ facts'.whole = facts.whole /\ facts'.still = facts.still
  BY <1>2 DEF FactsInv, Facts
<1>4. DiskInv' /\ Latest' = Latest /\ Reading' = Reading /\ OnDisk' = OnDisk
  BY <1>1 DEF DiskInv, Latest, Reading, OnDisk
<1>5. FactsInv'
  <2>1. \A k \in DOMAIN facts'.lists :
          /\ facts'.lists[k] \subseteq catalog'[Catalogs[k]]
          /\ facts'.still => facts'.lists[k] \in {{}, catalog'[Catalogs[k]]}
    BY <1>1, <1>2, <1>3
  <2>2. Len(facts'.lists) <= 3 /\ Len(facts'.got) <= 3 /\ Len(facts'.got) = 3 /\ facts'.asks # {}
    BY <1>1, <1>2, <1>3 DEF FactsInv
  <2>3. \A k \in DOMAIN facts'.got :
          /\ facts'.got[k] # 0 =>
               \E e \in Bundles : e <= Latest' /\ facts'.got[k] = Whole(e)[Inventory[k]]
          /\ facts'.still => facts'.got[k] \in {0, installed'[Inventory[k]]}
    BY <1>1, <1>3, <1>4 DEF FactsInv
  <2> QED BY <1>1, <1>3, <1>4, <2>1, <2>2, <2>3 DEF FactsInv
<1>6. PassingInv'
  BY <1>1, <1>3 DEF PassingInv, Observation, Reading
<1> QED BY <1>1, <1>3, <1>4, <1>5, <1>6

\* The pages do not start or end a reading.
LEMMA PagesDoNotRead ==
  ASSUME reader \in Reader, PeersNext \/ Departs
  PROVE  reader'.pc = reader.pc
<1>1. Bump => reader'.pc = reader.pc
  BY DEF Bump, Reader
<1>2. CASE \E p \in Pages : Load(p) \/ Generation(p) \/ Hide(p) \/ Show(p) \/ Leave(p)
  BY <1>2 DEF Load, Generation, Hide, Show, Leave
<1>3. CASE \E i \in Invs : SeesEnd(i) \/ TransportFails(i)
  BY <1>3 DEF SeesEnd, TransportFails, Failed
<1>4. CASE Close \/ \E i \in Invs : Arrives(i) \/ Lost(i) \/ Withdrawal(i)
  BY <1>1, <1>4 DEF Close, Arrives, Lost, Withdrawal, SignalAborts, BodyCancelled, Finish
<1> QED BY <1>2, <1>3, <1>4 DEF PeersNext, Departs

\* The leases, in every step of the whole.
LEMMA PeersNextStep == ASSUME PeersInv, [Next]_vars PROVE PeersInv'
<1>1. CASE PeersNext
  BY <1>1, PeersStep
<1>2. CASE Departs
  BY <1>2, PagesStep, HostsStep DEF Departs, Withdrawal
<1>3. CASE Read \/ Declare \/ Reactivate
  BY <1>3, ReaderStep DEF Read, Declare, Reactivate
<1>4. CASE UNCHANGED peers
  BY <1>4, PeersUnchanged
<1>5. /\ Install \/ Observed \/ Listed \/ ListFails => UNCHANGED peers
      /\ \A n \in Names : Publish(n) \/ Replace(n) => UNCHANGED peers
  BY DEF Install, Observed, Listed, ListFails, Publish, Replace
<1> QED BY <1>1, <1>2, <1>3, <1>4, <1>5 DEF Next, vars

\* Where the pages move, the packages do not.
LEMMA PackagesNextStep ==
  ASSUME PeersInv, PackagesInv, [Next]_vars
  PROVE  PackagesInv'
<1>0. reader \in Reader
  BY DEF PeersInv, PeersTypeOK
<1>1. CASE (PeersNext \/ Departs) /\ UNCHANGED <<moving, packages, facts>>
  BY <1>0, <1>1, PagesDoNotRead, PackagesUnchanged
<1>2. CASE moving = "packages" /\ (Install \/ \E n \in Names : Publish(n) \/ Replace(n))
  BY <1>2, InstallStep, PublishStep, ReplaceStep
<1>3. CASE Read
  BY <1>3, ReadStep
<1>4. CASE Observed
  BY <1>4, ObservedStep
<1>5. CASE Listed \/ ListFails
  BY <1>5, ListsStep
<1>6. CASE Declare \/ Reactivate
  <2>1. UNCHANGED <<moving, packages>> /\ facts' = NoFacts /\ reader'.pc = "idle"
    BY <1>0, <1>6 DEF Declare, Reactivate, ReadEnds, Reopen, Reader
  <2> QED BY <2>1, ForgetsFacts
<1>7. CASE UNCHANGED vars
  BY <1>7, PackagesUnchanged DEF vars, peers
<1> QED BY <1>1, <1>2, <1>3, <1>4, <1>5, <1>6, <1>7 DEF Next

LEMMA PackagesStart == ASSUME Init PROVE PackagesInv
<1>1. installed = Whole(Running) /\ target = None /\ facts = NoFacts /\ ~Reading
      /\ catalog = [n \in Names |-> IF moving = "pages" THEN Versioned(n) ELSE {Whole(Running)[n]}]
  BY DEF Init, PeersInit, Connected, Reading
<1>2. Running \in Bundles /\ Whole(Running) \in [Names -> Nat] /\ Whole(Running)["bundle"] = Running
      /\ \A n \in Names : Whole(Running)[n] \in Versioned(n) /\ Versioned(n) \subseteq Nat
  BY SuiteAssumption, WholeType, VersionedType
<1>3. moving \in {"pages", "packages"}
  BY DEF Init
<1>4. DiskInv
  <2>1. /\ catalog \in [Names -> SUBSET Nat] /\ \A n \in Names : catalog[n] \subseteq Versioned(n)
    BY <1>1, <1>2
  <2> QED BY <1>1, <1>2, <1>3, <2>1 DEF DiskInv
<1>5. FactsInv
  BY <1>1, Indices DEF FactsInv
<1> QED BY <1>1, <1>4, <1>5 DEF PackagesInv, PassingInv

(***************************************************************************)
(* No suite out of pieces                                                  *)
(*                                                                         *)
(* A package is read once.  If a later release could take a member back to *)
(* a version given up before, read() could meet the old one, then the      *)
(* installation of the later release, and take the two for that release,   *)
(* which was never whole on disk (contents 1 1, then 1 2, then 1 1):       *)
(* NoWayBack excludes that.                                                *)
(***************************************************************************)

\* A member that was observed as the latest bundle names it is on the disk.
ComingInv ==
  Whole(Latest)["core"] = Whole(Running)["core"] =>
    \A k \in {1, 2} : Observation(k, Whole(Latest)[Inventory[k]]) =>
                        installed[Inventory[k]] = Whole(Latest)[Inventory[k]]

\* What was observed is a bundle with this Core's version: it was on disk as a whole.
WholeInv ==
  (/\ Len(facts.got) = 3 /\ facts.got[3] # 0 /\ Seen = Whole(facts.got[3])
   /\ Seen["core"] = Whole(Running)["core"])
  => facts.got[3] \in facts.whole

LEMMA Places ==
  /\ (CHOOSE k \in 1..3 : Inventory[k] = "component") = 1
  /\ (CHOOSE k \in 1..3 : Inventory[k] = "core") = 2
  /\ (CHOOSE k \in 1..3 : Inventory[k] = "bundle") = 3
  /\ (CHOOSE k \in 1..3 : Catalogs[k] = "bundle") = 1
  /\ (CHOOSE k \in 1..3 : Catalogs[k] = "core") = 2
  /\ (CHOOSE k \in 1..3 : Catalogs[k] = "component") = 3
<1>1. \A k \in 1..3 : k = 1 \/ k = 2 \/ k = 3
  OBVIOUS
<1>2. 1 \in 1..3 /\ 2 \in 1..3 /\ 3 \in 1..3
  OBVIOUS
<1>3. /\ Inventory[1] = "component" /\ Inventory[2] = "core" /\ Inventory[3] = "bundle"
      /\ Catalogs[1] = "bundle" /\ Catalogs[2] = "core" /\ Catalogs[3] = "component"
  BY DEF Inventory, Catalogs
<1> QED BY <1>1, <1>2, <1>3

LEMMA SeenIs ==
  Seen["component"] = facts.got[1] /\ Seen["core"] = facts.got[2] /\ Seen["bundle"] = facts.got[3]
BY Places DEF Seen, Names

\* The latest bundle changes when an installation starts, and only then can what was observed
\* become a part of it.
LEMMA ComingStep ==
  ASSUME NoWayBack, PackagesInv, ComingInv, [Next]_vars
  PROVE  ComingInv'
<1> USE DEF PackagesInv
<1>0. \A k \in {1, 2} : k \in 1..3 /\ Inventory[k] \in {"core", "component"}
  BY Indices
<1>1. CASE UNCHANGED <<installed, target>> /\ facts'.got = facts.got
  BY <1>1 DEF ComingInv, Latest, Observation
<1>2. CASE moving = "packages" /\ Install
  <2>1. PICK b \in Bundles : b > installed["bundle"] /\ target' = b
    BY <1>2 DEF Install
  <2>2. target = None /\ UNCHANGED <<installed, facts>>
    BY <1>2 DEF Install
  <2>3. /\ installed["bundle"] \in Bundles /\ installed = Whole(installed["bundle"])
        /\ Latest = installed["bundle"] /\ Latest' = b
    BY <2>1, <2>2, SuiteAssumption DEF DiskInv, Latest
  <2> SUFFICES ASSUME Whole(b)["core"] = Whole(Running)["core"],
                      NEW k \in {1, 2}, Observation(k, Whole(b)[Inventory[k]])
               PROVE  installed[Inventory[k]] = Whole(b)[Inventory[k]]
    BY <2>2, <2>3 DEF ComingInv, Observation
  <2>4. Inventory[k] \in {"core", "component"} /\ Inventory[k] \in Names
    BY <1>0 DEF Names
  <2>5. facts.got[k] = Whole(b)[Inventory[k]] /\ facts.got[k] # 0 /\ k \in DOMAIN facts.got
    BY <2>4, WholeType DEF Observation
  <2>6. PICK e \in Bundles : e <= Latest /\ facts.got[k] = Whole(e)[Inventory[k]]
    BY <2>5 DEF FactsInv
  <2>7. CASE e = Latest
    BY <2>3, <2>5, <2>6, <2>7
  <2>8. CASE e # Latest
    <3>1. e < Latest /\ Latest < b
      <4>1. e \in Nat /\ Latest \in Nat /\ b \in Nat /\ e <= Latest /\ e # Latest /\ b > Latest
        BY <2>1, <2>3, <2>6, <2>8, WholeType
      <4> HIDE DEF Latest
      <4> QED BY <4>1
    <3>2. /\ Contents[b]["core"] = Contents[Running]["core"]
          /\ Contents[e][Inventory[k]] = Contents[b][Inventory[k]]
      BY <2>4, <2>5, <2>6, SuiteAssumption, WholeType DEF Names
    <3>3. Contents[Latest][Inventory[k]] = Contents[b][Inventory[k]]
      BY <2>3, <2>4, <3>1, <3>2 DEF NoWayBack
    <3> QED BY <2>3, <2>4, <3>3, WholeType
  <2> QED BY <2>7, <2>8
<1>3. ASSUME moving = "packages", NEW n \in Names, Replace(n) PROVE ComingInv'
  <2>1. Latest' = Latest /\ facts'.got = facts.got
        /\ \A m \in Names : installed[m] = Whole(Latest)[m] => installed'[m] = Whole(Latest)[m]
    BY <1>3, ReplaceStep
  <2>2. \A k \in {1, 2} : Inventory[k] \in Names
    BY <1>0 DEF Names
  <2> QED BY <2>1, <2>2 DEF ComingInv, Observation
<1>4. CASE Read
  <2>1. UNCHANGED <<installed, target>>
        /\ \/ facts'.got = <<>>
           \/ \A k \in 1..3 : facts'.got[k] = installed[Inventory[k]]
    BY <1>4, ReadStep
  <2>2. Latest' = Latest
    BY <2>1 DEF Latest
  <2> QED BY <1>0, <2>1, <2>2 DEF ComingInv, Observation
<1>5. CASE Observed
  <2>1. UNCHANGED <<installed, target>> /\ Latest \in Bundles
    BY <1>5, ObservedStep, LatestType
  <2>2. PICK v \in {installed[Inventory[Len(facts.got) + 1]], 0} :
          /\ facts'.got = Append(facts.got, v) /\ facts.got \in Seq(Nat)
          /\ v \in Nat /\ Len(facts.got) < 3
    BY <1>5, ObservedStep
  <2>3. PICK len \in {0, 1, 2} :
          /\ len = Len(facts.got) /\ DOMAIN facts.got = 1..len /\ DOMAIN facts'.got = 1..(len + 1)
          /\ \A k \in 1..(len + 1) : facts'.got[k] = IF k = len + 1 THEN v ELSE facts.got[k]
    BY <2>2, OneMore
  <2>4. Latest' = Latest
    BY <2>1 DEF Latest
  <2> SUFFICES ASSUME Whole(Latest)["core"] = Whole(Running)["core"],
                      NEW k \in {1, 2}, k \in DOMAIN facts'.got, facts'.got[k] = Whole(Latest)[Inventory[k]]
               PROVE  installed[Inventory[k]] = Whole(Latest)[Inventory[k]]
    BY <2>1, <2>4 DEF ComingInv, Observation
  <2>5. CASE k = len + 1
    <3>1. facts'.got[k] = v /\ k = Len(facts.got) + 1
      BY <2>3, <2>5
    <3>2. Whole(Latest)[Inventory[k]] # 0
      BY <1>0, <2>1, WholeType DEF Names
    <3> QED BY <2>2, <3>1, <3>2
  <2>6. CASE k # len + 1
    <3>1. k \in 1..len
      BY <2>3, <2>6
    <3>2. k \in DOMAIN facts.got /\ facts'.got[k] = facts.got[k]
      BY <2>3, <2>6, <3>1
    <3> QED BY <3>2 DEF ComingInv, Observation
  <2> QED BY <2>5, <2>6
<1>6. CASE Listed \/ ListFails
  BY <1>1, <1>6, ListsStep
<1>7. CASE Declare \/ Reactivate
  <2>1. UNCHANGED <<installed, target>> /\ DOMAIN facts'.got = {}
    BY <1>7, Indices DEF Declare, Reactivate, packages
  <2> QED BY <2>1 DEF ComingInv, Observation
<1>8. ASSUME NEW n \in Names, Publish(n) PROVE ComingInv'
  <2>1. UNCHANGED <<installed, target>> /\ facts'.got = facts.got
    BY <1>8 DEF Publish, FactsInv, Facts
  <2> QED BY <1>1, <2>1
<1>9. CASE UNCHANGED <<packages, facts>>
  BY <1>1, <1>9 DEF packages
<1> QED BY <1>2, <1>3, <1>4, <1>5, <1>6, <1>7, <1>8, <1>9 DEF Next, vars

\* The last observation is of the bundle: it stands there as a whole, or was met as one.
LEMMA LastObservation ==
  ASSUME PackagesInv', ComingInv', Reading', Len(facts'.got) = 3, facts'.got[3] # 0,
         facts'.got[3] = installed'["bundle"], Seen' = Whole(facts'.got[3]),
         Seen'["core"] = Whole(Running)["core"]
  PROVE  facts'.got[3] \in facts'.whole
<1> USE DEF PackagesInv
<1>1. Seen'["component"] = facts'.got[1] /\ Seen'["core"] = facts'.got[2]
  BY Places DEF Seen, Names
<1>2. 1 \in DOMAIN facts'.got /\ 2 \in DOMAIN facts'.got /\ 3 \in DOMAIN facts'.got
  BY DEF FactsInv, Facts
<1>3. PICK b \in Bundles : b = facts'.got[3]
  <2>1. PICK e \in Bundles : facts'.got[3] = Whole(e)["bundle"]
    BY <1>2, Indices DEF FactsInv
  <2> QED BY <2>1, WholeType
<1>4. installed'["bundle"] = b /\ facts'.got[1] = Whole(b)["component"] /\ facts'.got[2] = Whole(b)["core"]
  BY <1>1, <1>3
<1>5. CASE target' = None
  BY <1>3, <1>4, <1>5 DEF DiskInv, FactsInv, OnDisk
<1>6. CASE target' # None /\ b # target'
  <2>1. Observation(1, Whole(b)["component"])' /\ Observation(2, Whole(b)["core"])'
    BY <1>2, <1>4 DEF Observation
  <2> QED BY <1>3, <1>4, <1>6, <2>1 DEF PassingInv, Observation
<1>7. CASE target' # None /\ b = target'
  <2>1. Latest' = b
    BY <1>7 DEF Latest
  <2>2. Whole(b)["core"] = Whole(Running)["core"]
    BY <1>3
  <2>3. installed'["component"] = Whole(b)["component"] /\ installed'["core"] = Whole(b)["core"]
    BY <1>2, <1>4, <2>1, <2>2, Indices DEF ComingInv, Observation
  <2>4. installed' \in [Names -> Nat] /\ Whole(b) \in [Names -> Nat] /\ Whole(b)["bundle"] = b
    BY <1>3, WholeType DEF DiskInv
  <2>5. installed' = Whole(b)
    BY <1>4, <2>3, <2>4, SameWhole
  <2> QED BY <1>7, <2>5 DEF DiskInv
<1> QED BY <1>5, <1>6, <1>7

\* What was observed does not change, and a bundle that was whole once stays in the record.
LEMMA WholeKept ==
  ASSUME WholeInv, facts'.got = facts.got, facts.whole \subseteq facts'.whole
  PROVE  WholeInv'
BY DEF WholeInv, Seen

LEMMA WholeStep ==
  ASSUME NoWayBack, PackagesInv, PackagesInv', ComingInv, ComingInv', WholeInv, [Next]_vars
  PROVE  WholeInv'
<1>1. CASE UNCHANGED facts
  BY <1>1, WholeKept
<1>2. ASSUME moving = "packages", NEW n \in Names, Replace(n) PROVE WholeInv'
  BY <1>2, ReplaceStep, WholeKept
<1>3. ASSUME NEW n \in Names, Publish(n) PROVE WholeInv'
  <2>1. facts'.got = facts.got /\ facts'.whole = facts.whole
    BY <1>3 DEF Publish, PackagesInv, FactsInv, Facts
  <2> QED BY <2>1, WholeKept
<1>4. CASE Read
  <2>1. /\ UNCHANGED installed /\ reader'.pc = "reading"
        /\ \/ facts'.got = <<>>
           \/ \A k \in 1..3 : facts'.got[k] = installed[Inventory[k]]
    BY <1>4, ReadStep DEF Read, ReadStarts
  <2>2. Len(<<>>) # 3 /\ 3 \in 1..3
    OBVIOUS
  <2>3. CASE facts'.got = <<>>
    BY <2>2, <2>3 DEF WholeInv
  <2>4. CASE facts'.got # <<>>
    <3>1. facts'.got[3] = installed'["bundle"]
      BY <2>1, <2>2, <2>4, Indices
    <3> QED BY <2>1, <3>1, LastObservation DEF WholeInv, Reading
  <2> QED BY <2>3, <2>4
<1>5. CASE Observed
  <2>1. UNCHANGED <<reader, installed>> /\ facts'.whole = facts.whole /\ Reading
    BY <1>5, ObservedStep
  <2>2. PICK v \in {installed[Inventory[Len(facts.got) + 1]], 0} :
          /\ facts'.got = Append(facts.got, v) /\ facts.got \in Seq(Nat)
          /\ v \in Nat /\ Len(facts.got) < 3
    BY <1>5, ObservedStep
  <2>3. PICK len \in {0, 1, 2} :
          /\ len = Len(facts.got) /\ Len(facts'.got) = len + 1
          /\ \A k \in 1..(len + 1) : facts'.got[k] = IF k = len + 1 THEN v ELSE facts.got[k]
    BY <2>2, OneMore
  <2> SUFFICES ASSUME Len(facts'.got) = 3, facts'.got[3] # 0
               PROVE  facts'.got[3] = installed'["bundle"]
    BY <2>1, LastObservation DEF WholeInv, Reading
  <2>4. len = 2 /\ 3 \in 1..3 /\ 2 + 1 = 3
    BY <2>3
  <2>5. facts'.got[3] = v /\ v \in {installed[Inventory[3]], 0}
    BY <2>2, <2>3, <2>4
  <2> QED BY <2>1, <2>5, Indices
<1>6. CASE Listed \/ ListFails
  BY <1>6, ListsStep, WholeKept
<1>7. CASE Declare \/ Reactivate
  <2>1. Len(facts'.got) = 0
    BY <1>7, Indices DEF Declare, Reactivate
  <2> QED BY <2>1 DEF WholeInv
<1>8. CASE UNCHANGED <<packages, facts>> \/ Install
  BY <1>1, <1>8 DEF Install
<1> QED BY <1>1, <1>2, <1>3, <1>4, <1>5, <1>6, <1>7, <1>8 DEF Next, vars

(***************************************************************************)
(* What a declaration says                                                 *)
(***************************************************************************)

\* A whole that was observed is one of the bundles.
LEMMA ObservedBundle ==
  ASSUME PackagesInv, Over, NamesItsMembers
  PROVE  Seen["bundle"] \in Bundles /\ Seen = Whole(Seen["bundle"]) /\ Len(facts.got) = 3
<1>1. Len(facts.got) = 3 /\ 3 \in DOMAIN facts.got
  BY DEF Over, PackagesInv, FactsInv, Facts
<1>2. facts.got[3] # 0 /\ Seen["bundle"] = facts.got[3]
  BY SeenIs DEF NamesItsMembers
<1>3. PICK e \in Bundles : facts.got[3] = Whole(e)[Inventory[3]]
  BY <1>1, <1>2 DEF PackagesInv, FactsInv
<1> QED BY <1>1, <1>2, <1>3, Indices, WholeType DEF NamesItsMembers

LEMMA CompleteIsReal ==
  ASSUME PackagesInv, WholeInv, Over
  PROVE  CompleteWasReal
<1> SUFFICES ASSUME Complete PROVE \E b \in facts.whole : Seen = Whole(b)
  BY DEF CompleteWasReal
<1>1. NamesItsMembers /\ Seen["core"] = Whole(Running)["core"]
  BY DEF Complete, Together
<1>2. Len(facts.got) = 3 /\ Seen = Whole(Seen["bundle"]) /\ Seen["bundle"] = facts.got[3] /\ Seen["bundle"] # 0
  BY <1>1, ObservedBundle, SeenIs DEF NamesItsMembers
<1> QED BY <1>1, <1>2 DEF WholeInv

\* The React that is reported is the one of the leases at the start and at the end.
LEMMA ReportedIsHeld ==
  ASSUME PeersInv, Reading, Reported # None
  PROVE  Held = reader.seen /\ Reacts = {reader.react} /\ Reported = reader.react
<1>1. Known # None /\ reader.same /\ Reported = reader.react
  BY DEF Reported
<1>2. Held = reader.seen /\ reader.react = Known
  BY <1>1 DEF PeersInv, ReaderInv, Reading
<1>3. Reacts = {Known}
  BY <1>1, KnownReact DEF PeersInv, PeersTypeOK
<1> QED BY <1>1, <1>2, <1>3

\* What is in a catalog that was read is published.
LEMMA ResolvesIsPublished ==
  ASSUME PackagesInv, Len(facts.lists) = 3, NEW b, Resolves(b)
  PROVE  Published(b)
<1>1. {1, 2, 3} \subseteq DOMAIN facts.lists
  BY DEF PackagesInv, FactsInv, Facts
<1>2. \A k \in {1, 2, 3} : facts.lists[k] \subseteq catalog[Catalogs[k]]
  BY <1>1 DEF PackagesInv, FactsInv
<1>3. /\ Whole(b)["bundle"] \in facts.lists[1] /\ Whole(b)["core"] \in facts.lists[2]
      /\ Whole(b)["component"] \in facts.lists[3]
  BY Places DEF Resolves, In, Names
<1>4. Catalogs[1] = "bundle" /\ Catalogs[2] = "core" /\ Catalogs[3] = "component"
  BY DEF Catalogs
<1> QED BY <1>2, <1>3, <1>4 DEF Published, Names

\* An offer is published, newer than what was observed, and suits the React of every page.
OfferIsSound ==
  \A b \in Offers :
    /\ b \in Bundles /\ Published(b) /\ Upgrades(b, Seen)
    /\ Held = reader.seen /\ Reacts = {reader.react} /\ Fitting(b, reader.react)

LEMMA SoundOffers ==
  ASSUME PeersInv, PackagesInv, Over
  PROVE  OfferIsSound
<1> SUFFICES ASSUME NEW b \in Offers
             PROVE  /\ b \in Bundles /\ Published(b) /\ Upgrades(b, Seen)
                    /\ Held = reader.seen /\ Reacts = {reader.react} /\ Fitting(b, reader.react)
  BY DEF OfferIsSound
<1>1. /\ facts.asks # {} /\ Complete /\ b \in facts.asks
      /\ Resolves(b) /\ Upgrades(b, Seen) /\ Fitting(b, reader.react)
  BY DEF Offers
<1>2. Len(facts.lists) = 3 /\ Reading
  BY <1>1 DEF Over
<1>3. b \in Bundles
  BY <1>1 DEF PackagesInv, FactsInv, Facts
<1>4. Held = reader.seen /\ Reacts = {reader.react}
  BY <1>1, <1>2, ReportedIsHeld DEF Complete
<1> QED BY <1>1, <1>2, <1>3, <1>4, ResolvesIsPublished

LEMMA NothingIsMissed ==
  ASSUME PeersInv, PackagesInv, Over
  PROVE  NothingMissed
<1> USE DEF PackagesInv
<1> SUFFICES ASSUME facts.still, 0 \notin {facts.got[k] : k \in 1..3},
                    {} \notin {facts.lists[k] : k \in DOMAIN facts.lists},
                    Reported # None, Running \in OnDisk, Fitting(Running, Reported),
                    NEW b \in facts.asks, Published(b), Upgrades(b, installed), Fitting(b, Reported)
             PROVE  b \in Offers
  BY DEF NothingMissed
<1>1. Len(facts.got) = 3 /\ Len(facts.lists) = 3 /\ Reading /\ facts.asks # {}
  BY DEF Over
<1>2. installed = Whole(Running) /\ Running \in Bundles
  BY DEF OnDisk
<1>3. {1, 2, 3} \subseteq DOMAIN facts.got /\ {1, 2, 3} \subseteq DOMAIN facts.lists
      /\ {1, 2, 3} \subseteq 1..3
  BY <1>1 DEF FactsInv, Facts
<1>4. \A k \in {1, 2, 3} : facts.got[k] = installed[Inventory[k]] /\ facts.lists[k] = catalog[Catalogs[k]]
  BY <1>3 DEF FactsInv
<1>5. Seen = Whole(Running)
  <2>1. /\ Seen["component"] = installed["component"] /\ Seen["core"] = installed["core"]
        /\ Seen["bundle"] = installed["bundle"]
    BY <1>4, SeenIs, Indices
  <2>2. \A n \in Names : Seen[n] = Whole(Running)[n]
    BY <1>2, <2>1 DEF Names
  <2> QED BY <2>2, Zenon DEF Seen, Whole
<1>6. Reported = reader.react
  BY <1>1, ReportedIsHeld
<1>7. Complete
  BY <1>2, <1>5, <1>6, WholeType DEF Complete, Together, NamesItsMembers, Fitting, Names
<1>8. Resolves(b)
  <2>1. /\ facts.lists[1] = catalog["bundle"] /\ facts.lists[2] = catalog["core"]
        /\ facts.lists[3] = catalog["component"]
    BY <1>4 DEF Catalogs
  <2>2. /\ Whole(b)["bundle"] \in catalog["bundle"] /\ Whole(b)["core"] \in catalog["core"]
        /\ Whole(b)["component"] \in catalog["component"]
    BY DEF Published, Names
  <2>3. /\ In("bundle", Whole(b)["bundle"]) /\ In("core", Whole(b)["core"])
        /\ In("component", Whole(b)["component"])
    BY <2>1, <2>2, Places DEF In
  <2> QED BY <2>3 DEF Resolves, Names
<1>9. Upgrades(b, Seen) /\ Fitting(b, reader.react)
  BY <1>2, <1>5, <1>6
<1> QED BY <1>1, <1>7, <1>8, <1>9 DEF Offers

(***************************************************************************)
(* The theorems                                                            *)
(***************************************************************************)

DeclarationInv == PeersInv /\ PackagesInv

LEMMA InvInit == Init => DeclarationInv
BY PeersStart, PackagesStart DEF DeclarationInv

LEMMA InvStep == DeclarationInv /\ [Next]_vars => DeclarationInv'
BY PeersNextStep, PackagesNextStep DEF DeclarationInv

LEMMA Invariance == Spec => []DeclarationInv
BY InvInit, InvStep, PTL DEF Spec

\* The fields of the pages and of their requests, the packages and the locals of read() are of
\* the types they were declared with: what was observed and read is at most one version and one
\* catalog of each package, and the disk and the registry only ever hold versions that a bundle
\* names.
THEOREM TypeCorrect == Spec => []TypeOK
<1>1. DeclarationInv => TypeOK
  <2> SUFFICES ASSUME DeclarationInv PROVE TypeOK
    OBVIOUS
  <2>1. \A n \in Names : installed[n] \in Versioned(n)
    BY LatestType DEF DeclarationInv, PackagesInv
  <2> QED BY <2>1 DEF TypeOK, DeclarationInv, PeersInv, PackagesInv, DiskInv, FactsInv, Facts
<1> QED BY <1>1, Invariance, PTL

\* The leases follow the pages, for any pages, requests and carriers: startClientPeerLease() has
\* one request for a page that is shown and connected and none for any other, through hiding,
\* showing, other generations and failures, and disposed leases hold nothing.
THEOREM LeasesFollow == Spec => []LeaseFollowsPage
<1>1. DeclarationInv => LeaseFollowsPage
  BY DEF DeclarationInv, PeersInv, PageInv, LeaseFollowsPage, EveryActivationAsks
<1> QED BY <1>1, Invariance, PTL

\* For any releases whatever: the React that read() reports is the one that exactly the leases it
\* found at its start report now.
THEOREM ReportsWhatIsHeld ==
  Spec => [](Reading /\ Reported # None => Held = reader.seen /\ Reacts = {reader.react})
<1>1. DeclarationInv => (Reading /\ Reported # None => Held = reader.seen /\ Reacts = {reader.react})
  BY ReportedIsHeld DEF DeclarationInv
<1> QED BY <1>1, Invariance, PTL

\* For any releases whatever, those that take members back included: what read() offers is wholly
\* published, goes forward from the versions it observed and suits the React of every page; and a
\* release that fits the suite on disk is offered when nothing moved and no read failed.
THEOREM OffersAreSound == Spec => [](Over => OfferIsSound /\ NothingMissed)
<1>1. DeclarationInv => (Over => OfferIsSound /\ NothingMissed)
  BY SoundOffers, NothingIsMissed DEF DeclarationInv
<1> QED BY <1>1, Invariance, PTL

\* The declaration that read() returns is true while packages are replaced and published under it
\* and the pages come and go, if no release for this Core takes a member back to a version given up
\* before: a suite called complete was installed as a whole at one moment of the reading, and an
\* offer leads forward from it.
THEOREM DeclarationHolds == ASSUME NoWayBack PROVE Spec => []DeclarationIsTrue
<1> DEFINE I == DeclarationInv /\ ComingInv /\ WholeInv
<1>1. Init => I
  <2> SUFFICES ASSUME Init PROVE I
    OBVIOUS
  <2>1. facts = NoFacts
    BY DEF Init
  <2>2. DOMAIN facts.got = {} /\ Len(facts.got) # 3
    BY <2>1, Indices
  <2> QED BY <2>2, InvInit DEF ComingInv, WholeInv, Observation
<1>2. I /\ [Next]_vars => I'
  <2> SUFFICES ASSUME I, [Next]_vars PROVE I'
    OBVIOUS
  <2>1. DeclarationInv'
    BY InvStep
  <2>2. ComingInv'
    BY ComingStep DEF DeclarationInv
  <2>3. WholeInv'
    BY <2>1, <2>2, WholeStep DEF DeclarationInv
  <2> QED BY <2>1, <2>2, <2>3
<1>3. I => DeclarationIsTrue
  <2> SUFFICES ASSUME I, Over PROVE CompleteWasReal /\ OfferHolds /\ NothingMissed
    BY DEF DeclarationIsTrue
  <2>1. CompleteWasReal /\ OfferIsSound /\ NothingMissed
    BY CompleteIsReal, SoundOffers, NothingIsMissed DEF DeclarationInv
  <2>2. OfferHolds
    <3> SUFFICES ASSUME NEW b \in Offers PROVE \E a \in facts.whole : Upgrades(b, Whole(a))
      BY <2>1 DEF OfferHolds, OfferIsSound
    <3>1. Complete /\ Upgrades(b, Seen)
      BY <2>1 DEF Offers, OfferIsSound
    <3>2. PICK a \in facts.whole : Seen = Whole(a)
      BY <2>1, <3>1 DEF CompleteWasReal
    <3> QED BY <3>1, <3>2
  <2> QED BY <2>1, <2>2
<1> HIDE DEF I
<1> QED BY <1>1, <1>2, <1>3, PTL DEF Spec
=============================================================================
