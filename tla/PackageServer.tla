----------------------------- MODULE PackageServer -----------------------------
(***************************************************************************)
(* src/suite/source-package.ts: the connections and requests of the        *)
(* listeners that SuiteSource opens and closes.  Installers, browsers and  *)
(* the reader of Core's own declaration keep connections open and ask over *)
(* them.  What is in the archives, or is refused, is answered at once;     *)
(* another package is asked of the peer registry, which may never answer.  *)
(***************************************************************************)
CONSTANTS
  Conns,      \* clients, with a connection each
  Listeners,  \* names for listeners
  None        \* null

VARIABLE conn  \* of each client: the listener it is connected to, and its request

\* asking: fetch() is under way, its controller in `pending`; aborted: abort() was called.
Conn == [at : Listeners \cup {None}, pc : {"none", "asking", "aborted"}]
Away == [at |-> None, pc |-> "none"]
Nobody == [k \in Conns |-> Away]

Sockets(l) == {k \in Conns : conn[k].at = l}
Asking == {k \in Conns : conn[k].pc = "asking"}
Cut(pc) == IF pc = "asking" THEN "aborted" ELSE pc

\* on 'connection'; `up` are the listeners that accept one.
Connect(k, up) ==
  /\ conn[k] = Away
  /\ \E l \in up : conn' = [conn EXCEPT ![k].at = l]

\* A request for a package that is not in the archives.
Ask(k) ==
  /\ conn[k].at # None /\ conn[k].pc = "none"
  /\ conn' = [conn EXCEPT ![k].pc = "asking"]

\* The peer registry answers or fails, and the answer is passed on or refused.
PeerAnswers(k) ==
  /\ conn[k].pc = "asking"
  /\ conn' = [conn EXCEPT ![k].pc = "none"]

\* The timer.
TimesOut(k) ==
  /\ conn[k].pc = "asking"
  /\ conn' = [conn EXCEPT ![k].pc = "aborted"]

\* The client goes away: disconnected()
Disconnects(k) ==
  /\ conn[k].at # None
  /\ conn' = [conn EXCEPT ![k].at = None, ![k].pc = Cut(@)]

\* fetch() rejects; an error is the answer when the response is still there.
Rejected(k) ==
  /\ conn[k].pc = "aborted"
  /\ conn' = [conn EXCEPT ![k].pc = "none"]

\* Mutant: the connections are left to their clients.
ShutPolitely(l) ==
  conn' = [k \in Conns |-> IF conn[k].at = l THEN [conn[k] EXCEPT !.pc = Cut(@)] ELSE conn[k]]

\* close(): what is under way is aborted and the sockets are destroyed.  It comes to its end
\* when the server has no socket.
Shut(l) ==
  conn' = [k \in Conns |-> IF conn[k].at = l THEN [at |-> None, pc |-> Cut(conn[k].pc)] ELSE conn[k]]

Serves(k) == PeerAnswers(k) \/ TimesOut(k) \/ Rejected(k)
=============================================================================
