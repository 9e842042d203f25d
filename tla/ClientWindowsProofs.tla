-------------------------- MODULE ClientWindowsProofs --------------------------
(***************************************************************************)
(* Type correctness of ClientWindows, that what the settings page shows    *)
(* never goes back, and that nobody is asked twice, for any number of      *)
(* windows, mounts and overlapping requests.                               *)
(*                                                                         *)
(* The page: the reading `latest` stands for overlaps no save, and a save  *)
(* that is still alone overlaps no reading that may be shown, so that      *)
(* nothing else is shown between the host's answer and its arrival         *)
(* (LatestInv, AloneInv, OrderInv).  The prompts: of two mounts in a       *)
(* window one waits for the other (LineInv), with Web Locks only one mount *)
(* holds the lock (LockInv), and who has sent a marker holds it until the  *)
(* marker has arrived (MarkerInv), so that the host's state that a mount   *)
(* has read under the lock is still the case when it is rendered           *)
(* (StampInv).                                                             *)
(***************************************************************************)
EXTENDS ClientWindows, FiniteSetTheorems, TLAPS

HostRec == [at : Nat, consent : {"granted", "withheld"}, changed : BOOLEAN, stamped : BOOLEAN]
Kinds == Reads \cup Saves \cup {"post", "none"}
CallRec == [kind : Kinds, pc : {"idle", "sent", "confirming", "answered", "failed"},
            at : Nat, alone : BOOLEAN]
HostInv == host \in HostRec /\ left \in 0..MaxActs

SettingCalls == {i \in Calls : call[i].kind \in Settings}
PageTyped ==
  /\ open \in BOOLEAN /\ shown \in Nat \cup {None} /\ error \in BOOLEAN /\ latest \in Calls \cup {None}
  /\ consentWrite \in BOOLEAN
  /\ call \in [Calls -> CallRec]

\* There is one save of a kind at a time, and the counters count them.
CountInv ==
  /\ IsFiniteSet(SettingCalls) /\ writes = Cardinality(SettingCalls)
  /\ (consentWrite <=> \E i \in Calls : call[i].kind = "consent")
  /\ \A i, j \in Calls : call[i].kind \in Saves /\ call[i].kind = call[j].kind => i = j

\* While a reading counts, nothing is saved.
LatestInv ==
  latest # None => call[latest].kind \in Reads /\ \A i \in Calls : call[i].kind \notin Saves

\* A save that is alone is the only one.
AloneInv ==
  \A i, j \in Calls : call[i].alone => call[i].kind \in Saves /\ (call[j].kind \in Saves => j = i)

\* What may be shown next is no older than what is shown.
OrderInv ==
  /\ \A i \in Calls : call[i].at <= host.at
  /\ shown # None =>
       /\ shown <= host.at
       /\ latest # None /\ call[latest].pc = "answered" => shown <= call[latest].at
       /\ \A i \in Calls : call[i].alone /\ call[i].pc = "answered" => shown <= call[i].at

PageInv == PageTyped /\ CountInv /\ LatestInv /\ AloneInv /\ OrderInv

\* Of two mounts in a window that are on their way, one waits for the other.
OnItsWay(m) == prompt[m].pc \notin {"new", "done"}
LineInv ==
  /\ \A m \in Mounts : OnItsWay(m) /\ prompt[m].pc # "queued" => prompt[m].after = {}
  /\ \A m, n \in Mounts :
       m # n /\ WindowOf[m] = WindowOf[n] /\ OnItsWay(m) /\ OnItsWay(n) =>
         n \in prompt[m].after \/ m \in prompt[n].after

\* With Web Locks, one mount holds the lock.
LockInv == locks => \A m, n \in Mounts : Holds(m) /\ Holds(n) => m = n

\* Who has sent a marker holds the lock until it has arrived, or is gone.
MarkerInv ==
  \A m \in Mounts : prompt[m].marker \in {"sent", "stored"} =>
     prompt[m].pc \in {"open", "closing"} \/ WindowOf[m] \in died

\* What a mount has read under the lock is still the case when it is rendered.
StampInv ==
  locks /\ died = {} => \A m \in Mounts : prompt[m].pc \in {"due", "view"} => ~host.stamped

LinesInv == PromptTypeOK /\ LineInv /\ LockInv /\ MarkerInv /\ StampInv
IInv == HostInv /\ PageInv /\ LinesInv

(***************************************************************************)
(* The host.                                                               *)
(***************************************************************************)

\* What the host does: its count grows, the marker stays.
Grows == host'.at >= host.at
StampStays == host'.stamped = host.stamped

\* The consent is set.
LEMMA SetConsentGrows ==
  ASSUME HostInv, NEW state \in {"granted", "withheld"}, SetConsent(state)
  PROVE  host' \in HostRec /\ host'.at \in Nat /\ host.at \in Nat /\ Grows /\ StampStays
<1> DEFINE at == host.at + 1
<1>1. host \in HostRec /\ host.at \in Nat /\ at \in Nat /\ at >= host.at
  BY DEF HostInv, HostRec
<1>2. host' = [host EXCEPT !.at = at, !.consent = state, !.changed = TRUE]
  BY DEF SetConsent
<1> HIDE DEF at
<1>3. host' \in HostRec /\ host'.at = at
  BY <1>1, <1>2 DEF HostRec
<1>4. StampStays
  BY <1>1, <1>2, Zenon DEF HostRec, StampStays
<1> QED BY <1>1, <1>3, <1>4 DEF Grows

\* An address is set.
LEMMA SetAddressGrows ==
  ASSUME HostInv, SetAddress
  PROVE  host' \in HostRec /\ host'.at \in Nat /\ host.at \in Nat /\ Grows /\ StampStays
<1> DEFINE at == host.at + 1
<1>1. host \in HostRec /\ host.at \in Nat /\ at \in Nat /\ at >= host.at
  BY DEF HostInv, HostRec
<1>2. host' = [host EXCEPT !.at = at]
  BY DEF SetAddress
<1> HIDE DEF at
<1>3. host' \in HostRec /\ host'.at = at
  BY <1>1, <1>2 DEF HostRec
<1>4. StampStays
  BY <1>1, <1>2, Zenon DEF HostRec, StampStays
<1> QED BY <1>1, <1>3, <1>4 DEF Grows

\* The marker is stamped.
LEMMA MarkShownGrows ==
  ASSUME HostInv, MarkShown
  PROVE  host' \in HostRec /\ host'.at \in Nat /\ host.at \in Nat /\ Grows
<1> DEFINE at == host.at + 1
<1>1. host \in HostRec /\ host.at \in Nat /\ at \in Nat /\ at >= host.at
  BY DEF HostInv, HostRec
<1>2. CASE host.stamped
  BY <1>1, <1>2 DEF MarkShown, Grows
<1>3. CASE ~host.stamped
  <2>1. host' = [host EXCEPT !.at = at, !.stamped = TRUE]
    BY <1>3 DEF MarkShown
  <2> HIDE DEF at
  <2>2. host' \in HostRec /\ host'.at = at
    BY <1>1, <2>1 DEF HostRec
  <2> QED BY <1>1, <2>2 DEF Grows
<1> QED BY <1>2, <1>3

\* The host does nothing.
LEMMA HostSame ==
  ASSUME HostInv, host' = host
  PROVE  host' \in HostRec /\ host'.at \in Nat /\ host.at \in Nat /\ Grows /\ StampStays
<1>1. host \in HostRec /\ host.at \in Nat
  BY DEF HostInv, HostRec
<1>2. StampStays
  BY Zenon DEF StampStays
<1> QED BY <1>1, <1>2 DEF Grows

\* An act is spent, or not.
LEMMA ActSpends ==
  ASSUME HostInv, Act \/ left' = left
  PROVE  left' \in 0..MaxActs
BY ActAssumption DEF HostInv, Act

(***************************************************************************)
(* The settings page.                                                      *)
(***************************************************************************)

\* What ShownGoesForward says of a step.
Forward ==
  shown # None /\ shown' # shown =>
    \/ shown' # None /\ shown' >= shown
    \/ \E i \in Calls : call[i].kind \in Saves /\ call[i].pc = "answered" /\ ~call[i].alone

\* The kinds of requests, one by one.
LEMMA KindsAre ==
  /\ Settings = {"server", "website"} /\ Saves = {"server", "website", "consent"}
  /\ Reads = {"poll", "refresh"}
  /\ Kinds = {"poll", "refresh", "server", "website", "consent", "post", "none"}
BY DEF Settings, Saves, Reads, Kinds

\* No request has nothing to say.
LEMMA NoCallTyped == NoCall \in CallRec /\ NoCall.kind = "none" /\ NoCall.pc = "idle" /\ NoCall.at = 0
<1>1. NoCall \in CallRec
  BY KindsAre DEF NoCall, CallRec
<1> QED BY <1>1 DEF NoCall

\* It is no save.
LEMMA NoCallAlone == ~NoCall.alone
BY Zenon DEF NoCall

\* When nothing is counted, nothing is saved.
LEMMA NoSaves ==
  ASSUME CountInv, ~consentWrite, writes = 0
  PROVE  \A j \in Calls : call[j].kind \notin Saves
<1>1. SettingCalls = {}
  BY FS_EmptySet DEF CountInv
<1>2. \A j \in Calls : call[j].kind \notin Settings
  BY <1>1 DEF SettingCalls
<1> QED BY <1>2, KindsAre DEF CountInv

\* The settings that are being saved are two at most.
LEMMA TwoSettings ==
  ASSUME CountInv
  PROVE  writes \in 0..2
<1>1. CASE SettingCalls = {}
  BY <1>1, FS_EmptySet DEF CountInv
<1>2. CASE SettingCalls # {}
  <2>1. PICK a \in SettingCalls : TRUE
    BY <1>2
  <2>2. PICK b \in SettingCalls : \A i \in SettingCalls : i = a \/ i = b
    <3>1. CASE \E j \in SettingCalls : call[j].kind # call[a].kind
      <4>1. PICK j \in SettingCalls : call[j].kind # call[a].kind
        BY <3>1
      <4>2. \A i \in SettingCalls : i = a \/ i = j
        BY <4>1, KindsAre DEF SettingCalls, CountInv
      <4> QED BY <4>2
    <3>2. CASE \A j \in SettingCalls : call[j].kind = call[a].kind
      <4>1. \A i \in SettingCalls : i = a
        BY <3>2, KindsAre DEF SettingCalls, CountInv
      <4> QED BY <4>1, <2>1
    <3> QED BY <3>1, <3>2
  <2>3. SettingCalls \subseteq {a} \cup {b}
    BY <2>2
  <2>4. IsFiniteSet({a}) /\ Cardinality({a}) = 1
    BY FS_Singleton
  <2>5. IsFiniteSet({a} \cup {b}) /\ Cardinality({a} \cup {b}) \in 0..2
    BY <2>4, FS_AddElement
  <2>6. Cardinality(SettingCalls) \in Nat /\ Cardinality(SettingCalls) <= Cardinality({a} \cup {b})
    BY <2>3, <2>5, FS_Subset, FS_CardinalityType
  <2> QED BY <2>5, <2>6 DEF CountInv
<1> QED BY <1>1, <1>2

\* A step of one request: it becomes r.
Turns(i, r) ==
  /\ call' = [call EXCEPT ![i] = r] /\ r \in CallRec
  /\ open' = open /\ error' \in BOOLEAN
  /\ r.kind = call[i].kind \/ r.kind \notin Saves
  /\ writes' = IF call[i].kind \in Settings /\ r.kind \notin Settings THEN writes - 1 ELSE writes
  /\ (consentWrite' <=> consentWrite /\ ~(call[i].kind = "consent" /\ r.kind # "consent"))
  /\ consentWrite' \in BOOLEAN
  /\ r.alone => call[i].alone /\ r.kind = call[i].kind
  /\ r.at <= host'.at
  /\ \/ latest' = None
     \/ latest' = latest /\ (latest = i => r.kind \in Reads)
     \/ latest' = i /\ r.kind \in Reads /\ \A j \in Calls : call[j].kind \notin Saves
  /\ \/ shown' = shown /\ (r.pc = "answered" => r.at = host'.at)
     \/ /\ shown' = call[i].at /\ call[i].pc = "answered" /\ r = NoCall
        /\ call[i].kind \in Saves \/ (latest = i /\ latest' = None)

\* Such a step keeps the types and the other requests,
LEMMA TurnsTyped ==
  ASSUME PageInv, NEW i \in Calls, NEW r, Turns(i, r)
  PROVE  /\ PageTyped' /\ call'[i] = r /\ \A j \in Calls \ {i} : call'[j] = call[j]
<1>1. call \in [Calls -> CallRec] /\ r \in CallRec /\ call' = [call EXCEPT ![i] = r]
  BY DEF Turns, PageInv, PageTyped
<1>2. call' \in [Calls -> CallRec] /\ call'[i] = r /\ \A j \in Calls \ {i} : call'[j] = call[j]
  BY <1>1
<1>3. call[i].at \in Nat
  BY <1>1 DEF CallRec
<1>4. shown' \in Nat \cup {None} /\ latest' \in Calls \cup {None}
  BY <1>3 DEF Turns, PageInv, PageTyped
<1> QED BY <1>2, <1>4 DEF Turns, PageInv, PageTyped

\* ... the counters,
LEMMA TurnsCounted ==
  ASSUME PageInv, NEW i \in Calls, NEW r, Turns(i, r)
  PROVE  CountInv'
<1>1. call'[i] = r /\ \A j \in Calls \ {i} : call'[j] = call[j]
  BY TurnsTyped
<1>2. r.kind = call[i].kind \/ r.kind \notin Saves
  BY DEF Turns
<1>3. CountInv
  BY DEF PageInv
<1>4. IsFiniteSet(SettingCalls') /\ writes' = Cardinality(SettingCalls')
  <2>1. CASE call[i].kind \in Settings /\ r.kind \notin Settings
    <3>1. SettingCalls' = SettingCalls \ {i} /\ i \in SettingCalls
      BY <1>1, <2>1 DEF SettingCalls
    <3>2. writes' = writes - 1
      BY <2>1 DEF Turns
    <3> QED BY <3>1, <3>2, <1>3, FS_RemoveElement DEF CountInv
  <2>2. CASE ~(call[i].kind \in Settings /\ r.kind \notin Settings)
    <3>1. SettingCalls' = SettingCalls
      BY <1>1, <1>2, <2>2, KindsAre DEF SettingCalls
    <3>2. writes' = writes
      BY <2>2 DEF Turns
    <3> QED BY <3>1, <3>2, <1>3 DEF CountInv
  <2> QED BY <2>1, <2>2
<1>5. \A j, k \in Calls : call'[j].kind \in Saves /\ call'[j].kind = call'[k].kind => j = k
  BY <1>1, <1>2, <1>3 DEF CountInv
<1>6. consentWrite' <=> \E j \in Calls : call'[j].kind = "consent"
  <2>1. consentWrite' <=> consentWrite /\ ~(call[i].kind = "consent" /\ r.kind # "consent")
    BY DEF Turns
  <2>2. "consent" \in Saves
    BY KindsAre
  <2>3. CASE call[i].kind = "consent" /\ r.kind # "consent"
    <3>1. \A j \in Calls : call'[j].kind # "consent"
      BY <1>1, <1>3, <2>2, <2>3 DEF CountInv
    <3> QED BY <3>1, <2>1, <2>3
  <2>4. CASE ~(call[i].kind = "consent" /\ r.kind # "consent")
    <3>1. \A j \in Calls : call'[j].kind = "consent" <=> call[j].kind = "consent"
      BY <1>1, <1>2, <2>2, <2>4
    <3> QED BY <3>1, <2>1, <2>4, <1>3 DEF CountInv
  <2> QED BY <2>3, <2>4
<1> QED BY <1>4, <1>5, <1>6 DEF CountInv

\* ... and the rest; what is shown does not go back.
LEMMA TurnsKeeps ==
  ASSUME HostInv, PageInv, host' \in HostRec, Grows, NEW i \in Calls, NEW r, Turns(i, r)
  PROVE  PageInv' /\ Forward
<1>1. /\ PageTyped' /\ call'[i] = r /\ \A j \in Calls \ {i} : call'[j] = call[j]
      /\ CountInv'
  BY TurnsTyped, TurnsCounted
<1>2. /\ host.at \in Nat /\ host'.at \in Nat /\ host.at <= host'.at
      /\ call \in [Calls -> CallRec] /\ \A j \in Calls : call[j].at \in Nat /\ call[j].at <= host.at
      /\ r \in CallRec /\ r.at \in Nat /\ r.at <= host'.at
      /\ None \notin Calls /\ shown \in Nat \cup {None} /\ latest \in Calls \cup {None}
  BY CallAssumption DEF HostInv, HostRec, Grows, PageInv, PageTyped, OrderInv, CallRec, Turns
<1>3. LatestInv'
  BY <1>1, <1>2 DEF Turns, PageInv, LatestInv
<1>4. AloneInv'
  BY <1>1, <1>2 DEF Turns, PageInv, AloneInv
<1>5. \A j \in Calls : call'[j].at <= host'.at
  BY <1>1, <1>2
<1>6. CASE shown' = shown /\ (r.pc = "answered" => r.at = host'.at)
  <2>1. ASSUME shown # None
        PROVE  /\ shown <= host'.at
               /\ latest' # None /\ call'[latest'].pc = "answered" => shown <= call'[latest'].at
               /\ \A j \in Calls : call'[j].alone /\ call'[j].pc = "answered" => shown <= call'[j].at
    <3>1. shown \in Nat /\ shown <= host.at /\ shown <= host'.at
      BY <1>2, <2>1 DEF PageInv, OrderInv
    <3>2. latest' \in {None, latest, i}
      BY DEF Turns
    <3>3. ASSUME latest' # None, call'[latest'].pc = "answered" PROVE shown <= call'[latest'].at
      <4>1. CASE latest' = i
        BY <4>1, <3>1, <3>3, <1>1, <1>6
      <4>2. CASE latest' # i
        BY <4>2, <3>2, <3>3, <1>1, <1>2, <2>1 DEF PageInv, OrderInv
      <4> QED BY <4>1, <4>2
    <3>4. ASSUME NEW j \in Calls, call'[j].alone, call'[j].pc = "answered" PROVE shown <= call'[j].at
      <4>1. CASE j = i
        BY <4>1, <3>1, <3>4, <1>1, <1>6
      <4>2. CASE j # i
        BY <4>2, <3>4, <1>1, <2>1 DEF PageInv, OrderInv
      <4> QED BY <4>1, <4>2
    <3> QED BY <3>1, <3>3, <3>4
  <2>2. OrderInv'
    BY <1>5, <1>6, <2>1 DEF OrderInv
  <2> QED BY <1>1, <1>3, <1>4, <1>6, <2>2 DEF PageInv, Forward
<1>7. CASE /\ shown' = call[i].at /\ call[i].pc = "answered" /\ r = NoCall
           /\ call[i].kind \in Saves \/ (latest = i /\ latest' = None)
  <2>1. latest' = None
    <3>1. CASE call[i].kind \in Saves
      <4>1. latest = None
        BY <3>1 DEF PageInv, LatestInv
      <4>2. NoCall.kind \notin Reads
        BY NoCallTyped, KindsAre
      <4> QED BY <4>1, <4>2, <1>7 DEF Turns
    <3> QED BY <3>1, <1>7
  <2>2. \A j \in Calls : ~call'[j].alone
    <3>1. ~call'[i].alone
      BY <1>1, <1>7, NoCallAlone
    <3>2. ASSUME NEW j \in Calls \ {i} PROVE ~call[j].alone
      <4>1. call[j].alone => call[j].kind \in Saves /\ (call[i].kind \in Saves => i = j)
        BY DEF PageInv, AloneInv
      <4>2. latest = i => call[j].kind \notin Saves
        BY <1>2 DEF PageInv, LatestInv
      <4> QED BY <4>1, <4>2, <1>7
    <3> QED BY <3>1, <3>2, <1>1
  <2>3. call[i].at \in Nat /\ call[i].at <= host'.at
    BY <1>2
  <2>4. OrderInv'
    BY <1>5, <1>7, <2>1, <2>2, <2>3 DEF OrderInv
  <2>5. Forward
    <3> SUFFICES ASSUME shown # None PROVE Forward
      BY DEF Forward
    <3>1. CASE call[i].kind \in Saves /\ ~call[i].alone
      BY <1>7, <3>1 DEF Forward
    <3>2. CASE ~(call[i].kind \in Saves /\ ~call[i].alone)
      <4>1. shown <= call[i].at
        BY <1>2, <1>7, <3>2 DEF PageInv, OrderInv
      <4>2. shown' # None
        BY <1>7, <2>3, CallAssumption
      <4> QED BY <1>2, <1>7, <2>3, <4>1, <4>2 DEF Forward
    <3> QED BY <3>1, <3>2
  <2> QED BY <1>1, <1>3, <1>4, <2>4, <2>5 DEF PageInv
<1> QED BY <1>6, <1>7 DEF Turns

\* A page action disturbs nothing else, and keeps the invariant of the page.
PageGood == PageInv' /\ Forward /\ host' \in HostRec /\ left' \in 0..MaxActs /\ Grows /\ StampStays

\* A request's fields.
LEMMA CallFields ==
  ASSUME PageInv, NEW i \in Calls
  PROVE  /\ call[i] \in CallRec /\ call[i].kind \in Kinds /\ call[i].alone \in BOOLEAN /\ call[i].at \in Nat
         /\ call[i].pc \in {"idle", "sent", "confirming", "answered", "failed"}
         /\ consentWrite \in BOOLEAN /\ error \in BOOLEAN /\ writes \in Nat
BY TwoSettings DEF PageInv, PageTyped, CallRec

\* A reading or a post is sent.
LEMMA SentTyped ==
  ASSUME NEW kind \in Reads \cup {"post"}
  PROVE  LET r == [NoCall EXCEPT !.kind = kind, !.pc = "sent"]
         IN  r \in CallRec /\ r.kind = kind /\ r.pc = "sent" /\ r.at = 0 /\ ~r.alone
<1> DEFINE r == [NoCall EXCEPT !.kind = kind, !.pc = "sent"]
<1>1. NoCall \in CallRec /\ kind \in Kinds
  BY NoCallTyped, KindsAre
<1>2. r \in CallRec /\ r.kind = kind /\ r.pc = "sent" /\ r.at = 0
  BY <1>1, NoCallTyped DEF CallRec
<1>3. ~r.alone
  BY Zenon DEF NoCall
<1> QED BY <1>2, <1>3

\* A reading or a post begins.
LEMMA BeginsKeeps ==
  ASSUME HostInv, PageInv, NEW i \in Calls, NEW kind \in Reads \cup {"post"}, Starts(i, kind),
         kind \in Reads => MayLoad /\ latest' = i,
         kind = "post" => latest' = latest,
         UNCHANGED <<open, shown, error, consentWrite, writes, host>>, Act \/ left' = left
  PROVE  PageGood
<1> DEFINE r == [NoCall EXCEPT !.kind = kind, !.pc = "sent"]
<1>1. r \in CallRec /\ r.kind = kind /\ r.pc = "sent" /\ r.at = 0 /\ ~r.alone
  BY SentTyped
<1>2. call' = [call EXCEPT ![i] = r] /\ call[i] = NoCall
  BY DEF Starts, Free
<1> HIDE DEF r
<1>3. call[i].kind = "none" /\ kind \notin Saves
  BY <1>2, NoCallTyped, KindsAre
<1>4. kind \in Reads => \A j \in Calls : call[j].kind \notin Saves
  BY NoSaves DEF MayLoad, PageInv
<1>5. host'.at \in Nat /\ host' \in HostRec /\ Grows /\ StampStays
  BY HostSame
<1>6. latest = i => kind \in Reads
  BY <1>3, KindsAre, CallAssumption DEF PageInv, LatestInv
<1>7. "none" \notin Settings /\ kind \in Reads \cup {"post"}
  BY KindsAre
<1>8. Turns(i, r)
  BY <1>1, <1>2, <1>3, <1>4, <1>5, <1>6, <1>7, CallFields DEF Turns
<1>9. PageInv' /\ Forward
  BY <1>5, <1>8, TurnsKeeps
<1> QED BY <1>5, <1>9, ActSpends DEF PageGood

\* A reading arrives.
LEMMA ReadArrivesKeeps ==
  ASSUME HostInv, PageInv, NEW i \in Calls, ReadArrives(i)
  PROVE  PageGood
<1>1. /\ call[i].kind \in Reads /\ call[i].pc \in {"answered", "failed"}
      /\ latest' = IF latest = i THEN None ELSE latest
      /\ call' = [call EXCEPT ![i] = NoCall]
      /\ UNCHANGED <<open, consentWrite, writes, host, left>>
  BY DEF ReadArrives, Ends
<1>2. /\ shown' = shown \/ (shown' = call[i].at /\ latest = i /\ call[i].pc = "answered")
      /\ error' \in BOOLEAN
  BY CallFields DEF ReadArrives
<1>3. host'.at \in Nat /\ host' \in HostRec /\ Grows /\ StampStays
  BY <1>1, HostSame
<1>4. NoCall \in CallRec /\ NoCall.kind \notin Saves /\ ~NoCall.alone /\ NoCall.at <= host'.at
      /\ NoCall.pc # "answered" /\ call[i].kind \notin Settings /\ call[i].kind # "consent"
  BY <1>1, <1>3, NoCallTyped, NoCallAlone, KindsAre
<1>5. Turns(i, NoCall)
  BY <1>1, <1>2, <1>4, CallFields DEF Turns
<1>6. PageInv' /\ Forward
  BY <1>3, <1>5, TurnsKeeps
<1> QED BY <1>1, <1>3, <1>6, ActSpends DEF PageGood

\* A setting has been saved, or not.
LEMMA SettingArrivesKeeps ==
  ASSUME HostInv, PageInv, NEW i \in Calls, SettingArrives(i)
  PROVE  PageGood
<1>1. /\ call[i].kind \in Settings /\ call[i].pc \in {"answered", "failed"}
      /\ shown' = IF call[i].pc = "answered" THEN call[i].at ELSE shown
      /\ writes' = writes - 1 /\ latest' = None /\ call' = [call EXCEPT ![i] = NoCall]
      /\ UNCHANGED <<open, error, consentWrite, host, left>>
  BY DEF SettingArrives, Ends
<1>2. host'.at \in Nat /\ host' \in HostRec /\ Grows /\ StampStays
  BY <1>1, HostSame
<1>3. NoCall \in CallRec /\ NoCall.kind \notin Saves /\ ~NoCall.alone /\ NoCall.at <= host'.at
      /\ NoCall.pc # "answered" /\ NoCall.kind \notin Settings
      /\ call[i].kind \in Saves /\ call[i].kind # "consent"
  BY <1>1, <1>2, NoCallTyped, NoCallAlone, KindsAre
<1>4. Turns(i, NoCall)
  BY <1>1, <1>3, CallFields DEF Turns
<1>5. PageInv' /\ Forward
  BY <1>2, <1>4, TurnsKeeps
<1> QED BY <1>1, <1>2, <1>5, ActSpends DEF PageGood

\* A consent has been saved, or not.
LEMMA ConsentArrivesKeeps ==
  ASSUME HostInv, PageInv, NEW i \in Calls, ConsentArrives(i)
  PROVE  PageGood
<1>1. /\ call[i].kind = "consent" /\ call[i].pc \in {"answered", "failed"}
      /\ shown' = IF call[i].pc = "answered" THEN call[i].at ELSE shown
      /\ consentWrite' = FALSE /\ call' = [call EXCEPT ![i] = NoCall]
      /\ UNCHANGED <<open, error, latest, writes, host, left>>
  BY DEF ConsentArrives, Ends
<1>2. host'.at \in Nat /\ host' \in HostRec /\ Grows /\ StampStays
  BY <1>1, HostSame
<1>3. NoCall \in CallRec /\ NoCall.kind \notin Saves /\ ~NoCall.alone /\ NoCall.at <= host'.at
      /\ NoCall.pc # "answered" /\ NoCall.kind \notin Settings /\ NoCall.kind # "consent"
      /\ call[i].kind \in Saves /\ call[i].kind \notin Settings
  BY <1>1, <1>2, NoCallTyped, NoCallAlone, KindsAre
<1>4. latest = None
  BY <1>3 DEF PageInv, LatestInv
<1>5. Turns(i, NoCall)
  BY <1>1, <1>3, <1>4, CallFields DEF Turns
<1>6. PageInv' /\ Forward
  BY <1>2, <1>5, TurnsKeeps
<1> QED BY <1>1, <1>2, <1>6, ActSpends DEF PageGood

\* A post is answered, and may go on as a reading.
LEMMA PostArrivesKeeps ==
  ASSUME HostInv, PageInv, NEW i \in Calls, PostArrives(i)
  PROVE  PageGood
<1>1. /\ call[i].kind = "post" /\ call[i].pc \in {"answered", "failed"}
      /\ error' = (error \/ call[i].pc = "failed")
      /\ UNCHANGED <<open, shown, consentWrite, writes, host, left>>
  BY DEF PostArrives
<1>2. host'.at \in Nat /\ host' \in HostRec /\ Grows /\ StampStays
  BY <1>1, HostSame
<1>3. "post" \notin Saves /\ "post" \notin Reads /\ "refresh" \in Reads /\ "refresh" \notin Saves
      /\ error' \in BOOLEAN /\ "post" \notin Settings
  BY <1>1, KindsAre, CallFields
<1>4. latest # i
  BY <1>1, <1>3, CallAssumption DEF PageInv, LatestInv
<1>5. CASE call[i].pc = "answered" /\ MayLoad
  <2> DEFINE r == [call[i] EXCEPT !.kind = "refresh", !.pc = "sent", !.at = 0]
  <2>1. latest' = i /\ call' = [call EXCEPT ![i] = r]
    BY <1>5, CallFields DEF PostArrives, PageInv, PageTyped, CallRec
  <2>2. r \in CallRec /\ r.kind = "refresh" /\ r.pc = "sent" /\ r.at = 0
    BY CallFields, KindsAre DEF CallRec
  <2>3. r.alone <=> call[i].alone
    BY CallFields, Zenon DEF CallRec
  <2> HIDE DEF r
  <2>4. ~call[i].alone
    BY <1>1, <1>3 DEF PageInv, AloneInv
  <2>5. \A j \in Calls : call[j].kind \notin Saves
    BY <1>5, NoSaves DEF MayLoad, PageInv
  <2>6. Turns(i, r)
    BY <1>1, <1>2, <1>3, <2>1, <2>2, <2>3, <2>4, <2>5, CallFields DEF Turns
  <2>7. PageInv' /\ Forward
    BY <1>2, <2>6, TurnsKeeps
  <2> QED BY <1>1, <1>2, <2>7, ActSpends DEF PageGood
<1>6. CASE ~(call[i].pc = "answered" /\ MayLoad)
  <2>1. latest' = latest /\ call' = [call EXCEPT ![i] = NoCall]
    BY <1>6 DEF PostArrives, Ends
  <2>2. NoCall \in CallRec /\ NoCall.kind \notin Saves /\ ~NoCall.alone /\ NoCall.at <= host'.at
        /\ NoCall.pc # "answered"
    BY <1>2, NoCallTyped, NoCallAlone, KindsAre
  <2>3. Turns(i, NoCall)
    BY <1>1, <1>3, <1>4, <2>1, <2>2, CallFields DEF Turns
  <2>4. PageInv' /\ Forward
    BY <1>2, <2>3, TurnsKeeps
  <2> QED BY <1>1, <1>2, <2>4, ActSpends DEF PageGood
<1> QED BY <1>5, <1>6

\* The host answers a request.
LEMMA HostAnswersKeeps ==
  ASSUME HostInv, PageInv, NEW i \in Calls, HostAnswers(i)
  PROVE  PageGood
<1> DEFINE pc == IF call[i].kind = "consent" /\ call[i].pc = "sent" THEN "confirming" ELSE "answered"
           at == host'.at
           r == [call[i] EXCEPT !.at = at, !.pc = pc]
<1>1. at \in Nat /\ host' \in HostRec /\ Grows /\ StampStays
  BY SetAddressGrows, SetConsentGrows, HostSame DEF HostAnswers
<1>2. UNCHANGED <<open, shown, error, latest, consentWrite, writes, left>>
  BY DEF HostAnswers
<1>3. call' = [call EXCEPT ![i].at = at, ![i].pc = IF call[i].kind = "consent" /\ @ = "sent" THEN "confirming" ELSE "answered"]
  BY DEF HostAnswers
<1> HIDE DEF at
<1>4. call' = [call EXCEPT ![i] = r]
  BY <1>3, CallFields DEF PageInv, PageTyped, CallRec
<1>5. pc \in {"confirming", "answered"}
  OBVIOUS
<1> HIDE DEF pc
<1>6. r \in CallRec /\ r.kind = call[i].kind /\ r.at = at
  BY <1>1, <1>5, CallFields DEF CallRec
<1>7. r.alone <=> call[i].alone
  BY CallFields, Zenon DEF CallRec
<1> HIDE DEF r
<1>8. r.at <= host'.at /\ r.at = host'.at
  BY <1>1, <1>6 DEF at
<1>9. latest = i => call[i].kind \in Reads
  BY CallAssumption DEF PageInv, LatestInv
<1>10. Turns(i, r)
  BY <1>2, <1>4, <1>6, <1>7, <1>8, <1>9, CallFields DEF Turns
<1>11. PageInv' /\ Forward
  BY <1>1, <1>10, TurnsKeeps
<1> QED BY <1>1, <1>2, <1>11, ActSpends DEF PageGood

\* A request fails.
LEMMA CallFailsKeeps ==
  ASSUME HostInv, PageInv, NEW i \in Calls, CallFails(i)
  PROVE  PageGood
<1> DEFINE r == [call[i] EXCEPT !.pc = "failed", !.at = 0]
<1>1. host'.at \in Nat /\ host' \in HostRec /\ Grows /\ StampStays
  BY HostSame DEF CallFails
<1>2. UNCHANGED <<open, shown, error, latest, consentWrite, writes>> /\ Act
  BY DEF CallFails
<1>3. call' = [call EXCEPT ![i] = r]
  BY CallFields DEF CallFails, PageInv, PageTyped, CallRec
<1>4. r \in CallRec /\ r.kind = call[i].kind /\ r.at = 0 /\ r.pc = "failed"
  BY CallFields DEF CallRec
<1>5. r.alone <=> call[i].alone
  BY CallFields, Zenon DEF CallRec
<1> HIDE DEF r
<1>6. latest = i => call[i].kind \in Reads
  BY CallAssumption DEF PageInv, LatestInv
<1>7. r.at <= host'.at
  BY <1>1, <1>4
<1>8. Turns(i, r)
  BY <1>2, <1>3, <1>4, <1>5, <1>6, <1>7, CallFields DEF Turns
<1>9. PageInv' /\ Forward
  BY <1>1, <1>8, TurnsKeeps
<1> QED BY <1>1, <1>2, <1>9, ActSpends DEF PageGood

\* A save is entered: it overlaps the others, and no reading counts any more.
LEMMA SaveKeeps ==
  ASSUME HostInv, PageInv, NEW i \in Calls, NEW kind \in Saves, Save(i, kind), latest' = None,
         kind \in Settings => writes' = writes + 1 /\ consentWrite' = consentWrite,
         kind = "consent" => writes' = writes /\ consentWrite' = TRUE
  PROVE  PageGood
<1> DEFINE r == [kind |-> kind, pc |-> "sent", at |-> 0, alone |-> ~UnderWay(Saves)]
<1>1. /\ call' = [j \in Calls |-> IF j = i THEN r ELSE [call[j] EXCEPT !.alone = FALSE]]
      /\ \A j \in Calls : call[j].kind # kind
      /\ call[i] = NoCall /\ Act /\ UNCHANGED <<open, shown, error, host>>
  BY DEF Save, UnderWay, Free
<1>2. host'.at \in Nat /\ host' \in HostRec /\ host.at \in Nat /\ Grows /\ StampStays
  BY <1>1, HostSame
<1>3. UnderWay(Saves) \in BOOLEAN
  BY DEF UnderWay
<1>4. r \in CallRec /\ r.kind = kind /\ r.pc = "sent" /\ r.at = 0
  BY <1>3, KindsAre DEF CallRec
<1>5. r.alone => \A j \in Calls : call[j].kind \notin Saves
  <2>1. r.alone = ~UnderWay(Saves)
    BY Zenon
  <2>2. ASSUME r.alone PROVE ~UnderWay(Saves)
    BY <2>1, <2>2, Zenon
  <2> QED BY <2>2 DEF UnderWay
<1> HIDE DEF r
<1>6. ASSUME NEW j \in Calls \ {i}
      PROVE  /\ call'[j] \in CallRec /\ call'[j].kind = call[j].kind
             /\ call'[j].at = call[j].at /\ call'[j].pc = call[j].pc /\ ~call'[j].alone
  <2> DEFINE s == [call[j] EXCEPT !.alone = FALSE]
  <2>1. call'[j] = s
    BY <1>1
  <2>2. s \in CallRec /\ s.kind = call[j].kind /\ s.at = call[j].at /\ s.pc = call[j].pc
    BY CallFields DEF CallRec
  <2>3. ~s.alone
    BY CallFields, Zenon DEF CallRec
  <2> HIDE DEF s
  <2> QED BY <2>1, <2>2, <2>3
<1>7. call'[i] = r /\ call' \in [Calls -> CallRec]
  BY <1>1, <1>4, <1>6
<1>8. consentWrite' \in BOOLEAN
  BY KindsAre, CallFields
<1>9. PageTyped'
  BY <1>1, <1>7, <1>8 DEF PageInv, PageTyped
<1>10. CountInv
  BY DEF PageInv
<1>11. call[i].kind = "none" /\ "none" \notin Saves /\ "consent" \in Saves
  BY <1>1, NoCallTyped, KindsAre
<1>12. IsFiniteSet(SettingCalls') /\ writes' = Cardinality(SettingCalls')
  <2>1. CASE kind \in Settings
    <3>1. SettingCalls' = SettingCalls \cup {i} /\ i \notin SettingCalls
      BY <1>4, <1>6, <1>7, <1>11, <2>1, KindsAre DEF SettingCalls
    <3> QED BY <3>1, <2>1, <1>10, FS_AddElement DEF CountInv
  <2>2. CASE kind \notin Settings
    <3>1. SettingCalls' = SettingCalls
      BY <1>4, <1>6, <1>7, <1>11, <2>2, KindsAre DEF SettingCalls
    <3>2. writes' = writes
      BY <2>2, KindsAre
    <3> QED BY <3>1, <3>2, <1>10 DEF CountInv
  <2> QED BY <2>1, <2>2
<1>13. consentWrite' <=> \E j \in Calls : call'[j].kind = "consent"
  <2>1. CASE kind = "consent"
    BY <2>1, <1>4, <1>7
  <2>2. CASE kind # "consent"
    <3>1. \A j \in Calls : call'[j].kind = "consent" <=> call[j].kind = "consent"
      BY <2>2, <1>4, <1>6, <1>7, <1>11
    <3>2. consentWrite' = consentWrite
      BY <2>2, KindsAre
    <3> QED BY <3>1, <3>2, <1>10 DEF CountInv
  <2> QED BY <2>1, <2>2
<1>14. \A j, k \in Calls : call'[j].kind \in Saves /\ call'[j].kind = call'[k].kind => j = k
  BY <1>1, <1>4, <1>6, <1>7, <1>10 DEF CountInv
<1>15. CountInv' /\ LatestInv'
  BY <1>12, <1>13, <1>14 DEF CountInv, LatestInv
<1>16. AloneInv'
  <2> SUFFICES ASSUME NEW j \in Calls, NEW k \in Calls, call'[j].alone
               PROVE  call'[j].kind \in Saves /\ (call'[k].kind \in Saves => k = j)
    BY DEF AloneInv
  <2>1. j = i /\ r.alone
    BY <1>6, <1>7
  <2> QED BY <2>1, <1>4, <1>5, <1>6, <1>7
<1>17. \A j \in Calls : call'[j].at <= host'.at
  <2>1. host' = host /\ \A j \in Calls : call[j].at <= host.at
    BY <1>1 DEF PageInv, OrderInv
  <2>2. ASSUME NEW j \in Calls PROVE call'[j].at <= host'.at
    <3>1. CASE j = i
      BY <3>1, <1>2, <1>4, <1>7
    <3>2. CASE j # i
      BY <3>2, <2>1, <1>6
    <3> QED BY <3>1, <3>2
  <2> QED BY <2>2
<1>18. OrderInv'
  <2>1. shown # None => shown <= host.at
    BY DEF PageInv, OrderInv
  <2>2. \A j \in Calls : ~(call'[j].alone /\ call'[j].pc = "answered")
    BY <1>4, <1>6, <1>7
  <2> QED BY <1>1, <1>17, <2>1, <2>2 DEF OrderInv
<1>19. Forward /\ left' \in 0..MaxActs
  BY <1>1, ActSpends DEF Forward
<1> QED BY <1>2, <1>9, <1>15, <1>16, <1>18, <1>19 DEF PageGood, PageInv

\* Every step of the page.
LEMMA PageNextGood ==
  ASSUME HostInv, PageInv, PageNext
  PROVE  PageGood
<1>1. PICK i \in Calls : Poll(i) \/ Focus(i) \/ SaveConsent(i) \/ SaveSetting(i) \/ Post(i)
                           \/ HostAnswers(i) \/ CallFails(i) \/ Arrives(i)
  BY DEF PageNext
<1> USE KindsAre
<1>2. CASE Poll(i)
  BY <1>2, BeginsKeeps DEF Poll
<1>3. CASE Focus(i)
  BY <1>3, BeginsKeeps DEF Focus
<1>4. CASE SaveConsent(i)
  BY <1>4, SaveKeeps DEF SaveConsent
<1>5. CASE SaveSetting(i)
  <2>1. PICK kind \in Settings : Save(i, kind)
    BY <1>5 DEF SaveSetting
  <2> QED BY <2>1, <1>5, SaveKeeps DEF SaveSetting
<1>6. CASE Post(i)
  BY <1>6, BeginsKeeps DEF Post
<1>7. CASE HostAnswers(i)
  BY <1>7, HostAnswersKeeps
<1>8. CASE CallFails(i)
  BY <1>8, CallFailsKeeps
<1>9. CASE Arrives(i)
  BY <1>9, ReadArrivesKeeps, SettingArrivesKeeps, ConsentArrivesKeeps, PostArrivesKeeps DEF Arrives
<1> QED BY <1>1, <1>2, <1>3, <1>4, <1>5, <1>6, <1>7, <1>8, <1>9

\* The page is left alone.
LEMMA PageWaits ==
  ASSUME HostInv, PageInv, UNCHANGED pageVars, host' \in HostRec, Grows
  PROVE  PageInv'
<1>1. UNCHANGED <<open, shown, error, latest, consentWrite, writes, call>>
  BY DEF pageVars
<1>2. PageTyped' /\ CountInv' /\ LatestInv' /\ AloneInv'
  BY <1>1 DEF PageInv, PageTyped, CountInv, SettingCalls, LatestInv, AloneInv
<1>3. /\ host.at \in Nat /\ host'.at \in Nat /\ host.at <= host'.at
      /\ \A j \in Calls : call[j].at \in Nat
      /\ shown \in Nat \cup {None}
  BY CallFields DEF HostInv, HostRec, Grows, PageInv, PageTyped
<1>4. OrderInv'
  BY <1>1, <1>3 DEF PageInv, OrderInv
<1> QED BY <1>2, <1>4 DEF PageInv

(***************************************************************************)
(* The prompts.                                                            *)
(***************************************************************************)

\* A mount's fields.
LEMMA MountFields ==
  ASSUME PromptTypeOK, NEW m \in Mounts
  PROVE  /\ prompt \in [Mounts -> Mount0] /\ prompt[m] \in Mount0 /\ prompt[m].after \subseteq Mounts
         /\ prompt[m].active \in BOOLEAN
BY DEF PromptTypeOK, Mount0

\* A mount becomes the record r.
Is(m, r) == prompt' = [prompt EXCEPT ![m] = r] /\ r \in Mount0

\* What one field of a mount becomes.
LEMMA BecomesPc ==
  ASSUME PromptTypeOK, NEW m \in Mounts,
         NEW pc \in {"new", "queued", "locking", "reading", "due", "view", "open", "closing", "done"},
         Becomes(m, "pc", pc)
  PROVE  \E r : Is(m, r) /\ r.pc = pc /\ r.after = prompt[m].after /\ r.marker = prompt[m].marker
<1> DEFINE r == [prompt[m] EXCEPT !.pc = pc]
<1>1. prompt' = [prompt EXCEPT ![m] = r]
  BY MountFields DEF Becomes, Mount0
<1>2. r \in Mount0 /\ r.pc = pc /\ r.after = prompt[m].after /\ r.marker = prompt[m].marker
  BY MountFields DEF Mount0
<1> QED BY <1>1, <1>2 DEF Is

\* The same of the marker,
LEMMA BecomesMarker ==
  ASSUME PromptTypeOK, NEW m \in Mounts, NEW value \in {"none", "sent", "stored", "ok", "failed"},
         Becomes(m, "marker", value)
  PROVE  \E r : Is(m, r) /\ r.pc = prompt[m].pc /\ r.after = prompt[m].after /\ r.marker = value
<1> DEFINE r == [prompt[m] EXCEPT !.marker = value]
<1>1. prompt' = [prompt EXCEPT ![m] = r]
  BY MountFields DEF Becomes, Mount0
<1>2. r \in Mount0 /\ r.pc = prompt[m].pc /\ r.after = prompt[m].after /\ r.marker = value
  BY MountFields DEF Mount0
<1> QED BY <1>1, <1>2 DEF Is

\* ... of the steps of "Enable",
LEMMA BecomesEnable ==
  ASSUME PromptTypeOK, NEW m \in Mounts, NEW value \in {"no", "checking", "granting", "confirming"},
         Becomes(m, "enable", value)
  PROVE  \E r : Is(m, r) /\ r.pc = prompt[m].pc /\ r.after = prompt[m].after /\ r.marker = prompt[m].marker
<1> DEFINE r == [prompt[m] EXCEPT !.enable = value]
<1>1. prompt' = [prompt EXCEPT ![m] = r]
  BY MountFields DEF Becomes, Mount0
<1>2. r \in Mount0 /\ r.pc = prompt[m].pc /\ r.after = prompt[m].after /\ r.marker = prompt[m].marker
  BY MountFields DEF Mount0
<1> QED BY <1>1, <1>2 DEF Is

\* ... and of the cleanup.
LEMMA BecomesInactive ==
  ASSUME PromptTypeOK, NEW m \in Mounts, Becomes(m, "active", FALSE)
  PROVE  \E r : Is(m, r) /\ r.pc = prompt[m].pc /\ r.after = prompt[m].after /\ r.marker = prompt[m].marker
<1> DEFINE r == [prompt[m] EXCEPT !.active = FALSE]
<1>1. prompt' = [prompt EXCEPT ![m] = r]
  BY MountFields DEF Becomes, Mount0
<1>2. r \in Mount0 /\ r.pc = prompt[m].pc /\ r.after = prompt[m].after /\ r.marker = prompt[m].marker
  BY MountFields DEF Mount0
<1> QED BY <1>1, <1>2 DEF Is

Past == {"locking", "reading", "due", "view", "open", "closing"}
Holding == {"reading", "due", "view", "open", "closing"}

\* Its place in the line: it stays, it moves on, it gets its turn, or it joins.
InLine(m, r) ==
  \/ r.pc = prompt[m].pc /\ r.after = prompt[m].after
  \/ prompt[m].pc \in Past /\ r.pc \in Past \cup {"done"} /\ r.after = prompt[m].after
  \/ /\ prompt[m].pc = "queued" /\ r.pc \in {"locking", "reading", "done"} /\ r.after = {}
     /\ \A n \in prompt[m].after : prompt[n].pc = "done"
  \/ prompt[m].pc = "new" /\ r.pc = "queued" /\ r.after = {n \in Fellows(m) : ~At(n, "new")}

\* A step of one mount.
MountStep(m, r) ==
  /\ Is(m, r) /\ died' = died /\ locks' = locks
  /\ InLine(m, r)
  /\ locks /\ r.pc \in Holding => prompt[m].pc \in Holding \/ ~\E n \in Mounts : Holds(n)
  /\ r.marker \in {"sent", "stored"} => r.pc \in {"open", "closing"} \/ WindowOf[m] \in died
  /\ r.pc \in {"due", "view"} => prompt[m].pc \in {"due", "view"} \/ (StampStays /\ ~host.stamped)
  /\ StampStays \/ prompt[m].marker = "sent"

\* A step of one mount keeps the line.
LEMMA MountStepLine ==
  ASSUME LinesInv, NEW m \in Mounts, NEW r, MountStep(m, r)
  PROVE  LineInv'
<1>1. prompt'[m] = r /\ \A n \in Mounts \ {m} : prompt'[n] = prompt[n]
  BY MountFields DEF MountStep, Is, LinesInv
<1>2. InLine(m, r) /\ LineInv
  BY DEF MountStep, LinesInv
<1>3. \A n \in Mounts : OnItsWay(n)' /\ prompt'[n].pc # "queued" => prompt'[n].after = {}
  BY <1>1, <1>2 DEF InLine, LineInv, OnItsWay, Past
<1>4. ASSUME NEW n \in Mounts \ {m}, WindowOf[m] = WindowOf[n], r.pc \notin {"new", "done"}, OnItsWay(n)
      PROVE  n \in r.after \/ m \in prompt[n].after
  <2>1. CASE prompt[m].pc = "new" /\ r.after = {j \in Fellows(m) : ~At(j, "new")}
    BY <1>4, <2>1 DEF Fellows, At, OnItsWay
  <2>2. CASE prompt[m].pc = "queued" /\ r.after = {} /\ \A j \in prompt[m].after : prompt[j].pc = "done"
    <3>1. n \notin prompt[m].after
      BY <1>4, <2>2 DEF OnItsWay
    <3> QED BY <3>1, <1>2, <1>4, <2>2 DEF LineInv, OnItsWay
  <2>3. CASE r.after = prompt[m].after /\ OnItsWay(m)
    BY <1>2, <1>4, <2>3 DEF LineInv
  <2> QED BY <1>2, <1>4, <2>1, <2>2, <2>3 DEF InLine, OnItsWay, Past
<1>5. ASSUME NEW j \in Mounts, NEW n \in Mounts, j # n, WindowOf[j] = WindowOf[n], OnItsWay(j)', OnItsWay(n)'
      PROVE  n \in prompt'[j].after \/ j \in prompt'[n].after
  <2>1. CASE j = m
    BY <1>1, <1>4, <1>5, <2>1 DEF OnItsWay
  <2>2. CASE n = m
    BY <1>1, <1>4, <1>5, <2>2 DEF OnItsWay
  <2>3. CASE j # m /\ n # m
    BY <1>1, <1>2, <1>5, <2>3 DEF OnItsWay, LineInv
  <2> QED BY <2>1, <2>2, <2>3
<1> QED BY <1>3, <1>5 DEF LineInv

\* It keeps the other parts of the invariant.
LEMMA MountStepKeeps ==
  ASSUME LinesInv, NEW m \in Mounts, NEW r, MountStep(m, r)
  PROVE  LinesInv'
<1>1. prompt'[m] = r /\ \A n \in Mounts \ {m} : prompt'[n] = prompt[n]
  BY MountFields DEF MountStep, Is, LinesInv
<1>2. PromptTypeOK'
  BY DEF MountStep, Is, LinesInv, PromptTypeOK
<1>3. LineInv'
  BY MountStepLine
<1>4. died' = died /\ locks' = locks /\ locks \in BOOLEAN
  BY DEF MountStep, LinesInv, PromptTypeOK
<1>5. \A n \in Mounts : Holds(n) <=> prompt[n].pc \in Holding
  BY DEF Holds, Holding
<1>6. \A n \in Mounts : Holds(n)' <=> prompt'[n].pc \in Holding
  BY DEF Holds, Holding
<1>7. LockInv'
  <2> SUFFICES ASSUME locks', NEW j \in Mounts, NEW n \in Mounts, Holds(j)', Holds(n)' PROVE j = n
    BY DEF LockInv
  <2>1. locks /\ LockInv
    BY <1>4 DEF LinesInv
  <2>2. r.pc \in Holding => prompt[m].pc \in Holding \/ \A k \in Mounts : ~Holds(k)
    BY <2>1 DEF MountStep
  <2>3. CASE j = m \/ n = m
    BY <1>1, <1>5, <1>6, <2>1, <2>2, <2>3 DEF LockInv
  <2>4. CASE j # m /\ n # m
    BY <1>1, <1>5, <1>6, <2>1, <2>4 DEF LockInv
  <2> QED BY <2>3, <2>4
<1>8. MarkerInv'
  BY <1>1, <1>4 DEF MountStep, LinesInv, MarkerInv
<1>9. StampInv'
  <2> SUFFICES ASSUME locks', died' = {}, NEW n \in Mounts, prompt'[n].pc \in {"due", "view"}
               PROVE  ~host'.stamped
    BY DEF StampInv
  <2>1. locks /\ died = {} /\ LockInv /\ MarkerInv
    BY <1>4 DEF LinesInv
  <2>2. prompt[n].pc \in {"due", "view"} \/ (StampStays /\ ~host.stamped)
    BY <1>1 DEF MountStep
  <2>3. CASE StampStays /\ ~host.stamped
    BY <2>3, Zenon DEF StampStays
  <2>4. CASE prompt[n].pc \in {"due", "view"}
    <3>1. ~host.stamped
      BY <2>1, <2>4 DEF LinesInv, StampInv
    <3>2. StampStays
      <4>1. ASSUME prompt[m].marker = "sent" PROVE FALSE
        <5>1. prompt[m].pc \in {"open", "closing"}
          BY <2>1, <4>1 DEF MarkerInv
        <5>2. m = n
          BY <2>1, <2>4, <5>1 DEF LockInv, Holds
        <5> QED BY <5>1, <5>2, <2>4
      <4> QED BY <4>1 DEF MountStep
    <3> QED BY <3>1, <3>2, Zenon DEF StampStays
  <2> QED BY <2>2, <2>3, <2>4
<1> QED BY <1>2, <1>3, <1>7, <1>8, <1>9 DEF LinesInv

\* An action of the prompts disturbs nothing else, and keeps their invariant.
PromptGood == LinesInv' /\ host' \in HostRec /\ left' \in 0..MaxActs /\ Grows

\* What holds of a mount before a step.
LEMMA MountIs ==
  ASSUME LinesInv, NEW m \in Mounts
  PROVE  /\ PromptTypeOK
         /\ prompt[m].pc \in {"new", "queued", "done"} \cup Past
         /\ prompt[m].marker \in {"sent", "stored"} => prompt[m].pc \in {"open", "closing"} \/ WindowOf[m] \in died
         /\ prompt[m].pc \in Past => prompt[m].after = {}
BY MountFields DEF LinesInv, MarkerInv, LineInv, OnItsWay, Past, Mount0

\* A step that leaves the place of a mount as it is.
LEMMA StaysInPlace ==
  ASSUME LinesInv, NEW m \in Mounts, NEW r, Is(m, r), died' = died, locks' = locks,
         r.pc = prompt[m].pc, r.after = prompt[m].after,
         \/ r.marker = prompt[m].marker \/ r.marker \in {"none", "ok", "failed"}
         \/ r.marker = "stored" /\ prompt[m].marker = "sent",
         StampStays \/ prompt[m].marker = "sent"
  PROVE  LinesInv'
<1>1. MountStep(m, r)
  BY MountIs DEF MountStep, InLine, Holding, Holds
<1> QED BY <1>1, MountStepKeeps

\* A step that moves a mount on its way on.
LEMMA MovesOn ==
  ASSUME LinesInv, NEW m \in Mounts, NEW r, Is(m, r), died' = died, locks' = locks,
         prompt[m].pc \in Past, r.pc \in Past \cup {"done"}, r.after = prompt[m].after,
         r.marker = prompt[m].marker,
         r.marker \in {"sent", "stored"} => r.pc \in {"open", "closing"} \/ WindowOf[m] \in died,
         locks /\ r.pc \in Holding => prompt[m].pc \in Holding \/ ~\E n \in Mounts : Holds(n),
         r.pc \in {"due", "view"} => prompt[m].pc \in {"due", "view"} \/ ~host.stamped,
         StampStays
  PROVE  LinesInv'
<1>1. MountStep(m, r)
  BY DEF MountStep, InLine
<1> QED BY <1>1, MountStepKeeps

\* A mount joins the line, behind all that are in it.
LEMMA MountedKeeps ==
  ASSUME HostInv, LinesInv, NEW m \in Mounts, Mounted(m)
  PROVE  PromptGood
<1> DEFINE r == [prompt[m] EXCEPT !.pc = "queued", !.after = {n \in Fellows(m) : ~At(n, "new")}]
<1>1. prompt' = [prompt EXCEPT ![m] = r]
  BY MountFields DEF Mounted, LinesInv, Mount0
<1>2. r \in Mount0 /\ r.pc = "queued" /\ r.marker = prompt[m].marker
      /\ r.after = {n \in Fellows(m) : ~At(n, "new")}
  BY MountFields DEF LinesInv, Mount0, Fellows
<1> HIDE DEF r
<1>3. /\ prompt[m].pc = "new" /\ WindowOf[m] \notin died
      /\ host' = host /\ UNCHANGED <<locks, died, left>>
  BY DEF Mounted, At
<1>4. host' \in HostRec /\ Grows /\ StampStays
  BY <1>3, HostSame
<1>5. MountStep(m, r)
  BY <1>1, <1>2, <1>3, <1>4, MountIs DEF MountStep, Is, InLine, Holding, Past
<1> QED BY <1>3, <1>4, <1>5, MountStepKeeps, ActSpends DEF PromptGood

\* A mount is taken away.
LEMMA UnmountedKeeps ==
  ASSUME HostInv, LinesInv, NEW m \in Mounts, Unmounted(m)
  PROVE  PromptGood
<1>1. Becomes(m, "active", FALSE) /\ Act /\ host' = host /\ UNCHANGED <<locks, died>>
  BY DEF Unmounted
<1>2. host' \in HostRec /\ Grows /\ StampStays
  BY <1>1, HostSame
<1>3. PICK r : Is(m, r) /\ r.pc = prompt[m].pc /\ r.after = prompt[m].after /\ r.marker = prompt[m].marker
  BY <1>1, BecomesInactive DEF LinesInv
<1>4. LinesInv'
  BY <1>1, <1>2, <1>3, StaysInPlace
<1> QED BY <1>1, <1>2, <1>4, ActSpends DEF PromptGood

\* A mount gets its turn.
LEMMA TurnKeeps ==
  ASSUME HostInv, LinesInv, NEW m \in Mounts, Turn(m)
  PROVE  PromptGood
<1> DEFINE pc == IF ~prompt[m].active THEN "done" ELSE IF locks THEN "locking" ELSE "reading"
           r == [prompt[m] EXCEPT !.after = {}, !.pc = pc]
<1>1. /\ prompt[m].pc = "queued" /\ \A n \in prompt[m].after : prompt[n].pc = "done"
      /\ host' = host /\ UNCHANGED <<locks, died, left>>
  BY DEF Turn, At
<1>2. prompt' = [prompt EXCEPT ![m] = r]
  BY MountFields DEF Turn, LinesInv, Mount0
<1>3. pc \in {"done", "locking", "reading"} /\ (locks => pc # "reading")
  OBVIOUS
<1> HIDE DEF pc
<1>4. r \in Mount0 /\ r.pc = pc /\ r.after = {} /\ r.marker = prompt[m].marker
  BY <1>3, MountFields DEF LinesInv, Mount0
<1> HIDE DEF r
<1>5. host' \in HostRec /\ Grows /\ StampStays
  BY <1>1, HostSame
<1>6. MountStep(m, r)
  BY <1>1, <1>2, <1>3, <1>4, <1>5, MountIs DEF MountStep, Is, InLine, Holding
<1> QED BY <1>1, <1>5, <1>6, MountStepKeeps, ActSpends DEF PromptGood

\* The actions by which a mount goes on to another place.
LEMMA GoesKeeps ==
  ASSUME HostInv, LinesInv, NEW m \in Mounts, NEW pc \in Past \cup {"done"}, Goes(m, pc),
         host' = host, Act \/ left' = left,
         prompt[m].pc \in Past,
         MarkerSettled(m) \/ (prompt[m].pc \in {"open", "view"} /\ pc \in {"open", "closing"})
           \/ prompt[m].pc \notin {"open", "closing"},
         locks /\ pc \in Holding => prompt[m].pc \in Holding \/ ~\E n \in Mounts : Holds(n),
         pc \in {"due", "view"} => prompt[m].pc \in {"due", "view"} \/ ~host.stamped
  PROVE  PromptGood
<1>1. host' \in HostRec /\ Grows /\ StampStays
  BY HostSame
<1>2. Becomes(m, "pc", pc) /\ locks' = locks /\ died' = died
  BY DEF Goes
<1>3. pc \in {"new", "queued", "locking", "reading", "due", "view", "open", "closing", "done"}
  BY DEF Past
<1>4. PICK r : Is(m, r) /\ r.pc = pc /\ r.after = prompt[m].after /\ r.marker = prompt[m].marker
  BY <1>2, <1>3, BecomesPc DEF LinesInv
<1>5. r.marker \in {"sent", "stored"} => r.pc \in {"open", "closing"} \/ WindowOf[m] \in died
  BY <1>4, MountIs DEF MarkerSettled
<1>6. LinesInv'
  BY <1>1, <1>2, <1>4, <1>5, MovesOn
<1> QED BY <1>1, <1>6, ActSpends DEF PromptGood

\* The other steps of a task, and its ends.
LEMMA TaskKeeps ==
  ASSUME HostInv, LinesInv, NEW m \in Mounts, Task(m) \/ ReadingFails(m) \/ DisplayFails(m) \/ Close(m)
  PROVE  PromptGood
<1>1. CASE Turn(m)
  BY <1>1, TurnKeeps
<1>2. CASE Lock(m)
  <2> DEFINE pc == IF prompt[m].active THEN "reading" ELSE "done"
  <2>1. pc \in {"reading", "done"}
    OBVIOUS
  <2>2. prompt[m].pc = "locking" /\ Goes(m, pc) /\ host' = host /\ left' = left /\ ~\E n \in Mounts : Holds(n)
    BY <1>2 DEF Lock, At
  <2> HIDE DEF pc
  <2> QED BY <2>1, <2>2, GoesKeeps DEF Past, Holding
<1>3. CASE StateRead(m)
  <2> DEFINE pc == IF Show THEN "due" ELSE "done"
  <2>1. pc \in {"due", "done"} /\ (pc = "due" => ~host.stamped)
    BY Zenon DEF Show
  <2>2. prompt[m].pc = "reading" /\ Goes(m, pc) /\ host' = host /\ left' = left
    BY <1>3 DEF StateRead, At
  <2> HIDE DEF pc
  <2> QED BY <2>1, <2>2, GoesKeeps DEF Past, Holding
<1>4. CASE Rendered(m)
  <2> DEFINE pc == IF prompt[m].active THEN "view" ELSE "done"
  <2>1. pc \in {"view", "done"}
    OBVIOUS
  <2>2. prompt[m].pc = "due" /\ Goes(m, pc) /\ host' = host /\ left' = left
    BY <1>4 DEF Rendered, At
  <2> HIDE DEF pc
  <2> QED BY <2>1, <2>2, GoesKeeps DEF Past, Holding
<1>5. CASE TaskEnds(m)
  <2>1. /\ MarkerSettled(m) /\ Goes(m, "done") /\ host' = host /\ left' = left
        /\ prompt[m].pc \in {"view", "open", "closing"}
    BY <1>5 DEF TaskEnds, Released, At
  <2> QED BY <2>1, GoesKeeps DEF Past, Holding
<1>6. CASE ReadingFails(m)
  <2>1. Act /\ Goes(m, "done") /\ host' = host /\ prompt[m].pc \in {"reading", "due"}
    BY <1>6 DEF ReadingFails
  <2> QED BY <2>1, GoesKeeps DEF Past, Holding
<1>7. CASE DisplayFails(m)
  <2>1. Act /\ Goes(m, "closing") /\ host' = host /\ prompt[m].pc = "view"
    BY <1>7 DEF DisplayFails, At
  <2> QED BY <2>1, GoesKeeps DEF Past, Holding
<1>8. CASE Close(m)
  <2>1. Act /\ Goes(m, "closing") /\ host' = host /\ prompt[m].pc = "open"
    BY <1>8 DEF Close, At
  <2> QED BY <2>1, GoesKeeps DEF Past, Holding
<1> QED BY <1>1, <1>2, <1>3, <1>4, <1>5, <1>6, <1>7, <1>8 DEF Task

\* The prompt is displayed, and its marker sent.
LEMMA DisplayedKeeps ==
  ASSUME HostInv, LinesInv, NEW m \in Mounts, Displayed(m)
  PROVE  PromptGood
<1> DEFINE r == [prompt[m] EXCEPT !.pc = "open", !.marker = "sent"]
<1>1. prompt[m].pc = "view" /\ host' = host /\ UNCHANGED <<locks, died, left>>
  BY DEF Displayed, At
<1>2. prompt' = [prompt EXCEPT ![m] = r]
  BY MountFields DEF Displayed, LinesInv, Mount0
<1>3. r \in Mount0 /\ r.pc = "open" /\ r.after = prompt[m].after /\ r.marker = "sent"
  BY MountFields DEF LinesInv, Mount0
<1> HIDE DEF r
<1>4. host' \in HostRec /\ Grows /\ StampStays
  BY <1>1, HostSame
<1>5. MountStep(m, r)
  BY <1>1, <1>2, <1>3, <1>4 DEF MountStep, Is, InLine, Holding, Past
<1> QED BY <1>1, <1>4, <1>5, MountStepKeeps, ActSpends DEF PromptGood

\* The marker on its way.
LEMMA MarkerKeeps ==
  ASSUME HostInv, LinesInv, NEW m \in Mounts, Marked(m) \/ MarkerArrives(m) \/ MarkerFails(m)
  PROVE  PromptGood
<1>1. PICK value \in {"stored", "ok", "failed"} :
        /\ Becomes(m, "marker", value) /\ UNCHANGED <<locks, died>>
        /\ value = "stored" => prompt[m].marker = "sent"
  BY DEF Marked, MarkerArrives, MarkerFails
<1>2. host' \in HostRec /\ Grows /\ (StampStays \/ prompt[m].marker = "sent")
  BY MarkShownGrows, HostSame DEF Marked, MarkerArrives, MarkerFails
<1>3. PICK r : Is(m, r) /\ r.pc = prompt[m].pc /\ r.after = prompt[m].after /\ r.marker = value
  BY <1>1, BecomesMarker DEF LinesInv
<1>4. LinesInv'
  BY <1>1, <1>2, <1>3, StaysInPlace
<1>5. left' \in 0..MaxActs
  BY ActSpends DEF Marked, MarkerArrives, MarkerFails
<1> QED BY <1>2, <1>4, <1>5 DEF PromptGood

\* "Enable" is confirmed: the prompt closes, if it is still there.
LEMMA EnableConfirmsKeeps ==
  ASSUME HostInv, LinesInv, NEW m \in Mounts, EnableConfirms(m)
  PROVE  PromptGood
<1> DEFINE pc == IF host.consent = "granted" /\ At(m, "open") /\ prompt[m].active THEN "closing" ELSE prompt[m].pc
           r == [prompt[m] EXCEPT !.enable = "no", !.pc = pc]
<1>1. host' = host /\ UNCHANGED <<locks, died, left>>
  BY DEF EnableConfirms
<1>2. prompt' = [prompt EXCEPT ![m] = r]
  BY MountFields DEF EnableConfirms, LinesInv, Mount0
<1>3. pc = prompt[m].pc \/ (prompt[m].pc = "open" /\ pc = "closing")
  BY DEF At
<1> HIDE DEF pc
<1>4. r \in Mount0 /\ r.pc = pc /\ r.after = prompt[m].after /\ r.marker = prompt[m].marker
  BY <1>3, MountFields DEF LinesInv, Mount0
<1> HIDE DEF r
<1>5. host' \in HostRec /\ Grows /\ StampStays
  BY <1>1, HostSame
<1>6. Is(m, r)
  BY <1>2, <1>4 DEF Is
<1>7. CASE pc = prompt[m].pc
  BY <1>1, <1>4, <1>5, <1>6, <1>7, StaysInPlace, ActSpends DEF PromptGood
<1>8. CASE prompt[m].pc = "open" /\ pc = "closing"
  <2>1. LinesInv'
    BY <1>1, <1>4, <1>5, <1>6, <1>8, MovesOn DEF Past, Holding
  <2> QED BY <1>1, <1>5, <2>1, ActSpends DEF PromptGood
<1> QED BY <1>3, <1>7, <1>8

\* The steps of "Enable".
LEMMA EnableKeeps ==
  ASSUME HostInv, LinesInv, NEW m \in Mounts,
         Enable(m) \/ EnableChecks(m) \/ EnableGrants(m) \/ EnableFails(m)
  PROVE  PromptGood
<1>1. PICK value \in {"no", "checking", "granting", "confirming"} : Becomes(m, "enable", value)
  <2>1. (IF host.consent = "withheld" THEN "granting" ELSE "confirming") \in {"granting", "confirming"}
    OBVIOUS
  <2> QED BY <2>1 DEF Enable, EnableChecks, EnableGrants, EnableFails
<1>2. host' \in HostRec /\ Grows /\ StampStays
  BY SetConsentGrows, HostSame DEF Enable, EnableChecks, EnableGrants, EnableFails
<1>3. PICK r : Is(m, r) /\ r.pc = prompt[m].pc /\ r.after = prompt[m].after /\ r.marker = prompt[m].marker
  BY <1>1, BecomesEnable DEF LinesInv
<1>4. UNCHANGED <<locks, died>> /\ (Act \/ left' = left)
  BY DEF Enable, EnableChecks, EnableGrants, EnableFails
<1>5. LinesInv'
  BY <1>2, <1>3, <1>4, StaysInPlace
<1> QED BY <1>2, <1>4, <1>5, ActSpends DEF PromptGood

\* A window is closed: its mounts are gone, the others stay as they are.
LEMMA WindowDiesKeeps ==
  ASSUME HostInv, LinesInv, NEW w \in Windows, WindowDies(w)
  PROVE  PromptGood
<1>1. /\ Act /\ died' = died \cup {w} /\ host' = host /\ locks' = locks
      /\ prompt' = [m \in Mounts |-> IF WindowOf[m] = w THEN [prompt[m] EXCEPT !.pc = "done", !.active = FALSE]
                                     ELSE prompt[m]]
  BY DEF WindowDies
<1>2. ASSUME NEW m \in Mounts
      PROVE  /\ prompt'[m] \in Mount0
             /\ IF WindowOf[m] = w THEN prompt'[m].pc = "done" /\ prompt'[m].marker = prompt[m].marker
                                   ELSE prompt'[m] = prompt[m]
  <2>1. CASE WindowOf[m] = w
    <3> DEFINE s == [prompt[m] EXCEPT !.pc = "done", !.active = FALSE]
    <3>1. prompt'[m] = s
      BY <1>1, <2>1
    <3>2. s \in Mount0 /\ s.pc = "done" /\ s.marker = prompt[m].marker
      BY MountFields DEF LinesInv, Mount0
    <3> HIDE DEF s
    <3> QED BY <2>1, <3>1, <3>2
  <2>2. CASE WindowOf[m] # w
    BY <1>1, <2>2, MountFields DEF LinesInv
  <2> QED BY <2>1, <2>2
<1>3. host' \in HostRec /\ Grows
  BY <1>1, HostSame
<1>4. PromptTypeOK'
  BY <1>1, <1>2 DEF LinesInv, PromptTypeOK
<1>5. LineInv'
  BY <1>2 DEF LinesInv, LineInv, OnItsWay
<1>6. LockInv'
  BY <1>1, <1>2 DEF LinesInv, LockInv, Holds
<1>7. MarkerInv'
  BY <1>1, <1>2 DEF LinesInv, MarkerInv
<1>8. StampInv'
  BY <1>1 DEF StampInv
<1> QED BY <1>1, <1>3, <1>4, <1>5, <1>6, <1>7, <1>8, ActSpends DEF PromptGood, LinesInv

\* Every step of the prompts.
LEMMA PromptNextGood ==
  ASSUME HostInv, LinesInv, PromptNext
  PROVE  PromptGood
<1>1. ASSUME NEW m \in Mounts, Mounted(m) \/ Unmounted(m) \/ Displayed(m)
      PROVE  PromptGood
  BY <1>1, MountedKeeps, UnmountedKeeps, DisplayedKeeps
<1>2. ASSUME NEW m \in Mounts, Task(m) \/ ReadingFails(m) \/ DisplayFails(m) \/ Close(m)
      PROVE  PromptGood
  BY <1>2, TaskKeeps
<1>3. ASSUME NEW m \in Mounts, Answer(m) \/ MarkerFails(m) \/ Enable(m) \/ EnableFails(m)
      PROVE  PromptGood
  BY <1>3, MarkerKeeps, EnableKeeps, EnableConfirmsKeeps DEF Answer
<1>4. ASSUME NEW w \in Windows, WindowDies(w) PROVE PromptGood
  BY <1>4, WindowDiesKeeps
<1> QED BY <1>1, <1>2, <1>3, <1>4 DEF PromptNext

\* The prompts are left alone, and so is the host's marker.
LEMMA PromptsWait ==
  ASSUME LinesInv, UNCHANGED promptVars, StampStays
  PROVE  LinesInv'
<1>1. locks' = locks /\ died' = died /\ prompt' = prompt
  BY DEF promptVars
<1>2. PromptTypeOK' /\ LineInv' /\ LockInv' /\ MarkerInv'
  BY <1>1 DEF LinesInv, PromptTypeOK, LineInv, OnItsWay, LockInv, Holds, MarkerInv
<1>3. StampInv'
  <2> SUFFICES ASSUME locks', died' = {}, NEW m \in Mounts, prompt'[m].pc \in {"due", "view"}
               PROVE  ~host'.stamped
    BY DEF StampInv
  <2>1. ~host.stamped
    BY <1>1 DEF LinesInv, StampInv
  <2> QED BY <2>1, Zenon DEF StampStays
<1> QED BY <1>2, <1>3 DEF LinesInv

(***************************************************************************)
(* All of it.                                                              *)
(***************************************************************************)

\* Each step keeps the invariant, and what the page shows does not go back.
LEMMA NextKeeps ==
  ASSUME IInv, Next
  PROVE  IInv' /\ (UNCHANGED pageVars \/ Forward)
<1>1. HostInv /\ PageInv /\ LinesInv
  BY DEF IInv
<1>2. CASE PageNext /\ UNCHANGED promptVars
  <2>1. PageGood
    BY <1>1, <1>2, PageNextGood
  <2> QED BY <1>1, <1>2, <2>1, PromptsWait DEF PageGood, IInv, HostInv
<1>3. CASE PromptNext /\ UNCHANGED pageVars
  <2>1. PromptGood
    BY <1>1, <1>3, PromptNextGood
  <2> QED BY <1>1, <1>3, <2>1, PageWaits DEF PromptGood, IInv, HostInv
<1>4. CASE Elsewhere /\ UNCHANGED <<pageVars, promptVars>>
  <2>1. host' \in HostRec /\ Grows /\ StampStays /\ left' \in 0..MaxActs
    BY <1>1, <1>4, SetAddressGrows, SetConsentGrows, ActSpends DEF Elsewhere
  <2> QED BY <1>1, <1>4, <2>1, PageWaits, PromptsWait DEF IInv, HostInv
<1> QED BY <1>2, <1>3, <1>4 DEF Next

\* The invariant holds in each of the scenes at the beginning.
LEMMA InitHolds == Init => IInv
<1> SUFFICES ASSUME Init PROVE IInv
  OBVIOUS
<1>1. HostInv
  <2>1. host = [at |-> 0, consent |-> "withheld", changed |-> FALSE, stamped |-> FALSE] /\ left \in 0..MaxActs
    BY DEF Init, HostInit
  <2> QED BY <2>1 DEF HostInv, HostRec
<1>2. PageInv
  <2>1. /\ open \in BOOLEAN /\ shown = None /\ error = FALSE /\ latest = None /\ consentWrite = FALSE
        /\ writes = 0 /\ call = [i \in Calls |-> NoCall]
    BY DEF Init, PageInit
  <2>2. \A i \in Calls : /\ call[i].kind = "none" /\ call[i].at = 0 /\ ~call[i].alone
    BY <2>1, NoCallTyped, NoCallAlone
  <2>3. "none" \notin Saves /\ "none" \notin Settings
    BY KindsAre
  <2>4. SettingCalls = {}
    BY <2>2, <2>3 DEF SettingCalls
  <2>5. CountInv
    BY <2>1, <2>2, <2>3, <2>4, FS_EmptySet DEF CountInv
  <2>6. PageTyped
    BY <2>1, NoCallTyped DEF PageTyped
  <2>7. LatestInv /\ AloneInv
    BY <2>1, <2>2 DEF LatestInv, AloneInv
  <2>8. OrderInv
    BY <2>1, <2>2, <1>1 DEF OrderInv, HostInv, HostRec
  <2> QED BY <2>5, <2>6, <2>7, <2>8 DEF PageInv
<1>3. LinesInv
  <2> DEFINE gone == [NewMount EXCEPT !.pc = "done"]
  <2>1. locks \in BOOLEAN /\ died = {} /\ prompt \in [Mounts -> {NewMount, gone}]
    BY DEF Init, PromptInit
  <2>2. NewMount \in Mount0 /\ NewMount.pc = "new" /\ NewMount.marker = "none"
    BY DEF NewMount, Mount0
  <2>3. gone \in Mount0 /\ gone.pc = "done" /\ gone.marker = "none"
    BY <2>2 DEF Mount0
  <2> HIDE DEF gone
  <2>4. \A m \in Mounts : prompt[m] \in Mount0 /\ prompt[m].pc \in {"new", "done"} /\ prompt[m].marker = "none"
    BY <2>1, <2>2, <2>3
  <2>5. PromptTypeOK
    BY <2>1, <2>2, <2>3 DEF PromptTypeOK
  <2>6. LineInv /\ LockInv /\ MarkerInv /\ StampInv
    BY <2>4 DEF LineInv, OnItsWay, LockInv, Holds, MarkerInv, StampInv
  <2> QED BY <2>5, <2>6 DEF LinesInv
<1> QED BY <1>1, <1>2, <1>3 DEF IInv

\* The invariant, on every behaviour, fair or not.
THEOREM WindowsInductive == Spec => []IInv /\ [][IInv /\ (UNCHANGED pageVars \/ Forward)]_vars
<1>1. IInv /\ [Next]_vars => IInv'
  <2> SUFFICES ASSUME IInv, [Next]_vars PROVE IInv'
    OBVIOUS
  <2>1. CASE Next
    BY <2>1, NextKeeps
  <2>2. CASE UNCHANGED vars
    <3>1. UNCHANGED <<host, left>> /\ UNCHANGED pageVars /\ UNCHANGED promptVars
      BY <2>2 DEF vars
    <3>2. HostInv /\ PageInv /\ LinesInv
      BY DEF IInv
    <3>3. host' \in HostRec /\ Grows /\ StampStays
      BY <3>1, <3>2, HostSame
    <3>4. HostInv'
      BY <3>1, <3>2 DEF HostInv
    <3> QED BY <3>1, <3>2, <3>3, <3>4, PageWaits, PromptsWait DEF IInv
  <2> QED BY <2>1, <2>2
<1>2. IInv /\ [Next]_vars => [IInv /\ (UNCHANGED pageVars \/ Forward)]_vars
  BY NextKeeps
<1> QED BY <1>1, <1>2, InitHolds, PTL DEF Spec

\* The host's state, the page and the mounts keep to their types, and the page's
\* counters count what is under way (HanaMeshSection and FirstConsentPrompt in
\* src/client/index.ts).
THEOREM TypeCorrect == Spec => []TypeOK
<1>1. IInv => TypeOK
  <2> SUFFICES ASSUME IInv PROVE TypeOK
    OBVIOUS
  <2>1. HostInv /\ PageInv /\ PromptTypeOK
    BY DEF IInv, LinesInv
  <2>2. HostTypeOK
    BY <2>1 DEF HostInv, HostRec, HostTypeOK
  <2>3. PageTypeOK
    BY <2>1, CallFields, TwoSettings DEF PageInv, PageTyped, PageTypeOK, Kinds
  <2>4. CountersCount
    <3>1. writes = Cardinality({i \in Calls : call[i].kind \in Settings})
      BY <2>1 DEF PageInv, CountInv, SettingCalls
    <3>2. latest # None => call[latest].kind \in Reads
      BY <2>1 DEF PageInv, LatestInv
    <3>3. consentWrite = (\E i \in Calls : call[i].kind = "consent")
      BY <2>1 DEF PageInv, PageTyped, CountInv
    <3> QED BY <3>1, <3>2, <3>3 DEF CountersCount
  <2> QED BY <2>1, <2>2, <2>3, <2>4 DEF TypeOK
<1> QED BY <1>1, WindowsInductive, PTL

\* One prompt at a time in a window, and with Web Locks in all of them; then nobody
\* whose answer the host has kept is asked again (FirstConsentPrompt in
\* src/client/index.ts), for any number of windows and mounts.
THEOREM NobodyIsAskedTwice == Spec => []AskedOnce
<1>1. IInv => AskedOnce
  <2> SUFFICES ASSUME IInv PROVE AskedOnce
    OBVIOUS
  <2>1. LineInv /\ LockInv /\ StampInv
    BY DEF IInv, LinesInv
  <2>2. \A m, n \in Mounts : m # n /\ Visible(m) /\ Visible(n) => ~locks /\ WindowOf[m] # WindowOf[n]
    BY <2>1 DEF LineInv, LockInv, OnItsWay, Visible, Holds
  <2>3. locks /\ died = {} => \A m \in Mounts : At(m, "view") => ~host.stamped
    BY <2>1 DEF StampInv, At
  <2> QED BY <2>2, <2>3 DEF AskedOnce
<1> QED BY <1>1, WindowsInductive, PTL

\* What the page shows never goes back, but at the end of a save that another save has
\* overlapped (load() and the saves of HanaMeshSection in src/client/index.ts),
\* for any number of overlapping requests.
THEOREM NeverGoesBack == Spec => ShownGoesForward
<1>1. [IInv /\ (UNCHANGED pageVars \/ Forward)]_vars =>
        [ shown # None /\ shown' # shown =>
            \/ shown' # None /\ shown' >= shown
            \/ \E i \in Calls : call[i].kind \in Saves /\ call[i].pc = "answered" /\ ~call[i].alone
        ]_pageVars
  BY DEF Forward, vars
<1> QED BY <1>1, WindowsInductive, PTL DEF ShownGoesForward
=============================================================================
