----------------------------- MODULE SettingsPage -----------------------------
(***************************************************************************)
(* HanaMeshSection of src/client/index.ts: the settings page, which polls  *)
(* the state, refreshes it when it gets the focus, and saves the consent,  *)
(* the server and the website.  Requests overlap and their answers come in *)
(* any order; counters decide which answers are shown.                     *)
(***************************************************************************)
EXTENDS CoreHost, FiniteSets

CONSTANTS
  Calls,  \* names for requests under way (a bound on their number)
  None    \* no request

ASSUME CallAssumption == None \notin Calls /\ None \notin Nat

VARIABLES
  open,          \* the settings are open
  shown,         \* what the page shows: the count of the state, or None
  error,         \* it shows that a reading failed
  latest,        \* the reading `stateRead` stands for, None when a save has moved it on
  consentWrite,  \* a consent is being saved
  writes,        \* `configurationWrites`
  call           \* the requests; `alone`: a save that no other one overlapped so far (history)

pageVars == <<open, shown, error, latest, consentWrite, writes, call>>

Reads == {"poll", "refresh"}
Settings == {"server", "website"}
Saves == Settings \cup {"consent"}
NoCall == [kind |-> "none", pc |-> "idle", at |-> 0, alone |-> FALSE]

PageTypeOK ==
  /\ open \in BOOLEAN /\ shown \in Nat \cup {None} /\ error \in BOOLEAN /\ latest \in Calls \cup {None}
  /\ consentWrite \in BOOLEAN /\ writes \in 0..2
  /\ \A i \in Calls :
       /\ call[i].kind \in Reads \cup Saves \cup {"post", "none"} /\ call[i].at \in Nat
       /\ call[i].pc \in {"idle", "sent", "confirming", "answered", "failed"} /\ call[i].alone \in BOOLEAN

\* The counters stand for what is under way.
CountersCount ==
  /\ writes = Cardinality({i \in Calls : call[i].kind \in Settings})
  /\ consentWrite = (\E i \in Calls : call[i].kind = "consent")
  /\ latest # None => call[latest].kind \in Reads

PageInit ==
  /\ open \in BOOLEAN /\ shown = None /\ error = FALSE /\ latest = None /\ consentWrite = FALSE /\ writes = 0
  /\ call = [i \in Calls |-> NoCall]

UnderWay(kinds) == \E i \in Calls : call[i].kind \in kinds
\* The name of the next request.
Free(i) == call[i] = NoCall /\ i = CHOOSE j \in Calls : call[j] = NoCall
Starts(i, kind) == Free(i) /\ call' = [call EXCEPT ![i] = [NoCall EXCEPT !.kind = kind, !.pc = "sent"]]
Ends(i) == call' = [call EXCEPT ![i] = NoCall]

(***************************************************************************)
(* Readings.                                                               *)
(***************************************************************************)

\* load(): not while a save is under way.
MayLoad == open /\ ~consentWrite /\ writes = 0

\* The interval's timer; a poll is answered before the next one is due.
Poll(i) ==
  /\ MayLoad /\ ~UnderWay({"poll"}) /\ Starts(i, "poll") /\ latest' = i
  /\ UNCHANGED <<open, shown, error, consentWrite, writes, host, left>>

\* The window gets the focus or becomes visible.
Focus(i) ==
  /\ Act /\ MayLoad /\ Starts(i, "refresh") /\ latest' = i
  /\ UNCHANGED <<open, shown, error, consentWrite, writes, host>>

\* Its answer, or its failure, is shown if nothing newer has begun.
ReadArrives(i) ==
  /\ call[i].kind \in Reads /\ call[i].pc \in {"answered", "failed"}
  /\ IF writes > 0 \/ latest # i THEN UNCHANGED <<shown, error>>
     ELSE IF call[i].pc = "answered" THEN shown' = call[i].at /\ error' = FALSE
     ELSE error' = TRUE /\ UNCHANGED shown
  /\ latest' = IF latest = i THEN None ELSE latest
  /\ Ends(i)
  /\ UNCHANGED <<open, consentWrite, writes, host, left>>

(***************************************************************************)
(* Saves, each behind a button that is disabled while it runs, and posts   *)
(* (register again, check again), which read the state when they are done. *)
(***************************************************************************)

\* The save is entered, and overlaps those that are there.
Save(i, kind) ==
  /\ Act /\ shown # None /\ ~UnderWay({kind}) /\ Free(i)
  /\ call' = [j \in Calls |->
       IF j = i THEN [kind |-> kind, pc |-> "sent", at |-> 0, alone |-> ~UnderWay(Saves)]
       ELSE [call[j] EXCEPT !.alone = FALSE]]
  /\ UNCHANGED <<open, shown, error, host>>

\* Mutant: a reading that is under way stays the latest one.
SaveConsentOnly(i) ==
  /\ Save(i, "consent")
  /\ consentWrite' = TRUE /\ UNCHANGED <<latest, writes>>

SaveConsent(i) ==
  /\ Save(i, "consent")
  /\ consentWrite' = TRUE /\ latest' = None /\ UNCHANGED writes

SaveSetting(i) ==
  /\ \E kind \in Settings : Save(i, kind)
  /\ writes' = writes + 1 /\ latest' = None /\ UNCHANGED consentWrite

\* Mutant: a save that fails stays counted.
SettingArrivesCounted(i) ==
  /\ call[i].kind \in Settings /\ call[i].pc \in {"answered", "failed"}
  /\ shown' = IF call[i].pc = "answered" THEN call[i].at ELSE shown
  /\ writes' = IF call[i].pc = "answered" THEN writes - 1 ELSE writes
  /\ latest' = None /\ Ends(i)
  /\ UNCHANGED <<open, error, consentWrite, host, left>>

\* The answer is shown whatever has happened since; a failure has a message of its own.
SettingArrives(i) ==
  /\ call[i].kind \in Settings /\ call[i].pc \in {"answered", "failed"}
  /\ shown' = IF call[i].pc = "answered" THEN call[i].at ELSE shown
  /\ writes' = writes - 1 /\ latest' = None /\ Ends(i)
  /\ UNCHANGED <<open, error, consentWrite, host, left>>

\* Mutant: a consent whose reading back fails counts as being saved.
ConsentArrivesBusy(i) ==
  /\ call[i].kind = "consent" /\ call[i].pc \in {"answered", "failed"}
  /\ shown' = IF call[i].pc = "answered" THEN call[i].at ELSE shown
  /\ consentWrite' = (call[i].pc = "failed") /\ Ends(i)
  /\ UNCHANGED <<open, error, latest, writes, host, left>>

ConsentArrives(i) ==
  /\ call[i].kind = "consent" /\ call[i].pc \in {"answered", "failed"}
  /\ shown' = IF call[i].pc = "answered" THEN call[i].at ELSE shown
  /\ consentWrite' = FALSE /\ Ends(i)
  /\ UNCHANGED <<open, error, latest, writes, host, left>>

Post(i) ==
  /\ Act /\ shown # None /\ Starts(i, "post")
  /\ UNCHANGED <<open, shown, error, latest, consentWrite, writes, host>>

PostArrives(i) ==
  /\ call[i].kind = "post" /\ call[i].pc \in {"answered", "failed"}
  /\ error' = (error \/ call[i].pc = "failed")
  /\ IF call[i].pc = "answered" /\ MayLoad
     THEN latest' = i /\ call' = [call EXCEPT ![i].kind = "refresh", ![i].pc = "sent", ![i].at = 0]
     ELSE Ends(i) /\ UNCHANGED latest
  /\ UNCHANGED <<open, shown, consentWrite, writes, host, left>>

(***************************************************************************)
(* The way to the host and back.                                           *)
(***************************************************************************)

\* The host commits what is asked and answers with its state; a consent is read back
\* by a second request.
HostAnswers(i) ==
  /\ \/ /\ call[i].kind \in Reads /\ call[i].pc = "sent" /\ UNCHANGED host
     \/ /\ call[i].kind \in Settings \cup {"post"} /\ call[i].pc = "sent" /\ SetAddress
     \/ /\ call[i].kind = "consent" /\ call[i].pc = "sent"
        /\ \E state \in {"granted", "withheld"} : SetConsent(state)
     \/ /\ call[i].kind = "consent" /\ call[i].pc = "confirming" /\ UNCHANGED host
  /\ call' = [call EXCEPT ![i].at = host'.at,
                          ![i].pc = IF call[i].kind = "consent" /\ @ = "sent" THEN "confirming" ELSE "answered"]
  /\ UNCHANGED <<open, shown, error, latest, consentWrite, writes, left>>

\* The host refuses, or an answer is lost, before or after the commit.
CallFails(i) ==
  /\ Act /\ call[i].pc \in {"sent", "confirming", "answered"}
  /\ call' = [call EXCEPT ![i].pc = "failed", ![i].at = 0]
  /\ UNCHANGED <<open, shown, error, latest, consentWrite, writes, host>>

Arrives(i) == ReadArrives(i) \/ SettingArrives(i) \/ ConsentArrives(i) \/ PostArrives(i)

PageNext ==
  \E i \in Calls :
    Poll(i) \/ Focus(i) \/ SaveConsent(i) \/ SaveSetting(i) \/ Post(i)
      \/ HostAnswers(i) \/ CallFails(i) \/ Arrives(i)

\* The timer fires, the host answers, answers arrive.
PageFair ==
  /\ WF_<<pageVars, host, left>>(\E i \in Calls : Poll(i))
  /\ \A i \in Calls : WF_<<pageVars, host, left>>(HostAnswers(i) \/ Arrives(i))

(***************************************************************************)
(* Properties.                                                             *)
(***************************************************************************)

\* What the page shows never goes back: a late answer of a reading never replaces what a
\* save, or a later reading, has shown.  The one exception is the end of a save that
\* another save overlapped, whose answer is shown as it comes; the next poll repairs that.
ShownGoesForward ==
  [][ shown # None /\ shown' # shown =>
        \/ shown' # None /\ shown' >= shown
        \/ \E i \in Calls : call[i].kind \in Saves /\ call[i].pc = "answered" /\ ~call[i].alone
    ]_pageVars

\* Whatever was saved, refused or lost: the page comes to show the host's state, without
\* an error, and no counter keeps it from reading.
PageConverges == open => <>[](shown = host.at /\ ~error)
=============================================================================
