----------------------------- MODULE ConsentPrompt -----------------------------
(***************************************************************************)
(* FirstConsentPrompt and CoreModal of src/client/index.ts: whoever has    *)
(* never decided about the consent is asked once.  React may mount the     *)
(* prompt several times in one window, and there may be several windows.   *)
(* The mounts of a window wait for one another in `consentPromptTail`;     *)
(* where the browser has Web Locks, the windows do too.  The host's marker *)
(* is stamped when the prompt has been displayed.                          *)
(***************************************************************************)
EXTENDS CoreHost, FiniteSets

CONSTANTS
  Windows,
  Mounts,
  WindowOf   \* the window of each mount

ASSUME MountAssumption == WindowOf \in [Mounts -> Windows]

VARIABLES
  locks,    \* the browser has Web Locks
  died,     \* windows that were closed
  prompt    \* the mounts

promptVars == <<locks, died, prompt>>

\* pc: "queued" behind `after`, the mounts whose tasks come first; "locking" for the Web
\* Lock; "reading" the state, the answer "due" or not on its way; "view" rendered behind
\* other modals; "open" displayed; "closing" after close().
\* marker: the request that stamps the marker.  enable: the steps of enable().
NewMount == [pc |-> "new", after |-> {}, active |-> TRUE, marker |-> "none", enable |-> "no"]
Mount0 == [pc : {"new", "queued", "locking", "reading", "due", "view", "open", "closing", "done"},
           after : SUBSET Mounts, active : BOOLEAN,
           marker : {"none", "sent", "stored", "ok", "failed"},
           enable : {"no", "checking", "granting", "confirming"}]

PromptTypeOK ==
  /\ locks \in BOOLEAN /\ died \subseteq Windows
  /\ prompt \in [Mounts -> Mount0]

PromptInit ==
  /\ locks \in BOOLEAN /\ died = {}
  /\ prompt \in [Mounts -> {NewMount, [NewMount EXCEPT !.pc = "done"]}]

Waiting == {m \in Mounts : prompt[m].pc = "new"}
Becomes(m, field, value) == prompt' = [prompt EXCEPT ![m][field] = value]
At(m, pc) == prompt[m].pc = pc
Goes(m, pc) == Becomes(m, "pc", pc) /\ UNCHANGED <<locks, died>>
Fellows(m) == {n \in Mounts \ {m} : WindowOf[n] = WindowOf[m]}
\* The lock is held from its grant to the end of run().
Holds(m) == prompt[m].pc \in {"reading", "due", "view", "open", "closing"}
\* What the person sees.
Visible(m) == prompt[m].pc \in {"view", "open"} /\ prompt[m].active
\* Mutant: the cleanup of the effect does not release.
ReleasedByClose(m) == At(m, "closing")

\* release() was called.
Released(m) == At(m, "closing") \/ (prompt[m].pc \in {"view", "open"} /\ ~prompt[m].active)
MarkerSettled(m) == prompt[m].marker \notin {"sent", "stored"}

(***************************************************************************)
(* The effect of a mount: its task in the queue, and run().                *)
(***************************************************************************)

Mounted(m) ==
  /\ At(m, "new") /\ WindowOf[m] \notin died
  /\ prompt' = [prompt EXCEPT ![m].pc = "queued", ![m].after = {n \in Fellows(m) : ~At(n, "new")}]
  /\ UNCHANGED <<locks, died, host, left>>

\* The effect's cleanup: cancelled, and released.
Unmounted(m) ==
  /\ Act /\ prompt[m].active /\ prompt[m].pc \notin {"new", "done"}
  /\ Becomes(m, "active", FALSE)
  /\ UNCHANGED <<locks, died, host>>

\* The tasks before have ended.
Turn(m) ==
  /\ At(m, "queued") /\ \A n \in prompt[m].after : At(n, "done")
  /\ prompt' = [prompt EXCEPT ![m].after = {},
                  ![m].pc = IF ~prompt[m].active THEN "done" ELSE IF locks THEN "locking" ELSE "reading"]
  /\ UNCHANGED <<locks, died, host, left>>

\* navigator.locks grants; a cancelled mount returns at once.
Lock(m) ==
  /\ At(m, "locking") /\ ~\E n \in Mounts : Holds(n)
  /\ Goes(m, IF prompt[m].active THEN "reading" ELSE "done")
  /\ UNCHANGED <<host, left>>

\* The host answers; there is nothing to ask when it says so.
StateRead(m) ==
  /\ At(m, "reading")
  /\ Goes(m, IF Show THEN "due" ELSE "done")
  /\ UNCHANGED <<host, left>>

Rendered(m) ==
  /\ At(m, "due")
  /\ Goes(m, IF prompt[m].active THEN "view" ELSE "done")
  /\ UNCHANGED <<host, left>>

ReadingFails(m) ==
  /\ Act /\ prompt[m].pc \in {"reading", "due"}
  /\ Goes(m, "done")
  /\ UNCHANGED host

\* Mutant: run() does not wait for the marker.
TaskEndsAtOnce(m) ==
  /\ Released(m)
  /\ Goes(m, "done")
  /\ UNCHANGED <<host, left>>

\* run() has seen the release and the end of the marker's request.
TaskEnds(m) ==
  /\ Released(m) /\ MarkerSettled(m)
  /\ Goes(m, "done")
  /\ UNCHANGED <<host, left>>

(***************************************************************************)
(* What is displayed, and what the person does.                            *)
(***************************************************************************)

\* CoreModal: nothing is in front of it any more; the marker is sent.
Displayed(m) ==
  /\ At(m, "view") /\ prompt[m].active
  /\ prompt' = [prompt EXCEPT ![m].pc = "open", ![m].marker = "sent"]
  /\ UNCHANGED <<locks, died, host, left>>

DisplayFails(m) ==
  /\ Act /\ At(m, "view") /\ prompt[m].active
  /\ Goes(m, "closing")
  /\ UNCHANGED host

Marked(m) ==
  /\ prompt[m].marker = "sent" /\ MarkShown
  /\ Becomes(m, "marker", "stored")
  /\ UNCHANGED <<locks, died, left>>

MarkerArrives(m) ==
  /\ prompt[m].marker = "stored"
  /\ Becomes(m, "marker", "ok")
  /\ UNCHANGED <<locks, died, host, left>>

MarkerFails(m) ==
  /\ Act /\ prompt[m].marker \in {"sent", "stored"}
  /\ Becomes(m, "marker", "failed")
  /\ UNCHANGED <<locks, died, host>>

\* "Later", "settings", Escape.
Close(m) ==
  /\ Act /\ At(m, "open") /\ prompt[m].active
  /\ Goes(m, "closing")
  /\ UNCHANGED host

\* "Enable", once the marker is stored.
Enable(m) ==
  /\ Act /\ At(m, "open") /\ prompt[m].active
  /\ prompt[m].marker = "ok" /\ prompt[m].enable = "no"
  /\ Becomes(m, "enable", "checking")
  /\ UNCHANGED <<locks, died, host>>

EnableChecks(m) ==
  /\ prompt[m].enable = "checking"
  /\ Becomes(m, "enable", IF host.consent = "withheld" THEN "granting" ELSE "confirming")
  /\ UNCHANGED <<locks, died, host, left>>

EnableGrants(m) ==
  /\ prompt[m].enable = "granting" /\ SetConsent("granted")
  /\ Becomes(m, "enable", "confirming")
  /\ UNCHANGED <<locks, died, left>>

\* Confirmed, it closes; otherwise it shows an error.
EnableConfirms(m) ==
  /\ prompt[m].enable = "confirming"
  /\ prompt' = [prompt EXCEPT ![m].enable = "no",
                  ![m].pc = IF host.consent = "granted" /\ At(m, "open") /\ prompt[m].active THEN "closing" ELSE @]
  /\ UNCHANGED <<locks, died, host, left>>

\* A request of it fails, or it finds its mount gone after the first one.
EnableFails(m) ==
  /\ \/ Act /\ prompt[m].enable # "no"
     \/ prompt[m].enable \in {"granting", "confirming"} /\ ~prompt[m].active /\ UNCHANGED left
  /\ Becomes(m, "enable", "no")
  /\ UNCHANGED <<locks, died, host>>

\* The window is closed: its lock is free, and what it has sent may still arrive.
WindowDies(w) ==
  /\ Act /\ w \notin died /\ died' = died \cup {w}
  /\ prompt' = [m \in Mounts |-> IF WindowOf[m] = w THEN [prompt[m] EXCEPT !.pc = "done", !.active = FALSE]
                                 ELSE prompt[m]]
  /\ UNCHANGED <<locks, host>>

Task(m) == Turn(m) \/ Lock(m) \/ StateRead(m) \/ Rendered(m) \/ TaskEnds(m)
Answer(m) == Marked(m) \/ MarkerArrives(m) \/ EnableChecks(m) \/ EnableGrants(m) \/ EnableConfirms(m)

PromptNext ==
  \/ \E m \in Mounts :
       \/ Mounted(m) \/ Unmounted(m) \/ Task(m) \/ ReadingFails(m)
       \/ Displayed(m) \/ DisplayFails(m) \/ MarkerFails(m) \/ Close(m) \/ Enable(m) \/ EnableFails(m)
       \/ Answer(m)
  \/ \E w \in Windows : WindowDies(w)

\* Tasks go on and the host answers.
PromptFair ==
  \A m \in Mounts : WF_<<promptVars, host, left>>(Task(m)) /\ WF_<<promptVars, host, left>>(Answer(m))

(***************************************************************************)
(* Properties.                                                             *)
(***************************************************************************)

\* One prompt at a time in a window, and with Web Locks in all of them; then nobody who
\* has been asked, and whose answer the host has kept, is asked again, unless a window
\* was closed with its marker on the way.
AskedOnce ==
  /\ \A m, n \in Mounts : m # n /\ Visible(m) /\ Visible(n) => ~locks /\ WindowOf[m] # WindowOf[n]
  /\ locks /\ died = {} => \A m \in Mounts : At(m, "view") => ~host.stamped

\* A mount that waits gets its turn, or a prompt is on the screen: one that was unmounted,
\* failed or died with its window does not hold up the others.
PromptsMoveOn ==
  \A m \in Mounts :
    prompt[m].pc \in {"queued", "locking"} ~>
      prompt[m].pc \notin {"queued", "locking"} \/ \E n \in Mounts : Visible(n)
=============================================================================
