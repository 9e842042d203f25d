----------------------------- MODULE ClientWindows -----------------------------
(***************************************************************************)
(* The settings page and the first prompts of several windows (FooterAction *)
(* of src/client/index.ts renders both) over one host.                     *)
(***************************************************************************)
EXTENDS SettingsPage, ConsentPrompt

CONSTANTS
  Beside,    \* the mounts in the scene that has the page and prompts together
  MaxBeside  \* bound: the acts in that scene

ASSUME SceneAssumption == Beside \subseteq Mounts /\ MaxBeside \in 0..MaxActs

vars == <<host, left, pageVars, promptVars>>

TypeOK == HostTypeOK /\ PageTypeOK /\ CountersCount /\ PromptTypeOK

\* Three scenes: the page, the prompts, and the page beside some prompts.
Init ==
  /\ HostInit /\ PageInit /\ PromptInit
  /\ \/ open /\ left = MaxActs /\ Waiting = {}
     \/ ~open /\ left = MaxActs /\ Waiting = Mounts
     \/ open /\ left = MaxBeside /\ Waiting = Beside

Next ==
  \/ PageNext /\ UNCHANGED promptVars
  \/ PromptNext /\ UNCHANGED pageVars
  \/ Elsewhere /\ UNCHANGED <<pageVars, promptVars>>

Spec == Init /\ [][Next]_vars /\ PageFair /\ PromptFair
=============================================================================
