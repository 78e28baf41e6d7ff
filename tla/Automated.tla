----------------------------- MODULE Automated -----------------------------
(***************************************************************************)
(* Automations and single sends together: what an opt-in is answered       *)
(* depends on whether the user has an active welcome automation by then.   *)
(***************************************************************************)
EXTENDS Automation, SingleSend

vars == <<automationVars, sendVars>>

Init == AutomationInit /\ SendInit

\* send_welcome_sms
SendWelcome(w) ==
  /\ FailToWelcome(w, IF WelcomeActive THEN "crashed" ELSE "unwelcomed")
  /\ UNCHANGED automationVars

Next ==
  \/ AutomationNext /\ UNCHANGED sendVars
  \/ SendNext /\ UNCHANGED automationVars
  \/ \E w \in Worker : SendWelcome(w)

Spec == Init /\ [][Next]_vars
=============================================================================
