----------------------------- MODULE MCConnectors -----------------------------
(* Small instances, for TLC, of the users of the replay table and of the   *)
(* installation of Slack.  They do not interact: in a behaviour one of     *)
(* them moves, and the others stay where they begin.                       *)
EXTENDS ConnectorIngress, TelegramPolling, InteractiveCallback, Installations

CONSTANTS Parts  \* which of them may move

VARIABLE part

connectorVars == <<ingressVars, telegramVars, callbackVars, installVars, part>>

ConnectorsInit ==
  IngressInit /\ TelegramInit /\ CallbackInit /\ InstallInit /\ part \in Parts

ConnectorsNext ==
  /\ \/ /\ part = "ingress"  /\ IngressNext
        /\ UNCHANGED <<telegramVars, callbackVars, installVars>>
     \/ /\ part = "telegram" /\ TelegramNext
        /\ UNCHANGED <<ingressVars, callbackVars, installVars>>
     \/ /\ part = "callback" /\ CallbackNext
        /\ UNCHANGED <<ingressVars, telegramVars, installVars>>
     \/ /\ part = "installation" /\ InstallNext
        /\ UNCHANGED <<ingressVars, telegramVars, callbackVars>>
  /\ UNCHANGED part

\* Where Telegram does not move its loop has nothing to do, and fairness asks nothing.
ConnectorsSpec == ConnectorsInit /\ [][ConnectorsNext]_connectorVars /\ TelegramFairness

\* The replay tables keep their bound, and the state of their users is well formed.
ConnectorsTypeOK == IngressTypeOK /\ CallbackTypeOK /\ InstallTypeOK

\* No event and no click is refused for nothing, and a failed one can come again.
RefusalsHaveReasons == RefusedForReason /\ DuplicateForReason /\ ReleasedCanRun
=============================================================================
