----------------------------- MODULE Installations -----------------------------
(***************************************************************************)
(* The installation of the Slack app in a workspace: the registry of       *)
(* services/connector_installation_registry.py and its user                *)
(* connector/platforms/slack_installation_manager.py.  An install state is *)
(* issued and consumed once, a code is exchanged for a token, posts take   *)
(* the token and report how it fared, and Slack tells of removals.         *)
(*                                                                         *)
(* Workspaces share nothing but a file, so there is one.  Tokens are        *)
(* numbered in the order in which Slack gives them out.  Everything up to   *)
(* an await is one step; that of an installation may be cut off at each of  *)
(* its saves.  exchange_code does not suspend: while it waits for Slack no  *)
(* other handler runs.  Health                                              *)
(* is what resolve_installation tells apart: TRUE for ok and degraded,      *)
(* FALSE for invalid_token and revoked.                                     *)
(***************************************************************************)
EXTENDS Naturals, Sequences

CONSTANTS
  InstallStates,  \* the states of OAuth flows
  Posts,          \* messages that the connector sends
  LAST_TOKEN,     \* bound on the tokens that Slack gives out
  CUTS            \* bound on steps that are cut off and restarts

ASSUME InstallationsAssumption == LAST_TOKEN \in Nat \ {0} /\ CUTS \in Nat

VARIABLES
  granted,    \* the token that Slack accepts; 0: none
  given,      \* the last token that Slack gave out
  secret,     \* the token in the secret store; 0: none
  inst, kept, \* the installation in memory and in the file
  oauth, oauthFile, \* the install states that were issued, in memory and in the file
  callback,   \* the OAuth callbacks that wait for their token
  finished,   \* how many installations each state has led to
  post,       \* the calls under way
  notices,    \* what Slack has yet to tell
  blamed,     \* the present token was blamed for a former one or for a 401 or 403, or its
              \* installation cut off
  cuts

installVars == <<granted, given, secret, inst, kept, oauth, oauthFile, callback, finished,
                 post, notices, blamed, cuts>>

Token  == 0..LAST_TOKEN
Status == {"none", "created", "active", "rotating", "uninstalled"}
Entry  == [status : Status, healthy : BOOLEAN]
Absent == [status |-> "none", healthy |-> TRUE]

NoPost == [at |-> "idle", token |-> 0, verdict |-> "ok"]

InstallTypeOK ==
  /\ granted \in Token /\ given \in Token /\ secret \in Token
  /\ inst \in Entry /\ kept \in Entry
  /\ oauth \subseteq InstallStates /\ oauthFile \subseteq InstallStates
  /\ \A p \in Posts : post[p].at \in {"idle", "sent", "answered"} /\ post[p].token \in Token
  /\ cuts <= CUTS

\* resolve_installation
Resolves ==
  /\ inst.status \in {"active", "rotating"}
  /\ inst.healthy /\ secret # 0

\* The steps of a synchronous handler: the token and the entry after each save.  A
\* save that raises cuts it off and leaves the memory ahead of the file; a crash
\* does the same, and stops the connector.
Runs(steps) ==
  LET n == Len(steps) IN
  /\ inst' = steps[n].entry /\ kept' = inst' /\ secret' = steps[n].token

IsCutOff(steps) ==
  /\ cuts < CUTS /\ cuts' = cuts + 1
  /\ \E i \in 1..Len(steps) - 1 :
       /\ kept' = steps[i].entry /\ secret' = steps[i + 1].token
       /\ inst' = steps[i + 1].entry

\* The loop of the connector is not held up by an exchange.
LoopFree == \A s \in InstallStates : callback[s] = "none"

Save(entry) == inst' = entry /\ kept' = entry

SetHealth(healthy) ==
  IF inst.status = "none" THEN UNCHANGED <<inst, kept>>
  ELSE Save([inst EXCEPT !.healthy = healthy])
-----------------------------------------------------------------------------
IssueState(s) ==
  /\ LoopFree /\ s \notin oauth /\ finished[s] = 0
  /\ oauth' = oauth \cup {s} /\ oauthFile' = oauth'
  /\ UNCHANGED <<granted, given, secret, inst, kept, callback, finished, post, notices, blamed, cuts>>

\* Mutation: a state is looked up, and not consumed.
ConsumeStateKeeps(s) == s \in oauth /\ UNCHANGED <<oauth, oauthFile>>

ConsumeState(s) ==
  /\ s \in oauth
  /\ oauth' = oauth \ {s} /\ oauthFile' = oauth'

\* A state that is too old is dropped before anything looks at it.
StateExpires(s) ==
  /\ LoopFree /\ ConsumeState(s)
  /\ UNCHANGED <<granted, given, secret, inst, kept, callback, finished, post, notices, blamed, cuts>>

\* The save raises: the state is gone from memory and still in the file.
ConsumeRaises(s) ==
  /\ LoopFree /\ s \in oauth /\ cuts < CUTS /\ cuts' = cuts + 1
  /\ oauth' = oauth \ {s}
  /\ UNCHANGED <<granted, given, secret, inst, kept, oauthFile, callback, finished, post, notices, blamed>>

\* The browser comes back with the state, and the code is sent to Slack.
OAuthCallback(s) ==
  /\ LoopFree /\ ConsumeState(s)
  /\ callback' = [callback EXCEPT ![s] = "exchange"]
  /\ UNCHANGED <<granted, given, secret, inst, kept, finished, post, notices, blamed, cuts>>

\* The steps of upsert_from_oauth_payload: the secret; for an installation that is
\* there, the rotation and the entry with its status; the activation; the health.
InstallSteps(t) ==
  LET old == IF inst.status = "none" THEN <<>>
             ELSE << [token |-> t, entry |-> inst],
                     [token |-> t, entry |-> [inst EXCEPT !.status = "rotating"]] >>
      new == IF inst.status = "none" THEN "created" ELSE "rotating"
  IN  <<[token |-> secret, entry |-> inst]>> \o old \o
      << [token |-> t, entry |-> [status |-> new, healthy |-> TRUE]],
         [token |-> t, entry |-> [status |-> "active", healthy |-> TRUE]] >>

\* Slack gives out a token; one that it gave out before may live on or end.
Install(s) ==
  /\ callback[s] = "exchange" /\ given < LAST_TOKEN
  /\ given' = given + 1 /\ granted' = given'
  /\ callback' = [callback EXCEPT ![s] = "none"]
  /\ \/ /\ Runs(InstallSteps(given')) /\ blamed' = FALSE /\ UNCHANGED cuts
        /\ finished' = [finished EXCEPT ![s] = @ + 1]
     \/ IsCutOff(InstallSteps(given')) /\ blamed' = TRUE /\ UNCHANGED finished
  /\ notices' \in {notices, notices \cup (IF granted = 0 THEN {} ELSE {[kind |-> "revoked", of |-> granted]})}
  /\ UNCHANGED <<oauth, oauthFile, post>>

ExchangeFails(s) ==
  /\ callback[s] = "exchange"
  /\ callback' = [callback EXCEPT ![s] = "none"]
  /\ UNCHANGED <<granted, given, secret, inst, kept, oauth, oauthFile, finished, post, notices, blamed, cuts>>
-----------------------------------------------------------------------------
\* A message goes out with the token of the workspace.
SendPost(p) ==
  /\ LoopFree /\ post[p].at = "idle" /\ Resolves
  /\ post' = [post EXCEPT ![p] = [at |-> "sent", token |-> secret, verdict |-> "ok"]]
  /\ Save(inst)
  /\ UNCHANGED <<granted, given, secret, oauth, oauthFile, callback, finished, notices, blamed, cuts>>

\* An HTTP status of 401 or 403 says nothing about which token Slack accepts.
SlackAnswers(p) ==
  /\ post[p].at = "sent"
  /\ \E v \in {"ok", "invalid", "forbidden", "trouble"} :
       /\ v = "ok" => post[p].token = granted
       /\ v = "invalid" => post[p].token # granted
       /\ post' = [post EXCEPT ![p].at = "answered", ![p].verdict = v]
  /\ UNCHANGED <<granted, given, secret, inst, kept, oauth, oauthFile, callback, finished, notices, blamed, cuts>>

\* Mutation: any trouble counts as an invalid token.
HealthAfterTrouble(verdict) == verdict = "ok"

\* classify_error_health: only some errors make a token invalid, and a 401 or 403.
HealthAfter(verdict) == verdict \notin {"invalid", "forbidden"}

\* The answer is about the token that was sent, the health about the installation.
TakeAnswer(p) ==
  /\ LoopFree /\ post[p].at = "answered"
  /\ SetHealth(HealthAfter(post[p].verdict))
  /\ blamed' = (blamed \/ post[p].verdict = "forbidden"
                        \/ (post[p].verdict = "invalid" /\ post[p].token # secret))
  /\ post' = [post EXCEPT ![p] = NoPost]
  /\ UNCHANGED <<granted, given, secret, oauth, oauthFile, callback, finished, notices, cuts>>

PostLost(p) ==
  /\ LoopFree /\ post[p].at # "idle"
  /\ post' = [post EXCEPT ![p] = NoPost]
  /\ UNCHANGED <<granted, given, secret, inst, kept, oauth, oauthFile, callback, finished, notices, blamed, cuts>>
-----------------------------------------------------------------------------
\* Slack's side: the app is removed from the workspace, or its tokens are revoked.
Remove ==
  /\ granted # 0
  /\ \E k \in {"uninstalled", "revoked"} : notices' = notices \cup {[kind |-> k, of |-> granted]}
  /\ granted' = 0
  /\ UNCHANGED <<given, secret, inst, kept, oauth, oauthFile, callback, finished, post, blamed, cuts>>

\* Slack repeats a notice until it sees it taken.
Taken(n) == notices' \in {notices, notices \ {n}}

TokensRevoked ==
  \E n \in notices :
    /\ LoopFree /\ n.kind = "revoked" /\ Taken(n)
    /\ SetHealth(FALSE)
    /\ blamed' = (blamed \/ n.of # secret)
    /\ UNCHANGED <<granted, given, secret, oauth, oauthFile, callback, finished, post, cuts>>

\* The steps of an uninstallation: the health, the secret, the status.
UninstallSteps ==
  LET refused == [inst EXCEPT !.healthy = FALSE]
  IN  << [token |-> secret, entry |-> inst], [token |-> secret, entry |-> refused],
         [token |-> 0, entry |-> refused],
         [token |-> 0, entry |-> [refused EXCEPT !.status = "uninstalled"]] >>

AppUninstalled ==
  \E n \in notices :
    /\ LoopFree /\ n.kind = "uninstalled" /\ Taken(n)
    /\ IF inst.status = "none" THEN UNCHANGED <<secret, inst, kept, cuts>>
       ELSE \/ Runs(UninstallSteps) /\ UNCHANGED cuts
            \/ IsCutOff(UninstallSteps)
    /\ blamed' = (blamed \/ n.of # secret)
    /\ UNCHANGED <<granted, given, oauth, oauthFile, callback, finished, post>>

\* app_rate_limited: any installation, also one that is refused, becomes degraded.
AppRateLimited ==
  /\ LoopFree /\ SetHealth(TRUE)
  /\ UNCHANGED <<granted, given, secret, oauth, oauthFile, callback, finished, post, notices, blamed, cuts>>

ConnectorStops ==
  /\ cuts < CUTS /\ cuts' = cuts + 1
  /\ inst' = kept /\ oauth' = oauthFile
  /\ callback' = [s \in InstallStates |-> "none"] /\ post' = [p \in Posts |-> NoPost]
  /\ UNCHANGED <<granted, given, secret, kept, oauthFile, finished, notices, blamed>>

InstallInit ==
  /\ granted = 0 /\ given = 0 /\ secret = 0
  /\ inst = Absent /\ kept = Absent
  /\ oauth = {} /\ oauthFile = {}
  /\ callback = [s \in InstallStates |-> "none"]
  /\ finished = [s \in InstallStates |-> 0]
  /\ post = [p \in Posts |-> NoPost]
  /\ notices = {} /\ blamed = FALSE /\ cuts = 0

InstallNext ==
  \/ \E s \in InstallStates :
       \/ IssueState(s) \/ StateExpires(s) \/ ConsumeRaises(s) \/ OAuthCallback(s)
       \/ Install(s) \/ ExchangeFails(s)
  \/ \E p \in Posts :
       \/ SendPost(p) \/ SlackAnswers(p) \/ TakeAnswer(p) \/ PostLost(p)
  \/ Remove \/ TokensRevoked \/ AppUninstalled \/ AppRateLimited \/ ConnectorStops

InstallSpec == InstallInit /\ [][InstallNext]_installVars
-----------------------------------------------------------------------------
(* Properties.                                                             *)

\* An installation whose token Slack accepts is refused only after a message about
\* a former token came late, a call was answered 401 or 403 (which is read as an invalid
\* token), or its own installation was cut off; and a state
\* leads to one installation at most ("Invalid or replayed OAuth state").
InstallationsSound ==
  /\ secret # 0 /\ secret = granted /\ ~Resolves => blamed
  /\ \A s \in InstallStates : finished[s] <= 1
=============================================================================
