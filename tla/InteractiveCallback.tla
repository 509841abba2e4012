------------------------- MODULE InteractiveCallback -------------------------
(***************************************************************************)
(* Buttons of interactive cards (connector/platforms/                      *)
(* feishu_ingress_handlers.py, services/connector_callback_contract.py,    *)
(* connector/transport_contract.py).  A card's button carries an envelope  *)
(* that is signed when the card is built and accepted for a while; a click *)
(* is checked against the replay table and the action's policy, gets a     *)
(* callback record, is acknowledged, routed and completed.  evaluate and   *)
(* acknowledge_request run without an await in between, so a click up to   *)
(* its routing is one step; other clicks run while it awaits the router.   *)
(*                                                                         *)
(* Signature and payload hash separate genuine envelopes from others, and  *)
(* only genuine ones are modelled.  The request id of a button is random,  *)
(* so a button stands for its request and for the key of its claim.  All   *)
(* of this is in memory: a restart is the initial state again.             *)
(***************************************************************************)
EXTENDS ReplayLifecycle

CONSTANTS
  Buttons,           \* the buttons of the cards that were sent
  AdminButtons,      \* those whose action is of the admin class (approve, reject)
  UnknownButtons,    \* those whose action no policy names
  Clicks,            \* handler tasks, one for each click that is being served
  DRIFT,             \* timestamp_drift_sec, in ticks
  CALLBACK_TTL       \* ttl_sec of a callback record, in ticks

ASSUME CallbackAssumption ==
  /\ AdminButtons \cup UnknownButtons \subseteq Buttons
  /\ AdminButtons \cap UnknownButtons = {}
  /\ IsFiniteSet(Clicks) /\ "none" \notin Buttons
  /\ DRIFT \in Nat /\ CALLBACK_TTL \in Nat
  /\ DRIFT <= CALLBACK_TTL      \* both are 300 seconds

VARIABLES
  cardAge,    \* ticks since the button's envelope was signed
  requests,   \* the replay table of the callback contract
  callbacks,  \* the callback record of each button's request
  serving,    \* the button whose action a click awaits the router for, or "none"
  completed,  \* how often the router returned for each button
  failedFor,  \* the buttons that were closed without being routed
  raised      \* the buttons a click of which failed after it was claimed

callbackVars == <<cardAge, requests, callbacks, serving, completed, failedFor, raised>>

OpenCallback  == {"pending", "acknowledged"}
CallbackState == {"none", "delivered", "expired", "failed"} \cup OpenCallback
CallbackRecord == [state : CallbackState, age : 0 .. CALLBACK_TTL + 1]

NoCallback == [state |-> "none", age |-> 0]
Actors     == {"admin", "trusted", "other"}

\* Mutation: a record expires a tick early.
LookedEarly(c) == IF c.state \in OpenCallback /\ c.age >= CALLBACK_TTL
                  THEN [c EXCEPT !.state = "expired"] ELSE c

\* _expire_if_needed; no record is pending for as long as the ack window.
Looked(c) == IF c.state \in OpenCallback /\ c.age > CALLBACK_TTL
             THEN [c EXCEPT !.state = "expired"] ELSE c

\* CallbackContract.create: an earlier record is used again unless it has failed
\* or was found expired.
CreatedFrom(c) == IF c.state \in {"none", "expired", "failed"}
                  THEN [state |-> "pending", age |-> 0] ELSE c

InTime(b) == cardAge[b] <= DRIFT

Served(b) == {c \in Clicks : serving[c] = b}

\* process_callback_payload up to the router.  A claim that is refused is answered
\* with `Action already processed'; an installation that does not resolve or a
\* policy that denies closes the claim for good; a record that cannot be
\* acknowledged is an error that leaves the claim as it is.
ClickButton(c, b, actor, resolved) ==
  /\ serving[c] = "none" /\ InTime(b)
  /\ LET live == Unexpired(requests)
         new  == Accepts(live, b)
         rec  == CreatedFrom(callbacks[b])
         denied == b \in AdminButtons /\ actor # "admin"
     IN  \E m \in Claims(live, b) :
           \/ /\ ~ new
              /\ requests' = m
              /\ UNCHANGED <<callbacks, serving, failedFor, raised>>
           \/ /\ new /\ (~ resolved \/ b \in UnknownButtons)
              /\ requests' = Closed(m, b, "terminal_failure")
              /\ failedFor' = failedFor \cup {b}
              /\ UNCHANGED <<callbacks, serving, raised>>
           \/ /\ new /\ resolved /\ b \notin UnknownButtons /\ denied
              /\ requests' = Closed(m, b, "terminal_failure")
              /\ callbacks' = [callbacks EXCEPT ![b] = rec]
              /\ failedFor' = failedFor \cup {b}
              /\ UNCHANGED <<serving, raised>>
           \/ /\ new /\ resolved /\ b \notin UnknownButtons /\ ~ denied
              /\ Looked(rec).state = "pending"
              /\ requests' = m
              /\ callbacks' = [callbacks EXCEPT ![b] = [Looked(rec) EXCEPT !.state = "acknowledged"]]
              /\ serving' = [serving EXCEPT ![c] = b]
              /\ UNCHANGED <<failedFor, raised>>
           \/ /\ new /\ resolved /\ b \notin UnknownButtons /\ ~ denied
              /\ Looked(rec).state # "pending"
              /\ requests' = m
              /\ callbacks' = [callbacks EXCEPT ![b] = Looked(rec)]
              /\ raised' = raised \cup {b}
              /\ UNCHANGED <<serving, failedFor>>
  /\ UNCHANGED <<cardAge, completed>>

\* The router returned; complete_request delivers the record and commits the
\* claim, or raises if the record has expired meanwhile.
RouterReturned(c) ==
  /\ serving[c] # "none"
  /\ LET b == serving[c] rec == Looked(callbacks[b])
     IN  /\ completed' = [completed EXCEPT ![b] = @ + 1]
         /\ IF rec.state = "acknowledged"
            THEN /\ callbacks' = [callbacks EXCEPT ![b].state = "delivered"]
                 /\ requests' = Closed(Unexpired(requests), b, "delivered")
                 /\ UNCHANGED raised
            ELSE /\ callbacks' = [callbacks EXCEPT ![b] = rec]
                 /\ raised' = raised \cup {b}
                 /\ UNCHANGED requests
  /\ serving' = [serving EXCEPT ![c] = "none"]
  /\ UNCHANGED <<cardAge, failedFor>>

\* Mutation: the claim is released, and the record is not.
RouterRaisedKeepsRecord(c) ==
  /\ serving[c] # "none"
  /\ requests' = Released(Unexpired(requests), serving[c])
  /\ serving' = [serving EXCEPT ![c] = "none"]
  /\ UNCHANGED <<cardAge, callbacks, completed, failedFor, raised>>

\* The router raised: release_request_retryable fails the record, so that the
\* next click gets a new one, and releases the claim.
RouterRaised(c) ==
  /\ serving[c] # "none"
  /\ LET b == serving[c]
     IN  /\ requests' = Released(Unexpired(requests), b)
         /\ callbacks' = [callbacks EXCEPT ![b].state = IF @ = "delivered" THEN @ ELSE "failed"]
  /\ serving' = [serving EXCEPT ![c] = "none"]
  /\ UNCHANGED <<cardAge, completed, failedFor, raised>>

CallbackTick ==
  /\ cardAge' = [b \in Buttons |-> IF cardAge[b] > DRIFT THEN cardAge[b] ELSE cardAge[b] + 1]
  /\ requests' = Elapsed(requests)
  /\ callbacks' = [b \in Buttons |->
       IF callbacks[b].state = "none" \/ callbacks[b].age > CALLBACK_TTL THEN callbacks[b]
       ELSE [callbacks[b] EXCEPT !.age = @ + 1]]
  /\ UNCHANGED <<serving, completed, failedFor, raised>>

CallbackInit ==
  /\ cardAge = [b \in Buttons |-> 0]
  /\ requests = [b \in Buttons |-> NoEntry]
  /\ callbacks = [b \in Buttons |-> NoCallback]
  /\ serving = [c \in Clicks |-> "none"]
  /\ completed = [b \in Buttons |-> 0]
  /\ failedFor = {} /\ raised = {}

CallbackNext ==
  \/ \E c \in Clicks :
       \/ \E b \in Buttons, a \in Actors, r \in BOOLEAN : ClickButton(c, b, a, r)
       \/ RouterReturned(c) \/ RouterRaised(c)
  \/ CallbackTick

CallbackSpec == CallbackInit /\ [][CallbackNext]_callbackVars

-----------------------------------------------------------------------------
(* Properties.                                                             *)

CallbackTypeOK ==
  /\ cardAge \in [Buttons -> 0 .. DRIFT + 1]
  /\ requests \in [Buttons -> LifecycleRecord]
  /\ Cardinality(Entries(requests)) <= MAX_ENTRIES
  /\ callbacks \in [Buttons -> CallbackRecord]
  /\ serving \in [Clicks -> Buttons \cup {"none"}]
  /\ completed \in [Buttons -> Nat]
  /\ failedFor \subseteq Buttons /\ raised \subseteq Buttons

\* A button's action is routed to its end at most once and by one click at a
\* time, even when the replay table has pushed its record out or a router takes
\* longer than the table remembers: the callback record and the timestamp window
\* make up for it (CallbackContract.create, acknowledge).
ActionOnce ==
  \A b \in Buttons : completed[b] + Cardinality(Served(b)) <= 1

\* A click that is refused as a duplicate is refused because the action is being
\* routed, was routed, was refused for good, or failed in a way that is reported.
DuplicateForReason ==
  \A b \in Buttons :
    Unexpired(requests)[b].state \in {"claimed"} \cup Finals =>
      completed[b] > 0 \/ Served(b) # {} \/ b \in failedFor \cup raised

\* An action whose router raised can be clicked again: its next click in time is
\* acknowledged (release_request_retryable).
ReleasedCanRun ==
  \A b \in Buttons :
    requests[b].state = "retryable_failure" /\ Served(b) = {} /\ b \notin raised
      => CreatedFrom(callbacks[b]).state = "pending"
=============================================================================
