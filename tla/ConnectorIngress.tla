--------------------------- MODULE ConnectorIngress ---------------------------
(***************************************************************************)
(* Deliveries of interactive events by a chat platform, which repeats what *)
(* it believes lost (connector/platforms/slack_ingress_handlers.py,        *)
(* kakao_webhook.py): each delivery is a handler task of its own that      *)
(* claims the event's key, routes the command and commits or releases the  *)
(* claim.  While it awaits the router any number of other deliveries run.  *)
(*                                                                         *)
(* A handler may take longer than the table's time to live, and the table  *)
(* may push a record out to keep its bound; what the table has then        *)
(* forgotten while it still mattered is kept in `forgotten'.  The table is *)
(* not stored: a restart is the initial state again.                       *)
(***************************************************************************)
EXTENDS ReplayLifecycle

CONSTANTS
  Events,     \* the replay keys of the events
  Malformed,  \* those whose payload names no user (Kakao)
  Misshapen,  \* those whose payload cannot be read, "userRequest": null (Kakao)
  Handlers    \* handler tasks

ASSUME IngressAssumption ==
  /\ Malformed \subseteq Events /\ Misshapen \subseteq Events /\ Malformed \cap Misshapen = {}
  /\ "none" \notin Events

VARIABLES
  lifecycle,  \* _records of the replay lifecycle
  routing,    \* the event that each handler awaits the router for, or "none"
  routed,     \* the events for which the router has ever returned
  since,      \* ticks left of the time to live since the router last returned
  forgotten   \* events whose record was pushed out, or ran out while being routed

ingressVars == <<lifecycle, routing, routed, since, forgotten>>

RoutersOf(k) == {h \in Handlers : routing[h] = k}

\* The events whose record in the table m runs out while a handler still routes them.
Overrun(m) == {k \in Events : m[k].left = 0 /\ RoutersOf(k) # {}}

\* The first half of process_interaction_payload and webhook_handler: a refused
\* delivery is answered at once, and a malformed one is claimed and closed.  Reading a
\* misshapen payload raises past the handler: its claim stays, with nobody to end it.
Deliver(h, k) ==
  /\ routing[h] = "none"
  /\ LET live == Unexpired(lifecycle)
         new  == Accepts(live, k)
     IN  \E m \in Claims(live, k) :
           /\ lifecycle' = IF new /\ k \in Malformed THEN Closed(m, k, "terminal_failure") ELSE m
           /\ routing' = IF new /\ k \notin Malformed \cup Misshapen
                         THEN [routing EXCEPT ![h] = k] ELSE routing
           /\ forgotten' = forgotten \cup (Entries(live) \ Entries(m))
  /\ UNCHANGED <<routed, since>>

\* The router returned: the claim is committed, or failed for good if the answer
\* cannot be built (Kakao).
Returned(h) ==
  /\ routing[h] # "none"
  /\ LET k == routing[h] live == Unexpired(lifecycle)
     IN  /\ \E s \in Finals : lifecycle' = Closed(live, k, s)
         /\ routed' = routed \cup {k}
         /\ since' = [since EXCEPT ![k] = LIFECYCLE_TTL]
  /\ routing' = [routing EXCEPT ![h] = "none"]
  /\ UNCHANGED forgotten

\* The router raised: the claim is released.
Raised(h) ==
  /\ routing[h] # "none"
  /\ lifecycle' = Released(Unexpired(lifecycle), routing[h])
  /\ routing' = [routing EXCEPT ![h] = "none"]
  /\ UNCHANGED <<routed, since, forgotten>>

IngressTick ==
  /\ lifecycle' = Elapsed(lifecycle)
  /\ since' = [k \in Events |-> IF since[k] = 0 THEN 0 ELSE since[k] - 1]
  /\ forgotten' = forgotten \cup Overrun(lifecycle')
  /\ UNCHANGED <<routing, routed>>

IngressInit ==
  /\ lifecycle = [k \in Events |-> NoEntry]
  /\ routing = [h \in Handlers |-> "none"]
  /\ routed = {} /\ forgotten = {}
  /\ since = [k \in Events |-> 0]

IngressNext ==
  \/ \E h \in Handlers : (\E k \in Events : Deliver(h, k)) \/ Returned(h) \/ Raised(h)
  \/ IngressTick

IngressSpec == IngressInit /\ [][IngressNext]_ingressVars

-----------------------------------------------------------------------------
(* Properties.                                                             *)

\* The table is well formed and keeps its bound.
IngressTypeOK ==
  /\ lifecycle \in [Events -> LifecycleRecord]
  /\ Cardinality(Entries(lifecycle)) <= MAX_ENTRIES
  /\ routing \in [Handlers -> Events \cup {"none"}]
  /\ routed \subseteq Events /\ forgotten \subseteq Events
  /\ since \in [Events -> 0 .. LIFECYCLE_TTL]

\* As long as the table has not forgotten an event that mattered, two deliveries
\* never route it at the same time (claim, release_retryable).
OneRouter ==
  \A k \in Events \ forgotten : \A g, h \in RoutersOf(k) : g = h

\* "Once router.handle returns, duplicate user actions must not reroute": for the
\* table's time to live, unless the bound pushed the record out.
NoReroute ==
  [][\A h \in Handlers, k \in Events :
       routing[h] # k /\ routing'[h] = k => since[k] = 0 \/ k \in forgotten']_ingressVars

\* No delivery is refused for nothing (claim's three duplicate codes): a claim has its
\* router, or is one of a payload that raises whenever it is read, which would not be
\* routed either if it were let in; what is closed was routed, or names no user.
RefusedForReason ==
  \A k \in Events :
    LET q == Unexpired(lifecycle)[k]
    IN  /\ q.state = "claimed" => RoutersOf(k) # {} \/ k \in Misshapen
        /\ q.state \in Finals => k \in routed \cup Malformed
=============================================================================
