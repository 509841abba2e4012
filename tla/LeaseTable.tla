----------------------------- MODULE LeaseTable -----------------------------
(***************************************************************************)
(* What the delivery outbox promises its callers, with no memory image, no *)
(* file and no crash: every intent goes through pending, claimed and one   *)
(* final state; a claimed intent changes hands only when its lease has run *)
(* out; a final intent stays as it is until it is forgotten.               *)
(***************************************************************************)
CONSTANTS
  Intents,   \* delivery ids
  Token,     \* lease tokens
  NoToken,   \* no lease was ever given
  Final      \* the states that end a delivery

VARIABLES
  phase,     \* "absent", "pending", "claimed" or a final state
  holder,    \* the token of the latest lease
  lapsed     \* the latest lease has run out

tableVars == <<phase, holder, lapsed>>

Init ==
  /\ phase = [d \in Intents |-> "absent"]
  /\ holder = [d \in Intents |-> NoToken]
  /\ lapsed = [d \in Intents |-> TRUE]

\* A run's intent appears: to be claimed, or final because nobody can deliver it.
Offer(d) ==
  /\ phase[d] = "absent"
  /\ phase'[d] \in {"pending"} \cup Final
  /\ holder'[d] = NoToken

\* A lease is given on an intent that is free: pending, or left by its holder.
Grant(d) ==
  /\ phase[d] = "pending" \/ (phase[d] = "claimed" /\ lapsed[d])
  /\ phase'[d] = "claimed"
  /\ holder'[d] \in Token \ {holder[d]}
  /\ ~ lapsed'[d]

\* The lease of a claimed intent runs out.
Lapse(d) ==
  /\ phase[d] = "claimed" /\ phase'[d] = "claimed"
  /\ holder'[d] = holder[d]
  /\ lapsed'[d]

\* A live intent ends, by its holder's outcome or because it is expired.
Finish(d) ==
  /\ phase[d] \in {"pending", "claimed"}
  /\ phase'[d] \in Final
  /\ holder'[d] = holder[d]

\* A final intent is pruned; an unclaimed one may expire and go at once.
Forget(d) ==
  /\ phase[d] \in Final \cup {"pending"}
  /\ phase'[d] = "absent"

\* Nothing happens to d; an absent intent has no holder to speak of.
Idle(d) ==
  /\ phase'[d] = phase[d]
  /\ phase[d] # "absent" => holder'[d] = holder[d]
  /\ phase[d] = "claimed" => lapsed'[d] = lapsed[d]

Step(d) ==
  Offer(d) \/ Grant(d) \/ Lapse(d) \/ Finish(d) \/ Forget(d) \/ Idle(d)

\* One operation may move several intents at once.
Next == \A d \in Intents : Step(d)

Spec == Init /\ [][Next]_tableVars

=============================================================================
