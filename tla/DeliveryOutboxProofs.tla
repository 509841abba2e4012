------------------------ MODULE DeliveryOutboxProofs ------------------------
(***************************************************************************)
(* Proofs about the delivery outbox, for every number of intents, tokens   *)
(* and every value of the time and size limits.                            *)
(***************************************************************************)
EXTENDS DeliveryOutbox, FiniteSetTheorems, TLAPS

Store == [Intents -> Intent]

-----------------------------------------------------------------------------
(* What the helpers return and preserve.                                   *)

\* The reasons a record may carry, those of the acknowledged outcomes included.
LEMMA ReasonFacts ==
  /\ {"none", "no_connector_adapter", "not_claimed", "capacity"} \subseteq Reasons
  /\ \A v \in Verdict : v.reason \in Reasons /\ v.state \in OutcomeStates
<1>1. {"none", "no_connector_adapter", "not_claimed", "capacity"} \subseteq Reasons
  BY DEF Reasons
<1>2. ASSUME NEW v \in Verdict PROVE v.reason \in Reasons /\ v.state \in OutcomeStates
  <2>1. v.state \in OutcomeStates /\ v.reason \in UNION {AckReasons[o] : o \in OutcomeStates}
    BY DEF Verdict
  <2> QED
    BY <2>1 DEF Reasons
<1> QED
  BY <1>1, <1>2

\* The limits are numbers, and an age or a lease may be zero.
LEMMA LimitFacts ==
  /\ PENDING_TTL \in Nat /\ RETENTION \in Nat /\ MAX_LEASE \in Nat
  /\ 0 \in 0 .. PENDING_TTL + 1 /\ 0 \in 0 .. RETENTION + 1 /\ 0 \in Lease
  BY ConstantsAssumption DEF Lease

\* The states that the operations assign are states.
LEMMA StateFacts ==
  /\ {"absent", "pending", "claimed", "expired", "undeliverable"} \subseteq AllStates
  /\ OutcomeStates \subseteq AllStates
  BY DEF AllStates, LiveStates, TerminalStates, OutcomeStates

\* Growing older keeps a record well formed: the ages stop at their caps.
LEMMA AgedType == ASSUME NEW r \in Intent PROVE Aged(r) \in Intent
<1>1. CASE r.state = "absent"
  BY <1>1 DEF Aged
<1>2. CASE r.state # "absent"
  <2> DEFINE c == IF r.created <= PENDING_TTL THEN r.created + 1 ELSE r.created
             u == IF r.updated <= RETENTION THEN r.updated + 1 ELSE r.updated
             l == IF r.lease = 0 THEN 0 ELSE r.lease - 1
  <2>1. c \in 0 .. PENDING_TTL + 1 /\ u \in 0 .. RETENTION + 1 /\ l \in Lease
    BY LimitFacts DEF Intent, Lease
  <2>2. Aged(r) = [r EXCEPT !.created = c, !.updated = u, !.lease = l]
    BY <1>2, LimitFacts DEF Aged, Intent, Lease
  <2> HIDE DEF c, u, l
  <2> QED
    BY <2>1, <2>2 DEF Intent
<1> QED
  BY <1>1, <1>2

\* A record's transformations stay within the type of records.
LEMMA RecordTypes ==
  /\ Absent \in Intent
  /\ \A d \in Intents : NewIntent(d) \in Intent
  /\ \A r \in Intent, t \in Token, l \in Lease : Leased(r, t, l) \in Intent
  /\ \A r \in Intent, v \in Verdict : Finished(r, v) \in Intent
  /\ \A r \in Intent, why \in {"not_claimed", "capacity"} : Expire(r, why) \in Intent
<1>1. Absent \in Intent
  BY LimitFacts, StateFacts, ReasonFacts DEF Intent, Absent
<1>2. ASSUME NEW d \in Intents PROVE NewIntent(d) \in Intent
  BY LimitFacts, StateFacts, ReasonFacts DEF Intent, NewIntent, Absent
<1>3. ASSUME NEW r \in Intent, NEW t \in Token, NEW l \in Lease
      PROVE  Leased(r, t, l) \in Intent
  BY LimitFacts, StateFacts DEF Intent, Leased
<1>4. ASSUME NEW r \in Intent, NEW v \in Verdict PROVE Finished(r, v) \in Intent
  BY LimitFacts, StateFacts, ReasonFacts DEF Intent, Finished
<1>5. ASSUME NEW r \in Intent, NEW why \in {"not_claimed", "capacity"}
      PROVE  Expire(r, why) \in Intent
  BY LimitFacts, StateFacts, ReasonFacts DEF Intent, Expire
<1> QED
  BY <1>1, <1>2, <1>3, <1>4, <1>5

\* What one maintenance may do to a record: keep it, expire it or drop it.
Upkeep(r, s) ==
  \/ s = r
  \/ r.state \in LiveStates /\ \E why \in {"not_claimed", "capacity"} : s = Expire(r, why)
  \/ r.state \in TerminalStates \cup {"pending"} /\ s = Absent

\* Maintenance keeps the store well formed and treats every record as above.
LEMMA MaintainedUpkeep ==
  ASSUME NEW m \in Store, NEW n \in Maintained(m)
  PROVE  n \in Store /\ \A d \in Intents : Upkeep(m[d], n[d])
<1>1. Swept(m) \in Store
  BY RecordTypes DEF Swept, Store
<1>2. PICK V \in Victims(Swept(m)) : n = Evict(Swept(m), V)
  BY DEF Maintained
<1>3. V \subseteq Present(Swept(m))
  BY <1>2 DEF Victims
<1>4. n \in Store
  BY <1>1, <1>2, RecordTypes DEF Evict, Store
<1>5. ASSUME NEW d \in Intents PROVE Upkeep(m[d], n[d])
  <2> DEFINE s == Swept(m)[d]
  <2>1. \/ m[d].state = "pending" /\ s = Expire(m[d], "not_claimed")
        \/ Terminal(m[d]) /\ s = Absent
        \/ s = m[d]
    BY DEF Swept
  <2>2. \/ n[d] = s
        \/ d \in V /\ Terminal(s) /\ n[d] = Absent
        \/ d \in V /\ ~ Terminal(s) /\ n[d] = Expire(s, "capacity")
    BY <1>2 DEF Evict
  <2>3. s \in Intent /\ m[d] \in Intent
    BY <1>1 DEF Store
  <2>4. d \in V => s.state # "absent"
    BY <1>3 DEF Present
  <2>5. CASE m[d].state = "pending" /\ s = Expire(m[d], "not_claimed")
    <3>1. Terminal(s)
      BY <2>3, <2>5 DEF Terminal, Expire, TerminalStates, Intent
    <3>2. n[d] = s \/ n[d] = Absent
      BY <3>1, <2>2
    <3> QED
      BY <3>2, <2>5 DEF Upkeep, LiveStates
  <2>6. CASE Terminal(m[d]) /\ s = Absent
    <3>1. n[d] = Absent
      BY <2>2, <2>4, <2>6 DEF Absent
    <3> QED
      BY <3>1, <2>6 DEF Upkeep, Terminal
  <2>7. CASE s = m[d]
    BY <2>2, <2>3, <2>4, <2>7
    DEF Upkeep, Terminal, Intent, AllStates, LiveStates, TerminalStates
  <2> QED
    BY <2>1, <2>5, <2>6, <2>7
<1> QED
  BY <1>4, <1>5

\* What an operation starts from is well formed, and without load faults it is
\* exactly what is in memory or, after a restart, on disk.
LEMMA ViewsType ==
  ASSUME TypeOK, NEW cur \in Views
  PROVE  /\ cur \in Store
         /\ "load" \notin Faults => cur = Current
<1>1. Empty \in Store
  BY RecordTypes DEF Empty, Store
<1> QED
  BY <1>1 DEF Views, TypeOK, Store, Current

\* The batch of a claim holds pending intents and intents whose lease ran out.
LEMMA BatchesClaimable ==
  ASSUME NEW m, NEW scope, NEW batch, NEW C \in Batches(m, scope, batch)
  PROVE  C \subseteq Claimable(m, scope)
  BY DEF Batches

\* The fields that the transformations of a record set, and those they keep.
LEMMA FieldFacts ==
  ASSUME NEW r \in Intent
  PROVE  /\ \A t, l : /\ Leased(r, t, l).token = t
                       /\ Leased(r, t, l).state = "claimed"
                       /\ Leased(r, t, l).lease = l
         /\ \A v : Finished(r, v).token = r.token /\ Finished(r, v).state = v.state
         /\ \A why : Expire(r, why).token = r.token /\ Expire(r, why).state = "expired"
         /\ Aged(r).token = r.token /\ Aged(r).state = r.state
         /\ Absent.token = NoToken /\ Absent.state = "absent"
         /\ \A d : NewIntent(d).token = NoToken /\ NewIntent(d).state # "claimed"
<1>1. \A t, l : /\ Leased(r, t, l).token = t
                 /\ Leased(r, t, l).state = "claimed"
                 /\ Leased(r, t, l).lease = l
  BY DEF Leased, Intent
<1>2. \A v : Finished(r, v).token = r.token /\ Finished(r, v).state = v.state
  BY DEF Finished, Intent
<1>3. \A why : Expire(r, why).token = r.token /\ Expire(r, why).state = "expired"
  BY DEF Expire, Intent
<1>4. Aged(r).token = r.token /\ Aged(r).state = r.state
  BY DEF Aged, Intent
<1>5. Absent.token = NoToken /\ Absent.state = "absent"
  BY DEF Absent
<1>6. \A d : NewIntent(d).token = NoToken /\ NewIntent(d).state # "claimed"
  BY DEF NewIntent, Absent
<1> QED
  BY <1>1, <1>2, <1>3, <1>4, <1>5, <1>6

\* Maintenance never gives out a token, takes a claim only by expiring it, and
\* leaves a final record as it is unless it drops it.
LEMMA UpkeepFacts ==
  ASSUME NEW r \in Intent, NEW s \in Intent, Upkeep(r, s)
  PROVE  /\ s.token \in {r.token, NoToken}
         /\ r.state = "claimed" => s.token = r.token
         /\ r.state \in TerminalStates => s.state \in {r.state, "absent"}
         /\ s.state \in LiveStates => s = r
<1>1. CASE s = r
  BY <1>1
<1>2. CASE r.state \in LiveStates /\ \E why \in {"not_claimed", "capacity"} : s = Expire(r, why)
  BY <1>2, FieldFacts DEF LiveStates, TerminalStates, OutcomeStates
<1>3. CASE r.state \in TerminalStates \cup {"pending"} /\ s = Absent
  BY <1>3, FieldFacts DEF LiveStates, TerminalStates, OutcomeStates
<1> QED
  BY <1>1, <1>2, <1>3 DEF Upkeep

-----------------------------------------------------------------------------
(* What one operation does, record by record.                              *)

\* What one operation may do to a record: maintain it, create it, lease it
\* under a fresh token, or finish it.
Move(r, s) ==
  \/ Upkeep(r, s)
  \/ r.state = "absent" /\ \E d \in Intents : Upkeep(NewIntent(d), s)
  \/ /\ r.state = "pending" \/ (r.state = "claimed" /\ r.lease = 0)
     /\ \E t \in FreshTokens, l \in MIN_LEASE .. MAX_LEASE : s = Leased(r, t, l)
  \/ r.state = "claimed" /\ \E v \in Verdict : s = Finished(r, v)

\* One operation of the outbox on the store `cur': each record moves as above,
\* and the result is saved unless nothing changed or a write failed.
Operates(cur) ==
  /\ intents' \in Store
  /\ loaded' = TRUE
  /\ \/ disk' = intents'
     \/ disk' = disk /\ (intents' = cur \/ "save" \in Faults)
  /\ \A d \in Intents : Move(cur[d], intents'[d])

\* What a caller learns from an operation is on disk when it does.
Operation(cur) ==
  /\ Operates(cur)
  /\ \A d \in Intents : held'[d] = held[d] \/ disk' = intents'

LEMMA CommitOperation ==
  ASSUME NEW cur, NEW m \in Store, NEW ok \in SaveResults, Commit(m, ok)
  PROVE  /\ intents' = m /\ loaded' = TRUE
         /\ disk' = intents' \/ (disk' = disk /\ "save" \in Faults)
         /\ ok => disk' = intents'
  BY DEF Commit, SaveResults

\* Adopting the store without a change is an operation.
LEMMA KeepOperation ==
  ASSUME TypeOK, NEW cur \in Views, Keep(cur)
  PROVE  Operates(cur)
  BY ViewsType DEF Keep, Operates, Move, Upkeep

LEMMA RecordOperation ==
  ASSUME TypeOK, NEW d \in Intents, NEW ok \in SaveResults, Record(d, ok)
  PROVE  \E cur \in Views : Operates(cur)
<1>1. PICK cur \in Views :
        \/ cur[d].state # "absent" /\ Keep(cur)
        \/ /\ cur[d].state = "absent"
           /\ \E m \in Maintained([cur EXCEPT ![d] = NewIntent(d)]) : Commit(m, ok)
  BY DEF Record
<1>2. ASSUME cur[d].state = "absent",
             NEW m \in Maintained([cur EXCEPT ![d] = NewIntent(d)]), Commit(m, ok)
      PROVE  Operates(cur)
  <2> DEFINE new == [cur EXCEPT ![d] = NewIntent(d)]
  <2>1. cur \in Store
    BY ViewsType
  <2>2. new \in Store
    BY <2>1, RecordTypes DEF Store
  <2>3. m \in Store /\ \A e \in Intents : Upkeep(new[e], m[e])
    BY <1>2, <2>2, MaintainedUpkeep
  <2>4. \A e \in Intents : Move(cur[e], m[e])
    BY <1>2, <2>1, <2>3 DEF Move, Store
  <2> QED
    BY <1>2, <2>3, <2>4, CommitOperation DEF Operates
<1> QED
  BY <1>1, <1>2, KeepOperation

LEMMA ListOperation ==
  ASSUME TypeOK, NEW ok \in SaveResults, List(ok)
  PROVE  \E cur \in Views : Operates(cur)
<1>1. PICK cur \in Views : \E m \in Maintained(cur) : IF m = cur THEN Keep(cur) ELSE Commit(m, ok)
  BY DEF List
<1>2. PICK m \in Maintained(cur) : IF m = cur THEN Keep(cur) ELSE Commit(m, ok)
  BY <1>1
<1>3. m \in Store /\ \A d \in Intents : Upkeep(cur[d], m[d])
  BY ViewsType, MaintainedUpkeep
<1>4. CASE Commit(m, ok)
  BY <1>3, <1>4, CommitOperation DEF Operates, Move
<1> QED
  BY <1>2, <1>4, KeepOperation

\* A claim that leases something, and succeeds, is written.
LEMMA ClaimOperation ==
  ASSUME TypeOK, NEW scope, NEW batch, NEW l \in MIN_LEASE .. MAX_LEASE, NEW t \in FreshTokens,
         NEW chosen \in SUBSET Intents, NEW ok \in SaveResults,
         Claim(scope, batch, l, t, chosen, ok)
  PROVE  /\ \E cur \in Views : Operates(cur)
         /\ ok /\ chosen # {} => disk' = intents'
<1> DEFINE new(m) == [d \in Intents |-> IF d \in chosen THEN Leased(m[d], t, l) ELSE m[d]]
<1>1. PICK cur \in Views : \E m \in Maintained(cur) :
        /\ chosen \in Batches(m, scope, batch)
        /\ IF chosen = {} /\ m = cur THEN Keep(cur) ELSE Commit(new(m), ok)
  BY DEF Claim
<1>2. PICK m \in Maintained(cur) :
        /\ chosen \in Batches(m, scope, batch)
        /\ IF chosen = {} /\ m = cur THEN Keep(cur) ELSE Commit(new(m), ok)
  BY <1>1
<1>3. cur \in Store
  BY ViewsType
<1>4. m \in Store /\ \A d \in Intents : Upkeep(cur[d], m[d])
  BY <1>3, MaintainedUpkeep
<1>5. \A d \in chosen : m[d].state = "pending" \/ (m[d].state = "claimed" /\ m[d].lease = 0)
  BY <1>2, BatchesClaimable DEF Claimable
<1>6. CASE chosen = {} /\ Keep(cur)
  BY <1>6, KeepOperation
<1>7. CASE Commit(new(m), ok)
  <2>1. new(m) \in Store
    <3>1. t \in Token /\ l \in Lease
      BY ConstantsAssumption DEF FreshTokens, Lease
    <3> QED
      BY <1>4, <3>1, RecordTypes DEF Store
  <2>2. ASSUME NEW d \in chosen PROVE Move(cur[d], new(m)[d])
    <3>1. m[d].state \in LiveStates
      BY <1>5 DEF LiveStates
    <3>2. m[d] = cur[d]
      BY <1>3, <1>4, <3>1, UpkeepFacts DEF Store
    <3> QED
      BY <1>5, <3>2 DEF Move
  <2>3. ASSUME NEW d \in Intents \ chosen PROVE Move(cur[d], new(m)[d])
    BY <1>4 DEF Move
  <2>4. \A d \in Intents : Move(cur[d], new(m)[d])
    BY <2>2, <2>3
  <2> HIDE DEF new
  <2> QED
    BY <1>7, <2>1, <2>4, CommitOperation DEF Operates
<1> QED
  BY <1>2, <1>6, <1>7

LEMMA AckOperation ==
  ASSUME TypeOK, NEW d \in Intents, NEW t, NEW v \in Verdict,
         \/ \E ok \in SaveResults : AckFinal(d, t, v, ok)
         \/ AckRepeated(d, t, v)
         \/ AckRejected(d, t, v)
  PROVE  \E cur \in Views : Operates(cur)
<1>1. ASSUME NEW ok \in SaveResults, AckFinal(d, t, v, ok)
      PROVE  \E cur \in Views : Operates(cur)
  <2>1. PICK cur \in Views :
          /\ cur[d].state = "claimed"
          /\ Commit([cur EXCEPT ![d] = Finished(cur[d], v)], ok)
    BY <1>1 DEF AckFinal
  <2> DEFINE m == [cur EXCEPT ![d] = Finished(cur[d], v)]
  <2>2. cur \in Store
    BY ViewsType
  <2>3. m \in Store
    BY <2>2, RecordTypes DEF Store
  <2>4. \A e \in Intents : Move(cur[e], m[e])
    BY <2>1, <2>2 DEF Move, Upkeep, Store
  <2>5. Commit(m, ok)
    BY <2>1
  <2> HIDE DEF m
  <2> QED
    BY <2>3, <2>4, <2>5, CommitOperation DEF Operates
<1>2. ASSUME AckRepeated(d, t, v) \/ AckRejected(d, t, v)
      PROVE  \E cur \in Views : Operates(cur)
  <2>1. PICK cur \in Views : Keep(cur)
    BY <1>2 DEF AckRepeated, AckRejected
  <2> QED
    BY <2>1, KeepOperation
<1> QED
  BY <1>1, <1>2

\* Every entry point of the outbox is such an operation.
LEMMA OperationStep ==
  ASSUME TypeOK, DoRecord \/ DoList \/ DoRead \/ DoClaim \/ DoAck
  PROVE  \E cur \in Views : Operation(cur)
<1>1. ASSUME DoRecord \/ DoList PROVE \E cur \in Views : Operation(cur)
  BY <1>1, RecordOperation, ListOperation DEF DoRecord, DoList, Operation
<1>2. ASSUME DoRead PROVE \E cur \in Views : Operation(cur)
  BY <1>2, KeepOperation DEF DoRead, Read, Operation
<1>3. ASSUME DoClaim PROVE \E cur \in Views : Operation(cur)
  <2>1. PICK scope \in Scopes, batch \in 1 .. MAX_CLAIM_BATCH,
             l \in MIN_LEASE .. MAX_LEASE, t \in FreshTokens,
             chosen \in SUBSET Intents, ok \in SaveResults :
          /\ Claim(scope, batch, l, t, chosen, ok)
          /\ held' = [d \in Intents |->
                        IF ok /\ d \in chosen THEN held[d] \cup {t} ELSE held[d]]
    BY <1>3 DEF DoClaim
  <2>2. /\ \E cur \in Views : Operates(cur)
        /\ ok /\ chosen # {} => disk' = intents'
    BY <2>1, ClaimOperation
  <2>3. \A d \in Intents : held'[d] = held[d] \/ disk' = intents'
    BY <2>1, <2>2 DEF TypeOK
  <2> QED
    BY <2>2, <2>3 DEF Operation
<1>4. ASSUME DoAck PROVE \E cur \in Views : Operation(cur)
  <2>a. PICK d \in Intents : \E t \in held[d], v \in Verdicts :
          \/ \E ok \in SaveResults : AckFinal(d, t, v, ok)
          \/ AckRepeated(d, t, v)
          \/ AckRejected(d, t, v)
    BY <1>4 DEF DoAck
  <2>1. PICK t \in held[d], v \in Verdicts :
          \/ \E ok \in SaveResults : AckFinal(d, t, v, ok)
          \/ AckRepeated(d, t, v)
          \/ AckRejected(d, t, v)
    BY <2>a
  <2>2. v \in Verdict
    BY ConstantsAssumption
  <2>3. held' = held
    BY <1>4 DEF DoAck
  <2> QED
    BY <2>1, <2>2, <2>3, AckOperation DEF Operation
<1> QED
  BY <1>1, <1>2, <1>3, <1>4

-----------------------------------------------------------------------------
(* Type correctness.                                                       *)

LEMMA InitType == Init => TypeOK
<1> SUFFICES ASSUME Init PROVE TypeOK
  OBVIOUS
<1>1. Empty \in Store
  BY RecordTypes DEF Empty, Store
<1> QED
  BY <1>1 DEF Init, TypeOK, Store

\* The ghost variables stay well formed.
LEMMA GhostType ==
  ASSUME TypeOK, [Next]_vars
  PROVE  held' \in [Intents -> SUBSET Token] /\ told' \in [Intents -> Verdict \cup {NoVerdict}]
<1> USE DEF TypeOK
<1>1. CASE DoRecord
  BY <1>1 DEF DoRecord, Record
<1>2. CASE DoList \/ DoRead
  BY <1>2 DEF DoList, List, DoRead, Read
<1>3. CASE DoClaim
  <2>1. told' = told
    BY <1>3 DEF DoClaim, Claim
  <2>2. PICK t \in FreshTokens, chosen \in SUBSET Intents, ok \in SaveResults :
          held' = [d \in Intents |->
                     IF ok /\ d \in chosen THEN held[d] \cup {t} ELSE held[d]]
    BY <1>3 DEF DoClaim
  <2>3. t \in Token
    BY DEF FreshTokens
  <2> QED
    BY <2>1, <2>2, <2>3
<1>4. CASE DoAck
  <2>1. held' = held
    BY <1>4 DEF DoAck
  <2>2. Verdicts \subseteq Verdict
    BY ConstantsAssumption
  <2>3. told' = told \/ \E d \in Intents, v \in Verdicts : told' = [told EXCEPT ![d] = v]
    BY <1>4 DEF DoAck, AckFinal, AckRepeated, AckRejected
  <2> QED
    BY <2>1, <2>2, <2>3
<1>5. CASE DropToken
  BY <1>5 DEF DropToken
<1>6. CASE DoRestart \/ DoTick
  BY <1>6 DEF DoRestart, DoTick, Restart, Tick
<1>7. CASE UNCHANGED vars
  BY <1>7 DEF vars
<1> QED
  BY <1>1, <1>2, <1>3, <1>4, <1>5, <1>6, <1>7 DEF Next

LEMMA NextType == TypeOK /\ [Next]_vars => TypeOK'
<1> SUFFICES ASSUME TypeOK, [Next]_vars PROVE TypeOK'
  OBVIOUS
<1>1. CASE DoRecord \/ DoList \/ DoRead \/ DoClaim \/ DoAck
  <2>1. PICK cur \in Views : Operation(cur)
    BY <1>1, OperationStep
  <2> QED
    BY <2>1, GhostType DEF Operation, Operates, TypeOK, Store
<1>2. CASE DropToken
  BY <1>2, GhostType DEF DropToken, TypeOK
<1>3. CASE DoRestart
  <2>1. Empty \in Store
    BY RecordTypes DEF Empty, Store
  <2> QED
    BY <1>3, <2>1, GhostType DEF DoRestart, Restart, TypeOK, Store
<1>4. CASE DoTick
  <2>1. \A m \in Store : [d \in Intents |-> Aged(m[d])] \in Store
    BY AgedType DEF Store
  <2> QED
    BY <1>4, <2>1, GhostType DEF DoTick, Tick, TypeOK, Store
<1>5. CASE UNCHANGED vars
  BY <1>5 DEF vars, TypeOK
<1> QED
  BY <1>1, <1>2, <1>3, <1>4, <1>5 DEF Next

\* Every record in memory and in the file is well formed in every reachable
\* state, whatever is recorded, claimed, acknowledged, maintained or reloaded.
THEOREM TypeCorrect == Spec => []TypeOK
  BY InitType, NextType, PTL DEF Spec

-----------------------------------------------------------------------------
(* Leases survive restarts and failed writes.                              *)

\* The token of a lease that its caller knows is in the file as well.
GrantsDurable ==
  \A d \in Intents : loaded /\ intents[d].token \in held[d] => disk[d].token = intents[d].token

\* A record that was not claimed anew carries its old token or none.
LEMMA MoveToken ==
  ASSUME TypeOK, NEW d \in Intents, NEW r \in Intent, NEW s \in Intent, Move(r, s)
  PROVE  s.token \in {r.token, NoToken} \/ s.token \notin held[d]
<1>1. CASE Upkeep(r, s)
  BY <1>1, UpkeepFacts
<1>2. CASE \E e \in Intents : Upkeep(NewIntent(e), s)
  BY <1>2, UpkeepFacts, FieldFacts, RecordTypes
<1>3. CASE \E t \in FreshTokens, l \in MIN_LEASE .. MAX_LEASE : s = Leased(r, t, l)
  BY <1>3, FieldFacts DEF FreshTokens
<1>4. CASE \E v \in Verdict : s = Finished(r, v)
  BY <1>4, FieldFacts
<1> QED
  BY <1>1, <1>2, <1>3, <1>4 DEF Move

\* An operation that fails to save hands no token out, so what it leaves in
\* memory under a token that a caller knows was there, and in the file, before.
LEMMA DurableOperation ==
  ASSUME "load" \notin Faults, TypeOK, GrantsDurable, NEW cur \in Views, Operates(cur),
         NEW d \in Intents, held'[d] \subseteq held[d] \/ disk' = intents',
         intents'[d].token \in held'[d], NoToken \notin held'[d]
  PROVE  disk'[d].token = intents'[d].token
<1>1. CASE disk' = intents'
  BY <1>1
<1>2. CASE disk' = disk /\ held'[d] \subseteq held[d]
  <2>1. cur = Current /\ cur[d] \in Intent /\ intents'[d] \in Intent
    BY ViewsType DEF Store, Operates
  <2>2. Move(cur[d], intents'[d])
    BY DEF Operates
  <2>3. intents'[d].token = cur[d].token
    BY <1>2, <2>1, <2>2, MoveToken
  <2> QED
    BY <1>2, <2>1, <2>3 DEF Current, GrantsDurable
<1> QED
  BY <1>1, <1>2 DEF Operates

LEMMA GrantsDurableStep ==
  ASSUME "load" \notin Faults
  PROVE  TypeOK /\ GrantsDurable /\ [Next]_vars => GrantsDurable'
<1> SUFFICES ASSUME TypeOK, GrantsDurable, [Next]_vars,
                    NEW d \in Intents, loaded', intents'[d].token \in held'[d]
             PROVE  disk'[d].token = intents'[d].token
  BY DEF GrantsDurable
<1>0. NoToken \notin held[d] /\ NoToken \notin held'[d]
  BY ConstantsAssumption, GhostType DEF TypeOK
<1>1. CASE DoRecord \/ DoList \/ DoRead \/ DoClaim \/ DoAck
  <2>1. PICK cur \in Views : Operation(cur)
    BY <1>1, OperationStep
  <2> QED
    BY <1>0, <2>1, DurableOperation DEF Operation
<1>2. CASE DropToken
  BY <1>2 DEF DropToken, GrantsDurable, TypeOK
<1>3. CASE DoRestart
  BY <1>3 DEF DoRestart, Restart
<1>4. CASE DoTick
  <2>1. /\ intents'[d] = Aged(intents[d]) /\ disk'[d] = Aged(disk[d])
        /\ loaded' = loaded /\ held' = held
    BY <1>4 DEF DoTick, Tick
  <2>2. intents[d] \in Intent /\ disk[d] \in Intent
    BY DEF TypeOK
  <2> QED
    BY <2>1, <2>2, FieldFacts DEF GrantsDurable
<1>5. CASE UNCHANGED vars
  BY <1>5 DEF vars, GrantsDurable
<1> QED
  BY <1>1, <1>2, <1>3, <1>4, <1>5 DEF Next

\* An operation never takes a running lease from its holder.
LEMMA LeaseOperation ==
  ASSUME "load" \notin Faults, TypeOK, NEW cur \in Views, Operates(cur),
         NEW d \in Intents, Leaseholder(d)
  PROVE  Current'[d].token = Current[d].token
<1>1. cur = Current /\ Current' = intents' /\ intents'[d] \in Intent /\ Current[d] \in Intent
  BY ViewsType DEF Operates, Current, Store, TypeOK
<1>2. Move(Current[d], intents'[d])
  BY <1>1 DEF Operates
<1>3. Current[d].state = "claimed" /\ Current[d].lease # 0
  BY <1>1 DEF Leaseholder
<1>4. CASE Upkeep(Current[d], intents'[d])
  BY <1>1, <1>3, <1>4, UpkeepFacts
<1>5. CASE \E v \in Verdict : intents'[d] = Finished(Current[d], v)
  BY <1>1, <1>5, FieldFacts
<1> QED
  BY <1>1, <1>2, <1>3, <1>4, <1>5 DEF Move

\* One step never takes a running lease from its holder.
LEMMA LeaseStep ==
  ASSUME "load" \notin Faults
  PROVE  TypeOK /\ GrantsDurable /\ [Next]_vars =>
           \A d \in Intents : Leaseholder(d) => Current'[d].token = Current[d].token
<1> SUFFICES ASSUME TypeOK, GrantsDurable, [Next]_vars, NEW d \in Intents, Leaseholder(d)
             PROVE  Current'[d].token = Current[d].token
  OBVIOUS
<1>0. intents[d] \in Intent /\ disk[d] \in Intent /\ Current[d] \in Intent
  BY DEF TypeOK, Current
<1>1. CASE DoRecord \/ DoList \/ DoRead \/ DoClaim \/ DoAck
  <2>1. PICK cur \in Views : Operation(cur)
    BY <1>1, OperationStep
  <2> QED
    BY <2>1, LeaseOperation DEF Operation
<1>2. CASE DropToken
  BY <1>2 DEF DropToken, Current
<1>3. CASE DoRestart
  BY <1>3 DEF DoRestart, Restart, Current, GrantsDurable, Leaseholder
<1>4. CASE DoTick
  <2>1. /\ intents'[d] = Aged(intents[d]) /\ disk'[d] = Aged(disk[d]) /\ loaded' = loaded
    BY <1>4 DEF DoTick, Tick
  <2> QED
    BY <1>0, <2>1, FieldFacts DEF Current
<1>5. CASE UNCHANGED vars
  BY <1>5 DEF vars, Current
<1> QED
  BY <1>1, <1>2, <1>3, <1>4, <1>5 DEF Next

\* As long as the file can be read after a restart, a lease that a caller was
\* given is never handed on before it runs out, for any number of intents and
\* callers, with restarts and failed writes at any moment.
THEOREM LeasesHold == "load" \notin Faults => (Spec => LeaseRespected)
<1> SUFFICES ASSUME "load" \notin Faults PROVE Spec => LeaseRespected
  OBVIOUS
<1>1. Init => GrantsDurable
  BY DEF Init, GrantsDurable
<1>2. TypeOK /\ GrantsDurable /\ [Next]_vars => GrantsDurable'
  BY GrantsDurableStep
<1>3. TypeOK /\ GrantsDurable /\ [Next]_vars =>
        [\A d \in Intents : Leaseholder(d) => Current'[d].token = Current[d].token]_vars
  BY LeaseStep
<1> QED
  BY <1>1, <1>2, <1>3, TypeCorrect, PTL DEF Spec, LeaseRespected

-----------------------------------------------------------------------------
(* Without I/O faults the outbox behaves as if it never restarted.         *)

\* Without I/O faults an operation is seen at once, and by every later one.
LEMMA CurrentOperation ==
  ASSUME Faults = {}, TypeOK, NEW cur \in Views, Operates(cur)
  PROVE  /\ WrittenThrough => WrittenThrough'
         /\ \A d \in Intents : Move(Current[d], Current'[d])
<1>1. cur = Current
  BY ViewsType
<1> QED
  BY <1>1 DEF Operates, Current, WrittenThrough

LEMMA WrittenStep ==
  ASSUME Faults = {}
  PROVE  TypeOK /\ WrittenThrough /\ [Next]_vars => WrittenThrough'
<1> SUFFICES ASSUME TypeOK, WrittenThrough, [Next]_vars, loaded' PROVE disk' = intents'
  BY DEF WrittenThrough
<1>1. CASE DoRecord \/ DoList \/ DoRead \/ DoClaim \/ DoAck
  <2>1. PICK cur \in Views : Operation(cur)
    BY <1>1, OperationStep
  <2> QED
    BY <2>1, CurrentOperation DEF Operation, WrittenThrough
<1>2. CASE DropToken
  BY <1>2 DEF DropToken, WrittenThrough
<1>3. CASE DoRestart
  BY <1>3 DEF DoRestart, Restart
<1>4. CASE DoTick
  BY <1>4 DEF DoTick, Tick, WrittenThrough
<1>5. CASE UNCHANGED vars
  BY <1>5 DEF vars, WrittenThrough
<1> QED
  BY <1>1, <1>2, <1>3, <1>4, <1>5 DEF Next

\* When no write fails, whatever an operation leaves in memory is in the file.
THEOREM AlwaysWritten == Faults = {} => (Spec => []WrittenThrough)
<1> SUFFICES ASSUME Faults = {} PROVE Spec => []WrittenThrough
  OBVIOUS
<1>1. Init => WrittenThrough
  BY DEF Init, WrittenThrough
<1>2. TypeOK /\ WrittenThrough /\ [Next]_vars => WrittenThrough'
  BY WrittenStep
<1> QED
  BY <1>1, <1>2, TypeCorrect, PTL DEF Spec

\* What a step may do to a record that the next operation will see: an operation
\* moves it, time ages it, everything else leaves it alone.
Evolves(d) ==
  /\ Current[d] \in Intent /\ Current'[d] \in Intent
  /\ \/ Move(Current[d], Current'[d])
     \/ Current'[d] = Aged(Current[d])
     \/ Current'[d] = Current[d]

\* Time ages the records; a restart loses nothing that was written.
LEMMA TickCurrent ==
  ASSUME TypeOK, Tick
  PROVE  /\ WrittenThrough => WrittenThrough'
         /\ \A d \in Intents : Current'[d] = Aged(Current[d])
  BY DEF Tick, Current, WrittenThrough

LEMMA RestartCurrent ==
  ASSUME WrittenThrough, Restart
  PROVE  WrittenThrough' /\ \A d \in Intents : Current'[d] = Current[d]
  BY DEF Restart, Current, WrittenThrough

LEMMA CurrentStep ==
  ASSUME Faults = {}, TypeOK, WrittenThrough, [Next]_vars, NEW d \in Intents
  PROVE  Evolves(d)
<1>1. TypeOK'
  BY NextType
<1>2. Current[d] \in Intent /\ Current'[d] \in Intent
  BY <1>1 DEF TypeOK, Current
<1> USE DEF Evolves
<1>3. CASE DoRecord \/ DoList \/ DoRead \/ DoClaim \/ DoAck
  <2>1. PICK cur \in Views : Operation(cur)
    BY <1>3, OperationStep
  <2> QED
    BY <1>2, <2>1, CurrentOperation DEF Operation
<1>4. CASE DropToken
  BY <1>2, <1>4 DEF DropToken, Current
<1>5. CASE DoRestart
  BY <1>2, <1>5, RestartCurrent DEF DoRestart
<1>6. CASE DoTick
  BY <1>2, <1>6, TickCurrent DEF DoTick
<1>7. CASE UNCHANGED vars
  BY <1>2, <1>7 DEF vars, Current
<1> QED
  BY <1>3, <1>4, <1>5, <1>6, <1>7 DEF Next

\* A confirmed outcome is final, and no change of its record takes it back.
LEMMA ConfirmedKept ==
  ASSUME TypeOK, NEW d \in Intents, Evolves(d),
         told[d] # NoVerdict, Current[d].state = told[d].state
  PROVE  Current'[d].state \in {told[d].state, "absent"}
<1>1. Current[d].state \in OutcomeStates
  BY ReasonFacts DEF TypeOK
<1>2. /\ Current[d].state \in TerminalStates
      /\ Current[d].state \notin {"absent", "pending", "claimed"}
  BY <1>1 DEF TerminalStates, OutcomeStates
<1>3. CASE Move(Current[d], Current'[d])
  BY <1>2, <1>3, UpkeepFacts DEF Move, Evolves
<1>4. CASE Current'[d] = Aged(Current[d])
  BY <1>4, FieldFacts DEF Evolves
<1> QED
  BY <1>3, <1>4 DEF Evolves

\* When no write and no load fails, an outcome that was confirmed to a caller
\* stays recorded until its record is pruned, across any restarts.
THEOREM ConfirmedFinal == Faults = {} => (Spec => ConfirmedStaysFinal)
<1> SUFFICES ASSUME Faults = {} PROVE Spec => ConfirmedStaysFinal
  OBVIOUS
<1>1. TypeOK /\ WrittenThrough /\ [Next]_vars =>
        [\A d \in Intents :
           told[d] # NoVerdict /\ Current[d].state = told[d].state
             => Current'[d].state \in {told[d].state, "absent"}]_vars
  BY CurrentStep, ConfirmedKept
<1> QED
  BY <1>1, TypeCorrect, AlwaysWritten, PTL DEF Spec, ConfirmedStaysFinal

-----------------------------------------------------------------------------
(* The outbox implements the table of leases.                              *)

\* A new record that maintenance has seen is pending, final or gone again.
LEMMA NewFacts ==
  ASSUME NEW d \in Intents, NEW s \in Intent, Upkeep(NewIntent(d), s)
  PROVE  s.token = NoToken /\ s.state \in {"pending", "absent"} \cup TerminalStates
<1>1. NewIntent(d).token = NoToken
  BY DEF NewIntent, Absent
<1>2. NewIntent(d).state \in {"pending"} \cup TerminalStates
  BY DEF NewIntent, Absent, TerminalStates, OutcomeStates
<1>3. CASE s = NewIntent(d)
  BY <1>1, <1>2, <1>3
<1>4. CASE \E why \in {"not_claimed", "capacity"} : s = Expire(NewIntent(d), why)
  BY <1>1, <1>4, FieldFacts, RecordTypes DEF TerminalStates
<1>5. CASE s = Absent
  BY <1>5 DEF Absent
<1> QED
  BY <1>3, <1>4, <1>5 DEF Upkeep

\* Each way an operation moves a record is one step of the table, or none.
LEMMA MoveIsTableStep ==
  ASSUME TypeOK, NEW d \in Intents, Current[d] \in Intent, Current'[d] \in Intent,
         Move(Current[d], Current'[d])
  PROVE  Table!Step(d)
<1> DEFINE r == Current[d]
           s == Current'[d]
<1> USE DEF Table!Step
<1>1. CASE s = r
  BY <1>1 DEF Table!Idle
<1>2. CASE r.state \in LiveStates /\ \E why \in {"not_claimed", "capacity"} : s = Expire(r, why)
  <2>1. s.token = r.token /\ s.state = "expired"
    BY <1>2, FieldFacts
  <2> QED
    BY <1>2, <2>1 DEF Table!Finish, LiveStates, TerminalStates
<1>3. CASE r.state \in TerminalStates \cup {"pending"} /\ s = Absent
  BY <1>3, FieldFacts DEF Table!Forget
<1>4. CASE r.state = "absent" /\ \E e \in Intents : Upkeep(NewIntent(e), s)
  <2>1. s.token = NoToken /\ s.state \in {"pending", "absent"} \cup TerminalStates
    BY <1>4, NewFacts
  <2>2. CASE s.state = "absent"
    BY <1>4, <2>2 DEF Table!Idle
  <2>3. CASE s.state \in {"pending"} \cup TerminalStates
    BY <1>4, <2>1, <2>3 DEF Table!Offer
  <2> QED
    BY <2>1, <2>2, <2>3
<1>5. CASE /\ r.state = "pending" \/ (r.state = "claimed" /\ r.lease = 0)
           /\ \E t \in FreshTokens, l \in MIN_LEASE .. MAX_LEASE : s = Leased(r, t, l)
  <2>1. PICK t \in FreshTokens, l \in MIN_LEASE .. MAX_LEASE : s = Leased(r, t, l)
    BY <1>5
  <2>2. t \in Token /\ t # r.token
    BY DEF FreshTokens, Current
  <2>3. l # 0
    BY ConstantsAssumption
  <2>4. s.state = "claimed" /\ s.token = t /\ s.lease # 0
    BY <2>1, <2>3, FieldFacts
  <2> QED
    BY <1>5, <2>2, <2>4 DEF Table!Grant
<1>6. CASE r.state = "claimed" /\ \E v \in Verdict : s = Finished(r, v)
  <2>1. s.token = r.token /\ s.state \in TerminalStates
    BY <1>6, FieldFacts, ReasonFacts DEF TerminalStates
  <2> QED
    BY <1>6, <2>1 DEF Table!Finish
<1> QED
  BY <1>1, <1>2, <1>3, <1>4, <1>5, <1>6 DEF Move, Upkeep

\* A record that grows older at most sees its lease run out.
LEMMA AgeIsTableStep ==
  ASSUME NEW d \in Intents, Current[d] \in Intent, Current'[d] = Aged(Current[d])
  PROVE  Table!Step(d)
<1>1. Current'[d].state = Current[d].state /\ Current'[d].token = Current[d].token
  BY FieldFacts
<1>2. Current[d].lease = 0 => Current'[d].lease = 0
  BY DEF Aged, Intent
<1>3. CASE Current[d].state = "claimed" /\ Current'[d].lease = 0
  BY <1>1, <1>3 DEF Table!Step, Table!Lapse
<1>4. CASE Current[d].state # "claimed" \/ Current'[d].lease # 0
  BY <1>1, <1>2, <1>4 DEF Table!Step, Table!Idle
<1> QED
  BY <1>3, <1>4

\* However a record evolves, the table of leases allows it.
LEMMA EvolvesTable ==
  ASSUME TypeOK, \A d \in Intents : Evolves(d)
  PROVE  Table!Next
<1>1. ASSUME NEW d \in Intents PROVE Table!Step(d)
  <2>1. CASE Move(Current[d], Current'[d])
    BY <2>1, MoveIsTableStep DEF Evolves
  <2>2. CASE Current'[d] = Aged(Current[d])
    BY <2>2, AgeIsTableStep DEF Evolves
  <2>3. CASE Current'[d] = Current[d]
    BY <2>3 DEF Table!Step, Table!Idle
  <2> QED
    BY <2>1, <2>2, <2>3 DEF Evolves
<1> QED
  BY <1>1 DEF Table!Next

\* An empty outbox is an empty table.
LEMMA EmptyTable == ASSUME \A d \in Intents : Current[d] = Absent PROVE Table!Init
<1>1. Absent.state = "absent" /\ Absent.token = NoToken /\ (Absent.lease = 0) = TRUE
  BY DEF Absent
<1>2. \A d \in Intents : (Current[d].lease = 0) = TRUE
  BY <1>1, Zenon
<1>3. [d \in Intents |-> Current[d].lease = 0] = [d \in Intents |-> TRUE]
  BY <1>2, Zenon
<1>4. [d \in Intents |-> Current[d].state] = [d \in Intents |-> "absent"]
  BY <1>1
<1>5. [d \in Intents |-> Current[d].token] = [d \in Intents |-> NoToken]
  BY <1>1
<1> QED
  BY <1>3, <1>4, <1>5 DEF Table!Init

\* Without I/O faults the outbox, with its dictionary, its file, its maintenance
\* and its restarts, implements the table of leases: callers cannot tell it from
\* a single atomic table that never stops.
THEOREM OutboxImplementsTable == Faults = {} => (Spec => TableSpec)
<1> SUFFICES ASSUME Faults = {} PROVE Spec => TableSpec
  OBVIOUS
<1>1. ASSUME Init PROVE Table!Init
  BY <1>1, EmptyTable DEF Init, Current, Empty
<1>2. ASSUME TypeOK, WrittenThrough, [Next]_vars
      PROVE  [Table!Next]_(Table!tableVars)
  BY <1>2, CurrentStep, EvolvesTable
<1> QED
  BY <1>1, <1>2, TypeCorrect, AlwaysWritten, PTL DEF Spec, TableSpec, Table!Spec

-----------------------------------------------------------------------------
(* The capacity.  A store may hold one record more than MAX_RECORDS: when   *)
(* every record is live, eviction expires one, which stays as a terminal   *)
(* record until the next maintenance drops it, first of all.               *)

Live(m) == {d \in Intents : m[d].state \in LiveStates}

Small(m) ==
  /\ IsFiniteSet(Present(m)) /\ Cardinality(Present(m)) <= MAX_RECORDS + 1
  /\ Cardinality(Live(m)) <= MAX_RECORDS

\* Fewer records, fewer live ones.
LEMMA FewerRecords ==
  ASSUME NEW S, NEW T, IsFiniteSet(S), T \subseteq S
  PROVE  IsFiniteSet(T) /\ Cardinality(T) \in Nat /\ Cardinality(S) \in Nat /\ Cardinality(T) <= Cardinality(S)
BY FS_Subset, FS_CardinalityType

LEMMA OneMore ==
  ASSUME NEW S, IsFiniteSet(S), NEW x
  PROVE  IsFiniteSet(S \cup {x}) /\ Cardinality(S \cup {x}) <= Cardinality(S) + 1
<1>1. Cardinality(S) \in Nat
  BY FS_CardinalityType
<1>2. CASE x \in S
  <2> DEFINE T == S \cup {x}
  <2>1. T = S
    BY <1>2
  <2> HIDE DEF T
  <2>2. IsFiniteSet(T) /\ Cardinality(T) <= Cardinality(S) + 1
    BY <1>1, <2>1
  <2> QED
    BY <2>2 DEF T
<1>3. CASE x \notin S
  BY <1>1, <1>3, FS_AddElement
<1> QED
  BY <1>2, <1>3

LEMMA SmallerStore ==
  ASSUME NEW m, NEW n, Small(m), Present(n) \subseteq Present(m), Live(n) \subseteq Live(m)
  PROVE  Small(n)
<1> DEFINE P == Present(m)
           Q == Present(n)
           K == Live(m)
           L == Live(n)
<1>1. IsFiniteSet(P) /\ Q \subseteq P /\ L \subseteq K /\ K \subseteq P
  BY DEF Small, Present, Live, LiveStates
<1>2. Cardinality(P) <= MAX_RECORDS + 1 /\ Cardinality(K) <= MAX_RECORDS
  BY DEF Small
<1> HIDE DEF P, Q, K, L
<1>3. IsFiniteSet(Q) /\ Cardinality(Q) <= Cardinality(P) /\ Cardinality(Q) \in Nat /\ Cardinality(P) \in Nat
  BY <1>1, FewerRecords
<1>4. IsFiniteSet(K)
  BY <1>1, FewerRecords
<1>5. Cardinality(L) <= Cardinality(K) /\ Cardinality(L) \in Nat /\ Cardinality(K) \in Nat
  BY <1>1, <1>4, FewerRecords
<1>6. IsFiniteSet(Q) /\ Cardinality(Q) <= MAX_RECORDS + 1 /\ Cardinality(L) <= MAX_RECORDS
  BY <1>2, <1>3, <1>5, ConstantsAssumption
<1> QED
  BY <1>6 DEF Small, Q, L

\* If one record too many has a terminal one among it, eviction drops a terminal one.
LEMMA EvictsTerminal ==
  ASSUME NEW s \in Store, NEW V \in Victims(s), V # {}, NEW e \in Present(s), Terminal(s[e])
  PROVE  \E d \in V : Terminal(s[d])
<1>1. CASE e \in V
  BY <1>1
<1>2. CASE e \notin V
  <2>1. PICK d \in V : TRUE
    OBVIOUS
  <2>2. ~ EvictedBefore(s[e], s[d])
    BY <1>2, <2>1 DEF Victims
  <2>3. Terminal(s[d])
    BY <2>2 DEF EvictedBefore
  <2> QED
    BY <2>1, <2>3
<1> QED
  BY <1>1, <1>2

\* Maintenance makes a store small again that had one record too many added.
LEMMA MaintainedSmall ==
  ASSUME NEW m \in Store, NEW n \in Maintained(m), IsFiniteSet(Present(m)),
         Cardinality(Present(m)) <= MAX_RECORDS + 2, Cardinality(Live(m)) <= MAX_RECORDS + 1
  PROVE  Small(n)
<1>1. PICK s : s = Swept(m)
  OBVIOUS
<1>2. s \in Store
  BY <1>1, RecordTypes DEF Swept, Store
<1>3. PICK V \in Victims(s) : n = Evict(s, V)
  BY <1>1 DEF Maintained
<1> DEFINE P == Present(s)
           K == Live(s)
           Q == Present(n)
           L == Live(n)
<1>4. \A d \in Intents : \/ s[d] = m[d]
                         \/ s[d] = Absent /\ Terminal(m[d])
                         \/ m[d].state = "pending" /\ s[d] = Expire(m[d], "not_claimed")
  BY <1>1 DEF Swept
<1>5. \A d \in Intents : /\ s[d].state # "absent" => m[d].state # "absent"
                         /\ s[d].state \in LiveStates => m[d].state \in LiveStates
  <2> SUFFICES ASSUME NEW d \in Intents
               PROVE  /\ s[d].state # "absent" => m[d].state # "absent"
                      /\ s[d].state \in LiveStates => m[d].state \in LiveStates
    OBVIOUS
  <2>1. m[d] \in Intent
    BY DEF Store
  <2>2. Absent.state = "absent" /\ Expire(m[d], "not_claimed").state = "expired"
    BY <2>1 DEF Absent, Expire, Intent
  <2> QED
    BY <1>4, <2>2 DEF LiveStates
<1>6. P \subseteq Present(m) /\ K \subseteq Live(m) /\ Live(m) \subseteq Present(m) /\ K \subseteq P
  BY <1>5 DEF Present, Live, LiveStates
<1>7. /\ IsFiniteSet(P) /\ Cardinality(P) \in Nat /\ Cardinality(P) <= MAX_RECORDS + 2
      /\ IsFiniteSet(K) /\ Cardinality(K) \in Nat /\ Cardinality(K) <= MAX_RECORDS + 1
  <2> DEFINE A == Present(m)
             B == Live(m)
  <2>1. IsFiniteSet(A) /\ P \subseteq A /\ K \subseteq B /\ B \subseteq A
    BY <1>6
  <2>2. Cardinality(A) <= MAX_RECORDS + 2 /\ Cardinality(B) <= MAX_RECORDS + 1
    OBVIOUS
  <2> HIDE DEF A, B, P, K
  <2>3. IsFiniteSet(B)
    BY <2>1, FewerRecords
  <2>4. /\ IsFiniteSet(P) /\ Cardinality(P) <= Cardinality(A) /\ Cardinality(P) \in Nat /\ Cardinality(A) \in Nat
        /\ IsFiniteSet(K) /\ Cardinality(K) <= Cardinality(B) /\ Cardinality(K) \in Nat /\ Cardinality(B) \in Nat
    BY <2>1, <2>3, FewerRecords
  <2> QED
    BY <2>2, <2>4, ConstantsAssumption
<1>8. /\ V \subseteq P
      /\ Cardinality(V) = IF Cardinality(P) > MAX_RECORDS THEN Cardinality(P) - MAX_RECORDS ELSE 0
  BY <1>3 DEF Victims
<1>9. /\ Q \subseteq P /\ L \subseteq K /\ L \cap V = {}
      /\ \A d \in V : Terminal(s[d]) => d \notin Q
  <2>1. \A d \in Intents : \/ d \notin V /\ n[d] = s[d]
                           \/ d \in V /\ Terminal(s[d]) /\ n[d] = Absent
                           \/ d \in V /\ n[d] = Expire(s[d], "capacity")
    BY <1>3 DEF Evict
  <2>2. \A d \in Intents : d \in V => s[d].state # "absent"
    BY <1>8 DEF Present
  <2>3. Absent.state = "absent" /\ \A d \in Intents : Expire(s[d], "capacity").state = "expired"
    BY <1>2 DEF Absent, Expire, Store, Intent
  <2>4. \A d \in Intents : d \in V /\ Terminal(s[d]) => n[d] = Absent
    BY <1>3 DEF Evict
  <2>5. V \subseteq Intents
    BY <1>8 DEF Present
  <2>6. Q \subseteq P
    BY <2>1, <2>2, <2>3 DEF Present
  <2>7. L \subseteq K /\ L \cap V = {}
    BY <2>1, <2>3 DEF Live, LiveStates
  <2>8. \A d \in V : Terminal(s[d]) => d \notin Q
    BY <2>3, <2>4, <2>5 DEF Present
  <2> QED
    BY <2>6, <2>7, <2>8
<1>10. IsFiniteSet(Q) /\ Cardinality(Q) \in Nat /\ Cardinality(Q) <= Cardinality(P)
  <2> HIDE DEF P, Q
  <2> QED
    BY <1>7, <1>9, FewerRecords
<1>11. Cardinality(Q) <= MAX_RECORDS + 1
  <2>1. CASE Cardinality(P) <= MAX_RECORDS + 1
    BY <1>10, <2>1, <1>7, ConstantsAssumption
  <2>2. CASE Cardinality(P) = MAX_RECORDS + 2
    <3>1. PICK e \in P : e \notin K
      <4>1. P # K
        BY <1>7, <2>2, ConstantsAssumption
      <4> QED
        BY <1>6, <4>1
    <3>2. e \in Present(s) /\ Terminal(s[e])
      BY <1>2, <3>1 DEF Present, Live, Store, Intent, AllStates, Terminal
    <3>3. V # {}
      <4>1. Cardinality(V) = 2
        BY <1>7, <1>8, <2>2, ConstantsAssumption
      <4> QED
        BY <4>1, FS_EmptySet
    <3>4. PICK d \in V : Terminal(s[d])
      BY <1>2, <3>2, <3>3, EvictsTerminal
    <3>5. Q \subseteq P \ {d} /\ d \in P
      BY <1>8, <1>9, <3>4
    <3> HIDE DEF P, Q, K
    <3>6. IsFiniteSet(P \ {d}) /\ Cardinality(P \ {d}) = Cardinality(P) - 1
      BY <1>7, <3>5, FS_RemoveElement
    <3> DEFINE R == P \ {d}
    <3>7. Q \subseteq R /\ IsFiniteSet(R) /\ Cardinality(R) = MAX_RECORDS + 1
      BY <2>2, <3>5, <3>6, ConstantsAssumption
    <3> HIDE DEF R
    <3>8. Cardinality(Q) <= Cardinality(R)
      BY <3>7, FewerRecords
    <3> QED
      BY <3>7, <3>8
  <2> QED
    BY <1>7, <2>1, <2>2, ConstantsAssumption
<1>12. Cardinality(L) <= MAX_RECORDS
  <2>1. L \subseteq P \ V
    BY <1>6, <1>9
  <2> HIDE DEF P, L
  <2>2. IsFiniteSet(V) /\ Cardinality(V) \in Nat
    BY <1>7, <1>8, FewerRecords
  <2> DEFINE R == P \ V
  <2>3. IsFiniteSet(R) /\ Cardinality(R) = Cardinality(P) - Cardinality(P \cap V)
    BY <1>7, FS_Difference
  <2>4. P \cap V = V
    BY <1>8
  <2>5. Cardinality(R) <= MAX_RECORDS
    <3>1. Cardinality(R) = Cardinality(P) - Cardinality(V)
      BY <2>3, <2>4
    <3> HIDE DEF R
    <3>2. CASE Cardinality(P) > MAX_RECORDS
      BY <1>7, <1>8, <3>1, <3>2, ConstantsAssumption
    <3>3. CASE ~ (Cardinality(P) > MAX_RECORDS)
      BY <1>7, <1>8, <3>1, <3>3, ConstantsAssumption
    <3> QED
      BY <3>2, <3>3
  <2>6. L \subseteq R
    BY <2>1
  <2> HIDE DEF R
  <2>7. Cardinality(L) <= Cardinality(R) /\ Cardinality(L) \in Nat /\ Cardinality(R) \in Nat
    BY <2>3, <2>6, FewerRecords
  <2> QED
    BY <2>5, <2>7, ConstantsAssumption
<1> QED
  BY <1>10, <1>11, <1>12 DEF Small

BoundInv == Small(intents) /\ Small(disk)

\* What an operation starts from and what it makes of it.
LEMMA ViewsSmall == ASSUME TypeOK, BoundInv, NEW cur \in Views PROVE cur \in Store /\ Small(cur)
<1>1. Small(Empty)
  <2>1. Present(Empty) = {} /\ Live(Empty) = {}
    BY DEF Present, Live, Empty, Absent, LiveStates
  <2> QED
    BY <2>1, FS_EmptySet, ConstantsAssumption DEF Small
<1>2. cur \in {intents, disk, Empty}
  BY DEF Views
<1> QED
  BY <1>1, <1>2, ViewsType DEF BoundInv

LEMMA CommitSmall ==
  ASSUME BoundInv, NEW m, Small(m), intents' = m, disk' = m \/ disk' = disk
  PROVE  BoundInv'
<1>1. Small(intents') /\ Small(disk')
  BY DEF BoundInv
<1> QED
  BY <1>1 DEF BoundInv, Small, Present, Live

\* Maintenance of a small store leaves it small.
LEMMA UpkeepSmall ==
  ASSUME NEW m \in Store, Small(m), NEW n \in Maintained(m)
  PROVE  Small(n)
<1>1. IsFiniteSet(Present(m)) /\ Cardinality(Present(m)) <= MAX_RECORDS + 1 /\ Cardinality(Live(m)) <= MAX_RECORDS
  BY DEF Small
<1>2. Live(m) \subseteq Present(m)
  BY DEF Live, Present, LiveStates
<1>3. Cardinality(Present(m)) \in Nat /\ Cardinality(Live(m)) \in Nat
  BY <1>1, <1>2, FewerRecords
<1>4. Cardinality(Present(m)) <= MAX_RECORDS + 2 /\ Cardinality(Live(m)) <= MAX_RECORDS + 1
  BY <1>1, <1>3, ConstantsAssumption
<1> QED
  BY <1>1, <1>4, MaintainedSmall

\* A record more, and the maintenance that follows it.
LEMMA RecordSmall ==
  ASSUME NEW cur \in Store, Small(cur), NEW d \in Intents,
         NEW n \in Maintained([cur EXCEPT ![d] = NewIntent(d)])
  PROVE  Small(n)
<1>1. PICK m : m = [cur EXCEPT ![d] = NewIntent(d)]
  OBVIOUS
<1>2. m \in Store /\ \A e \in Intents : e # d => m[e] = cur[e]
  BY <1>1, RecordTypes DEF Store
<1> DEFINE P == Present(cur)
           Q == Present(m)
           K == Live(cur)
           L == Live(m)
<1>3. Q \subseteq P \cup {d} /\ L \subseteq K \cup {d} /\ L \subseteq Q /\ K \subseteq P
  BY <1>2 DEF Present, Live, LiveStates
<1>4. IsFiniteSet(P) /\ Cardinality(P) <= MAX_RECORDS + 1 /\ Cardinality(K) <= MAX_RECORDS
  BY DEF Small
<1> HIDE DEF P, Q, K, L
<1>5. IsFiniteSet(K) /\ Cardinality(P) \in Nat /\ Cardinality(K) \in Nat
  BY <1>3, <1>4, FewerRecords
<1>6. /\ IsFiniteSet(P \cup {d}) /\ Cardinality(P \cup {d}) <= Cardinality(P) + 1
      /\ IsFiniteSet(K \cup {d}) /\ Cardinality(K \cup {d}) <= Cardinality(K) + 1
  BY <1>4, <1>5, OneMore
<1>7. /\ IsFiniteSet(Q) /\ Cardinality(Q) <= Cardinality(P \cup {d}) /\ Cardinality(Q) \in Nat
      /\ Cardinality(P \cup {d}) \in Nat
      /\ Cardinality(L) <= Cardinality(K \cup {d}) /\ Cardinality(L) \in Nat /\ Cardinality(K \cup {d}) \in Nat
  BY <1>3, <1>6, FewerRecords
<1>8. Cardinality(Q) <= MAX_RECORDS + 2 /\ Cardinality(L) <= MAX_RECORDS + 1
  BY <1>4, <1>5, <1>6, <1>7, ConstantsAssumption
<1>9. IsFiniteSet(Present(m)) /\ Cardinality(Present(m)) <= MAX_RECORDS + 2 /\ Cardinality(Live(m)) <= MAX_RECORDS + 1
  BY <1>7, <1>8 DEF Q, L
<1>10. n \in Maintained(m)
  BY <1>1
<1> QED
  BY <1>2, <1>9, <1>10, MaintainedSmall

\* A record that is leased was live, and one that is finished is live no more.
LEMMA BoundStep == TypeOK /\ BoundInv /\ [Next]_vars => BoundInv'
<1> SUFFICES ASSUME TypeOK, BoundInv, [Next]_vars PROVE BoundInv'
  OBVIOUS
<1>1. ASSUME NEW cur \in Views, Keep(cur) PROVE BoundInv'
  BY <1>1, ViewsSmall, CommitSmall DEF Keep
<1>2. ASSUME NEW d \in Intents, NEW ok \in SaveResults, Record(d, ok) PROVE BoundInv'
  <2>1. PICK cur \in Views : \/ Keep(cur)
                             \/ \E m \in Maintained([cur EXCEPT ![d] = NewIntent(d)]) : Commit(m, ok)
    BY <1>2 DEF Record
  <2>2. ASSUME NEW m \in Maintained([cur EXCEPT ![d] = NewIntent(d)]), Commit(m, ok) PROVE BoundInv'
    <3>1. Small(m)
      BY <2>2, ViewsSmall, RecordSmall
    <3> QED
      BY <2>2, <3>1, CommitSmall DEF Commit
  <2> QED
    BY <1>1, <2>1, <2>2
<1>3. ASSUME NEW ok \in SaveResults, List(ok) PROVE BoundInv'
  <2>1. PICK cur \in Views : \E m \in Maintained(cur) : Keep(cur) \/ Commit(m, ok)
    BY <1>3 DEF List
  <2>2. PICK m \in Maintained(cur) : Keep(cur) \/ Commit(m, ok)
    BY <2>1
  <2>3. Small(m)
    BY ViewsSmall, UpkeepSmall
  <2> QED
    BY <1>1, <2>2, <2>3, CommitSmall DEF Commit
<1>4. ASSUME DoClaim PROVE BoundInv'
  <2>1. PICK scope \in Scopes, batch \in 1 .. MAX_CLAIM_BATCH, lease \in MIN_LEASE .. MAX_LEASE,
             t \in FreshTokens, chosen \in SUBSET Intents, ok \in SaveResults : Claim(scope, batch, lease, t, chosen, ok)
    BY <1>4 DEF DoClaim
  <2>2. PICK cur \in Views : \E m \in Maintained(cur) :
          /\ chosen \in Batches(m, scope, batch)
          /\ \/ Keep(cur)
             \/ Commit([d \in Intents |-> IF d \in chosen THEN Leased(m[d], t, lease) ELSE m[d]], ok)
    BY <2>1 DEF Claim
  <2>3. PICK m \in Maintained(cur) :
          /\ chosen \in Batches(m, scope, batch)
          /\ \/ Keep(cur)
             \/ Commit([d \in Intents |-> IF d \in chosen THEN Leased(m[d], t, lease) ELSE m[d]], ok)
    BY <2>2
  <2>4. PICK new : new = [d \in Intents |-> IF d \in chosen THEN Leased(m[d], t, lease) ELSE m[d]]
    OBVIOUS
  <2>5. Small(m) /\ m \in Store
    BY ViewsSmall, UpkeepSmall, MaintainedUpkeep
  <2>6. \A d \in chosen : m[d].state \in LiveStates
    BY <2>3, BatchesClaimable DEF Claimable, LiveStates
  <2>7. \A d \in Intents : Leased(m[d], t, lease).state = "claimed"
    BY <2>5 DEF Leased, Store, Intent
  <2>8. \A d \in Intents : \/ d \in chosen /\ new[d].state = "claimed" /\ m[d].state \in LiveStates
                           \/ new[d] = m[d]
    BY <2>4, <2>6, <2>7
  <2>9. Present(new) \subseteq Present(m) /\ Live(new) \subseteq Live(m)
    BY <2>8 DEF Present, Live, LiveStates
  <2>10. Small(new)
    BY <2>5, <2>9, SmallerStore
  <2> QED
    BY <1>1, <2>3, <2>4, <2>10, CommitSmall DEF Commit
<1>5. ASSUME NEW d \in Intents, NEW t \in held[d], NEW v \in Verdicts,
             (\E ok \in SaveResults : AckFinal(d, t, v, ok)) \/ AckRepeated(d, t, v) \/ AckRejected(d, t, v)
      PROVE  BoundInv'
  <2>1. CASE AckRepeated(d, t, v) \/ AckRejected(d, t, v)
    BY <1>1, <2>1 DEF AckRepeated, AckRejected
  <2>2. ASSUME NEW ok \in SaveResults, AckFinal(d, t, v, ok) PROVE BoundInv'
    <3>1. PICK cur \in Views : cur[d].state = "claimed" /\ Commit([cur EXCEPT ![d] = Finished(cur[d], v)], ok)
      BY <2>2 DEF AckFinal
    <3>2. PICK n : n = [cur EXCEPT ![d] = Finished(cur[d], v)]
      OBVIOUS
    <3>3. cur \in Store /\ Small(cur) /\ v.state \in OutcomeStates
      BY ViewsSmall, ConstantsAssumption, ReasonFacts
    <3>4. Finished(cur[d], v).state = v.state
      BY <3>3 DEF Finished, Store, Intent
    <3>5. \A e \in Intents : n[e] = IF e = d THEN Finished(cur[d], v) ELSE cur[e]
      BY <3>2, <3>3 DEF Store
    <3>6. Present(n) \subseteq Present(cur) /\ Live(n) \subseteq Live(cur)
      BY <3>1, <3>3, <3>4, <3>5 DEF Present, Live, LiveStates, OutcomeStates
    <3>7. Small(n)
      BY <3>3, <3>6, SmallerStore
    <3> QED
      BY <3>1, <3>2, <3>7, CommitSmall DEF Commit
  <2> QED
    BY <1>5, <2>1, <2>2
<1>6. CASE UNCHANGED <<intents, disk>>
  BY <1>6 DEF BoundInv, Small, Present, Live
<1>7. CASE Restart
  <2>1. Empty \in Store
    BY RecordTypes DEF Empty, Store
  <2>2. Present(Empty) = {} /\ Live(Empty) = {}
    BY DEF Present, Live, Empty, Absent, LiveStates
  <2>3. Small(Empty)
    BY <2>2, FS_EmptySet, ConstantsAssumption DEF Small
  <2> QED
    BY <1>7, <2>3, CommitSmall DEF Restart
<1>8. CASE Tick
  <2>1. ASSUME NEW m \in Store, Small(m), NEW n, n = [d \in Intents |-> Aged(m[d])] PROVE Small(n)
    <3>1. \A d \in Intents : n[d].state = m[d].state
      BY <2>1 DEF Aged, Store, Intent
    <3>2. Present(n) = Present(m) /\ Live(n) = Live(m)
      BY <3>1 DEF Present, Live
    <3> QED
      BY <2>1, <3>2, SmallerStore
  <2>2. Small(intents') /\ Small(disk')
    BY <1>8, <2>1 DEF Tick, BoundInv, TypeOK, Store
  <2> QED
    BY <2>2 DEF BoundInv, Small, Present, Live
<1> QED
  BY <1>1, <1>2, <1>3, <1>4, <1>5, <1>6, <1>7, <1>8
  DEF Next, DoRecord, DoList, DoRead, Read, DoAck, DropToken, DoRestart, DoTick, vars

\* However records, claims, answers, expiries, failed writes and restarts interleave,
\* the outbox holds one record more than its capacity at most, and its capacity of
\* live ones (_maintain).
THEOREM CapacityKept == Spec => []Bounded
<1>1. Init => BoundInv
  <2> SUFFICES ASSUME Init PROVE BoundInv
    OBVIOUS
  <2>1. Present(Empty) = {} /\ Live(Empty) = {}
    BY DEF Present, Live, Empty, Absent, LiveStates
  <2> QED
    BY <2>1, FS_EmptySet, ConstantsAssumption DEF Init, BoundInv, Small
<1>2. BoundInv => Bounded
  BY DEF BoundInv, Small, Live, Bounded
<1> QED
  BY <1>1, <1>2, BoundStep, TypeCorrect, PTL DEF Spec

=============================================================================
