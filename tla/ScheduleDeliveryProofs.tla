----------------------- MODULE ScheduleDeliveryProofs -----------------------
(***************************************************************************)
(* Proofs about the delivery of scheduled runs, for every number of        *)
(* connectors, runs and faults and every value of the limits.              *)
(*                                                                         *)
(* What the outbox does to a record is taken from the proofs about the     *)
(* outbox, of which OP is the instance that the delivery uses.             *)
(***************************************************************************)
EXTENDS ScheduleDelivery, FiniteSetTheorems, TLAPS

OP == INSTANCE DeliveryOutboxProofs WITH
  held <- Known, Addressed <- Intents, Scopes <- {Intents},
  MAX_CLAIM_BATCH <- CLAIM_BATCH, MIN_LEASE <- 1, MAX_LEASE <- LEASE

Store == [Intents -> Outbox!Intent]

-----------------------------------------------------------------------------
(* The invariants.                                                         *)

\* An answer is kept until it is taken, by the poll loop that waits for it.
AnswersAwaited ==
  \A w \in Worker, d \in Intents : answer[w][d] # NoToken => poll[w] = "answered"

\* A task carries what its next step needs.
TasksReady ==
  \A w \in Worker, d \in Intents :
    /\ task[w][d].phase = "job" => task[w][d].tries = 0
    /\ task[w][d].phase = "ack" => task[w][d].tries < ACK_ATTEMPTS
    /\ task[w][d].phase \in {"ack", "call"} => task[w][d].verdict \in Verdicts

\* A task waits for one acknowledgement at a time.
CallsMatchTasks ==
  \A r \in requests : r.live =>
    /\ task[r.from][r.id].phase = "call"
    /\ \A q \in requests : q.live /\ q.from = r.from /\ q.id = r.id => q = r

\* The outbox has no record of a run that was not offered to it.
OnlyOffered ==
  \A d \in Intents :
    intents[d].state # "absent" \/ disk[d].state # "absent" => d \in offered

\* The claims of a run that led, or may still lead, to a post.
Answered(d)  == {w \in Worker : answer[w][d] # NoToken}
Running(d)   == {w \in Worker : task[w][d].phase = "job"}
Potential(d) == posts[d] + Cardinality(Answered(d)) + Cardinality(Running(d))

\* No claim finds a record that is final or gone.
Closed(r) == r.state \notin {"pending", "claimed"}

\* A worker goes about the run d as it should: it has the current lease, and
\* enough of it is left.
InTime(w, d) ==
  \/ /\ answer[w][d] # NoToken /\ answer[w][d] = intents[d].token
     /\ intents[d].lease = LEASE
  \/ /\ task[w][d].phase = "job" /\ lease[w][d] = intents[d].token
     /\ intents[d].lease >= task[w][d].left + LEASE_GRACE
  \/ /\ task[w][d].phase = "ack" /\ lease[w][d] = intents[d].token
     /\ intents[d].lease > 0
  \/ /\ task[w][d].phase = "call" /\ intents[d].lease > 0
     /\ \E r \in requests : /\ r.live /\ r.from = w /\ r.id = d
                            /\ r.token = intents[d].token

\* The run cannot be claimed again, unless something goes wrong first.
Undisturbed(d) ==
  /\ d \in offered /\ loaded
  /\ \/ Closed(intents[d])
     \/ intents[d].state = "claimed" /\ \E w \in Worker : InTime(w, d)

\* All claims of a run but one are paid for by a fault each, and the last one,
\* unless it is paid for as well, keeps the run from being claimed again.
ClaimsPaid ==
  \A d \in Intents :
    /\ Potential(d) <= 1 + Spent
    /\ Potential(d) = 1 + Spent => Undisturbed(d)

\* A claim call, its answer and the tasks that come of it have room.
Items(w) == {d \in Intents : answer[w][d] # NoToken}
RoomKept ==
  \A w \in Worker :
    /\ Cardinality(Active(w)) <= MAX_ACTIVE
    /\ poll[w] = "out" => Cardinality(Active(w)) + limit[w] <= MAX_ACTIVE
    /\ poll[w] = "answered" => Cardinality(Active(w)) + Cardinality(Items(w)) <= MAX_ACTIVE

\* A lease token is given to one connector, and is not in use before its task acts.
TokensUnique ==
  /\ \A w \in Worker, d \in Intents : answer[w][d] # NoToken =>
       /\ \A u \in Worker : lease[u][d] # answer[w][d]
       /\ \A u \in Worker : answer[u][d] = answer[w][d] => u = w
       /\ \A r \in requests : r.id = d => r.token # answer[w][d]
  /\ \A w \in Worker, d \in Intents : lease[w][d] # NoToken =>
       \A u \in Worker : lease[u][d] = lease[w][d] => u = w
  /\ \A w \in Worker, d \in Intents : task[w][d].phase = "job" =>
       \A r \in requests : r.id = d => r.token # lease[w][d]

\* The record of d, in memory and in the file, is leased under the token t and
\* the lease lasts for at least n more ticks.
Granted(m, d, t, n) == m[d].state = "claimed" /\ m[d].token = t /\ m[d].lease >= n
GrantIn(m, f, l, d, t, n) == Granted(f, d, t, n) /\ (l => Granted(m, d, t, n))
Grant(d, t, n) == GrantIn(intents, disk, loaded, d, t, n)

\* As long as less went wrong than the grace allows for, whoever may still post
\* has the lease for as long as the job may take.
UnderLease ==
  Spent < LEASE_GRACE =>
    \A w \in Worker, d \in Intents :
      /\ answer[w][d] # NoToken =>
           Grant(d, answer[w][d], JOB_TIMEOUT + LEASE_GRACE - Spent)
      /\ task[w][d].phase = "job" =>
           Grant(d, lease[w][d], task[w][d].left + LEASE_GRACE - Spent)

-----------------------------------------------------------------------------
(* What the outbox does to its records.                                    *)

\* The numbers of the delivery.
LEMMA Numbers ==
  /\ JOB_TIMEOUT \in Nat /\ LEASE_GRACE \in Nat /\ LEASE_GRACE > 0
  /\ LEASE \in Nat /\ LEASE > 0 /\ LEASE = JOB_TIMEOUT + LEASE_GRACE
  /\ MAX_ACTIVE \in Nat /\ CLAIM_BATCH \in Nat /\ ACK_ATTEMPTS \in Nat /\ MaxFaults \in Nat
  BY WorkerAssumption DEF LEASE

\* The instance of the proofs talks of the same values and operators.
LEMMA SameValues ==
  /\ Outbox!OutcomeStates = OP!OutcomeStates /\ Outbox!TerminalStates = OP!TerminalStates
  /\ Outbox!Verdict = OP!Verdict /\ Outbox!NoVerdict = OP!NoVerdict
  /\ Outbox!Intent = OP!Intent /\ Outbox!Absent = OP!Absent /\ Outbox!Empty = OP!Empty
<1>1. Outbox!OutcomeStates = OP!OutcomeStates /\ Outbox!TerminalStates = OP!TerminalStates
  BY DEF Outbox!OutcomeStates, OP!OutcomeStates, Outbox!TerminalStates, OP!TerminalStates
<1>2. Outbox!AckReasons = OP!AckReasons
  BY DEF Outbox!AckReasons, OP!AckReasons
<1>3. Outbox!Verdict = OP!Verdict
  BY <1>1, <1>2 DEF Outbox!Verdict, OP!Verdict
<1>4. Outbox!AllStates = OP!AllStates
  BY <1>1 DEF Outbox!AllStates, OP!AllStates, Outbox!LiveStates, OP!LiveStates
<1>5. Outbox!Reasons = OP!Reasons
  BY <1>1, <1>2 DEF Outbox!Reasons, OP!Reasons
<1>6. Outbox!Intent = OP!Intent
  <2>1. Outbox!Lease = OP!Lease
    BY DEF Outbox!Lease, OP!Lease
  <2> QED
    BY <1>4, <1>5, <2>1 DEF Outbox!Intent, OP!Intent
<1>7. Outbox!Absent = OP!Absent /\ Outbox!NoVerdict = OP!NoVerdict
  BY DEF Outbox!Absent, OP!Absent, Outbox!NoVerdict, OP!NoVerdict
<1>8. Outbox!Empty = OP!Empty
  BY <1>7 DEF Outbox!Empty, OP!Empty
<1> QED
  BY <1>1, <1>3, <1>6, <1>7, <1>8

LEMMA SameRecords ==
  /\ \A d : Outbox!NewIntent(d) = OP!NewIntent(d)
  /\ \A r : Outbox!Aged(r) = OP!Aged(r)
  /\ \A r, t, l : Outbox!Leased(r, t, l) = OP!Leased(r, t, l)
  /\ \A r, v : Outbox!Finished(r, v) = OP!Finished(r, v)
  /\ \A r, why : Outbox!Expire(r, why) = OP!Expire(r, why)
<1>1. \A d : Outbox!NewIntent(d) = OP!NewIntent(d)
  BY SameValues DEF Outbox!NewIntent, OP!NewIntent
<1>2. \A r : Outbox!Aged(r) = OP!Aged(r)
  BY DEF Outbox!Aged, OP!Aged
<1>3. \A r, t, l : Outbox!Leased(r, t, l) = OP!Leased(r, t, l)
  BY DEF Outbox!Leased, OP!Leased
<1>4. \A r, v : Outbox!Finished(r, v) = OP!Finished(r, v)
  BY DEF Outbox!Finished, OP!Finished
<1>5. \A r, why : Outbox!Expire(r, why) = OP!Expire(r, why)
  BY DEF Outbox!Expire, OP!Expire
<1> QED
  BY <1>1, <1>2, <1>3, <1>4, <1>5

LEMMA SameCardinality ==
  \A S : Outbox!Cardinality(S) = Cardinality(S) /\ OP!Cardinality(S) = Cardinality(S)
  BY DEF Outbox!Cardinality, OP!Cardinality, Cardinality

LEMMA SameMaintenance == \A m : Outbox!Maintained(m) = OP!Maintained(m)
<1>1. \A r : Outbox!Terminal(r) = OP!Terminal(r)
  BY SameValues DEF Outbox!Terminal, OP!Terminal
<1>2. \A m : Outbox!Swept(m) = OP!Swept(m)
  BY <1>1, SameValues, SameRecords DEF Outbox!Swept, OP!Swept
<1>3. \A m : Outbox!Present(m) = OP!Present(m)
  BY DEF Outbox!Present, OP!Present
<1>4. \A r, s : Outbox!EvictedBefore(r, s) = OP!EvictedBefore(r, s)
  BY <1>1 DEF Outbox!EvictedBefore, OP!EvictedBefore
<1>5. \A m : Outbox!Victims(m) = OP!Victims(m)
  BY <1>3, <1>4, SameCardinality DEF Outbox!Victims, OP!Victims
<1>6. \A m, V : Outbox!Evict(m, V) = OP!Evict(m, V)
  BY <1>1, SameValues, SameRecords DEF Outbox!Evict, OP!Evict
<1> QED
  BY <1>2, <1>5, <1>6 DEF Outbox!Maintained, OP!Maintained

\* The constants of the instance are what the proofs about the outbox ask for.
LEMMA OutboxConstants == OP!ConstantsAssumption
  BY OutboxAssumption, WorkerAssumption, Numbers, SameValues DEF OP!ConstantsAssumption

\* The states that an acknowledgement records are final.
LEMMA VerdictFacts ==
  \A v \in Verdicts : v \in Outbox!Verdict /\ v.state \in Outbox!OutcomeStates
  BY OutboxAssumption DEF Outbox!Verdict

\* Records stay well formed, and the fields that each transformation sets.
LEMMA RecordFacts ==
  ASSUME NEW r \in Outbox!Intent
  PROVE  /\ Outbox!Aged(r) \in Outbox!Intent
         /\ Outbox!Aged(r).token = r.token /\ Outbox!Aged(r).state = r.state
         /\ r.state # "absent" =>
              Outbox!Aged(r).lease = IF r.lease = 0 THEN 0 ELSE r.lease - 1
         /\ \A t \in Token :
              /\ Outbox!Leased(r, t, LEASE) \in Outbox!Intent
              /\ Outbox!Leased(r, t, LEASE).token = t
              /\ Outbox!Leased(r, t, LEASE).state = "claimed"
              /\ Outbox!Leased(r, t, LEASE).lease = LEASE
         /\ \A v \in Verdicts :
              /\ Outbox!Finished(r, v) \in Outbox!Intent
              /\ Outbox!Finished(r, v).token = r.token
              /\ Outbox!Finished(r, v).state = v.state /\ Closed(Outbox!Finished(r, v))
<1>0. r \in OP!Intent
  BY SameValues
<1>1. Outbox!Aged(r) \in Outbox!Intent
  BY <1>0, OP!AgedType, OutboxConstants, SameValues, SameRecords
<1>2. Outbox!Aged(r).token = r.token /\ Outbox!Aged(r).state = r.state
  BY <1>0, OP!FieldFacts, OutboxConstants, SameRecords
<1>3. r.state # "absent" =>
        Outbox!Aged(r).lease = IF r.lease = 0 THEN 0 ELSE r.lease - 1
  BY DEF Outbox!Aged, Outbox!Intent
<1>4. ASSUME NEW t \in Token
      PROVE  /\ Outbox!Leased(r, t, LEASE) \in Outbox!Intent
             /\ Outbox!Leased(r, t, LEASE).token = t
             /\ Outbox!Leased(r, t, LEASE).state = "claimed"
             /\ Outbox!Leased(r, t, LEASE).lease = LEASE
  <2>1. LEASE \in OP!Lease
    BY Numbers DEF OP!Lease
  <2>2. Outbox!Leased(r, t, LEASE) \in Outbox!Intent
    BY <1>0, <2>1, OP!RecordTypes, OutboxConstants, SameValues, SameRecords DEF OP!RecordTypes
  <2> QED
    BY <2>2 DEF Outbox!Leased, Outbox!Intent
<1>5. ASSUME NEW v \in Verdicts
      PROVE  /\ Outbox!Finished(r, v) \in Outbox!Intent
             /\ Outbox!Finished(r, v).token = r.token
             /\ Outbox!Finished(r, v).state = v.state /\ Closed(Outbox!Finished(r, v))
  <2>1. v \in OP!Verdict /\ v.state \in {"sent", "job_failed", "timed_out", "undeliverable"}
    BY VerdictFacts, SameValues DEF Outbox!OutcomeStates
  <2>2. Outbox!Finished(r, v) \in Outbox!Intent
    BY <1>0, <2>1, OP!RecordTypes, OutboxConstants, SameValues, SameRecords DEF OP!RecordTypes
  <2>3. Outbox!Finished(r, v).token = r.token /\ Outbox!Finished(r, v).state = v.state
    BY DEF Outbox!Finished, Outbox!Intent
  <2> QED
    BY <2>1, <2>2, <2>3 DEF Closed
<1> QED
  BY <1>1, <1>2, <1>3, <1>4, <1>5

\* What maintenance leaves of a record: itself, or one that no claim finds.  It
\* creates none, and spares the claimed ones while the outbox has room.
Kept(r, s) ==
  /\ s = r \/ Closed(s)
  /\ r.state = "absent" => s.state = "absent"
  /\ r.state = "claimed" /\ Cardinality(Intents) <= MAX_RECORDS => s = r

LEMMA KeptItself == \A r : Kept(r, r)
  BY DEF Kept

LEMMA Maintenance ==
  ASSUME NEW m \in Store, NEW n \in Outbox!Maintained(m)
  PROVE  n \in Store /\ \A d \in Intents : Kept(m[d], n[d])
<1>1. m \in OP!Store /\ n \in OP!Maintained(m)
  BY SameValues, SameMaintenance DEF Store, OP!Store
<1>2. n \in OP!Store /\ \A d \in Intents : OP!Upkeep(m[d], n[d])
  BY <1>1, OP!MaintainedUpkeep, OutboxConstants
<1>3. n \in Store
  BY <1>2, SameValues DEF Store, OP!Store
<1>4. ASSUME NEW d \in Intents
      PROVE  /\ n[d] = m[d] \/ Closed(n[d])
             /\ m[d].state = "absent" => n[d].state = "absent"
  <2>1. m[d] \in Outbox!Intent
    BY DEF Store
  <2>2. \A why : Closed(OP!Expire(m[d], why))
    BY <2>1 DEF OP!Expire, Closed, Outbox!Intent
  <2>3. Closed(OP!Absent) /\ OP!Absent.state = "absent"
    BY DEF OP!Absent, Closed
  <2>4. m[d].state \in OP!LiveStates => m[d].state # "absent"
    BY DEF OP!LiveStates
  <2> QED
    BY <1>2, <2>2, <2>3, <2>4 DEF OP!Upkeep
<1>5. ASSUME Cardinality(Intents) <= MAX_RECORDS, NEW d \in Intents, m[d].state = "claimed"
      PROVE  n[d] = m[d]
  <2> DEFINE P == Outbox!Present(Outbox!Swept(m))
  <2>1. PICK V \in Outbox!Victims(Outbox!Swept(m)) : n = Outbox!Evict(Outbox!Swept(m), V)
    BY DEF Outbox!Maintained
  <2>2. P \subseteq Intents /\ IsFiniteSet(P)
    BY WorkerAssumption, FS_Subset DEF Outbox!Present
  <2>3. Cardinality(P) <= MAX_RECORDS /\ Cardinality(P) \in Nat
    <3>1. Cardinality(P) <= Cardinality(Intents)
      BY <2>2, WorkerAssumption, FS_Subset
    <3>2. Cardinality(P) \in Nat /\ Cardinality(Intents) \in Nat /\ MAX_RECORDS \in Nat
      BY <2>2, WorkerAssumption, OutboxAssumption, FS_CardinalityType
    <3> QED
      BY <1>5, <3>1, <3>2
  <2>4. V \subseteq P /\ Cardinality(V) = 0
    <3>1. ~ (Cardinality(P) > MAX_RECORDS)
      BY <2>3, OutboxAssumption
    <3> QED
      BY <2>1, <3>1, SameCardinality DEF Outbox!Victims
  <2>5. V = {}
    BY <2>2, <2>4, FS_Subset, FS_EmptySet
  <2>6. Outbox!Swept(m)[d] = m[d]
    BY <1>5 DEF Outbox!Swept, Outbox!Terminal, Outbox!TerminalStates, Outbox!OutcomeStates
  <2> QED
    BY <2>1, <2>5, <2>6 DEF Outbox!Evict
<1> QED
  BY <1>3, <1>4, <1>5 DEF Kept

-----------------------------------------------------------------------------
(* What the operations of the outbox do, record by record.                 *)

\* An operation starts from the store cur, which is the one in memory or, after
\* a restart, the one in the file, and writes what it changes or fails to.
Adopted(cur) ==
  /\ cur \in Store
  /\ loaded => cur = intents
  /\ ~ loaded => cur = disk \/ (cur = Outbox!Empty /\ "load" \in Faults)
  /\ intents' \in Store /\ loaded' = TRUE
  /\ disk' = disk \/ disk' = intents'

\* The typed state of the outbox.
StoresOK == intents \in Store /\ disk \in Store /\ loaded \in BOOLEAN

LEMMA ViewAdopted ==
  ASSUME StoresOK, NEW cur \in Outbox!Views, intents' \in Store, loaded' = TRUE,
         disk' = disk \/ disk' = intents'
  PROVE  Adopted(cur)
<1>1. Outbox!Empty \in Store
  <2>1. OP!Absent \in OP!Intent
    BY OP!RecordTypes, OutboxConstants DEF OP!RecordTypes
  <2> QED
    BY <2>1, SameValues DEF Outbox!Empty, Store
<1> QED
  BY <1>1 DEF Adopted, Outbox!Views, StoresOK

LEMMA CommitAdopted ==
  ASSUME StoresOK, NEW cur \in Outbox!Views, NEW m \in Store, NEW ok, Outbox!Commit(m, ok)
  PROVE  Adopted(cur) /\ intents' = m /\ (ok => disk' = intents')
<1>1. intents' = m /\ loaded' = TRUE /\ disk' = IF ok THEN m ELSE disk
  BY DEF Outbox!Commit
<1> QED
  BY <1>1, ViewAdopted

LEMMA KeepAdopted ==
  ASSUME StoresOK, NEW cur \in Outbox!Views, Outbox!Keep(cur)
  PROVE  Adopted(cur) /\ intents' = cur /\ disk' = disk
<1>1. intents' = cur /\ loaded' = TRUE /\ disk' = disk
  BY DEF Outbox!Keep
<1>2. cur \in Store
  <2>1. OP!Absent \in OP!Intent
    BY OP!RecordTypes, OutboxConstants DEF OP!RecordTypes
  <2> QED
    BY <2>1, SameValues DEF Outbox!Empty, Store, Outbox!Views, StoresOK
<1> QED
  BY <1>1, <1>2, ViewAdopted

\* Recording a run creates its record, if there is none, and maintains the rest.
LEMMA RecordEffect ==
  ASSUME StoresOK, NEW d \in Intents, NEW ok, Outbox!Record(d, ok)
  PROVE  \E cur : /\ Adopted(cur) /\ told' = told
                  /\ \A e \in Intents : e # d => Kept(cur[e], intents'[e])
                  /\ cur[d].state # "absent" => Kept(cur[d], intents'[d])
<1>1. PICK cur \in Outbox!Views :
        \/ cur[d].state # "absent" /\ Outbox!Keep(cur)
        \/ /\ cur[d].state = "absent"
           /\ \E m \in Outbox!Maintained([cur EXCEPT ![d] = Outbox!NewIntent(d)]) :
                Outbox!Commit(m, ok)
  BY DEF Outbox!Record
<1>2. told' = told
  BY DEF Outbox!Record
<1>3. CASE Outbox!Keep(cur)
  BY <1>2, <1>3, KeepAdopted, KeptItself
<1>4. ASSUME cur[d].state = "absent",
             NEW m \in Outbox!Maintained([cur EXCEPT ![d] = Outbox!NewIntent(d)]),
             Outbox!Commit(m, ok)
      PROVE  /\ Adopted(cur)
             /\ \A e \in Intents : e # d => Kept(cur[e], intents'[e])
  <2> DEFINE new == [cur EXCEPT ![d] = Outbox!NewIntent(d)]
  <2>1. Outbox!Empty \in Store /\ Outbox!NewIntent(d) \in Outbox!Intent
    <3>1. OP!Absent \in OP!Intent /\ OP!NewIntent(d) \in OP!Intent
      BY OP!RecordTypes, OutboxConstants DEF OP!RecordTypes
    <3> QED
      BY <3>1, SameValues, SameRecords DEF Outbox!Empty, Store
  <2>2. cur \in Store
    BY <2>1 DEF Outbox!Views, StoresOK
  <2>3. new \in Store
    BY <2>1, <2>2 DEF Store
  <2>4. m \in Store /\ \A e \in Intents : Kept(new[e], m[e])
    BY <1>4, <2>3, Maintenance
  <2>5. Adopted(cur) /\ intents' = m
    BY <1>4, <2>4, CommitAdopted
  <2> QED
    BY <2>2, <2>4, <2>5 DEF Store
<1> QED
  BY <1>1, <1>2, <1>3, <1>4

LeasesBatch(cur, t, chosen, ok) ==
  /\ Adopted(cur) /\ told' = told
  /\ ok /\ chosen # {} => disk' = intents'
  /\ \A e \in chosen :
       /\ cur[e].state = "pending" \/ (cur[e].state = "claimed" /\ cur[e].lease = 0)
       /\ intents'[e] = Outbox!Leased(cur[e], t, LEASE)
  /\ \A e \in Intents \ chosen : Kept(cur[e], intents'[e])

\* A claim leases its batch, which holds pending records and those whose lease
\* ran out, and maintains the rest.  One that succeeds is written.
LEMMA ClaimEffect ==
  ASSUME StoresOK, NEW batch \in Nat, NEW t \in Token, NEW chosen \in SUBSET Intents, NEW ok,
         Outbox!Claim(Intents, batch, LEASE, t, chosen, ok)
  PROVE  /\ IsFiniteSet(chosen) /\ Cardinality(chosen) <= batch
         /\ \E cur : LeasesBatch(cur, t, chosen, ok)
<1> DEFINE new(m) == [d \in Intents |->
                        IF d \in chosen THEN Outbox!Leased(m[d], t, LEASE) ELSE m[d]]
<1>a. PICK cur \in Outbox!Views : \E m \in Outbox!Maintained(cur) :
        /\ chosen \in Outbox!Batches(m, Intents, batch)
        /\ IF chosen = {} /\ m = cur THEN Outbox!Keep(cur) ELSE Outbox!Commit(new(m), ok)
  BY DEF Outbox!Claim
<1>1. PICK m \in Outbox!Maintained(cur) :
        /\ chosen \in Outbox!Batches(m, Intents, batch)
        /\ IF chosen = {} /\ m = cur THEN Outbox!Keep(cur) ELSE Outbox!Commit(new(m), ok)
  BY <1>a
<1>2. told' = told
  BY DEF Outbox!Claim
<1>3. cur \in Store
  <2>1. OP!Absent \in OP!Intent
    BY OP!RecordTypes, OutboxConstants DEF OP!RecordTypes
  <2> QED
    BY <2>1, SameValues DEF Outbox!Empty, Store, Outbox!Views, StoresOK
<1>4. m \in Store /\ \A e \in Intents : Kept(cur[e], m[e])
  BY <1>3, Maintenance
<1>5. IsFiniteSet(chosen) /\ Cardinality(chosen) <= batch
  <2> DEFINE C == Outbox!Claimable(m, Intents)
             size == IF Cardinality(C) < batch THEN Cardinality(C) ELSE batch
  <2>1. Cardinality(chosen) = size
    BY <1>1, SameCardinality DEF Outbox!Batches
  <2>2. C \subseteq Intents
    BY DEF Outbox!Claimable
  <2>3. IsFiniteSet(C) /\ Cardinality(C) \in Nat
    BY <2>2, WorkerAssumption, FS_Subset, FS_CardinalityType
  <2>4. IsFiniteSet(chosen)
    BY WorkerAssumption, FS_Subset
  <2> HIDE DEF C
  <2> QED
    BY <2>1, <2>3, <2>4
<1>6. \A e \in chosen : m[e].state = "pending" \/ (m[e].state = "claimed" /\ m[e].lease = 0)
  BY <1>1 DEF Outbox!Batches, Outbox!Claimable
<1>7. \A e \in chosen : m[e] = cur[e]
  BY <1>4, <1>6 DEF Kept, Closed
<1>8. CASE chosen = {} /\ Outbox!Keep(cur)
  BY <1>2, <1>5, <1>8, KeepAdopted, KeptItself DEF LeasesBatch
<1>9. CASE Outbox!Commit(new(m), ok)
  <2>1. new(m) \in Store
    BY <1>4, RecordFacts DEF Store
  <2>2. Adopted(cur) /\ intents' = new(m) /\ (ok => disk' = intents')
    <3> HIDE DEF new
    <3> QED
      BY <1>9, <2>1, CommitAdopted
  <2>3. \A e \in chosen : intents'[e] = Outbox!Leased(cur[e], t, LEASE)
    BY <1>7, <2>2
  <2>4. \A e \in Intents \ chosen : Kept(cur[e], intents'[e])
    BY <1>4, <2>2
  <2> QED
    BY <1>2, <1>5, <1>6, <1>7, <2>2, <2>3, <2>4 DEF LeasesBatch
<1> QED
  BY <1>1, <1>8, <1>9

\* The first acknowledgement under the current lease finishes the record.
LEMMA AckAdopted ==
  ASSUME StoresOK, NEW d \in Intents, NEW v \in Verdicts, NEW cur \in Outbox!Views,
         intents' = [cur EXCEPT ![d] = Outbox!Finished(cur[d], v)], loaded' = TRUE,
         disk' = disk \/ disk' = intents'
  PROVE  Adopted(cur)
<1>1. cur \in Store
  <2>1. OP!Absent \in OP!Intent
    BY OP!RecordTypes, OutboxConstants DEF OP!RecordTypes
  <2> QED
    BY <2>1, SameValues DEF Outbox!Empty, Store, Outbox!Views, StoresOK
<1>2. intents' \in Store
  BY <1>1, RecordFacts DEF Store
<1> QED
  BY <1>2, ViewAdopted

\* Every other acknowledgement changes nothing.  One under the current lease of
\* a claimed record is not of that kind.
LEMMA AckNoEffect ==
  ASSUME StoresOK, NEW d \in Intents, NEW t, NEW v \in Verdicts,
         Outbox!AckRepeated(d, t, v) \/ Outbox!AckRejected(d, t, v)
  PROVE  /\ told' = [told EXCEPT ![d] = v] \/ told' = told
         /\ \E cur : /\ Adopted(cur) /\ intents' = cur /\ disk' = disk
                     /\ cur[d].state # "claimed" \/ cur[d].token # t
<1>1. PICK cur \in Outbox!Views :
        Outbox!Keep(cur) /\ (cur[d].state # "claimed" \/ cur[d].token # t)
  BY VerdictFacts DEF Outbox!AckRepeated, Outbox!AckRejected, Outbox!OutcomeStates
<1>2. told' = [told EXCEPT ![d] = v] \/ told' = told
  BY DEF Outbox!AckRepeated, Outbox!AckRejected
<1> QED
  BY <1>1, <1>2, KeepAdopted

\* An acknowledgement that is accepted, and one that changes nothing.
Settles(r, cur) ==
  /\ cur[r.id].state = "claimed" /\ cur[r.id].token = r.token
  /\ intents' = [cur EXCEPT ![r.id] = Outbox!Finished(cur[r.id], r.verdict)]
Ignores(r, cur) ==
  /\ cur[r.id].state # "claimed" \/ cur[r.id].token # r.token
  /\ intents' = cur /\ disk' = disk

\* The outcomes that callers were told of stay verdicts.
ToldOK == told \in [Intents -> Outbox!Verdict \cup {Outbox!NoVerdict}]

LEMMA HandleEffect ==
  ASSUME StoresOK, ToldOK, NEW r \in Request, HandleAck(r)
  PROVE  /\ ToldOK'
         /\ \E cur : Adopted(cur) /\ ((Settles(r, cur) /\ disk' = intents') \/ Ignores(r, cur))
<1>1. r.id \in Intents /\ r.verdict \in Verdicts /\ r.verdict \in Outbox!Verdict
  BY VerdictFacts DEF Request
<1>2. CASE Outbox!AckFinal(r.id, r.token, r.verdict, TRUE)
  <2>1. /\ told' = [told EXCEPT ![r.id] = r.verdict]
        /\ \E cur \in Outbox!Views :
             /\ cur[r.id].state = "claimed" /\ cur[r.id].token = r.token
             /\ intents' = [cur EXCEPT ![r.id] = Outbox!Finished(cur[r.id], r.verdict)]
             /\ loaded' = TRUE /\ disk' = intents'
    BY <1>2 DEF Outbox!AckFinal, Outbox!Commit
  <2> QED
    BY <1>1, <2>1, AckAdopted DEF ToldOK, Settles
<1>3. CASE \/ Outbox!AckRepeated(r.id, r.token, r.verdict)
           \/ Outbox!AckRejected(r.id, r.token, r.verdict)
  BY <1>1, <1>3, AckNoEffect DEF ToldOK, Ignores
<1> QED
  BY <1>2, <1>3 DEF HandleAck

LEMMA FailedEffect ==
  ASSUME StoresOK, ToldOK, NEW r \in Request, Outbox!AckFinal(r.id, r.token, r.verdict, FALSE)
  PROVE  ToldOK' /\ \E cur : Adopted(cur) /\ Settles(r, cur)
<1>1. r.id \in Intents /\ r.verdict \in Verdicts
  BY DEF Request
<1>2. /\ told' = told
      /\ \E cur \in Outbox!Views :
           /\ cur[r.id].state = "claimed" /\ cur[r.id].token = r.token
           /\ intents' = [cur EXCEPT ![r.id] = Outbox!Finished(cur[r.id], r.verdict)]
           /\ loaded' = TRUE /\ disk' = disk
  BY DEF Outbox!AckFinal, Outbox!Commit
<1> QED
  BY <1>1, <1>2, AckAdopted DEF ToldOK, Settles

\* Time and restarts.
LEMMA TickEffect ==
  ASSUME StoresOK, Outbox!Tick
  PROVE  /\ StoresOK' /\ told' = told /\ loaded' = loaded
         /\ \A d \in Intents : /\ intents'[d] = Outbox!Aged(intents[d])
                               /\ disk'[d] = Outbox!Aged(disk[d])
  BY RecordFacts DEF Outbox!Tick, StoresOK, Store

LEMMA RestartEffect ==
  ASSUME StoresOK, Outbox!Restart
  PROVE  /\ StoresOK' /\ told' = told /\ loaded' = FALSE /\ disk' = disk
         /\ intents' = Outbox!Empty
<1>1. OP!Absent \in OP!Intent
  BY OP!RecordTypes, OutboxConstants DEF OP!RecordTypes
<1> QED
  BY <1>1, SameValues DEF Outbox!Restart, Outbox!Empty, StoresOK, Store

LEMMA AdoptedOK == ASSUME StoresOK, NEW cur, Adopted(cur) PROVE StoresOK'
  BY DEF Adopted, StoresOK

-----------------------------------------------------------------------------
(* Type correctness.                                                       *)

\* The type invariant in the terms of this module.
Parts ==
  /\ StoresOK /\ ToldOK
  /\ offered \subseteq Intents
  /\ poll \in [Worker -> {"idle", "out", "answered", "asleep"}]
  /\ limit \in [Worker -> 0 .. CLAIM_BATCH]
  /\ answer \in [Worker -> [Intents -> Token \cup {NoToken}]]
  /\ lease \in [Worker -> [Intents -> Token \cup {NoToken}]]
  /\ task \in [Worker -> [Intents -> Task]]
  /\ requests \subseteq Request
  /\ posts \in [Intents -> Nat]
  /\ faultsLeft \in 0 .. MaxFaults
  /\ \A w \in Worker, d \in Intents : task[w][d].phase # "none" => lease[w][d] # NoToken

LEMMA PartsType == Parts <=> TypeOK
<1>1. Parts => TypeOK
  <2> SUFFICES ASSUME Parts PROVE TypeOK
    OBVIOUS
  <2>1. Known \in [Intents -> SUBSET Token]
    <3> SUFFICES ASSUME NEW d \in Intents
                 PROVE  ({lease[w][d] : w \in Worker} \cup {answer[w][d] : w \in Worker}
                          \cup {r.token : r \in {q \in requests : q.id = d}}) \ {NoToken}
                           \subseteq Token
      BY DEF Known
    <3>1. \A r \in requests : r.token \in Token
      BY DEF Parts, Request
    <3> QED
      BY <3>1 DEF Parts
  <2>2. StoresOK /\ ToldOK
    BY DEF Parts
  <2>3. Outbox!TypeOK
    BY <2>1, <2>2 DEF Outbox!TypeOK, StoresOK, ToldOK, Store
  <2> QED
    BY <2>3 DEF Parts, TypeOK, Active
<1>2. TypeOK => Parts
  BY DEF Parts, TypeOK, Active, Outbox!TypeOK, StoresOK, ToldOK, Store
<1> QED
  BY <1>1, <1>2

\* A fault is one of those that may still happen.
LEMMA FaultTyped ==
  ASSUME faultsLeft \in 0 .. MaxFaults, Fault \/ NoFault
  PROVE  faultsLeft' \in 0 .. MaxFaults
  BY Numbers DEF Fault, NoFault

\* What the steps make of a task.
LEMMA TaskFacts ==
  /\ NoTask \in Task
  /\ [NoTask EXCEPT !.phase = "job", !.left = JOB_TIMEOUT] \in Task
  /\ [NoTask EXCEPT !.phase = "job", !.left = JOB_TIMEOUT].phase = "job"
  /\ [NoTask EXCEPT !.phase = "job", !.left = JOB_TIMEOUT].tries = 0
  /\ [NoTask EXCEPT !.phase = "job", !.left = JOB_TIMEOUT].left = JOB_TIMEOUT
  /\ \A k \in Task :
       /\ Over(k) \in Task /\ Over(k).phase = "done"
       /\ Retry(k) \in Task /\ Retry(k).phase \in {"ack", "done"}
       /\ Retry(k).phase = "ack" => k.tries < ACK_ATTEMPTS
       /\ Retry(k).tries = k.tries /\ Retry(k).verdict = k.verdict
<1>1. NoTask \in Task
  BY Numbers DEF NoTask, Task, Phase
<1>2. /\ [NoTask EXCEPT !.phase = "job", !.left = JOB_TIMEOUT] \in Task
      /\ [NoTask EXCEPT !.phase = "job", !.left = JOB_TIMEOUT].phase = "job"
      /\ [NoTask EXCEPT !.phase = "job", !.left = JOB_TIMEOUT].tries = 0
      /\ [NoTask EXCEPT !.phase = "job", !.left = JOB_TIMEOUT].left = JOB_TIMEOUT
  <2>1. [NoTask EXCEPT !.phase = "job", !.left = JOB_TIMEOUT] =
          [phase |-> "job", left |-> JOB_TIMEOUT, tries |-> 0, verdict |-> Outbox!NoVerdict]
    <3> DEFINE k == [phase |-> "job", left |-> 0, tries |-> 0, verdict |-> Outbox!NoVerdict]
    <3>1. [NoTask EXCEPT !.phase = "job"] = k
      BY DEF NoTask
    <3>2. [k EXCEPT !.left = JOB_TIMEOUT] =
            [phase |-> "job", left |-> JOB_TIMEOUT, tries |-> 0, verdict |-> Outbox!NoVerdict]
      OBVIOUS
    <3>3. [NoTask EXCEPT !.phase = "job", !.left = JOB_TIMEOUT] = [k EXCEPT !.left = JOB_TIMEOUT]
      BY <3>1
    <3> QED
      BY <3>2, <3>3
  <2>2. [phase |-> "job", left |-> JOB_TIMEOUT, tries |-> 0, verdict |-> Outbox!NoVerdict] \in Task
    BY Numbers DEF Task, Phase
  <2> QED
    BY <2>1, <2>2
<1>3. ASSUME NEW k \in Task
      PROVE  /\ Over(k) \in Task /\ Over(k).phase = "done"
             /\ Retry(k) \in Task /\ Retry(k).phase \in {"ack", "done"}
             /\ Retry(k).phase = "ack" => k.tries < ACK_ATTEMPTS
             /\ Retry(k).tries = k.tries /\ Retry(k).verdict = k.verdict
  BY DEF Over, Retry, Task, Phase
<1> QED
  BY <1>1, <1>2, <1>3

\* The well-formed states.
Base == Parts /\ AnswersAwaited /\ TasksReady /\ CallsMatchTasks /\ OnlyOffered

LEMMA OutboxSame ==
  ASSUME Parts, UNCHANGED outboxVars
  PROVE  StoresOK' /\ ToldOK'
  BY DEF Parts, StoresOK, ToldOK, outboxVars

\* Changing one task.
LEMMA TaskStep ==
  ASSUME task \in [Worker -> [Intents -> Task]], NEW w \in Worker, NEW d \in Intents,
         NEW k \in Task, task' = [task EXCEPT ![w][d] = k]
  PROVE  /\ task' \in [Worker -> [Intents -> Task]]
         /\ \A u \in Worker, e \in Intents :
              task'[u][e] = IF u = w /\ e = d THEN k ELSE task[u][e]
  OBVIOUS

\* What an operation leaves absent, when it was absent before.
LEMMA AbsentStays ==
  ASSUME NEW cur, Adopted(cur), NEW e \in Intents,
         intents[e].state = "absent", disk[e].state = "absent",
         cur[e].state = "absent" => intents'[e].state = "absent"
  PROVE  intents'[e].state = "absent" /\ disk'[e].state = "absent"
  BY DEF Adopted, Outbox!Empty, Outbox!Absent

LEMMA BaseInit == Init => Base
<1> SUFFICES ASSUME Init PROVE Base
  OBVIOUS
<1>1. StoresOK /\ ToldOK
  <2>1. OP!Absent \in OP!Intent
    BY OP!RecordTypes, OutboxConstants DEF OP!RecordTypes
  <2> QED
    BY <2>1, SameValues DEF Init, Outbox!Init, Outbox!Empty, StoresOK, ToldOK, Store
<1>2. NoLeases \in [Intents -> Token \cup {NoToken}]
  BY DEF NoLeases
<1>3. Parts
  BY <1>1, <1>2, Numbers, TaskFacts DEF Parts, Init, NoTask
<1>4. AnswersAwaited
  BY DEF AnswersAwaited, Init, NoLeases
<1>5. TasksReady
  BY DEF TasksReady, Init, NoTask
<1>6. CallsMatchTasks
  BY DEF CallsMatchTasks, Init
<1>7. OnlyOffered
  BY DEF OnlyOffered, Init, Outbox!Init, Outbox!Empty, Outbox!Absent
<1> QED
  BY <1>3, <1>4, <1>5, <1>6, <1>7 DEF Base

LEMMA StutterBase == Base /\ UNCHANGED vars => Base'
  BY DEF Base, Parts, StoresOK, ToldOK, AnswersAwaited, TasksReady, CallsMatchTasks, OnlyOffered,
         vars, outboxVars, pollVars

LEMMA RecordBase ==
  ASSUME Base, NEW d \in Intents, RecordIntent(d)
  PROVE  Base'
<1> PICK ok \in BOOLEAN : Saved(ok) /\ Outbox!Record(d, ok)
  BY DEF RecordIntent
<1>1. StoresOK /\ ToldOK
  BY DEF Base, Parts
<1>2. PICK cur : /\ Adopted(cur) /\ told' = told
                 /\ \A e \in Intents : e # d => Kept(cur[e], intents'[e])
                 /\ cur[d].state # "absent" => Kept(cur[d], intents'[d])
  BY <1>1, RecordEffect
<1>3. StoresOK' /\ ToldOK'
  BY <1>1, <1>2, AdoptedOK DEF ToldOK
<1>4. faultsLeft' \in 0 .. MaxFaults
  BY FaultTyped DEF Base, Parts, Saved
<1>5. Parts'
  BY <1>3, <1>4 DEF Base, Parts, RecordIntent, pollVars
<1>6. AnswersAwaited' /\ TasksReady' /\ CallsMatchTasks'
  BY DEF Base, AnswersAwaited, TasksReady, CallsMatchTasks, RecordIntent, pollVars
<1>7. OnlyOffered'
  <2> SUFFICES ASSUME NEW e \in Intents, e \notin offered'
               PROVE  intents'[e].state = "absent" /\ disk'[e].state = "absent"
    BY DEF OnlyOffered
  <2>1. e # d /\ intents[e].state = "absent" /\ disk[e].state = "absent"
    BY DEF Base, OnlyOffered, RecordIntent
  <2>2. cur[e].state = "absent" => intents'[e].state = "absent"
    BY <1>2, <2>1 DEF Kept
  <2> QED
    BY <1>2, <2>1, <2>2, AbsentStays
<1> QED
  BY <1>5, <1>6, <1>7 DEF Base

\* The tokens of claims are tokens; the task that a claim answers may start.
LEMMA ClaimBase ==
  ASSUME Base, NEW w \in Worker, ServeClaim(w)
  PROVE  Base'
<1>1. StoresOK /\ ToldOK /\ limit[w] \in Nat
  BY Numbers DEF Base, Parts
<1>2. PICK ok \in BOOLEAN, t \in Outbox!FreshTokens, chosen \in SUBSET Intents :
        /\ Saved(ok)
        /\ Outbox!Claim(Intents, limit[w], LEASE, t, chosen, ok)
        /\ poll' = [poll EXCEPT ![w] = IF ok THEN "answered" ELSE "asleep"]
        /\ answer' = [answer EXCEPT ![w] =
             [d \in Intents |-> IF ok /\ d \in chosen THEN t ELSE NoToken]]
  BY DEF ServeClaim
<1>3. t \in Token
  BY <1>2 DEF Outbox!FreshTokens
<1>p. PICK cur : LeasesBatch(cur, t, chosen, ok)
  BY <1>1, <1>2, <1>3, ClaimEffect
<1>4. /\ Adopted(cur) /\ told' = told
      /\ \A e \in chosen :
           /\ cur[e].state = "pending" \/ (cur[e].state = "claimed" /\ cur[e].lease = 0)
           /\ intents'[e] = Outbox!Leased(cur[e], t, LEASE)
      /\ \A e \in Intents \ chosen : Kept(cur[e], intents'[e])
  BY <1>p DEF LeasesBatch
<1>5. StoresOK' /\ ToldOK'
  BY <1>1, <1>4, AdoptedOK DEF ToldOK
<1>6. faultsLeft' \in 0 .. MaxFaults
  BY <1>2, FaultTyped DEF Base, Parts, Saved
<1>7. answer' \in [Worker -> [Intents -> Token \cup {NoToken}]]
  BY <1>2, <1>3 DEF Base, Parts
<1>8. poll' \in [Worker -> {"idle", "out", "answered", "asleep"}]
  BY <1>2 DEF Base, Parts
<1>9. Parts'
  BY <1>5, <1>6, <1>7, <1>8 DEF Base, Parts, ServeClaim
<1>10. AnswersAwaited'
  BY <1>2 DEF Base, Parts, AnswersAwaited
<1>11. TasksReady' /\ CallsMatchTasks'
  BY DEF Base, TasksReady, CallsMatchTasks, ServeClaim
<1>12. OnlyOffered'
  <2> SUFFICES ASSUME NEW e \in Intents, e \notin offered'
               PROVE  intents'[e].state = "absent" /\ disk'[e].state = "absent"
    BY DEF OnlyOffered
  <2>1. intents[e].state = "absent" /\ disk[e].state = "absent"
    BY DEF Base, OnlyOffered, ServeClaim
  <2>2. cur[e].state = "absent" => intents'[e].state = "absent"
    BY <1>4 DEF Kept
  <2> QED
    BY <1>4, <2>1, <2>2, AbsentStays
<1> QED
  BY <1>9, <1>10, <1>11, <1>12 DEF Base

\* A task whose call is over goes on, or is done.
LEMMA AnswerBase ==
  ASSUME Base, NEW r \in requests,
         requests' \subseteq Request,
         \A q \in requests' : q.live => q \in requests /\ q # r,
         \/ task' = IF r.live THEN [task EXCEPT ![r.from][r.id] = Over(@)] ELSE task
         \/ task' = IF r.live THEN [task EXCEPT ![r.from][r.id] = Retry(@)] ELSE task,
         UNCHANGED <<poll, answer, lease>>
  PROVE  /\ task' \in [Worker -> [Intents -> Task]]
         /\ \A w \in Worker, d \in Intents : task'[w][d].phase # "none" => lease'[w][d] # NoToken
         /\ AnswersAwaited' /\ TasksReady' /\ CallsMatchTasks'
<1>1. r \in Request /\ r.from \in Worker /\ r.id \in Intents
  BY DEF Base, Parts, Request
<1>2. AnswersAwaited'
  BY DEF Base, AnswersAwaited
<1>3. CASE ~ r.live
  BY <1>2, <1>3 DEF Base, Parts, TasksReady, CallsMatchTasks
<1>4. CASE r.live
  <2> DEFINE k == task[r.from][r.id]
  <2>1. k \in Task /\ k.phase = "call" /\ lease[r.from][r.id] # NoToken /\ k.verdict \in Verdicts
    BY <1>1, <1>4 DEF Base, Parts, CallsMatchTasks, TasksReady
  <2>2. PICK n \in Task :
          /\ task' = [task EXCEPT ![r.from][r.id] = n]
          /\ n.phase \in {"ack", "done"}
          /\ n.phase = "ack" => n.tries < ACK_ATTEMPTS /\ n.verdict = k.verdict
    <3>1. task' = [task EXCEPT ![r.from][r.id] = Over(k)]
            \/ task' = [task EXCEPT ![r.from][r.id] = Retry(k)]
      BY <1>1, <1>4 DEF Base, Parts
    <3> HIDE DEF k
    <3> QED
      BY <2>1, <3>1, TaskFacts
  <2>3. /\ task' \in [Worker -> [Intents -> Task]]
        /\ \A u \in Worker, e \in Intents :
             task'[u][e] = IF u = r.from /\ e = r.id THEN n ELSE task[u][e]
    BY <1>1, <2>2, TaskStep DEF Base, Parts
  <2>4. \A w \in Worker, d \in Intents : task'[w][d].phase # "none" => lease'[w][d] # NoToken
    BY <2>1, <2>3 DEF Base, Parts
  <2>5. TasksReady'
    <3> SUFFICES ASSUME NEW w \in Worker, NEW d \in Intents
                 PROVE  LET m == task'[w][d] IN
                          /\ m.phase = "job" => m.tries = 0
                          /\ m.phase = "ack" => m.tries < ACK_ATTEMPTS
                          /\ m.phase \in {"ack", "call"} => m.verdict \in Verdicts
      BY DEF TasksReady
    <3>1. CASE w = r.from /\ d = r.id
      <4>1. task'[w][d] = n
        BY <2>3, <3>1
      <4> QED
        BY <2>1, <2>2, <4>1
    <3>2. CASE ~ (w = r.from /\ d = r.id)
      <4>1. task'[w][d] = task[w][d]
        BY <2>3, <3>2
      <4> QED
        BY <4>1 DEF Base, TasksReady
    <3> QED
      BY <3>1, <3>2
  <2>6. CallsMatchTasks'
    <3> SUFFICES ASSUME NEW q \in requests', q.live
                 PROVE  /\ task'[q.from][q.id].phase = "call"
                        /\ \A p \in requests' : p.live /\ p.from = q.from /\ p.id = q.id => p = q
      BY DEF CallsMatchTasks
    <3>1. q \in requests /\ q # r /\ q.from \in Worker /\ q.id \in Intents
      BY DEF Base, Parts, Request
    <3>2. ~ (q.from = r.from /\ q.id = r.id)
      BY <1>4, <3>1 DEF Base, CallsMatchTasks
    <3> QED
      BY <2>3, <3>1, <3>2 DEF Base, CallsMatchTasks
  <2> QED
    BY <1>2, <2>3, <2>4, <2>5, <2>6
<1> QED
  BY <1>3, <1>4

LEMMA AckOffered ==
  ASSUME StoresOK, OnlyOffered, offered' = offered, NEW r \in Request, NEW cur, Adopted(cur),
         Settles(r, cur) \/ Ignores(r, cur)
  PROVE  OnlyOffered'
<1> SUFFICES ASSUME NEW e \in Intents, e \notin offered'
             PROVE  intents'[e].state = "absent" /\ disk'[e].state = "absent"
  BY DEF OnlyOffered
<1>1. intents[e].state = "absent" /\ disk[e].state = "absent"
  BY DEF OnlyOffered
<1>2. cur[e].state = "absent" => intents'[e].state = "absent"
  BY DEF Settles, Ignores, Adopted, Store
<1> QED
  BY <1>1, <1>2, AbsentStays

LEMMA ServeAckBase ==
  ASSUME Base, NEW r \in requests, ServeAck(r)
  PROVE  Base'
<1>1. StoresOK /\ ToldOK /\ r \in Request
  BY DEF Base, Parts
<1>2. ToldOK' /\ \E cur : Adopted(cur) /\ (Settles(r, cur) \/ Ignores(r, cur))
  <2>1. CASE HandleAck(r)
    BY <1>1, <2>1, HandleEffect
  <2>2. CASE Outbox!AckFinal(r.id, r.token, r.verdict, FALSE)
    BY <1>1, <2>2, FailedEffect
  <2> QED
    BY <2>1, <2>2 DEF ServeAck
<1>3. StoresOK' /\ OnlyOffered'
  BY <1>1, <1>2, AdoptedOK, AckOffered DEF Base, ServeAck
<1>4. /\ task' \in [Worker -> [Intents -> Task]]
      /\ \A w \in Worker, d \in Intents : task'[w][d].phase # "none" => lease'[w][d] # NoToken
      /\ AnswersAwaited' /\ TasksReady' /\ CallsMatchTasks'
  <2>1. requests' = requests \ {r} /\ requests' \subseteq Request
    BY DEF Base, Parts, ServeAck
  <2>2. UNCHANGED <<poll, answer, lease>>
    BY DEF ServeAck, pollVars
  <2>3. \/ task' = IF r.live THEN [task EXCEPT ![r.from][r.id] = Over(@)] ELSE task
        \/ task' = IF r.live THEN [task EXCEPT ![r.from][r.id] = Retry(@)] ELSE task
    BY DEF ServeAck
  <2> QED
    BY <2>1, <2>2, <2>3, AnswerBase
<1>5. faultsLeft' \in 0 .. MaxFaults
  BY FaultTyped DEF Base, Parts, ServeAck
<1>6. requests' \subseteq Request
  BY DEF Base, Parts, ServeAck
<1>7. Parts'
  BY <1>2, <1>3, <1>4, <1>5, <1>6 DEF Base, Parts, ServeAck, pollVars
<1> QED
  BY <1>3, <1>4, <1>7 DEF Base

LEMMA AckAnswerLostBase ==
  ASSUME Base, NEW r \in requests, AckAnswerLost(r)
  PROVE  Base'
<1>1. StoresOK /\ ToldOK /\ r \in Request
  BY DEF Base, Parts
<1>2. ToldOK' /\ \E cur : Adopted(cur) /\ (Settles(r, cur) \/ Ignores(r, cur))
  BY <1>1, HandleEffect DEF AckAnswerLost
<1>3. StoresOK' /\ OnlyOffered'
  BY <1>1, <1>2, AdoptedOK, AckOffered DEF Base, AckAnswerLost
<1>4. /\ task' \in [Worker -> [Intents -> Task]]
      /\ \A w \in Worker, d \in Intents : task'[w][d].phase # "none" => lease'[w][d] # NoToken
      /\ AnswersAwaited' /\ TasksReady' /\ CallsMatchTasks'
  <2>1. requests' = requests \ {r} /\ requests' \subseteq Request
    BY DEF Base, Parts, AckAnswerLost
  <2>2. UNCHANGED <<poll, answer, lease>>
    BY DEF AckAnswerLost, pollVars
  <2>3. task' = IF r.live THEN [task EXCEPT ![r.from][r.id] = Retry(@)] ELSE task
    BY DEF AckAnswerLost
  <2> QED
    BY <2>1, <2>2, <2>3, AnswerBase
<1>5. faultsLeft' \in 0 .. MaxFaults
  BY FaultTyped DEF Base, Parts, AckAnswerLost
<1>6. requests' \subseteq Request
  BY DEF Base, Parts, AckAnswerLost
<1>7. Parts'
  BY <1>2, <1>3, <1>4, <1>5, <1>6 DEF Base, Parts, AckAnswerLost, pollVars
<1> QED
  BY <1>3, <1>4, <1>7 DEF Base

LEMMA OfferedSame ==
  ASSUME OnlyOffered, UNCHANGED <<outboxVars, offered>>
  PROVE  OnlyOffered'
  BY DEF OnlyOffered, outboxVars

LEMMA AckCallFailsBase ==
  ASSUME Base, NEW r \in requests, AckCallFails(r)
  PROVE  Base'
<1>1. StoresOK' /\ ToldOK' /\ OnlyOffered'
  BY OutboxSame, OfferedSame DEF Base, AckCallFails
<1>2. requests' \subseteq Request /\ \A q \in requests' : q.live => q \in requests /\ q # r
  <2>1. r \in Request /\ [r EXCEPT !.live = FALSE] \in Request
        /\ ~ [r EXCEPT !.live = FALSE].live
    BY DEF Base, Parts, Request
  <2> QED
    BY <2>1 DEF Base, Parts, AckCallFails
<1>3. /\ task' \in [Worker -> [Intents -> Task]]
      /\ \A w \in Worker, d \in Intents : task'[w][d].phase # "none" => lease'[w][d] # NoToken
      /\ AnswersAwaited' /\ TasksReady' /\ CallsMatchTasks'
  <2>1. UNCHANGED <<poll, answer, lease>>
    BY DEF AckCallFails, pollVars
  <2>2. task' = IF r.live THEN [task EXCEPT ![r.from][r.id] = Retry(@)] ELSE task
    BY DEF AckCallFails
  <2> QED
    BY <1>2, <2>1, <2>2, AnswerBase
<1>4. faultsLeft' \in 0 .. MaxFaults
  BY FaultTyped DEF Base, Parts, AckCallFails
<1>5. Parts'
  BY <1>1, <1>2, <1>3, <1>4 DEF Base, Parts, AckCallFails, pollVars
<1> QED
  BY <1>1, <1>3, <1>5 DEF Base

LEMMA CoreRestartBase == ASSUME Base, CoreRestart PROVE Base'
<1>1. StoresOK
  BY DEF Base, Parts
<1>2. /\ StoresOK' /\ told' = told /\ disk' = disk /\ intents' = Outbox!Empty
  BY <1>1, RestartEffect DEF CoreRestart
<1>3. \A w \in Worker, d \in Intents :
        \/ task'[w][d] = task[w][d] /\ task[w][d].phase # "call"
        \/ task'[w][d] = Retry(task[w][d]) /\ task[w][d].phase = "call"
  BY DEF CoreRestart
<1>4. /\ task' \in [Worker -> [Intents -> Task]]
      /\ \A w \in Worker, d \in Intents : task'[w][d].phase # "none" => lease'[w][d] # NoToken
  <2>1. \A w \in Worker, d \in Intents : task[w][d] \in Task
    BY DEF Base, Parts
  <2>2. \A w \in Worker, d \in Intents : task'[w][d] \in Task
    BY <1>3, <2>1, TaskFacts
  <2> QED
    BY <1>3, <2>2 DEF Base, Parts, CoreRestart
<1>5. poll' \in [Worker -> {"idle", "out", "answered", "asleep"}] /\ AnswersAwaited'
  BY DEF Base, Parts, AnswersAwaited, CoreRestart
<1>6. Parts'
  BY <1>2, <1>4, <1>5, FaultTyped DEF Base, Parts, ToldOK, CoreRestart
<1>7. TasksReady'
  <2> SUFFICES ASSUME NEW w \in Worker, NEW d \in Intents
               PROVE  /\ task'[w][d].phase = "job" => task'[w][d].tries = 0
                      /\ task'[w][d].phase = "ack" => task'[w][d].tries < ACK_ATTEMPTS
                      /\ task'[w][d].phase \in {"ack", "call"} => task'[w][d].verdict \in Verdicts
    BY DEF TasksReady
  <2> task[w][d] \in Task
    BY DEF Base, Parts
  <2>1. CASE task'[w][d] = Retry(task[w][d]) /\ task[w][d].phase = "call"
    <3>1. task[w][d].verdict \in Verdicts
      BY <2>1 DEF Base, TasksReady
    <3> QED
      BY <2>1, <3>1, TaskFacts
  <2>2. CASE task'[w][d] = task[w][d] /\ task[w][d].phase # "call"
    BY <2>2 DEF Base, TasksReady
  <2> QED
    BY <1>3, <2>1, <2>2
<1>8. CallsMatchTasks'
  BY DEF CallsMatchTasks, CoreRestart
<1>9. OnlyOffered'
  BY <1>2 DEF Base, OnlyOffered, Outbox!Empty, Outbox!Absent, CoreRestart
<1> QED
  BY <1>5, <1>6, <1>7, <1>8, <1>9 DEF Base

LEMMA PollBase == ASSUME Base, NEW w \in Worker, Poll(w) PROVE Base'
<1>1. StoresOK' /\ ToldOK' /\ OnlyOffered'
  BY OutboxSame, OfferedSame DEF Base, Poll
<1>2. Cardinality(Active(w)) \in Nat
  BY WorkerAssumption, FS_Subset, FS_CardinalityType DEF Active
<1>3. limit' \in [Worker -> 0 .. CLAIM_BATCH]
  BY <1>2, Numbers DEF Base, Parts, Poll
<1>4. poll' \in [Worker -> {"idle", "out", "answered", "asleep"}] /\ AnswersAwaited'
  BY DEF Base, Parts, AnswersAwaited, Poll
<1>5. Parts'
  BY <1>1, <1>3, <1>4 DEF Base, Parts, Poll
<1>6. TasksReady' /\ CallsMatchTasks'
  BY DEF Base, TasksReady, CallsMatchTasks, Poll
<1> QED
  BY <1>1, <1>4, <1>5, <1>6 DEF Base

\* The tasks that an answer starts, and the tokens it brings.
LEMMA TakenFacts ==
  ASSUME Base, NEW w \in Worker, TakeAnswer(w)
  PROVE  /\ task' \in [Worker -> [Intents -> Task]]
         /\ lease' \in [Worker -> [Intents -> Token \cup {NoToken}]]
         /\ answer' \in [Worker -> [Intents -> Token \cup {NoToken}]]
         /\ \A u \in Worker, d \in Intents :
              /\ answer'[u][d] = IF u = w THEN NoToken ELSE answer[u][d]
              /\ lease'[u][d] = IF u = w /\ answer[w][d] # NoToken THEN answer[w][d] ELSE lease[u][d]
              /\ IF u = w /\ answer[w][d] # NoToken /\ task[w][d].phase = "none"
                   THEN /\ task'[u][d].phase = "job" /\ task'[u][d].tries = 0
                        /\ task'[u][d].left = JOB_TIMEOUT
                   ELSE task'[u][d] = task[u][d]
<1> DEFINE k == [NoTask EXCEPT !.phase = "job", !.left = JOB_TIMEOUT]
<1>1. k \in Task /\ k.phase = "job" /\ k.tries = 0 /\ k.left = JOB_TIMEOUT
  BY TaskFacts
<1>2. task' = [task EXCEPT ![w] =
         [d \in Intents |-> IF answer[w][d] # NoToken /\ task[w][d].phase = "none"
                              THEN k ELSE task[w][d]]]
  BY DEF Base, Parts, TakeAnswer, Active
<1>3. lease' = [lease EXCEPT ![w] =
         [d \in Intents |-> IF answer[w][d] # NoToken THEN answer[w][d] ELSE lease[w][d]]]
  BY DEF Base, Parts, TakeAnswer
<1>4. answer' = [answer EXCEPT ![w] = [d \in Intents |-> NoToken]]
  BY DEF TakeAnswer, NoLeases
<1> HIDE DEF k
<1>5. /\ task' \in [Worker -> [Intents -> Task]]
      /\ \A u \in Worker, d \in Intents :
           IF u = w /\ answer[w][d] # NoToken /\ task[w][d].phase = "none"
             THEN task'[u][d] = k ELSE task'[u][d] = task[u][d]
  BY <1>1, <1>2 DEF Base, Parts
<1>6. /\ lease' \in [Worker -> [Intents -> Token \cup {NoToken}]]
      /\ \A u \in Worker, d \in Intents :
           lease'[u][d] = IF u = w /\ answer[w][d] # NoToken THEN answer[w][d] ELSE lease[u][d]
  BY <1>3 DEF Base, Parts
<1>7. /\ answer' \in [Worker -> [Intents -> Token \cup {NoToken}]]
      /\ \A u \in Worker, d \in Intents :
           answer'[u][d] = IF u = w THEN NoToken ELSE answer[u][d]
  BY <1>4 DEF Base, Parts
<1> QED
  BY <1>1, <1>5, <1>6, <1>7

LEMMA TakeAnswerBase == ASSUME Base, NEW w \in Worker, TakeAnswer(w) PROVE Base'
<1>1. StoresOK' /\ ToldOK' /\ OnlyOffered'
  BY OutboxSame, OfferedSame DEF Base, TakeAnswer
<1>2. /\ task' \in [Worker -> [Intents -> Task]]
      /\ lease' \in [Worker -> [Intents -> Token \cup {NoToken}]]
      /\ answer' \in [Worker -> [Intents -> Token \cup {NoToken}]]
  BY TakenFacts
<1>3. \A u \in Worker, d \in Intents :
        /\ answer'[u][d] = IF u = w THEN NoToken ELSE answer[u][d]
        /\ lease'[u][d] = IF u = w /\ answer[w][d] # NoToken THEN answer[w][d] ELSE lease[u][d]
        /\ task[u][d].phase # "none" => task'[u][d] = task[u][d]
        /\ IF u = w /\ answer[w][d] # NoToken /\ task[w][d].phase = "none"
             THEN task'[u][d].phase = "job" /\ task'[u][d].tries = 0
             ELSE task'[u][d] = task[u][d]
  BY TakenFacts
<1>4. poll' \in [Worker -> {"idle", "out", "answered", "asleep"}]
  BY DEF Base, Parts, TakeAnswer
<1>5. AnswersAwaited'
  BY <1>3 DEF Base, Parts, AnswersAwaited, TakeAnswer
<1>6. \A u \in Worker, d \in Intents : task'[u][d].phase # "none" => lease'[u][d] # NoToken
  BY <1>3 DEF Base, Parts
<1>7. Parts'
  BY <1>1, <1>2, <1>4, <1>6 DEF Base, Parts, TakeAnswer
<1>8. TasksReady'
  BY <1>3 DEF Base, TasksReady
<1>9. CallsMatchTasks'
  <2>1. \A r \in requests : r.from \in Worker /\ r.id \in Intents
    BY DEF Base, Parts, Request
  <2>2. \A r \in requests : r.live =>
          task[r.from][r.id].phase = "call" /\ task'[r.from][r.id] = task[r.from][r.id]
    BY <1>3, <2>1 DEF Base, CallsMatchTasks
  <2> QED
    BY <2>2 DEF Base, CallsMatchTasks, TakeAnswer
<1> QED
  BY <1>1, <1>5, <1>7, <1>8, <1>9 DEF Base

LEMMA LoseClaimBase == ASSUME Base, NEW w \in Worker, LoseClaim(w) PROVE Base'
<1>1. StoresOK' /\ ToldOK' /\ OnlyOffered'
  BY OutboxSame, OfferedSame DEF Base, LoseClaim
<1>2. /\ poll' \in [Worker -> {"idle", "out", "answered", "asleep"}]
      /\ answer' \in [Worker -> [Intents -> Token \cup {NoToken}]]
      /\ AnswersAwaited'
  BY DEF Base, Parts, AnswersAwaited, LoseClaim, NoLeases
<1>3. Parts'
  BY <1>1, <1>2, FaultTyped DEF Base, Parts, LoseClaim
<1>4. TasksReady' /\ CallsMatchTasks'
  BY DEF Base, TasksReady, CallsMatchTasks, LoseClaim
<1> QED
  BY <1>1, <1>2, <1>3, <1>4 DEF Base

LEMMA DeliverFacts ==
  ASSUME Base, NEW w \in Worker, NEW d \in Intents, NEW v \in Verdicts, Deliver(w, d, v)
  PROVE  /\ task' \in [Worker -> [Intents -> Task]]
         /\ posts' \in [Intents -> Nat]
         /\ task'[w][d].phase = "ack" /\ task'[w][d].verdict = v /\ task'[w][d].tries = 0
         /\ \A u \in Worker, e \in Intents : u # w \/ e # d => task'[u][e] = task[u][e]
         /\ \A e \in Intents : e # d => posts'[e] = posts[e]
         /\ posts'[d] \in {posts[d], posts[d] + 1}
<1> DEFINE k == task[w][d]
           n == [k EXCEPT !.phase = "ack"]
           l == [n EXCEPT !.verdict = v]
<1>1. k \in Task /\ k.tries = 0
  BY DEF Base, Parts, TasksReady, Deliver
<1>2. n \in Task /\ n.phase = "ack" /\ n.tries = 0
  BY <1>1 DEF Task, Phase
<1>3. l \in Task /\ l.phase = "ack" /\ l.verdict = v /\ l.tries = 0
  <2> HIDE DEF n
  <2> QED
    BY <1>2 DEF Task
<1>4. task' = [task EXCEPT ![w][d] = l]
  <2>1. task' = [[task EXCEPT ![w][d] = n] EXCEPT ![w][d] = [@ EXCEPT !.verdict = v]]
    BY DEF Deliver, Base, Parts
  <2> HIDE DEF n
  <2> QED
    BY <2>1 DEF Base, Parts
<1> HIDE DEF l
<1>5. /\ task' \in [Worker -> [Intents -> Task]]
      /\ \A u \in Worker, e \in Intents :
           task'[u][e] = IF u = w /\ e = d THEN l ELSE task[u][e]
  BY <1>3, <1>4, TaskStep DEF Base, Parts
<1>6. /\ posts' \in [Intents -> Nat]
      /\ \A e \in Intents : e # d => posts'[e] = posts[e]
      /\ posts'[d] \in {posts[d], posts[d] + 1}
  BY DEF Deliver, Base, Parts
<1> QED
  BY <1>3, <1>5, <1>6

LEMMA DeliverBase ==
  ASSUME Base, NEW w \in Worker, NEW d \in Intents, NEW v \in Verdicts, Deliver(w, d, v)
  PROVE  Base'
<1>1. StoresOK' /\ ToldOK' /\ OnlyOffered'
  BY OutboxSame, OfferedSame DEF Base, Deliver
<1>2. task[w][d].phase = "job" /\ UNCHANGED <<poll, limit, answer, lease, requests>>
  BY DEF Deliver, pollVars
<1>3. /\ task' \in [Worker -> [Intents -> Task]] /\ posts' \in [Intents -> Nat]
      /\ task'[w][d].phase = "ack" /\ task'[w][d].verdict = v /\ task'[w][d].tries = 0
      /\ \A u \in Worker, e \in Intents : u # w \/ e # d => task'[u][e] = task[u][e]
  BY DeliverFacts
<1>4. \A u \in Worker, e \in Intents : task'[u][e].phase # "none" => lease'[u][e] # NoToken
  <2>1. \A u \in Worker, e \in Intents : task[u][e].phase # "none" => lease[u][e] # NoToken
    BY DEF Base, Parts
  <2> SUFFICES ASSUME NEW u \in Worker, NEW e \in Intents, task'[u][e].phase # "none"
               PROVE  lease[u][e] # NoToken
    BY <1>2
  <2>2. CASE u = w /\ e = d
    BY <1>2, <2>1, <2>2
  <2>3. CASE u # w \/ e # d
    BY <1>3, <2>1, <2>3
  <2> QED
    BY <2>2, <2>3
<1>5. Parts'
  BY <1>1, <1>2, <1>3, <1>4 DEF Base, Parts, Deliver
<1>6. AnswersAwaited'
  BY <1>2 DEF Base, AnswersAwaited
<1>7. TasksReady'
  BY <1>3, Numbers, WorkerAssumption DEF Base, TasksReady
<1>8. CallsMatchTasks'
  <2>1. \A r \in requests : r.from \in Worker /\ r.id \in Intents
    BY DEF Base, Parts, Request
  <2>2. \A r \in requests : r.live =>
          task[r.from][r.id].phase = "call" /\ task'[r.from][r.id] = task[r.from][r.id]
    BY <1>2, <1>3, <2>1 DEF Base, CallsMatchTasks
  <2> QED
    BY <1>2, <2>2 DEF Base, CallsMatchTasks
<1> QED
  BY <1>1, <1>5, <1>6, <1>7, <1>8 DEF Base

LEMMA SendAckFacts ==
  ASSUME Base, NEW w \in Worker, NEW d \in Intents, SendAck(w, d)
  PROVE  /\ task' \in [Worker -> [Intents -> Task]]
         /\ task'[w][d].phase = "call" /\ task'[w][d].verdict \in Verdicts
         /\ \A u \in Worker, e \in Intents : u # w \/ e # d => task'[u][e] = task[u][e]
         /\ \E q \in Request :
              /\ requests' = requests \cup {q}
              /\ q.from = w /\ q.id = d /\ q.token = lease[w][d] /\ q.live
<1> DEFINE k == task[w][d]
           n == [k EXCEPT !.phase = "call"]
           l == [n EXCEPT !.tries = @ + 1]
<1>1. k \in Task /\ k.tries < ACK_ATTEMPTS /\ k.verdict \in Verdicts /\ k.phase = "ack"
  BY DEF Base, Parts, TasksReady, SendAck
<1>2. n \in Task /\ n.phase = "call" /\ n.tries = k.tries /\ n.verdict = k.verdict
  BY <1>1 DEF Task, Phase
<1>3. l \in Task /\ l.phase = "call" /\ l.verdict = k.verdict
  <2> HIDE DEF n
  <2>1. n.tries + 1 \in 0 .. ACK_ATTEMPTS
    BY <1>1, <1>2, Numbers DEF Task
  <2>2. l \in Task /\ l.phase = n.phase /\ l.verdict = n.verdict
    BY <1>2, <2>1 DEF Task
  <2> QED
    BY <1>2, <2>2
<1>4. task' = [task EXCEPT ![w][d] = l]
  <2> DEFINE m == [task EXCEPT ![w][d].phase = "call"]
  <2>1. task' = [m EXCEPT ![w][d].tries = @ + 1]
    BY DEF SendAck
  <2>2. m = [task EXCEPT ![w][d] = n] /\ task \in [Worker -> [Intents -> Task]]
    BY DEF Base, Parts
  <2> HIDE DEF m, n
  <2>3. m[w][d] = n /\ [m EXCEPT ![w][d] = l] = [task EXCEPT ![w][d] = l]
    BY <2>2
  <2>4. [m EXCEPT ![w][d].tries = @ + 1] = [m EXCEPT ![w][d] = [m[w][d] EXCEPT !.tries = @ + 1]]
    OBVIOUS
  <2> QED
    BY <2>1, <2>3, <2>4
<1> HIDE DEF l
<1>5. /\ task' \in [Worker -> [Intents -> Task]]
      /\ \A u \in Worker, e \in Intents :
           task'[u][e] = IF u = w /\ e = d THEN l ELSE task[u][e]
  BY <1>3, <1>4, TaskStep DEF Base, Parts
<1> DEFINE q == [from |-> w, id |-> d, token |-> lease[w][d], verdict |-> task[w][d].verdict,
                 live |-> TRUE]
<1>6. lease[w][d] \in Token
  BY <1>1 DEF Base, Parts
<1>7. q \in Request /\ q.from = w /\ q.id = d /\ q.token = lease[w][d] /\ q.live
  BY <1>1, <1>6 DEF Request
<1>8. requests' = requests \cup {q}
  BY DEF SendAck
<1> QED
  BY <1>1, <1>3, <1>5, <1>7, <1>8

LEMMA SendAckBase ==
  ASSUME Base, NEW w \in Worker, NEW d \in Intents, SendAck(w, d)
  PROVE  Base'
<1>1. StoresOK' /\ ToldOK' /\ OnlyOffered'
  BY OutboxSame, OfferedSame DEF Base, SendAck
<1>2. /\ task[w][d].phase = "ack"
      /\ UNCHANGED <<offered, poll, limit, answer, lease, posts, faultsLeft>>
  BY DEF SendAck, pollVars
<1>3. /\ task' \in [Worker -> [Intents -> Task]]
      /\ task'[w][d].phase = "call" /\ task'[w][d].verdict \in Verdicts
      /\ \A u \in Worker, e \in Intents : u # w \/ e # d => task'[u][e] = task[u][e]
  BY SendAckFacts
<1>4. PICK q \in Request : requests' = requests \cup {q} /\ q.from = w /\ q.id = d
  BY SendAckFacts
<1>5. \A u \in Worker, e \in Intents : task'[u][e].phase # "none" => lease'[u][e] # NoToken
  BY <1>2, <1>3 DEF Base, Parts
<1>6. Parts'
  BY <1>1, <1>2, <1>3, <1>4, <1>5 DEF Base, Parts
<1>7. AnswersAwaited'
  BY <1>2 DEF Base, AnswersAwaited
<1>8. TasksReady'
  BY <1>3 DEF Base, TasksReady
<1>9. CallsMatchTasks'
  <2>1. \A r \in requests : r.from \in Worker /\ r.id \in Intents
    BY DEF Base, Parts, Request
  <2>2. \A r \in requests : r.live =>
          /\ task[r.from][r.id].phase = "call" /\ ~ (r.from = w /\ r.id = d)
          /\ task'[r.from][r.id] = task[r.from][r.id]
    BY <1>2, <1>3, <2>1 DEF Base, CallsMatchTasks
  <2> QED
    BY <1>3, <1>4, <2>2 DEF Base, CallsMatchTasks
<1> QED
  BY <1>1, <1>6, <1>7, <1>8, <1>9 DEF Base

LEMMA ForgetTaskBase ==
  ASSUME Base, NEW w \in Worker, NEW d \in Intents, ForgetTask(w, d)
  PROVE  Base'
<1>1. StoresOK' /\ ToldOK' /\ OnlyOffered'
  BY OutboxSame, OfferedSame DEF Base, ForgetTask
<1>2. /\ task[w][d].phase = "done"
      /\ UNCHANGED <<offered, poll, limit, answer, requests, posts, faultsLeft>>
  BY DEF ForgetTask, pollVars
<1>3. /\ task' \in [Worker -> [Intents -> Task]]
      /\ \A u \in Worker, e \in Intents :
           task'[u][e] = IF u = w /\ e = d THEN NoTask ELSE task[u][e]
  BY TaskStep, TaskFacts DEF ForgetTask, Base, Parts
<1>4. /\ lease' \in [Worker -> [Intents -> Token \cup {NoToken}]]
      /\ \A u \in Worker, e \in Intents :
           lease'[u][e] = IF u = w /\ e = d THEN NoToken ELSE lease[u][e]
  BY DEF ForgetTask, Base, Parts
<1>5. NoTask.phase = "none"
  BY DEF NoTask
<1>6. \A u \in Worker, e \in Intents : task'[u][e].phase # "none" => lease'[u][e] # NoToken
  <2>1. \A u \in Worker, e \in Intents : task[u][e].phase # "none" => lease[u][e] # NoToken
    BY DEF Base, Parts
  <2> QED
    BY <1>3, <1>4, <1>5, <2>1
<1>7. Parts'
  BY <1>1, <1>2, <1>3, <1>4, <1>6 DEF Base, Parts
<1>8. AnswersAwaited'
  BY <1>2 DEF Base, AnswersAwaited
<1>9. TasksReady'
  BY <1>3, <1>5 DEF Base, TasksReady
<1>10. CallsMatchTasks'
  <2>1. \A r \in requests : r.from \in Worker /\ r.id \in Intents
    BY DEF Base, Parts, Request
  <2>2. \A r \in requests : r.live =>
          task[r.from][r.id].phase = "call" /\ task'[r.from][r.id] = task[r.from][r.id]
    BY <1>2, <1>3, <2>1 DEF Base, CallsMatchTasks
  <2> QED
    BY <1>2, <2>2 DEF Base, CallsMatchTasks
<1> QED
  BY <1>1, <1>7, <1>8, <1>9, <1>10 DEF Base

\* A connector that stops leaves its calls to nobody.
LEMMA ConnectorRestartFacts ==
  ASSUME Base, NEW w \in Worker, ConnectorRestart(w)
  PROVE  /\ requests' \subseteq Request
         /\ \A q \in requests' : q.live => q \in requests /\ q.from # w
         /\ \A r \in requests : r.live /\ r.from # w => r \in requests'
         /\ \A q \in requests' : \E r \in requests : q.id = r.id /\ q.token = r.token
         /\ \A u \in Worker, e \in Intents :
              /\ task'[u][e] = IF u = w THEN NoTask ELSE task[u][e]
              /\ lease'[u][e] = IF u = w THEN NoToken ELSE lease[u][e]
              /\ answer'[u][e] = IF u = w THEN NoToken ELSE answer[u][e]
<1>1. \A r \in Request : /\ [r EXCEPT !.live = FALSE] \in Request
                         /\ ~ [r EXCEPT !.live = FALSE].live
                         /\ [r EXCEPT !.live = FALSE].id = r.id
                         /\ [r EXCEPT !.live = FALSE].token = r.token
  BY DEF Request
<1>2. requests' = {IF r.from = w THEN [r EXCEPT !.live = FALSE] ELSE r : r \in requests}
  BY DEF ConnectorRestart
<1>3. requests \subseteq Request
  BY DEF Base, Parts
<1>4. /\ requests' \subseteq Request
      /\ \A q \in requests' : q.live => q \in requests /\ q.from # w
      /\ \A r \in requests : r.live /\ r.from # w => r \in requests'
      /\ \A q \in requests' : \E r \in requests : q.id = r.id /\ q.token = r.token
  <2> DEFINE cut(r) == IF r.from = w THEN [r EXCEPT !.live = FALSE] ELSE r
  <2>1. requests' = {cut(r) : r \in requests}
    BY <1>2
  <2>2. \A r \in requests : /\ cut(r) \in Request /\ cut(r).id = r.id /\ cut(r).token = r.token
                            /\ r.from = w => ~ cut(r).live
                            /\ r.from # w => cut(r) = r
    BY <1>1, <1>3
  <2> HIDE DEF cut
  <2>3. \A r \in requests : cut(r) \in requests'
    BY <2>1
  <2>4. \A q \in requests' : \E r \in requests : q = cut(r)
    BY <2>1
  <2> QED
    BY <2>2, <2>3, <2>4
<1>5. \A u \in Worker, e \in Intents :
        /\ task'[u][e] = IF u = w THEN NoTask ELSE task[u][e]
        /\ lease'[u][e] = IF u = w THEN NoToken ELSE lease[u][e]
        /\ answer'[u][e] = IF u = w THEN NoToken ELSE answer[u][e]
  <2>1. \A u \in Worker, e \in Intents : task'[u][e] = IF u = w THEN NoTask ELSE task[u][e]
    BY DEF ConnectorRestart, Base, Parts
  <2>2. \A u \in Worker, e \in Intents : lease'[u][e] = IF u = w THEN NoToken ELSE lease[u][e]
    BY DEF ConnectorRestart, NoLeases, Base, Parts
  <2>3. \A u \in Worker, e \in Intents : answer'[u][e] = IF u = w THEN NoToken ELSE answer[u][e]
    BY DEF ConnectorRestart, NoLeases, Base, Parts
  <2> QED
    BY <2>1, <2>2, <2>3
<1> QED
  BY <1>4, <1>5

LEMMA ConnectorRestartBase == ASSUME Base, NEW w \in Worker, ConnectorRestart(w) PROVE Base'
<1>1. StoresOK' /\ ToldOK' /\ OnlyOffered'
  BY OutboxSame, OfferedSame DEF Base, ConnectorRestart
<1>2. /\ UNCHANGED <<offered, limit, posts>> /\ faultsLeft' \in 0 .. MaxFaults
      /\ poll' \in [Worker -> {"idle", "out", "answered", "asleep"}]
      /\ \A u \in Worker : u # w => poll'[u] = poll[u]
  BY FaultTyped DEF Base, Parts, ConnectorRestart
<1>3. /\ task' \in [Worker -> [Intents -> Task]]
      /\ lease' \in [Worker -> [Intents -> Token \cup {NoToken}]]
      /\ answer' \in [Worker -> [Intents -> Token \cup {NoToken}]]
  BY TaskFacts DEF Base, Parts, ConnectorRestart, NoLeases
<1>4. /\ requests' \subseteq Request
      /\ \A q \in requests' : q.live => q \in requests /\ q.from # w
      /\ \A u \in Worker, e \in Intents :
           /\ task'[u][e] = IF u = w THEN NoTask ELSE task[u][e]
           /\ lease'[u][e] = IF u = w THEN NoToken ELSE lease[u][e]
           /\ answer'[u][e] = IF u = w THEN NoToken ELSE answer[u][e]
  BY ConnectorRestartFacts
<1>5. NoTask.phase = "none"
  BY DEF NoTask
<1>6. \A u \in Worker, e \in Intents : task'[u][e].phase # "none" => lease'[u][e] # NoToken
  BY <1>4, <1>5 DEF Base, Parts
<1>7. Parts'
  BY <1>1, <1>2, <1>3, <1>4, <1>6 DEF Base, Parts
<1>8. AnswersAwaited'
  BY <1>2, <1>4 DEF Base, AnswersAwaited
<1>9. TasksReady'
  BY <1>4, <1>5 DEF Base, TasksReady
<1>10. CallsMatchTasks'
  <2>1. \A r \in requests : r.from \in Worker /\ r.id \in Intents
    BY DEF Base, Parts, Request
  <2> QED
    BY <1>4, <2>1 DEF Base, CallsMatchTasks
<1> QED
  BY <1>1, <1>7, <1>8, <1>9, <1>10 DEF Base

\* Time takes a tick from every wait for a job, and only from them.
LEMMA TickFacts ==
  ASSUME Base, Tick
  PROVE  /\ task' \in [Worker -> [Intents -> Task]]
         /\ \A w \in Worker, d \in Intents :
              IF task[w][d].phase = "job"
                THEN /\ task'[w][d].phase = "job" /\ task'[w][d].tries = task[w][d].tries
                     /\ task[w][d].left > 0 /\ task'[w][d].left = task[w][d].left - 1
                ELSE task'[w][d] = task[w][d]
<1>1. \A w \in Worker, d \in Intents :
        task'[w][d] = IF task[w][d].phase = "job" THEN [task[w][d] EXCEPT !.left = @ - 1]
                      ELSE task[w][d]
  BY DEF Tick
<1>2. ASSUME NEW k \in Task, k.left > 0
      PROVE  /\ [k EXCEPT !.left = @ - 1] \in Task
             /\ [k EXCEPT !.left = @ - 1].phase = k.phase
             /\ [k EXCEPT !.left = @ - 1].tries = k.tries
             /\ [k EXCEPT !.left = @ - 1].left = k.left - 1
  BY <1>2, Numbers DEF Task
<1>3. \A w \in Worker, d \in Intents :
        task[w][d] \in Task /\ (task[w][d].phase = "job" => task[w][d].left > 0)
  BY DEF Base, Parts, Tick
<1>4. \A w \in Worker, d \in Intents : task'[w][d] \in Task
  BY <1>1, <1>2, <1>3
<1>5. task' \in [Worker -> [Intents -> Task]]
  <2>1. task' = [w \in Worker |-> [d \in Intents |-> task'[w][d]]]
    BY DEF Tick
  <2> QED
    BY <1>4, <2>1
<1>6. ASSUME NEW w \in Worker, NEW d \in Intents
      PROVE  IF task[w][d].phase = "job"
               THEN /\ task'[w][d].phase = "job" /\ task'[w][d].tries = task[w][d].tries
                    /\ task[w][d].left > 0 /\ task'[w][d].left = task[w][d].left - 1
               ELSE task'[w][d] = task[w][d]
  BY <1>1, <1>2, <1>3
<1> QED
  BY <1>5, <1>6

LEMMA TickBase == ASSUME Base, Tick PROVE Base'
<1>1. StoresOK /\ Outbox!Tick
  BY DEF Base, Parts, Tick
<1>2. /\ StoresOK' /\ told' = told
      /\ \A d \in Intents : /\ intents'[d] = Outbox!Aged(intents[d])
                            /\ disk'[d] = Outbox!Aged(disk[d])
  BY <1>1, TickEffect
<1>3. /\ UNCHANGED <<offered, limit, answer, lease, requests, posts>>
      /\ faultsLeft' \in 0 .. MaxFaults
      /\ poll' \in [Worker -> {"idle", "out", "answered", "asleep"}]
      /\ \A w \in Worker : poll[w] = "answered" => poll'[w] = "answered"
  BY FaultTyped DEF Base, Parts, Tick
<1>4. /\ task' \in [Worker -> [Intents -> Task]]
      /\ \A w \in Worker, d \in Intents :
           IF task[w][d].phase = "job"
             THEN task'[w][d].phase = "job" /\ task'[w][d].tries = task[w][d].tries
             ELSE task'[w][d] = task[w][d]
  BY TickFacts
<1>5. \A w \in Worker, d \in Intents : task'[w][d].phase # "none" => lease'[w][d] # NoToken
  <2>1. \A w \in Worker, d \in Intents : task[w][d].phase # "none" => lease[w][d] # NoToken
    BY DEF Base, Parts
  <2> QED
    BY <1>3, <1>4, <2>1
<1>6. Parts'
  BY <1>2, <1>3, <1>4, <1>5 DEF Base, Parts, ToldOK
<1>7. AnswersAwaited'
  BY <1>3 DEF Base, AnswersAwaited
<1>8. TasksReady'
  BY <1>4 DEF Base, TasksReady
<1>9. CallsMatchTasks'
  <2>1. \A r \in requests : r.from \in Worker /\ r.id \in Intents
    BY DEF Base, Parts, Request
  <2>2. \A r \in requests : r.live =>
          task[r.from][r.id].phase = "call" /\ task'[r.from][r.id] = task[r.from][r.id]
    BY <1>4, <2>1 DEF Base, CallsMatchTasks
  <2> QED
    BY <1>3, <2>2 DEF Base, CallsMatchTasks
<1>10. OnlyOffered'
  <2>1. \A d \in Intents : intents[d] \in Outbox!Intent /\ disk[d] \in Outbox!Intent
    BY <1>1 DEF StoresOK, Store
  <2> QED
    BY <1>2, <1>3, <2>1, RecordFacts DEF Base, OnlyOffered
<1> QED
  BY <1>6, <1>7, <1>8, <1>9, <1>10 DEF Base

\* Every step leads from a well-formed state to a well-formed state.
LEMMA BaseStep == Base /\ [Next]_vars => Base'
<1> SUFFICES ASSUME Base, [Next]_vars PROVE Base'
  OBVIOUS
<1>1. CASE \E d \in Intents : RecordIntent(d)
  BY <1>1, RecordBase
<1>2. CASE Serve
  BY <1>2, ClaimBase, ServeAckBase DEF Serve
<1>3. CASE \E w \in Worker : Connector(w)
  BY <1>3, PollBase, TakeAnswerBase, DeliverBase, SendAckBase, ForgetTaskBase DEF Connector
<1>4. CASE Failure
  BY <1>4, CoreRestartBase, LoseClaimBase, ConnectorRestartBase, AckCallFailsBase,
     AckAnswerLostBase DEF Failure
<1>5. CASE Tick
  BY <1>5, TickBase
<1>6. CASE UNCHANGED vars
  BY <1>6, StutterBase
<1> QED
  BY <1>1, <1>2, <1>3, <1>4, <1>5, <1>6 DEF Next

LEMMA AlwaysBase == Spec => []Base
<1> QED
  BY BaseInit, BaseStep, PTL DEF Spec

\* Every component of the delivery stays well formed, in the core and in every
\* connector, and a task that still has to acknowledge has a token to do it with
\* (schedule_delivery.py:217).
THEOREM TypeCorrect == Spec => []TypeOK
<1>1. Base => TypeOK
  BY PartsType DEF Base
<1> QED
  BY <1>1, AlwaysBase, PTL

-----------------------------------------------------------------------------
(* What the steps of the acknowledgements do to the tasks.                 *)

LEMMA AnsweredTask ==
  ASSUME Base, NEW r \in requests,
         \/ task' = IF r.live THEN [task EXCEPT ![r.from][r.id] = Over(@)] ELSE task
         \/ task' = IF r.live THEN [task EXCEPT ![r.from][r.id] = Retry(@)] ELSE task
  PROVE  /\ r \in Request
         /\ r.live => /\ task[r.from][r.id].phase = "call"
                      /\ task'[r.from][r.id].phase \in {"ack", "done"}
         /\ \A u \in Worker, e \in Intents :
              ~ (r.live /\ u = r.from /\ e = r.id) => task'[u][e] = task[u][e]
<1>1. r \in Request /\ r.from \in Worker /\ r.id \in Intents
  BY DEF Base, Parts, Request
<1>2. CASE ~ r.live
  BY <1>1, <1>2
<1>3. CASE r.live
  <2> DEFINE k == task[r.from][r.id]
  <2>1. k \in Task /\ k.phase = "call"
    BY <1>1, <1>3 DEF Base, Parts, CallsMatchTasks
  <2>2. PICK n \in Task : /\ task' = [task EXCEPT ![r.from][r.id] = n]
                          /\ n.phase \in {"ack", "done"}
    <3>1. task' = [task EXCEPT ![r.from][r.id] = Over(k)]
            \/ task' = [task EXCEPT ![r.from][r.id] = Retry(k)]
      BY <1>1, <1>3 DEF Base, Parts
    <3> HIDE DEF k
    <3> QED
      BY <2>1, <3>1, TaskFacts
  <2>3. \A u \in Worker, e \in Intents :
          task'[u][e] = IF u = r.from /\ e = r.id THEN n ELSE task[u][e]
    BY <1>1, <2>2, TaskStep DEF Base, Parts
  <2> QED
    BY <1>1, <1>3, <2>1, <2>2, <2>3
<1> QED
  BY <1>2, <1>3

LEMMA RestartedTask ==
  ASSUME Base, CoreRestart, NEW u \in Worker, NEW e \in Intents
  PROVE  IF task[u][e].phase = "call" THEN task'[u][e].phase \in {"ack", "done"}
         ELSE task'[u][e] = task[u][e]
<1>1. task[u][e] \in Task
  BY DEF Base, Parts
<1>2. task'[u][e] = IF task[u][e].phase = "call" THEN Retry(task[u][e]) ELSE task[u][e]
  BY DEF CoreRestart
<1> QED
  BY <1>1, <1>2, TaskFacts

-----------------------------------------------------------------------------
(* No connector runs more tasks than it may.                               *)

LEMMA FiniteParts ==
  ASSUME NEW S \in SUBSET Intents
  PROVE  IsFiniteSet(S) /\ Cardinality(S) \in Nat
  BY WorkerAssumption, FS_Subset, FS_CardinalityType

LEMMA SmallerSet ==
  ASSUME NEW S \in SUBSET Intents, NEW T \in SUBSET S
  PROVE  Cardinality(T) <= Cardinality(S)
  BY FiniteParts, FS_Subset

\* A step that starts no task, asks for nothing and brings no answer.
LEMMA RoomLeft ==
  ASSUME Base, RoomKept, UNCHANGED limit,
         \A u \in Worker : poll'[u] \in {"out", "answered"} => poll'[u] = poll[u],
         \A u \in Worker, d \in Intents :
           /\ task'[u][d].phase # "none" => task[u][d].phase # "none"
           /\ answer'[u][d] # NoToken => answer[u][d] # NoToken
  PROVE  RoomKept'
<1> SUFFICES ASSUME NEW u \in Worker
             PROVE  /\ Cardinality(Active(u)') <= MAX_ACTIVE
                    /\ poll'[u] = "out" => Cardinality(Active(u)') + limit'[u] <= MAX_ACTIVE
                    /\ poll'[u] = "answered" =>
                         Cardinality(Active(u)') + Cardinality(Items(u)') <= MAX_ACTIVE
  BY DEF RoomKept
<1> DEFINE A == Active(u)
           B == Active(u)'
           I == Items(u)
           J == Items(u)'
<1>1. A \subseteq Intents /\ B \subseteq A /\ I \subseteq Intents /\ J \subseteq I
  BY DEF Active, Items
<1>2. limit[u] \in Nat
  BY Numbers DEF Base, Parts
<1>3. /\ Cardinality(A) <= MAX_ACTIVE
      /\ poll[u] = "out" => Cardinality(A) + limit[u] <= MAX_ACTIVE
      /\ poll[u] = "answered" => Cardinality(A) + Cardinality(I) <= MAX_ACTIVE
  BY DEF RoomKept
<1> HIDE DEF A, B, I, J
<1>4. /\ Cardinality(A) \in Nat /\ Cardinality(B) \in Nat /\ Cardinality(B) <= Cardinality(A)
      /\ Cardinality(I) \in Nat /\ Cardinality(J) \in Nat /\ Cardinality(J) <= Cardinality(I)
  BY <1>1, FiniteParts, SmallerSet
<1>5. /\ Cardinality(B) <= MAX_ACTIVE
      /\ poll'[u] = "out" => Cardinality(B) + limit'[u] <= MAX_ACTIVE
      /\ poll'[u] = "answered" => Cardinality(B) + Cardinality(J) <= MAX_ACTIVE
  BY <1>2, <1>3, <1>4, Numbers
<1> QED
  BY <1>5 DEF B, J

LEMMA RoomInit == Init => RoomKept
<1> SUFFICES ASSUME Init, NEW w \in Worker
             PROVE  Cardinality(Active(w)) <= MAX_ACTIVE /\ poll[w] \notin {"out", "answered"}
  BY DEF RoomKept
<1>1. Active(w) = {}
  BY DEF Init, Active, NoTask
<1> QED
  BY <1>1, FS_EmptySet, Numbers DEF Init

LEMMA ClaimRoom ==
  ASSUME Base, RoomKept, NEW w \in Worker, ServeClaim(w)
  PROVE  RoomKept'
<1>1. StoresOK /\ ToldOK /\ limit[w] \in Nat /\ poll[w] = "out"
  BY Numbers DEF Base, Parts, ServeClaim
<1>2. PICK ok \in BOOLEAN, t \in Outbox!FreshTokens, chosen \in SUBSET Intents :
        /\ Outbox!Claim(Intents, limit[w], LEASE, t, chosen, ok)
        /\ poll' = [poll EXCEPT ![w] = IF ok THEN "answered" ELSE "asleep"]
        /\ answer' = [answer EXCEPT ![w] =
             [d \in Intents |-> IF ok /\ d \in chosen THEN t ELSE NoToken]]
  BY DEF ServeClaim
<1>3. t \in Token
  BY <1>2 DEF Outbox!FreshTokens
<1>4. Cardinality(chosen) <= limit[w] /\ Cardinality(chosen) \in Nat
  BY <1>1, <1>2, <1>3, ClaimEffect, FiniteParts
<1>5. UNCHANGED <<task, limit>>
  BY DEF ServeClaim
<1> SUFFICES ASSUME NEW u \in Worker
             PROVE  /\ Cardinality(Active(u)') <= MAX_ACTIVE
                    /\ poll'[u] = "out" => Cardinality(Active(u)') + limit'[u] <= MAX_ACTIVE
                    /\ poll'[u] = "answered" =>
                         Cardinality(Active(u)') + Cardinality(Items(u)') <= MAX_ACTIVE
  BY DEF RoomKept
<1>6. /\ Active(u)' = Active(u) /\ limit'[u] = limit[u]
      /\ Active(u) \subseteq Intents /\ Items(u)' \subseteq Intents
  BY <1>5 DEF Active, Items
<1>7. CASE u # w
  <2>1. poll'[u] = poll[u] /\ Items(u)' = Items(u)
    BY <1>2, <1>7 DEF Base, Parts, Items
  <2> QED
    BY <1>6, <2>1 DEF RoomKept
<1>8. CASE u = w
  <2>1. Items(u)' \subseteq chosen /\ poll'[u] \in {"answered", "asleep"}
    BY <1>2, <1>8 DEF Base, Parts, Items
  <2>2. Cardinality(Items(u)') <= Cardinality(chosen) /\ Cardinality(Items(u)') \in Nat
    BY <1>6, <2>1, FiniteParts, SmallerSet
  <2>3. Cardinality(Active(u)) + limit[u] <= MAX_ACTIVE /\ Cardinality(Active(u)) \in Nat
    BY <1>1, <1>6, <1>8, FiniteParts DEF RoomKept
  <2> QED
    BY <1>1, <1>4, <1>6, <1>8, <2>1, <2>2, <2>3, Numbers
<1> QED
  BY <1>7, <1>8

LEMMA PollRoom ==
  ASSUME Base, RoomKept, NEW w \in Worker, Poll(w)
  PROVE  RoomKept'
<1> SUFFICES ASSUME NEW u \in Worker
             PROVE  /\ Cardinality(Active(u)') <= MAX_ACTIVE
                    /\ poll'[u] = "out" => Cardinality(Active(u)') + limit'[u] <= MAX_ACTIVE
                    /\ poll'[u] = "answered" =>
                         Cardinality(Active(u)') + Cardinality(Items(u)') <= MAX_ACTIVE
  BY DEF RoomKept
<1>1. Active(u)' = Active(u) /\ Items(u)' = Items(u) /\ Active(u) \subseteq Intents
  BY DEF Poll, Active, Items
<1>2. Cardinality(Active(u)) \in Nat /\ Cardinality(Active(u)) <= MAX_ACTIVE
  BY <1>1, FiniteParts DEF RoomKept
<1>3. CASE u # w
  <2>1. poll'[u] = poll[u] /\ limit'[u] = limit[u]
    BY <1>3 DEF Poll, Base, Parts
  <2> QED
    BY <1>1, <2>1 DEF RoomKept
<1>4. CASE u = w
  <2>1. \/ poll'[u] = "asleep"
        \/ /\ poll'[u] = "out"
           /\ limit'[u] <= MAX_ACTIVE - Cardinality(Active(u)) /\ limit'[u] \in Nat
    BY <1>2, <1>4, Numbers DEF Poll, Base, Parts
  <2> QED
    BY <1>1, <1>2, <2>1, Numbers
<1> QED
  BY <1>3, <1>4

LEMMA TakeAnswerRoom ==
  ASSUME Base, RoomKept, NEW w \in Worker, TakeAnswer(w)
  PROVE  RoomKept'
<1>1. \A u \in Worker, d \in Intents :
        /\ answer'[u][d] = IF u = w THEN NoToken ELSE answer[u][d]
        /\ ~ (u = w /\ answer[w][d] # NoToken /\ task[w][d].phase = "none")
             => task'[u][d] = task[u][d]
  BY TakenFacts
<1>2. poll[w] = "answered" /\ poll'[w] = "asleep" /\ limit' = limit
      /\ \A u \in Worker : u # w => poll'[u] = poll[u]
  BY DEF TakeAnswer, Base, Parts
<1> SUFFICES ASSUME NEW u \in Worker
             PROVE  /\ Cardinality(Active(u)') <= MAX_ACTIVE
                    /\ poll'[u] = "out" => Cardinality(Active(u)') + limit'[u] <= MAX_ACTIVE
                    /\ poll'[u] = "answered" =>
                         Cardinality(Active(u)') + Cardinality(Items(u)') <= MAX_ACTIVE
  BY DEF RoomKept
<1>3. CASE u # w
  <2>1. Active(u)' = Active(u) /\ Items(u)' = Items(u)
    BY <1>1, <1>3 DEF Active, Items
  <2> QED
    BY <1>2, <1>3, <2>1 DEF RoomKept
<1>4. CASE u = w
  <2> DEFINE A == Active(w)
             I == Items(w)
  <2>1. Active(w)' \subseteq A \cup I /\ A \subseteq Intents /\ I \subseteq Intents
    BY <1>1 DEF Active, Items
  <2>2. Cardinality(A) + Cardinality(I) <= MAX_ACTIVE
    BY <1>2 DEF RoomKept
  <2> HIDE DEF A, I
  <2>3. /\ Cardinality(A) \in Nat /\ Cardinality(I) \in Nat
        /\ IsFiniteSet(A) /\ IsFiniteSet(I) /\ Cardinality(A \cap I) \in Nat
        /\ Cardinality(A \cup I) = Cardinality(A) + Cardinality(I) - Cardinality(A \cap I)
    BY <2>1, FiniteParts, FS_Union
  <2>4. /\ Cardinality(Active(w)') <= Cardinality(A \cup I) /\ Cardinality(A \cup I) \in Nat
        /\ Cardinality(Active(w)') \in Nat
    BY <2>1, FiniteParts, SmallerSet
  <2>5. Cardinality(Active(w)') <= MAX_ACTIVE
    BY <2>2, <2>3, <2>4, Numbers
  <2> QED
    BY <1>2, <1>4, <2>5
<1> QED
  BY <1>3, <1>4

LEMMA RoomStep == Base /\ RoomKept /\ [Next]_vars => RoomKept'
<1> SUFFICES ASSUME Base, RoomKept, [Next]_vars PROVE RoomKept'
  OBVIOUS
<1>1. ASSUME NEW d \in Intents, RecordIntent(d) PROVE RoomKept'
  BY <1>1, RoomLeft DEF RecordIntent, pollVars
<1>2. ASSUME NEW r \in requests, ServeAck(r) PROVE RoomKept'
  <2>1. UNCHANGED <<poll, limit, answer>>
    BY <1>2 DEF ServeAck, pollVars
  <2>2. \/ task' = IF r.live THEN [task EXCEPT ![r.from][r.id] = Over(@)] ELSE task
        \/ task' = IF r.live THEN [task EXCEPT ![r.from][r.id] = Retry(@)] ELSE task
    BY <1>2 DEF ServeAck
  <2>3. \A u \in Worker, d \in Intents : task'[u][d].phase # "none" => task[u][d].phase # "none"
    BY <2>2, AnsweredTask
  <2> QED
    BY <2>1, <2>3, RoomLeft
<1>3. ASSUME NEW r \in requests, AckCallFails(r) \/ AckAnswerLost(r) PROVE RoomKept'
  <2>1. UNCHANGED <<poll, limit, answer>>
    BY <1>3 DEF AckCallFails, AckAnswerLost, pollVars
  <2>2. task' = IF r.live THEN [task EXCEPT ![r.from][r.id] = Retry(@)] ELSE task
    BY <1>3 DEF AckCallFails, AckAnswerLost
  <2>3. \A u \in Worker, d \in Intents : task'[u][d].phase # "none" => task[u][d].phase # "none"
    BY <2>2, AnsweredTask
  <2> QED
    BY <2>1, <2>3, RoomLeft
<1>4. ASSUME CoreRestart PROVE RoomKept'
  <2>1. /\ UNCHANGED <<limit, answer>>
        /\ \A u \in Worker : poll'[u] \in {"out", "answered"} => poll'[u] = poll[u]
    BY <1>4 DEF CoreRestart
  <2>2. \A u \in Worker, d \in Intents : task'[u][d].phase # "none" => task[u][d].phase # "none"
    BY <1>4, RestartedTask
  <2> QED
    BY <2>1, <2>2, RoomLeft
<1>5. ASSUME NEW w \in Worker, Connector(w) PROVE RoomKept'
  <2>1. ASSUME NEW d \in Intents, NEW v \in Verdicts, Deliver(w, d, v) PROVE RoomKept'
    <3>1. task[w][d].phase = "job" /\ UNCHANGED <<poll, limit, answer>>
      BY <2>1 DEF Deliver, pollVars
    <3>2. \A u \in Worker, e \in Intents : u # w \/ e # d => task'[u][e] = task[u][e]
      BY <2>1, DeliverFacts
    <3>3. \A u \in Worker, e \in Intents : task'[u][e].phase # "none" => task[u][e].phase # "none"
      BY <3>1, <3>2
    <3> QED
      BY <3>1, <3>3, RoomLeft
  <2>2. ASSUME NEW d \in Intents, SendAck(w, d) PROVE RoomKept'
    <3>1. task[w][d].phase = "ack" /\ UNCHANGED <<poll, limit, answer>>
      BY <2>2 DEF SendAck, pollVars
    <3>2. \A u \in Worker, e \in Intents : u # w \/ e # d => task'[u][e] = task[u][e]
      BY <2>2, SendAckFacts
    <3>3. \A u \in Worker, e \in Intents : task'[u][e].phase # "none" => task[u][e].phase # "none"
      BY <3>1, <3>2
    <3> QED
      BY <3>1, <3>3, RoomLeft
  <2>3. ASSUME NEW d \in Intents, ForgetTask(w, d) PROVE RoomKept'
    <3>1. UNCHANGED <<poll, limit, answer>>
      BY <2>3 DEF ForgetTask, pollVars
    <3>2. /\ task' = [task EXCEPT ![w][d] = NoTask] /\ NoTask \in Task /\ NoTask.phase = "none"
          /\ task \in [Worker -> [Intents -> Task]]
      BY <2>3, TaskFacts DEF ForgetTask, NoTask, Base, Parts
    <3>3. \A u \in Worker, e \in Intents : task'[u][e].phase # "none" => task[u][e].phase # "none"
      BY <3>2, TaskStep
    <3> QED
      BY <3>1, <3>3, RoomLeft
  <2> QED
    BY <1>5, <2>1, <2>2, <2>3, PollRoom, TakeAnswerRoom DEF Connector
<1>6. ASSUME NEW w \in Worker, LoseClaim(w) PROVE RoomKept'
  BY <1>6, RoomLeft DEF LoseClaim, NoLeases, Base, Parts
<1>7. ASSUME NEW w \in Worker, ConnectorRestart(w) PROVE RoomKept'
  <2>1. \A u \in Worker, e \in Intents :
          /\ task'[u][e] = IF u = w THEN NoTask ELSE task[u][e]
          /\ answer'[u][e] = IF u = w THEN NoToken ELSE answer[u][e]
    BY <1>7, ConnectorRestartFacts
  <2>2. limit' = limit /\ \A u \in Worker : poll'[u] \in {"out", "answered"} => poll'[u] = poll[u]
    BY <1>7 DEF ConnectorRestart, Base, Parts
  <2>3. NoTask.phase = "none"
    BY DEF NoTask
  <2> QED
    BY <2>1, <2>2, <2>3, RoomLeft
<1>8. ASSUME Tick PROVE RoomKept'
  <2>1. /\ UNCHANGED <<limit, answer>>
        /\ \A u \in Worker : poll'[u] \in {"out", "answered"} => poll'[u] = poll[u]
    BY <1>8 DEF Tick
  <2>2. \A u \in Worker, d \in Intents : task'[u][d].phase # "none" => task[u][d].phase # "none"
    BY <1>8, TickFacts
  <2> QED
    BY <2>1, <2>2, RoomLeft
<1>9. CASE UNCHANGED vars
  BY <1>9, RoomLeft DEF vars, pollVars
<1> QED
  BY <1>1, <1>2, <1>3, <1>4, <1>5, <1>6, <1>7, <1>8, <1>9, ClaimRoom DEF Next, Serve, Failure

\* No connector ever runs more deliveries than MAX_ACTIVE_DELIVERIES, although
\* each claim is sized before its answer arrives and tasks come and go meanwhile.
THEOREM ActiveBound == Spec => []ActiveBounded
<1>1. RoomKept => ActiveBounded
  BY DEF RoomKept, ActiveBounded
<1> QED
  BY <1>1, AlwaysBase, RoomInit, RoomStep, PTL DEF Spec

-----------------------------------------------------------------------------
(* A second post has its price.                                            *)

PaidAt(d) == /\ Potential(d) <= 1 + Spent
             /\ Potential(d) = 1 + Spent => Undisturbed(d)

LEMMA PotentialType ==
  ASSUME Base, NEW d \in Intents
  PROVE  /\ Cardinality(Answered(d)) \in Nat /\ Cardinality(Running(d)) \in Nat
         /\ IsFiniteSet(Answered(d)) /\ IsFiniteSet(Running(d))
         /\ posts[d] \in Nat /\ Potential(d) \in Nat /\ posts[d] <= Potential(d)
         /\ Spent \in Nat
<1>1. Answered(d) \subseteq Worker /\ Running(d) \subseteq Worker
  BY DEF Answered, Running
<1>2. /\ Cardinality(Answered(d)) \in Nat /\ Cardinality(Running(d)) \in Nat
      /\ IsFiniteSet(Answered(d)) /\ IsFiniteSet(Running(d))
  BY <1>1, WorkerAssumption, FS_Subset, FS_CardinalityType
<1>3. posts[d] \in Nat /\ Spent \in Nat
  BY Numbers DEF Base, Parts, Spent
<1> QED
  BY <1>2, <1>3 DEF Potential

LEMMA PotentialTypeNext ==
  ASSUME Base', NEW d \in Intents
  PROVE  /\ Cardinality(Answered(d)') \in Nat /\ Cardinality(Running(d)') \in Nat
         /\ posts'[d] \in Nat /\ Potential(d)' \in Nat /\ Spent' \in Nat
<1>1. Answered(d)' \subseteq Worker /\ Running(d)' \subseteq Worker
  BY DEF Answered, Running
<1>2. Cardinality(Answered(d)') \in Nat /\ Cardinality(Running(d)') \in Nat
  BY <1>1, WorkerAssumption, FS_Subset, FS_CardinalityType
<1>3. posts'[d] \in Nat /\ Spent' \in Nat
  <2>1. posts' \in [Intents -> Nat] /\ faultsLeft' \in 0 .. MaxFaults
    BY DEF Base, Parts
  <2>2. posts'[d] \in Nat
    BY <2>1
  <2>3. MaxFaults - faultsLeft' \in Nat
    <3>1. ASSUME NEW m \in Nat, NEW n \in 0 .. m
          PROVE  m - n \in Nat
      OBVIOUS
    <3> QED
      BY <2>1, <3>1, Numbers
  <2>4. Spent' = MaxFaults - faultsLeft'
    BY DEF Spent
  <2> QED
    BY <2>2, <2>3, <2>4
<1> QED
  BY <1>2, <1>3 DEF Potential

\* Steps that bring no answer, start no wait and post nothing.
LEMMA PotentialLess ==
  ASSUME Base, NEW d \in Intents, posts'[d] = posts[d],
         \A u \in Worker : /\ answer'[u][d] # NoToken => answer[u][d] # NoToken
                           /\ task'[u][d].phase = "job" => task[u][d].phase = "job"
  PROVE  Potential(d)' <= Potential(d)
<1> DEFINE A == Answered(d)
           R == Running(d)
           B == Answered(d)'
           S == Running(d)'
<1>1. B \subseteq A /\ S \subseteq R
  BY DEF Answered, Running
<1>2. IsFiniteSet(A) /\ IsFiniteSet(R) /\ posts[d] \in Nat
  BY PotentialType
<1>3. Potential(d) = posts[d] + Cardinality(A) + Cardinality(R)
      /\ Potential(d)' = posts[d] + Cardinality(B) + Cardinality(S)
  BY DEF Potential
<1> HIDE DEF A, B, R, S
<1>4. /\ Cardinality(B) \in Nat /\ Cardinality(A) \in Nat /\ Cardinality(B) <= Cardinality(A)
      /\ Cardinality(S) \in Nat /\ Cardinality(R) \in Nat /\ Cardinality(S) <= Cardinality(R)
  BY <1>1, <1>2, FS_Subset, FS_CardinalityType
<1> QED
  BY <1>2, <1>3, <1>4

\* What a step has to show for a run: a fault pays for what it disturbs.
LEMMA StillPaid ==
  ASSUME Base, Base', NEW d \in Intents, PaidAt(d), Potential(d)' <= Potential(d),
         \/ Fault
         \/ NoFault /\ (Potential(d)' = Potential(d) /\ Undisturbed(d) => Undisturbed(d)')
  PROVE  PaidAt(d)'
<1>1. Potential(d) \in Nat /\ Potential(d)' \in Nat /\ Spent \in Nat /\ Spent' \in Nat
  BY PotentialType, PotentialTypeNext
<1>2. CASE Fault
  <2>1. Spent' = Spent + 1
    BY <1>2, Numbers DEF Fault, Spent, Base, Parts
  <2> QED
    BY <1>1, <2>1 DEF PaidAt
<1>3. CASE NoFault /\ (Potential(d)' = Potential(d) /\ Undisturbed(d) => Undisturbed(d)')
  <2>1. Spent' = Spent
    BY <1>3 DEF NoFault, Spent
  <2>2. Potential(d)' <= 1 + Spent'
    BY <1>1, <2>1 DEF PaidAt
  <2>3. ASSUME Potential(d)' = 1 + Spent'
        PROVE  Undisturbed(d)'
    <3>1. Potential(d)' = Potential(d) /\ Potential(d) = 1 + Spent
      BY <1>1, <2>1, <2>3 DEF PaidAt
    <3> QED
      BY <1>3, <3>1 DEF PaidAt
  <2> QED
    BY <2>2, <2>3 DEF PaidAt
<1> QED
  BY <1>2, <1>3

\* The lease is not over as long as a worker is in time.
LEMMA InTimeLeased ==
  ASSUME Base, NEW w \in Worker, NEW d \in Intents, InTime(w, d)
  PROVE  intents[d].lease > 0 /\ intents[d].lease \in Nat
<1>1. intents[d] \in Outbox!Intent /\ task[w][d] \in Task
  BY DEF Base, Parts, StoresOK, Store
<1>2. intents[d].lease \in Nat
  BY <1>1, Numbers DEF Outbox!Intent, Outbox!Lease
<1>3. task[w][d].left \in Nat
  BY <1>1, Numbers DEF Task
<1> QED
  BY <1>2, <1>3, Numbers DEF InTime

LEMMA InTimeSame ==
  ASSUME NEW w \in Worker, NEW d \in Intents, InTime(w, d), intents'[d] = intents[d],
         answer'[w][d] = answer[w][d], task'[w][d] = task[w][d], lease'[w][d] = lease[w][d],
         \A r \in requests : r.live /\ r.from = w /\ r.id = d => r \in requests'
  PROVE  InTime(w, d)'
  BY DEF InTime

\* Maintenance, and whatever leaves a record alone, does not disturb its run.
LEMMA StillUndisturbed ==
  ASSUME NEW d \in Intents, Undisturbed(d), offered \subseteq offered', loaded' = TRUE,
         Kept(intents[d], intents'[d]),
         \A w \in Worker : InTime(w, d) /\ intents'[d] = intents[d] => InTime(w, d)'
  PROVE  Undisturbed(d)'
<1>1. d \in offered' /\ loaded'
  BY DEF Undisturbed
<1>2. CASE Closed(intents'[d])
  BY <1>1, <1>2 DEF Undisturbed, Closed
<1>3. CASE intents'[d] = intents[d]
  BY <1>1, <1>3 DEF Undisturbed, Closed
<1> QED
  BY <1>2, <1>3 DEF Kept

\* No claim finds the run, and no acknowledgement is turned down.
LEMMA UndisturbedNotClaimed ==
  ASSUME Base, NEW d \in Intents, Undisturbed(d)
  PROVE  ~ (intents[d].state = "pending" \/ (intents[d].state = "claimed" /\ intents[d].lease = 0))
  BY InTimeLeased DEF Undisturbed, Closed

LEMMA UndisturbedRecord ==
  ASSUME Base, NEW e \in Intents, RecordIntent(e), NEW d \in Intents, Undisturbed(d)
  PROVE  Undisturbed(d)'
<1> PICK ok \in BOOLEAN : Outbox!Record(e, ok)
  BY DEF RecordIntent
<1>1. StoresOK
  BY DEF Base, Parts
<1>2. PICK cur : /\ Adopted(cur)
                 /\ \A f \in Intents : f # e => Kept(cur[f], intents'[f])
  BY <1>1, RecordEffect
<1>3. e # d /\ loaded /\ offered \subseteq offered'
  BY DEF RecordIntent, Undisturbed
<1>4. cur = intents /\ loaded' = TRUE
  BY <1>2, <1>3 DEF Adopted
<1>5. UNCHANGED <<answer, task, lease, requests>>
  BY DEF RecordIntent, pollVars
<1> QED
  BY <1>2, <1>3, <1>4, <1>5, StillUndisturbed, InTimeSame

LEMMA UndisturbedAck ==
  ASSUME Base, NEW r \in requests, ServeAck(r), HandleAck(r), NEW d \in Intents, Undisturbed(d)
  PROVE  Undisturbed(d)'
<1>1. StoresOK /\ ToldOK /\ r \in Request /\ loaded
  BY DEF Base, Parts, Undisturbed
<1>2. PICK cur : Adopted(cur) /\ (Settles(r, cur) \/ Ignores(r, cur))
  BY <1>1, HandleEffect
<1>3. cur = intents /\ loaded' = TRUE
  BY <1>1, <1>2 DEF Adopted
<1>4. UNCHANGED <<offered, answer, lease>> /\ requests' = requests \ {r}
  BY DEF ServeAck, pollVars
<1>5. r.live => task[r.from][r.id].phase = "call"
  BY DEF Base, CallsMatchTasks
<1>6. \A u \in Worker, e \in Intents :
        ~ (r.live /\ u = r.from /\ e = r.id) => task'[u][e] = task[u][e]
  <2>1. \/ task' = IF r.live THEN [task EXCEPT ![r.from][r.id] = Over(@)] ELSE task
        \/ task' = IF r.live THEN [task EXCEPT ![r.from][r.id] = Retry(@)] ELSE task
    BY DEF ServeAck
  <2> QED
    BY <2>1, AnsweredTask
<1>7. CASE Settles(r, cur) /\ r.id = d
  <2>1. intents[d] \in Outbox!Intent /\ r.verdict \in Verdicts
    BY <1>1 DEF StoresOK, Store, Request
  <2>2. intents'[d] = Outbox!Finished(intents[d], r.verdict)
    BY <1>1, <1>3, <1>7 DEF Settles, StoresOK, Store
  <2>3. Closed(intents'[d])
    BY <2>1, <2>2, RecordFacts
  <2> QED
    BY <1>3, <1>4, <2>3 DEF Undisturbed, Closed
<1>8. CASE Ignores(r, cur) \/ r.id # d
  <2>1. intents'[d] = intents[d]
    BY <1>1, <1>2, <1>3, <1>8 DEF Settles, Ignores, StoresOK, Store
  <2>2. intents[d].state # "claimed" \/ intents[d].token # r.token \/ r.id # d
    BY <1>3, <1>8 DEF Ignores
  <2>3. ASSUME NEW w \in Worker, InTime(w, d), intents[d].state = "claimed"
        PROVE  InTime(w, d)'
    <3>1. CASE ~ (r.live /\ r.from = w /\ r.id = d)
      BY <1>4, <1>6, <2>1, <2>3, <3>1, InTimeSame
    <3>2. CASE r.live /\ r.from = w /\ r.id = d
      <4>1. task[w][d].phase = "call"
        BY <1>5, <3>2
      <4>2. ASSUME NEW q \in requests, q.live, q.from = w, q.id = d
            PROVE  q = r
        BY <3>2, <4>2 DEF Base, CallsMatchTasks
      <4>3. answer[w][d] # NoToken /\ answer[w][d] = intents[d].token /\ intents[d].lease = LEASE
        BY <2>2, <2>3, <3>2, <4>1, <4>2 DEF InTime
      <4> QED
        BY <1>4, <2>1, <4>3 DEF InTime
    <3> QED
      BY <3>1, <3>2
  <2>4. CASE intents[d].state = "claimed"
    BY <1>3, <1>4, <2>1, <2>3, <2>4, KeptItself, StillUndisturbed
  <2>5. CASE intents[d].state # "claimed"
    BY <1>3, <1>4, <2>1, <2>5 DEF Undisturbed, Closed
  <2> QED
    BY <2>4, <2>5
<1> QED
  BY <1>2, <1>7, <1>8

\* A run whose task takes the answer has the whole wait, and the grace, ahead.
LEMMA UndisturbedTaken ==
  ASSUME Base, NEW u \in Worker, TakeAnswer(u), NEW d \in Intents, Undisturbed(d),
         ~ (answer[u][d] # NoToken /\ task[u][d].phase # "none")
  PROVE  Undisturbed(d)'
<1>1. /\ answer'[u][d] = NoToken
      /\ \A w \in Worker : w # u =>
           /\ answer'[w][d] = answer[w][d] /\ lease'[w][d] = lease[w][d]
           /\ task'[w][d] = task[w][d]
      /\ answer[u][d] = NoToken => lease'[u][d] = lease[u][d] /\ task'[u][d] = task[u][d]
      /\ answer[u][d] # NoToken => /\ lease'[u][d] = answer[u][d] /\ task'[u][d].phase = "job"
                                   /\ task'[u][d].left = JOB_TIMEOUT
  BY TakenFacts
<1>2. UNCHANGED <<outboxVars, offered, requests>>
  BY DEF TakeAnswer
<1>3. intents' = intents /\ loaded' = loaded
  BY <1>2 DEF outboxVars
<1>4. ASSUME NEW w \in Worker, InTime(w, d)
      PROVE  InTime(w, d)'
  <2>1. CASE w # u
    BY <1>1, <1>2, <1>3, <1>4, <2>1, InTimeSame
  <2>2. CASE w = u /\ answer[u][d] = NoToken
    BY <1>1, <1>2, <1>3, <1>4, <2>2, InTimeSame
  <2>3. CASE w = u /\ answer[u][d] # NoToken
    <3>1. intents[d].lease = LEASE /\ answer[u][d] = intents[d].token
      BY <1>4, <2>3 DEF InTime
    <3>2. intents'[d].lease >= task'[u][d].left + LEASE_GRACE
      BY <1>1, <1>3, <2>3, <3>1, Numbers
    <3> QED
      BY <1>1, <1>3, <2>3, <3>1, <3>2 DEF InTime
  <2> QED
    BY <2>1, <2>2, <2>3
<1> QED
  BY <1>2, <1>3, <1>4 DEF Undisturbed, Closed

LEMMA UndisturbedDelivered ==
  ASSUME Base, NEW u \in Worker, NEW e \in Intents, NEW v \in Verdicts, Deliver(u, e, v),
         NEW d \in Intents, Undisturbed(d)
  PROVE  Undisturbed(d)'
<1>1. task[u][e].phase = "job" /\ UNCHANGED <<outboxVars, offered, answer, lease, requests>>
  BY DEF Deliver, pollVars
<1>2. task'[u][e].phase = "ack"
      /\ \A w \in Worker, f \in Intents : w # u \/ f # e => task'[w][f] = task[w][f]
  BY DeliverFacts
<1>3. intents' = intents /\ loaded' = loaded
  BY <1>1 DEF outboxVars
<1>4. ASSUME NEW w \in Worker, InTime(w, d)
      PROVE  InTime(w, d)'
  <2>1. CASE w # u \/ d # e
    BY <1>1, <1>2, <1>3, <1>4, <2>1, InTimeSame
  <2>2. CASE w = u /\ d = e
    <3>1. intents[d].lease > 0
      BY <1>4, InTimeLeased
    <3> QED
      BY <1>1, <1>2, <1>3, <1>4, <2>2, <3>1 DEF InTime
  <2> QED
    BY <2>1, <2>2
<1> QED
  BY <1>1, <1>3, <1>4 DEF Undisturbed, Closed

LEMMA UndisturbedSent ==
  ASSUME Base, NEW u \in Worker, NEW e \in Intents, SendAck(u, e),
         NEW d \in Intents, Undisturbed(d)
  PROVE  Undisturbed(d)'
<1>1. task[u][e].phase = "ack" /\ UNCHANGED <<outboxVars, offered, answer, lease>>
  BY DEF SendAck, pollVars
<1>2. task'[u][e].phase = "call"
      /\ \A w \in Worker, f \in Intents : w # u \/ f # e => task'[w][f] = task[w][f]
  BY SendAckFacts
<1>3. PICK q \in Request : /\ requests' = requests \cup {q}
                           /\ q.from = u /\ q.id = e /\ q.token = lease[u][e] /\ q.live
  BY SendAckFacts
<1>4. intents' = intents /\ loaded' = loaded
  BY <1>1 DEF outboxVars
<1>5. ASSUME NEW w \in Worker, InTime(w, d)
      PROVE  InTime(w, d)'
  <2>1. CASE w # u \/ d # e
    BY <1>1, <1>2, <1>3, <1>4, <1>5, <2>1, InTimeSame
  <2>2. CASE w = u /\ d = e
    BY <1>1, <1>2, <1>3, <1>4, <1>5, <2>2 DEF InTime
  <2> QED
    BY <2>1, <2>2
<1> QED
  BY <1>1, <1>4, <1>5 DEF Undisturbed, Closed

LEMMA UndisturbedForgot ==
  ASSUME Base, NEW u \in Worker, NEW e \in Intents, ForgetTask(u, e),
         NEW d \in Intents, Undisturbed(d)
  PROVE  Undisturbed(d)'
<1>1. task[u][e].phase = "done" /\ UNCHANGED <<outboxVars, offered, answer, requests>>
  BY DEF ForgetTask, pollVars
<1>2. \A w \in Worker, f \in Intents : w # u \/ f # e =>
        task'[w][f] = task[w][f] /\ lease'[w][f] = lease[w][f]
  BY DEF ForgetTask, Base, Parts
<1>3. intents' = intents /\ loaded' = loaded
  BY <1>1 DEF outboxVars
<1>4. ASSUME NEW w \in Worker, InTime(w, d)
      PROVE  InTime(w, d)'
  <2>1. CASE w # u \/ d # e
    BY <1>1, <1>2, <1>3, <1>4, <2>1, InTimeSame
  <2>2. CASE w = u /\ d = e
    BY <1>1, <1>3, <1>4, <2>2 DEF InTime
  <2> QED
    BY <2>1, <2>2
<1> QED
  BY <1>1, <1>3, <1>4 DEF Undisturbed, Closed

\* A quiet tick takes as much from the lease as from the wait.
LEMMA UndisturbedTick ==
  ASSUME Base, Tick, Quiet, NEW d \in Intents, Undisturbed(d)
  PROVE  Undisturbed(d)'
<1>1. StoresOK /\ Outbox!Tick
  BY DEF Base, Parts, Tick
<1>2. loaded' = loaded /\ intents'[d] = Outbox!Aged(intents[d])
  BY <1>1, TickEffect
<1>3. intents[d] \in Outbox!Intent
  BY <1>1 DEF StoresOK, Store
<1>4. /\ intents'[d].token = intents[d].token /\ intents'[d].state = intents[d].state
      /\ intents[d].state # "absent" =>
           intents'[d].lease = IF intents[d].lease = 0 THEN 0 ELSE intents[d].lease - 1
  BY <1>2, <1>3, RecordFacts
<1>5. UNCHANGED <<offered, answer, lease, requests>>
  BY DEF Tick
<1>6. CASE Closed(intents[d])
  BY <1>2, <1>4, <1>5, <1>6 DEF Undisturbed, Closed
<1>7. CASE intents[d].state = "claimed"
  <2>1. PICK w \in Worker : InTime(w, d)
    BY <1>7 DEF Undisturbed, Closed
  <2>2. answer[w][d] = NoToken /\ task[w][d].phase \in {"none", "job"}
    BY DEF Quiet, Base, AnswersAwaited
  <2>3. /\ task[w][d].phase = "job" /\ lease[w][d] = intents[d].token
        /\ intents[d].lease >= task[w][d].left + LEASE_GRACE
    BY <2>1, <2>2 DEF InTime
  <2>4. /\ task'[w][d].phase = "job"
        /\ task[w][d].left > 0 /\ task'[w][d].left = task[w][d].left - 1
    BY <2>3, TickFacts
  <2>5. intents[d].lease \in Nat /\ task[w][d].left \in Nat
    <3>1. task[w][d] \in Task
      BY DEF Base, Parts
    <3> QED
      BY <1>3, <3>1, Numbers DEF Outbox!Intent, Outbox!Lease, Task
  <2>6. intents'[d].lease >= task'[w][d].left + LEASE_GRACE
    BY <1>4, <1>7, <2>3, <2>4, <2>5, Numbers
  <2>7. InTime(w, d)'
    BY <1>4, <1>5, <2>3, <2>4, <2>6 DEF InTime
  <2> QED
    BY <1>2, <1>4, <1>5, <1>7, <2>7 DEF Undisturbed
<1> QED
  BY <1>6, <1>7 DEF Undisturbed, Closed

LEMMA AddedRemoved ==
  ASSUME NEW S, IsFiniteSet(S), NEW x
  PROVE  /\ Cardinality(S) \in Nat
         /\ Cardinality(S \cup {x}) \in Nat /\ Cardinality(S \cup {x}) <= Cardinality(S) + 1
         /\ x \in S => Cardinality(S \ {x}) \in Nat /\ Cardinality(S \ {x}) = Cardinality(S) - 1
<1>1. Cardinality(S) \in Nat
  BY FS_CardinalityType
<1>2. Cardinality(S \cup {x}) \in Nat /\ Cardinality(S \cup {x}) <= Cardinality(S) + 1
  BY <1>1, FS_AddElement
<1>3. x \in S => Cardinality(S \ {x}) \in Nat /\ Cardinality(S \ {x}) = Cardinality(S) - 1
  BY <1>1, FS_RemoveElement, FS_CardinalityType
<1> QED
  BY <1>1, <1>2, <1>3

\* A claim: it finds no undisturbed run, and disturbs none.
LEMMA ClaimPaid ==
  ASSUME Base, Base', NEW w \in Worker, ServeClaim(w), NEW d \in Intents, PaidAt(d)
  PROVE  PaidAt(d)'
<1>1. StoresOK /\ limit[w] \in Nat /\ poll[w] = "out"
  BY Numbers DEF Base, Parts, ServeClaim
<1>2. PICK ok \in BOOLEAN, t \in Outbox!FreshTokens, chosen \in SUBSET Intents :
        /\ Saved(ok)
        /\ Outbox!Claim(Intents, limit[w], LEASE, t, chosen, ok)
        /\ poll' = [poll EXCEPT ![w] = IF ok THEN "answered" ELSE "asleep"]
        /\ answer' = [answer EXCEPT ![w] =
             [e \in Intents |-> IF ok /\ e \in chosen THEN t ELSE NoToken]]
  BY DEF ServeClaim
<1>3. t \in Token /\ t # NoToken
  BY <1>2, OutboxAssumption DEF Outbox!FreshTokens
<1>p. PICK cur : LeasesBatch(cur, t, chosen, ok)
  BY <1>1, <1>2, <1>3, ClaimEffect
<1>4. /\ Adopted(cur)
      /\ \A e \in chosen :
           /\ cur[e].state = "pending" \/ (cur[e].state = "claimed" /\ cur[e].lease = 0)
           /\ intents'[e] = Outbox!Leased(cur[e], t, LEASE)
      /\ \A e \in Intents \ chosen : Kept(cur[e], intents'[e])
  BY <1>p DEF LeasesBatch
<1>5. UNCHANGED <<offered, lease, task, requests, posts>>
  BY DEF ServeClaim
<1>6. answer[w][d] = NoToken
      /\ \A u \in Worker : answer'[u][d] = IF u = w THEN IF ok /\ d \in chosen THEN t ELSE NoToken
                                           ELSE answer[u][d]
  BY <1>1, <1>2 DEF Base, Parts, AnswersAwaited
<1>7. CASE ~ (ok /\ d \in chosen)
  <2>1. Potential(d)' <= Potential(d)
    BY <1>5, <1>6, <1>7, PotentialLess
  <2>2. CASE ~ ok
    <3>1. Fault
      BY <1>2, <2>2 DEF Saved
    <3> QED
      BY <2>1, <3>1, StillPaid
  <2>3. CASE ok
    <3>1. NoFault
      BY <1>2, <2>3 DEF Saved
    <3>2. ASSUME Undisturbed(d)
          PROVE  Undisturbed(d)'
      <4>1. cur = intents /\ loaded' = TRUE /\ d \notin chosen
        BY <1>4, <1>7, <2>3, <3>2 DEF Adopted, Undisturbed
      <4>2. Kept(intents[d], intents'[d])
        BY <1>4, <4>1
      <4>3. \A u \in Worker : answer'[u][d] = answer[u][d]
        BY <1>6, <4>1
      <4> QED
        BY <1>5, <3>2, <4>1, <4>2, <4>3, StillUndisturbed, InTimeSame
    <3> QED
      BY <2>1, <3>1, <3>2, StillPaid
  <2> QED
    BY <2>2, <2>3
<1>8. CASE ok /\ d \in chosen
  <2>1. NoFault
    BY <1>2, <1>8 DEF Saved
  <2>2. Spent' = Spent /\ Spent \in Nat
    BY <2>1, PotentialType DEF NoFault, Spent
  <2>3. ~ Undisturbed(d)
    <3> SUFFICES ASSUME Undisturbed(d) PROVE FALSE
      OBVIOUS
    <3>1. cur = intents
      BY <1>4 DEF Adopted, Undisturbed
    <3> QED
      BY <1>4, <1>8, <3>1, UndisturbedNotClaimed
  <2>4. Potential(d) <= Spent /\ Potential(d) \in Nat
    BY <2>2, <2>3, PotentialType DEF PaidAt
  <2>5. Potential(d)' <= 1 + Spent'
    <3> DEFINE A == Answered(d)
               B == Answered(d)'
               R == Running(d)
    <3>1. B = A \cup {w} /\ Running(d)' = R /\ posts'[d] = posts[d]
      BY <1>3, <1>5, <1>6, <1>8 DEF Answered, Running
    <3>2. /\ Potential(d) = posts[d] + Cardinality(A) + Cardinality(R)
          /\ Potential(d)' = posts[d] + Cardinality(B) + Cardinality(R)
      BY <3>1 DEF Potential
    <3>3. IsFiniteSet(A) /\ Cardinality(A) \in Nat /\ Cardinality(R) \in Nat /\ posts[d] \in Nat
      BY PotentialType
    <3> HIDE DEF A, B, R
    <3>4. Cardinality(B) \in Nat /\ Cardinality(B) <= Cardinality(A) + 1
      BY <3>1, <3>3, AddedRemoved
    <3> QED
      BY <2>2, <2>4, <3>2, <3>3, <3>4
  <2>6. Undisturbed(d)'
    <3>1. cur[d] \in Outbox!Intent /\ loaded' = TRUE
      BY <1>4 DEF Adopted, Store
    <3>2. /\ intents'[d].state = "claimed" /\ intents'[d].token = t
          /\ intents'[d].lease = LEASE
      BY <1>3, <1>4, <1>8, <3>1, RecordFacts
    <3>3. d \in offered'
      BY <3>2 DEF Base, OnlyOffered
    <3>4. InTime(w, d)'
      BY <1>3, <1>6, <1>8, <3>2 DEF InTime
    <3> QED
      BY <3>1, <3>2, <3>3, <3>4 DEF Undisturbed
  <2> QED
    BY <2>5, <2>6 DEF PaidAt
<1> QED
  BY <1>7, <1>8

LEMMA TakeAnswerPaid ==
  ASSUME Base, Base', NEW u \in Worker, TakeAnswer(u), NEW d \in Intents, PaidAt(d)
  PROVE  PaidAt(d)'
<1>1. \A w \in Worker :
        /\ answer'[w][d] = IF w = u THEN NoToken ELSE answer[w][d]
        /\ IF w = u /\ answer[u][d] # NoToken /\ task[u][d].phase = "none"
             THEN task'[w][d].phase = "job"
             ELSE task'[w][d] = task[w][d]
  BY TakenFacts
<1>2. NoFault /\ posts'[d] = posts[d]
  BY DEF TakeAnswer, NoFault
<1> DEFINE A == Answered(d)
           R == Running(d)
           B == Answered(d)'
           S == Running(d)'
<1>3. /\ Potential(d) = posts[d] + Cardinality(A) + Cardinality(R)
      /\ Potential(d)' = posts[d] + Cardinality(B) + Cardinality(S)
  BY <1>2 DEF Potential
<1>4. /\ IsFiniteSet(A) /\ IsFiniteSet(R) /\ posts[d] \in Nat
      /\ Cardinality(A) \in Nat /\ Cardinality(R) \in Nat
  BY PotentialType
<1>5. CASE answer[u][d] = NoToken
  <2>1. Potential(d)' <= Potential(d)
    BY <1>1, <1>2, <1>5, PotentialLess
  <2>2. Undisturbed(d) => Undisturbed(d)'
    BY <1>5, UndisturbedTaken
  <2> QED
    BY <1>2, <2>1, <2>2, StillPaid
<1>6. CASE answer[u][d] # NoToken /\ task[u][d].phase = "none"
  <2>1. B = A \ {u} /\ u \in A /\ S = R \cup {u}
    BY <1>1, <1>6 DEF Answered, Running
  <2> HIDE DEF A, B, R, S
  <2>2. /\ Cardinality(B) \in Nat /\ Cardinality(B) = Cardinality(A) - 1
        /\ Cardinality(S) \in Nat /\ Cardinality(S) <= Cardinality(R) + 1
    BY <1>4, <2>1, AddedRemoved
  <2>3. Potential(d)' <= Potential(d)
    BY <1>3, <1>4, <2>2
  <2>4. Undisturbed(d) => Undisturbed(d)'
    BY <1>6, UndisturbedTaken
  <2> QED
    BY <1>2, <2>3, <2>4, StillPaid
<1>7. CASE answer[u][d] # NoToken /\ task[u][d].phase # "none"
  <2>1. B = A \ {u} /\ u \in A /\ S = R
    BY <1>1, <1>7 DEF Answered, Running
  <2> HIDE DEF A, B, R, S
  <2>2. Cardinality(B) \in Nat /\ Cardinality(B) = Cardinality(A) - 1
    BY <1>4, <2>1, AddedRemoved
  <2>3. Potential(d)' <= Potential(d) /\ Potential(d)' # Potential(d)
    BY <1>3, <1>4, <2>1, <2>2
  <2> QED
    BY <1>2, <2>3, StillPaid
<1> QED
  BY <1>5, <1>6, <1>7

LEMMA DeliverPaid ==
  ASSUME Base, Base', NEW u \in Worker, NEW e \in Intents, NEW v \in Verdicts, Deliver(u, e, v),
         NEW d \in Intents, PaidAt(d)
  PROVE  PaidAt(d)'
<1>1. task[u][e].phase = "job" /\ UNCHANGED answer /\ NoFault
  BY DEF Deliver, pollVars, NoFault
<1>2. /\ task'[u][e].phase = "ack"
      /\ \A w \in Worker, f \in Intents : w # u \/ f # e => task'[w][f] = task[w][f]
      /\ \A f \in Intents : f # e => posts'[f] = posts[f]
      /\ posts'[e] \in {posts[e], posts[e] + 1}
  BY DeliverFacts
<1>3. Undisturbed(d) => Undisturbed(d)'
  BY UndisturbedDelivered
<1>4. Potential(d)' <= Potential(d)
  <2>1. CASE d # e
    BY <1>1, <1>2, <2>1, PotentialLess
  <2>2. CASE d = e
    <3> DEFINE A == Answered(d)
               R == Running(d)
               S == Running(d)'
    <3>1. Answered(d)' = A /\ S = R \ {u} /\ u \in R
      BY <1>1, <1>2, <2>2 DEF Answered, Running
    <3>2. /\ Potential(d) = posts[d] + Cardinality(A) + Cardinality(R)
          /\ Potential(d)' = posts'[d] + Cardinality(A) + Cardinality(S)
      BY <3>1 DEF Potential
    <3>3. /\ IsFiniteSet(R) /\ posts[d] \in Nat
          /\ Cardinality(A) \in Nat /\ Cardinality(R) \in Nat
      BY PotentialType
    <3> HIDE DEF A, R, S
    <3>4. Cardinality(S) \in Nat /\ Cardinality(S) = Cardinality(R) - 1
      BY <3>1, <3>3, AddedRemoved
    <3>5. posts'[d] = posts[d] \/ posts'[d] = posts[d] + 1
      BY <1>2, <2>2
    <3> QED
      BY <3>2, <3>3, <3>4, <3>5
  <2> QED
    BY <2>1, <2>2
<1> QED
  BY <1>1, <1>3, <1>4, StillPaid

LEMMA PaidStep == Base /\ ClaimsPaid /\ [Next]_vars => ClaimsPaid'
<1> SUFFICES ASSUME Base, ClaimsPaid, [Next]_vars, NEW d \in Intents
             PROVE  PaidAt(d)'
  BY DEF ClaimsPaid, PaidAt
<1>1. Base' /\ PaidAt(d)
  BY BaseStep DEF ClaimsPaid, PaidAt
<1>2. ASSUME NEW e \in Intents, RecordIntent(e) PROVE PaidAt(d)'
  <2>1. UNCHANGED <<answer, task, posts>> /\ (Fault \/ NoFault)
    BY <1>2 DEF RecordIntent, pollVars, Saved
  <2>2. Potential(d)' <= Potential(d)
    BY <2>1, PotentialLess
  <2>3. Undisturbed(d) => Undisturbed(d)'
    BY <1>2, UndisturbedRecord
  <2> QED
    BY <1>1, <2>1, <2>2, <2>3, StillPaid
<1>3. ASSUME NEW r \in requests, ServeAck(r) PROVE PaidAt(d)'
  <2>1. UNCHANGED <<answer, posts>>
    BY <1>3 DEF ServeAck, pollVars
  <2>2. \/ task' = IF r.live THEN [task EXCEPT ![r.from][r.id] = Over(@)] ELSE task
        \/ task' = IF r.live THEN [task EXCEPT ![r.from][r.id] = Retry(@)] ELSE task
    BY <1>3 DEF ServeAck
  <2>3. \A u \in Worker : task'[u][d].phase = "job" => task[u][d].phase = "job"
    BY <2>2, AnsweredTask
  <2>4. Potential(d)' <= Potential(d)
    BY <2>1, <2>3, PotentialLess
  <2>5. Fault \/ (NoFault /\ HandleAck(r))
    BY <1>3 DEF ServeAck
  <2>6. HandleAck(r) /\ Undisturbed(d) => Undisturbed(d)'
    BY <1>3, UndisturbedAck
  <2> QED
    BY <1>1, <2>4, <2>5, <2>6, StillPaid
<1>4. ASSUME NEW r \in requests, AckCallFails(r) \/ AckAnswerLost(r) PROVE PaidAt(d)'
  <2>1. UNCHANGED <<answer, posts>> /\ Fault
    BY <1>4 DEF AckCallFails, AckAnswerLost, pollVars
  <2>2. task' = IF r.live THEN [task EXCEPT ![r.from][r.id] = Retry(@)] ELSE task
    BY <1>4 DEF AckCallFails, AckAnswerLost
  <2>3. \A u \in Worker : task'[u][d].phase = "job" => task[u][d].phase = "job"
    BY <2>2, AnsweredTask
  <2>4. Potential(d)' <= Potential(d)
    BY <2>1, <2>3, PotentialLess
  <2> QED
    BY <1>1, <2>1, <2>4, StillPaid
<1>5. ASSUME CoreRestart PROVE PaidAt(d)'
  <2>1. UNCHANGED <<answer, posts>> /\ Fault
    BY <1>5 DEF CoreRestart
  <2>2. \A u \in Worker : task'[u][d].phase = "job" => task[u][d].phase = "job"
    BY <1>5, RestartedTask
  <2>3. Potential(d)' <= Potential(d)
    BY <2>1, <2>2, PotentialLess
  <2> QED
    BY <1>1, <2>1, <2>3, StillPaid
<1>6. ASSUME NEW w \in Worker, Poll(w) PROVE PaidAt(d)'
  <2>1. NoFault /\ UNCHANGED <<outboxVars, offered, answer, lease, task, requests, posts>>
    BY <1>6 DEF Poll, NoFault
  <2>2. Potential(d)' <= Potential(d)
    BY <2>1, PotentialLess
  <2>3. Undisturbed(d) => Undisturbed(d)'
    BY <2>1 DEF Undisturbed, InTime, Closed, outboxVars
  <2> QED
    BY <1>1, <2>1, <2>2, <2>3, StillPaid
<1>7. ASSUME NEW w \in Worker, NEW e \in Intents, SendAck(w, e) PROVE PaidAt(d)'
  <2>1. task[w][e].phase = "ack" /\ NoFault /\ UNCHANGED <<answer, posts>>
    BY <1>7 DEF SendAck, pollVars, NoFault
  <2>2. /\ task'[w][e].phase = "call"
        /\ \A u \in Worker, f \in Intents : u # w \/ f # e => task'[u][f] = task[u][f]
    BY <1>7, SendAckFacts
  <2>3. Potential(d)' <= Potential(d)
    BY <2>1, <2>2, PotentialLess
  <2>4. Undisturbed(d) => Undisturbed(d)'
    BY <1>7, UndisturbedSent
  <2> QED
    BY <1>1, <2>1, <2>3, <2>4, StillPaid
<1>8. ASSUME NEW w \in Worker, NEW e \in Intents, ForgetTask(w, e) PROVE PaidAt(d)'
  <2>1. NoFault /\ UNCHANGED <<answer, posts>>
    BY <1>8 DEF ForgetTask, pollVars, NoFault
  <2>2. /\ task' = [task EXCEPT ![w][e] = NoTask] /\ NoTask \in Task /\ NoTask.phase = "none"
        /\ task \in [Worker -> [Intents -> Task]]
    BY <1>8, TaskFacts DEF ForgetTask, NoTask, Base, Parts
  <2>3. \A u \in Worker : task'[u][d].phase = "job" => task[u][d].phase = "job"
    BY <2>2, TaskStep
  <2>4. Potential(d)' <= Potential(d)
    BY <2>1, <2>3, PotentialLess
  <2>5. Undisturbed(d) => Undisturbed(d)'
    BY <1>8, UndisturbedForgot
  <2> QED
    BY <1>1, <2>1, <2>4, <2>5, StillPaid
<1>9. ASSUME NEW w \in Worker, LoseClaim(w) PROVE PaidAt(d)'
  <2>1. Fault /\ UNCHANGED <<task, posts>>
        /\ \A u \in Worker : answer'[u][d] # NoToken => answer[u][d] # NoToken
    BY <1>9 DEF LoseClaim, NoLeases, Base, Parts
  <2>2. Potential(d)' <= Potential(d)
    BY <2>1, PotentialLess
  <2> QED
    BY <1>1, <2>1, <2>2, StillPaid
<1>10. ASSUME NEW w \in Worker, ConnectorRestart(w) PROVE PaidAt(d)'
  <2>1. Fault /\ posts' = posts /\ NoTask.phase = "none"
    BY <1>10 DEF ConnectorRestart, NoTask
  <2>2. \A u \in Worker :
          /\ task'[u][d] = IF u = w THEN NoTask ELSE task[u][d]
          /\ answer'[u][d] = IF u = w THEN NoToken ELSE answer[u][d]
    BY <1>10, ConnectorRestartFacts
  <2>3. Potential(d)' <= Potential(d)
    BY <2>1, <2>2, PotentialLess
  <2> QED
    BY <1>1, <2>1, <2>3, StillPaid
<1>11. ASSUME Tick PROVE PaidAt(d)'
  <2>1. UNCHANGED <<answer, posts>> /\ (Fault \/ (NoFault /\ Quiet))
    BY <1>11 DEF Tick
  <2>2. \A u \in Worker : task'[u][d].phase = "job" => task[u][d].phase = "job"
    BY <1>11, TickFacts
  <2>3. Potential(d)' <= Potential(d)
    BY <2>1, <2>2, PotentialLess
  <2>4. Quiet /\ Undisturbed(d) => Undisturbed(d)'
    BY <1>11, UndisturbedTick
  <2> QED
    BY <1>1, <2>1, <2>3, <2>4, StillPaid
<1>12. CASE UNCHANGED vars
  <2>1. /\ NoFault
        /\ UNCHANGED <<outboxVars, offered, answer, lease, task, requests, posts>>
    BY <1>12 DEF vars, pollVars, NoFault
  <2>2. Potential(d)' <= Potential(d)
    BY <2>1, PotentialLess
  <2>3. Undisturbed(d) => Undisturbed(d)'
    BY <2>1 DEF Undisturbed, InTime, Closed, outboxVars
  <2> QED
    BY <1>1, <2>1, <2>2, <2>3, StillPaid
<1>13. CASE Serve
  BY <1>1, <1>3, <1>13, ClaimPaid DEF Serve
<1>14. CASE \E w \in Worker : Connector(w)
  BY <1>1, <1>6, <1>7, <1>8, <1>14, TakeAnswerPaid, DeliverPaid DEF Connector
<1>15. CASE Failure
  BY <1>4, <1>5, <1>9, <1>10, <1>15 DEF Failure
<1> QED
  BY <1>2, <1>11, <1>12, <1>13, <1>14, <1>15 DEF Next

LEMMA PaidInit == Init => ClaimsPaid
<1> SUFFICES ASSUME Init, NEW d \in Intents
             PROVE  Potential(d) = 0 /\ Spent \in Nat
  BY DEF ClaimsPaid
<1>1. Answered(d) = {} /\ Running(d) = {}
  BY DEF Init, Answered, Running, NoLeases, NoTask
<1>2. posts[d] = 0 /\ Spent = 0
  BY Numbers DEF Init, Spent
<1> QED
  BY <1>1, <1>2, FS_EmptySet DEF Potential

\* A result is posted a second time only after something went wrong, and each
\* thing that goes wrong costs at most one more post, for any number of
\* connectors and faults: restarts, lost claims and acknowledgements, failed
\* writes and slow ticks, in any order (schedule_delivery.py:105-156, 215-244).
THEOREM DuplicatesPaid == Spec => []DuplicatesNeedFaults
<1>1. Base /\ ClaimsPaid => DuplicatesNeedFaults
  <2> SUFFICES ASSUME Base, ClaimsPaid, NEW d \in Intents
               PROVE  posts[d] <= 1 + Spent
    BY DEF DuplicatesNeedFaults
  <2>1. posts[d] \in Nat /\ Potential(d) \in Nat /\ posts[d] <= Potential(d) /\ Spent \in Nat
    BY PotentialType
  <2>2. Potential(d) <= 1 + Spent
    BY DEF ClaimsPaid
  <2> QED
    BY <2>1, <2>2
<1>2. Init => Base /\ ClaimsPaid
  BY BaseInit, PaidInit
<1>3. Base /\ ClaimsPaid /\ [Next]_vars => (Base /\ ClaimsPaid)'
  BY BaseStep, PaidStep
<1> QED
  BY <1>1, <1>2, <1>3, PTL DEF Spec

-----------------------------------------------------------------------------
(* A connector posts only under the lease.                                 *)

\* The tokens under which a connector may still post the result of d.
MayPost(w, d, t) ==
  \/ answer[w][d] # NoToken /\ answer[w][d] = t
  \/ task[w][d].phase = "job" /\ lease[w][d] = t

TokenUnique(d) ==
  /\ \A w \in Worker : answer[w][d] # NoToken =>
       /\ \A u \in Worker : lease[u][d] # answer[w][d]
       /\ \A u \in Worker : answer[u][d] = answer[w][d] => u = w
       /\ \A r \in requests : r.id = d => r.token # answer[w][d]
  /\ \A w \in Worker : lease[w][d] # NoToken =>
       \A u \in Worker : lease[u][d] = lease[w][d] => u = w
  /\ \A w \in Worker : task[w][d].phase = "job" =>
       \A r \in requests : r.id = d => r.token # lease[w][d]

LEMMA TokensPerRun == TokensUnique <=> \A d \in Intents : TokenUnique(d)
  BY DEF TokensUnique, TokenUnique

\* Steps that give nobody a token.
LEMMA TokensLess ==
  ASSUME NEW d \in Intents, TokenUnique(d),
         \A u \in Worker : /\ answer'[u][d] \in {answer[u][d], NoToken}
                           /\ lease'[u][d] \in {lease[u][d], NoToken}
                           /\ task'[u][d].phase = "job" =>
                                task[u][d].phase = "job" /\ lease'[u][d] = lease[u][d],
         \A q \in requests' : \E r \in requests : q.id = r.id /\ q.token = r.token
  PROVE  TokenUnique(d)'
<1>1. \A w \in Worker : answer'[w][d] # NoToken =>
        /\ \A u \in Worker : lease'[u][d] # answer'[w][d]
        /\ \A u \in Worker : answer'[u][d] = answer'[w][d] => u = w
        /\ \A r \in requests' : r.id = d => r.token # answer'[w][d]
  BY DEF TokenUnique
<1>2. \A w \in Worker : lease'[w][d] # NoToken =>
        \A u \in Worker : lease'[u][d] = lease'[w][d] => u = w
  BY DEF TokenUnique
<1>3. \A w \in Worker : task'[w][d].phase = "job" =>
        \A r \in requests' : r.id = d => r.token # lease'[w][d]
  BY DEF TokenUnique
<1> QED
  BY <1>1, <1>2, <1>3 DEF TokenUnique

LEMMA TokensClaim ==
  ASSUME Base, NEW w \in Worker, ServeClaim(w), NEW d \in Intents, TokenUnique(d)
  PROVE  TokenUnique(d)'
<1>1. PICK ok \in BOOLEAN, t \in Outbox!FreshTokens, chosen \in SUBSET Intents :
        /\ Outbox!Claim(Intents, limit[w], LEASE, t, chosen, ok)
        /\ answer' = [answer EXCEPT ![w] =
             [e \in Intents |-> IF ok /\ e \in chosen THEN t ELSE NoToken]]
  BY DEF ServeClaim
<1>2. UNCHANGED <<lease, task, requests>>
  BY DEF ServeClaim
<1>3. t \in Token /\ t # NoToken /\ t \notin Known[d]
  BY <1>1, OutboxAssumption DEF Outbox!FreshTokens
<1>4. /\ \A u \in Worker : t # lease[u][d] /\ t # answer[u][d]
      /\ \A r \in requests : r.id = d => t # r.token
  BY <1>3 DEF Known
<1>5. /\ answer'[w][d] \in {t, NoToken}
      /\ \A u \in Worker : u # w => answer'[u][d] = answer[u][d]
  BY <1>1 DEF Base, Parts
<1>6. \A u \in Worker : answer'[u][d] # NoToken =>
        /\ \A v \in Worker : lease'[v][d] # answer'[u][d]
        /\ \A v \in Worker : answer'[v][d] = answer'[u][d] => v = u
        /\ \A r \in requests' : r.id = d => r.token # answer'[u][d]
  BY <1>2, <1>4, <1>5 DEF TokenUnique
<1>7. /\ \A u \in Worker : lease'[u][d] # NoToken =>
           \A v \in Worker : lease'[v][d] = lease'[u][d] => v = u
      /\ \A u \in Worker : task'[u][d].phase = "job" =>
           \A r \in requests' : r.id = d => r.token # lease'[u][d]
  BY <1>2 DEF TokenUnique
<1> QED
  BY <1>6, <1>7 DEF TokenUnique

LEMMA TokensTaken ==
  ASSUME Base, NEW w \in Worker, TakeAnswer(w), NEW d \in Intents, TokenUnique(d)
  PROVE  TokenUnique(d)'
<1>1. \A u \in Worker :
        /\ answer'[u][d] = IF u = w THEN NoToken ELSE answer[u][d]
        /\ lease'[u][d] = IF u = w /\ answer[w][d] # NoToken THEN answer[w][d] ELSE lease[u][d]
        /\ ~ (u = w /\ answer[w][d] # NoToken) => task'[u][d] = task[u][d]
  BY TakenFacts
<1>2. requests' = requests
  BY DEF TakeAnswer
<1>3. \A u \in Worker : answer'[u][d] # NoToken =>
        /\ \A v \in Worker : lease'[v][d] # answer'[u][d]
        /\ \A v \in Worker : answer'[v][d] = answer'[u][d] => v = u
        /\ \A r \in requests' : r.id = d => r.token # answer'[u][d]
  BY <1>1, <1>2 DEF TokenUnique
<1>4. \A u \in Worker : lease'[u][d] # NoToken =>
        \A v \in Worker : lease'[v][d] = lease'[u][d] => v = u
  BY <1>1 DEF TokenUnique
<1>5. \A u \in Worker : task'[u][d].phase = "job" =>
        \A r \in requests' : r.id = d => r.token # lease'[u][d]
  BY <1>1, <1>2 DEF TokenUnique
<1> QED
  BY <1>3, <1>4, <1>5 DEF TokenUnique

LEMMA TokensSent ==
  ASSUME Base, NEW w \in Worker, NEW e \in Intents, SendAck(w, e),
         NEW d \in Intents, TokenUnique(d)
  PROVE  TokenUnique(d)'
<1>1. task[w][e].phase = "ack" /\ UNCHANGED <<answer, lease>>
  BY DEF SendAck, pollVars
<1>2. /\ task'[w][e].phase = "call"
      /\ \A u \in Worker, f \in Intents : u # w \/ f # e => task'[u][f] = task[u][f]
  BY SendAckFacts
<1>3. PICK q \in Request : requests' = requests \cup {q} /\ q.id = e /\ q.token = lease[w][e]
  BY SendAckFacts
<1>4. \A u \in Worker : answer'[u][d] # NoToken =>
        /\ \A v \in Worker : lease'[v][d] # answer'[u][d]
        /\ \A v \in Worker : answer'[v][d] = answer'[u][d] => v = u
        /\ \A r \in requests' : r.id = d => r.token # answer'[u][d]
  BY <1>1, <1>3 DEF TokenUnique
<1>5. \A u \in Worker : lease'[u][d] # NoToken =>
        \A v \in Worker : lease'[v][d] = lease'[u][d] => v = u
  BY <1>1 DEF TokenUnique
<1>6. ASSUME NEW u \in Worker, task'[u][d].phase = "job", NEW r \in requests', r.id = d
      PROVE  r.token # lease'[u][d]
  <2>1. ~ (u = w /\ d = e) /\ task[u][d].phase = "job"
    BY <1>2, <1>6
  <2>2. lease[u][d] # NoToken
    BY <2>1 DEF Base, Parts
  <2>3. CASE r \in requests
    BY <1>1, <1>6, <2>1, <2>3 DEF TokenUnique
  <2>4. CASE r = q
    BY <1>1, <1>3, <1>6, <2>1, <2>2, <2>4 DEF TokenUnique
  <2> QED
    BY <1>3, <2>3, <2>4
<1> QED
  BY <1>4, <1>5, <1>6 DEF TokenUnique

LEMMA TokensInit == Init => TokensUnique
  BY DEF Init, TokensUnique, NoLeases, NoTask

\* One step of the tokens.  What it says of requests and tasks holds of every
\* step that answers, drops or keeps them.
LEMMA TokensStep == Base /\ TokensUnique /\ [Next]_vars => TokensUnique'
<1> SUFFICES ASSUME Base, TokensUnique, [Next]_vars, NEW d \in Intents
             PROVE  TokenUnique(d)'
  BY DEF TokensUnique, TokenUnique
<1>1. TokenUnique(d)
  BY TokensPerRun
<1>2. ASSUME NEW e \in Intents, RecordIntent(e) PROVE TokenUnique(d)'
  BY <1>1, <1>2, TokensLess DEF RecordIntent, pollVars
<1>3. ASSUME NEW r \in requests, ServeAck(r) \/ AckAnswerLost(r) \/ AckCallFails(r)
      PROVE  TokenUnique(d)'
  <2>1. UNCHANGED <<answer, lease>>
    BY <1>3 DEF ServeAck, AckAnswerLost, AckCallFails, pollVars
  <2>2. \/ task' = IF r.live THEN [task EXCEPT ![r.from][r.id] = Over(@)] ELSE task
        \/ task' = IF r.live THEN [task EXCEPT ![r.from][r.id] = Retry(@)] ELSE task
    BY <1>3 DEF ServeAck, AckAnswerLost, AckCallFails
  <2>3. \A u \in Worker : task'[u][d].phase = "job" => task[u][d].phase = "job"
    BY <2>2, AnsweredTask
  <2>4. \A q \in requests' : \E p \in requests : q.id = p.id /\ q.token = p.token
    <3>1. r \in Request /\ [r EXCEPT !.live = FALSE].id = r.id
          /\ [r EXCEPT !.live = FALSE].token = r.token
      BY DEF Base, Parts, Request
    <3> QED
      BY <1>3, <3>1 DEF ServeAck, AckAnswerLost, AckCallFails
  <2> QED
    BY <1>1, <2>1, <2>3, <2>4, TokensLess
<1>4. ASSUME CoreRestart PROVE TokenUnique(d)'
  <2>1. UNCHANGED <<answer, lease>> /\ requests' = {}
    BY <1>4 DEF CoreRestart
  <2>2. \A u \in Worker : task'[u][d].phase = "job" => task[u][d].phase = "job"
    BY <1>4, RestartedTask
  <2> QED
    BY <1>1, <2>1, <2>2, TokensLess
<1>5. ASSUME NEW w \in Worker, Poll(w) PROVE TokenUnique(d)'
  BY <1>1, <1>5, TokensLess DEF Poll
<1>6. ASSUME NEW w \in Worker, NEW e \in Intents, NEW v \in Verdicts, Deliver(w, e, v)
      PROVE  TokenUnique(d)'
  <2>1. UNCHANGED <<answer, lease, requests>>
    BY <1>6 DEF Deliver, pollVars
  <2>2. /\ task'[w][e].phase = "ack"
        /\ \A u \in Worker, f \in Intents : u # w \/ f # e => task'[u][f] = task[u][f]
    BY <1>6, DeliverFacts
  <2> QED
    BY <1>1, <2>1, <2>2, TokensLess
<1>7. ASSUME NEW w \in Worker, NEW e \in Intents, ForgetTask(w, e) PROVE TokenUnique(d)'
  <2>1. UNCHANGED <<answer, requests>>
    BY <1>7 DEF ForgetTask, pollVars
  <2>2. /\ task' = [task EXCEPT ![w][e] = NoTask] /\ NoTask \in Task /\ NoTask.phase = "none"
        /\ task \in [Worker -> [Intents -> Task]]
    BY <1>7, TaskFacts DEF ForgetTask, NoTask, Base, Parts
  <2>3. \A u \in Worker, f \in Intents :
          task'[u][f] = IF u = w /\ f = e THEN NoTask ELSE task[u][f]
    BY <2>2, TaskStep
  <2>4. \A u \in Worker, f \in Intents :
          lease'[u][f] = IF u = w /\ f = e THEN NoToken ELSE lease[u][f]
    BY <1>7 DEF ForgetTask, Base, Parts
  <2> QED
    BY <1>1, <2>1, <2>2, <2>3, <2>4, TokensLess
<1>8. ASSUME NEW w \in Worker, LoseClaim(w) PROVE TokenUnique(d)'
  <2>1. UNCHANGED <<lease, task, requests>>
        /\ \A u \in Worker : answer'[u][d] \in {answer[u][d], NoToken}
    BY <1>8 DEF LoseClaim, NoLeases, Base, Parts
  <2> QED
    BY <1>1, <2>1, TokensLess
<1>9. ASSUME NEW w \in Worker, ConnectorRestart(w) PROVE TokenUnique(d)'
  <2>1. NoTask.phase = "none"
    BY DEF NoTask
  <2>2. /\ \A u \in Worker :
             /\ task'[u][d] = IF u = w THEN NoTask ELSE task[u][d]
             /\ lease'[u][d] = IF u = w THEN NoToken ELSE lease[u][d]
             /\ answer'[u][d] = IF u = w THEN NoToken ELSE answer[u][d]
        /\ \A q \in requests' : \E r \in requests : q.id = r.id /\ q.token = r.token
    BY <1>9, ConnectorRestartFacts
  <2> QED
    BY <1>1, <2>1, <2>2, TokensLess
<1>10. ASSUME Tick PROVE TokenUnique(d)'
  <2>1. UNCHANGED <<answer, lease, requests>>
    BY <1>10 DEF Tick
  <2>2. \A u \in Worker : task'[u][d].phase = "job" => task[u][d].phase = "job"
    BY <1>10, TickFacts
  <2> QED
    BY <1>1, <2>1, <2>2, TokensLess
<1>11. CASE UNCHANGED vars
  BY <1>1, <1>11, TokensLess DEF vars, pollVars
<1>12. CASE Serve
  BY <1>1, <1>3, <1>12, TokensClaim DEF Serve
<1>13. CASE \E w \in Worker : Connector(w)
  BY <1>1, <1>5, <1>6, <1>7, <1>13, TokensTaken, TokensSent DEF Connector
<1>14. CASE Failure
  BY <1>3, <1>4, <1>8, <1>9, <1>14 DEF Failure
<1> QED
  BY <1>2, <1>10, <1>11, <1>12, <1>13, <1>14 DEF Next

\* UnderLease, for one run.
LeasedRun(d) ==
  Spent < LEASE_GRACE =>
    \A w \in Worker :
      /\ answer[w][d] # NoToken =>
           Grant(d, answer[w][d], JOB_TIMEOUT + LEASE_GRACE - Spent)
      /\ task[w][d].phase = "job" =>
           Grant(d, lease[w][d], task[w][d].left + LEASE_GRACE - Spent)

LEMMA LeasePerRun == UnderLease <=> \A d \in Intents : LeasedRun(d)
  BY DEF UnderLease, LeasedRun

LEMMA LeaseNumbers ==
  ASSUME Base, NEW d \in Intents
  PROVE  /\ Spent \in Nat
         /\ intents[d].lease \in Nat /\ disk[d].lease \in Nat
         /\ \A w \in Worker : task[w][d].left \in 0 .. JOB_TIMEOUT
<1>1. \A w \in Worker : task[w][d] \in Task
  BY DEF Base, Parts
<1>2. intents[d] \in Outbox!Intent /\ disk[d] \in Outbox!Intent
  BY DEF Base, Parts, StoresOK, Store
<1>3. intents[d].lease \in 0 .. LEASE /\ disk[d].lease \in 0 .. LEASE
  BY <1>2 DEF Outbox!Intent, Outbox!Lease
<1> QED
  BY <1>1, <1>3, PotentialType, Numbers DEF Task

LEMMA GrantLower ==
  ASSUME Base, NEW d \in Intents, NEW t, NEW n \in Int, NEW m \in Int, m <= n, Grant(d, t, n)
  PROVE  Grant(d, t, m)
  BY LeaseNumbers DEF Grant, GrantIn, Granted

LEMMA SpentNext ==
  ASSUME Base, Fault \/ NoFault
  PROVE  /\ Spent \in Nat /\ Spent' \in Nat /\ Spent <= Spent'
         /\ Fault => Spent' = Spent + 1
<1>1. faultsLeft \in 0 .. MaxFaults
  BY DEF Base, Parts
<1>2. Spent = MaxFaults - faultsLeft /\ Spent' = MaxFaults - faultsLeft'
  BY DEF Spent
<1>3. CASE Fault
  <2>1. faultsLeft' = faultsLeft - 1 /\ faultsLeft > 0
    BY <1>3 DEF Fault
  <2> QED
    BY <1>1, <1>2, <2>1, Numbers
<1>4. CASE NoFault /\ ~ Fault
  <2>1. faultsLeft' = faultsLeft
    BY <1>4 DEF NoFault
  <2> QED
    BY <1>1, <1>2, <1>4, <2>1, Numbers
<1> QED
  BY <1>3, <1>4

\* The same in the next state.
GrantNext(d, t, n) == GrantIn(intents', disk', loaded', d, t, n)

LEMMA LeasedNext ==
  ASSUME NEW d \in Intents,
         Spent' < LEASE_GRACE =>
           \A w \in Worker :
             /\ answer'[w][d] # NoToken =>
                  GrantNext(d, answer'[w][d], JOB_TIMEOUT + LEASE_GRACE - Spent')
             /\ task'[w][d].phase = "job" =>
                  GrantNext(d, lease'[w][d], task'[w][d].left + LEASE_GRACE - Spent')
  PROVE  LeasedRun(d)'
  BY DEF LeasedRun, Grant, GrantNext

\* Steps that let nobody wait for a job anew and leave the leases alone.
LEMMA LeasesLess ==
  ASSUME Base, NEW d \in Intents, LeasedRun(d), Fault \/ NoFault,
         \A u \in Worker : /\ answer'[u][d] \in {answer[u][d], NoToken}
                           /\ task'[u][d].phase = "job" =>
                                task'[u][d] = task[u][d] /\ lease'[u][d] = lease[u][d],
         \A w \in Worker : \A t : \A n \in Nat \ {0} :
           MayPost(w, d, t) /\ Grant(d, t, n) => GrantNext(d, t, n)
  PROVE  LeasedRun(d)'
<1> SUFFICES ASSUME Spent' < LEASE_GRACE, NEW w \in Worker
             PROVE  /\ answer'[w][d] # NoToken =>
                         GrantNext(d, answer'[w][d], JOB_TIMEOUT + LEASE_GRACE - Spent')
                    /\ task'[w][d].phase = "job" =>
                         GrantNext(d, lease'[w][d], task'[w][d].left + LEASE_GRACE - Spent')
  BY LeasedNext
<1>1. Spent \in Nat /\ Spent' \in Nat /\ Spent <= Spent' /\ Spent < LEASE_GRACE
  BY SpentNext, Numbers
<1>2. ASSUME answer'[w][d] # NoToken
      PROVE  GrantNext(d, answer'[w][d], JOB_TIMEOUT + LEASE_GRACE - Spent')
  <2> DEFINE t == answer[w][d]
             n == JOB_TIMEOUT + LEASE_GRACE - Spent
             m == JOB_TIMEOUT + LEASE_GRACE - Spent'
  <2>1. answer'[w][d] = t /\ MayPost(w, d, t) /\ Grant(d, t, n)
    BY <1>1, <1>2 DEF MayPost, LeasedRun
  <2>2. n \in Int /\ m \in Nat \ {0} /\ m <= n
    BY <1>1, Numbers
  <2> HIDE DEF n, m, t
  <2>3. Grant(d, t, m)
    BY <2>1, <2>2, GrantLower
  <2>4. GrantNext(d, t, m)
    BY <2>1, <2>2, <2>3
  <2> QED
    BY <2>1, <2>4 DEF m
<1>3. ASSUME task'[w][d].phase = "job"
      PROVE  GrantNext(d, lease'[w][d], task'[w][d].left + LEASE_GRACE - Spent')
  <2> DEFINE t == lease[w][d]
             n == task[w][d].left + LEASE_GRACE - Spent
             m == task[w][d].left + LEASE_GRACE - Spent'
  <2>1. /\ lease'[w][d] = t /\ task'[w][d] = task[w][d]
        /\ MayPost(w, d, t) /\ Grant(d, t, n)
    BY <1>1, <1>3 DEF MayPost, LeasedRun
  <2>2. task[w][d].left \in Nat
    BY LeaseNumbers, Numbers
  <2>3. n \in Int /\ m \in Nat \ {0} /\ m <= n
    BY <1>1, <2>2, Numbers
  <2> HIDE DEF n, m, t
  <2>4. Grant(d, t, m)
    BY <2>1, <2>3, GrantLower
  <2>5. GrantNext(d, t, m)
    BY <2>1, <2>3, <2>4
  <2> QED
    BY <2>1, <2>5 DEF m
<1> QED
  BY <1>2, <1>3

\* What the operations of the outbox do to a lease.  These facts need an outbox
\* that has room and whose file can be read.
LEMMA GrantSame ==
  ASSUME UNCHANGED outboxVars, NEW d, NEW t, NEW n, Grant(d, t, n)
  PROVE  GrantNext(d, t, n)
  BY DEF outboxVars, Grant, GrantNext

LEMMA GrantView ==
  ASSUME "load" \notin Faults, NEW cur, Adopted(cur), NEW d, NEW t, NEW n, Grant(d, t, n)
  PROVE  Granted(cur, d, t, n)
  BY DEF Adopted, Grant, GrantIn

LEMMA GrantAdopted ==
  ASSUME "load" \notin Faults, NEW cur, Adopted(cur), NEW d, NEW t, NEW n, Grant(d, t, n),
         intents'[d] = cur[d]
  PROVE  GrantNext(d, t, n)
<1>1. Granted(cur, d, t, n)
  BY GrantView
<1>2. Granted(intents', d, t, n)
  BY <1>1 DEF Granted
<1> QED
  BY <1>2 DEF Adopted, Grant, GrantNext, GrantIn, Granted

LEMMA GrantKept ==
  ASSUME "load" \notin Faults, Cardinality(Intents) <= MAX_RECORDS,
         NEW cur, Adopted(cur), NEW d, NEW t, NEW n, Grant(d, t, n),
         cur[d].state # "absent" => Kept(cur[d], intents'[d])
  PROVE  GrantNext(d, t, n)
<1>1. cur[d].state = "claimed"
  BY GrantView DEF Granted
<1>2. intents'[d] = cur[d]
  BY <1>1 DEF Kept
<1> QED
  BY <1>2, GrantAdopted

\* An acknowledgement under another token.
LEMMA GrantAck ==
  ASSUME "load" \notin Faults, NEW r \in Request, NEW cur, Adopted(cur),
         Settles(r, cur) \/ Ignores(r, cur),
         NEW d \in Intents, NEW t, NEW n, Grant(d, t, n), r.id = d => r.token # t
  PROVE  GrantNext(d, t, n)
<1>1. cur[d].state = "claimed" /\ cur[d].token = t
  BY GrantView DEF Granted
<1>2. intents'[d] = cur[d]
  BY <1>1 DEF Settles, Ignores, Adopted, Store
<1> QED
  BY <1>2, GrantAdopted

\* Whoever may post has a token of his own.
LEMMA PosterAlone ==
  ASSUME TokensUnique, NEW w \in Worker, NEW d \in Intents, NEW t, MayPost(w, d, t),
         NEW r \in requests, r.id = d
  PROVE  r.token # t
  BY DEF TokensUnique, MayPost

LEMMA LeasesRecord ==
  ASSUME "load" \notin Faults, Cardinality(Intents) <= MAX_RECORDS, Base,
         NEW e \in Intents, RecordIntent(e), NEW d \in Intents, LeasedRun(d)
  PROVE  LeasedRun(d)'
<1> PICK ok \in BOOLEAN : Saved(ok) /\ Outbox!Record(e, ok)
  BY DEF RecordIntent
<1>1. StoresOK
  BY DEF Base, Parts
<1>2. PICK cur : /\ Adopted(cur)
                 /\ \A f \in Intents : f # e => Kept(cur[f], intents'[f])
                 /\ cur[e].state # "absent" => Kept(cur[e], intents'[e])
  BY <1>1, RecordEffect
<1>3. UNCHANGED <<answer, task, lease>> /\ (Fault \/ NoFault)
  BY DEF RecordIntent, pollVars, Saved
<1>4. \A t, n : Grant(d, t, n) => GrantNext(d, t, n)
  BY <1>2, GrantKept
<1> QED
  BY <1>3, <1>4, LeasesLess

LEMMA LeasesClaim ==
  ASSUME "load" \notin Faults, Cardinality(Intents) <= MAX_RECORDS, Base,
         NEW w \in Worker, ServeClaim(w), NEW d \in Intents, LeasedRun(d)
  PROVE  LeasedRun(d)'
<1>1. StoresOK /\ limit[w] \in Nat /\ poll[w] = "out"
  BY Numbers DEF Base, Parts, ServeClaim
<1>2. PICK ok \in BOOLEAN, t \in Outbox!FreshTokens, chosen \in SUBSET Intents :
        /\ Saved(ok)
        /\ Outbox!Claim(Intents, limit[w], LEASE, t, chosen, ok)
        /\ answer' = [answer EXCEPT ![w] =
             [e \in Intents |-> IF ok /\ e \in chosen THEN t ELSE NoToken]]
  BY DEF ServeClaim
<1>3. t \in Token
  BY <1>2 DEF Outbox!FreshTokens
<1>p. PICK cur : LeasesBatch(cur, t, chosen, ok)
  BY <1>1, <1>2, <1>3, ClaimEffect
<1>4. /\ Adopted(cur)
      /\ ok /\ chosen # {} => disk' = intents'
      /\ \A e \in chosen :
           /\ cur[e].state = "pending" \/ (cur[e].state = "claimed" /\ cur[e].lease = 0)
           /\ intents'[e] = Outbox!Leased(cur[e], t, LEASE)
      /\ \A e \in Intents \ chosen : Kept(cur[e], intents'[e])
  BY <1>p DEF LeasesBatch
<1>5. UNCHANGED <<task, lease>> /\ (Fault \/ NoFault)
  BY <1>2 DEF ServeClaim, Saved
<1>6. \A u \in Worker : answer'[u][d] = IF u = w THEN IF ok /\ d \in chosen THEN t ELSE NoToken
                                        ELSE answer[u][d]
  BY <1>2 DEF Base, Parts
<1>7. cur[d] \in Outbox!Intent /\ cur[d].lease \in Nat
  <2>1. cur[d] \in Outbox!Intent
    BY <1>4 DEF Adopted, Store
  <2> QED
    BY <2>1, Numbers DEF Outbox!Intent, Outbox!Lease
<1>8. ASSUME NEW s, NEW n \in Nat \ {0}, Grant(d, s, n)
      PROVE  d \notin chosen
  <2>1. Granted(cur, d, s, n)
    BY <1>4, <1>8, GrantView
  <2>2. cur[d].state = "claimed" /\ cur[d].lease > 0
    BY <1>7, <2>1 DEF Granted
  <2> QED
    BY <1>4, <1>7, <2>2
<1>9. CASE ~ (ok /\ d \in chosen)
  <2>1. ASSUME NEW s, NEW n \in Nat \ {0}, Grant(d, s, n)
        PROVE  GrantNext(d, s, n)
    <3>1. d \notin chosen
      BY <1>8, <2>1
    <3> QED
      BY <1>4, <2>1, <3>1, GrantKept
  <2>2. \A u \in Worker : /\ answer'[u][d] \in {answer[u][d], NoToken}
                          /\ task'[u][d].phase = "job" =>
                               task'[u][d] = task[u][d] /\ lease'[u][d] = lease[u][d]
    BY <1>5, <1>6, <1>9
  <2> QED
    BY <1>5, <2>1, <2>2, LeasesLess
<1>10. CASE ok /\ d \in chosen
  <2> SUFFICES ASSUME Spent' < LEASE_GRACE, NEW u \in Worker
               PROVE  /\ answer'[u][d] # NoToken =>
                           GrantNext(d, answer'[u][d], JOB_TIMEOUT + LEASE_GRACE - Spent')
                      /\ task'[u][d].phase # "job"
    BY LeasedNext
  <2>1. Spent \in Nat /\ Spent' \in Nat /\ Spent < LEASE_GRACE
    BY <1>5, SpentNext, Numbers
  <2>2. task'[u][d].phase # "job"
    <3> SUFFICES ASSUME task[u][d].phase = "job" PROVE FALSE
      BY <1>5
    <3>1. Grant(d, lease[u][d], task[u][d].left + LEASE_GRACE - Spent)
      BY <2>1 DEF LeasedRun
    <3>2. task[u][d].left + LEASE_GRACE - Spent \in Nat \ {0}
      BY <2>1, LeaseNumbers, Numbers
    <3> QED
      BY <1>8, <1>10, <3>1, <3>2
  <2>3. u # w => answer'[u][d] = NoToken
    <3> SUFFICES ASSUME u # w, answer[u][d] # NoToken PROVE FALSE
      BY <1>6
    <3>1. Grant(d, answer[u][d], JOB_TIMEOUT + LEASE_GRACE - Spent)
      BY <2>1 DEF LeasedRun
    <3>2. JOB_TIMEOUT + LEASE_GRACE - Spent \in Nat \ {0}
      BY <2>1, Numbers
    <3> QED
      BY <1>8, <1>10, <3>1, <3>2
  <2>4. GrantNext(d, t, JOB_TIMEOUT + LEASE_GRACE - Spent')
    <3>1. intents'[d].state = "claimed" /\ intents'[d].token = t /\ intents'[d].lease = LEASE
      BY <1>3, <1>4, <1>7, <1>10, RecordFacts
    <3>2. disk' = intents'
      BY <1>4, <1>10
    <3>3. ASSUME NEW s \in Nat PROVE LEASE >= JOB_TIMEOUT + LEASE_GRACE - s
      BY <3>3, Numbers
    <3>4. LEASE >= JOB_TIMEOUT + LEASE_GRACE - Spent'
      BY <2>1, <3>3
    <3> QED
      BY <3>1, <3>2, <3>4 DEF GrantNext, GrantIn, Granted
  <2> QED
    BY <1>6, <1>10, <2>2, <2>3, <2>4
<1> QED
  BY <1>9, <1>10

LEMMA LeasesTaken ==
  ASSUME Base, NEW w \in Worker, TakeAnswer(w), NEW d \in Intents, LeasedRun(d)
  PROVE  LeasedRun(d)'
<1>1. /\ task' \in [Worker -> [Intents -> Task]]
      /\ \A u \in Worker :
           /\ answer'[u][d] = IF u = w THEN NoToken ELSE answer[u][d]
           /\ lease'[u][d] = IF u = w /\ answer[w][d] # NoToken THEN answer[w][d] ELSE lease[u][d]
           /\ ~ (u = w /\ answer[w][d] # NoToken) => task'[u][d] = task[u][d]
  BY TakenFacts
<1>2. UNCHANGED outboxVars /\ NoFault
  BY DEF TakeAnswer, NoFault
<1>3. Spent' = Spent /\ Spent \in Nat
  BY <1>2, SpentNext DEF NoFault, Spent
<1> SUFFICES ASSUME Spent < LEASE_GRACE, NEW u \in Worker
             PROVE  /\ answer'[u][d] # NoToken =>
                         GrantNext(d, answer'[u][d], JOB_TIMEOUT + LEASE_GRACE - Spent)
                    /\ task'[u][d].phase = "job" =>
                         GrantNext(d, lease'[u][d], task'[u][d].left + LEASE_GRACE - Spent)
  BY <1>3, LeasedNext
<1>4. \A t, n : Grant(d, t, n) => GrantNext(d, t, n)
  BY <1>2, GrantSame
<1>5. CASE ~ (u = w /\ answer[w][d] # NoToken)
  BY <1>1, <1>4, <1>5 DEF LeasedRun
<1>6. CASE u = w /\ answer[w][d] # NoToken
  <2>1. Grant(d, answer[w][d], JOB_TIMEOUT + LEASE_GRACE - Spent)
    BY <1>6 DEF LeasedRun
  <2>2. task'[u][d].left \in 0 .. JOB_TIMEOUT
    BY <1>1 DEF Task
  <2>3. /\ task'[u][d].left + LEASE_GRACE - Spent \in Int
        /\ JOB_TIMEOUT + LEASE_GRACE - Spent \in Int
        /\ task'[u][d].left + LEASE_GRACE - Spent <= JOB_TIMEOUT + LEASE_GRACE - Spent
    BY <1>3, <2>2, Numbers
  <2>4. Grant(d, answer[w][d], task'[u][d].left + LEASE_GRACE - Spent)
    BY <2>1, <2>3, GrantLower
  <2> QED
    BY <1>1, <1>4, <1>6, <2>4
<1> QED
  BY <1>5, <1>6

\* A tick takes one from the lease; it takes one from the wait, or it is slow.
LEMMA LeasesTick ==
  ASSUME Base, Tick, NEW d \in Intents, LeasedRun(d)
  PROVE  LeasedRun(d)'
<1>1. StoresOK /\ Outbox!Tick /\ UNCHANGED <<answer, lease>>
      /\ (Fault \/ (NoFault /\ Quiet))
  BY DEF Base, Parts, Tick
<1>2. loaded' = loaded /\ intents'[d] = Outbox!Aged(intents[d]) /\ disk'[d] = Outbox!Aged(disk[d])
  BY <1>1, TickEffect
<1>3. intents[d] \in Outbox!Intent /\ disk[d] \in Outbox!Intent
  BY <1>1 DEF StoresOK, Store
<1>4. ASSUME NEW t, NEW n \in Nat \ {0}, NEW m \in Int, m <= n - 1, Grant(d, t, n)
      PROVE  GrantNext(d, t, m)
  <2>1. ASSUME NEW r \in Outbox!Intent, r.state = "claimed", r.token = t, r.lease >= n,
               r.lease \in Nat
        PROVE  /\ Outbox!Aged(r).state = "claimed" /\ Outbox!Aged(r).token = t
               /\ Outbox!Aged(r).lease >= m
    <3>1. /\ Outbox!Aged(r).state = "claimed" /\ Outbox!Aged(r).token = t
          /\ Outbox!Aged(r).lease = IF r.lease = 0 THEN 0 ELSE r.lease - 1
      BY <2>1, RecordFacts
    <3> QED
      BY <1>4, <2>1, <3>1
  <2>2. intents[d].lease \in Nat /\ disk[d].lease \in Nat
    BY LeaseNumbers
  <2> QED
    BY <1>2, <1>3, <1>4, <2>1, <2>2 DEF Grant, GrantNext, GrantIn, Granted
<1>5. Spent \in Nat /\ Spent' \in Nat /\ Spent <= Spent' /\ (Fault => Spent' = Spent + 1)
  BY <1>1, SpentNext
<1> SUFFICES ASSUME Spent' < LEASE_GRACE, NEW u \in Worker
             PROVE  /\ answer'[u][d] # NoToken =>
                         GrantNext(d, answer'[u][d], JOB_TIMEOUT + LEASE_GRACE - Spent')
                    /\ task'[u][d].phase = "job" =>
                         GrantNext(d, lease'[u][d], task'[u][d].left + LEASE_GRACE - Spent')
  BY LeasedNext
<1>6. Spent < LEASE_GRACE
  BY <1>5, Numbers
<1>7. ASSUME answer'[u][d] # NoToken
      PROVE  GrantNext(d, answer'[u][d], JOB_TIMEOUT + LEASE_GRACE - Spent')
  <2>1. answer'[u][d] = answer[u][d] /\ poll[u] = "answered"
    BY <1>1, <1>7 DEF Base, AnswersAwaited
  <2>2. Spent' = Spent + 1
    BY <1>1, <1>5, <2>1 DEF Quiet
  <2>3. Grant(d, answer[u][d], JOB_TIMEOUT + LEASE_GRACE - Spent)
    BY <1>6, <1>7, <2>1 DEF LeasedRun
  <2> DEFINE n == JOB_TIMEOUT + LEASE_GRACE - Spent
             m == JOB_TIMEOUT + LEASE_GRACE - Spent'
  <2>4. n \in Nat \ {0} /\ m \in Int /\ m <= n - 1
    BY <1>5, <1>6, <2>2, Numbers
  <2>5. Grant(d, answer[u][d], n)
    BY <2>3
  <2> HIDE DEF n, m
  <2>6. GrantNext(d, answer[u][d], m)
    BY <1>4, <2>4, <2>5
  <2> QED
    BY <2>1, <2>6 DEF m
<1>8. ASSUME task'[u][d].phase = "job"
      PROVE  GrantNext(d, lease'[u][d], task'[u][d].left + LEASE_GRACE - Spent')
  <2>1. /\ task[u][d].phase = "job" /\ lease'[u][d] = lease[u][d]
        /\ task[u][d].left > 0 /\ task'[u][d].left = task[u][d].left - 1
    BY <1>1, <1>8, TickFacts
  <2>2. Grant(d, lease[u][d], task[u][d].left + LEASE_GRACE - Spent)
    BY <1>6, <2>1 DEF LeasedRun
  <2>3. task[u][d].left \in Nat
    BY LeaseNumbers, Numbers
  <2> DEFINE n == task[u][d].left + LEASE_GRACE - Spent
             m == task'[u][d].left + LEASE_GRACE - Spent'
  <2>4. n \in Nat \ {0} /\ m \in Int /\ m <= n - 1
    BY <1>5, <1>6, <2>1, <2>3, Numbers
  <2>5. Grant(d, lease[u][d], n)
    BY <2>2
  <2> HIDE DEF n, m
  <2>6. GrantNext(d, lease[u][d], m)
    BY <1>4, <2>4, <2>5
  <2> QED
    BY <2>1, <2>6 DEF m
<1> QED
  BY <1>7, <1>8

LEMMA LeasesStep ==
  ASSUME "load" \notin Faults, Cardinality(Intents) <= MAX_RECORDS,
         Base, TokensUnique, UnderLease, [Next]_vars
  PROVE  UnderLease'
<1> SUFFICES ASSUME NEW d \in Intents PROVE LeasedRun(d)'
  BY DEF UnderLease, LeasedRun
<1>1. LeasedRun(d)
  BY LeasePerRun
<1>2. ASSUME UNCHANGED outboxVars PROVE \A t, n : Grant(d, t, n) => GrantNext(d, t, n)
  BY <1>2, GrantSame
<1>3. ASSUME NEW r \in requests, ServeAck(r) \/ AckAnswerLost(r) PROVE LeasedRun(d)'
  <2>1. UNCHANGED <<answer, lease>> /\ (Fault \/ NoFault)
    BY <1>3 DEF ServeAck, AckAnswerLost, pollVars
  <2>2. \/ task' = IF r.live THEN [task EXCEPT ![r.from][r.id] = Over(@)] ELSE task
        \/ task' = IF r.live THEN [task EXCEPT ![r.from][r.id] = Retry(@)] ELSE task
    BY <1>3 DEF ServeAck, AckAnswerLost
  <2>3. r \in Request /\ \A u \in Worker : task'[u][d].phase = "job" => task'[u][d] = task[u][d]
    BY <2>2, AnsweredTask
  <2>4. StoresOK /\ ToldOK
    BY DEF Base, Parts
  <2>5. PICK cur : Adopted(cur) /\ (Settles(r, cur) \/ Ignores(r, cur))
    <3>1. CASE HandleAck(r)
      BY <2>3, <2>4, <3>1, HandleEffect
    <3>2. CASE Outbox!AckFinal(r.id, r.token, r.verdict, FALSE)
      BY <2>3, <2>4, <3>2, FailedEffect
    <3> QED
      BY <1>3, <3>1, <3>2 DEF ServeAck, AckAnswerLost
  <2>6. ASSUME NEW w \in Worker, NEW t, NEW n, MayPost(w, d, t), Grant(d, t, n)
        PROVE  GrantNext(d, t, n)
    <3>1. r.id = d => r.token # t
      BY <2>6, PosterAlone
    <3> QED
      BY <2>3, <2>5, <2>6, <3>1, GrantAck
  <2> QED
    BY <1>1, <2>1, <2>3, <2>6, LeasesLess
<1>4. ASSUME CoreRestart PROVE LeasedRun(d)'
  <2>1. UNCHANGED <<answer, lease>> /\ Fault /\ disk' = disk /\ loaded' = FALSE
    BY <1>4 DEF CoreRestart, Outbox!Restart
  <2>2. \A u \in Worker : task'[u][d].phase = "job" => task'[u][d] = task[u][d]
    BY <1>4, RestartedTask
  <2>3. \A t, n : Grant(d, t, n) => GrantNext(d, t, n)
    BY <2>1 DEF Grant, GrantNext, GrantIn, Granted
  <2> QED
    BY <1>1, <2>1, <2>2, <2>3, LeasesLess
<1>5. ASSUME NEW r \in requests, AckCallFails(r) PROVE LeasedRun(d)'
  <2>1. UNCHANGED <<outboxVars, answer, lease>> /\ Fault
    BY <1>5 DEF AckCallFails, pollVars
  <2>2. task' = IF r.live THEN [task EXCEPT ![r.from][r.id] = Retry(@)] ELSE task
    BY <1>5 DEF AckCallFails
  <2>3. \A u \in Worker : task'[u][d].phase = "job" => task'[u][d] = task[u][d]
    BY <2>2, AnsweredTask
  <2> QED
    BY <1>1, <1>2, <2>1, <2>3, LeasesLess
<1>6. ASSUME NEW w \in Worker, Poll(w) PROVE LeasedRun(d)'
  <2>1. UNCHANGED <<outboxVars, answer, lease, task>> /\ NoFault
    BY <1>6 DEF Poll, NoFault
  <2> QED
    BY <1>1, <1>2, <2>1, LeasesLess
<1>7. ASSUME NEW w \in Worker, NEW e \in Intents, NEW v \in Verdicts, Deliver(w, e, v)
      PROVE  LeasedRun(d)'
  <2>1. UNCHANGED <<outboxVars, answer, lease>> /\ NoFault
    BY <1>7 DEF Deliver, pollVars, NoFault
  <2>2. /\ task'[w][e].phase = "ack"
        /\ \A u \in Worker, f \in Intents : u # w \/ f # e => task'[u][f] = task[u][f]
    BY <1>7, DeliverFacts
  <2> QED
    BY <1>1, <1>2, <2>1, <2>2, LeasesLess
<1>8. ASSUME NEW w \in Worker, NEW e \in Intents, SendAck(w, e) PROVE LeasedRun(d)'
  <2>1. UNCHANGED <<outboxVars, answer, lease>> /\ NoFault
    BY <1>8 DEF SendAck, pollVars, NoFault
  <2>2. /\ task'[w][e].phase = "call"
        /\ \A u \in Worker, f \in Intents : u # w \/ f # e => task'[u][f] = task[u][f]
    BY <1>8, SendAckFacts
  <2> QED
    BY <1>1, <1>2, <2>1, <2>2, LeasesLess
<1>9. ASSUME NEW w \in Worker, NEW e \in Intents, ForgetTask(w, e) PROVE LeasedRun(d)'
  <2>1. UNCHANGED <<outboxVars, answer>> /\ NoFault
    BY <1>9 DEF ForgetTask, pollVars, NoFault
  <2>2. /\ task' = [task EXCEPT ![w][e] = NoTask] /\ NoTask \in Task /\ NoTask.phase = "none"
        /\ task \in [Worker -> [Intents -> Task]]
    BY <1>9, TaskFacts DEF ForgetTask, NoTask, Base, Parts
  <2>3. \A u \in Worker, f \in Intents :
          task'[u][f] = IF u = w /\ f = e THEN NoTask ELSE task[u][f]
    BY <2>2, TaskStep
  <2>4. \A u \in Worker, f \in Intents :
          lease'[u][f] = IF u = w /\ f = e THEN NoToken ELSE lease[u][f]
    BY <1>9 DEF ForgetTask, Base, Parts
  <2> QED
    BY <1>1, <1>2, <2>1, <2>2, <2>3, <2>4, LeasesLess
<1>10. ASSUME NEW w \in Worker, LoseClaim(w) PROVE LeasedRun(d)'
  <2>1. UNCHANGED <<outboxVars, lease, task>> /\ Fault
        /\ \A u \in Worker : answer'[u][d] \in {answer[u][d], NoToken}
    BY <1>10 DEF LoseClaim, NoLeases, Base, Parts
  <2> QED
    BY <1>1, <1>2, <2>1, LeasesLess
<1>11. ASSUME NEW w \in Worker, ConnectorRestart(w) PROVE LeasedRun(d)'
  <2>1. NoTask.phase = "none" /\ UNCHANGED outboxVars /\ Fault
    BY <1>11 DEF NoTask, ConnectorRestart
  <2>2. \A u \in Worker :
          /\ task'[u][d] = IF u = w THEN NoTask ELSE task[u][d]
          /\ lease'[u][d] = IF u = w THEN NoToken ELSE lease[u][d]
          /\ answer'[u][d] = IF u = w THEN NoToken ELSE answer[u][d]
    BY <1>11, ConnectorRestartFacts
  <2> QED
    BY <1>1, <1>2, <2>1, <2>2, LeasesLess
<1>12. CASE UNCHANGED vars
  <2>1. UNCHANGED <<outboxVars, answer, lease, task>> /\ NoFault
    BY <1>12 DEF vars, pollVars, NoFault
  <2> QED
    BY <1>1, <1>2, <2>1, LeasesLess
<1>13. CASE Serve
  BY <1>1, <1>3, <1>13, LeasesClaim DEF Serve
<1>14. CASE \E w \in Worker : Connector(w)
  BY <1>1, <1>6, <1>7, <1>8, <1>9, <1>14, LeasesTaken DEF Connector
<1>15. CASE Failure
  BY <1>3, <1>4, <1>5, <1>10, <1>11, <1>15 DEF Failure
<1> QED
  BY <1>1, <1>12, <1>13, <1>14, <1>15, LeasesRecord, LeasesTick DEF Next

LEMMA LeasesInit == Init => UnderLease
  BY DEF Init, UnderLease, NoLeases, NoTask

\* Nothing but the end of a delivery posts, and it changes its own task only.
LEMMA PostsByDelivery ==
  ASSUME Base, [Next]_vars, NEW w \in Worker, NEW d \in Intents,
         posts'[d] # posts[d], task'[w][d] # task[w][d]
  PROVE  task[w][d].phase = "job"
<1>1. posts' # posts
  OBVIOUS
<1>2. PICK u \in Worker, e \in Intents, v \in Verdicts : Deliver(u, e, v)
  BY <1>1 DEF Next, Serve, Connector, Failure, RecordIntent, ServeClaim, ServeAck, Poll,
     TakeAnswer, SendAck, ForgetTask, CoreRestart, LoseClaim, ConnectorRestart, AckCallFails,
     AckAnswerLost, Tick, vars
<1>3. u = w /\ e = d
  BY <1>2, DeliverFacts
<1> QED
  BY <1>2, <1>3 DEF Deliver

\* As long as the outbox has room and its file can be read, a connector posts a
\* result only under the lease that the core still holds for it, so that no two
\* connectors deliver the same run at a time, whatever fewer than LEASE_GRACE
\* faults and slow ticks do in between (schedule_delivery.py:36, 73-75, 105-198).
THEOREM PostsLeased ==
  ASSUME "load" \notin Faults, Cardinality(Intents) <= MAX_RECORDS
  PROVE  Spec => PostsUnderLease
<1> DEFINE Inv == Base /\ TokensUnique /\ UnderLease
           Leased(w, d) == posts'[d] # posts[d] /\ task'[w][d] # task[w][d] /\ Spent < LEASE_GRACE
                             => /\ Current[d].state = "claimed"
                                /\ Current[d].token = lease[w][d]
<1>1. Init => Inv
  BY BaseInit, TokensInit, LeasesInit
<1>2. Inv /\ [Next]_vars => Inv'
  BY BaseStep, TokensStep, LeasesStep
<1>3. Inv /\ [Next]_vars => [\A w \in Worker, d \in Intents : Leased(w, d)]_vars
  <2> SUFFICES ASSUME Inv, [Next]_vars, NEW w \in Worker, NEW d \in Intents,
                      posts'[d] # posts[d], task'[w][d] # task[w][d], Spent < LEASE_GRACE
               PROVE  Current[d].state = "claimed" /\ Current[d].token = lease[w][d]
    OBVIOUS
  <2>1. task[w][d].phase = "job"
    BY PostsByDelivery
  <2>2. Grant(d, lease[w][d], task[w][d].left + LEASE_GRACE - Spent)
    BY <2>1 DEF UnderLease
  <2> QED
    BY <2>2 DEF Grant, GrantIn, Granted, Current, Outbox!Current
<1> HIDE DEF Inv
<1>4. Spec => [][\A w \in Worker, d \in Intents : Leased(w, d)]_vars
  BY <1>1, <1>2, <1>3, PTL DEF Spec
<1> QED
  BY <1>4 DEF PostsUnderLease

-----------------------------------------------------------------------------
(* What the outbox promises holds with the connectors around it.           *)

\* The operations are those that the proofs about the outbox speak of.
LEMMA SameStore ==
  /\ Outbox!Views = OP!Views /\ Outbox!SaveResults = OP!SaveResults
  /\ Outbox!Current = OP!Current /\ Outbox!FreshTokens = OP!FreshTokens
  /\ \A m, ok : Outbox!Commit(m, ok) <=> OP!Commit(m, ok)
  /\ \A m : Outbox!Keep(m) <=> OP!Keep(m)
<1>1. Outbox!Views = OP!Views
  BY SameValues DEF Outbox!Views, OP!Views
<1>2. Outbox!SaveResults = OP!SaveResults /\ Outbox!Current = OP!Current
  BY DEF Outbox!SaveResults, OP!SaveResults, Outbox!Current, OP!Current
<1>3. Outbox!FreshTokens = OP!FreshTokens
  BY DEF Outbox!FreshTokens, OP!FreshTokens
<1>4. \A m, ok : Outbox!Commit(m, ok) <=> OP!Commit(m, ok)
  BY DEF Outbox!Commit, OP!Commit
<1>5. \A m : Outbox!Keep(m) <=> OP!Keep(m)
  BY DEF Outbox!Keep, OP!Keep
<1> QED
  BY <1>1, <1>2, <1>3, <1>4, <1>5

LEMMA SameRecord == \A d, ok : Outbox!Record(d, ok) => OP!Record(d, ok)
  BY SameStore, SameRecords, SameMaintenance DEF Outbox!Record, OP!Record

LEMMA SameClaim ==
  \A scope, batch, l, t, chosen, ok :
    Outbox!Claim(scope, batch, l, t, chosen, ok) => OP!Claim(scope, batch, l, t, chosen, ok)
<1>1. \A m, scope : Outbox!Claimable(m, scope) = OP!Claimable(m, scope)
  BY DEF Outbox!Claimable, OP!Claimable
<1>2. \A m, scope, batch : Outbox!Batches(m, scope, batch) = OP!Batches(m, scope, batch)
  BY <1>1, SameCardinality DEF Outbox!Batches, OP!Batches
<1> QED
  BY <1>2, SameStore, SameRecords, SameMaintenance DEF Outbox!Claim, OP!Claim

LEMMA SameAck ==
  \A d, t, v :
    /\ \A ok : Outbox!AckFinal(d, t, v, ok) => OP!AckFinal(d, t, v, ok)
    /\ Outbox!AckRepeated(d, t, v) => OP!AckRepeated(d, t, v)
    /\ Outbox!AckRejected(d, t, v) => OP!AckRejected(d, t, v)
<1>1. \A d, t, v, ok : Outbox!AckFinal(d, t, v, ok) => OP!AckFinal(d, t, v, ok)
  BY SameStore, SameRecords DEF Outbox!AckFinal, OP!AckFinal
<1>2. \A d, t, v : Outbox!AckRepeated(d, t, v) => OP!AckRepeated(d, t, v)
  BY SameStore DEF Outbox!AckRepeated, OP!AckRepeated
<1>3. \A d, t, v : Outbox!AckRejected(d, t, v) => OP!AckRejected(d, t, v)
  BY SameStore DEF Outbox!AckRejected, OP!AckRejected
<1> QED
  BY <1>1, <1>2, <1>3

LEMMA SameTime ==
  /\ Outbox!Tick => OP!Tick
  /\ Outbox!Restart => OP!Restart
<1>1. Outbox!Tick => OP!Tick
  BY SameRecords DEF Outbox!Tick, OP!Tick
<1>2. Outbox!Restart => OP!Restart
  BY SameValues DEF Outbox!Restart, OP!Restart
<1> QED
  BY <1>1, <1>2

LEMMA OutboxTyped == Base => OP!TypeOK
<1>1. TypeOK => OP!TypeOK
  BY SameValues DEF TypeOK, Outbox!TypeOK, OP!TypeOK
<1> QED
  BY <1>1, PartsType DEF Base

\* What the core answers, step by step, is an operation of the outbox; the token
\* of a claim that is answered is in the file before the answer is sent.
LEMMA RecordOperates ==
  ASSUME Base, NEW d \in Intents, RecordIntent(d)
  PROVE  \E cur \in OP!Views : OP!Operates(cur)
<1>1. PICK ok \in BOOLEAN : Saved(ok) /\ Outbox!Record(d, ok)
  BY DEF RecordIntent
<1>2. ok \in OP!SaveResults /\ OP!Record(d, ok)
  BY <1>1, SameStore, SameRecord DEF Saved
<1> QED
  BY <1>2, OutboxTyped, OutboxConstants, OP!RecordOperation

LEMMA ClaimOperates ==
  ASSUME Base, NEW w \in Worker, ServeClaim(w)
  PROVE  /\ \E cur \in OP!Views : OP!Operates(cur)
         /\ \A d \in Intents : disk' = intents' \/ \A u \in Worker :
              answer'[u][d] \in {answer[u][d], NoToken}
<1>1. PICK ok \in BOOLEAN, t \in Outbox!FreshTokens, chosen \in SUBSET Intents :
        /\ Saved(ok)
        /\ Outbox!Claim(Intents, limit[w], LEASE, t, chosen, ok)
        /\ answer' = [answer EXCEPT ![w] =
             [d \in Intents |-> IF ok /\ d \in chosen THEN t ELSE NoToken]]
  BY DEF ServeClaim
<1>2. ok \in OP!SaveResults /\ t \in OP!FreshTokens
  BY <1>1, SameStore DEF Saved
<1>3. OP!Claim(Intents, limit[w], LEASE, t, chosen, ok)
  BY <1>1, SameClaim
<1>4. LEASE \in 1 .. LEASE
  BY Numbers
<1>5. /\ \E cur \in OP!Views : OP!Operates(cur)
      /\ ok /\ chosen # {} => disk' = intents'
  BY <1>2, <1>3, <1>4, OutboxTyped, OutboxConstants, OP!ClaimOperation
<1>6. ASSUME NEW d \in Intents, NEW u \in Worker, ~ (ok /\ chosen # {})
      PROVE  answer'[u][d] \in {answer[u][d], NoToken}
  BY <1>1, <1>6 DEF Base, Parts
<1> QED
  BY <1>5, <1>6

LEMMA HandleOperates ==
  ASSUME Base, NEW r \in requests,
         HandleAck(r) \/ (FALSE \in Outbox!SaveResults /\ Outbox!AckFinal(r.id, r.token, r.verdict, FALSE))
  PROVE  \E cur \in OP!Views : OP!Operates(cur)
<1>1. r.id \in Intents /\ r.verdict \in OP!Verdict
  BY VerdictFacts, SameValues DEF Base, Parts, Request
<1>2. TRUE \in OP!SaveResults
  BY DEF OP!SaveResults
<1>3. OP!TypeOK /\ OP!ConstantsAssumption
  BY OutboxTyped, OutboxConstants
<1> DEFINE d == r.id
           t == r.token
           v == r.verdict
<1>4. \/ \E ok \in OP!SaveResults : OP!AckFinal(d, t, v, ok)
      \/ OP!AckRepeated(d, t, v)
      \/ OP!AckRejected(d, t, v)
  BY <1>2, SameAck, SameStore DEF HandleAck
<1>5. d \in Intents /\ v \in OP!Verdict
  BY <1>1
<1> HIDE DEF d, t, v
<1> QED
  BY <1>3, <1>4, <1>5, OP!AckOperation

\* No step of the system does anything else to the outbox than operate it, let
\* time pass or stop it.
LEMMA OutboxSteps ==
  ASSUME Base, [Next]_vars
  PROVE  \/ \E cur \in OP!Views : OP!Operates(cur)
         \/ OP!Tick
         \/ OP!Restart
         \/ UNCHANGED outboxVars
<1>1. CASE \E d \in Intents : RecordIntent(d)
  BY <1>1, RecordOperates
<1>2. CASE Serve
  BY <1>2, ClaimOperates, HandleOperates DEF Serve, ServeAck
<1>3. CASE \E w \in Worker : Connector(w)
  <2>1. ASSUME NEW w \in Worker, Poll(w) \/ TakeAnswer(w) PROVE UNCHANGED outboxVars
    BY <2>1 DEF Poll, TakeAnswer
  <2>2. ASSUME NEW w \in Worker, NEW d \in Intents,
               (\E v \in Verdicts : Deliver(w, d, v)) \/ SendAck(w, d) \/ ForgetTask(w, d)
        PROVE  UNCHANGED outboxVars
    BY <2>2 DEF Deliver, SendAck, ForgetTask
  <2> QED
    BY <1>3, <2>1, <2>2 DEF Connector
<1>4. CASE Failure
  <2>1. CASE CoreRestart
    BY <2>1, SameTime DEF CoreRestart
  <2>2. CASE \E w \in Worker : LoseClaim(w) \/ ConnectorRestart(w)
    BY <2>2 DEF LoseClaim, ConnectorRestart
  <2>3. CASE \E r \in requests : AckCallFails(r)
    BY <2>3 DEF AckCallFails
  <2>4. CASE \E r \in requests : AckAnswerLost(r)
    BY <2>4, HandleOperates DEF AckAnswerLost
  <2> QED
    BY <1>4, <2>1, <2>2, <2>3, <2>4 DEF Failure
<1>5. CASE Tick
  BY <1>5, SameTime DEF Tick
<1>6. CASE UNCHANGED vars
  BY <1>6 DEF vars
<1> QED
  BY <1>1, <1>2, <1>3, <1>4, <1>5, <1>6 DEF Next

\* Without I/O faults nothing the core knows is lost by a restart, and every
\* record evolves as the outbox lets it.
LEMMA SystemEvolves ==
  ASSUME Faults = {}, Base, OP!WrittenThrough, [Next]_vars
  PROVE  OP!WrittenThrough' /\ \A d \in Intents : OP!Evolves(d)
<1>0. OP!TypeOK /\ Base'
  BY BaseStep, OutboxTyped
<1>1. OP!TypeOK /\ OP!TypeOK'
  BY <1>0, OutboxTyped, PTL
<1>2. \A d \in Intents : OP!Current[d] \in OP!Intent /\ OP!Current'[d] \in OP!Intent
  BY <1>1 DEF OP!TypeOK, OP!Current
<1>3. CASE \E cur \in OP!Views : OP!Operates(cur)
  <2>1. OP!WrittenThrough' /\ \A d \in Intents : OP!Move(OP!Current[d], OP!Current'[d])
    BY <1>1, <1>3, OutboxConstants, OP!CurrentOperation
  <2> QED
    BY <1>2, <2>1 DEF OP!Evolves
<1>4. CASE OP!Tick
  <2>1. OP!WrittenThrough' /\ \A d \in Intents : OP!Current'[d] = OP!Aged(OP!Current[d])
    BY <1>1, <1>4, OutboxConstants, OP!TickCurrent
  <2> QED
    BY <1>2, <2>1 DEF OP!Evolves
<1>5. CASE OP!Restart
  <2>1. OP!WrittenThrough' /\ \A d \in Intents : OP!Current'[d] = OP!Current[d]
    BY <1>5, OutboxConstants, OP!RestartCurrent
  <2> QED
    BY <1>2, <2>1 DEF OP!Evolves
<1>6. CASE UNCHANGED outboxVars
  BY <1>2, <1>6 DEF outboxVars, OP!Evolves, OP!Current, OP!WrittenThrough
<1> QED
  BY <1>3, <1>4, <1>5, <1>6, OutboxSteps

\* Without I/O faults whatever the core answered or was told is in its file.
LEMMA SystemWritten ==
  ASSUME Faults = {}
  PROVE  Spec => [](Base /\ OP!WrittenThrough)
<1>1. Init => OP!WrittenThrough
  BY DEF Init, Outbox!Init, OP!WrittenThrough
<1>2. Base /\ OP!WrittenThrough /\ [Next]_vars => OP!WrittenThrough'
  BY SystemEvolves
<1> QED
  BY <1>1, <1>2, BaseInit, BaseStep, PTL DEF Spec

LEMMA SameTable ==
  /\ OP!Table!Init => Outbox!Table!Init
  /\ OP!Table!Next => Outbox!Table!Next
<1>1. OP!Table!Init => Outbox!Table!Init
  BY SameStore DEF OP!Table!Init, Outbox!Table!Init
<1>2. ASSUME NEW d \in Intents, OP!Table!Step(d) PROVE Outbox!Table!Step(d)
  BY <1>2, SameStore, SameValues DEF OP!Table!Step, Outbox!Table!Step, OP!Table!Offer,
     Outbox!Table!Offer, OP!Table!Grant, Outbox!Table!Grant, OP!Table!Lapse, Outbox!Table!Lapse,
     OP!Table!Finish, Outbox!Table!Finish, OP!Table!Forget, Outbox!Table!Forget,
     OP!Table!Idle, Outbox!Table!Idle, OP!Current, Outbox!Current
<1> QED
  BY <1>1, <1>2 DEF OP!Table!Next, Outbox!Table!Next

\* The whole system implements the table of leases, without I/O faults: seen from
\* outside, connectors that stop, calls that are lost, late or repeated, and a
\* core that restarts never do anything to an intent that an atomic table would
\* not allow (delivery_outbox.py:1-8, schedule_delivery.py:1-7).
THEOREM DeliveryImplementsTable == Faults = {} => (Spec => Outbox!TableSpec)
<1> SUFFICES ASSUME Faults = {} PROVE Spec => Outbox!TableSpec
  OBVIOUS
<1>1. ASSUME Init PROVE Outbox!Table!Init
  <2>1. \A d \in Intents : OP!Current[d] = OP!Absent
    BY <1>1, SameValues DEF Init, Outbox!Init, OP!Current, Outbox!Empty
  <2>2. OP!Table!Init
    BY <2>1, OutboxConstants, OP!EmptyTable
  <2> QED
    BY <2>2, SameTable
<1>2. ASSUME Base, OP!WrittenThrough, [Next]_vars
      PROVE  [Outbox!Table!Next]_(Outbox!Table!tableVars)
  <2>1. OP!Table!Next
    BY <1>2, SystemEvolves, OutboxTyped, OutboxConstants, OP!EvolvesTable
  <2> QED
    BY <2>1, SameTable
<1> QED
  BY <1>1, <1>2, SystemWritten, PTL DEF Spec, Outbox!TableSpec, Outbox!Table!Spec

\* Without I/O faults a result whose acknowledgement was confirmed to a connector
\* stays recorded until its record is pruned: no late or repeated request, claim
\* or restart brings the run back to be delivered again (delivery_outbox.py:390-432).
THEOREM DeliveryConfirmed == Faults = {} => (Spec => Outbox!ConfirmedStaysFinal)
<1> SUFFICES ASSUME Faults = {} PROVE Spec => Outbox!ConfirmedStaysFinal
  OBVIOUS
<1> DEFINE Stays(d) == told[d] # Outbox!NoVerdict /\ Outbox!Current[d].state = told[d].state
                         => Outbox!Current'[d].state \in {told[d].state, "absent"}
<1>1. ASSUME Base, OP!WrittenThrough, [Next]_vars, NEW d \in Intents
      PROVE  Stays(d)
  <2>1. OP!Evolves(d) /\ OP!TypeOK
    BY <1>1, SystemEvolves, OutboxTyped
  <2>2. told[d] # OP!NoVerdict /\ OP!Current[d].state = told[d].state
          => OP!Current'[d].state \in {told[d].state, "absent"}
    BY <2>1, OutboxConstants, OP!ConfirmedKept
  <2> QED
    BY <2>2, SameValues DEF Outbox!Current, OP!Current
<1>2. Base /\ OP!WrittenThrough /\ [Next]_vars => [\A d \in Intents : Stays(d)]_(Outbox!vars)
  BY <1>1
<1> QED
  BY <1>2, SystemWritten, PTL DEF Spec, Outbox!ConfirmedStaysFinal

\* A connector or a message comes to carry a token only with the answer to a claim,
\* and what that claim did is in the file.
LEMMA KnownLess ==
  ASSUME NEW d \in Intents,
         \A u \in Worker : /\ answer'[u][d] \in {answer[u][d], NoToken}
                           /\ lease'[u][d] \in {lease[u][d], answer[u][d], NoToken},
         \A q \in requests' : q.id = d =>
           \/ \E r \in requests : r.id = d /\ q.token = r.token
           \/ \E u \in Worker : q.token = lease[u][d]
  PROVE  Known'[d] \subseteq Known[d]
<1> SUFFICES ASSUME NEW t \in Known'[d] PROVE t \in Known[d]
  OBVIOUS
<1>1. t # NoToken /\ (\/ \E u \in Worker : t = lease'[u][d] \/ t = answer'[u][d]
                     \/ \E q \in requests' : q.id = d /\ t = q.token)
  BY DEF Known
<1>2. \/ \E u \in Worker : t = lease[u][d] \/ t = answer[u][d]
      \/ \E r \in requests : r.id = d /\ t = r.token
  BY <1>1
<1> QED
  BY <1>1, <1>2 DEF Known

LEMMA KnownStep ==
  ASSUME Base, [Next]_vars, NEW d \in Intents
  PROVE  disk' = intents' \/ Known'[d] \subseteq Known[d]
<1>1. ASSUME NEW e \in Intents, RecordIntent(e) PROVE Known'[d] \subseteq Known[d]
  BY <1>1, KnownLess DEF RecordIntent, pollVars
<1>2. ASSUME NEW w \in Worker, ServeClaim(w)
      PROVE  disk' = intents' \/ Known'[d] \subseteq Known[d]
  <2>1. UNCHANGED <<lease, requests>>
    BY <1>2 DEF ServeClaim
  <2> QED
    BY <1>2, <2>1, ClaimOperates, KnownLess
<1>3. ASSUME NEW r \in requests, ServeAck(r) \/ AckAnswerLost(r) \/ AckCallFails(r)
      PROVE  Known'[d] \subseteq Known[d]
  <2>1. UNCHANGED <<answer, lease>>
    BY <1>3 DEF ServeAck, AckAnswerLost, AckCallFails, pollVars
  <2>2. \A q \in requests' : \E p \in requests : q.id = p.id /\ q.token = p.token
    <3>1. r \in Request /\ [r EXCEPT !.live = FALSE].id = r.id
          /\ [r EXCEPT !.live = FALSE].token = r.token
      BY DEF Base, Parts, Request
    <3> QED
      BY <1>3, <3>1 DEF ServeAck, AckAnswerLost, AckCallFails
  <2> QED
    BY <2>1, <2>2, KnownLess
<1>4. ASSUME CoreRestart PROVE Known'[d] \subseteq Known[d]
  BY <1>4, KnownLess DEF CoreRestart
<1>5. ASSUME NEW w \in Worker, Poll(w) PROVE Known'[d] \subseteq Known[d]
  BY <1>5, KnownLess DEF Poll
<1>6. ASSUME NEW w \in Worker, TakeAnswer(w) PROVE Known'[d] \subseteq Known[d]
  <2>1. requests' = requests
    BY <1>6 DEF TakeAnswer
  <2> QED
    BY <1>6, <2>1, TakenFacts, KnownLess
<1>7. ASSUME NEW w \in Worker, NEW e \in Intents, NEW v \in Verdicts, Deliver(w, e, v)
      PROVE  Known'[d] \subseteq Known[d]
  BY <1>7, KnownLess DEF Deliver, pollVars
<1>8. ASSUME NEW w \in Worker, NEW e \in Intents, SendAck(w, e)
      PROVE  Known'[d] \subseteq Known[d]
  <2>1. UNCHANGED <<answer, lease>>
    BY <1>8 DEF SendAck, pollVars
  <2>2. PICK q \in Request : requests' = requests \cup {q} /\ q.id = e /\ q.token = lease[w][e]
    BY <1>8, SendAckFacts
  <2> QED
    BY <2>1, <2>2, KnownLess
<1>9. ASSUME NEW w \in Worker, NEW e \in Intents, ForgetTask(w, e)
      PROVE  Known'[d] \subseteq Known[d]
  <2>1. UNCHANGED <<answer, requests>>
    BY <1>9 DEF ForgetTask, pollVars
  <2>2. \A u \in Worker, f \in Intents :
          lease'[u][f] = IF u = w /\ f = e THEN NoToken ELSE lease[u][f]
    BY <1>9 DEF ForgetTask, Base, Parts
  <2> QED
    BY <2>1, <2>2, KnownLess
<1>10. ASSUME NEW w \in Worker, LoseClaim(w) PROVE Known'[d] \subseteq Known[d]
  <2>1. UNCHANGED <<lease, requests>>
        /\ \A u \in Worker : answer'[u][d] \in {answer[u][d], NoToken}
    BY <1>10 DEF LoseClaim, NoLeases, Base, Parts
  <2> QED
    BY <2>1, KnownLess
<1>11. ASSUME NEW w \in Worker, ConnectorRestart(w) PROVE Known'[d] \subseteq Known[d]
  BY <1>11, ConnectorRestartFacts, KnownLess
<1>12. CASE Tick
  BY <1>12, KnownLess DEF Tick
<1>13. CASE UNCHANGED vars
  BY <1>13, KnownLess DEF vars, pollVars
<1>14. CASE Serve
  BY <1>2, <1>3, <1>14 DEF Serve
<1>15. CASE \E w \in Worker : Connector(w)
  BY <1>5, <1>6, <1>7, <1>8, <1>9, <1>15 DEF Connector
<1>16. CASE Failure
  BY <1>3, <1>4, <1>10, <1>11, <1>16 DEF Failure
<1> QED
  BY <1>1, <1>12, <1>13, <1>14, <1>15, <1>16 DEF Next

\* The tokens that connectors and messages carry are those of the file.
LEMMA KnownDurable ==
  ASSUME "load" \notin Faults, Base, OP!GrantsDurable, [Next]_vars
  PROVE  OP!GrantsDurable'
<1> SUFFICES ASSUME NEW d \in Intents, loaded', intents'[d].token \in Known'[d]
             PROVE  disk'[d].token = intents'[d].token
  BY DEF OP!GrantsDurable
<1>1. OP!TypeOK /\ Base
  BY OutboxTyped
<1>2. NoToken \notin Known'[d]
  BY DEF Known
<1>3. disk' = intents' \/ Known'[d] \subseteq Known[d]
  BY KnownStep
<1>4. CASE \E cur \in OP!Views : OP!Operates(cur)
  BY <1>1, <1>2, <1>3, <1>4, OutboxConstants, OP!DurableOperation
<1>5. CASE OP!Tick
  <2>1. /\ intents'[d] = OP!Aged(intents[d]) /\ disk'[d] = OP!Aged(disk[d]) /\ loaded' = loaded
    BY <1>5 DEF OP!Tick
  <2>2. intents[d] \in OP!Intent /\ disk[d] \in OP!Intent
    BY <1>1 DEF OP!TypeOK
  <2>3. intents'[d].token = intents[d].token /\ disk'[d].token = disk[d].token
    BY <2>1, <2>2, OutboxConstants, OP!FieldFacts
  <2> QED
    BY <1>3, <2>1, <2>3 DEF OP!GrantsDurable
<1>6. CASE OP!Restart
  BY <1>6 DEF OP!Restart
<1>7. CASE UNCHANGED outboxVars
  BY <1>3, <1>7 DEF outboxVars, OP!GrantsDurable
<1> QED
  BY <1>4, <1>5, <1>6, <1>7, OutboxSteps

\* As long as the file can be read after a restart, a running lease whose token a
\* connector, an answer or a request still carries stays with it until it runs out,
\* whatever is lost, late or repeated, whichever process stops and however many
\* writes fail: the newest token a connector has is the one that acknowledges
\* (schedule_delivery.py:129-131, delivery_outbox.py:341-388).
THEOREM ConnectorsKeepLeases == "load" \notin Faults => (Spec => Outbox!LeaseRespected)
<1> SUFFICES ASSUME "load" \notin Faults PROVE Spec => Outbox!LeaseRespected
  OBVIOUS
<1> DEFINE Keeps(d) == Outbox!Leaseholder(d) => Outbox!Current'[d].token = Outbox!Current[d].token
<1>1. Init => OP!GrantsDurable
  BY DEF Init, Outbox!Init, OP!GrantsDurable
<1>2. ASSUME Base, OP!GrantsDurable, [Next]_vars, NEW d \in Intents, Outbox!Leaseholder(d)
      PROVE  Outbox!Current'[d].token = Outbox!Current[d].token
  <2>1. OP!TypeOK /\ OP!Leaseholder(d)
    BY <1>2, OutboxTyped, SameStore DEF Outbox!Leaseholder, OP!Leaseholder
  <2>2. intents[d] \in OP!Intent /\ disk[d] \in OP!Intent
    BY <2>1 DEF OP!TypeOK
  <2> USE DEF Outbox!Current
  <2>3. CASE \E cur \in OP!Views : OP!Operates(cur)
    <3>1. OP!Current'[d].token = OP!Current[d].token
      BY <2>1, <2>3, OutboxConstants, OP!LeaseOperation
    <3> QED
      BY <3>1 DEF OP!Current
  <2>4. CASE OP!Tick
    <3>1. /\ intents'[d] = OP!Aged(intents[d]) /\ disk'[d] = OP!Aged(disk[d])
          /\ loaded' = loaded
      BY <2>4 DEF OP!Tick
    <3>2. intents'[d].token = intents[d].token /\ disk'[d].token = disk[d].token
      BY <2>2, <3>1, OutboxConstants, OP!FieldFacts
    <3> QED
      BY <3>1, <3>2
  <2>5. CASE OP!Restart
    BY <1>2, <2>1, <2>5 DEF OP!Restart, OP!GrantsDurable, OP!Leaseholder, OP!Current
  <2>6. CASE UNCHANGED outboxVars
    BY <2>6 DEF outboxVars
  <2> QED
    BY <1>2, <2>3, <2>4, <2>5, <2>6, OutboxSteps
<1>3. Base /\ OP!GrantsDurable /\ [Next]_vars => [\A d \in Intents : Keeps(d)]_(Outbox!vars)
  BY <1>2
<1>4. Base /\ OP!GrantsDurable /\ [Next]_vars => OP!GrantsDurable'
  BY KnownDurable
<1> QED
  BY <1>1, <1>3, <1>4, AlwaysBase, PTL DEF Spec, Outbox!LeaseRespected

=============================================================================
