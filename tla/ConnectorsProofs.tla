--------------------------- MODULE ConnectorsProofs ---------------------------
(***************************************************************************)
(* The front of the connector, for any number of events, updates, buttons, *)
(* handlers and installation flows, and a replay table of any size and     *)
(* time to live.                                                           *)
(***************************************************************************)
EXTENDS MCConnectors, FiniteSetTheorems, SequenceTheorems, WellFoundedInduction, TLAPS

-----------------------------------------------------------------------------
(* Repeated deliveries: one router at a time, no second routing while the  *)
(* table remembers the first, and no refusal without a reason.  The        *)
(* invariant ties what a handler awaits, and what has returned, to the     *)
(* record that the table must still have, unless it has forgotten it.      *)

\* A record was updated at the latest when it was made, and runs out after that.
Dated(q) == q \in LifecycleRecord /\ q.left + q.idle <= LIFECYCLE_TTL

TableTyped ==
  /\ lifecycle \in [Events -> LifecycleRecord] /\ \A k \in Events : Dated(lifecycle[k])
  /\ routing \in [Handlers -> Events \cup {"none"}]
  /\ routed \subseteq Events /\ forgotten \subseteq Events
  /\ since \in [Events -> 0 .. LIFECYCLE_TTL]

\* An event that nothing was forgotten of: its router holds the claim, and the
\* record of what has returned outlives the time in which it must not run again.
Remembered(k) ==
  k \notin forgotten =>
    /\ \A g, h \in Handlers : routing[g] = k /\ routing[h] = k => g = h
    /\ \A h \in Handlers :
         routing[h] = k => lifecycle[k].state = "claimed" /\ lifecycle[k].left > 0
    /\ since[k] > 0 => lifecycle[k].state \in Finals /\ lifecycle[k].left >= since[k]

\* A valid record that refuses a delivery does so for a reason.
Reasoned(k) ==
  lifecycle[k].left > 0 =>
    /\ lifecycle[k].state = "claimed" => k \in Misshapen \/ \E h \in Handlers : routing[h] = k
    /\ lifecycle[k].state \in Finals => k \in routed \cup Malformed

IngressInv == TableTyped /\ \A k \in Events : Remembered(k) /\ Reasoned(k)

-----------------------------------------------------------------------------
(* The table.                                                              *)

LEMMA EntriesDated ==
  /\ NoEntry \in LifecycleRecord /\ Dated(NoEntry)
  /\ \A s \in LifecycleState : EntryIn(s) \in LifecycleRecord /\ Dated(EntryIn(s))
BY LifecycleAssumption DEF NoEntry, EntryIn, Dated, LifecycleRecord, LifecycleState, Finals

\* What _cleanup_expired_locked leaves.
LEMMA UnexpiredTable ==
  ASSUME NEW S, NEW m \in [S -> LifecycleRecord], \A k \in S : Dated(m[k])
  PROVE  /\ Unexpired(m) \in [S -> LifecycleRecord]
         /\ \A k \in S : /\ Dated(Unexpired(m)[k])
                         /\ m[k].left > 0 => Unexpired(m)[k] = m[k]
                         /\ m[k].left = 0 => Unexpired(m)[k] = NoEntry
BY EntriesDated, LifecycleAssumption DEF Unexpired, LifecycleRecord

\* What claim does to the key, and that it does to the others at most that it
\* pushes one out.
LEMMA ClaimsTable ==
  ASSUME NEW S, NEW m \in [S -> LifecycleRecord], \A j \in S : Dated(m[j]),
         NEW k \in S, NEW n \in Claims(m, k)
  PROVE  /\ n \in [S -> LifecycleRecord] /\ \A j \in S : Dated(n[j])
         /\ \A j \in S : j # k => n[j] = m[j] \/ n[j] = NoEntry
         /\ Accepts(m, k) => \/ n[k] = EntryIn("claimed")
                             \/ n[k] = NoEntry /\ m[k].state # "absent"
         /\ ~ Accepts(m, k) => n[k] = [m[k] EXCEPT !.idle = 0] /\ \A j \in S : j # k => n[j] = m[j]
<1>1. CASE Accepts(m, k)
  <2>1. EntryIn("claimed") \in LifecycleRecord /\ Dated(EntryIn("claimed"))
    BY EntriesDated DEF LifecycleState
  <2>2. \/ n = With(m, k, EntryIn("claimed"))
        \/ \E v \in S : /\ m[v].state # "absent"
                             /\ n = With(With(m, k, EntryIn("claimed")), v, NoEntry)
    BY <1>1 DEF Claims, LeastRecent, Entries
  <2>3. CASE n = With(m, k, EntryIn("claimed"))
    BY <1>1, <2>1, <2>3 DEF With
  <2>4. ASSUME NEW v \in S, m[v].state # "absent",
               n = With(With(m, k, EntryIn("claimed")), v, NoEntry)
        PROVE  /\ n \in [S -> LifecycleRecord] /\ \A j \in S : Dated(n[j])
               /\ \A j \in S : j # k => n[j] = m[j] \/ n[j] = NoEntry
               /\ n[k] = EntryIn("claimed") \/ (n[k] = NoEntry /\ m[k].state # "absent")
    BY <2>1, <2>4, EntriesDated DEF With
  <2>5. QED
    BY <1>1, <2>2, <2>3, <2>4
<1>2. CASE ~ Accepts(m, k)
  <2>1. n = With(m, k, [m[k] EXCEPT !.idle = 0])
    BY <1>2 DEF Claims
  <2>2. [m[k] EXCEPT !.idle = 0] \in LifecycleRecord /\ Dated([m[k] EXCEPT !.idle = 0])
    BY LifecycleAssumption DEF LifecycleRecord, Dated
  <2>3. QED
    BY <1>2, <2>1, <2>2 DEF With
<1>3. QED
  BY <1>1, <1>2

\* commit_success, fail_terminal and release_retryable touch one key.
LEMMA ClosedTable ==
  ASSUME NEW S, NEW m \in [S -> LifecycleRecord], \A j \in S : Dated(m[j]),
         NEW k \in S, NEW s \in LifecycleState, NEW n, n = Closed(m, k, s) \/ n = Released(m, k)
  PROVE  /\ n \in [S -> LifecycleRecord] /\ \A j \in S : Dated(n[j])
         /\ \A j \in S : j # k => n[j] = m[j]
BY EntriesDated DEF Closed, Released, With, LifecycleState
\* A tick changes no state.
LEMMA ElapsedTable ==
  ASSUME NEW S, NEW m \in [S -> LifecycleRecord], \A k \in S : Dated(m[k])
  PROVE  /\ Elapsed(m) \in [S -> LifecycleRecord]
         /\ \A k \in S : Dated(Elapsed(m)[k]) /\ Elapsed(m)[k].state = m[k].state
<1> DEFINE n == Elapsed(m)
<1>1. n = [k \in S |-> IF m[k].left = 0 THEN m[k] ELSE [m[k] EXCEPT !.left = @ - 1, !.idle = @ + 1]]
  BY DEF Elapsed
<1> HIDE DEF n
<1>2. ASSUME NEW k \in S PROVE n[k] \in LifecycleRecord /\ Dated(n[k]) /\ n[k].state = m[k].state
  <2>1. m[k] \in LifecycleRecord /\ Dated(m[k])
    OBVIOUS
  <2>2. CASE m[k].left = 0
    BY <1>1, <2>1, <2>2
  <2>3. CASE m[k].left # 0
    <3> DEFINE l == m[k].left - 1
               i == m[k].idle + 1
    <3>1. n[k] = [m[k] EXCEPT !.left = l, !.idle = i]
      BY <1>1, <2>3
    <3>2. l \in 0 .. LIFECYCLE_TTL /\ i \in 0 .. LIFECYCLE_TTL /\ l + i <= LIFECYCLE_TTL
      BY <2>1, <2>3, LifecycleAssumption DEF LifecycleRecord, Dated
    <3> HIDE DEF l, i
    <3>3. /\ n[k] \in LifecycleRecord /\ n[k].state = m[k].state /\ n[k].left = l /\ n[k].idle = i
      BY <2>1, <3>1, <3>2 DEF LifecycleRecord
    <3> QED
      BY <3>2, <3>3 DEF Dated
  <2> QED
    BY <2>2, <2>3
<1> QED
  BY <1>1, <1>2 DEF n

-----------------------------------------------------------------------------
(* The steps.                                                              *)

LEMMA LiveEvents ==
  ASSUME IngressInv
  PROVE  /\ lifecycle \in [Events -> LifecycleRecord] /\ Unexpired(lifecycle) \in [Events -> LifecycleRecord]
         /\ \A j \in Events : /\ Dated(Unexpired(lifecycle)[j])
                              /\ lifecycle[j].left > 0 => Unexpired(lifecycle)[j] = lifecycle[j]
                              /\ lifecycle[j].left = 0 => Unexpired(lifecycle)[j] = NoEntry
<1>1. lifecycle \in [Events -> LifecycleRecord] /\ \A k \in Events : Dated(lifecycle[k])
  BY DEF IngressInv, TableTyped
<1> QED
  BY <1>1, UnexpiredTable

LEMMA InitHolds == IngressInit => IngressInv
BY EntriesDated, LifecycleAssumption, IngressAssumption
DEF IngressInit, IngressInv, TableTyped, Remembered, Reasoned, NoEntry

\* A delivery: a new one becomes the router of an event that nobody routes.
LEMMA DeliverHolds ==
  ASSUME IngressInv, NEW h \in Handlers, NEW k \in Events, Deliver(h, k)
  PROVE  IngressInv'
<1> DEFINE live == Unexpired(lifecycle)
           new  == Accepts(live, k)
<1>1. PICK m \in Claims(live, k) :
        /\ lifecycle' = IF new /\ k \in Malformed THEN Closed(m, k, "terminal_failure") ELSE m
        /\ routing' = IF new /\ k \notin Malformed \cup Misshapen
                      THEN [routing EXCEPT ![h] = k] ELSE routing
        /\ forgotten' = forgotten \cup (Entries(live) \ Entries(m))
  BY DEF Deliver
<1>2. routing[h] = "none" /\ routed' = routed /\ since' = since
  BY DEF Deliver
<1>3. /\ live \in [Events -> LifecycleRecord]
      /\ \A j \in Events : /\ Dated(live[j])
                           /\ lifecycle[j].left > 0 => live[j] = lifecycle[j]
                           /\ lifecycle[j].left = 0 => live[j] = NoEntry
  BY LiveEvents
<1> HIDE DEF live
<1>4. /\ m \in [Events -> LifecycleRecord] /\ \A j \in Events : Dated(m[j])
      /\ \A j \in Events : j # k => m[j] = live[j] \/ m[j] = NoEntry
      /\ new => m[k] = EntryIn("claimed") \/ (m[k] = NoEntry /\ live[k].state # "absent")
      /\ ~ new => m[k] = [live[k] EXCEPT !.idle = 0] /\ \A j \in Events : j # k => m[j] = live[j]
  BY <1>1, <1>3, ClaimsTable
<1>5. /\ lifecycle' \in [Events -> LifecycleRecord] /\ \A j \in Events : Dated(lifecycle'[j])
      /\ \A j \in Events : j # k => lifecycle'[j] = m[j]
  <2>1. "terminal_failure" \in LifecycleState
    BY DEF LifecycleState, Finals
  <2>2. CASE lifecycle' = m
    BY <2>2, <1>4
  <2>3. CASE lifecycle' = Closed(m, k, "terminal_failure")
    BY <2>1, <2>3, <1>4, ClosedTable
  <2>4. QED
    BY <1>1, <2>2, <2>3
<1>6. TableTyped'
  BY <1>1, <1>2, <1>3, <1>5 DEF IngressInv, TableTyped, Entries
<1>7. \A j \in Events : live[j].state # "absent" /\ m[j] = NoEntry => j \in forgotten'
  BY <1>1, <1>3, <1>4 DEF Entries, NoEntry
<1>8. \A j \in Events : lifecycle[j].left \in Nat
  BY LifecycleAssumption DEF IngressInv, TableTyped, LifecycleRecord
<1>9. forgotten \subseteq forgotten'
  BY <1>1
<1>10. ASSUME NEW j \in Events, j # k PROVE Remembered(j)' /\ Reasoned(j)'
  <2>1. \A g \in Handlers : (routing'[g] = j) <=> (routing[g] = j)
    BY <1>1, <1>2, <1>10, IngressAssumption DEF IngressInv, TableTyped
  <2>2. Remembered(j) /\ Reasoned(j)
    BY DEF IngressInv
  <2>3. lifecycle'[j] = lifecycle[j] \/ lifecycle'[j] = NoEntry
    BY <1>3, <1>4, <1>5, <1>8, <1>10
  <2>4. lifecycle'[j] = NoEntry /\ j \notin forgotten' => lifecycle[j].left = 0 \/ lifecycle[j].state = "absent"
    BY <1>3, <1>4, <1>5, <1>7, <1>8, <1>10
  <2>5. Reasoned(j)'
    BY <2>1, <2>2, <2>3, <1>2 DEF Reasoned, NoEntry
  <2>6. Remembered(j)'
    <3>1. SUFFICES ASSUME j \notin forgotten'
          PROVE  /\ \A f, g \in Handlers : routing[f] = j /\ routing[g] = j => f = g
                 /\ \A g \in Handlers :
                      routing[g] = j => lifecycle'[j].state = "claimed" /\ lifecycle'[j].left > 0
                 /\ since[j] > 0 => lifecycle'[j].state \in Finals /\ lifecycle'[j].left >= since[j]
      BY <2>1, <1>2 DEF Remembered
    <3>2. j \notin forgotten
      BY <3>1, <1>9
    <3>3. since[j] \in Nat
      BY LifecycleAssumption DEF IngressInv, TableTyped
    <3>4. CASE lifecycle'[j] = lifecycle[j]
      BY <2>2, <3>2, <3>4 DEF Remembered
    <3>5. CASE lifecycle[j].left = 0 \/ lifecycle[j].state = "absent"
      <4>1. since[j] = 0 /\ \A g \in Handlers : routing[g] # j
        BY <2>2, <3>2, <3>3, <3>5 DEF Remembered, Finals
      <4>2. QED
        BY <4>1
    <3>6. QED
      BY <2>3, <2>4, <3>1, <3>4, <3>5
  <2>7. QED
    BY <2>5, <2>6
<1>11. Remembered(k)' /\ Reasoned(k)'
  <2>1. Remembered(k) /\ Reasoned(k)
    BY DEF IngressInv
  <2>2. since[k] \in Nat
    BY LifecycleAssumption DEF IngressInv, TableTyped
  <2>3. CASE ~ new
    <3>1. lifecycle'[k] = [live[k] EXCEPT !.idle = 0] /\ routing' = routing
      BY <1>1, <1>4, <2>3
    <3>2. /\ live[k] = lifecycle[k] /\ lifecycle[k].left > 0
      BY <1>3, <1>8, <2>3 DEF Accepts, NoEntry
    <3>3. /\ lifecycle'[k].state = lifecycle[k].state /\ lifecycle'[k].left = lifecycle[k].left
      BY <3>1, <3>2, <1>3 DEF LifecycleRecord
    <3>4. QED
      BY <2>1, <3>1, <3>3, <1>2, <1>9 DEF Remembered, Reasoned
  <2>4. CASE new
    <3>1. k \notin forgotten => since[k] = 0 /\ \A g \in Handlers : routing[g] # k
      <4>1. SUFFICES ASSUME k \notin forgotten
            PROVE  since[k] = 0 /\ \A g \in Handlers : routing[g] # k
        OBVIOUS
      <4>2. lifecycle[k].left = 0 \/ lifecycle[k].state \in {"absent", "retryable_failure"}
        BY <2>4, <1>3, <1>8 DEF Accepts
      <4>3. QED
        BY <2>1, <2>2, <4>1, <4>2 DEF Remembered, Finals
    <3>2. CASE k \in Malformed
      <4>1. /\ routing' = routing
            /\ lifecycle'[k].state \in {"terminal_failure", "absent"}
        BY <1>1, <1>4, <2>4, <3>2 DEF Closed, With, EntryIn, NoEntry
      <4>2. QED
        BY <3>1, <3>2, <4>1, <1>2, <1>9 DEF Remembered, Reasoned
    <3>2a. CASE k \in Misshapen
      <4>1. /\ routing' = routing /\ k \notin Malformed
            /\ lifecycle'[k].state \in {"claimed", "absent"}
        BY <1>1, <1>4, <2>4, <3>2a, IngressAssumption DEF EntryIn, NoEntry
      <4>2. QED
        BY <3>1, <3>2a, <4>1, <1>2, <1>9 DEF Remembered, Reasoned, Finals
    <3>3. CASE k \notin Malformed \cup Misshapen
      <4>1. /\ routing' = [routing EXCEPT ![h] = k]
            /\ lifecycle'[k] = EntryIn("claimed") \/ lifecycle'[k] = NoEntry
        BY <1>1, <1>4, <2>4, <3>3
      <4>2. routing'[h] = k /\ \A g \in Handlers : g # h => routing'[g] = routing[g]
        BY <4>1 DEF IngressInv, TableTyped
      <4>3. CASE lifecycle'[k] = EntryIn("claimed")
        <5>1. lifecycle'[k].state = "claimed" /\ lifecycle'[k].left > 0
          BY <4>3, LifecycleAssumption DEF EntryIn
        <5>2. QED
          BY <5>1, <3>1, <4>2, <1>2, <1>9 DEF Remembered, Reasoned, Finals
      <4>4. CASE lifecycle'[k] = NoEntry
        <5>1. k \in forgotten'
          BY <4>4, <1>1, <1>4, <1>7, <2>4, <3>3 DEF NoEntry, EntryIn
        <5>2. QED
          BY <4>4, <5>1 DEF Remembered, Reasoned, NoEntry
      <4>5. QED
        BY <4>1, <4>3, <4>4
    <3>4. QED
      BY <3>2, <3>2a, <3>3
  <2>5. QED
    BY <2>3, <2>4
<1>12. QED
  BY <1>6, <1>10, <1>11 DEF IngressInv

\* The router returned: what it held is closed, for as long as the table remembers.
LEMMA ReturnedHolds ==
  ASSUME IngressInv, NEW h \in Handlers, Returned(h)
  PROVE  IngressInv'
<1> DEFINE live == Unexpired(lifecycle)
<1>1. PICK k \in Events : routing[h] = k
  BY DEF Returned, IngressInv, TableTyped
<1>2. PICK s \in Finals : lifecycle' = Closed(live, k, s)
  BY <1>1 DEF Returned
<1>3. /\ routed' = routed \cup {k} /\ since' = [since EXCEPT ![k] = LIFECYCLE_TTL]
      /\ routing' = [routing EXCEPT ![h] = "none"] /\ forgotten' = forgotten
  BY <1>1 DEF Returned
<1>4. /\ live \in [Events -> LifecycleRecord]
      /\ \A j \in Events : /\ Dated(live[j])
                           /\ lifecycle[j].left > 0 => live[j] = lifecycle[j]
                           /\ lifecycle[j].left = 0 => live[j] = NoEntry
  BY LiveEvents
<1> HIDE DEF live
<1>5. /\ lifecycle' \in [Events -> LifecycleRecord] /\ \A j \in Events : Dated(lifecycle'[j])
      /\ \A j \in Events : j # k => lifecycle'[j] = live[j]
  <2>1. s \in LifecycleState
    BY DEF LifecycleState
  <2>2. QED
    BY <2>1, <1>2, <1>4, ClosedTable
<1>6. TableTyped'
  <2>1. since' \in [Events -> 0 .. LIFECYCLE_TTL]
    BY <1>3, LifecycleAssumption DEF IngressInv, TableTyped
  <2>2. /\ routing' \in [Handlers -> Events \cup {"none"}]
        /\ routed' \subseteq Events /\ forgotten' \subseteq Events
    BY <1>3 DEF IngressInv, TableTyped
  <2>3. QED
    BY <2>1, <2>2, <1>5 DEF TableTyped
<1>7. \A j \in Events : lifecycle[j].left \in Nat /\ since[j] \in Nat
  BY LifecycleAssumption DEF IngressInv, TableTyped, LifecycleRecord
<1>8. \A j \in Events, g \in Handlers : routing'[g] = j <=> routing[g] = j /\ g # h
  BY <1>1, <1>3, IngressAssumption DEF IngressInv, TableTyped
<1>9. ASSUME NEW j \in Events, j # k PROVE Remembered(j)' /\ Reasoned(j)'
  <2>1. Remembered(j) /\ Reasoned(j) /\ routing[h] # j
    BY <1>1, <1>9 DEF IngressInv
  <2>2. since'[j] = since[j] /\ (j \in routed' <=> j \in routed)
    BY <1>3, <1>9 DEF IngressInv, TableTyped
  <2>3. lifecycle'[j] = lifecycle[j] \/ (lifecycle[j].left = 0 /\ lifecycle'[j] = NoEntry)
    BY <1>4, <1>5, <1>7, <1>9
  <2>4. QED
    BY <2>1, <2>2, <2>3, <1>3, <1>7, <1>8 DEF Remembered, Reasoned, NoEntry
<1>10. Remembered(k)' /\ Reasoned(k)'
  <2>1. Remembered(k) /\ Reasoned(k)
    BY <1>1 DEF IngressInv
  <2>2. k \in routed' /\ since'[k] = LIFECYCLE_TTL
    BY <1>1, <1>3 DEF IngressInv, TableTyped
  <2>3. lifecycle'[k] = live[k] \/ lifecycle'[k] = EntryIn(s)
    BY <1>1, <1>2, <1>4 DEF Closed, With
  <2>4. lifecycle'[k].left > 0 => lifecycle'[k].state # "claimed"
    BY <1>1, <1>2, <1>4 DEF Closed, With, EntryIn, Finals
  <2>5. Reasoned(k)'
    BY <2>2, <2>4 DEF Reasoned
  <2>6. Remembered(k)'
    <3>1. SUFFICES ASSUME k \notin forgotten
          PROVE  /\ \A g \in Handlers : routing'[g] # k
                 /\ lifecycle'[k].state \in Finals /\ lifecycle'[k].left >= since'[k]
      BY <1>3 DEF Remembered
    <3>2. lifecycle[k].state = "claimed" /\ lifecycle[k].left > 0
      BY <1>1, <2>1, <3>1 DEF Remembered
    <3>3. lifecycle'[k] = EntryIn(s)
      BY <1>1, <1>2, <1>4, <3>2 DEF Closed, With
    <3>4. \A g \in Handlers : routing'[g] # k
      BY <1>1, <1>8, <2>1, <3>1 DEF Remembered
    <3>5. QED
      BY <3>3, <3>4, <2>2, LifecycleAssumption DEF EntryIn
  <2>7. QED
    BY <2>5, <2>6
<1>11. QED
  BY <1>6, <1>9, <1>10 DEF IngressInv

\* The router raised: the claim is released, and nobody routes the event.
LEMMA RaisedHolds ==
  ASSUME IngressInv, NEW h \in Handlers, Raised(h)
  PROVE  IngressInv'
<1> DEFINE live == Unexpired(lifecycle)
<1>1. PICK k \in Events : routing[h] = k
  BY DEF Raised, IngressInv, TableTyped
<1>2. lifecycle' = Released(live, k)
  BY <1>1 DEF Raised
<1>3. /\ routed' = routed /\ since' = since /\ forgotten' = forgotten
      /\ routing' = [routing EXCEPT ![h] = "none"]
  BY DEF Raised
<1>4. /\ live \in [Events -> LifecycleRecord]
      /\ \A j \in Events : /\ Dated(live[j])
                           /\ lifecycle[j].left > 0 => live[j] = lifecycle[j]
                           /\ lifecycle[j].left = 0 => live[j] = NoEntry
  BY LiveEvents
<1> HIDE DEF live
<1>5. /\ lifecycle' \in [Events -> LifecycleRecord] /\ \A j \in Events : Dated(lifecycle'[j])
      /\ \A j \in Events : j # k => lifecycle'[j] = live[j]
  <2>1. "claimed" \in LifecycleState
    BY DEF LifecycleState
  <2>2. QED
    BY <2>1, <1>1, <1>2, <1>4, ClosedTable
<1>6. TableTyped'
  BY <1>1, <1>3, <1>5, LifecycleAssumption DEF IngressInv, TableTyped
<1>7. \A j \in Events : lifecycle[j].left \in Nat /\ since[j] \in Nat
  BY LifecycleAssumption DEF IngressInv, TableTyped, LifecycleRecord
<1>8. \A j \in Events, g \in Handlers : routing'[g] = j <=> routing[g] = j /\ g # h
  BY <1>1, <1>3, IngressAssumption DEF IngressInv, TableTyped
<1>9. ASSUME NEW j \in Events, j # k PROVE Remembered(j)' /\ Reasoned(j)'
  <2>1. Remembered(j) /\ Reasoned(j) /\ routing[h] # j
    BY <1>1, <1>9 DEF IngressInv
  <2>2. lifecycle'[j] = lifecycle[j] \/ (lifecycle[j].left = 0 /\ lifecycle'[j] = NoEntry)
    BY <1>4, <1>5, <1>7, <1>9
  <2>3. QED
    BY <2>1, <2>2, <1>3, <1>7, <1>8 DEF Remembered, Reasoned, NoEntry
<1>10. Remembered(k)' /\ Reasoned(k)'
  <2>1. Remembered(k) /\ Reasoned(k)
    BY <1>1 DEF IngressInv
  <2>2. \/ lifecycle'[k] = EntryIn("retryable_failure")
        \/ lifecycle'[k] = live[k] /\ live[k].state # "claimed"
    BY <1>1, <1>2, <1>4 DEF Released, With
  <2>3. Reasoned(k)'
    <3>1. CASE lifecycle'[k] = EntryIn("retryable_failure")
      BY <3>1 DEF Reasoned, EntryIn, Finals
    <3>2. CASE lifecycle'[k] = live[k] /\ live[k].state # "claimed"
      BY <1>1, <1>3, <1>4, <1>7, <2>1, <3>2 DEF Reasoned, NoEntry
    <3>3. QED
      BY <2>2, <3>1, <3>2
  <2>4. Remembered(k)'
    <3>1. SUFFICES ASSUME k \notin forgotten
          PROVE  since[k] = 0 /\ \A g \in Handlers : routing'[g] # k
      BY <1>3 DEF Remembered
    <3>2. lifecycle[k].state = "claimed" /\ \A g \in Handlers : routing[g] = k => g = h
      BY <1>1, <2>1, <3>1 DEF Remembered
    <3>3. QED
      BY <1>1, <1>7, <1>8, <2>1, <3>1, <3>2 DEF Remembered, Finals
  <2>5. QED
    BY <2>3, <2>4
<1>11. QED
  BY <1>6, <1>9, <1>10 DEF IngressInv

\* What runs out while it matters is forgotten; what has returned runs out with its record.
LEMMA TickHolds == ASSUME IngressInv, IngressTick PROVE IngressInv'
<1>1. /\ lifecycle' = Elapsed(lifecycle) /\ routing' = routing /\ routed' = routed
      /\ since' = [k \in Events |-> IF since[k] = 0 THEN 0 ELSE since[k] - 1]
      /\ forgotten' = forgotten \cup Overrun(lifecycle')
  BY DEF IngressTick
<1>2. ASSUME NEW k \in Events
      PROVE  /\ lifecycle'[k] \in LifecycleRecord /\ Dated(lifecycle'[k])
             /\ lifecycle'[k].state = lifecycle[k].state
             /\ lifecycle'[k].left = IF lifecycle[k].left = 0 THEN 0 ELSE lifecycle[k].left - 1
  <2>1. lifecycle[k] \in LifecycleRecord /\ Dated(lifecycle[k])
    BY DEF IngressInv, TableTyped
  <2>2. lifecycle'[k] = IF lifecycle[k].left = 0 THEN lifecycle[k]
                        ELSE [lifecycle[k] EXCEPT !.left = lifecycle[k].left - 1,
                                                  !.idle = lifecycle[k].idle + 1]
    BY <1>1 DEF Elapsed, IngressInv, TableTyped
  <2>3. CASE lifecycle[k].left = 0
    BY <2>1, <2>2, <2>3
  <2>4. CASE lifecycle[k].left # 0
    <3>1. lifecycle'[k] = [state |-> lifecycle[k].state, left |-> lifecycle[k].left - 1,
                           idle |-> lifecycle[k].idle + 1]
      BY <2>1, <2>2, <2>4 DEF LifecycleRecord
    <3>2. QED
      BY <3>1, <2>1, <2>4, LifecycleAssumption DEF LifecycleRecord, Dated
  <2>5. QED
    BY <2>3, <2>4
<1>3. TableTyped'
  <2>1. lifecycle' \in [Events -> LifecycleRecord]
    BY <1>1, <1>2 DEF Elapsed, IngressInv, TableTyped
  <2>2. since' \in [Events -> 0 .. LIFECYCLE_TTL]
    BY <1>1, LifecycleAssumption DEF IngressInv, TableTyped
  <2>3. forgotten' \subseteq Events
    BY <1>1 DEF Overrun, IngressInv, TableTyped
  <2>4. QED
    BY <2>1, <2>2, <2>3, <1>1, <1>2 DEF IngressInv, TableTyped
<1>4. ASSUME NEW k \in Events PROVE Remembered(k)' /\ Reasoned(k)'
  <2>1. Remembered(k) /\ Reasoned(k)
    BY DEF IngressInv
  <2>2. /\ lifecycle[k].left \in Nat /\ since[k] \in Nat
        /\ since'[k] = IF since[k] = 0 THEN 0 ELSE since[k] - 1
    BY <1>1, LifecycleAssumption DEF IngressInv, TableTyped, LifecycleRecord
  <2>3. k \notin forgotten' => lifecycle'[k].left # 0 \/ \A h \in Handlers : routing[h] # k
    BY <1>1 DEF Overrun, RoutersOf
  <2>4. Reasoned(k)'
    BY <2>1, <2>2, <1>1, <1>2 DEF Reasoned
  <2>5. Remembered(k)'
    BY <2>1, <2>2, <2>3, <1>1, <1>2 DEF Remembered
  <2>6. QED
    BY <2>4, <2>5
<1>5. QED
  BY <1>3, <1>4 DEF IngressInv

LEMMA StepHolds == IngressInv /\ [IngressNext]_ingressVars => IngressInv'
<1>1. CASE UNCHANGED ingressVars
  BY <1>1 DEF ingressVars, IngressInv, TableTyped, Remembered, Reasoned
<1>2. CASE IngressNext
  BY <1>2, DeliverHolds, ReturnedHolds, RaisedHolds, TickHolds DEF IngressNext
<1>3. QED
  BY <1>1, <1>2

LEMMA InvariantHolds == IngressSpec => []IngressInv
BY InitHolds, StepHolds, PTL DEF IngressSpec

-----------------------------------------------------------------------------
(* The bound of the table.                                                 *)

Within(m) == IsFiniteSet(Entries(m)) /\ Cardinality(Entries(m)) <= MAX_ENTRIES

\* A table whose records are among those of one within the bound is within it.
LEMMA FewerWithin ==
  ASSUME NEW m, NEW n, Within(m), Entries(n) \subseteq Entries(m)
  PROVE  Within(n)
BY FS_Subset, FS_CardinalityType, LifecycleAssumption DEF Within

\* claim adds a record, and pushes one out if that is one too many.
LEMMA ClaimsWithin ==
  ASSUME NEW S, NEW m \in [S -> LifecycleRecord], NEW k \in S, NEW n \in Claims(m, k), Within(m)
  PROVE  Within(n)
<1>1. CASE Accepts(m, k)
  <2> DEFINE c == With(m, k, EntryIn("claimed"))
  <2>1. Entries(c) = Entries(m) \cup {k}
    BY DEF Entries, With, EntryIn
  <2>2. /\ IsFiniteSet(Entries(c)) /\ Cardinality(Entries(c)) \in Nat
        /\ Cardinality(Entries(c)) <= Cardinality(Entries(m)) + 1
    <3>1. IsFiniteSet(Entries(m)) /\ Cardinality(Entries(m)) \in Nat
      BY FS_CardinalityType DEF Within
    <3>2. /\ IsFiniteSet(Entries(m) \cup {k})
          /\ Cardinality(Entries(m) \cup {k}) =
               IF k \in Entries(m) THEN Cardinality(Entries(m)) ELSE Cardinality(Entries(m)) + 1
      BY <3>1, FS_AddElement
    <3>3. /\ IsFiniteSet(Entries(c))
          /\ Cardinality(Entries(c)) = Cardinality(Entries(m) \cup {k})
      BY <2>1, <3>2, Zenon
    <3>4. QED
      BY <3>1, <3>2, <3>3
  <2>3. Cardinality(Entries(m)) \in Nat /\ Cardinality(Entries(m)) <= MAX_ENTRIES
    BY FS_CardinalityType DEF Within
  <2>4. CASE n = c /\ Cardinality(Entries(c)) <= MAX_ENTRIES
    BY <2>2, <2>4 DEF Within
  <2>5. ASSUME NEW v \in Entries(m), n = With(c, v, NoEntry) PROVE Within(n)
    <3>1. Entries(n) = Entries(c) \ {v} /\ v \in Entries(c)
      BY <2>1, <2>5 DEF Entries, With, NoEntry
    <3>2. IsFiniteSet(Entries(n)) /\ Cardinality(Entries(n)) = Cardinality(Entries(c)) - 1
      BY <3>1, <2>2, FS_RemoveElement
    <3>3. QED
      BY <3>2, <2>2, <2>3, LifecycleAssumption DEF Within
  <2>6. QED
    BY <1>1, <2>4, <2>5 DEF Claims, LeastRecent
<1>2. CASE ~ Accepts(m, k)
  <2>1. Entries(n) = Entries(m)
    BY <1>2 DEF Claims, With, Entries, LifecycleRecord
  <2>2. QED
    BY <2>1, FewerWithin
<1>3. QED
  BY <1>1, <1>2

\* Closing and releasing a record do not make one.
LEMMA ClosedWithin ==
  ASSUME NEW S, NEW m \in [S -> LifecycleRecord], NEW k, NEW s, NEW n, Within(m),
         n = Closed(m, k, s) \/ n = Released(m, k), k \in S
  PROVE  Within(n)
<1>1. Entries(n) \subseteq Entries(m)
  BY DEF Closed, Released, With, EntryIn, Entries
<1>2. QED
  BY <1>1, FewerWithin

LEMMA UnexpiredWithin ==
  ASSUME NEW S, NEW m \in [S -> LifecycleRecord], Within(m)
  PROVE  Unexpired(m) \in [S -> LifecycleRecord] /\ Within(Unexpired(m))
<1>1. Entries(Unexpired(m)) \subseteq Entries(m)
  BY DEF Unexpired, Entries, NoEntry
<1>2. Unexpired(m) \in [S -> LifecycleRecord]
  BY EntriesDated DEF Unexpired
<1>3. QED
  BY <1>1, <1>2, FewerWithin

LEMMA StepWithin ==
  IngressInv /\ Within(lifecycle) /\ [IngressNext]_ingressVars => Within(lifecycle)'
<1> SUFFICES ASSUME IngressInv, Within(lifecycle), [IngressNext]_ingressVars
             PROVE  Within(lifecycle')
  BY DEF Within, Entries
<1>1. /\ lifecycle \in [Events -> LifecycleRecord]
      /\ Unexpired(lifecycle) \in [Events -> LifecycleRecord] /\ Within(Unexpired(lifecycle))
  BY LiveEvents, UnexpiredWithin
<1>2. ASSUME NEW h \in Handlers, NEW k \in Events, Deliver(h, k) PROVE Within(lifecycle')
  <2>1. PICK m \in Claims(Unexpired(lifecycle), k) :
          lifecycle' = m \/ lifecycle' = Closed(m, k, "terminal_failure")
    BY <1>2 DEF Deliver
  <2>2. m \in [Events -> LifecycleRecord]
    BY LiveEvents, ClaimsTable
  <2>3. Within(m)
    BY <1>1, ClaimsWithin
  <2>4. QED
    BY <2>1, <2>2, <2>3, ClosedWithin
<1>3. ASSUME NEW h \in Handlers, Returned(h) PROVE Within(lifecycle')
  <2>1. routing[h] \in Events
    BY <1>3 DEF Returned, IngressInv, TableTyped
  <2>2. \E s \in Finals : lifecycle' = Closed(Unexpired(lifecycle), routing[h], s)
    BY <1>3 DEF Returned
  <2>3. QED
    BY <1>1, <2>1, <2>2, ClosedWithin
<1>4. ASSUME NEW h \in Handlers, Raised(h) PROVE Within(lifecycle')
  <2>1. routing[h] \in Events /\ lifecycle' = Released(Unexpired(lifecycle), routing[h])
    BY <1>4 DEF Raised, IngressInv, TableTyped
  <2>2. QED
    BY <1>1, <2>1, ClosedWithin
<1>5. CASE IngressTick
  <2>1. Entries(lifecycle') \subseteq Entries(lifecycle)
    <3> SUFFICES ASSUME NEW k \in Events, lifecycle'[k].state # "absent"
                 PROVE  lifecycle[k].state # "absent"
      BY <1>1, <1>5 DEF IngressTick, Elapsed, Entries
    <3> QED
      BY <1>1, <1>5 DEF IngressTick, Elapsed, LifecycleRecord
  <2>2. QED
    BY <2>1, FewerWithin
<1>6. CASE UNCHANGED ingressVars
  BY <1>6 DEF ingressVars
<1>7. QED
  BY <1>2, <1>3, <1>4, <1>5, <1>6 DEF IngressNext

-----------------------------------------------------------------------------
\* As long as the table has not forgotten an event, two deliveries never route it at
\* the same time, for any number of events and handlers (claim, release_retryable).
THEOREM RoutesOneAtATime == IngressSpec => []OneRouter
<1>1. IngressInv => OneRouter
  BY DEF IngressInv, Remembered, OneRouter, RoutersOf
<1>2. QED
  BY <1>1, InvariantHolds, PTL

\* Once the router has returned, no delivery routes the event again within the table's
\* time to live, unless the bound pushed the record out (commit_success).
THEOREM RoutedStaysRouted == IngressSpec => NoReroute
<1> DEFINE Step == \A h \in Handlers, k \in Events :
                     routing[h] # k /\ routing'[h] = k => since[k] = 0 \/ k \in forgotten'
<1>1. IngressInv /\ [IngressNext]_ingressVars => [Step]_ingressVars
  <2>1. SUFFICES ASSUME IngressInv, IngressNext, NEW h \in Handlers, NEW k \in Events,
                        routing[h] # k, routing'[h] = k
                 PROVE  since[k] = 0 \/ k \in forgotten'
    OBVIOUS
  <2>2. PICK g \in Handlers, j \in Events : Deliver(g, j)
    BY <2>1, IngressAssumption
    DEF IngressNext, Returned, Raised, IngressTick, IngressInv, TableTyped
  <2>3. j = k /\ Accepts(Unexpired(lifecycle), k)
    BY <2>1, <2>2 DEF Deliver, IngressInv, TableTyped
  <2>4. lifecycle[k].left = 0 \/ lifecycle[k].state \in {"absent", "retryable_failure"}
    BY <2>1, <2>3 DEF Accepts, Unexpired, IngressInv, TableTyped
  <2>5. since[k] \in Nat /\ Remembered(k) /\ forgotten \subseteq forgotten'
    BY <2>1, <2>2, LifecycleAssumption DEF Deliver, IngressInv, TableTyped
  <2>6. QED
    BY <2>4, <2>5, LifecycleAssumption DEF Remembered, Finals
<1>2. QED
  BY <1>1, InvariantHolds, PTL DEF IngressSpec, NoReroute

LEMMA DeliveriesReasoned == ASSUME IngressInv PROVE RefusedForReason
<1>1. SUFFICES ASSUME NEW k \in Events
               PROVE  /\ Unexpired(lifecycle)[k].state = "claimed" =>
                           RoutersOf(k) # {} \/ k \in Misshapen
                      /\ Unexpired(lifecycle)[k].state \in Finals => k \in routed \cup Malformed
  BY DEF RefusedForReason
<1>2. Unexpired(lifecycle)[k] = IF lifecycle[k].left = 0 THEN NoEntry ELSE lifecycle[k]
  BY <1>1 DEF Unexpired, IngressInv, TableTyped
<1>3. lifecycle[k].left \in Nat /\ Reasoned(k)
  BY <1>1, LifecycleAssumption DEF IngressInv, TableTyped, LifecycleRecord
<1> QED
  BY <1>2, <1>3 DEF Reasoned, NoEntry, Finals, RoutersOf

LEMMA WithinBegins == IngressInit => Within(lifecycle)
<1>1. SUFFICES ASSUME IngressInit PROVE Entries(lifecycle) = {}
  BY FS_EmptySet, LifecycleAssumption DEF Within
<1> QED
  BY <1>1 DEF IngressInit, Entries, NoEntry

LEMMA IngressWellTyped == IngressInv /\ Within(lifecycle) => IngressTypeOK
BY DEF IngressInv, TableTyped, Within, IngressTypeOK

\* No delivery is refused for nothing: a claim has its router or is one of a payload that
\* cannot be read, and what is closed was routed or names no user (claim's duplicate codes).
THEOREM RefusesForReason == IngressSpec => []RefusedForReason
BY DeliveriesReasoned, InvariantHolds, PTL

\* The table is well formed and keeps its bound, whatever is delivered and claimed
\* (_enforce_cap_locked).
THEOREM IngressTyped == IngressSpec => []IngressTypeOK
<1>1. IngressSpec => []Within(lifecycle)
  BY WithinBegins, InvariantHolds, StepWithin, PTL DEF IngressSpec
<1> QED
  BY <1>1, IngressWellTyped, InvariantHolds, PTL

-----------------------------------------------------------------------------
(* The installation: a token that Slack accepts belongs to an entry that   *)
(* resolves, in memory and in the file, unless something else is to blame. *)

Good(e) == e.status \in {"active", "rotating"} /\ e.healthy
PostRecord == [at : {"idle", "sent", "answered"}, token : Token,
               verdict : {"ok", "invalid", "forbidden", "trouble"}]

InstallTyped ==
  /\ granted \in Nat /\ given \in Nat /\ secret \in Nat /\ granted <= given /\ secret <= given
  /\ given <= LAST_TOKEN
  /\ inst \in Entry /\ kept \in Entry
  /\ oauth \subseteq InstallStates /\ oauthFile \subseteq InstallStates
  /\ callback \in [InstallStates -> {"none", "exchange"}]
  /\ finished \in [InstallStates -> {0, 1}]
  /\ post \in [Posts -> PostRecord]
  /\ blamed \in BOOLEAN /\ cuts \in 0 .. CUTS

\* A flow is in one of the stages issued, exchanging and finished.
Once(s) ==
  /\ s \in oauth \cup oauthFile \/ callback[s] = "exchange" => finished[s] = 0
  /\ callback[s] = "exchange" => s \notin oauth \cup oauthFile

\* What Slack has told, or refused, is about a token that it no longer accepts.
FormerTokens ==
  /\ \A n \in notices : n.of \in 1 .. given /\ n.of # granted
  /\ \A p \in Posts :
       /\ post[p].at # "idle" => post[p].token \in 1 .. given
       /\ post[p].at = "answered" /\ post[p].verdict = "invalid" => post[p].token # granted

Belongs == secret # 0 /\ secret = granted => blamed \/ (Good(inst) /\ Good(kept))

InstallInv ==
  /\ InstallTyped /\ FormerTokens /\ Belongs
  /\ \A s \in InstallStates : Once(s)

LEMMA InstallBegins == InstallInit => InstallInv
<1> SUFFICES ASSUME InstallInit PROVE InstallInv
  OBVIOUS
<1>1. /\ granted = 0 /\ given = 0 /\ secret = 0 /\ inst = Absent /\ kept = Absent /\ oauth = {} /\ oauthFile = {}
      /\ callback = [s \in InstallStates |-> "none"] /\ finished = [s \in InstallStates |-> 0]
      /\ post = [p \in Posts |-> NoPost] /\ notices = {} /\ blamed = FALSE /\ cuts = 0
  BY DEF InstallInit
<1>2. Absent \in Entry /\ NoPost \in PostRecord /\ NoPost.at = "idle"
  BY InstallationsAssumption DEF Absent, Entry, Status, NoPost, PostRecord, Token
<1>3. InstallTyped
  <2>1. /\ callback \in [InstallStates -> {"none", "exchange"}]
        /\ finished \in [InstallStates -> {0, 1}] /\ post \in [Posts -> PostRecord]
    BY <1>1, <1>2
  <2>2. granted \in Nat /\ given \in Nat /\ secret \in Nat /\ granted <= given /\ secret <= given
        /\ given <= LAST_TOKEN /\ cuts \in 0 .. CUTS
    BY <1>1, InstallationsAssumption
  <2>3. blamed \in BOOLEAN /\ inst \in Entry /\ kept \in Entry /\ oauth \subseteq InstallStates /\ oauthFile \subseteq InstallStates
    BY <1>1, <1>2
  <2> QED
    BY <2>1, <2>2, <2>3 DEF InstallTyped
<1>4. FormerTokens /\ Belongs /\ \A s \in InstallStates : Once(s)
  BY <1>1, <1>2 DEF FormerTokens, Belongs, Once
<1> QED
  BY <1>3, <1>4 DEF InstallInv

\* The steps of the flows that change neither token nor entry.
LEMMA FlowsKeep ==
  ASSUME InstallInv, NEW s \in InstallStates,
         IssueState(s) \/ StateExpires(s) \/ ConsumeRaises(s) \/ OAuthCallback(s) \/ ExchangeFails(s)
  PROVE  InstallInv'
<1>1. UNCHANGED <<granted, given, secret, inst, kept, finished, post, notices, blamed>>
  BY DEF IssueState, StateExpires, ConsumeRaises, OAuthCallback, ExchangeFails
<1>2. InstallTyped'
  <2>1. oauth' \subseteq InstallStates /\ oauthFile' \subseteq InstallStates
        /\ callback' \in [InstallStates -> {"none", "exchange"}] /\ cuts' \in 0 .. CUTS
    BY InstallationsAssumption
    DEF InstallInv, InstallTyped, IssueState, StateExpires, ConsumeRaises, OAuthCallback, ExchangeFails, ConsumeState
  <2> QED
    BY <1>1, <2>1 DEF InstallInv, InstallTyped
<1>3. FormerTokens' /\ Belongs'
  BY <1>1 DEF InstallInv, FormerTokens, Belongs
<1>4. ASSUME NEW t \in InstallStates PROVE Once(t)'
  BY <1>1 DEF InstallInv, InstallTyped, Once, IssueState, StateExpires, ConsumeRaises, OAuthCallback, ExchangeFails,
              ConsumeState, LoopFree
<1> QED
  BY <1>2, <1>3, <1>4 DEF InstallInv

\* What the steps of an installation leave.
LEMMA InstallStepsLead ==
  ASSUME InstallInv, NEW t \in Nat
  PROVE  LET steps == InstallSteps(t) IN
         /\ Len(steps) \in Nat \ {0}
         /\ steps[Len(steps)] = [token |-> t, entry |-> [status |-> "active", healthy |-> TRUE]]
         /\ \A i \in 1 .. Len(steps) : steps[i].token \in {secret, t} /\ steps[i].entry \in Entry
<1> DEFINE a == [token |-> secret, entry |-> inst]
           b == [token |-> t, entry |-> inst]
           c == [token |-> t, entry |-> [inst EXCEPT !.status = "rotating"]]
           d(new) == [token |-> t, entry |-> [status |-> new, healthy |-> TRUE]]
           e == [token |-> t, entry |-> [status |-> "active", healthy |-> TRUE]]
           S == [token : {secret, t}, entry : Entry]
<1>1. inst \in Entry
  BY DEF InstallInv, InstallTyped
<1>2. /\ a.token = secret /\ a.entry \in Entry /\ b.token = t /\ b.entry \in Entry
      /\ c.token = t /\ c.entry \in Entry /\ e.token = t /\ e.entry \in Entry
      /\ \A new \in Status : d(new).token = t /\ d(new).entry \in Entry
  BY <1>1 DEF Entry, Status
<1> HIDE DEF S
<1>3. ASSUME NEW p, NEW q, NEW x, p \in Seq(S), q \in Seq(S), x \in S
      PROVE  /\ Len(<<x>> \o p \o q) = 1 + Len(p) + Len(q)
             /\ Len(q) # 0 => (<<x>> \o p \o q)[1 + Len(p) + Len(q)] = q[Len(q)]
             /\ <<x>> \o p \o q \in Seq(S)
  <2> DEFINE l == <<x>> \o p
  <2>1. <<x>> \in Seq(S) /\ Len(<<x>>) = 1
    BY <1>3
  <2>2. l \in Seq(S) /\ Len(l) = 1 + Len(p)
    BY <1>3, <2>1, ConcatProperties
  <2> HIDE DEF l
  <2>3. Len(p) \in Nat /\ Len(q) \in Nat
    BY <1>3, LenProperties
  <2>4. /\ l \o q \in Seq(S) /\ Len(l \o q) = Len(l) + Len(q)
        /\ \A k \in 1 .. Len(l) + Len(q) : (l \o q)[k] = IF k <= Len(l) THEN l[k] ELSE q[k - Len(l)]
    <3>1. \A f, g \in Seq(S) :
            /\ f \o g \in Seq(S) /\ Len(f \o g) = Len(f) + Len(g)
            /\ \A k \in 1 .. Len(f) + Len(g) :
                 (f \o g)[k] = IF k <= Len(f) THEN f[k] ELSE g[k - Len(f)]
      BY ConcatProperties
    <3> QED
      BY <1>3, <2>2, <3>1
  <2>5. Len(q) # 0 => (l \o q)[1 + Len(p) + Len(q)] = q[Len(q)]
    BY <2>2, <2>3, <2>4
  <2> QED
    BY <2>2, <2>3, <2>4, <2>5 DEF l
<1>4. PICK new \in {"created", "rotating"}, p \in {<<>>, <<b, c>>} : InstallSteps(t) = <<a>> \o p \o <<d(new), e>>
  BY DEF InstallSteps
<1> DEFINE f == d(new)
<1>5. f.token = t /\ f.entry \in Entry
  BY <1>2 DEF Status
<1>6. a \in S /\ b \in S /\ c \in S /\ f \in S /\ e \in S
  BY <1>2, <1>5 DEF S
<1> HIDE DEF a, b, c, d, f
<1>7. p \in Seq(S) /\ Len(p) \in Nat
  <2>1. <<>> \in Seq(S) /\ <<b, c>> \in Seq(S)
    BY <1>6, EmptySeq
  <2> QED
    BY <1>4, <2>1, LenProperties
<1> DEFINE q == <<f, e>>
<1>8. q \in Seq(S) /\ Len(q) = 2 /\ q[2] = e
  BY <1>6
<1>9. InstallSteps(t) = <<a>> \o p \o q
  BY <1>4 DEF f
<1> HIDE DEF q, e
<1> DEFINE l == InstallSteps(t)
<1>10. Len(l) = 3 + Len(p) /\ l[3 + Len(p)] = e /\ l \in Seq(S)
  <2>1. /\ Len(<<a>> \o p \o q) = 1 + Len(p) + Len(q)
        /\ Len(q) # 0 => (<<a>> \o p \o q)[1 + Len(p) + Len(q)] = q[Len(q)]
        /\ <<a>> \o p \o q \in Seq(S)
    BY <1>3, <1>6, <1>7, <1>8
  <2>2. 1 + Len(p) + Len(q) = 3 + Len(p) /\ Len(q) # 0
    BY <1>7, <1>8
  <2> QED
    BY <1>8, <1>9, <2>1, <2>2
<1>11. \A k \in 1 .. Len(l) : l[k] \in S
  BY <1>10, ElementOfSeq
<1> HIDE DEF l
<1>12. Len(l) \in Nat \ {0} /\ l[Len(l)] = e
  BY <1>7, <1>10
<1>13. \A k \in 1 .. Len(l) : l[k].token \in {secret, t} /\ l[k].entry \in Entry
  BY <1>11 DEF S
<1> QED
  BY <1>12, <1>13 DEF l, e

LEMMA InstallKeeps ==
  ASSUME InstallInv, NEW s \in InstallStates, Install(s)
  PROVE  InstallInv'
<1>1. callback[s] = "exchange" /\ given < LAST_TOKEN /\ given' = given + 1 /\ granted' = given + 1
      /\ callback' = [callback EXCEPT ![s] = "none"] /\ UNCHANGED <<oauth, oauthFile, post>>
      /\ notices' \in {notices, notices \cup (IF granted = 0 THEN {} ELSE {[kind |-> "revoked", of |-> granted]})}
  BY DEF Install
<1>2. given \in Nat /\ granted \in Nat /\ secret \in Nat /\ granted <= given /\ secret <= given /\ cuts \in 0 .. CUTS
  BY DEF InstallInv, InstallTyped
<1> DEFINE t == given + 1
           steps == InstallSteps(t)
           n == Len(steps)
<1>3. /\ n \in Nat \ {0}
      /\ steps[n] = [token |-> t, entry |-> [status |-> "active", healthy |-> TRUE]]
      /\ \A i \in 1 .. n : steps[i].token \in {secret, t} /\ steps[i].entry \in Entry
  BY <1>2, InstallStepsLead
<1>4. \/ /\ Runs(steps) /\ blamed' = FALSE /\ UNCHANGED cuts /\ finished' = [finished EXCEPT ![s] = finished[s] + 1]
      \/ IsCutOff(steps) /\ blamed' = TRUE /\ UNCHANGED finished
  BY <1>1 DEF Install
<1> HIDE DEF steps, t
<1>5. /\ secret' \in {secret, t} /\ inst' \in Entry /\ kept' \in Entry /\ blamed' \in BOOLEAN
      /\ cuts' \in 0 .. CUTS
      /\ blamed' \/ (Good(inst') /\ Good(kept'))
      /\ finished' = finished \/ finished' = [finished EXCEPT ![s] = finished[s] + 1]
  <2>1. CASE Runs(steps) /\ blamed' = FALSE /\ UNCHANGED cuts
    <3>1. n \in 1 .. n /\ inst' = steps[n].entry /\ kept' = steps[n].entry /\ secret' = steps[n].token
      BY <1>3, <2>1 DEF Runs
    <3>2. steps[n].entry.status = "active" /\ steps[n].entry.healthy
      BY <1>3
    <3> QED
      BY <1>2, <1>3, <1>4, <2>1, <3>1, <3>2 DEF Good
  <2>2. CASE IsCutOff(steps) /\ blamed' = TRUE
    <3>1. PICK i \in 1 .. n - 1 :
            kept' = steps[i].entry /\ secret' = steps[i + 1].token /\ inst' = steps[i + 1].entry
      BY <2>2 DEF IsCutOff
    <3>2. i \in 1 .. n /\ i + 1 \in 1 .. n
      BY <1>3
    <3>3. cuts' \in 0 .. CUTS
      BY <1>2, <2>2, InstallationsAssumption DEF IsCutOff
    <3> QED
      BY <1>3, <1>4, <2>2, <3>1, <3>2, <3>3
  <2> QED
    BY <1>4, <2>1, <2>2
<1>6. finished[s] = 0 /\ s \notin oauth \cup oauthFile
  BY <1>1 DEF InstallInv, Once
<1>7. InstallTyped'
  <2>1. finished' \in [InstallStates -> {0, 1}] /\ callback' \in [InstallStates -> {"none", "exchange"}]
    BY <1>1, <1>5, <1>6 DEF InstallInv, InstallTyped
  <2>2. given' \in Nat /\ granted' \in Nat /\ secret' \in Nat /\ granted' <= given' /\ secret' <= given' /\ given' <= LAST_TOKEN
    BY <1>1, <1>2, <1>5, InstallationsAssumption DEF t
  <2> QED
    BY <1>1, <1>5, <2>1, <2>2 DEF InstallInv, InstallTyped
<1>8. FormerTokens'
  <2>1. ASSUME NEW m \in notices' PROVE m.of \in 1 .. given' /\ m.of # granted'
    <3>1. m \in notices \/ (granted # 0 /\ m = [kind |-> "revoked", of |-> granted])
      BY <1>1
    <3>2. m \in notices => m.of \in 1 .. given
      BY DEF InstallInv, FormerTokens
    <3> QED
      BY <1>1, <1>2, <3>1, <3>2
  <2>2. ASSUME NEW p \in Posts
        PROVE  post[p].at # "idle" => post[p].token \in 1 .. given' /\ post[p].token # granted'
    BY <1>1, <1>2 DEF InstallInv, FormerTokens
  <2> QED
    BY <1>1, <2>1, <2>2 DEF FormerTokens
<1>9. Belongs'
  BY <1>5 DEF Belongs, Good
<1>10. ASSUME NEW r \in InstallStates PROVE Once(r)'
  <2>1. CASE r = s
    BY <1>1, <1>6, <2>1 DEF InstallInv, InstallTyped, Once
  <2>2. CASE r # s
    <3>1. callback'[r] = callback[r] /\ finished'[r] = finished[r]
      BY <1>1, <1>5, <2>2 DEF InstallInv, InstallTyped
    <3> QED
      BY <1>1, <3>1 DEF InstallInv, Once
  <2> QED
    BY <2>1, <2>2
<1> QED
  BY <1>7, <1>8, <1>9, <1>10 DEF InstallInv

\* A change of the health alone, and who is to blame for it.
LEMMA HealthKeeps ==
  ASSUME InstallInv, NEW h \in BOOLEAN, SetHealth(h), blamed' \in BOOLEAN, blamed => blamed',
         secret # 0 /\ secret = granted => h \/ blamed',
         UNCHANGED <<granted, given, secret, oauth, oauthFile, callback, finished, cuts>>,
         FormerTokens', post' \in [Posts -> PostRecord]
  PROVE  InstallInv'
<1>1. inst \in Entry /\ kept \in Entry
  BY DEF InstallInv, InstallTyped
<1>2. \/ inst' = inst /\ kept' = kept
      \/ inst' = [inst EXCEPT !.healthy = h] /\ kept' = inst'
  BY DEF SetHealth, Save
<1>3. inst' \in Entry /\ kept' \in Entry
  BY <1>1, <1>2 DEF Entry
<1>4. Good(inst) /\ Good(kept) /\ h => Good(inst') /\ Good(kept')
  BY <1>1, <1>2 DEF Good, Entry
<1>6. InstallTyped'
  BY <1>3 DEF InstallInv, InstallTyped
<1>7. Belongs'
  BY <1>4 DEF InstallInv, Belongs
<1>8. \A s \in InstallStates : Once(s)'
  BY DEF InstallInv, Once
<1> QED
  BY <1>6, <1>7, <1>8 DEF InstallInv

LEMMA SlackRefuses ==
  ASSUME InstallInv, NEW n \in notices, NEW h \in BOOLEAN, SetHealth(h),
         blamed' = (blamed \/ n.of # secret), notices' \subseteq notices,
         UNCHANGED <<granted, given, secret, oauth, oauthFile, callback, finished, post, cuts>>
  PROVE  InstallInv'
<1>1. n.of # granted
  BY DEF InstallInv, FormerTokens
<1>2. FormerTokens' /\ post' \in [Posts -> PostRecord] /\ blamed' \in BOOLEAN
  BY DEF InstallInv, InstallTyped, FormerTokens
<1> QED
  BY <1>1, <1>2, HealthKeeps

LEMMA PostsKeep ==
  ASSUME InstallInv, NEW p \in Posts, SendPost(p) \/ SlackAnswers(p) \/ TakeAnswer(p) \/ PostLost(p)
  PROVE  InstallInv'
<1>0. NoPost \in PostRecord /\ NoPost.at = "idle"
  BY InstallationsAssumption DEF NoPost, PostRecord, Token
<1>1. /\ granted \in Nat /\ given \in Nat /\ secret \in Nat /\ granted <= given /\ secret <= given
      /\ given <= LAST_TOKEN /\ post \in [Posts -> PostRecord] /\ post[p] \in PostRecord /\ inst \in Entry /\ kept \in Entry
  BY DEF InstallInv, InstallTyped
<1>2. CASE SendPost(p)
  <2> DEFINE x == [at |-> "sent", token |-> secret, verdict |-> "ok"]
  <2>1. post' = [post EXCEPT ![p] = x] /\ inst' = inst /\ kept' = inst /\ secret # 0
        /\ UNCHANGED <<granted, given, secret, oauth, oauthFile, callback, finished, notices, blamed, cuts>>
    BY <1>2 DEF SendPost, Save, Resolves
  <2>2. x \in PostRecord /\ x.at = "sent" /\ x.token \in 1 .. given
    BY <1>1, <2>1, InstallationsAssumption DEF PostRecord, Token
  <2> HIDE DEF x
  <2>3. InstallTyped'
    BY <1>1, <2>1, <2>2 DEF InstallInv, InstallTyped
  <2>4. FormerTokens'
    BY <1>1, <2>1, <2>2 DEF InstallInv, FormerTokens
  <2>5. Belongs' /\ \A s \in InstallStates : Once(s)'
    BY <2>1 DEF InstallInv, Belongs, Once
  <2> QED
    BY <2>3, <2>4, <2>5 DEF InstallInv
<1>3. CASE SlackAnswers(p)
  <2>1. PICK v \in {"ok", "invalid", "forbidden", "trouble"} :
          /\ v = "invalid" => post[p].token # granted
          /\ post' = [post EXCEPT ![p].at = "answered", ![p].verdict = v]
    BY <1>3 DEF SlackAnswers
  <2>2. post[p].at = "sent"
        /\ UNCHANGED <<granted, given, secret, inst, kept, oauth, oauthFile, callback, finished, notices, blamed, cuts>>
    BY <1>3 DEF SlackAnswers
  <2> DEFINE x == [post[p] EXCEPT !.at = "answered"]
             y == [x EXCEPT !.verdict = v]
  <2>3. post' = [post EXCEPT ![p] = y]
    BY <1>1, <2>1
  <2>4. x \in PostRecord /\ x.at = "answered" /\ x.token = post[p].token
    BY <1>1 DEF PostRecord
  <2> HIDE DEF x
  <2>5. y \in PostRecord /\ y.at = "answered" /\ y.token = post[p].token /\ y.verdict = v
    BY <2>4 DEF PostRecord
  <2> HIDE DEF y
  <2>6. InstallTyped'
    BY <1>1, <2>2, <2>3, <2>5 DEF InstallInv, InstallTyped
  <2>7. FormerTokens'
    BY <1>1, <2>1, <2>2, <2>3, <2>5 DEF InstallInv, FormerTokens
  <2>8. Belongs' /\ \A s \in InstallStates : Once(s)'
    BY <2>2 DEF InstallInv, Belongs, Once
  <2> QED
    BY <2>6, <2>7, <2>8 DEF InstallInv
<1>4. CASE TakeAnswer(p)
  <2>1. /\ SetHealth(post[p].verdict \notin {"invalid", "forbidden"}) /\ post[p].at = "answered"
        /\ blamed' = (blamed \/ post[p].verdict = "forbidden" \/ (post[p].verdict = "invalid" /\ post[p].token # secret))
        /\ post' = [post EXCEPT ![p] = NoPost]
        /\ UNCHANGED <<granted, given, secret, oauth, oauthFile, callback, finished, notices, cuts>>
    BY <1>4 DEF TakeAnswer, HealthAfter
  <2>2. post[p].verdict = "invalid" => post[p].token # granted
    BY <2>1 DEF InstallInv, FormerTokens
  <2>3. FormerTokens' /\ post' \in [Posts -> PostRecord] /\ blamed' \in BOOLEAN
    BY <1>0, <1>1, <2>1 DEF InstallInv, InstallTyped, FormerTokens
  <2> DEFINE h == post[p].verdict \notin {"invalid", "forbidden"}
  <2>4. h \in BOOLEAN /\ SetHealth(h) /\ (secret # 0 /\ secret = granted => h \/ blamed')
    BY <2>1, <2>2
  <2>5. (blamed => blamed') /\ UNCHANGED <<granted, given, secret, oauth, oauthFile, callback, finished, cuts>>
    BY <2>1
  <2> HIDE DEF h
  <2> QED
    BY <2>3, <2>4, <2>5, HealthKeeps
<1>5. CASE PostLost(p)
  <2>1. post' = [post EXCEPT ![p] = NoPost]
        /\ UNCHANGED <<granted, given, secret, inst, kept, oauth, oauthFile, callback, finished, notices, blamed, cuts>>
    BY <1>5 DEF PostLost
  <2>2. InstallTyped' /\ FormerTokens'
    BY <1>0, <1>1, <2>1 DEF InstallInv, InstallTyped, FormerTokens
  <2>3. Belongs' /\ \A s \in InstallStates : Once(s)'
    BY <2>1 DEF InstallInv, Belongs, Once
  <2> QED
    BY <2>2, <2>3 DEF InstallInv
<1> QED
  BY <1>2, <1>3, <1>4, <1>5

LEMMA SlackKeeps ==
  ASSUME InstallInv, Remove \/ TokensRevoked \/ AppRateLimited
  PROVE  InstallInv'
<1>1. CASE Remove
  <2>1. granted # 0 /\ granted' = 0
        /\ UNCHANGED <<given, secret, inst, kept, oauth, oauthFile, callback, finished, post, blamed, cuts>>
    BY <1>1 DEF Remove
  <2>2. \A n \in notices' : n \in notices \/ n.of = granted
    BY <1>1 DEF Remove
  <2>3. granted \in Nat /\ granted <= given /\ given \in Nat
    BY DEF InstallInv, InstallTyped
  <2>4. InstallTyped'
    BY <2>1, <2>3 DEF InstallInv, InstallTyped
  <2>5. \A n \in notices' : n.of \in 1 .. given
    BY <2>1, <2>2, <2>3 DEF InstallInv, FormerTokens
  <2>6. FormerTokens'
    BY <2>1, <2>5 DEF InstallInv, FormerTokens
  <2>7. Belongs' /\ \A s \in InstallStates : Once(s)'
    BY <2>1 DEF InstallInv, Belongs, Once
  <2> QED
    BY <2>4, <2>6, <2>7 DEF InstallInv
<1>2. CASE TokensRevoked
  <2>1. PICK n \in notices :
          /\ SetHealth(FALSE) /\ blamed' = (blamed \/ n.of # secret) /\ notices' \subseteq notices
          /\ UNCHANGED <<granted, given, secret, oauth, oauthFile, callback, finished, post, cuts>>
    BY <1>2 DEF TokensRevoked, Taken
  <2> QED
    BY <2>1, SlackRefuses
<1>3. CASE AppRateLimited
  <2>1. SetHealth(TRUE) /\ blamed' = blamed
        /\ UNCHANGED <<granted, given, secret, oauth, oauthFile, callback, finished, post, notices, cuts>>
    BY <1>3 DEF AppRateLimited
  <2>2. FormerTokens' /\ post' \in [Posts -> PostRecord] /\ blamed' \in BOOLEAN
    BY <2>1 DEF InstallInv, InstallTyped, FormerTokens
  <2> QED
    BY <2>1, <2>2, HealthKeeps
<1> QED
  BY <1>1, <1>2, <1>3

\* An uninstallation leaves no token, or is cut off before it is gone; either way
\* it is about a former token.
LEMMA UninstallKeeps ==
  ASSUME InstallInv, AppUninstalled
  PROVE  InstallInv'
<1>1. PICK n \in notices :
        /\ notices' \subseteq notices /\ blamed' = (blamed \/ n.of # secret)
        /\ IF inst.status = "none" THEN UNCHANGED <<secret, inst, kept, cuts>>
           ELSE \/ Runs(UninstallSteps) /\ UNCHANGED cuts
                \/ IsCutOff(UninstallSteps)
        /\ UNCHANGED <<granted, given, oauth, oauthFile, callback, finished, post>>
  BY DEF AppUninstalled, Taken
<1>2. n.of # granted /\ inst \in Entry /\ kept \in Entry /\ secret \in Nat /\ cuts \in 0 .. CUTS
  BY DEF InstallInv, InstallTyped, FormerTokens
<1> DEFINE refused == [inst EXCEPT !.healthy = FALSE]
           gone == [refused EXCEPT !.status = "uninstalled"]
           a == [token |-> secret, entry |-> inst]
           b == [token |-> secret, entry |-> refused]
           c == [token |-> 0, entry |-> refused]
           d == [token |-> 0, entry |-> gone]
<1>3. UninstallSteps = <<a, b, c, d>>
  BY DEF UninstallSteps
<1>4. refused \in Entry
  BY <1>2 DEF Entry
<1> HIDE DEF refused
<1>5. gone \in Entry
  BY <1>4 DEF Entry, Status
<1> HIDE DEF gone
<1>6. /\ a.token = secret /\ a.entry \in Entry /\ b.token = secret /\ b.entry \in Entry
      /\ c.token = 0 /\ c.entry \in Entry /\ d.token = 0 /\ d.entry \in Entry
  BY <1>2, <1>4, <1>5
<1> HIDE DEF a, b, c, d
<1> DEFINE l == <<a, b, c, d>>
<1>7. Len(l) = 4 /\ l[1] = a /\ l[2] = b /\ l[3] = c /\ l[4] = d
  OBVIOUS
<1> HIDE DEF l
<1>8. \A i \in 1 .. 4 : l[i].token \in {secret, 0} /\ l[i].entry \in Entry
  <2>1. \A i \in 1 .. 4 : i = 1 \/ i = 2 \/ i = 3 \/ i = 4
    OBVIOUS
  <2> QED
    BY <1>6, <1>7, <2>1
<1>9. secret' \in {secret, 0} /\ inst' \in Entry /\ kept' \in Entry /\ cuts' \in 0 .. CUTS
  <2>1. CASE UNCHANGED <<secret, inst, kept, cuts>>
    BY <1>2, <2>1
  <2>2. CASE Runs(l) /\ UNCHANGED cuts
    <3>1. inst' = d.entry /\ kept' = d.entry /\ secret' = d.token
      BY <1>7, <2>2 DEF Runs
    <3> QED
      BY <1>2, <1>6, <2>2, <3>1
  <2>3. CASE IsCutOff(l)
    <3>1. PICK i \in 1 .. Len(l) - 1 :
            kept' = l[i].entry /\ secret' = l[i + 1].token /\ inst' = l[i + 1].entry
      BY <2>3 DEF IsCutOff
    <3>2. i \in 1 .. 4 /\ i + 1 \in 1 .. 4
      BY <1>7
    <3>3. cuts' \in 0 .. CUTS
      BY <1>2, <2>3, InstallationsAssumption DEF IsCutOff
    <3> QED
      BY <1>2, <1>8, <3>1, <3>2, <3>3
  <2>4. UninstallSteps = l
    BY <1>3 DEF l
  <2> QED
    BY <1>1, <2>1, <2>2, <2>3, <2>4
<1>10. InstallTyped'
  BY <1>1, <1>2, <1>9 DEF InstallInv, InstallTyped
<1>11. FormerTokens' /\ \A s \in InstallStates : Once(s)'
  BY <1>1 DEF InstallInv, FormerTokens, Once
<1>12. Belongs'
  <2> SUFFICES ASSUME secret' # 0, secret' = granted' PROVE blamed'
    BY DEF Belongs
  <2>1. secret' = secret /\ secret = granted
    BY <1>1, <1>9
  <2> QED
    BY <1>1, <1>2, <2>1
<1> QED
  BY <1>10, <1>11, <1>12 DEF InstallInv

LEMMA ConnectorRestarts ==
  ASSUME InstallInv, ConnectorStops
  PROVE  InstallInv'
<1>0. NoPost \in PostRecord /\ NoPost.at = "idle"
  BY InstallationsAssumption DEF NoPost, PostRecord, Token
<1>1. /\ inst' = kept /\ oauth' = oauthFile /\ callback' = [s \in InstallStates |-> "none"]
      /\ post' = [p \in Posts |-> NoPost] /\ cuts < CUTS /\ cuts' = cuts + 1
      /\ UNCHANGED <<granted, given, secret, kept, oauthFile, finished, notices, blamed>>
  BY DEF ConnectorStops
<1>2. InstallTyped'
  <2>1. post' \in [Posts -> PostRecord] /\ callback' \in [InstallStates -> {"none", "exchange"}]
    BY <1>0, <1>1
  <2>2. cuts' \in 0 .. CUTS
    BY <1>1, InstallationsAssumption DEF InstallInv, InstallTyped
  <2> QED
    BY <1>1, <2>1, <2>2 DEF InstallInv, InstallTyped
<1>3. FormerTokens'
  <2>1. \A p \in Posts : post'[p].at = "idle"
    BY <1>0, <1>1
  <2> QED
    BY <1>1, <2>1 DEF InstallInv, FormerTokens
<1>4. Belongs' /\ \A s \in InstallStates : Once(s)'
  BY <1>1 DEF InstallInv, Belongs, Once
<1> QED
  BY <1>2, <1>3, <1>4 DEF InstallInv

LEMMA InstallationStep == InstallInv /\ [InstallNext]_installVars => InstallInv'
<1> SUFFICES ASSUME InstallInv, [InstallNext]_installVars PROVE InstallInv'
  OBVIOUS
<1>1. CASE UNCHANGED installVars
  BY <1>1 DEF InstallInv, InstallTyped, FormerTokens, Belongs, Once, installVars
<1>2. ASSUME NEW s \in InstallStates,
             \/ IssueState(s) \/ StateExpires(s) \/ ConsumeRaises(s) \/ OAuthCallback(s)
             \/ Install(s) \/ ExchangeFails(s)
      PROVE  InstallInv'
  BY <1>2, FlowsKeep, InstallKeeps
<1>3. ASSUME NEW p \in Posts, SendPost(p) \/ SlackAnswers(p) \/ TakeAnswer(p) \/ PostLost(p)
      PROVE  InstallInv'
  BY <1>3, PostsKeep
<1>4. CASE Remove \/ TokensRevoked \/ AppRateLimited
  BY <1>4, SlackKeeps
<1>5. CASE AppUninstalled
  BY <1>5, UninstallKeeps
<1>6. CASE ConnectorStops
  BY <1>6, ConnectorRestarts
<1> QED
  BY <1>1, <1>2, <1>3, <1>4, <1>5, <1>6 DEF InstallNext

LEMMA InstallAlways == InstallSpec => []InstallInv
BY InstallBegins, InstallationStep, PTL DEF InstallSpec

LEMMA InstallationsHeld == ASSUME InstallInv PROVE InstallationsSound
<1>1. secret # 0 /\ secret = granted /\ ~ Resolves => blamed
  BY DEF InstallInv, Belongs, Good, Resolves
<1>2. \A s \in InstallStates : finished[s] <= 1
  BY DEF InstallInv, InstallTyped
<1> QED
  BY <1>1, <1>2 DEF InstallationsSound

\* An installation whose token Slack accepts is refused (resolve_installation) only
\* after a message about a former token came late, a call was answered 401 or 403, or its
\* own installation was cut off, however callbacks, posts, notices and restarts meet; and an OAuth state is consumed
\* for one installation at most ("Invalid or replayed OAuth state").
THEOREM InstallationsAreSound == InstallSpec => []InstallationsSound
BY InstallationsHeld, InstallAlways, PTL

-----------------------------------------------------------------------------
(* Buttons: the callback record and the window of the timestamp keep an    *)
(* action from running twice, whatever the replay table has forgotten.     *)

CallbackTyped ==
  /\ cardAge \in [Buttons -> 0 .. DRIFT + 1]
  /\ requests \in [Buttons -> LifecycleRecord] /\ \A b \in Buttons : Dated(requests[b])
  /\ callbacks \in [Buttons -> CallbackRecord]
  /\ serving \in [Clicks -> Buttons \cup {"none"}]
  /\ completed \in [Buttons -> Nat]
  /\ failedFor \subseteq Buttons /\ raised \subseteq Buttons

\* A record is not older than the card, as far as the window tells.
Signed(b) == callbacks[b].age <= cardAge[b] \/ ~ InTime(b)

\* While its button can be clicked, an action that runs or has run has a record
\* that keeps it from running again.
Guarded(b) ==
  /\ completed[b] + Cardinality(Served(b)) <= 1
  /\ InTime(b) /\ completed[b] + Cardinality(Served(b)) = 1 => callbacks[b].state \in {"acknowledged", "delivered"}
  /\ callbacks[b].state = "delivered" => completed[b] > 0

\* What the replay table refuses has a reason, and what it lets in again can run.
Answers(b) ==
  /\ requests[b].state = "claimed" => Served(b) # {} \/ b \in raised
  /\ requests[b].state \in Finals => completed[b] > 0 \/ b \in failedFor
  /\ requests[b].state = "retryable_failure" =>
       Served(b) = {} /\ callbacks[b].state \notin {"acknowledged", "delivered"}

CallbackInv ==
  /\ CallbackTyped /\ Within(requests)
  /\ \A b \in Buttons : Signed(b) /\ Guarded(b) /\ Answers(b)

LEMMA CallbackParts ==
  ASSUME CallbackInv
  PROVE  /\ CallbackTyped /\ Within(requests)
         /\ requests \in [Buttons -> LifecycleRecord] /\ \A b \in Buttons : Dated(requests[b])
         /\ callbacks \in [Buttons -> CallbackRecord] /\ serving \in [Clicks -> Buttons \cup {"none"}]
         /\ \A b \in Buttons : /\ Signed(b) /\ Guarded(b) /\ Answers(b)
                               /\ cardAge[b] \in 0 .. DRIFT + 1 /\ callbacks[b] \in CallbackRecord
                               /\ completed[b] \in Nat
<1> QED
  BY DEF CallbackInv, CallbackTyped

LEMMA ClicksServing ==
  ASSUME NEW b \in Buttons PROVE IsFiniteSet(Served(b)) /\ Cardinality(Served(b)) \in Nat /\ (Cardinality(Served(b)) = 0 <=> Served(b) = {})
<1>1. Served(b) \subseteq Clicks
  BY DEF Served
<1> QED
  BY <1>1, CallbackAssumption, FS_Subset, FS_CardinalityType, FS_EmptySet

\* A click begins to be served, or ends.
LEMMA ServedMoves ==
  ASSUME CallbackInv, NEW c \in Clicks, NEW x \in Buttons, NEW b \in Buttons
  PROVE  /\ serving[c] = "none" /\ serving' = [serving EXCEPT ![c] = x] =>
              /\ b # x => Served(b)' = Served(b)
              /\ Served(x)' # {} /\ Cardinality(Served(x))' = Cardinality(Served(x)) + 1
         /\ serving[c] = x /\ serving' = [serving EXCEPT ![c] = "none"] =>
              /\ b # x => Served(b)' = Served(b)
              /\ Cardinality(Served(x))' = Cardinality(Served(x)) - 1 /\ Served(x) # {}
<1>1. serving \in [Clicks -> Buttons \cup {"none"}] /\ "none" \notin Buttons
  BY CallbackParts, CallbackAssumption
<1>2. IsFiniteSet(Served(x)) /\ Cardinality(Served(x)) \in Nat
  BY ClicksServing
<1>3. ASSUME serving[c] = "none", serving' = [serving EXCEPT ![c] = x]
      PROVE  /\ b # x => Served(b)' = Served(b)
             /\ Served(x)' # {} /\ Cardinality(Served(x)') = Cardinality(Served(x)) + 1
  <2>1. Served(x)' = Served(x) \cup {c} /\ c \notin Served(x)
    BY <1>1, <1>3 DEF Served
  <2>2. b # x => Served(b)' = Served(b)
    BY <1>1, <1>3 DEF Served
  <2> DEFINE S == Served(x)
             T == Served(x)'
  <2>3. T = S \cup {c} /\ c \notin S /\ IsFiniteSet(S)
    BY <1>2, <2>1
  <2> HIDE DEF S, T
  <2>4. Cardinality(T) = Cardinality(S) + 1 /\ T # {}
    BY <2>3, FS_AddElement
  <2> QED
    BY <2>2, <2>4 DEF S, T
<1>4. ASSUME serving[c] = x, serving' = [serving EXCEPT ![c] = "none"]
      PROVE  /\ b # x => Served(b)' = Served(b)
             /\ Cardinality(Served(x)') = Cardinality(Served(x)) - 1 /\ Served(x) # {}
  <2>1. Served(x)' = Served(x) \ {c} /\ c \in Served(x)
    BY <1>1, <1>4 DEF Served
  <2>2. b # x => Served(b)' = Served(b)
    BY <1>1, <1>4 DEF Served
  <2> DEFINE S == Served(x)
             T == Served(x)'
  <2>3. T = S \ {c} /\ c \in S /\ IsFiniteSet(S)
    BY <1>2, <2>1
  <2> HIDE DEF S, T
  <2>4. Cardinality(T) = Cardinality(S) - 1 /\ S # {}
    BY <2>3, FS_RemoveElement
  <2> QED
    BY <2>2, <2>4 DEF S, T
<1> QED
  BY <1>3, <1>4

\* What a click leaves of the replay table.
LEMMA ClickTable ==
  ASSUME CallbackInv, NEW b \in Buttons, NEW m \in Claims(Unexpired(requests), b),
         NEW n, n = m \/ n = Closed(m, b, "terminal_failure")
  PROVE  /\ n \in [Buttons -> LifecycleRecord] /\ (\A k \in Buttons : Dated(n[k])) /\ Within(n)
         /\ \A k \in Buttons : k # b => n[k].state \in {requests[k].state, "absent"}
         /\ ~ Accepts(Unexpired(requests), b) /\ n = m => n[b].state = requests[b].state /\ n[b].state # "retryable_failure"
         /\ Accepts(Unexpired(requests), b) /\ n = m => n[b].state \in {"claimed", "absent"}
         /\ Accepts(Unexpired(requests), b) /\ n # m => n[b].state \in {"terminal_failure", "absent"}
<1> DEFINE live == Unexpired(requests)
<1>1. /\ live \in [Buttons -> LifecycleRecord]
      /\ \A k \in Buttons : /\ Dated(live[k]) /\ requests[k].left \in Nat
                            /\ requests[k].left > 0 => live[k] = requests[k]
                            /\ requests[k].left = 0 => live[k] = NoEntry
  <2>1. \A k \in Buttons : requests[k] \in LifecycleRecord
    BY CallbackParts
  <2>2. \A k \in Buttons : requests[k].left \in Nat
    BY <2>1, LifecycleAssumption DEF LifecycleRecord
  <2> QED
    BY <2>2, CallbackParts, UnexpiredTable
<1>2. Within(live)
  BY CallbackParts, UnexpiredWithin
<1>3. m \in Claims(live, b)
  OBVIOUS
<1> HIDE DEF live
<1>4. /\ m \in [Buttons -> LifecycleRecord] /\ \A j \in Buttons : Dated(m[j])
      /\ \A j \in Buttons : j # b => m[j] = live[j] \/ m[j] = NoEntry
      /\ Accepts(live, b) => \/ m[b] = EntryIn("claimed")
                             \/ m[b] = NoEntry /\ live[b].state # "absent"
      /\ ~ Accepts(live, b) => m[b] = [live[b] EXCEPT !.idle = 0] /\ \A j \in Buttons : j # b => m[j] = live[j]
  BY <1>1, <1>3, ClaimsTable
<1>5. Within(m)
  BY <1>1, <1>2, <1>3, ClaimsWithin
<1>6. n \in [Buttons -> LifecycleRecord] /\ (\A k \in Buttons : Dated(n[k])) /\ \A j \in Buttons : j # b => n[j] = m[j]
  <2>1. "terminal_failure" \in LifecycleState
    BY DEF LifecycleState, Finals
  <2> QED
    BY <1>4, <2>1, ClosedTable
<1>7. Within(n)
  BY <1>4, <1>5, ClosedWithin
<1>8. \A k \in Buttons : live[k].state \in {requests[k].state, "absent"}
  BY <1>1 DEF NoEntry
<1>9. \A k \in Buttons : k # b => n[k].state \in {requests[k].state, "absent"}
  BY <1>4, <1>6, <1>8 DEF NoEntry
<1>10. ~ Accepts(live, b) /\ n = m => n[b].state = requests[b].state /\ n[b].state # "retryable_failure"
  <2> SUFFICES ASSUME ~ Accepts(live, b), n = m PROVE n[b].state = requests[b].state /\ n[b].state # "retryable_failure"
    OBVIOUS
  <2>1. live[b].state \notin {"absent", "retryable_failure"} /\ live[b] \in LifecycleRecord
    BY <1>1 DEF Accepts
  <2>2. m[b] = [live[b] EXCEPT !.idle = 0]
    BY <1>4
  <2>3. m[b].state = live[b].state
    BY <2>1, <2>2 DEF LifecycleRecord
  <2> QED
    BY <1>8, <2>1, <2>3
<1>11. Accepts(live, b) => m[b].state \in {"claimed", "absent"}
  BY <1>4 DEF EntryIn, NoEntry
<1>12. Accepts(live, b) /\ n # m => n[b].state \in {"terminal_failure", "absent"}
  BY <1>4, <1>11 DEF Closed, With, EntryIn
<1> QED
  BY <1>6, <1>7, <1>9, <1>10, <1>11, <1>12 DEF live

\* Every record that a click meets in time has not expired, and a new one is
\* made only if none keeps the action from running.
LEMMA RecordInTime ==
  ASSUME CallbackInv, NEW b \in Buttons, InTime(b)
  PROVE  /\ CreatedFrom(callbacks[b]) \in CallbackRecord
         /\ Looked(CreatedFrom(callbacks[b])) = CreatedFrom(callbacks[b])
         /\ CreatedFrom(callbacks[b]).age <= cardAge[b]
         /\ callbacks[b].state \in {"acknowledged", "delivered"} => CreatedFrom(callbacks[b]) = callbacks[b]
         /\ callbacks[b].state \notin {"acknowledged", "delivered"} => CreatedFrom(callbacks[b]).state = "pending"
<1>1. callbacks[b] \in CallbackRecord /\ callbacks[b].age <= cardAge[b] /\ cardAge[b] \in 0 .. DRIFT + 1 /\ cardAge[b] <= DRIFT
  BY CallbackParts DEF Signed, InTime
<1> DEFINE r == CreatedFrom(callbacks[b])
<1>2. r \in CallbackRecord /\ r.age <= cardAge[b]
  BY <1>1, CallbackAssumption DEF CreatedFrom, CallbackRecord, CallbackState, OpenCallback
<1>3. Looked(r) = r
  BY <1>1, <1>2, CallbackAssumption DEF Looked, CallbackRecord
<1>4. callbacks[b].state \in {"acknowledged", "delivered"} => r = callbacks[b]
  BY DEF CreatedFrom
<1>5. callbacks[b].state \notin {"acknowledged", "delivered"} => r.state = "pending"
  BY <1>1 DEF CreatedFrom, CallbackRecord, CallbackState, OpenCallback
<1> QED
  BY <1>2, <1>3, <1>4, <1>5

\* What a click leaves alone.
LEMMA ClickElsewhere ==
  ASSUME CallbackInv, NEW c \in Clicks, NEW b \in Buttons, NEW actor \in Actors, NEW resolved \in BOOLEAN,
         ClickButton(c, b, actor, resolved), NEW k \in Buttons, k # b
  PROVE  Signed(k)' /\ Guarded(k)' /\ Answers(k)'
<1>1. PICK m \in Claims(Unexpired(requests), b) :
        /\ requests' = m \/ requests' = Closed(m, b, "terminal_failure")
        /\ serving' = serving \/ serving' = [serving EXCEPT ![c] = b]
        /\ callbacks' = callbacks \/ \E r : callbacks' = [callbacks EXCEPT ![b] = r]
        /\ failedFor \subseteq failedFor' /\ raised \subseteq raised'
  BY DEF ClickButton
<1>2. cardAge' = cardAge /\ completed' = completed /\ serving[c] = "none"
  BY DEF ClickButton
<1>3. requests'[k].state \in {requests[k].state, "absent"}
  BY <1>1, ClickTable
<1>4. callbacks'[k] = callbacks[k]
  BY <1>1, CallbackParts
<1>5. Served(k)' = Served(k)
  <2>1. CASE serving' = serving
    BY <2>1 DEF Served
  <2>2. CASE serving' = [serving EXCEPT ![c] = b]
    BY <2>2, <1>2, ServedMoves
  <2> QED
    BY <1>1, <2>1, <2>2
<1>6. Signed(k) /\ Guarded(k) /\ Answers(k)
  BY CallbackParts
<1>7. Signed(k)' /\ Guarded(k)'
  BY <1>2, <1>4, <1>5, <1>6 DEF Signed, Guarded, InTime
<1>8. Answers(k)'
  BY <1>1, <1>2, <1>3, <1>4, <1>5, <1>6 DEF Answers, Finals
<1> QED
  BY <1>7, <1>8

\* The button that is clicked.
LEMMA ClickHere ==
  ASSUME CallbackInv, NEW c \in Clicks, NEW b \in Buttons, NEW actor \in Actors, NEW resolved \in BOOLEAN,
         ClickButton(c, b, actor, resolved)
  PROVE  callbacks' \in [Buttons -> CallbackRecord] /\ Signed(b)' /\ Guarded(b)' /\ Answers(b)'
<1> DEFINE live == Unexpired(requests)
           new  == Accepts(live, b)
           rec  == CreatedFrom(callbacks[b])
           denied == b \in AdminButtons /\ actor # "admin"
<1>1. serving[c] = "none" /\ InTime(b) /\ cardAge' = cardAge /\ completed' = completed
  BY DEF ClickButton
<1>2. PICK m \in Claims(live, b) :
        \/ ~ new /\ requests' = m /\ UNCHANGED <<callbacks, serving, failedFor, raised>>
        \/ /\ new /\ requests' = Closed(m, b, "terminal_failure")
           /\ callbacks' = callbacks \/ callbacks' = [callbacks EXCEPT ![b] = rec]
           /\ failedFor' = failedFor \cup {b} /\ UNCHANGED <<serving, raised>>
        \/ /\ new /\ Looked(rec).state = "pending" /\ requests' = m
           /\ callbacks' = [callbacks EXCEPT ![b] = [Looked(rec) EXCEPT !.state = "acknowledged"]]
           /\ serving' = [serving EXCEPT ![c] = b] /\ UNCHANGED <<failedFor, raised>>
        \/ /\ new /\ Looked(rec).state # "pending" /\ requests' = m
           /\ callbacks' = [callbacks EXCEPT ![b] = Looked(rec)]
           /\ raised' = raised \cup {b} /\ UNCHANGED <<serving, failedFor>>
  BY DEF ClickButton
<1>3. /\ rec \in CallbackRecord /\ Looked(rec) = rec /\ rec.age <= cardAge[b]
      /\ callbacks[b].state \in {"acknowledged", "delivered"} => rec = callbacks[b]
      /\ callbacks[b].state \notin {"acknowledged", "delivered"} => rec.state = "pending"
  BY <1>1, RecordInTime
<1>4. /\ callbacks \in [Buttons -> CallbackRecord] /\ callbacks[b] \in CallbackRecord
      /\ Signed(b) /\ Guarded(b) /\ Answers(b) /\ completed[b] \in Nat
  BY CallbackParts
<1>5. Cardinality(Served(b)) \in Nat /\ (Cardinality(Served(b)) = 0 <=> Served(b) = {})
  BY ClicksServing
<1>6. /\ requests' = m \/ requests' = Closed(m, b, "terminal_failure")
      /\ ~ new /\ requests' = m => requests'[b].state = requests[b].state /\ requests'[b].state # "retryable_failure"
      /\ new /\ requests' = m => requests'[b].state \in {"claimed", "absent"}
  BY <1>2, ClickTable
<1>7. new /\ requests' = Closed(m, b, "terminal_failure") => requests'[b].state \in {"terminal_failure", "absent"}
  <2>1. /\ m \in [Buttons -> LifecycleRecord]
        /\ new => m[b].state \in {"claimed", "absent"}
    BY ClickTable
  <2> QED
    BY <2>1 DEF Closed, With, EntryIn
<1> HIDE DEF live, new, rec
<1>8. CASE ~ new /\ requests' = m /\ UNCHANGED <<callbacks, serving, failedFor, raised>>
  <2>1. Served(b)' = Served(b)
    BY <1>8 DEF Served
  <2>2. Signed(b)' /\ Guarded(b)'
    BY <1>1, <1>4, <1>8, <2>1 DEF Signed, Guarded, InTime
  <2>3. Answers(b)'
    BY <1>1, <1>4, <1>6, <1>8, <2>1 DEF Answers
  <2> QED
    BY <1>4, <1>8, <2>2, <2>3
<1>9. CASE /\ new /\ requests' = Closed(m, b, "terminal_failure")
           /\ callbacks' = callbacks \/ callbacks' = [callbacks EXCEPT ![b] = rec]
           /\ failedFor' = failedFor \cup {b} /\ UNCHANGED <<serving, raised>>
  <2>1. Served(b)' = Served(b)
    BY <1>9 DEF Served
  <2>2. callbacks' \in [Buttons -> CallbackRecord] /\ (callbacks'[b] = callbacks[b] \/ callbacks'[b] = rec)
    BY <1>3, <1>4, <1>9
  <2>3. Signed(b)'
    BY <1>1, <1>3, <1>4, <2>2 DEF Signed, InTime
  <2>4. Guarded(b)'
    BY <1>1, <1>3, <1>4, <2>1, <2>2 DEF Guarded, InTime
  <2>5. Answers(b)'
    BY <1>7, <1>9, <2>1 DEF Answers, Finals
  <2> QED
    BY <2>2, <2>3, <2>4, <2>5
<1>10. CASE /\ new /\ Looked(rec).state = "pending" /\ requests' = m
            /\ callbacks' = [callbacks EXCEPT ![b] = [Looked(rec) EXCEPT !.state = "acknowledged"]]
            /\ serving' = [serving EXCEPT ![c] = b] /\ UNCHANGED <<failedFor, raised>>
  <2>1. rec.state = "pending" /\ callbacks[b].state \notin {"acknowledged", "delivered"}
    BY <1>3, <1>10
  <2>2. completed[b] = 0 /\ Cardinality(Served(b)) = 0
    BY <1>1, <1>4, <1>5, <2>1 DEF Guarded
  <2>3. Served(b)' # {} /\ Cardinality(Served(b))' = Cardinality(Served(b)) + 1
    BY <1>1, <1>10, ServedMoves
  <2> DEFINE r == [rec EXCEPT !.state = "acknowledged"]
  <2>4. r \in CallbackRecord /\ r.state = "acknowledged" /\ r.age = rec.age
    BY <1>3 DEF CallbackRecord, CallbackState, OpenCallback
  <2>5. callbacks' = [callbacks EXCEPT ![b] = r]
    BY <1>3, <1>10
  <2> HIDE DEF r
  <2>6. callbacks' \in [Buttons -> CallbackRecord] /\ callbacks'[b] = r
    BY <1>4, <2>4, <2>5
  <2>7. Signed(b)'
    BY <1>1, <1>3, <2>4, <2>6 DEF Signed, InTime
  <2>8. completed'[b] + Cardinality(Served(b))' <= 1
    BY <1>1, <2>2, <2>3
  <2>9. Guarded(b)'
    BY <2>4, <2>6, <2>8 DEF Guarded
  <2>10. Answers(b)'
    BY <1>6, <1>10, <2>3 DEF Answers, Finals
  <2> QED
    BY <2>6, <2>7, <2>9, <2>10
<1>11. CASE /\ new /\ Looked(rec).state # "pending" /\ requests' = m
            /\ callbacks' = [callbacks EXCEPT ![b] = Looked(rec)]
            /\ raised' = raised \cup {b} /\ UNCHANGED <<serving, failedFor>>
  <2>1. Served(b)' = Served(b)
    BY <1>11 DEF Served
  <2>2. callbacks' = callbacks
    BY <1>3, <1>4, <1>11
  <2>3. Signed(b)' /\ Guarded(b)'
    BY <1>1, <1>4, <2>1, <2>2 DEF Signed, Guarded, InTime
  <2>4. Answers(b)'
    BY <1>6, <1>11, <2>1 DEF Answers, Finals
  <2> QED
    BY <1>4, <2>2, <2>3, <2>4
<1> QED
  BY <1>2, <1>8, <1>9, <1>10, <1>11

\* A click: a router begins to run only for an action that neither runs nor has
\* run, as the record of one that does would not be pending.
LEMMA ClickKeeps ==
  ASSUME CallbackInv, NEW c \in Clicks, NEW b \in Buttons, NEW actor \in Actors, NEW resolved \in BOOLEAN,
         ClickButton(c, b, actor, resolved)
  PROVE  CallbackInv'
<1>1. PICK m \in Claims(Unexpired(requests), b) :
        /\ requests' = m \/ requests' = Closed(m, b, "terminal_failure")
        /\ serving' = serving \/ serving' = [serving EXCEPT ![c] = b]
        /\ failedFor' \subseteq failedFor \cup {b} /\ raised' \subseteq raised \cup {b}
  BY DEF ClickButton
<1>2. cardAge' = cardAge /\ completed' = completed
  BY DEF ClickButton
<1>3. requests' \in [Buttons -> LifecycleRecord] /\ (\A k \in Buttons : Dated(requests'[k])) /\ Within(requests')
  BY <1>1, ClickTable
<1>4. callbacks' \in [Buttons -> CallbackRecord]
  BY ClickHere
<1>5. CallbackTyped'
  BY <1>1, <1>2, <1>3, <1>4 DEF CallbackInv, CallbackTyped
<1>6. ASSUME NEW k \in Buttons PROVE Signed(k)' /\ Guarded(k)' /\ Answers(k)'
  BY ClickElsewhere, ClickHere
<1>7. Within(requests)'
  BY <1>3 DEF Within, Entries
<1> QED
  BY <1>5, <1>6, <1>7 DEF CallbackInv

\* The expired records of the table are gone, and one is closed or released.
LEMMA SettledTable ==
  ASSUME CallbackInv, NEW b \in Buttons, NEW n,
         n = Closed(Unexpired(requests), b, "delivered") \/ n = Released(Unexpired(requests), b)
  PROVE  /\ n \in [Buttons -> LifecycleRecord] /\ (\A k \in Buttons : Dated(n[k])) /\ Within(n)
         /\ \A k \in Buttons : k # b => n[k].state \in {requests[k].state, "absent"}
         /\ n = Closed(Unexpired(requests), b, "delivered") =>
              n[b].state \notin {"claimed", "retryable_failure"}
         /\ n = Released(Unexpired(requests), b) =>
              n[b].state # "claimed" /\ n[b].state \in {requests[b].state, "absent", "retryable_failure"}
<1> DEFINE live == Unexpired(requests)
<1>1. /\ live \in [Buttons -> LifecycleRecord]
      /\ \A k \in Buttons : Dated(live[k]) /\ live[k].state \in {requests[k].state, "absent"}
  <2>1. \A k \in Buttons : requests[k].left \in Nat
    BY CallbackParts, LifecycleAssumption DEF LifecycleRecord
  <2>2. /\ live \in [Buttons -> LifecycleRecord]
        /\ \A k \in Buttons : /\ Dated(live[k])
                              /\ requests[k].left > 0 => live[k] = requests[k]
                              /\ requests[k].left = 0 => live[k] = NoEntry
    BY CallbackParts, UnexpiredTable
  <2> QED
    BY <2>1, <2>2 DEF NoEntry
<1>2. Within(live)
  BY CallbackParts, UnexpiredWithin
<1>3. n = Closed(live, b, "delivered") \/ n = Released(live, b)
  OBVIOUS
<1>4. "delivered" \in LifecycleState
  BY DEF LifecycleState, Finals
<1> HIDE DEF live
<1>5. n \in [Buttons -> LifecycleRecord] /\ (\A k \in Buttons : Dated(n[k])) /\ \A k \in Buttons : k # b => n[k] = live[k]
  BY <1>1, <1>3, <1>4, ClosedTable
<1>6. Within(n)
  BY <1>1, <1>2, <1>3, ClosedWithin
<1>7. n = Closed(live, b, "delivered") => n[b].state \notin {"claimed", "retryable_failure"}
  BY <1>1 DEF Closed, With, EntryIn
<1>8. n = Released(live, b) => n[b].state # "claimed" /\ n[b].state \in {requests[b].state, "absent", "retryable_failure"}
  BY <1>1 DEF Released, With, EntryIn
<1> QED
  BY <1>1, <1>5, <1>6, <1>7, <1>8 DEF live

\* The router returned: the record is delivered, or it expired after the card did.
LEMMA ReturnKeeps ==
  ASSUME CallbackInv, NEW c \in Clicks, RouterReturned(c)
  PROVE  CallbackInv'
<1>1. PICK b \in Buttons : b = serving[c]
  BY CallbackParts DEF RouterReturned
<1> DEFINE rec == Looked(callbacks[b])
<1>2. /\ completed' = [completed EXCEPT ![b] = @ + 1] /\ serving' = [serving EXCEPT ![c] = "none"]
      /\ cardAge' = cardAge /\ failedFor' = failedFor
      /\ \/ /\ rec.state = "acknowledged" /\ callbacks' = [callbacks EXCEPT ![b].state = "delivered"]
            /\ requests' = Closed(Unexpired(requests), b, "delivered") /\ raised' = raised
         \/ /\ rec.state # "acknowledged" /\ callbacks' = [callbacks EXCEPT ![b] = rec]
            /\ raised' = raised \cup {b} /\ requests' = requests
  BY <1>1 DEF RouterReturned
<1>3. /\ callbacks[b] \in CallbackRecord /\ Signed(b) /\ Guarded(b) /\ Answers(b) /\ completed[b] \in Nat
      /\ cardAge[b] \in 0 .. DRIFT + 1 /\ CallbackTyped /\ Within(requests)
  BY CallbackParts
<1>4. rec \in CallbackRecord /\ rec.age = callbacks[b].age /\ (rec.state = callbacks[b].state \/ rec.state = "expired")
  BY <1>3 DEF Looked, CallbackRecord, CallbackState
<1>5. InTime(b) => rec = callbacks[b]
  BY <1>3, CallbackAssumption DEF InTime, Signed, Looked, CallbackRecord
<1>6. IsFiniteSet(Served(b)) /\ Cardinality(Served(b)) \in Nat /\ (Cardinality(Served(b)) = 0 <=> Served(b) = {})
  BY ClicksServing
<1>7. /\ Cardinality(Served(b))' = Cardinality(Served(b)) - 1 /\ Served(b) # {}
      /\ \A k \in Buttons : k # b => Served(k)' = Served(k)
  BY <1>1, <1>2, ServedMoves
<1>8. completed[b] = 0 /\ Cardinality(Served(b)) = 1
  BY <1>3, <1>6, <1>7 DEF Guarded
<1>9. completed' \in [Buttons -> Nat] /\ completed'[b] = 1 /\ \A k \in Buttons : k # b => completed'[k] = completed[k]
  BY <1>2, <1>8 DEF CallbackInv, CallbackTyped
<1>10. requests' \in [Buttons -> LifecycleRecord] /\ (\A k \in Buttons : Dated(requests'[k])) /\ Within(requests')
  BY <1>2, CallbackParts, SettledTable
<1>11. /\ callbacks' \in [Buttons -> CallbackRecord] /\ callbacks'[b].age = callbacks[b].age
       /\ callbacks'[b].state \in {"delivered", rec.state}
       /\ \A k \in Buttons : k # b => callbacks'[k] = callbacks[k]
  <2>1. callbacks \in [Buttons -> CallbackRecord]
    BY CallbackParts
  <2>2. CASE callbacks' = [callbacks EXCEPT ![b].state = "delivered"]
    BY <1>3, <2>1, <2>2 DEF CallbackRecord, CallbackState
  <2>3. CASE callbacks' = [callbacks EXCEPT ![b] = rec]
    BY <1>4, <2>1, <2>3
  <2> QED
    BY <1>2, <2>2, <2>3
<1> HIDE DEF rec
<1>12. CallbackTyped'
  BY <1>2, <1>3, <1>9, <1>10, <1>11 DEF CallbackTyped
<1>13. Within(requests)'
  BY <1>10 DEF Within, Entries
<1>14. ASSUME NEW k \in Buttons, k # b PROVE Signed(k)' /\ Guarded(k)' /\ Answers(k)'
  <2>1. requests'[k].state \in {requests[k].state, "absent"}
    BY <1>2, <1>14, SettledTable
  <2>2. Signed(k) /\ Guarded(k) /\ Answers(k)
    BY CallbackParts
  <2>3. Signed(k)' /\ Guarded(k)'
    BY <1>2, <1>7, <1>9, <1>11, <1>14, <2>2 DEF Signed, Guarded, InTime
  <2>4. Answers(k)'
    BY <1>2, <1>7, <1>9, <1>11, <1>14, <2>1, <2>2 DEF Answers, Finals
  <2> QED
    BY <2>3, <2>4
<1>15. Signed(b)'
  BY <1>2, <1>3, <1>11 DEF Signed, InTime
<1>16. Guarded(b)'
  <2>1. completed'[b] + Cardinality(Served(b))' = 1
    BY <1>7, <1>8, <1>9
  <2>2. InTime(b)' => callbacks'[b].state \in {"acknowledged", "delivered"}
    <3>1. SUFFICES ASSUME InTime(b) PROVE callbacks'[b].state \in {"acknowledged", "delivered"}
      BY <1>2 DEF InTime
    <3>2. callbacks[b].state \in {"acknowledged", "delivered"} /\ rec.state = callbacks[b].state
      BY <1>3, <1>5, <1>8, <3>1 DEF Guarded
    <3> QED
      BY <1>11, <3>2
  <2> QED
    BY <1>9, <2>1, <2>2 DEF Guarded
<1>17. Answers(b)'
  <2>1. requests'[b].state = "claimed" => b \in raised'
    BY <1>2, SettledTable
  <2>2. requests'[b].state # "retryable_failure"
    BY <1>2, <1>3, <1>7, SettledTable DEF Answers
  <2> QED
    BY <1>9, <2>1, <2>2 DEF Answers
<1> QED
  BY <1>12, <1>13, <1>14, <1>15, <1>16, <1>17 DEF CallbackInv

\* The router raised: the record fails with the claim, as the action was not done.
LEMMA RaiseKeeps ==
  ASSUME CallbackInv, NEW c \in Clicks, RouterRaised(c)
  PROVE  CallbackInv'
<1>1. PICK b \in Buttons : b = serving[c]
  BY CallbackParts DEF RouterRaised
<1>2. /\ callbacks' = [callbacks EXCEPT ![b].state = IF @ = "delivered" THEN @ ELSE "failed"]
      /\ requests' = Released(Unexpired(requests), b) /\ serving' = [serving EXCEPT ![c] = "none"]
      /\ cardAge' = cardAge /\ failedFor' = failedFor /\ completed' = completed /\ raised' = raised
  BY <1>1 DEF RouterRaised
<1>3. /\ callbacks[b] \in CallbackRecord /\ Signed(b) /\ Guarded(b) /\ Answers(b) /\ completed[b] \in Nat
      /\ CallbackTyped
  BY CallbackParts
<1>4. IsFiniteSet(Served(b)) /\ Cardinality(Served(b)) \in Nat /\ (Cardinality(Served(b)) = 0 <=> Served(b) = {})
  BY ClicksServing
<1>5. /\ Cardinality(Served(b))' = Cardinality(Served(b)) - 1 /\ Served(b) # {}
      /\ \A k \in Buttons : k # b => Served(k)' = Served(k)
  BY <1>1, <1>2, ServedMoves
<1>6. completed[b] = 0 /\ Cardinality(Served(b)) = 1 /\ callbacks[b].state # "delivered"
  BY <1>3, <1>4, <1>5 DEF Guarded
<1>7. /\ callbacks' \in [Buttons -> CallbackRecord] /\ callbacks'[b].age = callbacks[b].age
      /\ callbacks'[b].state = "failed"
      /\ \A k \in Buttons : k # b => callbacks'[k] = callbacks[k]
  <2>1. callbacks \in [Buttons -> CallbackRecord]
    BY CallbackParts
  <2> QED
    BY <1>2, <1>3, <1>6, <2>1 DEF CallbackRecord, CallbackState
<1>8. /\ requests' \in [Buttons -> LifecycleRecord] /\ (\A k \in Buttons : Dated(requests'[k])) /\ Within(requests')
      /\ \A k \in Buttons : k # b => requests'[k].state \in {requests[k].state, "absent"}
      /\ requests'[b].state # "claimed" /\ requests'[b].state \in {requests[b].state, "absent", "retryable_failure"}
  BY <1>2, SettledTable
<1>9. CallbackTyped'
  <2>1. serving' \in [Clicks -> Buttons \cup {"none"}]
    BY <1>2, <1>3 DEF CallbackTyped
  <2> QED
    BY <1>2, <1>3, <1>7, <1>8, <2>1 DEF CallbackTyped
<1>10. Within(requests)'
  BY <1>8 DEF Within, Entries
<1>11. ASSUME NEW k \in Buttons, k # b PROVE Signed(k)' /\ Guarded(k)' /\ Answers(k)'
  <2>1. Signed(k) /\ Guarded(k) /\ Answers(k)
    BY CallbackParts
  <2>2. Signed(k)' /\ Guarded(k)'
    BY <1>2, <1>5, <1>7, <1>11, <2>1 DEF Signed, Guarded, InTime
  <2>3. Answers(k)'
    BY <1>2, <1>5, <1>7, <1>8, <1>11, <2>1 DEF Answers, Finals
  <2> QED
    BY <2>2, <2>3
<1>12. Signed(b)'
  BY <1>2, <1>3, <1>7 DEF Signed, InTime
<1>13. Cardinality(Served(b))' = 0 /\ completed'[b] = 0
  BY <1>2, <1>5, <1>6
<1>14. Guarded(b)'
  BY <1>7, <1>13 DEF Guarded
<1>15. Served(b)' = {}
  <2>1. Served(b)' \subseteq Served(b)
    BY <1>1, <1>2, CallbackParts, CallbackAssumption DEF Served
  <2>2. IsFiniteSet(Served(b)')
    BY <1>4, <2>1, FS_Subset
  <2>3. Cardinality(Served(b)') = 0
    BY <1>13
  <2> QED
    BY <2>2, <2>3, FS_EmptySet
<1>16. Answers(b)'
  BY <1>2, <1>3, <1>7, <1>8, <1>15 DEF Answers, Finals
<1> QED
  BY <1>9, <1>10, <1>11, <1>12, <1>14, <1>16 DEF CallbackInv

\* A tick: records, cards and the table age together.
LEMMA CallbackTicks == ASSUME CallbackInv, CallbackTick PROVE CallbackInv'
<1>1. /\ cardAge' = [b \in Buttons |-> IF cardAge[b] > DRIFT THEN cardAge[b] ELSE cardAge[b] + 1]
      /\ requests' = Elapsed(requests) /\ serving' = serving /\ completed' = completed
      /\ failedFor' = failedFor /\ raised' = raised
      /\ callbacks' = [b \in Buttons |->
           IF callbacks[b].state = "none" \/ callbacks[b].age > CALLBACK_TTL THEN callbacks[b]
           ELSE [callbacks[b] EXCEPT !.age = @ + 1]]
  BY DEF CallbackTick
<1>2. /\ CallbackTyped /\ Within(requests) /\ requests \in [Buttons -> LifecycleRecord]
      /\ \A b \in Buttons : Dated(requests[b])
  BY CallbackParts
<1>3. /\ requests' \in [Buttons -> LifecycleRecord]
      /\ \A b \in Buttons : Dated(requests'[b]) /\ requests'[b].state = requests[b].state
  BY <1>1, <1>2, ElapsedTable
<1>4. Entries(requests)' = Entries(requests)
  BY <1>2, <1>3 DEF Entries
<1>5. Within(requests)'
  BY <1>2, <1>4 DEF Within
<1>6. ASSUME NEW b \in Buttons
      PROVE  /\ cardAge'[b] \in 0 .. DRIFT + 1 /\ callbacks'[b] \in CallbackRecord
             /\ callbacks'[b].state = callbacks[b].state
             /\ Signed(b)' /\ (InTime(b)' => InTime(b))
  <2>1. cardAge[b] \in 0 .. DRIFT + 1 /\ callbacks[b] \in CallbackRecord /\ Signed(b)
    BY CallbackParts
  <2>2. cardAge'[b] = IF cardAge[b] > DRIFT THEN cardAge[b] ELSE cardAge[b] + 1
    BY <1>1
  <2>3. cardAge'[b] \in 0 .. DRIFT + 1 /\ (InTime(b)' => InTime(b) /\ cardAge'[b] = cardAge[b] + 1)
    BY <2>1, <2>2, CallbackAssumption DEF InTime
  <2>4. callbacks'[b] = IF callbacks[b].state = "none" \/ callbacks[b].age > CALLBACK_TTL THEN callbacks[b]
                        ELSE [callbacks[b] EXCEPT !.age = @ + 1]
    BY <1>1
  <2>5. /\ callbacks'[b] \in CallbackRecord /\ callbacks'[b].state = callbacks[b].state
        /\ callbacks'[b].age \in {callbacks[b].age, callbacks[b].age + 1}
    <3>1. CASE callbacks[b].state = "none" \/ callbacks[b].age > CALLBACK_TTL
      BY <2>1, <2>4, <3>1
    <3>2. CASE ~ (callbacks[b].state = "none" \/ callbacks[b].age > CALLBACK_TTL)
      <4>1. callbacks[b].age + 1 \in 0 .. CALLBACK_TTL + 1
        BY <2>1, <3>2, CallbackAssumption DEF CallbackRecord
      <4>2. callbacks'[b] = [callbacks[b] EXCEPT !.age = callbacks[b].age + 1]
        BY <2>4, <3>2
      <4> QED
        BY <2>1, <4>1, <4>2 DEF CallbackRecord
    <3> QED
      BY <3>1, <3>2
  <2>6. Signed(b)'
    BY <2>1, <2>3, <2>5, CallbackAssumption DEF Signed, CallbackRecord
  <2> QED
    BY <2>3, <2>5, <2>6
<1>7. CallbackTyped'
  <2>1. cardAge' \in [Buttons -> 0 .. DRIFT + 1] /\ callbacks' \in [Buttons -> CallbackRecord]
    BY <1>1, <1>6
  <2> QED
    BY <1>1, <1>2, <1>3, <2>1 DEF CallbackTyped
<1>8. ASSUME NEW b \in Buttons PROVE Guarded(b)' /\ Answers(b)'
  <2>1. Guarded(b) /\ Answers(b) /\ Served(b)' = Served(b)
    BY <1>1, CallbackParts DEF Served
  <2> QED
    BY <1>1, <1>3, <1>6, <2>1 DEF Guarded, Answers
<1> QED
  BY <1>5, <1>6, <1>7, <1>8 DEF CallbackInv

LEMMA CallbackBegins == CallbackInit => CallbackInv
<1> SUFFICES ASSUME CallbackInit PROVE CallbackInv
  OBVIOUS
<1>1. /\ cardAge = [b \in Buttons |-> 0] /\ requests = [b \in Buttons |-> NoEntry]
      /\ callbacks = [b \in Buttons |-> NoCallback] /\ serving = [c \in Clicks |-> "none"]
      /\ completed = [b \in Buttons |-> 0] /\ failedFor = {} /\ raised = {}
  BY DEF CallbackInit
<1>2. NoCallback \in CallbackRecord
  BY CallbackAssumption DEF NoCallback, CallbackRecord, CallbackState
<1>3. CallbackTyped
  BY <1>1, <1>2, EntriesDated, CallbackAssumption DEF CallbackTyped
<1>4. Within(requests)
  <2>1. Entries(requests) = {}
    BY <1>1 DEF Entries, NoEntry
  <2> QED
    BY <2>1, FS_EmptySet, LifecycleAssumption DEF Within
<1>5. ASSUME NEW b \in Buttons PROVE Signed(b) /\ Guarded(b) /\ Answers(b)
  <2>1. Served(b) = {}
    BY <1>1, CallbackAssumption DEF Served
  <2>2. Cardinality(Served(b)) = 0
    BY <2>1, FS_EmptySet
  <2>3. completed[b] = 0 /\ callbacks[b] = NoCallback /\ cardAge[b] = 0 /\ requests[b] = NoEntry
    BY <1>1
  <2> QED
    BY <2>1, <2>2, <2>3 DEF Signed, Guarded, Answers, NoCallback, NoEntry, Finals
<1> QED
  BY <1>3, <1>4, <1>5 DEF CallbackInv

LEMMA CallbackStep == CallbackInv /\ [CallbackNext]_callbackVars => CallbackInv'
<1> SUFFICES ASSUME CallbackInv, [CallbackNext]_callbackVars PROVE CallbackInv'
  OBVIOUS
<1>1. ASSUME NEW c \in Clicks, NEW b \in Buttons, NEW a \in Actors, NEW r \in BOOLEAN, ClickButton(c, b, a, r)
      PROVE  CallbackInv'
  BY <1>1, ClickKeeps
<1>2. ASSUME NEW c \in Clicks, RouterReturned(c) PROVE CallbackInv'
  BY <1>2, ReturnKeeps
<1>3. ASSUME NEW c \in Clicks, RouterRaised(c) PROVE CallbackInv'
  BY <1>3, RaiseKeeps
<1>4. CASE CallbackTick
  BY <1>4, CallbackTicks
<1>5. CASE UNCHANGED callbackVars
  BY <1>5 DEF callbackVars, CallbackInv, CallbackTyped, Within, Entries, Signed, Guarded, Answers, InTime, Served
<1> QED
  BY <1>1, <1>2, <1>3, <1>4, <1>5 DEF CallbackNext

LEMMA CallbackAlways == CallbackSpec => []CallbackInv
BY CallbackBegins, CallbackStep, PTL DEF CallbackSpec

\* A button's action runs to its end at most once and for one click at a time,
\* however many entries the replay table holds and however soon it forgets them.
THEOREM ActionRunsOnce == CallbackSpec => []ActionOnce
<1>1. CallbackInv => ActionOnce
  BY DEF CallbackInv, Guarded, ActionOnce
<1> QED
  BY <1>1, CallbackAlways, PTL

-----------------------------------------------------------------------------
(* Telegram: updates are handled in their order, so that what the offset    *)
(* passes was handled, and one is handled again only after a mishap.       *)

PollTyped ==
  /\ sent \in 0 .. LAST_UPDATE /\ batch \subseteq 1 .. sent
  /\ confirmed \in Nat /\ offset \in Nat /\ savedOffset \in Nat /\ mishaps \in Nat
  /\ current = NoUpdate \/ current \in [update : 1 .. sent, awaits : {"handle", "reply"}]
  /\ claims \in [Updates -> LifecycleRecord] /\ \A u \in Updates : Dated(claims[u])
  /\ handled \in [Updates -> Nat]

\* The update that is worked on comes before the rest of its batch, and whatever
\* comes before that rest was handled.
InOrder ==
  /\ \A b \in batch : current.update < b
  /\ \A u \in Updates :
       u < current.update \/ (\E b \in batch : u < b) => u \in batch \/ u = current.update \/ handled[u] > 0
  /\ current.awaits = "reply" => handled[current.update] > 0

\* What the offset, the file and Telegram have passed was handled.
Passed(u) == u < offset \/ u < savedOffset \/ u < confirmed => handled[u] > 0

\* Only the loop holds a claim, and only a handled update is closed.
Held(u) ==
  /\ claims[u].state = "claimed" => current.update = u
  /\ claims[u].state \in Finals => handled[u] > 0

\* An update that was handled as often as the mishaps explain is not handled
\* again: its reply is awaited, or the offset is past it.
Paid(u) ==
  /\ handled[u] <= 1 + mishaps
  /\ handled[u] = 1 + mishaps =>
       /\ u \notin batch
       /\ u = current.update => current.awaits = "reply"
       /\ u # current.update => u < offset

PollInv == PollTyped /\ InOrder /\ \A u \in Updates : Passed(u) /\ Held(u) /\ Paid(u)

LEMMA LargerOf == ASSUME NEW a \in Nat, NEW b \in Nat
  PROVE Max({a, b}) \in {a, b} /\ Max({a, b}) >= a /\ Max({a, b}) >= b
<1>1. \E x \in {a, b} : \A y \in {a, b} : x >= y
  <2>1. CASE a >= b
    BY <2>1
  <2>2. CASE b >= a
    BY <2>2
  <2> QED
    BY <2>1, <2>2
<1> QED
  BY <1>1 DEF Max

LEMMA LeastOf == ASSUME NEW D, D \subseteq Nat, D # {}
  PROVE Min(D) \in D /\ \A e \in D : Min(D) <= e
<1> DEFINE Less == OpToRel(<, Nat)
<1>1. \E d \in D : \A e \in D : d <= e
  <2>1. IsWellFoundedOn(Less, Nat)
    BY NatLessThanWellFounded
  <2> HIDE DEF Less
  <2>2. PICK d \in D : \A e \in D : ~ (<<e, d>> \in Less)
    BY <2>1, WFMin
  <2>3. ASSUME NEW e \in D PROVE d <= e
    <3>1. e \in Nat /\ d \in Nat /\ ~ (<<e, d>> \in Less)
      BY <2>2
    <3>2. ~ (e < d)
      BY <3>1 DEF Less, OpToRel
    <3> QED
      BY <3>1, <3>2
  <2> QED
    BY <2>3
<1>2. Min(D) = CHOOSE d \in D : \A e \in D : d <= e
  BY DEF Min
<1> HIDE DEF Less
<1> QED
  BY <1>1, <1>2

LEMMA PollParts ==
  ASSUME PollInv
  PROVE  /\ PollTyped /\ InOrder
         /\ claims \in [Updates -> LifecycleRecord] /\ handled \in [Updates -> Nat]
         /\ 1 .. sent \subseteq Updates /\ Updates \subseteq Nat /\ 0 \notin Updates /\ LAST_UPDATE \in Nat
         /\ batch \subseteq Updates /\ current.update \in Nat
         /\ \A u \in Updates : /\ Passed(u) /\ Held(u) /\ Paid(u)
                               /\ u \in Nat /\ handled[u] \in Nat /\ claims[u] \in LifecycleRecord /\ Dated(claims[u])
<1>1. PollTyped /\ InOrder /\ \A u \in Updates : Passed(u) /\ Held(u) /\ Paid(u)
  BY DEF PollInv
<1>2. LAST_UPDATE \in Nat /\ Updates \subseteq Nat /\ 0 \notin Updates /\ 1 .. sent \subseteq Updates
  BY <1>1, TelegramAssumption DEF PollTyped, Updates
<1>3. current.update \in Nat
  BY <1>1, <1>2 DEF PollTyped, NoUpdate
<1> QED
  BY <1>1, <1>2, <1>3 DEF PollTyped

\* The table without its expired records.
LEMMA LiveClaims ==
  ASSUME PollInv
  PROVE  /\ Unexpired(claims) \in [Updates -> LifecycleRecord]
         /\ \A u \in Updates : /\ Dated(Unexpired(claims)[u])
                               /\ Unexpired(claims)[u].state \in {claims[u].state, "absent"}
<1>1. claims \in [Updates -> LifecycleRecord] /\ \A u \in Updates : Dated(claims[u]) /\ claims[u].left \in Nat
  BY PollParts, LifecycleAssumption DEF LifecycleRecord
<1>2. /\ Unexpired(claims) \in [Updates -> LifecycleRecord]
      /\ \A u \in Updates : /\ Dated(Unexpired(claims)[u])
                            /\ claims[u].left > 0 => Unexpired(claims)[u] = claims[u]
                            /\ claims[u].left = 0 => Unexpired(claims)[u] = NoEntry
  BY <1>1, UnexpiredTable
<1> QED
  BY <1>1, <1>2 DEF NoEntry

\* A commit moves the offset past an update and all before it, which were handled.
LEMMA CommitKeeps ==
  ASSUME PollInv, NEW u \in Updates, CommitOffset(u + 1), handled' = handled, confirmed' = confirmed,
         \A x \in Updates : x <= u => handled[x] > 0
  PROVE  /\ offset' \in Nat /\ savedOffset' \in Nat /\ offset' >= offset /\ u < offset'
         /\ mishaps' \in Nat /\ mishaps' \in {mishaps, mishaps + 1}
         /\ \A x \in Updates : Passed(x)'
<1>1. u \in Nat /\ offset \in Nat /\ savedOffset \in Nat /\ confirmed \in Nat /\ mishaps \in Nat
  BY PollParts DEF PollTyped
<1>2. /\ offset' \in Nat /\ savedOffset' \in Nat /\ offset' >= offset /\ u < offset'
      /\ mishaps' \in Nat /\ mishaps' \in {mishaps, mishaps + 1}
      /\ offset' \in {offset, u + 1} /\ savedOffset' \in {savedOffset, u + 1}
  BY <1>1 DEF CommitOffset, Mishap
<1>3. ASSUME NEW x \in Updates PROVE Passed(x)'
  <2>1. x \in Nat /\ Passed(x)
    BY PollParts
  <2>2. x < u + 1 => handled[x] > 0
    BY <1>1, <2>1
  <2> QED
    BY <1>1, <1>2, <2>1, <2>2 DEF Passed
<1> QED
  BY <1>2, <1>3

\* A mishap pays for everything that was handled.
LEMMA MishapPays ==
  ASSUME PollInv, NEW u \in Updates, handled' = handled, mishaps' = mishaps + 1
  PROVE  Paid(u)'
<1>1. handled[u] \in Nat /\ Paid(u) /\ mishaps \in Nat
  BY PollParts DEF PollTyped
<1>2. handled'[u] <= 1 + mishaps' /\ handled'[u] # 1 + mishaps'
  BY <1>1 DEF Paid
<1> QED
  BY <1>2 DEF Paid

LEMMA SendKeeps == ASSUME PollInv, UserSends PROVE PollInv'
<1>1. /\ sent < LAST_UPDATE /\ sent' = sent + 1
      /\ UNCHANGED <<confirmed, offset, savedOffset, batch, current, claims, handled, answered, mishaps>>
  BY DEF UserSends
<1>2. PollTyped /\ InOrder /\ \A u \in Updates : Passed(u) /\ Held(u) /\ Paid(u)
  BY DEF PollInv
<1>3. sent' \in 0 .. LAST_UPDATE /\ 1 .. sent \subseteq 1 .. sent'
  BY <1>1, <1>2, TelegramAssumption DEF PollTyped
<1>4. PollTyped'
  BY <1>1, <1>2, <1>3 DEF PollTyped
<1>5. InOrder'
  BY <1>1, <1>2 DEF InOrder
<1>6. \A u \in Updates : Passed(u)' /\ Held(u)' /\ Paid(u)'
  BY <1>1, <1>2 DEF Passed, Held, Paid
<1> QED
  BY <1>4, <1>5, <1>6 DEF PollInv

\* An answer of Telegram brings nothing that the offset has passed.
LEMMA PollKeeps == ASSUME PollInv, GetUpdates PROVE PollInv'
<1>1. /\ batch = {} /\ current = NoUpdate /\ confirmed' = Max({confirmed, offset})
      /\ batch' = {u \in 1 .. sent : u >= confirmed'}
      /\ UNCHANGED <<sent, offset, savedOffset, current, claims, handled, answered, mishaps>>
  BY DEF GetUpdates
<1>2. PollTyped /\ confirmed \in Nat /\ offset \in Nat /\ \A u \in Updates : Passed(u) /\ Held(u) /\ Paid(u) /\ u \in Nat /\ handled[u] \in Nat
  BY PollParts DEF PollTyped
<1>3. confirmed' \in Nat /\ confirmed' \in {confirmed, offset} /\ confirmed' >= offset
  BY <1>1, <1>2, LargerOf
<1>4. batch' \subseteq 1 .. sent /\ 1 .. sent \subseteq Updates
  BY <1>1, PollParts
<1>5. PollTyped'
  BY <1>1, <1>2, <1>3, <1>4 DEF PollTyped
<1>6. ASSUME NEW u \in Updates PROVE Passed(u)' /\ Held(u)' /\ Paid(u)'
  <2>1. Passed(u) /\ Held(u) /\ Paid(u) /\ u \in Nat
    BY <1>2
  <2>2. Passed(u)' /\ Held(u)'
    BY <1>1, <1>2, <1>3, <2>1 DEF Passed, Held
  <2>3. current.update = 0 /\ u # 0 /\ current.awaits = "none"
    BY <1>1, PollParts DEF NoUpdate
  <2>4. handled[u] = 1 + mishaps => u < offset
    BY <2>1, <2>3 DEF Paid
  <2>5. u < offset => u \notin batch'
    BY <1>1, <1>2, <1>3, <2>1
  <2>6. Paid(u)'
    BY <1>1, <2>1, <2>3, <2>4, <2>5 DEF Paid
  <2> QED
    BY <2>2, <2>6
<1>7. InOrder'
  <2>1. current'.update = 0 /\ current'.awaits = "none"
    BY <1>1 DEF NoUpdate
  <2>2. \A b \in batch' : 0 < b /\ b \in Nat
    BY <1>4, PollParts, <1>2 DEF PollTyped
  <2>3. ASSUME NEW u \in Updates, NEW b \in batch', u < b PROVE u \in batch' \/ handled[u] > 0
    <3>1. u \in Nat /\ b \in Nat /\ b <= sent /\ sent \in Nat /\ u >= 1
      <4>1. u \in Nat /\ u >= 1 /\ sent \in Nat
        BY <1>2, TelegramAssumption DEF Updates, PollTyped
      <4>2. b \in 1 .. sent
        BY <1>4
      <4> QED
        BY <4>1, <4>2
    <3>2. u \in 1 .. sent
      BY <2>3, <3>1
    <3>3. CASE u >= confirmed'
      BY <1>1, <3>2, <3>3
    <3>4. CASE u < confirmed'
      <4>1. Passed(u)'
        BY <1>6
      <4> QED
        BY <1>1, <3>4, <4>1 DEF Passed
    <3> QED
      BY <1>3, <3>1, <3>3, <3>4
  <2>4. \A u \in Updates : ~ (u < 0)
    BY <1>2
  <2> QED
    BY <1>1, <2>1, <2>2, <2>3, <2>4 DEF InOrder
<1> QED
  BY <1>5, <1>6, <1>7 DEF PollInv

\* A claim takes the first of the batch; what is refused was handled.
LEMMA ClaimKeeps == ASSUME PollInv, ClaimUpdate PROVE PollInv'
<1> DEFINE live == Unexpired(claims)
<1>1. batch # {} /\ current = NoUpdate /\ UNCHANGED <<sent, confirmed, handled, answered>>
  BY DEF ClaimUpdate
<1>2. PICK u \in batch : u = Min(batch) /\ \A b \in batch : u <= b
  BY <1>1, PollParts, LeastOf
<1>3. /\ \E m \in Claims(live, u) : claims' = m
      /\ batch' = batch \ {u}
      /\ current' = IF Accepts(live, u) THEN [update |-> u, awaits |-> "handle"] ELSE current
      /\ IF live[u].state = "delivered" THEN CommitOffset(u + 1) ELSE UNCHANGED <<offset, savedOffset, mishaps>>
  BY <1>2 DEF ClaimUpdate
<1>4. /\ PollTyped /\ InOrder /\ u \in Updates /\ batch \subseteq Updates /\ u \in Nat /\ offset \in Nat /\ mishaps \in Nat
      /\ \A x \in Updates : Passed(x) /\ Held(x) /\ Paid(x) /\ x \in Nat /\ handled[x] \in Nat
      /\ Updates \subseteq Nat /\ 0 \notin Updates
  BY PollParts DEF PollTyped
<1>5. current.update = 0 /\ current.awaits = "none"
  BY <1>1 DEF NoUpdate
<1>6. \A x \in Updates : x < u => handled[x] > 0
  <2> SUFFICES ASSUME NEW x \in Updates, x < u PROVE handled[x] > 0
    OBVIOUS
  <2>1. x \notin batch
    BY <1>2, <1>4
  <2>2. x # current.update
    BY <1>4, <1>5
  <2> QED
    BY <1>2, <1>4, <2>1, <2>2 DEF InOrder
<1>7. live \in [Updates -> LifecycleRecord] /\ \A x \in Updates : Dated(live[x]) /\ live[x].state \in {claims[x].state, "absent"}
  BY LiveClaims
<1> HIDE DEF live
<1>8. /\ claims' \in [Updates -> LifecycleRecord] /\ \A x \in Updates : Dated(claims'[x])
      /\ \A x \in Updates : x # u => claims'[x] = live[x] \/ claims'[x] = NoEntry
      /\ Accepts(live, u) => claims'[u] = EntryIn("claimed") \/ claims'[u] = NoEntry
      /\ ~ Accepts(live, u) => claims'[u] = [live[u] EXCEPT !.idle = 0]
  <2>1. PICK m \in Claims(live, u) : claims' = m
    BY <1>3
  <2>2. /\ m \in [Updates -> LifecycleRecord] /\ \A x \in Updates : Dated(m[x])
        /\ \A x \in Updates : x # u => m[x] = live[x] \/ m[x] = NoEntry
        /\ Accepts(live, u) => \/ m[u] = EntryIn("claimed")
                               \/ m[u] = NoEntry /\ live[u].state # "absent"
        /\ ~ Accepts(live, u) => m[u] = [live[u] EXCEPT !.idle = 0] /\ \A x \in Updates : x # u => m[x] = live[x]
    BY <1>4, <1>7, ClaimsTable
  <2> QED
    BY <2>1, <2>2
<1>9. \A x \in Updates : x # u => claims'[x].state \in {claims[x].state, "absent"}
  BY <1>7, <1>8 DEF NoEntry
<1>10. ~ Accepts(live, u) => handled[u] > 0 /\ claims'[u].state \in Finals
  <2> SUFFICES ASSUME ~ Accepts(live, u) PROVE handled[u] > 0 /\ claims'[u].state \in Finals
    OBVIOUS
  <2>1. live[u] \in LifecycleRecord /\ live[u].state \notin {"absent", "retryable_failure"}
    BY <1>4, <1>7 DEF Accepts
  <2>2. live[u].state = claims[u].state
    BY <1>4, <1>7, <2>1
  <2>3. live[u].state # "claimed"
    BY <1>4, <1>5, <2>2 DEF Held
  <2>4. live[u].state \in Finals
    BY <2>1, <2>3 DEF LifecycleRecord, LifecycleState
  <2>5. claims'[u].state = live[u].state
    BY <1>8, <2>1 DEF LifecycleRecord
  <2> QED
    BY <1>4, <2>2, <2>4, <2>5 DEF Held
<1>11. /\ offset' \in Nat /\ savedOffset' \in Nat /\ offset' >= offset
       /\ mishaps' \in Nat /\ mishaps' \in {mishaps, mishaps + 1}
       /\ \A x \in Updates : Passed(x)'
  <2>1. CASE live[u].state = "delivered"
    <3>1. ~ Accepts(live, u)
      BY <2>1 DEF Accepts
    <3>2. \A x \in Updates : x <= u => handled[x] > 0
      BY <1>4, <1>6, <1>10, <3>1
    <3> QED
      BY <1>1, <1>3, <1>4, <2>1, <3>2, CommitKeeps
  <2>2. CASE live[u].state # "delivered"
    BY <1>1, <1>3, <1>4, <2>2 DEF Passed, PollTyped
  <2> QED
    BY <2>1, <2>2
<1>12. current' = current \/ (current' = [update |-> u, awaits |-> "handle"] /\ Accepts(live, u))
  BY <1>3
<1>13. PollTyped'
  <2>1. u \in 1 .. sent
    BY <1>2, <1>4 DEF PollTyped
  <2>2. current' = NoUpdate \/ current' \in [update : 1 .. sent, awaits : {"handle", "reply"}]
    BY <1>1, <1>12, <2>1
  <2>3. batch' \subseteq 1 .. sent
    BY <1>3, <1>4 DEF PollTyped
  <2> QED
    BY <1>1, <1>4, <1>8, <1>11, <2>2, <2>3 DEF PollTyped
<1>14. InOrder'
  <2>1. \A b \in batch' : u < b /\ b \in Nat
    BY <1>2, <1>3, <1>4
  <2>2. /\ current'.update \in {0, u} /\ current'.awaits # "reply"
        /\ current'.update = u \/ handled[u] > 0
    BY <1>5, <1>10, <1>12, <1>3
  <2>3. ASSUME NEW x \in Updates, x < current'.update \/ (\E b \in batch' : x < b)
        PROVE  x \in batch' \/ x = current'.update \/ handled[x] > 0
    <3>1. CASE x < u
      BY <1>6, <3>1
    <3>2. CASE x = u
      BY <2>2, <3>2
    <3>3. CASE u < x
      <4>1. PICK b \in batch' : x < b
        BY <1>4, <2>2, <2>3, <3>3
      <4>2. x \in batch \/ handled[x] > 0
        <5>1. x # current.update /\ b \in batch
          BY <1>3, <1>4, <1>5
        <5> QED
          BY <1>4, <4>1, <5>1 DEF InOrder
      <4> QED
        BY <1>3, <1>4, <3>3, <4>2
    <3> QED
      BY <1>4, <3>1, <3>2, <3>3
  <2>4. \A b \in batch' : current'.update < b
    BY <1>4, <2>1, <2>2
  <2> QED
    BY <1>1, <2>2, <2>3, <2>4 DEF InOrder
<1>15. ASSUME NEW x \in Updates PROVE Held(x)' /\ Paid(x)'
  <2>1. Held(x) /\ Paid(x) /\ x # 0
    BY <1>4
  <2>2. Held(x)'
    <3>1. CASE x # u
      BY <1>1, <1>5, <1>9, <2>1, <3>1 DEF Held, Finals
    <3>2. CASE x = u /\ Accepts(live, u)
      <4>1. claims'[u].state \in {"claimed", "absent"} /\ current'.update = u
        BY <1>3, <1>8, <3>2 DEF EntryIn, NoEntry
      <4> QED
        BY <3>2, <4>1 DEF Held, Finals
    <3>3. CASE x = u /\ ~ Accepts(live, u)
      BY <1>1, <1>10, <3>3 DEF Held, Finals
    <3> QED
      BY <3>1, <3>2, <3>3
  <2>3. Paid(x)'
    <3>1. CASE mishaps' = mishaps + 1
      BY <1>1, <3>1, MishapPays
    <3>2. CASE mishaps' = mishaps
      <4>1. handled[x] = 1 + mishaps => x \notin batch /\ x < offset
        BY <1>5, <2>1 DEF Paid
      <4>2. handled[x] = 1 + mishaps => x \notin batch' /\ x # current'.update /\ x < offset'
        BY <1>2, <1>3, <1>4, <1>5, <1>11, <1>12, <4>1
      <4> QED
        BY <1>1, <2>1, <3>2, <4>2 DEF Paid
    <3> QED
      BY <1>11, <3>1, <3>2
  <2> QED
    BY <2>2, <2>3
<1> QED
  BY <1>11, <1>13, <1>14, <1>15 DEF PollInv

\* The update that is worked on.
LEMMA CurrentUpdate ==
  ASSUME PollInv, current.awaits \in {"handle", "reply"}
  PROVE  /\ current.update \in Updates /\ current.update \in 1 .. sent
         /\ current = [update |-> current.update, awaits |-> current.awaits]
<1>1. current \in [update : 1 .. sent, awaits : {"handle", "reply"}] /\ 1 .. sent \subseteq Updates
  BY PollParts DEF PollTyped, NoUpdate
<1> QED
  BY <1>1

\* The router handles what it was not paid for yet.
LEMMA HandleKeeps == ASSUME PollInv, HandleUpdate PROVE PollInv'
<1>1. PICK u \in Updates : u = current.update /\ u \in 1 .. sent /\ current = [update |-> u, awaits |-> "handle"]
  BY CurrentUpdate DEF HandleUpdate
<1>2. /\ handled' = [handled EXCEPT ![u] = @ + 1] /\ current' = [update |-> u, awaits |-> "reply"]
      /\ UNCHANGED <<sent, confirmed, offset, savedOffset, batch, claims, answered, mishaps>>
  BY <1>1 DEF HandleUpdate
<1>3. /\ PollTyped /\ InOrder /\ mishaps \in Nat /\ handled \in [Updates -> Nat]
      /\ \A x \in Updates : Passed(x) /\ Held(x) /\ Paid(x) /\ x \in Nat /\ handled[x] \in Nat
  BY PollParts DEF PollTyped
<1>4. /\ handled' \in [Updates -> Nat] /\ handled'[u] = handled[u] + 1
      /\ \A x \in Updates : x # u => handled'[x] = handled[x]
      /\ \A x \in Updates : handled'[x] >= handled[x] /\ handled'[x] \in Nat
  <2>1. handled[u] + 1 \in Nat
    BY <1>3
  <2>2. handled' \in [Updates -> Nat] /\ handled'[u] = handled[u] + 1 /\ \A x \in Updates : x # u => handled'[x] = handled[x]
    BY <1>2, <1>3, <2>1
  <2>3. ASSUME NEW x \in Updates PROVE handled'[x] >= handled[x] /\ handled'[x] \in Nat
    BY <1>3, <2>2
  <2> QED
    BY <2>2, <2>3
<1>5. handled'[u] > 0 /\ \A x \in Updates : handled[x] > 0 => handled'[x] > 0
  BY <1>3, <1>4
<1>6. PollTyped'
  BY <1>1, <1>2, <1>3, <1>4 DEF PollTyped
<1>7. InOrder'
  BY <1>1, <1>2, <1>3, <1>5 DEF InOrder
<1>8. ASSUME NEW x \in Updates PROVE Passed(x)' /\ Held(x)' /\ Paid(x)'
  <2>1. Passed(x) /\ Held(x) /\ Paid(x)
    BY <1>3
  <2>2. Passed(x)' /\ Held(x)'
    BY <1>1, <1>2, <1>5, <2>1 DEF Passed, Held
  <2>3. CASE x # u
    <3>1. handled'[x] = handled[x]
      BY <1>4, <2>3
    <3> QED
      BY <1>1, <1>2, <2>1, <2>2, <2>3, <3>1 DEF Paid
  <2>4. CASE x = u
    <3>1. handled[u] <= mishaps
      BY <1>1, <1>3, <2>1, <2>4 DEF Paid
    <3>2. u \notin batch
      BY <1>1, <1>3 DEF InOrder
    <3>3. handled'[u] <= 1 + mishaps
      BY <1>3, <1>4, <3>1
    <3> QED
      BY <1>2, <2>2, <2>4, <3>2, <3>3 DEF Paid
  <2> QED
    BY <2>2, <2>3, <2>4
<1> QED
  BY <1>6, <1>7, <1>8 DEF PollInv

\* The loop is done with an update, and the claims are settled.
LEMMA DoneKeeps ==
  ASSUME PollInv, current.awaits = "reply", current' = NoUpdate, UNCHANGED <<sent, confirmed, batch, handled>>,
         claims' = Closed(Unexpired(claims), current.update, "delivered")
           \/ claims' = Released(Unexpired(claims), current.update),
         offset' \in Nat, savedOffset' \in Nat, mishaps' \in Nat
  PROVE  PollTyped' /\ InOrder' /\ \A x \in Updates : Held(x)'
<1> DEFINE live == Unexpired(claims)
<1>1. PICK u \in Updates : u = current.update
  BY CurrentUpdate
<1>2. /\ PollTyped /\ InOrder /\ handled[u] > 0 /\ batch \subseteq Updates
      /\ \A x \in Updates : Held(x) /\ x \in Nat
  BY <1>1, PollParts DEF InOrder
<1>3. live \in [Updates -> LifecycleRecord] /\ \A x \in Updates : Dated(live[x]) /\ live[x].state \in {claims[x].state, "absent"}
  BY LiveClaims
<1>4. claims' = Closed(live, u, "delivered") \/ claims' = Released(live, u)
  BY <1>1
<1>5. "delivered" \in LifecycleState
  BY DEF LifecycleState, Finals
<1> HIDE DEF live
<1>6. claims' \in [Updates -> LifecycleRecord] /\ (\A x \in Updates : Dated(claims'[x])) /\ \A x \in Updates : x # u => claims'[x] = live[x]
  BY <1>3, <1>4, <1>5, ClosedTable
<1>7. claims'[u].state # "claimed"
  BY <1>3, <1>4 DEF Closed, Released, With, EntryIn
<1>8. PollTyped'
  BY <1>2, <1>6 DEF PollTyped
<1>9. InOrder'
  <2>1. current'.update = 0 /\ current'.awaits = "none"
    BY DEF NoUpdate
  <2>2. \A b \in batch : b \in Nat /\ 0 < b
    BY <1>2, PollParts
  <2>3. \A x \in Updates : ~ (x < 0)
    BY <1>2
  <2>4. \A x \in Updates : (\E b \in batch : x < b) => x \in batch \/ handled[x] > 0
    BY <1>1, <1>2 DEF InOrder
  <2> QED
    BY <2>1, <2>2, <2>3, <2>4 DEF InOrder
<1>10. ASSUME NEW x \in Updates PROVE Held(x)'
  <2>1. Held(x)
    BY <1>2
  <2>2. CASE x = u
    BY <1>2, <1>7, <2>2 DEF Held
  <2>3. CASE x # u
    BY <1>1, <1>3, <1>6, <2>1, <2>3 DEF Held, Finals
  <2> QED
    BY <2>2, <2>3
<1> QED
  BY <1>8, <1>9, <1>10

\* A reply that was delivered moves the offset past an update and all before it.
LEMMA SentKeeps == ASSUME PollInv, ReplySent PROVE PollInv'
<1>1. current.awaits = "reply" /\ current' = NoUpdate /\ UNCHANGED <<sent, confirmed, batch, handled>>
  BY DEF ReplySent
<1>2. PICK u \in Updates : u = current.update
  BY <1>1, CurrentUpdate
<1>3. claims' = Closed(Unexpired(claims), current.update, "delivered") /\ CommitOffset(u + 1)
  BY <1>2 DEF ReplySent
<1>4. /\ InOrder /\ handled[u] > 0 /\ batch \subseteq Updates /\ 0 \notin Updates /\ offset \in Nat /\ mishaps \in Nat
      /\ \A x \in Updates : Paid(x) /\ x \in Nat
  BY <1>1, <1>2, PollParts DEF InOrder, PollTyped
<1>5. \A b \in batch : u < b
  BY <1>2, <1>4 DEF InOrder
<1>6. \A x \in Updates : x <= u => handled[x] > 0
  <2> SUFFICES ASSUME NEW x \in Updates, x <= u PROVE handled[x] > 0
    OBVIOUS
  <2>1. CASE x = u
    BY <1>4, <2>1
  <2>2. CASE x < u
    <3>1. x \notin batch
      BY <1>4, <1>5, <2>2
    <3> QED
      BY <1>2, <1>4, <2>2, <3>1 DEF InOrder
  <2> QED
    BY <1>4, <2>1, <2>2
<1>7. /\ offset' \in Nat /\ savedOffset' \in Nat /\ offset' >= offset /\ u < offset'
      /\ mishaps' \in Nat /\ mishaps' \in {mishaps, mishaps + 1}
      /\ \A x \in Updates : Passed(x)'
  BY <1>1, <1>3, <1>6, CommitKeeps
<1>8. PollTyped' /\ InOrder' /\ \A x \in Updates : Held(x)'
  BY <1>1, <1>3, <1>7, DoneKeeps
<1>9. ASSUME NEW x \in Updates PROVE Paid(x)'
  <2>1. CASE mishaps' = mishaps + 1
    BY <1>1, <2>1, MishapPays
  <2>2. CASE mishaps' = mishaps
    <3>1. Paid(x) /\ x \in Nat /\ x # 0
      BY <1>4
    <3>2. handled[x] = 1 + mishaps => x \notin batch /\ x < offset'
      <4>1. CASE x = u
        BY <1>4, <1>5, <1>7, <4>1
      <4>2. CASE x # u
        BY <1>2, <1>4, <1>7, <3>1, <4>2 DEF Paid
      <4> QED
        BY <4>1, <4>2
    <3>3. x # current'.update
      BY <1>1, <3>1 DEF NoUpdate
    <3> QED
      BY <1>1, <2>2, <3>1, <3>2, <3>3 DEF Paid
  <2> QED
    BY <1>7, <2>1, <2>2
<1> QED
  BY <1>7, <1>8, <1>9 DEF PollInv

LEMMA FailKeeps == ASSUME PollInv, ReplyFails PROVE PollInv'
<1>1. /\ current.awaits = "reply" /\ current' = NoUpdate /\ mishaps' = mishaps + 1
      /\ claims' = Released(Unexpired(claims), current.update)
      /\ UNCHANGED <<sent, confirmed, offset, savedOffset, batch, handled>>
  BY DEF ReplyFails, Mishap
<1>2. offset' \in Nat /\ savedOffset' \in Nat /\ mishaps' \in Nat /\ \A x \in Updates : Passed(x)
  BY <1>1, PollParts DEF PollTyped
<1>3. PollTyped' /\ InOrder' /\ \A x \in Updates : Held(x)'
  BY <1>1, <1>2, DoneKeeps
<1>4. \A x \in Updates : Paid(x)'
  BY <1>1, MishapPays
<1>5. \A x \in Updates : Passed(x)'
  BY <1>1, <1>2 DEF Passed
<1> QED
  BY <1>3, <1>4, <1>5 DEF PollInv

\* A restart forgets everything but the file, and is a mishap.
LEMMA RestartKeeps == ASSUME PollInv, TelegramRestart PROVE PollInv'
<1>1. /\ mishaps' = mishaps + 1 /\ offset' = savedOffset /\ batch' = {} /\ current' = NoUpdate
      /\ claims' = [u \in Updates |-> NoEntry] /\ UNCHANGED <<sent, confirmed, savedOffset, handled, answered>>
  BY DEF TelegramRestart, Mishap
<1>2. PollTyped /\ mishaps \in Nat /\ savedOffset \in Nat /\ \A u \in Updates : Passed(u) /\ u \in Nat
  BY PollParts DEF PollTyped
<1>3. PollTyped'
  BY <1>1, <1>2, EntriesDated DEF PollTyped
<1>4. InOrder'
  <2>1. current'.update = 0 /\ current'.awaits = "none"
    BY <1>1 DEF NoUpdate
  <2>2. \A u \in Updates : ~ (u < 0)
    BY <1>2
  <2> QED
    BY <1>1, <2>1, <2>2 DEF InOrder
<1>5. \A u \in Updates : Passed(u)' /\ Held(u)'
  BY <1>1, <1>2 DEF Passed, Held, NoEntry, Finals
<1>6. \A u \in Updates : Paid(u)'
  BY <1>1, MishapPays
<1> QED
  BY <1>3, <1>4, <1>5, <1>6 DEF PollInv

LEMMA PollTicks == ASSUME PollInv, TelegramTick PROVE PollInv'
<1>1. /\ claims' = Elapsed(claims)
      /\ UNCHANGED <<sent, confirmed, offset, savedOffset, batch, current, handled, answered, mishaps>>
  BY DEF TelegramTick
<1>2. /\ PollTyped /\ InOrder /\ claims \in [Updates -> LifecycleRecord]
      /\ \A u \in Updates : Passed(u) /\ Held(u) /\ Paid(u) /\ Dated(claims[u])
  BY PollParts
<1>3. claims' \in [Updates -> LifecycleRecord] /\ \A u \in Updates : Dated(claims'[u]) /\ claims'[u].state = claims[u].state
  BY <1>1, <1>2, ElapsedTable
<1>4. PollTyped'
  BY <1>1, <1>2, <1>3 DEF PollTyped
<1>5. InOrder'
  BY <1>1, <1>2 DEF InOrder
<1>6. \A u \in Updates : Passed(u)' /\ Held(u)' /\ Paid(u)'
  BY <1>1, <1>2, <1>3 DEF Passed, Held, Paid
<1> QED
  BY <1>4, <1>5, <1>6 DEF PollInv

LEMMA PollBegins == TelegramInit => PollInv
<1> SUFFICES ASSUME TelegramInit PROVE PollInv
  OBVIOUS
<1>1. /\ sent = 0 /\ confirmed = 0 /\ offset = 0 /\ savedOffset = 0 /\ batch = {} /\ current = NoUpdate
      /\ claims = [u \in Updates |-> NoEntry] /\ handled = [u \in Updates |-> 0] /\ mishaps = 0
  BY DEF TelegramInit
<1>2. \A u \in Updates : u \in Nat /\ ~ (u < 0) /\ handled[u] = 0 /\ claims[u] = NoEntry
  BY <1>1 DEF Updates
<1>3. PollTyped
  BY <1>1, EntriesDated, TelegramAssumption DEF PollTyped
<1>4. InOrder
  BY <1>1, <1>2 DEF InOrder, NoUpdate
<1>5. \A u \in Updates : Passed(u) /\ Held(u) /\ Paid(u)
  BY <1>1, <1>2 DEF Passed, Held, Paid, NoEntry, Finals
<1> QED
  BY <1>3, <1>4, <1>5 DEF PollInv

LEMMA PollStep == PollInv /\ [TelegramNext]_telegramVars => PollInv'
<1> SUFFICES ASSUME PollInv, [TelegramNext]_telegramVars PROVE PollInv'
  OBVIOUS
<1>1. CASE PollLoop
  BY <1>1, PollKeeps, ClaimKeeps, HandleKeeps, SentKeeps, FailKeeps DEF PollLoop
<1>2. CASE UserSends \/ TelegramRestart \/ TelegramTick
  BY <1>2, SendKeeps, RestartKeeps, PollTicks
<1>3. CASE UNCHANGED telegramVars
  BY <1>3 DEF telegramVars, PollInv, PollTyped, InOrder, Passed, Held, Paid
<1> QED
  BY <1>1, <1>2, <1>3 DEF TelegramNext

LEMMA PollAlways == TelegramSpec => []PollInv
BY PollBegins, PollStep, PTL DEF TelegramSpec

\* The offset, in memory, in the file and as Telegram knows it, never passes an
\* update that the router has not handled, however many saves and replies fail
\* and wherever the connector stops.
THEOREM NothingIsSkipped == TelegramSpec => []NothingSkipped
<1>1. PollInv => NothingSkipped
  BY DEF PollInv, Passed, NothingSkipped
<1> QED
  BY <1>1, PollAlways, PTL

\* An update is handled again only after a failed reply, a failed save or a restart.
THEOREM RepeatsArePaid == TelegramSpec => []RepeatsNeedMishaps
<1>1. PollInv => RepeatsNeedMishaps
  BY DEF PollInv, Paid, RepeatsNeedMishaps
<1> QED
  BY <1>1, PollAlways, PTL

-----------------------------------------------------------------------------
(* The parts side by side, as the connector runs them.                     *)

ConnectorInv ==
  /\ IngressInv /\ Within(lifecycle)
  /\ CallbackInv /\ InstallInv /\ PollInv

\* What the replay table answers to a click, and what a record lets run again.
LEMMA ClicksReasoned == ASSUME CallbackInv PROVE DuplicateForReason /\ ReleasedCanRun
<1>1. ASSUME NEW b \in Buttons, Unexpired(requests)[b].state \in {"claimed"} \cup Finals
      PROVE  completed[b] > 0 \/ Served(b) # {} \/ b \in failedFor \cup raised
  <2>1. Unexpired(requests)[b] = IF requests[b].left = 0 THEN NoEntry ELSE requests[b]
    BY CallbackParts DEF Unexpired
  <2>2. requests[b].state \in {"claimed"} \cup Finals
    BY <1>1, <2>1 DEF NoEntry, Finals
  <2>3. Answers(b)
    BY CallbackParts
  <2> QED
    BY <2>2, <2>3 DEF Answers
<1>2. ASSUME NEW b \in Buttons, requests[b].state = "retryable_failure"
      PROVE  CreatedFrom(callbacks[b]).state = "pending"
  <2>1. callbacks[b].state \notin {"acknowledged", "delivered"} /\ callbacks[b] \in CallbackRecord
    BY <1>2, CallbackParts DEF Answers
  <2> QED
    BY <2>1 DEF CreatedFrom, CallbackRecord, CallbackState, OpenCallback
<1> QED
  BY <1>1, <1>2 DEF DuplicateForReason, ReleasedCanRun

LEMMA ConnectorWellTyped == ASSUME ConnectorInv PROVE ConnectorsTypeOK
<1>1. IngressTypeOK
  BY IngressWellTyped DEF ConnectorInv
<1>2. CallbackTypeOK
  BY DEF ConnectorInv, CallbackInv, CallbackTyped, Within, CallbackTypeOK
<1>3. InstallTypeOK
  <2>1. InstallTyped
    BY DEF ConnectorInv, InstallInv
  <2>2. \A n \in Nat : n <= given => n \in Token
    BY <2>1, InstallationsAssumption DEF InstallTyped, Token
  <2>3. granted \in Token /\ given \in Token /\ secret \in Token
    BY <2>1, <2>2 DEF InstallTyped
  <2>4. \A p \in Posts : post[p] \in PostRecord
    BY <2>1 DEF InstallTyped
  <2>5. \A p \in Posts : post[p].at \in {"idle", "sent", "answered"} /\ post[p].token \in Token
    BY <2>4 DEF PostRecord
  <2>6. cuts <= CUTS
    BY <2>1, InstallationsAssumption DEF InstallTyped
  <2> QED
    BY <2>1, <2>3, <2>5, <2>6 DEF InstallTyped, InstallTypeOK
<1> QED
  BY <1>1, <1>2, <1>3 DEF ConnectorsTypeOK

\* While one part moves the others stand still.
LEMMA PartsMove ==
  ASSUME [ConnectorsNext]_connectorVars
  PROVE  /\ [IngressNext]_ingressVars /\ [TelegramNext]_telegramVars
         /\ [CallbackNext]_callbackVars /\ [InstallNext]_installVars
<1>1. CASE UNCHANGED connectorVars
  BY <1>1 DEF connectorVars
<1>2. CASE ConnectorsNext
  BY <1>2 DEF ConnectorsNext
<1> QED
  BY <1>1, <1>2

LEMMA ConnectorAlways == ConnectorsSpec => []ConnectorInv
<1>1. ConnectorsInit => ConnectorInv
  BY InitHolds, WithinBegins, CallbackBegins, InstallBegins, PollBegins DEF ConnectorsInit, ConnectorInv
<1>2. ConnectorInv /\ [ConnectorsNext]_connectorVars => ConnectorInv'
  <2>1. SUFFICES ASSUME ConnectorInv, [ConnectorsNext]_connectorVars PROVE ConnectorInv'
    OBVIOUS
  <2>2. /\ [IngressNext]_ingressVars /\ [TelegramNext]_telegramVars
        /\ [CallbackNext]_callbackVars /\ [InstallNext]_installVars
    BY <2>1, PartsMove
  <2>3. IngressInv' /\ Within(lifecycle)'
    BY <2>1, <2>2, StepHolds, StepWithin DEF ConnectorInv
  <2>4. CallbackInv' /\ InstallInv' /\ PollInv'
    BY <2>1, <2>2, CallbackStep, InstallationStep, PollStep DEF ConnectorInv
  <2> QED
    BY <2>3, <2>4 DEF ConnectorInv
<1> QED
  BY <1>1, <1>2, PTL DEF ConnectorsSpec

\* Of whatever a platform delivers and whatever is clicked, nothing is refused
\* without a reason, and a click whose router raised can be made again, with the
\* parts of the connector moving in any order (claim, release_request_retryable).
THEOREM RefusalsAreReasoned == ConnectorsSpec => []RefusalsHaveReasons
<1>1. ConnectorInv => RefusalsHaveReasons
  BY DeliveriesReasoned, ClicksReasoned DEF ConnectorInv, RefusalsHaveReasons
<1> QED
  BY <1>1, ConnectorAlways, PTL

\* The replay tables never grow past max_entries, and the state of their users is
\* well formed (_enforce_cap_locked).
THEOREM ConnectorTyped == ConnectorsSpec => []ConnectorsTypeOK
BY ConnectorWellTyped, ConnectorAlways, PTL

\* What is proved of each part holds of the connector.
THEOREM ConnectorIsSafe ==
  ConnectorsSpec => [](OneRouter /\ ActionOnce /\ InstallationsSound /\ NothingSkipped /\ RepeatsNeedMishaps)
<1>1. ConnectorInv => OneRouter
  BY DEF ConnectorInv, IngressInv, Remembered, OneRouter, RoutersOf
<1>2. ConnectorInv => ActionOnce /\ InstallationsSound
  BY InstallationsHeld DEF ConnectorInv, CallbackInv, Guarded, ActionOnce
<1>3. ConnectorInv => NothingSkipped /\ RepeatsNeedMishaps
  BY DEF ConnectorInv, PollInv, Passed, Paid, NothingSkipped, RepeatsNeedMishaps
<1> QED
  BY <1>1, <1>2, <1>3, ConnectorAlways, PTL

=============================================================================
