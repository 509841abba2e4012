------------------------------- MODULE JobEvents -------------------------------
(***************************************************************************)
(* The job event store and its readers: emit appends to a bounded buffer   *)
(* that drops its oldest event (services/job_events.py,                    *)
(* observability/backpressure.py), one client follows the event stream and *)
(* reconnects with the id of the last event it received, another polls     *)
(* with a cursor (api/events.py).  An event is named by its number; it is  *)
(* shown until it is EVENT_TTL old.                                        *)
(*                                                                         *)
(* The store is in memory: after a restart of the server the numbers begin *)
(* again, while the clients keep theirs.                                   *)
(***************************************************************************)
EXTENDS Naturals, Sequences, SequencesExt

CONSTANTS
  CAPACITY,     \* MAX_EVENT_BUFFER
  EVENT_TTL,    \* EVENT_TTL_SEC, in ticks
  STREAM_LIMIT, \* events that the stream fetches at a time
  POLL_LIMIT,   \* events that a poll is answered with
  SCAN_CAP,     \* events that a poll looks at
  LAST_EVENT,   \* bound on the events of one life of the server
  RESTARTS      \* bound on restarts

\* A poll can look at the whole buffer (500 events each, unless configured).
ASSUME JobEventsAssumption ==
  /\ CAPACITY \in Nat \ {0} /\ SCAN_CAP \in Nat /\ SCAN_CAP >= CAPACITY
  /\ EVENT_TTL \in Nat /\ LAST_EVENT \in Nat /\ RESTARTS \in Nat
  /\ STREAM_LIMIT \in Nat \ {0} /\ POLL_LIMIT \in Nat \ {0}

VARIABLES
  counter,   \* _seq_counter
  buffer,    \* the events in the deque, oldest first: number and age
  restarts,  \* restarts so far
  open,      \* whether the stream client is connected
  fetched,   \* events the stream has fetched and not yet written
  sent,      \* last_seq of the stream
  wire,      \* events written that the client has not yet received
  seen,      \* the client's last event id
  received,  \* events of this life that the client has received
  cursor,    \* the polling client's cursor
  polled,    \* events of this life that it was answered with
  skipped    \* those that a reset, or a first answer, told it that it passes over

storeVars  == <<counter, buffer, restarts>>
streamVars == <<open, fetched, sent, wire, seen, received>>
pollVars   == <<cursor, polled, skipped>>
eventVars  == <<storeVars, streamVars, pollVars>>

Shown(e)   == e.age <= EVENT_TTL

\* The places in the buffer, of the first `scan', of what a reader that has seen all
\* up to `last' may be shown; and the k-th of some places.
Hits(last, scan) ==
  {i \in DOMAIN buffer : i <= scan /\ buffer[i].seq > last /\ Shown(buffer[i])}
Nth(H, k) == CHOOSE i \in H : Cardinality({j \in H : j <= i}) = k

\* events_since and events_since_bounded: the numbers of at most n of them, in order.
EventsSince(last, n, scan) ==
  LET hits  == Hits(last, scan)
      found == Cardinality(hits)
  IN  [k \in 1 .. (IF found < n THEN found ELSE n) |-> buffer[Nth(hits, k)].seq]

\* emit, by a handler, a watcher or a download's thread.
Emit ==
  /\ counter < LAST_EVENT
  /\ counter' = counter + 1
  /\ LET more == Append(buffer, [seq |-> counter', age |-> 0])
     IN  buffer' = IF Len(more) > CAPACITY THEN Tail(more) ELSE more
  /\ UNCHANGED <<restarts, streamVars, pollVars>>

\* The stream handler begins where the client says that it stopped.
Connect ==
  /\ ~ open
  /\ open' = TRUE /\ sent' = seen
  /\ UNCHANGED <<storeVars, fetched, wire, seen, received, pollVars>>

Fetch ==
  /\ open /\ fetched = <<>>
  /\ fetched' = EventsSince(sent, STREAM_LIMIT, Len(buffer))
  /\ UNCHANGED <<storeVars, open, sent, wire, seen, received, pollVars>>

WriteEvent ==
  /\ fetched # <<>>
  /\ wire' = Append(wire, Head(fetched))
  /\ sent' = Head(fetched)
  /\ fetched' = Tail(fetched)
  /\ UNCHANGED <<storeVars, open, seen, received, pollVars>>

Receive ==
  /\ wire # <<>>
  /\ seen' = Head(wire) /\ received' = received \cup {Head(wire)}
  /\ wire' = Tail(wire)
  /\ UNCHANGED <<storeVars, open, fetched, sent, pollVars>>

\* Mutation: the client takes what was sent for received.
DisconnectAtSent ==
  /\ open
  /\ open' = FALSE /\ fetched' = <<>> /\ wire' = <<>>
  /\ seen' = sent
  /\ UNCHANGED <<storeVars, sent, received, pollVars>>

\* The connection is lost, or ends after its maximal duration.
Disconnect ==
  /\ open
  /\ open' = FALSE /\ fetched' = <<>> /\ wire' = <<>>
  /\ UNCHANGED <<storeVars, sent, seen, received, pollVars>>

\* The first of a poll's two looks at the buffer, and the earliest event that it
\* knows of then: of its answer, or of all that are shown.
PollScan(since) == EventsSince(since, POLL_LIMIT, SCAN_CAP)
Earliest(since) ==
  LET found == PollScan(since)  all == EventsSince(0, 1, Len(buffer))
  IN  IF found # <<>> THEN Head(found) ELSE IF all # <<>> THEN Head(all) ELSE 0

\* Mutation: a gap of one event is none.
StaleByTwo(since) == since # 0 /\ since + 2 < Earliest(since)

\* A cursor is of the future, or stale: then it is moved to the earliest event.
Future(since) == since > counter
Stale(since)  == since # 0 /\ since + 1 < Earliest(since)
Effective(since) ==
  IF Future(since) THEN counter ELSE IF Stale(since) THEN Earliest(since) - 1 ELSE since
PollAnswer(since) == PollScan(Effective(since))
NextCursor(since) ==
  LET a == PollAnswer(since) IN IF a # <<>> THEN a[Len(a)] ELSE Effective(since)

\* The cursor status "ok" of a poll that is not the first (then the answer says that it is a
\* snapshot).
IsOk(since) == since # 0 /\ ~ Future(since) /\ ~ Stale(since)

\* events_poll_handler; an answer that is lost leaves the client where it was.
PollEvents ==
  /\ cursor' = NextCursor(cursor)
  /\ polled' = polled \cup ToSet(PollAnswer(cursor))
  /\ skipped' = IF IsOk(cursor) THEN skipped ELSE skipped \cup 1 .. NextCursor(cursor)
  /\ UNCHANGED <<storeVars, streamVars>>

EventsTick ==
  /\ buffer' = [i \in DOMAIN buffer |->
                  [buffer[i] EXCEPT !.age = IF @ > EVENT_TTL THEN @ ELSE @ + 1]]
  /\ UNCHANGED <<counter, restarts, streamVars, pollVars>>

EventsRestart ==
  /\ restarts < RESTARTS /\ restarts' = restarts + 1
  /\ counter' = 0 /\ buffer' = <<>>
  /\ open' = FALSE /\ fetched' = <<>> /\ wire' = <<>>
  /\ received' = {} /\ polled' = {} /\ skipped' = {}
  /\ UNCHANGED <<sent, seen, cursor>>

EventsInit ==
  /\ counter = 0 /\ buffer = <<>> /\ restarts = 0
  /\ open = FALSE /\ fetched = <<>> /\ sent = 0 /\ wire = <<>>
  /\ seen = 0 /\ received = {}
  /\ cursor = 0 /\ polled = {} /\ skipped = {}

EventsNext ==
  \/ Emit \/ EventsTick \/ EventsRestart
  \/ Connect \/ Fetch \/ WriteEvent \/ Receive \/ Disconnect
  \/ PollEvents

EventsSpec == EventsInit /\ [][EventsNext]_eventVars

-----------------------------------------------------------------------------
(* Properties.                                                             *)

\* "Clients can resume from Last-Event-ID": an event that the store still shows and
\* that the client's last event id says it has seen, it has received.
ResumeMissesNothing ==
  \A i \in DOMAIN buffer : Shown(buffer[i]) /\ buffer[i].seq <= seen => buffer[i].seq \in received

\* In one life of the server that is so, however often the connection breaks.
ResumeInOneLife == restarts = 0 => ResumeMissesNothing

\* A poll whose cursor status is "ok" skips nothing on its way to the next cursor: every
\* event between the two is in its answer.
OkSkipsNothing ==
  IsOk(cursor) => \A n \in cursor + 1 .. NextCursor(cursor) : n \in ToSet(PollAnswer(cursor))

\* In one life of the server, what lies behind the cursor was in an answer, or the client
\* was told that it passes over it and the store shows it no more.
BehindCursor ==
  restarts = 0 =>
    \A n \in 1 .. cursor :
      \/ n \in polled
      \/ n \in skipped /\ \A i \in DOMAIN buffer : buffer[i].seq = n => ~ Shown(buffer[i])

\* A poll is never answered with nothing while a newer event is shown.
PollAdvances ==
  (\E i \in DOMAIN buffer : Shown(buffer[i]) /\ buffer[i].seq > cursor)
    => Future(cursor) \/ PollAnswer(cursor) # <<>>

\* The four together, through broken streams, expiry and overflow: in one life of the
\* server what lies behind a reader's number has reached it, or it was told; and in any
\* life no poll comes back empty, or passes over an event with an "ok", ahead of its cursor.
\* What lies behind a cursor of a former life is not promised.
ReadersMissNothing == ResumeInOneLife /\ BehindCursor /\ OkSkipsNothing /\ PollAdvances
=============================================================================
