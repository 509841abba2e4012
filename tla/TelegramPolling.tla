--------------------------- MODULE TelegramPolling ---------------------------
(***************************************************************************)
(* The Telegram adapter: one loop asks the Bot API for updates from its    *)
(* offset on, handles them one after the other, and moves the offset past  *)
(* those it has answered (connector/platforms/telegram_polling.py,         *)
(* connector/state.py).  Telegram keeps an update until a request with a   *)
(* greater offset confirms it; the offset is saved to a file, whose write  *)
(* may fail silently, and the replay table decides what is claimed again.  *)
(*                                                                         *)
(* The loop awaits the router and then the reply; a connector that stops   *)
(* there has lost all but the file.                                        *)
(***************************************************************************)
EXTENDS ReplayLifecycle, FiniteSetsExt

CONSTANTS
  LAST_UPDATE,     \* bound: updates 1 .. LAST_UPDATE are sent
  TELEGRAM_FAULTS  \* bound: failed replies, failed saves and restarts together

ASSUME TelegramAssumption == LAST_UPDATE \in Nat \ {0} /\ TELEGRAM_FAULTS \in Nat

VARIABLES
  sent,        \* updates that users have sent so far
  confirmed,   \* the greatest offset that Telegram was asked for
  offset,      \* self.offset
  savedOffset, \* telegram_offset in connector_state.json
  batch,       \* the updates of the last answer that are still to be handled
  current,     \* the claimed update and what the loop awaits: "handle" or "reply"
  claims,      \* _update_lifecycle
  handled,     \* how often the router has handled each update
  answered,    \* the updates whose reply was delivered
  mishaps      \* faults so far

telegramVars == <<sent, confirmed, offset, savedOffset, batch, current, claims,
                  handled, answered, mishaps>>

Updates  == 1 .. LAST_UPDATE
NoUpdate == [update |-> 0, awaits |-> "none"]

Mishap == mishaps < TELEGRAM_FAULTS /\ mishaps' = mishaps + 1

\* _commit_offset; a save that fails is logged, and the offset stays in memory.
CommitOffset(n) ==
  IF n > offset
  THEN /\ offset' = n
       /\ \/ savedOffset' = n /\ UNCHANGED mishaps
          \/ savedOffset' = savedOffset /\ Mishap
  ELSE UNCHANGED <<offset, savedOffset, mishaps>>

UserSends ==
  /\ sent < LAST_UPDATE /\ sent' = sent + 1
  /\ UNCHANGED <<confirmed, offset, savedOffset, batch, current, claims, handled, answered, mishaps>>

\* Mutation: the offset is moved before the batch is handled.
GetUpdatesCommits ==
  /\ batch = {} /\ current = NoUpdate
  /\ confirmed' = Max({confirmed, offset})
  /\ batch' = {u \in 1 .. sent : u >= confirmed'}
  /\ CommitOffset(sent + 1)
  /\ UNCHANGED <<sent, current, claims, handled, answered>>

\* getUpdates: Telegram forgets what is before the offset and returns the rest.
GetUpdates ==
  /\ batch = {} /\ current = NoUpdate
  /\ confirmed' = Max({confirmed, offset})
  /\ batch' = {u \in 1 .. sent : u >= confirmed'}
  /\ UNCHANGED <<sent, offset, savedOffset, current, claims, handled, answered, mishaps>>

\* The next update of the batch is claimed; one that is refused is passed over,
\* and moves the offset if it was answered before.
ClaimUpdate ==
  /\ batch # {} /\ current = NoUpdate
  /\ LET u == Min(batch) live == Unexpired(claims)
     IN  /\ \E m \in Claims(live, u) : claims' = m
         /\ batch' = batch \ {u}
         /\ current' = IF Accepts(live, u) THEN [update |-> u, awaits |-> "handle"] ELSE current
         /\ IF live[u].state = "delivered" THEN CommitOffset(u + 1)
            ELSE UNCHANGED <<offset, savedOffset, mishaps>>
  /\ UNCHANGED <<sent, confirmed, handled, answered>>

\* The router has handled the command; an exception only changes the reply.
HandleUpdate ==
  /\ current.awaits = "handle"
  /\ handled' = [handled EXCEPT ![current.update] = @ + 1]
  /\ current' = [current EXCEPT !.awaits = "reply"]
  /\ UNCHANGED <<sent, confirmed, offset, savedOffset, batch, claims, answered, mishaps>>

\* Mutation: an answered update is released, and the offset stays.
ReplySentReleases ==
  /\ current.awaits = "reply"
  /\ claims' = Released(Unexpired(claims), current.update)
  /\ answered' = answered \cup {current.update}
  /\ current' = NoUpdate
  /\ UNCHANGED <<sent, confirmed, offset, savedOffset, batch, handled, mishaps>>

\* The reply was delivered, or suppressed: the update is done.
ReplySent ==
  /\ current.awaits = "reply"
  /\ LET u == current.update
     IN  /\ claims' = Closed(Unexpired(claims), u, "delivered")
         /\ answered' = answered \cup {u}
         /\ CommitOffset(u + 1)
  /\ current' = NoUpdate
  /\ UNCHANGED <<sent, confirmed, batch, handled>>

\* sendMessage failed: the claim is released and the offset stays.
ReplyFails ==
  /\ current.awaits = "reply" /\ Mishap
  /\ claims' = Released(Unexpired(claims), current.update)
  /\ current' = NoUpdate
  /\ UNCHANGED <<sent, confirmed, offset, savedOffset, batch, handled, answered>>

TelegramRestart ==
  /\ Mishap
  /\ offset' = savedOffset
  /\ batch' = {} /\ current' = NoUpdate
  /\ claims' = [u \in Updates |-> NoEntry]
  /\ UNCHANGED <<sent, confirmed, savedOffset, handled, answered>>

TelegramTick ==
  /\ claims' = Elapsed(claims)
  /\ UNCHANGED <<sent, confirmed, offset, savedOffset, batch, current, handled, answered, mishaps>>

TelegramInit ==
  /\ sent = 0 /\ confirmed = 0 /\ offset = 0 /\ savedOffset = 0
  /\ batch = {} /\ current = NoUpdate
  /\ claims = [u \in Updates |-> NoEntry]
  /\ handled = [u \in Updates |-> 0] /\ answered = {}
  /\ mishaps = 0

PollLoop == GetUpdates \/ ClaimUpdate \/ HandleUpdate \/ ReplySent \/ ReplyFails

TelegramNext == UserSends \/ PollLoop \/ TelegramRestart \/ TelegramTick

TelegramFairness == WF_telegramVars(PollLoop)

TelegramSpec == TelegramInit /\ [][TelegramNext]_telegramVars /\ TelegramFairness

-----------------------------------------------------------------------------
(* Properties.                                                             *)

\* The offset in memory and in the file never passes an update that was not
\* handled, whatever fails and wherever the connector stops (_commit_offset).
NothingSkipped ==
  \A u \in Updates : u < offset \/ u < savedOffset \/ u < confirmed => handled[u] > 0

\* A command runs again only after a failed reply or a restart.
RepeatsNeedMishaps == \A u \in Updates : handled[u] <= 1 + mishaps

\* Every update that was sent is handled in the end.
EventuallyHandled == \A u \in Updates : sent >= u ~> handled[u] > 0

\* "keep failed-before-delivery updates retryable": an update whose reply failed
\* stays ahead of the offset until its reply is delivered.
FailedStaysRetryable ==
  \A u \in Updates :
    handled[u] > 0 /\ u \notin answered => u >= offset /\ u >= savedOffset
=============================================================================
