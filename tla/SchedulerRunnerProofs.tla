------------------------- MODULE SchedulerRunnerProofs -------------------------
(***************************************************************************)
(* The scheduler for any schedules, threads, limits and faults: its state  *)
(* stays well formed, and no idempotency key is queued twice.              *)
(*                                                                         *)
(* KeyOnce is not inductive: a post adds a prompt whatever was queued      *)
(* before.  The invariant says why it may: the key is taken from when it   *)
(* is reserved, and between its reservation and its post it belongs to one *)
(* thread and has no prompt.  A crash loses the threads but not the key.   *)
(***************************************************************************)
EXTENDS SchedulerRunner, FiniteSetTheorems, TLAPS

ScheduleState == [cursor : Cursor, errors : Nat, enabled : BOOLEAN]

\* A thread is between executions, or works on one.
Resting == [at : {"dead", "boot", "wait", "pick"}, todo : SUBSET Work, ts : Time, prompt : BOOLEAN]
Working == [at : Positions, todo : SUBSET Work, ts : Time, prompt : BOOLEAN, job : Work]

ThreadsTyped ==
  /\ thread \in [Thread -> Resting \cup Working]
  /\ \A x \in Thread : thread[x].at \notin {"dead", "boot", "wait", "pick"} => thread[x] \in Working

BooksTyped ==
  /\ schedules \in [Schedules -> ScheduleState] /\ schedulesDisk \in [Schedules -> ScheduleState]
  /\ history \subseteq Key /\ historyDisk \subseteq Key /\ intents \subseteq Key

PromptsTyped ==
  /\ keys \in [Key -> {"free", "taken", "prompt"}]
  /\ queued \subseteq Prompt /\ late \subseteq Prompt

ControlTyped ==
  /\ now \in Time /\ ticked \subseteq Loop
  /\ running \in BOOLEAN /\ stopping \in BOOLEAN /\ delegated \in BOOLEAN
  /\ faultsLeft \in 0 .. MaxFaults

RunnerTyped == ThreadsTyped /\ BooksTyped /\ PromptsTyped /\ ControlTyped

\* A key that has a prompt is taken.
Accounted == \A p \in queued \cup late : keys[p.key] # "free"

\* A thread that is about to post has its key for itself, and nothing was posted.
Exclusive ==
  \A x \in Thread : thread[x].at = "post" =>
    /\ keys[KeyOf(x)] # "free"
    /\ \A p \in queued \cup late : p.key # KeyOf(x)
    /\ \A y \in Thread : thread[y].at = "post" /\ KeyOf(y) = KeyOf(x) => y = x

RunnerInv == RunnerTyped /\ Accounted /\ Exclusive /\ KeyOnce

-----------------------------------------------------------------------------
(* Arithmetic of periods and minutes.                                      *)

LEMMA WholePart ==
  ASSUME NEW a \in Nat, NEW b \in Nat \ {0}
  PROVE  /\ a \div b \in Nat /\ (a \div b) * b <= a
         /\ a < (a \div b) * b + b
BY SMTT(30)

LEMMA MinutesGrow ==
  ASSUME NEW t \in Time
  PROVE  MinuteOf(t) \in 0 .. MinuteOf(MaxTime)
<1>1. /\ t \in Nat /\ MaxTime \in Nat /\ MINUTE \in Nat \ {0} /\ t <= MaxTime
  BY RunnerAssumption DEF Time
<1> DEFINE u == t \div MINUTE
           v == MaxTime \div MINUTE
<1>2. u \in Nat /\ u * MINUTE <= t /\ v \in Nat /\ MaxTime < v * MINUTE + MINUTE
  BY <1>1, WholePart
<1> HIDE DEF u, v
<1>3. ASSUME v < u PROVE FALSE
  <2>1. (v + 1) * MINUTE <= u * MINUTE
    BY <1>1, <1>2, <1>3, SMTT(30)
  <2>2. (v + 1) * MINUTE = v * MINUTE + MINUTE
    BY <1>1, <1>2
  <2>3. v * MINUTE \in Nat /\ u * MINUTE \in Nat
    BY <1>1, <1>2
  <2>4. QED
    BY <1>1, <1>2, <2>1, <2>2, <2>3
<1>4. u \in 0 .. v
  BY <1>2, <1>3
<1>5. QED
  BY <1>4 DEF MinuteOf, u, v

-----------------------------------------------------------------------------
(* What steps have in common.                                              *)

LEMMA FaultSpent ==
  ASSUME ControlTyped
  PROVE  /\ NoFault => faultsLeft' \in 0 .. MaxFaults
         /\ \A kind : Fault(kind) => faultsLeft' \in 0 .. MaxFaults
BY RunnerAssumption DEF ControlTyped, NoFault, Fault

LEMMA Saved ==
  ASSUME ControlTyped, BooksTyped, SaveSchedules, schedules' \in [Schedules -> ScheduleState]
  PROVE  schedulesDisk' \in [Schedules -> ScheduleState] /\ faultsLeft' \in 0 .. MaxFaults
BY FaultSpent DEF SaveSchedules, BooksTyped

\* A thread that works on a schedule has a key.
LEMMA HasKey ==
  ASSUME ThreadsTyped, NEW x \in Thread, thread[x].at \notin {"dead", "boot", "wait", "pick"}
  PROVE  KeyOf(x) \in Key /\ thread[x] \in Working
<1>1. thread[x] \in Working
  BY DEF ThreadsTyped
<1>2. thread[x].job.s \in Schedules /\ thread[x].ts \in Time
  BY <1>1 DEF Working, Work
<1>3. QED
  BY <1>1, <1>2, MinutesGrow DEF KeyOf, Key

\* A thread enters a state, and the others stay in theirs.
LEMMA Enters ==
  ASSUME ThreadsTyped, NEW x \in Thread, NEW r \in Resting \cup Working,
         r.at \notin {"dead", "boot", "wait", "pick"} => r \in Working,
         thread' = [thread EXCEPT ![x] = r]
  PROVE  ThreadsTyped' /\ thread'[x] = r /\ \A y \in Thread \ {x} : thread'[y] = thread[y]
BY DEF ThreadsTyped

\* A thread goes on with its work, on the same key.
LEMMA Goes ==
  ASSUME ThreadsTyped, NEW x \in Thread, NEW at \in Positions, NEW b \in BOOLEAN,
         thread[x].at \notin {"dead", "boot", "wait", "pick"},
         \/ GoTo(x, at)
         \/ thread' = [thread EXCEPT ![x].at = at, ![x].prompt = b]
  PROVE  /\ ThreadsTyped' /\ thread'[x].at = at /\ KeyOf(x)' = KeyOf(x)
         /\ \A y \in Thread \ {x} : thread'[y] = thread[y]
<1>1. thread[x] \in Working /\ thread \in [Thread -> Resting \cup Working]
  BY HasKey DEF ThreadsTyped
<1>2. PICK p \in BOOLEAN :
        thread' = [thread EXCEPT ![x] = [thread[x] EXCEPT !.at = at, !.prompt = p]]
  <2>1. CASE GoTo(x, at)
    <3>1. thread[x].prompt \in BOOLEAN
      BY <1>1 DEF Working
    <3>2. [thread[x] EXCEPT !.at = at] = [thread[x] EXCEPT !.at = at, !.prompt = thread[x].prompt]
      BY <1>1 DEF Working
    <3>3. thread' = [thread EXCEPT ![x] = [thread[x] EXCEPT !.at = at]]
      BY <2>1, Zenon DEF GoTo
    <3>4. QED
      BY <3>1, <3>2, <3>3
  <2>2. CASE thread' = [thread EXCEPT ![x].at = at, ![x].prompt = b]
    <3>1. thread' = [thread EXCEPT ![x] = [thread[x] EXCEPT !.at = at, !.prompt = b]]
      BY <2>2, <1>1
    <3>2. QED
      BY <3>1
  <2>3. QED
    BY <2>1, <2>2
<1> DEFINE r == [thread[x] EXCEPT !.at = at, !.prompt = p]
<1>3. r \in Working /\ r.at = at /\ r.job = thread[x].job /\ r.ts = thread[x].ts
  BY <1>1 DEF Working
<1>4. thread' = [thread EXCEPT ![x] = r]
  BY <1>2
<1> HIDE DEF r
<1>5. ThreadsTyped' /\ thread'[x] = r /\ \A y \in Thread \ {x} : thread'[y] = thread[y]
  BY <1>3, <1>4, Enters
<1>6. QED
  BY <1>3, <1>5 DEF KeyOf

\* A step that queues nothing new and lets no thread begin to post.
LEMMA QuietStep ==
  ASSUME RunnerInv, queued' \cup late' \subseteq queued \cup late,
         \A k \in Key : keys[k] # "free" => keys'[k] # "free",
         \A x \in Thread : thread'[x].at = "post" => thread'[x] = thread[x]
  PROVE  Accounted' /\ Exclusive' /\ KeyOnce'
<1>1. \A p \in queued \cup late : p.key \in Key
  BY DEF RunnerInv, RunnerTyped, PromptsTyped, Prompt
<1>2. \A x \in Thread : thread'[x].at = "post" => /\ thread[x].at = "post"
                                                  /\ KeyOf(x)' = KeyOf(x) /\ KeyOf(x) \in Key
  BY HasKey DEF RunnerInv, RunnerTyped, KeyOf
<1>3. Accounted' /\ KeyOnce'
  BY <1>1 DEF RunnerInv, Accounted, KeyOnce
<1>4. Exclusive'
  BY <1>2 DEF RunnerInv, Exclusive
<1>5. QED
  BY <1>3, <1>4

-----------------------------------------------------------------------------
(* The cursors.                                                            *)

LEMMA EvaluatedTyped ==
  ASSUME BooksTyped, NEW s \in Schedules
  PROVE  /\ Evaluated(s) \in ScheduleState
         /\ \A c \in Cursor : [Evaluated(s) EXCEPT !.cursor = c] \in ScheduleState
<1>1. schedules[s] \in ScheduleState
  BY DEF BooksTyped
<1> DEFINE r == schedules[s]
           limit == IF DISABLE_THRESHOLD < 1 THEN 1 ELSE DISABLE_THRESHOLD
<1> HIDE DEF r, limit
<1>2. Evaluated(s) \in ScheduleState
  <2>1. limit \in Int /\ r \in ScheduleState
    BY <1>1, RunnerAssumption DEF limit, r
  <2>2. Evaluated(s) \in {r, [r EXCEPT !.errors = @ + 1, !.enabled = r.errors + 1 < limit],
                         [r EXCEPT !.errors = 0]}
    BY Zenon DEF Evaluated, r, limit
  <2>3. \A n \in Nat, b \in BOOLEAN :
          /\ [r EXCEPT !.errors = n, !.enabled = b] \in ScheduleState
          /\ [r EXCEPT !.errors = n] \in ScheduleState
    BY <2>1 DEF ScheduleState
  <2>4. r.errors + 1 \in Nat /\ (r.errors + 1 < limit) \in BOOLEAN
    BY <2>1 DEF ScheduleState
  <2>5. QED
    BY <2>1, <2>2, <2>3, <2>4
<1>3. QED
  BY <1>2 DEF ScheduleState

LEMMA CursorsTyped ==
  ASSUME BooksTyped, ControlTyped, NEW s \in Schedules
  PROVE  /\ \A ts \in Time : CursorAfter(s, ts) \in Cursor
         /\ CursorSkipped(s) \in Cursor
<1>1. schedules[s].cursor \in Cursor /\ now \in Time /\ INTERVAL \in Nat \ {0} /\ MaxTime \in Nat
  BY RunnerAssumption DEF BooksTyped, ControlTyped, ScheduleState
<1> DEFINE c == schedules[s].cursor
<1> HIDE DEF c
<1>2. ASSUME NEW ts \in Time PROVE CursorAfter(s, ts) \in Cursor
  BY <1>1, <1>2 DEF CursorAfter, Cursor, Time, NoTick, c
<1>3. ASSUME s \notin Cron /\ c # NoTick /\ now - c >= INTERVAL
      PROVE  CursorSkipped(s) \in Cursor
  <2>1. c \in Nat /\ now \in Nat /\ now - c \in Nat /\ now <= MaxTime
    BY <1>1, <1>3 DEF Cursor, Time, NoTick, c
  <2> DEFINE step == ((now - c) \div INTERVAL) * INTERVAL
  <2>2. step \in Nat /\ step <= now - c
    BY <1>1, <2>1, WholePart
  <2> HIDE DEF step
  <2>3. c + step \in Time
    BY <1>1, <2>1, <2>2 DEF Time
  <2>4. CursorSkipped(s) = c + step
    BY <1>3, Zenon DEF CursorSkipped, c, step
  <2>5. QED
    BY <2>3, <2>4 DEF Cursor
<1>4. ASSUME ~ (s \notin Cron /\ c # NoTick /\ now - c >= INTERVAL)
      PROVE  CursorSkipped(s) \in Cursor
  <2>1. CursorSkipped(s) = now
    BY <1>4, Zenon DEF CursorSkipped, c
  <2>2. QED
    BY <1>1, <2>1 DEF Cursor
<1>5. QED
  BY <1>2, <1>3, <1>4

-----------------------------------------------------------------------------
(* The loop.                                                               *)

LEMMA RestStates ==
  /\ AtRest \in Resting /\ Dead \in Resting
  /\ [AtRest EXCEPT !.at = "boot"] \in Resting
  /\ \A C \in SUBSET Work, t \in Time :
       [AtRest EXCEPT !.at = "pick", !.ts = t, !.todo = C] \in Resting
  /\ AtRest.at = "wait" /\ Dead.at = "dead" /\ [AtRest EXCEPT !.at = "boot"].at = "boot"
  /\ \A C \in SUBSET Work, t \in Time :
       [AtRest EXCEPT !.at = "pick", !.ts = t, !.todo = C].at = "pick"
<1>1. 0 \in Time
  BY RunnerAssumption DEF Time
<1>2. QED
  BY <1>1 DEF AtRest, Dead, Resting

LEMMA StartHolds ==
  ASSUME RunnerInv, NEW l \in Loop, Start(l)
  PROVE  RunnerInv'
<1>1. ThreadsTyped /\ l \in Thread
  BY DEF RunnerInv, RunnerTyped, Thread
<1>2. /\ ThreadsTyped' /\ thread'[l].at = "boot" /\ \A y \in Thread \ {l} : thread'[y] = thread[y]
  <2>1. thread' = [thread EXCEPT ![l] = [AtRest EXCEPT !.at = "boot"]]
    BY DEF Start
  <2>2. QED
    BY <1>1, <2>1, RestStates, Enters
<1>3. RunnerTyped'
  BY <1>2 DEF RunnerInv, RunnerTyped, Start, BooksTyped, PromptsTyped, ControlTyped,
              memory, files, prompts
<1>4. Accounted' /\ Exclusive' /\ KeyOnce'
  BY <1>2, QuietStep DEF Start, files, prompts
<1>5. QED
  BY <1>3, <1>4 DEF RunnerInv

LEMMA LoopEndsHolds ==
  ASSUME RunnerInv, NEW l \in Loop, LoopEnds(l)
  PROVE  RunnerInv'
<1>1. ThreadsTyped /\ l \in Thread
  BY DEF RunnerInv, RunnerTyped, Thread
<1>2. /\ ThreadsTyped' /\ thread'[l].at = "dead" /\ \A y \in Thread \ {l} : thread'[y] = thread[y]
  <2>1. thread' = [thread EXCEPT ![l] = Dead]
    BY DEF LoopEnds
  <2>2. QED
    BY <1>1, <2>1, RestStates, Enters
<1>3. RunnerTyped'
  BY <1>2 DEF RunnerInv, RunnerTyped, LoopEnds, BooksTyped, PromptsTyped, ControlTyped,
              memory, files, prompts
<1>4. Accounted' /\ Exclusive' /\ KeyOnce'
  BY <1>2, QuietStep DEF LoopEnds, files, prompts
<1>5. QED
  BY <1>3, <1>4 DEF RunnerInv

LEMMA BootHolds ==
  ASSUME RunnerInv, NEW l \in Loop, Boot(l)
  PROVE  RunnerInv'
<1>1. ThreadsTyped /\ BooksTyped /\ ControlTyped /\ l \in Thread
  BY DEF RunnerInv, RunnerTyped, Thread
<1>2. /\ ThreadsTyped' /\ thread'[l].at = "wait" /\ \A y \in Thread \ {l} : thread'[y] = thread[y]
  <2>1. thread' = [thread EXCEPT ![l] = AtRest]
    BY DEF Boot
  <2>2. QED
    BY <1>1, <2>1, RestStates, Enters
<1>3. /\ schedules' \in [Schedules -> ScheduleState] /\ schedulesDisk' \in [Schedules -> ScheduleState]
      /\ faultsLeft' \in 0 .. MaxFaults
  <2>1. CASE SKIP_MISSED
    <3>1. schedules' = [s \in Schedules |->
             IF s \in DueNow THEN [Evaluated(s) EXCEPT !.cursor = CursorSkipped(s)]
                             ELSE Evaluated(s)]
      BY <2>1 DEF Boot
    <3>2. schedules' \in [Schedules -> ScheduleState]
      BY <1>1, <3>1, EvaluatedTyped, CursorsTyped
    <3>3. SaveSchedules \/ (UNCHANGED schedulesDisk /\ NoFault)
      BY <2>1 DEF Boot
    <3>4. QED
      BY <1>1, <3>2, <3>3, Saved, FaultSpent DEF BooksTyped
  <2>2. CASE ~ SKIP_MISSED
    BY <2>2, <1>1 DEF Boot, BooksTyped, ControlTyped
  <2>3. QED
    BY <2>1, <2>2
<1>4. RunnerTyped'
  BY <1>2, <1>3 DEF RunnerInv, RunnerTyped, Boot, BooksTyped, PromptsTyped, ControlTyped,
                    prompts, control
<1>5. Accounted' /\ Exclusive' /\ KeyOnce'
  BY <1>2, QuietStep DEF Boot, prompts
<1>6. QED
  BY <1>4, <1>5 DEF RunnerInv

LEMMA CollectHolds ==
  ASSUME RunnerInv, NEW l \in Loop, Collect(l)
  PROVE  RunnerInv'
<1>1. ThreadsTyped /\ BooksTyped /\ ControlTyped /\ l \in Thread
  BY DEF RunnerInv, RunnerTyped, Thread
<1>2. /\ ThreadsTyped' /\ thread'[l].at = "pick" /\ \A y \in Thread \ {l} : thread'[y] = thread[y]
  <2>1. PICK C \in Chosen : thread' = [thread EXCEPT ![l] =
         [AtRest EXCEPT !.at = "pick", !.ts = now,
                        !.todo = {[s |-> s, from |-> schedules[s].cursor] : s \in C}]]
    BY DEF Collect
  <2>2. C \subseteq Schedules
    BY <2>1 DEF Chosen, DueNow
  <2>3. {[s |-> s, from |-> schedules[s].cursor] : s \in C} \in SUBSET Work
    BY <1>1, <2>2 DEF BooksTyped, ScheduleState, Work
  <2> DEFINE r == [AtRest EXCEPT !.at = "pick", !.ts = now,
                                 !.todo = {[s |-> s, from |-> schedules[s].cursor] : s \in C}]
  <2>4. r \in Resting /\ r.at = "pick"
    BY <1>1, <2>3, RestStates DEF ControlTyped
  <2>5. thread' = [thread EXCEPT ![l] = r]
    BY <2>1
  <2> HIDE DEF r
  <2>6. QED
    BY <1>1, <2>4, <2>5, Enters
<1>3. /\ schedules' \in [Schedules -> ScheduleState] /\ schedulesDisk' \in [Schedules -> ScheduleState]
      /\ faultsLeft' \in 0 .. MaxFaults
  <2>1. schedules' \in [Schedules -> ScheduleState]
    BY <1>1, EvaluatedTyped DEF Collect
  <2>2. SaveSchedules \/ (UNCHANGED schedulesDisk /\ NoFault)
    BY DEF Collect
  <2>3. QED
    BY <1>1, <2>1, <2>2, Saved, FaultSpent DEF BooksTyped
<1>4. RunnerTyped'
  BY <1>2, <1>3 DEF RunnerInv, RunnerTyped, Collect, BooksTyped, PromptsTyped, ControlTyped, prompts
<1>5. Accounted' /\ Exclusive' /\ KeyOnce'
  BY <1>2, QuietStep DEF Collect, prompts
<1>6. QED
  BY <1>4, <1>5 DEF RunnerInv

LEMMA RunNowHolds ==
  ASSUME RunnerInv, NEW x \in Manual, NEW s \in Schedules, RunNow(x, s)
  PROVE  RunnerInv'
<1>1. ThreadsTyped /\ x \in Thread
  BY DEF RunnerInv, RunnerTyped, Thread
<1>2. /\ ThreadsTyped' /\ thread'[x].at = "pick" /\ \A y \in Thread \ {x} : thread'[y] = thread[y]
  <2>1. thread' = [thread EXCEPT ![x] =
         [AtRest EXCEPT !.at = "pick", !.ts = now, !.todo = {[s |-> s, from |-> NoTick]}]]
    BY DEF RunNow
  <2>2. {[s |-> s, from |-> NoTick]} \in SUBSET Work /\ now \in Time
    BY DEF Work, Cursor, RunnerInv, RunnerTyped, ControlTyped
  <2> DEFINE r == [AtRest EXCEPT !.at = "pick", !.ts = now, !.todo = {[s |-> s, from |-> NoTick]}]
  <2>3. r \in Resting /\ r.at = "pick"
    BY <2>2, RestStates
  <2>4. thread' = [thread EXCEPT ![x] = r]
    BY <2>1
  <2> HIDE DEF r
  <2>5. QED
    BY <1>1, <2>3, <2>4, Enters
<1>3. RunnerTyped'
  BY <1>2 DEF RunnerInv, RunnerTyped, RunNow, BooksTyped, PromptsTyped, ControlTyped,
              memory, files, prompts, control
<1>4. Accounted' /\ Exclusive' /\ KeyOnce'
  BY <1>2, QuietStep DEF RunNow, files, prompts
<1>5. QED
  BY <1>3, <1>4 DEF RunnerInv

-----------------------------------------------------------------------------
(* An execution.                                                           *)

LEMMA PickHolds ==
  ASSUME RunnerInv, NEW x \in Thread, Pick(x)
  PROVE  RunnerInv'
<1>1. ThreadsTyped
  BY DEF RunnerInv, RunnerTyped
<1>2. /\ ThreadsTyped' /\ thread'[x].at # "post" /\ \A y \in Thread \ {x} : thread'[y] = thread[y]
  <2>1. CASE thread' = [thread EXCEPT ![x] = AtRest]
    BY <1>1, <2>1, RestStates, Enters
  <2>2. ASSUME NEW j \in thread[x].todo,
               thread' = [thread EXCEPT ![x] =
                 [at |-> "check", todo |-> @.todo \ {j}, ts |-> @.ts, prompt |-> FALSE, job |-> j]]
        PROVE  /\ ThreadsTyped' /\ thread'[x].at # "post"
               /\ \A y \in Thread \ {x} : thread'[y] = thread[y]
    <3> DEFINE r == [at |-> "check", todo |-> thread[x].todo \ {j}, ts |-> thread[x].ts,
                     prompt |-> FALSE, job |-> j]
    <3>1. thread[x].todo \in SUBSET Work /\ thread[x].ts \in Time
      BY <1>1 DEF ThreadsTyped, Resting, Working
    <3>2. r \in Working /\ r.at = "check"
      BY <2>2, <3>1 DEF Working, Positions
    <3>3. thread' = [thread EXCEPT ![x] = r]
      BY <2>2
    <3> HIDE DEF r
    <3>4. QED
      BY <1>1, <3>2, <3>3, Enters
  <2>3. QED
    BY <2>1, <2>2 DEF Pick
<1>3. RunnerTyped'
  BY <1>2 DEF RunnerInv, RunnerTyped, Pick, BooksTyped, PromptsTyped, ControlTyped,
              memory, files, prompts, control
<1>4. Accounted' /\ Exclusive' /\ KeyOnce'
  BY <1>2, QuietStep DEF Pick, files, prompts
<1>5. QED
  BY <1>3, <1>4 DEF RunnerInv

LEMMA CheckHistoryHolds ==
  ASSUME RunnerInv, NEW x \in Thread, CheckHistory(x)
  PROVE  RunnerInv'
<1>1. ThreadsTyped /\ thread[x].at = "check" /\ \E at \in {"pick", "reserve"} : GoTo(x, at)
  BY DEF RunnerInv, RunnerTyped, CheckHistory
<1>2. /\ ThreadsTyped' /\ thread'[x].at # "post" /\ \A y \in Thread \ {x} : thread'[y] = thread[y]
  BY <1>1, Goes DEF Positions
<1>3. RunnerTyped'
  BY <1>2 DEF RunnerInv, RunnerTyped, CheckHistory, BooksTyped, PromptsTyped, ControlTyped,
              memory, files, prompts, control
<1>4. Accounted' /\ Exclusive' /\ KeyOnce'
  BY <1>2, QuietStep DEF CheckHistory, files, prompts
<1>5. QED
  BY <1>3, <1>4 DEF RunnerInv

\* A reservation of a free key: it was not in use, and now it is taken.
LEMMA TakesKey ==
  ASSUME RunnerInv, NEW x \in Thread, thread[x].at = "reserve", keys[KeyOf(x)] = "free",
         keys' = [keys EXCEPT ![KeyOf(x)] = "taken"], GoTo(x, "post"),
         UNCHANGED <<queued, late>>
  PROVE  ThreadsTyped' /\ PromptsTyped' /\ Accounted' /\ Exclusive' /\ KeyOnce'
<1> DEFINE k == KeyOf(x)
<1>1. ThreadsTyped /\ PromptsTyped /\ k \in Key
  BY HasKey DEF RunnerInv, RunnerTyped
<1>2. /\ ThreadsTyped' /\ thread'[x].at = "post" /\ KeyOf(x)' = KeyOf(x)
      /\ \A y \in Thread \ {x} : thread'[y] = thread[y]
  BY <1>1, Goes DEF Positions
<1>3. keys'[k] = "taken" /\ \A q \in Key \ {k} : keys'[q] = keys[q]
  BY <1>1 DEF PromptsTyped
<1>4. PromptsTyped'
  BY <1>1 DEF PromptsTyped
<1>5. \A p \in queued \cup late : p.key \in Key /\ p.key # k
  BY <1>1 DEF RunnerInv, Accounted, PromptsTyped, Prompt
<1>6. Accounted' /\ KeyOnce'
  BY <1>3, <1>5 DEF RunnerInv, Accounted, KeyOnce
<1>7. \A y \in Thread \ {x} : thread'[y].at = "post" =>
         /\ thread[y].at = "post" /\ KeyOf(y)' = KeyOf(y) /\ KeyOf(y) \in Key /\ KeyOf(y) # k
  BY <1>1, <1>2, HasKey DEF RunnerInv, Exclusive, KeyOf
<1>8. Exclusive'
  BY <1>2, <1>3, <1>5, <1>7 DEF RunnerInv, Exclusive
<1>9. QED
  BY <1>2, <1>4, <1>6, <1>8

LEMMA ReserveHolds ==
  ASSUME RunnerInv, NEW x \in Thread, Reserve(x)
  PROVE  RunnerInv'
<1>1. thread[x].at = "reserve" /\ ThreadsTyped /\ PromptsTyped /\ ControlTyped
  BY DEF Reserve, RunnerInv, RunnerTyped
<1>2. /\ UNCHANGED <<queued, late>>
      /\ UNCHANGED <<now, schedules, history, schedulesDisk, historyDisk, intents,
                     ticked, running, stopping, delegated>>
  BY DEF Reserve, memory, prompts, control
<1>3. faultsLeft' \in 0 .. MaxFaults
  BY <1>1, FaultSpent DEF Reserve
<1>4. ThreadsTyped' /\ PromptsTyped' /\ Accounted' /\ Exclusive' /\ KeyOnce'
  <2>1. CASE keys[KeyOf(x)] = "free" /\ keys' = [keys EXCEPT ![KeyOf(x)] = "taken"] /\ GoTo(x, "post")
    BY <1>1, <1>2, <2>1, TakesKey
  <2>2. ASSUME UNCHANGED keys, NEW at \in {"intent", "failRecord"}, NEW b \in BOOLEAN,
               GoTo(x, at) \/ thread' = [thread EXCEPT ![x].at = at, ![x].prompt = b]
        PROVE  ThreadsTyped' /\ PromptsTyped' /\ Accounted' /\ Exclusive' /\ KeyOnce'
    <3>1. /\ ThreadsTyped' /\ thread'[x].at # "post"
          /\ \A y \in Thread \ {x} : thread'[y] = thread[y]
      BY <1>1, <2>2, Goes DEF Positions
    <3>2. PromptsTyped'
      BY <1>1, <1>2, <2>2 DEF PromptsTyped
    <3>3. Accounted' /\ Exclusive' /\ KeyOnce'
      BY <1>2, <2>2, <3>1, QuietStep
    <3>4. QED
      BY <3>1, <3>2, <3>3
  <2>3. CASE /\ UNCHANGED keys
             /\ thread' = [thread EXCEPT ![x].at = "intent", ![x].prompt = keys[KeyOf(x)] = "prompt"]
    BY <2>2, <2>3
  <2>4. CASE UNCHANGED keys /\ GoTo(x, "failRecord")
    BY <2>2, <2>4
  <2>5. QED
    BY <2>1, <2>3, <2>4 DEF Reserve
<1>5. RunnerTyped'
  BY <1>2, <1>3, <1>4 DEF RunnerInv, RunnerTyped, BooksTyped, ControlTyped
<1>6. QED
  BY <1>4, <1>5 DEF RunnerInv

\* A thread that goes on, with anything but a post.
LEMMA GoesOn ==
  ASSUME RunnerInv, NEW x \in Thread, NEW at \in Positions \ {"post"}, NEW b \in BOOLEAN,
         thread[x].at \notin {"dead", "boot", "wait", "pick"},
         GoTo(x, at) \/ thread' = [thread EXCEPT ![x].at = at, ![x].prompt = b],
         UNCHANGED <<queued, late>>,
         \A k \in Key : keys[k] # "free" => keys'[k] # "free"
  PROVE  ThreadsTyped' /\ Accounted' /\ Exclusive' /\ KeyOnce'
<1>1. /\ ThreadsTyped' /\ thread'[x].at # "post"
      /\ \A y \in Thread \ {x} : thread'[y] = thread[y]
  BY Goes DEF RunnerInv, RunnerTyped
<1>2. QED
  BY <1>1, QuietStep

\* The prompt of a key that has none.
LEMMA Posts ==
  ASSUME RunnerInv, NEW x \in Thread, thread[x].at = "post",
         NEW at \in Positions \ {"post"}, GoTo(x, at), UNCHANGED keys,
         \/ queued' = queued \cup {NewPrompt(x)} /\ UNCHANGED late
         \/ late' = late \cup {NewPrompt(x)} /\ UNCHANGED queued
  PROVE  ThreadsTyped' /\ PromptsTyped' /\ Accounted' /\ Exclusive' /\ KeyOnce'
<1> DEFINE k == KeyOf(x)
           new == NewPrompt(x)
<1>1. ThreadsTyped /\ PromptsTyped /\ k \in Key /\ thread[x] \in Working
  BY HasKey DEF RunnerInv, RunnerTyped
<1>2. /\ ThreadsTyped' /\ thread'[x].at # "post"
      /\ \A y \in Thread \ {x} : thread'[y] = thread[y]
  BY <1>1, Goes
<1>3. \A p \in queued \cup late : p.key # k
  BY DEF RunnerInv, Exclusive
<1>4. new \in Prompt /\ new.key = k
  <2>1. {p \in queued \cup late : p.key = k} = {}
    BY <1>3
  <2>2. Cardinality({p \in queued \cup late : p.key = k}) = 0
    BY <2>1, FS_EmptySet, Zenon
  <2>3. new.copy = 1 /\ new.key = k /\ new.from = thread[x].job.from
    BY <2>2 DEF NewPrompt
  <2>4. thread[x].job.from \in Cursor
    BY <1>1 DEF Working, Work
  <2>5. QED
    BY <1>1, <2>3, <2>4 DEF NewPrompt, Prompt
<1>5. queued' \cup late' = (queued \cup late) \cup {new}
  OBVIOUS
<1> HIDE DEF new
<1>6. PromptsTyped'
  BY <1>1, <1>4 DEF PromptsTyped, new
<1>7. KeyOnce'
  BY <1>3, <1>4, <1>5 DEF RunnerInv, KeyOnce
<1>8. keys[k] # "free"
  BY DEF RunnerInv, Exclusive
<1>9. Accounted'
  BY <1>4, <1>5, <1>8 DEF RunnerInv, Accounted
<1>10. \A y \in Thread : thread'[y].at = "post" =>
         y # x /\ thread[y].at = "post" /\ KeyOf(y)' = KeyOf(y) /\ KeyOf(y) # k
  BY <1>2 DEF RunnerInv, Exclusive, KeyOf
<1>11. Exclusive'
  BY <1>4, <1>5, <1>10 DEF RunnerInv, Exclusive
<1>12. QED
  BY <1>2, <1>6, <1>7, <1>9, <1>11

LEMMA PostHolds ==
  ASSUME RunnerInv, NEW x \in Thread, Post(x) \/ GiveUp(x)
  PROVE  RunnerInv'
<1>1. thread[x].at = "post" /\ ThreadsTyped /\ PromptsTyped /\ ControlTyped
  BY DEF Post, GiveUp, RunnerInv, RunnerTyped
<1>2. UNCHANGED <<now, schedules, history, schedulesDisk, historyDisk, keys, intents,
                  ticked, running, stopping, delegated>>
  BY DEF Post, GiveUp, memory, files, control
<1>3. faultsLeft' \in 0 .. MaxFaults
  BY <1>1, FaultSpent DEF Post, GiveUp
<1>4. PICK at \in {"note", "failRecord"} : GoTo(x, at)
  BY DEF Post, GiveUp
<1>5. ThreadsTyped' /\ PromptsTyped' /\ Accounted' /\ Exclusive' /\ KeyOnce'
  <2>1. CASE UNCHANGED <<queued, late>>
    <3>1. ThreadsTyped' /\ Accounted' /\ Exclusive' /\ KeyOnce'
      BY <1>1, <1>2, <1>4, <2>1, GoesOn DEF Positions
    <3>2. PromptsTyped'
      BY <1>1, <1>2, <2>1 DEF PromptsTyped
    <3>3. QED
      BY <3>1, <3>2
  <2>2. CASE \/ queued' = queued \cup {NewPrompt(x)} /\ UNCHANGED late
             \/ late' = late \cup {NewPrompt(x)} /\ UNCHANGED queued
    BY <1>1, <1>2, <1>4, <2>2, Posts DEF Positions
  <2>3. QED
    BY <2>1, <2>2 DEF Post, GiveUp
<1>6. RunnerTyped'
  BY <1>2, <1>3, <1>5 DEF RunnerInv, RunnerTyped, BooksTyped, ControlTyped
<1>7. QED
  BY <1>5, <1>6 DEF RunnerInv

\* The prompt that was given up is the same one when it reaches the queue.
LEMMA ServeLateHolds ==
  ASSUME RunnerInv, NEW p \in late, ServeLate(p)
  PROVE  RunnerInv'
<1>1. PromptsTyped /\ ControlTyped /\ p \in Prompt
  BY DEF RunnerInv, RunnerTyped, PromptsTyped
<1>2. /\ UNCHANGED <<now, schedules, history, schedulesDisk, historyDisk, intents, thread,
                     ticked, running, stopping, delegated>>
      /\ queued' = queued \cup {p} /\ late' = late \ {p}
      /\ keys' = keys \/ keys' = [keys EXCEPT ![p.key] = "prompt"]
  BY DEF ServeLate, memory, control
<1>3. faultsLeft' \in 0 .. MaxFaults
  BY <1>1, FaultSpent DEF ServeLate
<1>4. PromptsTyped' /\ \A k \in Key : keys[k] # "free" => keys'[k] # "free"
  BY <1>1, <1>2 DEF PromptsTyped, Prompt
<1>5. Accounted' /\ Exclusive' /\ KeyOnce'
  BY <1>2, <1>4, QuietStep
<1>6. RunnerTyped'
  BY <1>2, <1>3, <1>4 DEF RunnerInv, RunnerTyped, ThreadsTyped, BooksTyped, ControlTyped
<1>7. QED
  BY <1>5, <1>6 DEF RunnerInv

LEMMA NoteHolds ==
  ASSUME RunnerInv, NEW x \in Thread, Note(x)
  PROVE  RunnerInv'
<1>1. thread[x].at = "note" /\ ThreadsTyped /\ PromptsTyped /\ ControlTyped /\ KeyOf(x) \in Key
  BY HasKey DEF Note, RunnerInv, RunnerTyped
<1>2. /\ UNCHANGED <<now, schedules, history, schedulesDisk, historyDisk, intents, queued, late,
                     ticked, running, stopping, delegated>>
      /\ keys' = keys \/ keys' = [keys EXCEPT ![KeyOf(x)] = "prompt"]
      /\ \/ thread' = [thread EXCEPT ![x].at = "intent", ![x].prompt = TRUE]
         \/ GoTo(x, "failRecord")
  BY DEF Note, memory, prompts, control
<1>3. faultsLeft' \in 0 .. MaxFaults
  BY <1>1, FaultSpent DEF Note
<1>4. PromptsTyped' /\ \A k \in Key : keys[k] # "free" => keys'[k] # "free"
  BY <1>1, <1>2 DEF PromptsTyped
<1>5. ThreadsTyped' /\ Accounted' /\ Exclusive' /\ KeyOnce'
  BY <1>1, <1>2, <1>4, GoesOn DEF Positions
<1>6. RunnerTyped'
  BY <1>2, <1>3, <1>4, <1>5 DEF RunnerInv, RunnerTyped, BooksTyped, ControlTyped
<1>7. QED
  BY <1>5, <1>6 DEF RunnerInv

LEMMA RecordsHold ==
  ASSUME RunnerInv, NEW x \in Thread, RecordIntent(x) \/ MoveCursor(x) \/ RecordRun(x)
  PROVE  RunnerInv'
<1>1. /\ thread[x].at \in {"intent", "cursor", "failCursor", "record", "failRecord"}
      /\ ThreadsTyped /\ PromptsTyped /\ BooksTyped /\ ControlTyped
  BY DEF RecordIntent, MoveCursor, RecordRun, RunnerInv, RunnerTyped
<1>2. KeyOf(x) \in Key /\ thread[x] \in Working
  BY <1>1, HasKey
<1>3. /\ UNCHANGED <<now, keys, queued, late, ticked, running, stopping, delegated>>
      /\ \E at \in {"cursor", "record", "pick", "failCursor"} : GoTo(x, at)
  BY DEF RecordIntent, MoveCursor, RecordRun, prompts, control
<1>4. ThreadsTyped' /\ Accounted' /\ Exclusive' /\ KeyOnce'
  BY <1>1, <1>3, GoesOn DEF Positions
<1>5. BooksTyped' /\ faultsLeft' \in 0 .. MaxFaults
  <2>1. CASE RecordIntent(x)
    BY <1>1, <1>2, <2>1, FaultSpent DEF RecordIntent, BooksTyped, memory
  <2>2. CASE MoveCursor(x)
    <3> DEFINE s == thread[x].job.s
               c == CursorAfter(s, thread[x].ts)
    <3>1. s \in Schedules /\ thread[x].ts \in Time
      BY <1>2 DEF Working, Work
    <3>2. c \in Cursor
      BY <1>1, <3>1, CursorsTyped
    <3>3. schedules' = [schedules EXCEPT ![s].cursor = c]
      BY <2>2 DEF MoveCursor
    <3> HIDE DEF s, c
    <3>4. schedules' \in [Schedules -> ScheduleState]
      BY <1>1, <3>1, <3>2, <3>3 DEF BooksTyped, ScheduleState
    <3>5. SaveSchedules /\ UNCHANGED <<history, historyDisk, intents>>
      BY <2>2 DEF MoveCursor
    <3>6. QED
      BY <1>1, <3>4, <3>5, Saved DEF BooksTyped
  <2>3. CASE RecordRun(x)
    BY <1>1, <1>2, <2>3, FaultSpent DEF RecordRun, BooksTyped
  <2>4. QED
    BY <2>1, <2>2, <2>3
<1>6. RunnerTyped'
  BY <1>1, <1>3, <1>4, <1>5 DEF RunnerTyped, PromptsTyped, ControlTyped
<1>7. QED
  BY <1>4, <1>6 DEF RunnerInv

-----------------------------------------------------------------------------
(* The environment.                                                        *)

LEMMA CrashHolds ==
  ASSUME RunnerInv, Crash
  PROVE  RunnerInv'
<1>1. \A x \in Thread : thread'[x] \in Resting /\ thread'[x].at \in {"dead", "wait"}
  BY RestStates DEF Crash
<1>2. ThreadsTyped'
  BY <1>1 DEF Crash, ThreadsTyped
<1>3. faultsLeft' \in 0 .. MaxFaults
  BY FaultSpent DEF Crash, RunnerInv, RunnerTyped
<1>4. RunnerTyped'
  BY <1>2, <1>3 DEF Crash, RunnerInv, RunnerTyped, BooksTyped, PromptsTyped, ControlTyped, files
<1>5. Accounted' /\ Exclusive' /\ KeyOnce'
  BY <1>1, QuietStep DEF Crash, files
<1>6. QED
  BY <1>4, <1>5 DEF RunnerInv

LEMMA ControlHolds ==
  ASSUME RunnerInv, Stop \/ SwitchMode \/ Clock
  PROVE  RunnerInv'
<1>1. UNCHANGED <<memory, files, prompts, thread>>
  BY DEF Stop, SwitchMode, Clock
<1>2. faultsLeft' \in 0 .. MaxFaults
  BY FaultSpent DEF Stop, SwitchMode, Clock, RunnerInv, RunnerTyped
<1>3. /\ now' \in Time /\ ticked' \subseteq Loop
      /\ running' \in BOOLEAN /\ stopping' \in BOOLEAN /\ delegated' \in BOOLEAN
  <2>1. ControlTyped
    BY DEF RunnerInv, RunnerTyped
  <2>2. now' \in Time /\ ticked' \subseteq Loop
    BY <2>1, RunnerAssumption DEF Stop, SwitchMode, Clock, ControlTyped, Time
  <2>3. running' \in BOOLEAN /\ stopping' \in BOOLEAN /\ delegated' \in BOOLEAN
    BY <2>1, Zenon DEF Stop, SwitchMode, Clock, ControlTyped
  <2>4. QED
    BY <2>2, <2>3
<1>4. RunnerTyped'
  BY <1>1, <1>2, <1>3 DEF RunnerInv, RunnerTyped, ThreadsTyped, BooksTyped, PromptsTyped,
                          ControlTyped, memory, files, prompts
<1>5. Accounted' /\ Exclusive' /\ KeyOnce'
  BY <1>1, QuietStep DEF files, prompts
<1>6. QED
  BY <1>4, <1>5 DEF RunnerInv

LEMMA BeginsWell == Init => RunnerInv
<1> SUFFICES ASSUME Init PROVE RunnerInv
  OBVIOUS
<1>1. ThreadsTyped /\ \A x \in Thread : thread[x].at \in {"dead", "wait"}
  BY RestStates DEF Init, ThreadsTyped
<1>2. BooksTyped
  BY DEF Init, BooksTyped, ScheduleState, Cursor
<1>3. PromptsTyped /\ ControlTyped
  <2>1. PromptsTyped
    BY DEF Init, PromptsTyped
  <2>2. now \in Time /\ ticked \subseteq Loop /\ faultsLeft \in 0 .. MaxFaults
    BY RunnerAssumption DEF Init, Time
  <2>3. running \in BOOLEAN /\ stopping \in BOOLEAN /\ delegated \in BOOLEAN
    BY Zenon DEF Init
  <2>4. QED
    BY <2>1, <2>2, <2>3 DEF ControlTyped
<1>4. Accounted /\ Exclusive /\ KeyOnce
  BY <1>1 DEF Init, Accounted, Exclusive, KeyOnce
<1>5. QED
  BY <1>1, <1>2, <1>3, <1>4 DEF RunnerInv, RunnerTyped

LEMMA StepHolds == RunnerInv /\ [Next]_vars => RunnerInv'
<1> SUFFICES ASSUME RunnerInv, [Next]_vars PROVE RunnerInv'
  OBVIOUS
<1>1. ASSUME NEW l \in Loop, Start(l) \/ LoopEnds(l) \/ Boot(l) \/ Collect(l) PROVE RunnerInv'
  BY <1>1, StartHolds, LoopEndsHolds, BootHolds, CollectHolds
<1>2. ASSUME NEW x \in Manual, NEW s \in Schedules, RunNow(x, s) PROVE RunnerInv'
  BY <1>2, RunNowHolds
<1>3. ASSUME NEW x \in Thread, Execute(x) PROVE RunnerInv'
  BY <1>3, PickHolds, CheckHistoryHolds, ReserveHolds, PostHolds, NoteHolds, RecordsHold DEF Execute
<1>4. ASSUME NEW p \in late, ServeLate(p) PROVE RunnerInv'
  BY <1>4, ServeLateHolds
<1>5. CASE Stop \/ SwitchMode \/ Clock
  BY <1>5, ControlHolds
<1>6. CASE Crash
  BY <1>6, CrashHolds
<1>7. CASE UNCHANGED vars
  <2>1. RunnerTyped'
    BY <1>7 DEF RunnerInv, RunnerTyped, ThreadsTyped, BooksTyped, PromptsTyped, ControlTyped,
                vars, memory, files, prompts, control
  <2>2. Accounted' /\ Exclusive' /\ KeyOnce'
    BY <1>7, QuietStep DEF vars, files, prompts
  <2>3. QED
    BY <2>1, <2>2 DEF RunnerInv
<1>8. QED
  BY <1>1, <1>2, <1>3, <1>4, <1>5, <1>6, <1>7 DEF Next

\* The invariant.
THEOREM RunnerInvariant == Spec => []RunnerInv
BY BeginsWell, StepHolds, PTL DEF Spec

LEMMA WellFormed == RunnerInv => TypeOK
<1> SUFFICES ASSUME RunnerInv PROVE TypeOK
  OBVIOUS
<1>1. ThreadsTyped /\ BooksTyped /\ PromptsTyped /\ ControlTyped
  BY DEF RunnerInv, RunnerTyped
<1>2. ASSUME NEW x \in Thread
      PROVE  /\ thread[x].at \in Positions /\ thread[x].todo \subseteq Work
             /\ thread[x].ts \in Time /\ thread[x].prompt \in BOOLEAN
             /\ "job" \in DOMAIN thread[x] => thread[x].job \in Work
  BY <1>1 DEF ThreadsTyped, Resting, Working, Positions
<1>3. QED
  BY <1>1, <1>2 DEF TypeOK, BooksTyped, PromptsTyped, ControlTyped, ScheduleState

\* The state of the scheduler is well formed, through crashes and every failure;
\* the arithmetic of a cursor (_compute_cursor_tick_ts, _compute_startup_skip_cursor_ts) included.
THEOREM RunnerTypeCorrect == Spec => []TypeOK
BY WellFormed, RunnerInvariant, PTL

\* No idempotency key is queued twice (compute_idempotency_key, check_and_record),
\* whatever loops and run-now requests work on it, whatever fails, and whenever the
\* process crashes.
THEOREM KeysQueueOnce == Spec => []KeyOnce
<1>1. RunnerInv => KeyOnce
  BY DEF RunnerInv
<1>2. QED
  BY <1>1, RunnerInvariant, PTL

-----------------------------------------------------------------------------
(* A loop that nobody else works next to.                                  *)
(*                                                                         *)
(* What such a loop has taken on stays due from where its schedule's       *)
(* cursor is until it moves the cursor itself: that is what CadInv says,   *)
(* and the cursors in the file lag by whole intervals.  OnceInv adds that  *)
(* a prompt of the loop was due from before the cursor, or that the loop   *)
(* has queued it and is about to move the cursor.                          *)

OneLoop == Manual = {} /\ \A x, y \in Loop : x = y

Between   == {"dead", "boot", "wait"}
Before == {"check", "reserve", "post"}
Posted == {"note", "intent", "cursor", "failRecord", "failCursor"}

\* The loop has taken j on, and has not moved the cursor for it.
Pending(x, j) ==
  \/ j \in thread[x].todo
  \/ thread[x].at \in Before \cup Posted /\ thread[x].job = j

Distinct ==
  \A x \in Loop : /\ thread[x].at \in Between => thread[x].todo = {}
                  /\ thread[x].at \in Before \cup Posted => thread[x].job \notin thread[x].todo

Fresh ==
  \A x \in Loop, j \in Work : Pending(x, j) =>
    /\ j.from = schedules[j.s].cursor
    /\ j.s \notin Cron /\ j.from # NoTick => j.from + INTERVAL <= thread[x].ts

Apart(a, b) == \E k \in Int : a = b + k * INTERVAL

Lags ==
  \A s \in Schedules \ Cron : schedulesDisk[s].cursor # NoTick =>
    schedules[s].cursor # NoTick /\ Apart(schedules[s].cursor, schedulesDisk[s].cursor)

CadInv == Distinct /\ Fresh /\ Lags

\* The cursors moved, if at all, by whole intervals.
Cadence(old, new) ==
  \A s \in Schedules \ Cron : old[s].cursor # NoTick =>
    new[s].cursor # NoTick /\ Apart(new[s].cursor, old[s].cursor)

LEMMA Whole ==
  ASSUME NEW k \in Int, NEW b \in Nat \ {0}
  PROVE  (k * b) % b = 0
BY SMTT(30)

LEMMA ApartTwice ==
  ASSUME NEW a \in Int, NEW b \in Int, NEW c \in Int, Apart(a, b), Apart(b, c)
  PROVE  Apart(a, c)
<1>1. PICK k \in Int, n \in Int : a = b + k * INTERVAL /\ b = c + n * INTERVAL
  BY DEF Apart
<1>2. INTERVAL \in Int
  BY RunnerAssumption
<1>3. a = c + (k + n) * INTERVAL
  BY <1>1, <1>2, SMTT(30)
<1>4. QED
  BY <1>3 DEF Apart

LEMMA ApartNot == ASSUME NEW a \in Int PROVE Apart(a, a)
<1>1. a = a + 0 * INTERVAL
  BY RunnerAssumption
<1>2. QED
  BY <1>1 DEF Apart

LEMMA CadenceSteps ==
  ASSUME BooksTyped, BooksTyped', Cadence(schedules, schedules')
  PROVE  CadenceStep
<1> SUFFICES ASSUME NEW s \in Schedules \ Cron,
                    schedules[s].cursor # NoTick, schedules'[s].cursor # NoTick
             PROVE  (schedules'[s].cursor - schedules[s].cursor) % INTERVAL = 0
  BY DEF CadenceStep
<1>1. PICK k \in Int : schedules'[s].cursor = schedules[s].cursor + k * INTERVAL
  BY DEF Cadence, Apart
<1>2. schedules[s].cursor \in Int
  BY DEF BooksTyped, ScheduleState, Cursor, Time, NoTick
<1>3. INTERVAL \in Nat \ {0} /\ k * INTERVAL \in Int
  BY RunnerAssumption
<1> DEFINE w == k * INTERVAL
<1>4. w % INTERVAL = 0
  BY <1>3, Whole
<1>5. w \in Int /\ schedules'[s].cursor = schedules[s].cursor + w
  BY <1>1, <1>3
<1> HIDE DEF w
<1>6. schedules'[s].cursor - schedules[s].cursor = w
  BY <1>2, <1>5
<1>7. QED
  BY <1>4, <1>6

\* The file after the schedules were written, or not.
LEMMA SavesLag ==
  ASSUME BooksTyped, BooksTyped', Lags, Cadence(schedules, schedules'),
         schedulesDisk' \in {schedulesDisk, schedules'}
  PROVE  Lags'
<1> SUFFICES ASSUME NEW s \in Schedules \ Cron, schedulesDisk'[s].cursor # NoTick
             PROVE  /\ schedules'[s].cursor # NoTick
                    /\ Apart(schedules'[s].cursor, schedulesDisk'[s].cursor)
  BY DEF Lags, Apart
<1>1. /\ schedules[s].cursor \in Int /\ schedulesDisk[s].cursor \in Int
      /\ schedules'[s].cursor \in Int
  BY DEF BooksTyped, ScheduleState, Cursor, Time, NoTick
<1>2. CASE schedulesDisk' = schedules'
  <2>1. Apart(schedules'[s].cursor, schedules'[s].cursor)
    BY <1>1, ApartNot
  <2>2. QED
    BY <1>2, <2>1
<1>3. CASE schedulesDisk' = schedulesDisk
  <2>1. schedules[s].cursor # NoTick /\ Apart(schedules[s].cursor, schedulesDisk[s].cursor)
    BY <1>3 DEF Lags
  <2>2. schedules'[s].cursor # NoTick /\ Apart(schedules'[s].cursor, schedules[s].cursor)
    BY <2>1 DEF Cadence
  <2> DEFINE a == schedules'[s].cursor
             b == schedules[s].cursor
             c == schedulesDisk[s].cursor
  <2>3. a \in Int /\ b \in Int /\ c \in Int /\ Apart(a, b) /\ Apart(b, c)
    BY <1>1, <2>1, <2>2
  <2> HIDE DEF a, b, c
  <2>4. Apart(a, c)
    BY <2>3, ApartTwice
  <2>5. QED
    BY <1>3, <2>2, <2>4 DEF a, c
<1>4. QED
  BY <1>2, <1>3

LEMMA SameCursors ==
  ASSUME BooksTyped, \A s \in Schedules : schedules'[s].cursor = schedules[s].cursor
  PROVE  Cadence(schedules, schedules')
<1> SUFFICES ASSUME NEW s \in Schedules, schedules[s].cursor # NoTick
             PROVE  schedules'[s].cursor # NoTick /\ Apart(schedules'[s].cursor, schedules[s].cursor)
  BY DEF Cadence
<1>1. schedules[s].cursor \in Int
  BY DEF BooksTyped, ScheduleState, Cursor, Time, NoTick
<1>2. Apart(schedules[s].cursor, schedules[s].cursor)
  BY <1>1, ApartNot
<1>3. QED
  BY <1>2

\* A step of the loop's work that leaves the schedules alone.
LEMMA WorksOn ==
  ASSUME RunnerInv, RunnerInv', CadInv, UNCHANGED <<schedules, schedulesDisk>>, Distinct',
         \A x \in Loop, j \in Work : Pending(x, j)' => Pending(x, j) /\ thread'[x].ts = thread[x].ts
  PROVE  CadInv' /\ Cadence(schedules, schedules')
<1>1. Cadence(schedules, schedules')
  BY SameCursors DEF RunnerInv, RunnerTyped
<1>2. Lags'
  BY <1>1, SavesLag DEF RunnerInv, RunnerTyped, CadInv
<1>3. Fresh'
  BY DEF CadInv, Fresh
<1>4. QED
  BY <1>1, <1>2, <1>3 DEF CadInv

\* What a thread takes along from one position to the next.
LEMMA Keeps ==
  ASSUME ThreadsTyped, NEW x \in Thread, NEW at, NEW b,
         thread[x].at \notin {"dead", "boot", "wait", "pick"},
         \/ GoTo(x, at)
         \/ thread' = [thread EXCEPT ![x].at = at, ![x].prompt = b]
  PROVE  /\ thread'[x].at = at /\ thread'[x].todo = thread[x].todo
         /\ thread'[x].ts = thread[x].ts /\ thread'[x].job = thread[x].job
<1>1. thread[x] \in Working /\ thread \in [Thread -> Resting \cup Working]
  BY HasKey DEF ThreadsTyped
<1>2. CASE GoTo(x, at)
  <2>1. thread'[x] = [thread[x] EXCEPT !.at = at]
    BY <1>1, <1>2 DEF GoTo
  <2>2. QED
    BY <1>1, <2>1 DEF Working
<1>3. CASE thread' = [thread EXCEPT ![x].at = at, ![x].prompt = b]
  <2>1. thread'[x] = [thread[x] EXCEPT !.at = at, !.prompt = b]
    BY <1>1, <1>3
  <2>2. QED
    BY <1>1, <2>1 DEF Working
<1>4. QED
  BY <1>2, <1>3

\* The steps of an execution between taking a schedule on and moving its cursor.
Strides(x) ==
  /\ thread[x].at \notin Between \cup {"pick"}
  /\ thread'[x].at \in Positions \ Between
  /\ thread'[x].at \in Before \cup Posted => thread[x].at \in Before \cup Posted
  /\ thread[x].at \in Posted => thread'[x].at \in Posted
  /\ thread'[x].todo = thread[x].todo /\ thread'[x].ts = thread[x].ts
  /\ thread'[x].job = thread[x].job

LEMMA StrideKeeps ==
  ASSUME OneLoop, RunnerInv, RunnerInv', CadInv, NEW x \in Loop, Strides(x),
         UNCHANGED <<schedules, schedulesDisk>>
  PROVE  CadInv' /\ Cadence(schedules, schedules')
<1>1. \A y \in Loop : y = x
  BY DEF OneLoop
<1>2. Distinct'
  BY <1>1 DEF Strides, CadInv, Distinct
<1>3. \A y \in Loop, j \in Work : Pending(y, j)' => Pending(y, j) /\ thread'[y].ts = thread[y].ts
  BY <1>1 DEF Strides, Pending
<1>4. QED
  BY <1>2, <1>3, WorksOn

LEMMA StridesOf ==
  ASSUME RunnerInv, NEW x \in Loop,
         \/ CheckHistory(x) \/ Reserve(x) \/ Post(x) \/ Note(x) \/ RecordIntent(x) \/ RecordRun(x)
  PROVE  Strides(x) /\ UNCHANGED <<schedules, schedulesDisk>>
<1>1. ThreadsTyped /\ x \in Thread
  BY DEF RunnerInv, RunnerTyped, Thread
<1>2. UNCHANGED <<schedules, schedulesDisk>>
  BY DEF CheckHistory, Reserve, Post, Note, RecordIntent, RecordRun, memory, files
<1>3. ASSUME NEW at \in Positions, NEW b,
             GoTo(x, at) \/ thread' = [thread EXCEPT ![x].at = at, ![x].prompt = b],
             <<thread[x].at, at>> \in
               {<<"check", "pick">>, <<"check", "reserve">>, <<"reserve", "post">>,
                <<"reserve", "intent">>, <<"reserve", "failRecord">>, <<"post", "note">>,
                <<"post", "failRecord">>, <<"note", "intent">>, <<"note", "failRecord">>,
                <<"intent", "cursor">>, <<"record", "pick">>, <<"failRecord", "failCursor">>}
      PROVE  Strides(x)
  <2>1. thread[x].at \notin {"dead", "boot", "wait", "pick"}
    BY <1>3
  <2>2. /\ thread'[x].at = at /\ thread'[x].todo = thread[x].todo
        /\ thread'[x].ts = thread[x].ts /\ thread'[x].job = thread[x].job
    BY <1>1, <1>3, <2>1, Keeps
  <2>3. QED
    BY <1>3, <2>1, <2>2 DEF Strides, Between, Before, Posted, Positions
<1>4. Strides(x)
  <2>1. CASE CheckHistory(x)
    <3>1. PICK at \in {"pick", "reserve"} : GoTo(x, at)
      BY <2>1 DEF CheckHistory
    <3>2. QED
      BY <1>3, <2>1, <3>1 DEF CheckHistory, Positions
  <2>2. CASE Reserve(x)
    <3>1. PICK at \in {"post", "intent", "failRecord"}, b \in BOOLEAN :
            GoTo(x, at) \/ thread' = [thread EXCEPT ![x].at = at, ![x].prompt = b]
      BY <2>2 DEF Reserve
    <3>2. QED
      BY <1>3, <2>2, <3>1 DEF Reserve, Positions
  <2>3. CASE Post(x)
    <3>1. PICK at \in {"note", "failRecord"} : GoTo(x, at)
      BY <2>3 DEF Post
    <3>2. QED
      BY <1>3, <2>3, <3>1 DEF Post, Positions
  <2>4. CASE Note(x)
    <3>1. PICK at \in {"intent", "failRecord"} :
            GoTo(x, at) \/ thread' = [thread EXCEPT ![x].at = at, ![x].prompt = TRUE]
      BY <2>4 DEF Note
    <3>2. QED
      BY <1>3, <2>4, <3>1 DEF Note, Positions
  <2>5. CASE RecordIntent(x)
    BY <1>3, <2>5 DEF RecordIntent, Positions
  <2>6. CASE RecordRun(x)
    <3>1. PICK at \in {"pick", "failCursor"} :
            GoTo(x, at) /\ at = IF thread[x].at = "record" THEN "pick" ELSE "failCursor"
      BY <2>6 DEF RecordRun
    <3>2. thread[x].at = "record" \/ thread[x].at = "failRecord"
      BY <2>6 DEF RecordRun
    <3>3. QED
      BY <1>3, <3>1, <3>2 DEF Positions
  <2>7. QED
    BY <2>1, <2>2, <2>3, <2>4, <2>5, <2>6
<1>5. QED
  BY <1>2, <1>4

LEMMA PickKeeps ==
  ASSUME OneLoop, RunnerInv, RunnerInv', CadInv, NEW x \in Loop, Pick(x)
  PROVE  CadInv' /\ Cadence(schedules, schedules')
<1>1. /\ \A y \in Loop : y = x
      /\ thread[x].at = "pick" /\ UNCHANGED <<schedules, schedulesDisk>>
  BY DEF OneLoop, Pick, memory, files
<1>2. x \in Thread /\ thread \in [Thread -> Resting \cup Working]
  BY DEF RunnerInv, RunnerTyped, ThreadsTyped, Thread
<1>3. CASE thread' = [thread EXCEPT ![x] = AtRest]
  <2>1. thread'[x].at = "wait" /\ thread'[x].todo = {}
    BY <1>2, <1>3 DEF AtRest
  <2>2. \A y \in Loop : thread'[y].at = "wait" /\ thread'[y].todo = {}
    BY <1>1, <2>1
  <2>3. Distinct' /\ \A y \in Loop, j \in Work : ~ Pending(y, j)'
    BY <2>2 DEF Distinct, Pending, Before, Posted
  <2>4. QED
    BY <1>1, <2>3, WorksOn
<1>4. ASSUME NEW j \in thread[x].todo,
             thread' = [thread EXCEPT ![x] =
               [at |-> "check", todo |-> @.todo \ {j}, ts |-> @.ts, prompt |-> FALSE, job |-> j]]
      PROVE  CadInv' /\ Cadence(schedules, schedules')
  <2>1. /\ thread'[x].at = "check" /\ thread'[x].todo = thread[x].todo \ {j}
        /\ thread'[x].ts = thread[x].ts /\ thread'[x].job = j
    BY <1>2, <1>4
  <2>2. Distinct'
    BY <1>1, <2>1 DEF Distinct, Between
  <2>3. \A y \in Loop, i \in Work : Pending(y, i)' => Pending(y, i) /\ thread'[y].ts = thread[y].ts
    BY <1>1, <2>1 DEF Pending
  <2>4. QED
    BY <1>1, <2>2, <2>3, WorksOn
<1>5. QED
  BY <1>3, <1>4 DEF Pick

\* The cursor moves by one interval: its schedule has been due for that long.
LEMMA MoveKeeps ==
  ASSUME OneLoop, RunnerInv, RunnerInv', CadInv, NEW x \in Loop, MoveCursor(x)
  PROVE  CadInv' /\ Cadence(schedules, schedules')
<1> DEFINE s == thread[x].job.s
           c == schedules[s].cursor
           new == CursorAfter(s, thread[x].ts)
<1>1. /\ \A y \in Loop : y = x
      /\ thread[x].at \in {"cursor", "failCursor"} /\ SaveSchedules
      /\ schedules' = [schedules EXCEPT ![s].cursor = new]
  BY DEF OneLoop, MoveCursor
<1>2. x \in Thread /\ ThreadsTyped /\ BooksTyped /\ BooksTyped' /\ thread[x] \in Working
  BY <1>1, HasKey DEF RunnerInv, RunnerTyped, Thread
<1>3. PICK at \in {"record", "pick"} : GoTo(x, at)
  BY DEF MoveCursor
<1>4. /\ thread'[x].at = at /\ thread'[x].todo = thread[x].todo /\ thread'[x].ts = thread[x].ts
  BY <1>1, <1>2, <1>3, Keeps
<1>5. /\ s \in Schedules /\ thread[x].job \in Work /\ thread[x].job.from = c
      /\ s \notin Cron /\ c # NoTick => c + INTERVAL <= thread[x].ts
      /\ thread[x].job \notin thread[x].todo
  <2>1. Pending(x, thread[x].job) /\ thread[x].job \in Work
    BY <1>1, <1>2 DEF Pending, Posted, Working
  <2>2. QED
    BY <1>1, <2>1 DEF CadInv, Fresh, Distinct, Posted, Work
<1>6. s \notin Cron /\ c # NoTick => new = c + INTERVAL
  BY <1>5, Zenon DEF CursorAfter, c, new
<1>7. /\ schedules'[s].cursor = new
      /\ \A r \in Schedules \ {s} : schedules'[r] = schedules[r]
  BY <1>1, <1>2, <1>5 DEF BooksTyped, ScheduleState
<1> HIDE DEF new
<1>8. Cadence(schedules, schedules')
  <2> SUFFICES ASSUME NEW r \in Schedules \ Cron, schedules[r].cursor # NoTick
               PROVE  /\ schedules'[r].cursor # NoTick
                      /\ Apart(schedules'[r].cursor, schedules[r].cursor)
    BY DEF Cadence
  <2>1. schedules[r].cursor \in Nat /\ INTERVAL \in Nat
    BY <1>2, RunnerAssumption DEF BooksTyped, ScheduleState, Cursor, Time
  <2>2. CASE r = s
    <3>1. schedules'[r].cursor = schedules[r].cursor + INTERVAL
      BY <1>6, <1>7, <2>2
    <3>2. schedules'[r].cursor = schedules[r].cursor + 1 * INTERVAL
      BY <2>1, <3>1
    <3>3. QED
      BY <2>1, <3>1, <3>2 DEF Apart, NoTick
  <2>3. CASE r # s
    <3>1. schedules'[r] = schedules[r]
      BY <1>7, <2>3
    <3>2. Apart(schedules[r].cursor, schedules[r].cursor)
      BY <2>1, ApartNot
    <3>3. QED
      BY <3>1, <3>2
  <2>4. QED
    BY <2>2, <2>3
<1>9. Lags'
  BY <1>1, <1>2, <1>8, SavesLag DEF CadInv, SaveSchedules
<1>10. Distinct'
  BY <1>1, <1>4 DEF Distinct, Between, Before, Posted
<1>11. Fresh'
  <2> SUFFICES ASSUME NEW j \in Work, Pending(x, j)'
               PROVE  /\ j.from = schedules'[j.s].cursor
                      /\ j.s \notin Cron /\ j.from # NoTick => j.from + INTERVAL <= thread'[x].ts
    BY <1>1 DEF Fresh
  <2>1. j \in thread[x].todo
    BY <1>4 DEF Pending, Before, Posted
  <2>2. /\ j.from = schedules[j.s].cursor
        /\ j.s \notin Cron /\ j.from # NoTick => j.from + INTERVAL <= thread[x].ts
    BY <2>1 DEF CadInv, Fresh, Pending
  <2>3. j.s # s
    BY <1>5, <2>1, <2>2 DEF Work
  <2>4. schedules'[j.s] = schedules[j.s]
    BY <1>7, <2>3 DEF Work
  <2>5. QED
    BY <1>4, <2>2, <2>4
<1>12. QED
  BY <1>8, <1>9, <1>10, <1>11 DEF CadInv

\* Nothing was taken on yet, or any more.
LEMMA RestKeeps ==
  ASSUME RunnerInv, RunnerInv', CadInv, Cadence(schedules, schedules'),
         schedulesDisk' \in {schedulesDisk, schedules'},
         \A y \in Loop : thread'[y].at \in Between /\ thread'[y].todo = {}
  PROVE  CadInv'
<1>1. Lags'
  BY SavesLag DEF RunnerInv, RunnerTyped, CadInv
<1>2. Distinct' /\ Fresh'
  BY DEF Distinct, Fresh, Pending, Between, Before, Posted
<1>3. QED
  BY <1>1, <1>2 DEF CadInv

LEMMA EvaluatedKeeps ==
  ASSUME BooksTyped, NEW s \in Schedules
  PROVE  /\ Evaluated(s).cursor = schedules[s].cursor
         /\ \A c : [Evaluated(s) EXCEPT !.cursor = c].cursor = c
<1>1. schedules[s] \in ScheduleState /\ Evaluated(s) \in ScheduleState
  BY EvaluatedTyped DEF BooksTyped
<1> DEFINE r == schedules[s]
           limit == IF DISABLE_THRESHOLD < 1 THEN 1 ELSE DISABLE_THRESHOLD
<1>2. Evaluated(s) \in {r, [r EXCEPT !.errors = @ + 1, !.enabled = r.errors + 1 < limit],
                        [r EXCEPT !.errors = 0]}
  BY Zenon DEF Evaluated
<1>3. r \in ScheduleState
  BY <1>1
<1> HIDE DEF r, limit
<1>4. Evaluated(s).cursor = r.cursor
  <2>1. \A n, b : /\ [r EXCEPT !.errors = n, !.enabled = b].cursor = r.cursor
                  /\ [r EXCEPT !.errors = n].cursor = r.cursor
    BY <1>3 DEF ScheduleState
  <2>2. CASE Evaluated(s) \in {r, [r EXCEPT !.errors = 0]}
    BY <2>1, <2>2
  <2>3. CASE Evaluated(s) = [r EXCEPT !.errors = @ + 1, !.enabled = r.errors + 1 < limit]
    <3>1. PICK n, b : Evaluated(s) = [r EXCEPT !.errors = n, !.enabled = b]
      BY <2>3, Zenon
    <3>2. QED
      BY <2>1, <3>1
  <2>4. QED
    BY <1>2, <2>2, <2>3
<1>5. QED
  BY <1>1, <1>4 DEF ScheduleState, r

\* A start that skips what was missed skips whole intervals.
LEMMA SkipsWhole ==
  ASSUME BooksTyped, ControlTyped, NEW s \in Schedules \ Cron,
         s \in DueNow, schedules[s].cursor # NoTick
  PROVE  CursorSkipped(s) # NoTick /\ Apart(CursorSkipped(s), schedules[s].cursor)
<1> DEFINE c == schedules[s].cursor
           n == (now - c) \div INTERVAL
<1>1. c \in Nat /\ now \in Nat /\ INTERVAL \in Nat \ {0}
  BY RunnerAssumption DEF BooksTyped, ControlTyped, ScheduleState, Cursor, Time
<1>2. now - c >= INTERVAL
  <2>1. Due(s)
    BY DEF DueNow
  <2>2. IntervalDue(c, now)
    BY <2>1, Zenon DEF Due
  <2>3. QED
    BY <2>2 DEF IntervalDue
<1>3. CursorSkipped(s) = c + n * INTERVAL
  BY <1>2, Zenon DEF CursorSkipped
<1>4. now - c \in Nat
  BY <1>1, <1>2
<1>5. n \in Nat
  BY <1>1, <1>4, WholePart
<1> HIDE DEF n
<1>6. n * INTERVAL \in Nat
  BY <1>1, <1>5
<1>7. CursorSkipped(s) # NoTick
  BY <1>1, <1>3, <1>6 DEF NoTick
<1>8. QED
  BY <1>3, <1>5, <1>7 DEF Apart

LEMMA BootKeeps ==
  ASSUME OneLoop, RunnerInv, RunnerInv', CadInv, NEW x \in Loop, Boot(x)
  PROVE  CadInv' /\ Cadence(schedules, schedules')
<1>1. \A y \in Loop : y = x
  BY DEF OneLoop
<1>2. x \in Thread /\ thread \in [Thread -> Resting \cup Working] /\ BooksTyped /\ ControlTyped
  BY DEF RunnerInv, RunnerTyped, ThreadsTyped, Thread
<1>3. \A y \in Loop : thread'[y].at \in Between /\ thread'[y].todo = {}
  <2>1. thread'[x] = AtRest
    BY <1>2 DEF Boot
  <2>2. QED
    BY <1>1, <2>1 DEF AtRest, Between
<1>4. Cadence(schedules, schedules')
  <2>1. CASE ~ SKIP_MISSED
    BY <1>2, <2>1, SameCursors DEF Boot
  <2>2. CASE SKIP_MISSED
    <3>1. schedules' = [s \in Schedules |->
            IF s \in DueNow THEN [Evaluated(s) EXCEPT !.cursor = CursorSkipped(s)] ELSE Evaluated(s)]
      BY <2>2 DEF Boot
    <3> SUFFICES ASSUME NEW s \in Schedules \ Cron, schedules[s].cursor # NoTick
                 PROVE  /\ schedules'[s].cursor # NoTick
                        /\ Apart(schedules'[s].cursor, schedules[s].cursor)
      BY DEF Cadence
    <3>2. CASE s \in DueNow
      <4>1. schedules'[s].cursor = CursorSkipped(s)
        BY <1>2, <3>1, <3>2, EvaluatedKeeps
      <4>2. QED
        BY <1>2, <3>2, <4>1, SkipsWhole
    <3>3. CASE s \notin DueNow
      <4>1. schedules'[s].cursor = schedules[s].cursor
        BY <1>2, <3>1, <3>3, EvaluatedKeeps
      <4>2. schedules[s].cursor \in Int
        BY <1>2 DEF BooksTyped, ScheduleState, Cursor, Time, NoTick
      <4>3. QED
        BY <4>1, <4>2, ApartNot
    <3>4. QED
      BY <3>2, <3>3
  <2>3. QED
    BY <2>1, <2>2
<1>5. schedulesDisk' \in {schedulesDisk, schedules'}
  BY DEF Boot, SaveSchedules
<1>6. QED
  BY <1>3, <1>4, <1>5, RestKeeps

\* The loop takes on what is due.
LEMMA CollectKeeps ==
  ASSUME OneLoop, RunnerInv, RunnerInv', CadInv, NEW x \in Loop, Collect(x)
  PROVE  CadInv' /\ Cadence(schedules, schedules')
<1>1. \A y \in Loop : y = x
  BY DEF OneLoop
<1>2. x \in Thread /\ thread \in [Thread -> Resting \cup Working] /\ BooksTyped /\ ControlTyped
  BY DEF RunnerInv, RunnerTyped, ThreadsTyped, Thread
<1>3. \A s \in Schedules : schedules'[s].cursor = schedules[s].cursor
  BY <1>2, EvaluatedKeeps DEF Collect
<1>4. Cadence(schedules, schedules')
  BY <1>2, <1>3, SameCursors
<1>5. schedulesDisk' \in {schedulesDisk, schedules'}
  BY DEF Collect, SaveSchedules
<1>6. Lags'
  BY <1>4, <1>5, SavesLag DEF RunnerInv, RunnerTyped, CadInv
<1>7. PICK C \in Chosen :
        thread' = [thread EXCEPT ![x] =
          [AtRest EXCEPT !.at = "pick", !.ts = now,
                         !.todo = {[s |-> s, from |-> schedules[s].cursor] : s \in C}]]
  BY DEF Collect
<1>8. /\ thread'[x].at = "pick" /\ thread'[x].ts = now
      /\ thread'[x].todo = {[s |-> s, from |-> schedules[s].cursor] : s \in C}
  BY <1>2, <1>7 DEF AtRest
<1>9. Distinct'
  BY <1>1, <1>8 DEF Distinct, Between, Before, Posted
<1>10. Fresh'
  <2> SUFFICES ASSUME NEW j \in Work, Pending(x, j)'
               PROVE  /\ j.from = schedules'[j.s].cursor
                      /\ j.s \notin Cron /\ j.from # NoTick => j.from + INTERVAL <= thread'[x].ts
    BY <1>1 DEF Fresh
  <2>1. j \in thread'[x].todo
    BY <1>8 DEF Pending, Before, Posted
  <2>2. PICK s \in C : j = [s |-> s, from |-> schedules[s].cursor]
    BY <1>8, <2>1
  <2>3. j.s = s /\ j.from = schedules[s].cursor /\ s \in DueNow /\ s \in Schedules
    BY <1>7, <2>2 DEF Chosen, DueNow
  <2>4. ASSUME s \notin Cron, schedules[s].cursor # NoTick
        PROVE  schedules[s].cursor + INTERVAL <= now
    <3>1. IntervalDue(schedules[s].cursor, now)
      BY <2>3, <2>4, Zenon DEF DueNow, Due
    <3>2. schedules[s].cursor \in Nat /\ now \in Nat /\ INTERVAL \in Nat
      BY <1>2, <2>3, <2>4, RunnerAssumption DEF BooksTyped, ScheduleState, Cursor, Time, ControlTyped
    <3>3. QED
      BY <2>4, <3>1, <3>2 DEF IntervalDue
  <2>5. QED
    BY <1>3, <1>8, <2>3, <2>4
<1>11. QED
  BY <1>4, <1>6, <1>9, <1>10 DEF CadInv

\* The memory comes back from the file, which lags by whole intervals.
LEMMA CrashKeeps ==
  ASSUME OneLoop, RunnerInv, RunnerInv', CadInv, Crash
  PROVE  CadInv' /\ CadenceStep
<1>1. /\ schedules' = schedulesDisk /\ schedulesDisk' = schedulesDisk
      /\ \A y \in Loop : thread'[y] = Dead
  BY DEF Crash, files, Thread
<1>2. BooksTyped /\ BooksTyped'
  BY DEF RunnerInv, RunnerTyped
<1>3. Distinct' /\ Fresh'
  BY <1>1 DEF Distinct, Fresh, Pending, Before, Posted, Dead, AtRest
<1>4. \A s \in Schedules : schedulesDisk[s].cursor \in Int /\ schedules[s].cursor \in Int
  BY <1>2 DEF BooksTyped, ScheduleState, Cursor, Time, NoTick
<1>5. Lags'
  BY <1>1, <1>4, ApartNot DEF Lags
<1>6. CadenceStep
  <2> SUFFICES ASSUME NEW s \in Schedules \ Cron, schedulesDisk[s].cursor # NoTick
               PROVE  (schedulesDisk[s].cursor - schedules[s].cursor) % INTERVAL = 0
    BY <1>1 DEF CadenceStep
  <2>1. PICK k \in Int : schedules[s].cursor = schedulesDisk[s].cursor + k * INTERVAL
    BY DEF CadInv, Lags, Apart
  <2> DEFINE w == (-k) * INTERVAL
             a == schedules[s].cursor
             b == schedulesDisk[s].cursor
  <2>2. INTERVAL \in Nat \ {0} /\ -k \in Int /\ k * INTERVAL \in Int /\ w \in Int /\ w = - (k * INTERVAL)
    BY RunnerAssumption
  <2>3. w % INTERVAL = 0
    BY <2>2, Whole
  <2>4. a \in Int /\ b \in Int /\ a = b + k * INTERVAL
    BY <1>4, <2>1
  <2> DEFINE v == k * INTERVAL
  <2>5. v \in Int /\ w = -v /\ a = b + v
    BY <2>2, <2>4
  <2> HIDE DEF w, a, b, v
  <2>6. b - a = w
    BY <2>2, <2>4, <2>5
  <2>7. QED
    BY <2>3, <2>6 DEF a, b
<1>7. QED
  BY <1>3, <1>5, <1>6 DEF CadInv

\* Starts, stops, the clock and the administrator leave the schedules alone.
LEMMA OthersKeep ==
  ASSUME OneLoop, RunnerInv, RunnerInv', CadInv,
         \/ \E x \in Loop : Start(x) \/ LoopEnds(x)
         \/ Stop \/ SwitchMode \/ Clock \/ UNCHANGED vars
         \/ \E p \in late : ServeLate(p)
  PROVE  CadInv' /\ Cadence(schedules, schedules')
<1>1. UNCHANGED <<schedules, schedulesDisk>>
  BY DEF Start, LoopEnds, Stop, SwitchMode, Clock, ServeLate, vars, memory, files
<1>2. BooksTyped /\ thread \in [Thread -> Resting \cup Working]
  BY DEF RunnerInv, RunnerTyped, ThreadsTyped
<1>3. Cadence(schedules, schedules')
  BY <1>1, <1>2, SameCursors
<1>4. CASE \E x \in Loop : Start(x) \/ LoopEnds(x)
  <2>1. PICK x \in Loop : Start(x) \/ LoopEnds(x)
    BY <1>4
  <2>2. thread'[x] \in {Dead, [AtRest EXCEPT !.at = "boot"]}
    BY <1>2, <2>1 DEF Start, LoopEnds, Thread
  <2>3. thread'[x].at \in Between /\ thread'[x].todo = {}
    BY <2>2 DEF Dead, AtRest, Between
  <2>4. \A y \in Loop : thread'[y].at \in Between /\ thread'[y].todo = {}
    BY <2>3 DEF OneLoop
  <2>5. QED
    BY <1>1, <1>3, <2>4, RestKeeps
<1>5. CASE UNCHANGED thread
  <2>1. Distinct' /\ Fresh' /\ Lags'
    BY <1>1, <1>5 DEF CadInv, Distinct, Fresh, Pending, Lags
  <2>2. QED
    BY <1>3, <2>1 DEF CadInv
<1>6. QED
  BY <1>4, <1>5 DEF Stop, SwitchMode, Clock, ServeLate, vars

LEMMA CadenceBegins == ASSUME OneLoop, Init PROVE CadInv
<1>1. \A x \in Loop : thread[x] = Dead
  BY DEF Init, Thread
<1>2. Distinct /\ Fresh
  BY <1>1 DEF Distinct, Fresh, Pending, Before, Posted, Dead, AtRest
<1>3. Lags
  BY DEF Init, Lags
<1>4. QED
  BY <1>2, <1>3 DEF CadInv

LEMMA CadenceHolds ==
  ASSUME OneLoop, RunnerInv, CadInv, [Next]_vars
  PROVE  CadInv' /\ CadenceStep
<1>1. RunnerInv'
  BY StepHolds
<1>2. Thread = Loop /\ Manual = {}
  BY DEF OneLoop, Thread
<1>3. CASE Crash
  BY <1>1, <1>3, CrashKeeps
<1>4. ASSUME CadInv' /\ Cadence(schedules, schedules') PROVE CadInv' /\ CadenceStep
  BY <1>1, <1>4, CadenceSteps DEF RunnerInv, RunnerTyped
<1>5. ASSUME NEW x \in Loop, Boot(x) \/ Collect(x) \/ Pick(x) \/ MoveCursor(x)
      PROVE  CadInv' /\ CadenceStep
  BY <1>1, <1>4, <1>5, BootKeeps, CollectKeeps, PickKeeps, MoveKeeps
<1>6. ASSUME NEW x \in Loop, \/ CheckHistory(x) \/ Reserve(x) \/ Post(x) \/ Note(x)
                             \/ RecordIntent(x) \/ RecordRun(x)
      PROVE  CadInv' /\ CadenceStep
  <2>1. Strides(x) /\ UNCHANGED <<schedules, schedulesDisk>>
    BY <1>6, StridesOf
  <2>2. QED
    BY <1>1, <1>4, <2>1, StrideKeeps
<1>7. ASSUME \/ \E x \in Loop : Start(x) \/ LoopEnds(x)
             \/ Stop \/ SwitchMode \/ Clock \/ UNCHANGED vars
             \/ \E p \in late : ServeLate(p)
      PROVE  CadInv' /\ CadenceStep
  BY <1>1, <1>4, <1>7, OthersKeep
<1>8. ASSUME NEW x \in Loop, Execute(x) PROVE CadInv' /\ CadenceStep
  <2>1. ~ GiveUp(x)
    BY <1>2 DEF GiveUp
  <2>2. QED
    BY <1>5, <1>6, <1>8, <2>1 DEF Execute
<1>9. QED
  BY <1>2, <1>3, <1>5, <1>7, <1>8 DEF Next

\* The cursor of an interval schedule moves by whole intervals, also over a crash or a
\* start that skips what was missed (_compute_cursor_tick_ts), for one loop that no
\* run-now works next to, whatever fails.
THEOREM CadenceKept ==
  ASSUME OneLoop
  PROVE  Spec => OnCadence
<1>1. Init => RunnerInv /\ CadInv
  BY BeginsWell, CadenceBegins
<1>2. RunnerInv /\ CadInv /\ [Next]_vars => RunnerInv' /\ CadInv' /\ CadenceStep
  BY StepHolds, CadenceHolds
<1>3. QED
  BY <1>1, <1>2, PTL DEF Spec, OnCadence

-----------------------------------------------------------------------------
(* One prompt per cursor position.  Without croniter a cron schedule is due *)
(* in the whole minute that it names, so its cursor must be in the past     *)
(* when the loop looks; a start that skips what was missed would put it at  *)
(* the present, hence the assumption.                                       *)

NoRepeats == OneLoop /\ "crash" \notin Faults /\ (CRONITER \/ ~ SKIP_MISSED)

Later == \A x \in Loop, j \in Work : Pending(x, j) => j.from < thread[x].ts

Timely ==
  \A x \in Loop : thread[x].at \notin Between =>
    thread[x].ts <= now /\ (thread[x].ts = now => x \in ticked)

Passed ==
  ~ CRONITER => \A s \in Schedules :
    schedules[s].cursor <= now /\ (schedules[s].cursor = now => Loop \subseteq ticked)

Behind ==
  \A p \in queued : p.by = "loop" =>
    \/ p.from < schedules[p.key[1]].cursor
    \/ /\ p.from = schedules[p.key[1]].cursor
       /\ \E x \in Loop : thread[x].at \in Posted /\ thread[x].job.s = p.key[1]

OnceInv == Later /\ Timely /\ Passed /\ Behind /\ late = {} /\ OncePerTick

LEMMA LoopPrompts ==
  ASSUME PromptsTyped, NEW p \in queued
  PROVE  p.key[1] \in Schedules /\ p.from \in Int /\ p.key \in Key
<1>1. p \in Prompt
  BY DEF PromptsTyped
<1>2. p.key \in Key /\ p.from \in Cursor
  BY <1>1 DEF Prompt
<1>3. QED
  BY <1>2 DEF Key, Cursor, Time, NoTick

\* A step of an execution: a prompt is queued from where the cursor is, before which
\* all others were due.
LEMMA StrideOnce ==
  ASSUME NoRepeats, RunnerInv, CadInv, OnceInv, NEW x \in Loop, Strides(x),
         UNCHANGED <<schedules, now, ticked, late>>,
         \/ queued' = queued
         \/ /\ thread[x].at = "post" /\ thread'[x].at \in Posted
            /\ queued' = queued \cup {NewPrompt(x)}
  PROVE  OnceInv'
<1>1. \A y \in Loop : y = x
  BY DEF NoRepeats, OneLoop
<1>2. Later' /\ Timely' /\ Passed'
  <2>1. \A j \in Work : Pending(x, j)' => Pending(x, j)
    BY DEF Strides, Pending
  <2>2. Later'
    BY <1>1, <2>1 DEF OnceInv, Later, Strides
  <2>3. Timely'
    BY <1>1 DEF OnceInv, Timely, Strides
  <2>4. Passed'
    BY DEF OnceInv, Passed
  <2>5. QED
    BY <2>2, <2>3, <2>4
<1>3. \A p \in queued : p.by = "loop" =>
        \/ p.from < schedules'[p.key[1]].cursor
        \/ /\ p.from = schedules'[p.key[1]].cursor
           /\ thread'[x].at \in Posted /\ thread'[x].job.s = p.key[1]
  BY <1>1 DEF OnceInv, Behind, Strides
<1>4. CASE queued' = queued
  BY <1>2, <1>3, <1>4 DEF OnceInv, Behind, OncePerTick
<1>5. CASE /\ thread[x].at = "post" /\ thread'[x].at \in Posted
           /\ queued' = queued \cup {NewPrompt(x)}
  <2> DEFINE new == NewPrompt(x)
             s == thread[x].job.s
  <2>1. x \in Thread /\ thread[x].job \in Work
    BY <1>5, HasKey DEF Thread, RunnerInv, RunnerTyped, Working
  <2>2. thread[x].job.from = schedules[s].cursor
    BY <1>5, <2>1 DEF CadInv, Fresh, Pending, Before
  <2>3. new.key[1] = s /\ new.from = schedules[s].cursor
    BY <2>2 DEF NewPrompt, KeyOf
  <2>4. \A p \in queued : p.by = "loop" => p.from < schedules[p.key[1]].cursor
    BY <1>1, <1>5 DEF OnceInv, Behind, Posted
  <2>5. schedules[s].cursor \in Int /\ \A p \in queued : p.from \in Int
    <3>1. schedules[s].cursor \in Cursor
      BY <2>1 DEF RunnerInv, RunnerTyped, BooksTyped, ScheduleState, Work
    <3>2. QED
      BY <3>1, LoopPrompts DEF Cursor, Time, NoTick, RunnerInv, RunnerTyped
  <2>6. thread'[x].job.s = s
    BY DEF Strides
  <2> HIDE DEF new, s
  <2>7. Behind'
    <3> SUFFICES ASSUME NEW p \in queued \cup {new}, p.by = "loop"
                 PROVE  \/ p.from < schedules'[p.key[1]].cursor
                        \/ /\ p.from = schedules'[p.key[1]].cursor
                           /\ thread'[x].at \in Posted /\ thread'[x].job.s = p.key[1]
      BY <1>5 DEF Behind, new
    <3>1. CASE p \in queued
      BY <1>3, <3>1
    <3>2. CASE p = new
      BY <1>5, <2>3, <2>6, <3>2
    <3>3. QED
      BY <3>1, <3>2
  <2>8. \A p \in queued : p.by = "loop" => ~ (p.key[1] = s /\ p.from = new.from)
    BY <2>3, <2>4, <2>5
  <2>9. OncePerTick'
    <3> SUFFICES ASSUME NEW p \in queued \cup {new}, NEW q \in queued \cup {new},
                        p.by = "loop", q.by = "loop", p.key[1] = q.key[1], p.from = q.from
                 PROVE  p = q
      BY <1>5 DEF OncePerTick, new
    <3>1. CASE p \in queued /\ q \in queued
      BY <3>1 DEF OnceInv, OncePerTick
    <3>2. CASE p = new \/ q = new
      BY <2>3, <2>8, <3>2
    <3>3. QED
      BY <3>1, <3>2
  <2>10. QED
    BY <1>2, <2>7, <2>9 DEF OnceInv
<1>6. QED
  BY <1>4, <1>5

\* A step that queues nothing, and before which no prompt waits for its cursor.
LEMMA CalmOnce ==
  ASSUME RunnerInv, OnceInv, UNCHANGED <<queued, late>>,
         \A x \in Loop : thread[x].at \notin Posted,
         \A s \in Schedules : schedules[s].cursor <= schedules'[s].cursor /\ schedules'[s].cursor \in Int,
         Later', Timely', Passed'
  PROVE  OnceInv'
<1>1. Behind'
  <2> SUFFICES ASSUME NEW p \in queued, p.by = "loop"
               PROVE  p.from < schedules'[p.key[1]].cursor
    BY DEF Behind
  <2>1. p.key[1] \in Schedules /\ p.from \in Int
    BY LoopPrompts DEF RunnerInv, RunnerTyped
  <2>2. schedules[p.key[1]].cursor \in Int
    BY <2>1 DEF RunnerInv, RunnerTyped, BooksTyped, ScheduleState, Cursor, Time, NoTick
  <2>3. p.from < schedules[p.key[1]].cursor
    BY DEF OnceInv, Behind
  <2>4. QED
    BY <2>1, <2>2, <2>3
<1>2. QED
  BY <1>1 DEF OnceInv, OncePerTick

LEMMA PickOnce ==
  ASSUME NoRepeats, RunnerInv, OnceInv, NEW x \in Loop, Pick(x)
  PROVE  OnceInv'
<1>1. /\ \A y \in Loop : y = x
      /\ thread[x].at = "pick" /\ UNCHANGED <<schedules, queued, late, now, ticked>>
  BY DEF NoRepeats, OneLoop, Pick, memory, prompts, control
<1>2. x \in Thread /\ thread \in [Thread -> Resting \cup Working]
  BY DEF RunnerInv, RunnerTyped, ThreadsTyped, Thread
<1>3. \A s \in Schedules : schedules[s].cursor \in Int
  BY DEF RunnerInv, RunnerTyped, BooksTyped, ScheduleState, Cursor, Time, NoTick
<1>4. Passed'
  BY <1>1 DEF OnceInv, Passed
<1>5. Later' /\ Timely'
  <2>1. CASE thread' = [thread EXCEPT ![x] = AtRest]
    <3>1. thread'[x] = AtRest
      BY <1>2, <2>1
    <3>2. QED
      BY <1>1, <3>1 DEF Later, Timely, Pending, AtRest, Between, Before, Posted
  <2>2. ASSUME NEW j \in thread[x].todo,
               thread' = [thread EXCEPT ![x] =
                 [at |-> "check", todo |-> @.todo \ {j}, ts |-> @.ts, prompt |-> FALSE, job |-> j]]
        PROVE  Later' /\ Timely'
    <3>1. /\ thread'[x].at = "check" /\ thread'[x].todo = thread[x].todo \ {j}
          /\ thread'[x].ts = thread[x].ts /\ thread'[x].job = j
      BY <1>2, <2>2
    <3>2. \A i \in Work : Pending(x, i)' => Pending(x, i)
      BY <3>1, <2>2 DEF Pending
    <3>3. Later'
      BY <1>1, <3>1, <3>2 DEF OnceInv, Later
    <3>4. Timely'
      BY <1>1, <3>1 DEF OnceInv, Timely, Between
    <3>5. QED
      BY <3>3, <3>4
  <2>3. QED
    BY <2>1, <2>2 DEF Pick
<1>6. \A y \in Loop : thread[y].at \notin Posted
  BY <1>1 DEF Posted
<1>7. \A s \in Schedules : schedules[s].cursor <= schedules'[s].cursor /\ schedules'[s].cursor \in Int
  BY <1>1, <1>3
<1>8. QED
  BY <1>1, <1>4, <1>5, <1>6, <1>7, CalmOnce

\* The cursor moves past what the loop has queued, and not past the tick.
LEMMA MoveOnce ==
  ASSUME NoRepeats, RunnerInv, CadInv, OnceInv, NEW x \in Loop, MoveCursor(x)
  PROVE  OnceInv'
<1> DEFINE s == thread[x].job.s
           c == schedules[s].cursor
           ts == thread[x].ts
           new == CursorAfter(s, ts)
<1>1. /\ \A y \in Loop : y = x
      /\ thread[x].at \in {"cursor", "failCursor"}
      /\ schedules' = [schedules EXCEPT ![s].cursor = new]
      /\ UNCHANGED <<queued, late, now, ticked>>
  BY DEF NoRepeats, OneLoop, MoveCursor, prompts, control
<1>2. /\ x \in Thread /\ ThreadsTyped /\ BooksTyped /\ thread[x] \in Working
      /\ now \in Nat /\ INTERVAL \in Nat \ {0}
  BY <1>1, HasKey, RunnerAssumption DEF RunnerInv, RunnerTyped, Thread, ControlTyped, Time
<1>3. PICK at \in {"record", "pick"} : GoTo(x, at)
  BY DEF MoveCursor
<1>4. /\ thread'[x].at = at /\ thread'[x].todo = thread[x].todo /\ thread'[x].ts = ts
  BY <1>1, <1>2, <1>3, Keeps
<1>5. s \in Schedules /\ c \in Int /\ ts \in Nat /\ c < ts
  <2>1. Pending(x, thread[x].job) /\ thread[x].job \in Work
    BY <1>1, <1>2 DEF Pending, Posted, Working
  <2>2. thread[x].job.from = c /\ thread[x].job.from < ts
    BY <2>1 DEF CadInv, Fresh, OnceInv, Later
  <2>3. s \in Schedules /\ ts \in Nat
    BY <1>2, <2>1 DEF Work, Working, Time
  <2>4. c \in Int
    BY <1>2, <2>3 DEF BooksTyped, ScheduleState, Cursor, Time, NoTick
  <2>5. QED
    BY <2>2, <2>3, <2>4
<1>6. new \in Int /\ c < new /\ new <= ts
  <2>1. CASE s \notin Cron /\ c # NoTick /\ c + INTERVAL <= ts
    <3>1. new = c + INTERVAL
      BY <2>1, Zenon DEF CursorAfter
    <3>2. QED
      BY <1>2, <1>5, <2>1, <3>1
  <2>2. CASE ~ (s \notin Cron /\ c # NoTick /\ c + INTERVAL <= ts)
    <3>1. new = ts
      BY <2>2, Zenon DEF CursorAfter
    <3>2. QED
      BY <1>5, <3>1
  <2>3. QED
    BY <2>1, <2>2
<1>7. ts <= now /\ (ts = now => x \in ticked)
  BY <1>1 DEF OnceInv, Timely, Between
<1> HIDE DEF new
<1>8. /\ schedules'[s].cursor = new
      /\ \A r \in Schedules \ {s} : schedules'[r] = schedules[r]
  BY <1>1, <1>2, <1>5 DEF BooksTyped, ScheduleState
<1> HIDE DEF s, c, ts
<1>9. Later'
  <2> SUFFICES ASSUME NEW j \in Work, Pending(x, j)' PROVE j.from < thread'[x].ts
    BY <1>1 DEF Later
  <2>1. j \in thread[x].todo
    BY <1>4 DEF Pending, Before, Posted
  <2>2. QED
    BY <1>4, <2>1 DEF OnceInv, Later, Pending, ts
<1>10. Timely'
  BY <1>1, <1>4, <1>7 DEF Timely, ts
<1>11. Passed'
  <2> SUFFICES ASSUME ~ CRONITER, NEW r \in Schedules
               PROVE  /\ schedules'[r].cursor <= now
                      /\ schedules'[r].cursor = now => Loop \subseteq ticked
    BY <1>1 DEF Passed
  <2>1. CASE r = s
    BY <1>1, <1>2, <1>5, <1>6, <1>7, <1>8, <2>1
  <2>2. CASE r # s
    BY <1>8, <2>2 DEF OnceInv, Passed
  <2>3. QED
    BY <2>1, <2>2
<1>12. Behind'
  <2> SUFFICES ASSUME NEW p \in queued, p.by = "loop"
               PROVE  p.from < schedules'[p.key[1]].cursor
    BY <1>1 DEF Behind
  <2>1. p.key[1] \in Schedules /\ p.from \in Int
    BY LoopPrompts DEF RunnerInv, RunnerTyped
  <2>2. CASE p.key[1] = s
    <3>1. p.from <= c
      BY <2>1, <2>2, <1>5 DEF OnceInv, Behind, c
    <3>2. QED
      BY <1>5, <1>6, <1>8, <2>1, <2>2, <3>1
  <2>3. CASE p.key[1] # s
    <3>1. p.from < schedules[p.key[1]].cursor
      BY <1>1, <2>3 DEF OnceInv, Behind, s
    <3>2. QED
      BY <1>8, <2>1, <2>3, <3>1
  <2>4. QED
    BY <2>2, <2>3
<1>13. QED
  BY <1>1, <1>9, <1>10, <1>11, <1>12 DEF OnceInv, OncePerTick

\* What is due was due from before now.
LEMMA DueFromBefore ==
  ASSUME RunnerInv, NEW s \in DueNow,
         ~ CRONITER /\ s \in Cron => schedules[s].cursor < now
  PROVE  schedules[s].cursor < now
<1> DEFINE c == schedules[s].cursor
<1>1. /\ s \in Schedules /\ Due(s)
  BY DEF DueNow
<1>2. /\ c \in Int /\ now \in Nat /\ INTERVAL \in Nat \ {0}
      /\ c # NoTick => c \in Nat
  BY <1>1, RunnerAssumption
  DEF RunnerInv, RunnerTyped, BooksTyped, ControlTyped, ScheduleState, Cursor, Time, NoTick
<1>3. CASE c = NoTick
  BY <1>2, <1>3 DEF NoTick
<1>4. CASE s \notin Cron /\ c # NoTick
  <2>1. IntervalDue(c, now)
    BY <1>1, <1>4, Zenon DEF Due
  <2>2. QED
    BY <1>2, <1>4, <2>1 DEF IntervalDue
<1>5. CASE s \in Cron /\ CRONITER /\ c # NoTick
  <2>1. CroniterDue(c, now)
    BY <1>1, <1>5, Zenon DEF Due
  <2>2. \E b \in c + 1 .. now : TRUE
    BY <1>5, <2>1 DEF CroniterDue
  <2>3. QED
    BY <1>2, <2>2
<1>6. QED
  BY <1>3, <1>4, <1>5, RunnerAssumption

LEMMA BootOnce ==
  ASSUME NoRepeats, RunnerInv, RunnerInv', OnceInv, NEW x \in Loop, Boot(x)
  PROVE  OnceInv'
<1>1. /\ \A y \in Loop : y = x
      /\ thread[x].at = "boot" /\ UNCHANGED <<queued, late, now, ticked>>
  BY DEF NoRepeats, OneLoop, Boot, prompts, control
<1>2. /\ x \in Thread /\ thread \in [Thread -> Resting \cup Working] /\ BooksTyped
      /\ now \in Nat /\ INTERVAL \in Nat \ {0}
  BY RunnerAssumption DEF RunnerInv, RunnerTyped, ThreadsTyped, Thread, ControlTyped, Time
<1>3. thread'[x].at = "wait" /\ thread'[x].todo = {}
  BY <1>2 DEF Boot, AtRest
<1>4. Later' /\ Timely'
  BY <1>1, <1>3 DEF Later, Timely, Pending, Between, Before, Posted
<1>5. \A s \in Schedules : schedules[s].cursor \in Int /\ schedules'[s].cursor \in Int
  BY DEF RunnerInv, RunnerTyped, BooksTyped, ScheduleState, Cursor, Time, NoTick
<1>6. CASE ~ SKIP_MISSED
  <2>1. schedules' = schedules
    BY <1>6 DEF Boot
  <2>2. Passed' /\ \A s \in Schedules : schedules[s].cursor <= schedules'[s].cursor
    BY <1>1, <1>5, <2>1 DEF OnceInv, Passed
  <2>3. QED
    BY <1>1, <1>4, <1>5, <2>2, CalmOnce DEF Posted
<1>7. CASE SKIP_MISSED
  <2>1. CRONITER
    BY <1>7 DEF NoRepeats
  <2>2. schedules' = [s \in Schedules |->
          IF s \in DueNow THEN [Evaluated(s) EXCEPT !.cursor = CursorSkipped(s)] ELSE Evaluated(s)]
    BY <1>7 DEF Boot
  <2>3. ASSUME NEW s \in Schedules PROVE schedules[s].cursor <= schedules'[s].cursor
    <3>1. CASE s \notin DueNow
      <4>1. schedules'[s].cursor = schedules[s].cursor
        BY <1>2, <2>2, <3>1, EvaluatedKeeps
      <4>2. QED
        BY <1>5, <4>1
    <3>2. CASE s \in DueNow
      <4> DEFINE c == schedules[s].cursor
                 n == (now - c) \div INTERVAL
      <4>1. schedules'[s].cursor = CursorSkipped(s)
        BY <1>2, <2>2, <3>2, EvaluatedKeeps
      <4>2. c < now /\ c \in Int
        BY <1>5, <2>1, <3>2, DueFromBefore
      <4>3. CASE s \notin Cron /\ c # NoTick /\ now - c >= INTERVAL
        <5>1. CursorSkipped(s) = c + n * INTERVAL
          BY <4>3, Zenon DEF CursorSkipped
        <5>2. now - c \in Nat
          BY <1>2, <4>2
        <5>3. n \in Nat
          BY <1>2, <5>2, WholePart
        <5> HIDE DEF n
        <5>4. n * INTERVAL \in Nat
          BY <1>2, <5>3
        <5>5. QED
          BY <4>1, <4>2, <5>1, <5>4
      <4>4. CASE ~ (s \notin Cron /\ c # NoTick /\ now - c >= INTERVAL)
        <5>1. CursorSkipped(s) = now
          BY <4>4, Zenon DEF CursorSkipped
        <5>2. QED
          BY <1>2, <4>1, <4>2, <5>1
      <4>5. QED
        BY <4>3, <4>4
    <3>3. QED
      BY <3>1, <3>2
  <2>4. Passed'
    BY <2>1 DEF Passed
  <2>5. QED
    BY <1>1, <1>4, <1>5, <2>3, <2>4, CalmOnce DEF Posted
<1>8. QED
  BY <1>6, <1>7 DEF Boot

LEMMA CollectOnce ==
  ASSUME NoRepeats, RunnerInv, RunnerInv', OnceInv, NEW x \in Loop, Collect(x)
  PROVE  OnceInv'
<1>1. /\ \A y \in Loop : y = x
      /\ thread[x].at = "wait" /\ x \notin ticked /\ ticked' = ticked \cup {x}
      /\ UNCHANGED <<queued, late, now>>
  BY DEF NoRepeats, OneLoop, Collect, prompts
<1>2. /\ x \in Thread /\ thread \in [Thread -> Resting \cup Working] /\ BooksTyped /\ now \in Nat
  BY DEF RunnerInv, RunnerTyped, ThreadsTyped, Thread, ControlTyped, Time
<1>3. \A s \in Schedules : /\ schedules'[s].cursor = schedules[s].cursor
                           /\ schedules[s].cursor \in Int
  BY <1>2, EvaluatedKeeps DEF Collect, BooksTyped, ScheduleState, Cursor, Time, NoTick
<1>4. PICK C \in Chosen :
        thread' = [thread EXCEPT ![x] =
          [AtRest EXCEPT !.at = "pick", !.ts = now,
                         !.todo = {[s |-> s, from |-> schedules[s].cursor] : s \in C}]]
  BY DEF Collect
<1>5. /\ thread'[x].at = "pick" /\ thread'[x].ts = now
      /\ thread'[x].todo = {[s |-> s, from |-> schedules[s].cursor] : s \in C}
  BY <1>2, <1>4 DEF AtRest
<1>6. Timely'
  BY <1>1, <1>2, <1>5 DEF Timely
<1>7. Passed'
  BY <1>1, <1>3 DEF OnceInv, Passed
<1>8. Later'
  <2> SUFFICES ASSUME NEW j \in Work, Pending(x, j)' PROVE j.from < now
    BY <1>1, <1>5 DEF Later
  <2>1. j \in thread'[x].todo
    BY <1>5 DEF Pending, Before, Posted
  <2>2. PICK s \in C : j = [s |-> s, from |-> schedules[s].cursor]
    BY <1>5, <2>1
  <2>3. j.from = schedules[s].cursor /\ s \in DueNow /\ s \in Schedules
    BY <1>4, <2>2 DEF Chosen, DueNow
  <2>4. ~ CRONITER => schedules[s].cursor < now
    BY <1>1, <1>2, <1>3, <2>3 DEF OnceInv, Passed
  <2>5. QED
    BY <2>3, <2>4, DueFromBefore
<1>9. \A s \in Schedules : schedules[s].cursor <= schedules'[s].cursor /\ schedules'[s].cursor \in Int
  BY <1>3
<1>10. \A y \in Loop : thread[y].at \notin Posted
  BY <1>1 DEF Posted
<1>11. QED
  BY <1>1, <1>6, <1>7, <1>8, <1>9, <1>10, CalmOnce

LEMMA OthersOnce ==
  ASSUME NoRepeats, RunnerInv, OnceInv,
         \/ \E x \in Loop : Start(x) \/ LoopEnds(x)
         \/ Stop \/ SwitchMode \/ Clock \/ UNCHANGED vars
  PROVE  OnceInv'
<1>1. UNCHANGED <<schedules, queued, late>>
  BY DEF Start, LoopEnds, Stop, SwitchMode, Clock, vars, memory, prompts
<1>2. /\ thread \in [Thread -> Resting \cup Working] /\ now \in Nat
      /\ \A s \in Schedules : schedules[s].cursor \in Int
  BY DEF RunnerInv, RunnerTyped, ThreadsTyped, ControlTyped, BooksTyped, ScheduleState,
         Cursor, Time, NoTick
<1>3. CASE \E x \in Loop : Start(x) \/ LoopEnds(x)
  <2>1. PICK x \in Loop : Start(x) \/ LoopEnds(x)
    BY <1>3
  <2>2. /\ thread'[x] \in {Dead, [AtRest EXCEPT !.at = "boot"]} /\ thread[x].at \in Between
        /\ \A y \in Loop : y = x
    BY <1>2, <2>1 DEF Start, LoopEnds, Thread, Between, NoRepeats, OneLoop
  <2>3. thread'[x].at \in Between /\ thread'[x].todo = {}
    BY <2>2 DEF Dead, AtRest, Between
  <2>4. Later' /\ Timely'
    BY <2>2, <2>3 DEF Later, Timely, Pending, Between, Before, Posted
  <2>5. UNCHANGED <<now, ticked>>
    BY <2>1 DEF Start, LoopEnds
  <2>6. Passed'
    BY <1>1, <2>5 DEF OnceInv, Passed
  <2>7. \A y \in Loop : thread[y].at \notin Posted
    BY <2>2 DEF Between, Posted
  <2>8. \A s \in Schedules : schedules[s].cursor <= schedules'[s].cursor /\ schedules'[s].cursor \in Int
    BY <1>1, <1>2
  <2>9. QED
    BY <1>1, <2>4, <2>6, <2>7, <2>8, CalmOnce
<1>4. CASE UNCHANGED thread /\ (UNCHANGED <<now, ticked>> \/ (now' = now + 1 /\ ticked' = {}))
  <2>1. Later' /\ Behind' /\ OncePerTick'
    BY <1>1, <1>4 DEF OnceInv, Later, Behind, OncePerTick, Pending
  <2>2. \A x \in Loop : thread[x].at \notin Between => thread[x].ts \in Nat
    BY DEF RunnerInv, RunnerTyped, ThreadsTyped, Thread, Resting, Working, Time
  <2>3. Timely'
    BY <1>2, <1>4, <2>2 DEF OnceInv, Timely
  <2>4. Passed'
    BY <1>1, <1>2, <1>4 DEF OnceInv, Passed
  <2>5. QED
    BY <1>1, <2>1, <2>3, <2>4 DEF OnceInv
<1>5. QED
  BY <1>3, <1>4 DEF Stop, SwitchMode, Clock, vars, control

LEMMA OnceBegins == ASSUME NoRepeats, Init PROVE OnceInv
<1>1. \A x \in Loop : thread[x] = Dead
  BY DEF Init, Thread
<1>2. Later /\ Timely
  BY <1>1 DEF Later, Timely, Pending, Between, Before, Posted, Dead, AtRest
<1>3. Passed /\ Behind /\ OncePerTick /\ late = {}
  BY DEF Init, Passed, Behind, OncePerTick, NoTick
<1>4. QED
  BY <1>2, <1>3 DEF OnceInv

LEMMA OnceHolds ==
  ASSUME NoRepeats, RunnerInv, CadInv, OnceInv, [Next]_vars
  PROVE  OnceInv'
<1>1. RunnerInv' /\ OneLoop
  BY StepHolds DEF NoRepeats
<1>2. Thread = Loop /\ Manual = {} /\ late = {}
  BY DEF NoRepeats, OneLoop, Thread, OnceInv
<1>3. ~ Crash
  BY DEF NoRepeats, Crash, Fault
<1>4. ASSUME NEW x \in Loop, \/ CheckHistory(x) \/ Reserve(x) \/ Post(x) \/ Note(x)
                             \/ RecordIntent(x) \/ RecordRun(x)
      PROVE  OnceInv'
  <2>1. Strides(x) /\ UNCHANGED schedules
    BY <1>4, StridesOf
  <2>2. UNCHANGED <<now, ticked, late>>
    BY <1>4 DEF CheckHistory, Reserve, Post, Note, RecordIntent, RecordRun, prompts, control
  <2>3. \/ queued' = queued
        \/ /\ thread[x].at = "post" /\ thread'[x].at \in Posted
           /\ queued' = queued \cup {NewPrompt(x)}
    <3>1. CASE Post(x)
      <4>1. thread \in [Thread -> Resting \cup Working] /\ x \in Thread
        BY <1>2 DEF RunnerInv, RunnerTyped, ThreadsTyped
      <4>2. PICK at \in {"note", "failRecord"} : GoTo(x, at)
        BY <3>1 DEF Post
      <4>3. thread[x].at = "post" /\ ThreadsTyped
        BY <3>1 DEF Post, RunnerInv, RunnerTyped
      <4>4. thread'[x].at = at
        BY <4>1, <4>2, <4>3, Keeps
      <4>5. QED
        BY <3>1, <4>2, <4>3, <4>4 DEF Post, Posted
    <3>2. CASE ~ Post(x)
      BY <1>4, <3>2 DEF CheckHistory, Reserve, Note, RecordIntent, RecordRun, prompts
    <3>3. QED
      BY <3>1, <3>2
  <2>4. QED
    BY <2>1, <2>2, <2>3, StrideOnce
<1>5. ASSUME NEW x \in Loop, Execute(x) PROVE OnceInv'
  <2>1. ~ GiveUp(x)
    BY <1>2 DEF GiveUp
  <2>2. QED
    BY <1>4, <1>5, <2>1, PickOnce, MoveOnce DEF Execute
<1>6. ASSUME NEW x \in Loop, Boot(x) \/ Collect(x) PROVE OnceInv'
  BY <1>1, <1>6, BootOnce, CollectOnce
<1>7. ASSUME \/ \E x \in Loop : Start(x) \/ LoopEnds(x)
             \/ Stop \/ SwitchMode \/ Clock \/ UNCHANGED vars
      PROVE  OnceInv'
  BY <1>7, OthersOnce
<1>8. QED
  BY <1>2, <1>3, <1>5, <1>6, <1>7 DEF Next

\* The loop queues one prompt per cursor position ("The same tick always produces the
\* same key, preventing duplicate runs", compute_idempotency_key), although the minute
\* in the key may have changed when a slow tick or a failure makes it try again.
THEOREM TicksQueueOnce ==
  ASSUME NoRepeats
  PROVE  Spec => []OncePerTick
<1>1. Init => RunnerInv /\ CadInv /\ OnceInv
  BY BeginsWell, CadenceBegins, OnceBegins DEF NoRepeats
<1>2. RunnerInv /\ CadInv /\ OnceInv /\ [Next]_vars => RunnerInv' /\ CadInv' /\ OnceInv'
  BY StepHolds, CadenceHolds, OnceHolds DEF NoRepeats
<1>3. OnceInv => OncePerTick
  BY DEF OnceInv
<1>4. QED
  BY <1>1, <1>2, <1>3, PTL DEF Spec

-----------------------------------------------------------------------------
(* The delivery of what was queued, with any number of loops: until its    *)
(* intent is recorded, a prompt's key is with the thread that queued it.   *)

NoLoss == Manual = {} /\ Faults \cap {"crash", "save", "post"} = {}

Carries(x, k) ==
  /\ thread[x].at = "note" \/ (thread[x].at = "intent" /\ thread[x].prompt)
  /\ KeyOf(x) = k

KeptInv == late = {} /\ \A p \in queued : p.key \in intents \/ \E x \in Thread : Carries(x, p.key)

LEMMA StillCarried ==
  ASSUME KeptInv, UNCHANGED <<queued, late>>, intents \subseteq intents',
         \A x \in Thread : \A k : Carries(x, k) => Carries(x, k)' \/ k \in intents'
  PROVE  KeptInv'
BY DEF KeptInv

\* Of a step of one thread, only those that carry a prompt matter.
LEMMA OthersCarry ==
  ASSUME KeptInv, UNCHANGED <<queued, late>>, intents \subseteq intents',
         NEW x \in Thread, \A y \in Thread \ {x} : thread'[y] = thread[y],
         \A k : Carries(x, k) => Carries(x, k)' \/ k \in intents'
  PROVE  KeptInv'
<1>1. ASSUME NEW y \in Thread \ {x}, NEW k, Carries(y, k) PROVE Carries(y, k)'
  BY <1>1 DEF Carries, KeyOf
<1>2. QED
  BY <1>1, StillCarried

LEMMA KeptHolds ==
  ASSUME NoLoss, RunnerInv, KeptInv, [Next]_vars
  PROVE  KeptInv'
<1>1. /\ Manual = {} /\ Thread = Loop /\ late = {}
      /\ \A kind \in {"crash", "save", "post"} : ~ Fault(kind)
  BY DEF NoLoss, Thread, KeptInv, Fault
<1>2. ThreadsTyped /\ thread \in [Thread -> Resting \cup Working]
  BY DEF RunnerInv, RunnerTyped, ThreadsTyped
<1>3. ASSUME NEW x \in Thread, NEW r, thread' = [thread EXCEPT ![x] = r],
             thread[x].at \notin {"note", "intent"},
             UNCHANGED <<queued, late, intents>>
      PROVE  KeptInv'
  <2>1. \A y \in Thread \ {x} : thread'[y] = thread[y]
    BY <1>2, <1>3
  <2>2. \A k : ~ Carries(x, k)
    BY <1>3 DEF Carries
  <2>3. QED
    BY <1>3, <2>1, <2>2, OthersCarry
<1>4. ASSUME NEW x \in Loop, Start(x) \/ LoopEnds(x) \/ Boot(x) \/ Collect(x) PROVE KeptInv'
  <2>1. /\ thread[x].at \in {"dead", "boot", "wait"} /\ UNCHANGED <<queued, late, intents>>
        /\ x \in Thread
    BY <1>4 DEF Start, LoopEnds, Boot, Collect, files, prompts, Thread
  <2>2. \E r : thread' = [thread EXCEPT ![x] = r]
    BY <1>4 DEF Start, LoopEnds, Boot, Collect
  <2>3. QED
    BY <1>3, <2>1, <2>2
<1>5. ASSUME NEW x \in Thread, Execute(x) PROVE KeptInv'
  <2>1. CASE Pick(x)
    <3>1. thread[x].at = "pick" /\ UNCHANGED <<queued, late, intents>>
      BY <2>1 DEF Pick, files, prompts
    <3>2. \E r : thread' = [thread EXCEPT ![x] = r]
      BY <2>1 DEF Pick
    <3>3. QED
      BY <1>3, <3>1, <3>2
  <2>2. CASE CheckHistory(x) \/ Reserve(x) \/ MoveCursor(x) \/ RecordRun(x)
    <3>1. /\ thread[x].at \in {"check", "reserve", "cursor", "failCursor", "record", "failRecord"}
          /\ UNCHANGED <<queued, late, intents>>
      BY <2>2 DEF CheckHistory, Reserve, MoveCursor, RecordRun, files, prompts
    <3>2. \E at, b : GoTo(x, at) \/ thread' = [thread EXCEPT ![x].at = at, ![x].prompt = b]
      BY <2>2 DEF CheckHistory, Reserve, MoveCursor, RecordRun
    <3>3. \A y \in Thread \ {x} : thread'[y] = thread[y]
      BY <1>2, <3>2 DEF GoTo
    <3>4. \A k : ~ Carries(x, k)
      BY <3>1 DEF Carries
    <3>5. QED
      BY <3>1, <3>3, <3>4, OthersCarry
  <2>3. CASE Post(x)
    <3>1. /\ thread[x].at = "post" /\ GoTo(x, "note")
          /\ queued' = queued \cup {NewPrompt(x)} /\ UNCHANGED <<late, intents>>
      BY <1>1, <2>3 DEF Post, files
    <3>2. \A y \in Thread \ {x} : thread'[y] = thread[y]
      BY <1>2, <3>1 DEF GoTo
    <3>3. thread'[x].at = "note" /\ KeyOf(x)' = KeyOf(x)
      BY <1>2, <3>1, Goes DEF Positions
    <3>4. NewPrompt(x).key = KeyOf(x)
      BY DEF NewPrompt
    <3>5. ASSUME NEW p \in queued, NEW y \in Thread, Carries(y, p.key) PROVE Carries(y, p.key)'
      <4>1. y # x
        BY <3>1, <3>5 DEF Carries
      <4>2. QED
        BY <3>2, <3>5, <4>1 DEF Carries, KeyOf
    <3>6. ASSUME NEW p \in queued', p.key \notin intents'
          PROVE  \E y \in Thread : Carries(y, p.key)'
      <4>1. CASE p \in queued
        <5>1. PICK y \in Thread : Carries(y, p.key)
          BY <3>1, <3>6, <4>1 DEF KeptInv
        <5>2. Carries(y, p.key)'
          BY <3>5, <4>1, <5>1
        <5>3. QED
          BY <5>2 DEF Carries, KeyOf
      <4>2. CASE p = NewPrompt(x)
        BY <3>3, <3>4, <4>2 DEF Carries
      <4>3. QED
        BY <3>1, <4>1, <4>2
    <3>7. QED
      BY <1>1, <3>1, <3>6 DEF KeptInv
  <2>4. CASE GiveUp(x)
    BY <1>1, <2>4 DEF GiveUp
  <2>5. CASE Note(x)
    <3>1. /\ thread[x].at = "note" /\ UNCHANGED <<queued, late, intents>>
          /\ thread' = [thread EXCEPT ![x].at = "intent", ![x].prompt = TRUE]
      BY <1>1, <2>5 DEF Note, prompts
    <3>2. \A y \in Thread \ {x} : thread'[y] = thread[y]
      BY <1>2, <3>1
    <3>3. thread'[x].at = "intent" /\ KeyOf(x)' = KeyOf(x)
      BY <1>2, <3>1, Goes DEF Positions
    <3>4. thread'[x].prompt = TRUE
      <4>1. thread[x] \in Working
        BY <1>2, <3>1, HasKey
      <4>2. QED
        BY <1>2, <3>1, <4>1 DEF Working
    <3>5. \A k : Carries(x, k) => Carries(x, k)'
      BY <3>3, <3>4 DEF Carries
    <3>6. QED
      BY <3>1, <3>2, <3>5, OthersCarry
  <2>6. CASE RecordIntent(x)
    <3>1. /\ thread[x].at = "intent" /\ UNCHANGED <<queued, late>> /\ GoTo(x, "cursor")
          /\ intents' = (IF thread[x].prompt THEN intents \cup {KeyOf(x)} ELSE intents)
      BY <1>1, <2>6 DEF RecordIntent, prompts
    <3>2. \A y \in Thread \ {x} : thread'[y] = thread[y]
      BY <1>2, <3>1 DEF GoTo
    <3>3. \A k : Carries(x, k) => k \in intents'
      BY <3>1 DEF Carries
    <3>4. QED
      BY <3>1, <3>2, <3>3, OthersCarry
  <2>7. QED
    BY <1>5, <2>1, <2>2, <2>3, <2>4, <2>5, <2>6 DEF Execute
<1>6. CASE Stop \/ SwitchMode \/ Clock \/ UNCHANGED vars
  <2>1. UNCHANGED <<queued, late, intents, thread>>
    BY <1>6 DEF Stop, SwitchMode, Clock, vars, files, prompts
  <2>2. \A x \in Thread : \A k : Carries(x, k) => Carries(x, k)'
    BY <2>1 DEF Carries, KeyOf
  <2>3. QED
    BY <2>1, <2>2, StillCarried
<1>7. ~ Crash
  BY <1>1 DEF Crash
<1>8. QED
  BY <1>1, <1>4, <1>5, <1>6, <1>7 DEF Next

\* No delivery of a queued prompt is lost as long as the process runs and its files can
\* be written (_record_delivery_intent), however many loops run, are stopped and are
\* started again, and however slow they are.
THEOREM DeliveriesKept ==
  ASSUME NoLoss
  PROVE  Spec => []DeliveryKept
<1>1. Init => RunnerInv /\ KeptInv
  BY BeginsWell DEF Init, KeptInv
<1>2. RunnerInv /\ KeptInv /\ [Next]_vars => RunnerInv' /\ KeptInv'
  BY StepHolds, KeptHolds
<1>3. KeptInv => DeliveryKept
  BY DEF KeptInv, DeliveryKept, Executing, Carries
<1>4. QED
  BY <1>1, <1>2, <1>3, PTL DEF Spec

-----------------------------------------------------------------------------
(* As long as nothing goes wrong, one loop runs, every tick ends in its     *)
(* period, and what it has taken on has a prompt before it lets go of it.   *)

FiresAssumed == ~ CRONITER /\ Manual = {} /\ IsFiniteSet(Schedules)

RoomForAll == Cardinality(Schedules) <= MAX_RUNS_PER_TICK

HasPrompt(k) == \E p \in queued : p.key = k

\* The loop has taken j on, and its prompt is not queued.
Open(x, j) == j \in thread[x].todo \/ (thread[x].at \in Before /\ thread[x].job = j)

Orderly ==
  /\ ~ stopping /\ ~ delegated /\ late = {}
  /\ \A s \in Schedules : schedules[s].enabled
  /\ \A x \in Thread : thread[x].at # "dead" =>
       running /\ \A y \in Thread : thread[y].at # "dead" => y = x

Prompted ==
  /\ \A k \in history : HasPrompt(k)
  /\ \A k \in Key : keys[k] # "free" =>
       HasPrompt(k) \/ \E x \in Thread : thread[x].at = "post" /\ KeyOf(x) = k

InTime ==
  \A x \in Thread :
    /\ thread[x].at \in Between => thread[x].todo = {}
    /\ thread[x].at \notin Between => thread[x].ts = now
    /\ thread[x].at \notin {"failRecord", "failCursor"}
    /\ thread[x].at \in {"note", "intent", "cursor", "record"} => HasPrompt(KeyOf(x))

Covered ==
  RoomForAll /\ BasicCronDue(now) => \A x \in ticked, s \in Cron :
    HasPrompt(<<s, MinuteOf(now)>>) \/ \E j \in Work : j.s = s /\ Open(x, j)

Fired ==
  \A s \in Cron, m \in 0 .. MinuteOf(now) - 1 : CronNames(m) => HasPrompt(<<s, m>>)

Flawless == Orderly /\ Prompted /\ InTime /\ Covered /\ Fired

FiresInv == faultsLeft = MaxFaults => Flawless

\* In the last period of a minute that the expression names, all cron schedules have run.
AllRan ==
  BasicCronDue(now) /\ MinuteOf(now + 1) # MinuteOf(now) =>
    \A s \in Cron : HasPrompt(<<s, MinuteOf(now)>>)

LEMMA NextMinute ==
  ASSUME NEW t \in Nat
  PROVE  MinuteOf(t + 1) <= MinuteOf(t) + 1 /\ MinuteOf(t) \in Nat /\ MinuteOf(t + 1) \in Nat
<1> DEFINE u == t \div MINUTE
           v == (t + 1) \div MINUTE
<1>1. MINUTE \in Nat \ {0}
  BY RunnerAssumption
<1>2. /\ u \in Nat /\ v \in Nat
      /\ t < u * MINUTE + MINUTE /\ v * MINUTE <= t + 1
  BY <1>1, WholePart
<1> HIDE DEF u, v
<1>3. ASSUME v > u + 1 PROVE FALSE
  <2>1. (u + 2) * MINUTE <= v * MINUTE
    BY <1>1, <1>2, <1>3, SMTT(30)
  <2>2. (u + 2) * MINUTE = u * MINUTE + MINUTE + MINUTE /\ u * MINUTE \in Nat /\ v * MINUTE \in Nat
    BY <1>1, <1>2, SMTT(30)
  <2>3. QED
    BY <1>1, <1>2, <2>1, <2>2
<1>4. v <= u + 1
  BY <1>2, <1>3
<1>5. QED
  BY <1>2, <1>4 DEF MinuteOf, u, v

\* All that is due is chosen when there is room for it.
LEMMA AllChosen ==
  ASSUME FiresAssumed, RoomForAll, NEW C \in Chosen
  PROVE  C = DueNow
<1>1. /\ C \subseteq DueNow /\ DueNow \subseteq Schedules
      /\ Cardinality(C) = IF Cardinality(DueNow) > MAX_RUNS_PER_TICK
                            THEN MAX_RUNS_PER_TICK ELSE Cardinality(DueNow)
  BY Zenon DEF Chosen, DueNow
<1>2. IsFiniteSet(DueNow) /\ Cardinality(DueNow) <= Cardinality(Schedules)
  BY <1>1, FS_Subset DEF FiresAssumed
<1>3. /\ Cardinality(DueNow) \in Nat /\ Cardinality(Schedules) \in Nat /\ MAX_RUNS_PER_TICK \in Nat
  BY <1>2, FS_CardinalityType, RunnerAssumption DEF FiresAssumed
<1>4. Cardinality(C) = Cardinality(DueNow)
  BY <1>1, <1>2, <1>3 DEF RoomForAll
<1>5. QED
  BY <1>1, <1>2, <1>4, FS_Subset

\* Without croniter an evaluation does not raise, and disables nothing.
LEMMA StaysEnabled ==
  ASSUME FiresAssumed, BooksTyped, NEW s \in Schedules, schedules[s].enabled
  PROVE  /\ ~ Raises(s) /\ Evaluated(s).enabled
         /\ \A c : [Evaluated(s) EXCEPT !.cursor = c].enabled
<1>1. ~ Raises(s)
  BY DEF Raises, CronRaises, FiresAssumed
<1>2. Evaluated(s) = [schedules[s] EXCEPT !.errors = 0]
  BY <1>1, Zenon DEF Evaluated
<1>3. schedules[s] \in ScheduleState
  BY DEF BooksTyped
<1>4. QED
  BY <1>1, <1>2, <1>3 DEF ScheduleState

\* With a budget of faults that is still whole, nothing goes wrong in a step.
LEMMA NoneSpent ==
  ASSUME ControlTyped, [Next]_vars, faultsLeft' = MaxFaults
  PROVE  faultsLeft = MaxFaults /\ \A kind : ~ Fault(kind)
<1>1. faultsLeft \in 0 .. MaxFaults /\ MaxFaults \in Nat
  BY RunnerAssumption DEF ControlTyped
<1>2. \A kind : ~ Fault(kind)
  BY <1>1 DEF Fault
<1>3. faultsLeft' = faultsLeft
  <2>1. ASSUME NEW l \in Loop, Start(l) \/ LoopEnds(l) \/ Boot(l) \/ Collect(l)
        PROVE  faultsLeft' = faultsLeft
    BY <1>2, <2>1 DEF Start, LoopEnds, Boot, Collect, SaveSchedules, NoFault
  <2>2. ASSUME NEW x \in Thread, Execute(x) PROVE faultsLeft' = faultsLeft
    <3>1. CASE Pick(x) \/ CheckHistory(x)
      BY <3>1 DEF Pick, CheckHistory
    <3>2. CASE Reserve(x) \/ Post(x) \/ GiveUp(x)
      BY <1>2, <3>2 DEF Reserve, Post, GiveUp, NoFault
    <3>3. CASE Note(x) \/ RecordIntent(x)
      BY <1>2, <3>3 DEF Note, RecordIntent, NoFault
    <3>4. CASE MoveCursor(x) \/ RecordRun(x)
      BY <1>2, <3>4 DEF MoveCursor, RecordRun, SaveSchedules, NoFault
    <3>5. QED
      BY <2>2, <3>1, <3>2, <3>3, <3>4 DEF Execute
  <2>3. ASSUME NEW x \in Manual, NEW s \in Schedules, RunNow(x, s) PROVE faultsLeft' = faultsLeft
    BY <2>3 DEF RunNow
  <2>4. ASSUME NEW p \in late, ServeLate(p) PROVE faultsLeft' = faultsLeft
    BY <1>2, <2>4 DEF ServeLate, NoFault
  <2>5. CASE Clock \/ UNCHANGED vars
    BY <1>2, <2>5 DEF Clock, NoFault, vars
  <2>6. ~ Stop /\ ~ Crash /\ ~ SwitchMode
    BY <1>2 DEF Stop, Crash, SwitchMode
  <2>7. QED
    BY <2>1, <2>2, <2>3, <2>4, <2>5, <2>6 DEF Next
<1>4. QED
  BY <1>2, <1>3

\* A step of the loop that runs.
LEMMA Onward ==
  ASSUME RunnerInv, Flawless, NEW x \in Thread, thread[x].at # "dead",
         \A y \in Thread \ {x} : thread'[y] = thread[y],
         UNCHANGED <<now, late, running, stopping, delegated>>,
         queued \subseteq queued', \A s \in Schedules : schedules'[s].enabled,
         Prompted',
         thread'[x].at \notin {"dead", "failRecord", "failCursor"},
         thread'[x].at \in Between => thread'[x].todo = {},
         thread'[x].at \notin Between => thread'[x].ts = now,
         thread'[x].at \in {"note", "intent", "cursor", "record"} => HasPrompt(KeyOf(x))',
         \/ /\ UNCHANGED ticked
            /\ \A j \in Work : Open(x, j) => Open(x, j)' \/ HasPrompt(<<j.s, MinuteOf(now)>>)'
         \/ /\ ticked' = ticked \cup {x}
            /\ RoomForAll /\ BasicCronDue(now) =>
                 \A s \in Cron : \E j \in Work : j.s = s /\ Open(x, j)'
  PROVE  Flawless'
<1>1. \A k : HasPrompt(k) => HasPrompt(k)'
  BY DEF HasPrompt
<1>2. \A y \in Thread \ {x} : thread[y].at = "dead"
  BY DEF Flawless, Orderly
<1>3. Orderly'
  BY <1>2 DEF Flawless, Orderly
<1>4. InTime'
  <2> SUFFICES ASSUME NEW y \in Thread \ {x}
               PROVE  /\ thread'[y].at \in Between => thread'[y].todo = {}
                      /\ thread'[y].at = "dead"
    BY DEF InTime, Between
  <2>1. QED
    BY <1>2 DEF Flawless, InTime
<1>5. Fired'
  BY <1>1 DEF Flawless, Fired
<1>6. Covered'
  <2> SUFFICES ASSUME RoomForAll, BasicCronDue(now), NEW y \in ticked', NEW s \in Cron,
                      ~ HasPrompt(<<s, MinuteOf(now)>>)'
               PROVE  \E j \in Work : j.s = s /\ Open(y, j)'
    BY DEF Covered
  <2>1. y \in Thread /\ \A z \in ticked : z \in Thread
    BY DEF RunnerInv, RunnerTyped, ControlTyped, Thread
  <2>2. CASE y \in ticked
    <3>1. PICK j \in Work : j.s = s /\ Open(y, j)
      BY <1>1, <2>2 DEF Flawless, Covered
    <3>2. CASE y = x
      BY <3>1, <3>2
    <3>3. CASE y # x
      <4>1. Open(y, j)'
        BY <2>1, <3>1, <3>3 DEF Open
      <4>2. QED
        BY <3>1, <4>1
    <3>4. QED
      BY <3>2, <3>3
  <2>3. CASE y \notin ticked
    BY <2>3
  <2>4. QED
    BY <2>2, <2>3
<1>7. QED
  BY <1>3, <1>4, <1>5, <1>6 DEF Flawless

\* A step of an execution, with the key of the thread that takes it.
LEMMA ExecutionFires ==
  ASSUME FiresAssumed, RunnerInv, Flawless, \A kind : ~ Fault(kind), NEW x \in Thread, Execute(x)
  PROVE  Flawless'
<1>1. /\ ThreadsTyped /\ PromptsTyped /\ BooksTyped /\ thread \in [Thread -> Resting \cup Working]
      /\ Manual = {} /\ x \in Loop
  BY DEF RunnerInv, RunnerTyped, ThreadsTyped, FiresAssumed, Thread
<1>2. /\ ~ delegated /\ late = {} /\ \A s \in Schedules : schedules[s].enabled
      /\ thread[x].at \notin {"failRecord", "failCursor"}
  BY DEF Flawless, Orderly, InTime
<1>3. CASE Pick(x)
  <2>1. /\ thread[x].at = "pick"
        /\ UNCHANGED <<now, schedules, history, keys, queued, late, ticked, running, stopping, delegated>>
    BY <1>3 DEF Pick, memory, files, prompts, control
  <2>2. thread[x].ts = now
    BY <2>1 DEF Flawless, InTime, Between
  <2>3. ASSUME thread[x].todo = {}, thread' = [thread EXCEPT ![x] = AtRest]
        PROVE  Flawless'
    <3>1. thread'[x] = AtRest /\ \A y \in Thread \ {x} : thread'[y] = thread[y]
      BY <1>1, <2>3
    <3>2. \A j \in Work : ~ Open(x, j)
      BY <2>1, <2>3 DEF Open, Before
    <3>3. Prompted'
      <4>1. \A y \in Thread : thread[y].at = "post" => y # x
        BY <2>1
      <4>2. QED
        BY <2>1, <3>1, <4>1 DEF Flawless, Prompted, HasPrompt, KeyOf
    <3>4. QED
      BY <1>2, <2>1, <3>1, <3>2, <3>3, Onward DEF AtRest, Between
  <2>4. ASSUME NEW j \in thread[x].todo,
               thread' = [thread EXCEPT ![x] =
                 [at |-> "check", todo |-> @.todo \ {j}, ts |-> @.ts, prompt |-> FALSE, job |-> j]]
        PROVE  Flawless'
    <3>1. /\ thread'[x].at = "check" /\ thread'[x].todo = thread[x].todo \ {j}
          /\ thread'[x].ts = thread[x].ts /\ thread'[x].job = j
          /\ \A y \in Thread \ {x} : thread'[y] = thread[y]
      BY <1>1, <2>4
    <3>2. \A i \in Work : Open(x, i) => Open(x, i)'
      BY <2>1, <3>1 DEF Open, Before
    <3>3. Prompted'
      <4>1. \A y \in Thread : thread[y].at = "post" => y # x
        BY <2>1
      <4>2. QED
        BY <2>1, <3>1, <4>1 DEF Flawless, Prompted, HasPrompt, KeyOf
    <3>4. QED
      BY <1>2, <2>1, <2>2, <3>1, <3>2, <3>3, Onward DEF Between
  <2>5. QED
    BY <1>2, <1>3, <2>3, <2>4 DEF Pick
<1>4. ASSUME NEW k \in Key, k = KeyOf(x),
             NEW at \in Positions \ {"dead", "boot", "wait", "failRecord", "failCursor"},
             NEW b \in BOOLEAN,
             GoTo(x, at) \/ thread' = [thread EXCEPT ![x].at = at, ![x].prompt = b],
             thread[x].at \notin {"dead", "boot", "wait", "pick"},
             UNCHANGED <<now, late, ticked, running, stopping, delegated>>,
             queued \subseteq queued', \A s \in Schedules : schedules'[s].enabled,
             \A q \in history' : q \in history \/ q = k,
             \A q \in Key : keys'[q] # "free" => keys[q] # "free" \/ q = k,
             at \in {"reserve", "post"} \/ HasPrompt(k)',
             thread[x].at \in {"check", "reserve", "post"} \/ at \notin {"reserve", "post"},
             at = "reserve" => history' = history /\ keys' = keys /\ thread[x].at = "check",
             at = "post" => history' = history
      PROVE  Flawless'
  <2>1. /\ thread'[x].at = at /\ thread'[x].todo = thread[x].todo
        /\ thread'[x].ts = thread[x].ts /\ thread'[x].job = thread[x].job
    BY <1>1, <1>4, Keeps
  <2>2. thread[x] \in Working /\ thread[x].ts = now
    BY <1>1, <1>4, HasKey DEF Flawless, InTime, Between
  <2>3. \A y \in Thread \ {x} : thread'[y] = thread[y]
    <3>1. CASE GoTo(x, at)
      BY <1>1, <3>1 DEF GoTo
    <3>2. CASE thread' = [thread EXCEPT ![x].at = at, ![x].prompt = b]
      BY <1>1, <3>2
    <3>3. QED
      BY <1>4, <3>1, <3>2
  <2>4. KeyOf(x)' = k
    BY <1>4, <2>1 DEF KeyOf
  <2>5. \A q : HasPrompt(q) => HasPrompt(q)'
    BY <1>4 DEF HasPrompt
  <2>6. \A j \in Work : Open(x, j) => Open(x, j)' \/ HasPrompt(<<j.s, MinuteOf(now)>>)'
    <3> SUFFICES ASSUME NEW j \in Work, Open(x, j), ~ Open(x, j)'
                 PROVE  HasPrompt(<<j.s, MinuteOf(now)>>)'
      OBVIOUS
    <3>1. thread[x].job = j /\ at \notin Before
      BY <2>1 DEF Open
    <3>2. HasPrompt(k)' /\ k = <<j.s, MinuteOf(now)>>
      BY <1>4, <2>2, <3>1 DEF KeyOf, Before
    <3>3. QED
      BY <1>4, <3>2 DEF HasPrompt
  <2>7. Prompted'
    <3>1. \A q \in history' : HasPrompt(q)'
      BY <1>4, <2>5 DEF Flawless, Prompted
    <3>2. ASSUME NEW q \in Key, keys'[q] # "free", ~ HasPrompt(q)'
          PROVE  \E y \in Thread : thread'[y].at = "post" /\ KeyOf(y)' = q
      <4>1. CASE q = k
        <5>1. at \in {"reserve", "post"}
          BY <1>4, <3>2, <4>1
        <5>2. CASE at = "post"
          BY <2>1, <2>4, <4>1, <5>2
        <5>3. CASE at = "reserve"
          <6>1. keys[q] # "free" /\ ~ HasPrompt(q)
            BY <1>4, <2>5, <3>2, <5>3
          <6>2. PICK y \in Thread : thread[y].at = "post" /\ KeyOf(y) = q
            BY <6>1 DEF Flawless, Prompted
          <6>3. y # x
            BY <1>4, <5>3, <6>2
          <6>4. QED
            BY <2>3, <6>2, <6>3 DEF KeyOf
        <5>4. QED
          BY <5>1, <5>2, <5>3
      <4>2. CASE q # k
        <5>1. keys[q] # "free" /\ ~ HasPrompt(q)
          BY <1>4, <2>5, <3>2, <4>2
        <5>2. PICK y \in Thread : thread[y].at = "post" /\ KeyOf(y) = q
          BY <5>1 DEF Flawless, Prompted
        <5>3. y # x
          BY <1>4, <4>2, <5>2
        <5>4. QED
          BY <2>3, <5>2, <5>3 DEF KeyOf
      <4>3. QED
        BY <4>1, <4>2
    <3>3. QED
      BY <3>1, <3>2 DEF Prompted
  <2>8. at \in {"note", "intent", "cursor", "record"} => HasPrompt(KeyOf(x))'
    <3>1. ASSUME at \in {"note", "intent", "cursor", "record"} PROVE HasPrompt(k)'
      BY <1>4, <3>1
    <3>2. HasPrompt(k)' => HasPrompt(KeyOf(x))'
      BY <2>4 DEF HasPrompt
    <3>3. QED
      BY <3>1, <3>2
  <2>9. QED
    BY <1>4, <2>1, <2>2, <2>3, <2>6, <2>7, <2>8, Onward DEF Between
<1>5. PICK k \in {KeyOf(x)} : k = KeyOf(x)
  OBVIOUS
<1>6. CASE ~ Pick(x)
  <2>1. /\ thread[x].at \in {"check", "reserve", "post", "note", "intent", "cursor", "record"}
        /\ thread[x].at \notin {"dead", "boot", "wait", "pick"}
    BY <1>1, <1>2, <1>6 DEF Execute, CheckHistory, Reserve, Post, GiveUp, Note, RecordIntent,
                            MoveCursor, RecordRun, OneLoop
  <2>2. k \in Key /\ thread[x] \in Working /\ thread[x].ts = now
    BY <1>1, <1>5, <2>1, HasKey DEF Flawless, InTime, Between
  <2>3. thread[x].at \in {"note", "intent", "cursor", "record"} => HasPrompt(k)
    BY <1>5 DEF Flawless, InTime
  <2>4. k \in history => HasPrompt(k)
    BY DEF Flawless, Prompted
  <2>5. thread[x].at = "reserve" /\ keys[k] # "free" => HasPrompt(k)
    <3> SUFFICES ASSUME thread[x].at = "reserve", keys[k] # "free", ~ HasPrompt(k) PROVE FALSE
      OBVIOUS
    <3>1. PICK y \in Thread : thread[y].at = "post" /\ KeyOf(y) = k
      BY <2>2 DEF Flawless, Prompted
    <3>2. y = x
      BY <3>1 DEF Flawless, Orderly
    <3>3. QED
      BY <3>1, <3>2
  <2>6. CASE CheckHistory(x)
    <3>1. PICK at \in {"pick", "reserve"} : GoTo(x, at) /\ (at = "pick" => k \in history)
      BY <1>5, <2>6 DEF CheckHistory
    <3>2. /\ thread[x].at = "check"
          /\ UNCHANGED <<now, schedules, history, keys, queued, late, ticked, running, stopping, delegated>>
      BY <2>6 DEF CheckHistory, memory, files, prompts, control
    <3>3. at = "reserve" \/ HasPrompt(k)'
      BY <2>4, <3>1, <3>2 DEF HasPrompt
    <3>4. QED
      BY <1>2, <1>4, <1>5, <2>1, <2>2, <3>1, <3>2, <3>3 DEF Positions
  <2>7. CASE Reserve(x)
    <3>1. /\ thread[x].at = "reserve"
          /\ UNCHANGED <<now, schedules, history, queued, late, ticked, running, stopping, delegated>>
      BY <2>7 DEF Reserve, memory, prompts, control
    <3>2. CASE keys[k] = "free" /\ keys' = [keys EXCEPT ![k] = "taken"] /\ GoTo(x, "post")
      <4>1. \A q \in Key : keys'[q] # "free" => keys[q] # "free" \/ q = k
        BY <1>1, <3>2 DEF PromptsTyped
      <4>2. QED
        BY <1>2, <1>4, <1>5, <2>1, <2>2, <3>1, <3>2, <4>1 DEF Positions
    <3>3. ASSUME keys[k] # "free", UNCHANGED keys, NEW b \in BOOLEAN,
                 thread' = [thread EXCEPT ![x].at = "intent", ![x].prompt = b]
          PROVE  Flawless'
      <4>1. HasPrompt(k)'
        BY <2>5, <3>1, <3>3 DEF HasPrompt
      <4>2. GoTo(x, "intent") \/ thread' = [thread EXCEPT ![x].at = "intent", ![x].prompt = b]
        BY <3>3
      <4>3. /\ queued \subseteq queued' /\ history' = history /\ keys' = keys
            /\ \A s \in Schedules : schedules'[s].enabled
        BY <1>2, <3>1, <3>3
      <4>4. QED
        BY <1>4, <1>5, <2>1, <2>2, <3>1, <3>3, <4>1, <4>2, <4>3 DEF Positions
    <3>4. QED
      BY <1>5, <2>7, <3>2, <3>3 DEF Reserve
  <2>8. CASE Post(x)
    <3>1. /\ thread[x].at = "post" /\ GoTo(x, "note") /\ queued' = queued \cup {NewPrompt(x)}
          /\ UNCHANGED <<now, schedules, history, keys, late, ticked, running, stopping, delegated>>
      BY <2>8 DEF Post, memory, files, control
    <3>2. NewPrompt(x).key = k
      BY <1>5 DEF NewPrompt
    <3>3. HasPrompt(k)'
      BY <3>1, <3>2 DEF HasPrompt
    <3>4. /\ queued \subseteq queued' /\ history' = history /\ keys' = keys
          /\ \A s \in Schedules : schedules'[s].enabled
          /\ thread[x].at = "post" /\ GoTo(x, "note")
          /\ UNCHANGED <<now, late, ticked, running, stopping, delegated>>
      BY <1>2, <3>1
    <3>5. /\ "note" \in Positions \ {"dead", "boot", "wait", "failRecord", "failCursor"}
          /\ thread[x].at \notin {"dead", "boot", "wait", "pick"} /\ k = KeyOf(x)
      BY <1>5, <3>4 DEF Positions
    <3>6. \A q \in history' : q \in history \/ q = k
      BY <3>4
    <3>7. \A q \in Key : keys'[q] # "free" => keys[q] # "free" \/ q = k
      BY <3>4
    <3>8. QED
      BY <1>4, <2>2, <3>3, <3>4, <3>5, <3>6, <3>7
  <2>9. CASE Note(x)
    <3>1. /\ thread[x].at = "note"
          /\ keys' = [keys EXCEPT ![k] = "prompt"]
          /\ thread' = [thread EXCEPT ![x].at = "intent", ![x].prompt = TRUE]
          /\ UNCHANGED <<now, schedules, history, queued, late, ticked, running, stopping, delegated>>
      BY <1>5, <2>9 DEF Note, memory, prompts, control
    <3>2. \A q \in Key : keys'[q] # "free" => keys[q] # "free" \/ q = k
      BY <1>1, <3>1 DEF PromptsTyped
    <3>3. HasPrompt(k)'
      BY <2>3, <3>1 DEF HasPrompt
    <3>4. GoTo(x, "intent") \/ thread' = [thread EXCEPT ![x].at = "intent", ![x].prompt = TRUE]
      BY <3>1
    <3>5. /\ queued \subseteq queued' /\ history' = history
          /\ \A s \in Schedules : schedules'[s].enabled
          /\ UNCHANGED <<now, late, ticked, running, stopping, delegated>>
      BY <1>2, <3>1
    <3>6. /\ "intent" \in Positions \ {"dead", "boot", "wait", "failRecord", "failCursor"}
          /\ thread[x].at = "note" /\ thread[x].at \notin {"dead", "boot", "wait", "pick"}
          /\ k = KeyOf(x)
      BY <1>5, <3>1 DEF Positions
    <3>7. \A q \in history' : q \in history \/ q = k
      BY <3>5
    <3>8. QED
      BY <1>4, <2>2, <3>2, <3>3, <3>4, <3>5, <3>6, <3>7
  <2>10. CASE RecordIntent(x)
    <3>1. /\ thread[x].at = "intent" /\ GoTo(x, "cursor")
          /\ UNCHANGED <<now, schedules, history, keys, queued, late, ticked, running, stopping, delegated>>
      BY <2>10 DEF RecordIntent, memory, prompts, control
    <3>2. HasPrompt(k)'
      BY <2>3, <3>1 DEF HasPrompt
    <3>3. QED
      BY <1>2, <1>4, <1>5, <2>1, <2>2, <3>1, <3>2 DEF Positions
  <2>11. CASE MoveCursor(x)
    <3>1. /\ thread[x].at = "cursor"
          /\ UNCHANGED <<now, history, keys, queued, late, ticked, running, stopping, delegated>>
      BY <1>2, <2>11 DEF MoveCursor, prompts, control
    <3>2. GoTo(x, "record")
      BY <2>11, <3>1, Zenon DEF MoveCursor
    <3>3. \A s \in Schedules : schedules'[s].enabled
      <4>1. \E s, c : schedules' = [schedules EXCEPT ![s].cursor = c]
        BY <2>11 DEF MoveCursor
      <4>2. QED
        BY <1>1, <1>2, <4>1 DEF BooksTyped, ScheduleState
    <3>4. HasPrompt(k)'
      BY <2>3, <3>1 DEF HasPrompt
    <3>5. QED
      BY <1>4, <1>5, <2>1, <2>2, <3>1, <3>2, <3>3, <3>4 DEF Positions
  <2>12. CASE RecordRun(x)
    <3>1. /\ thread[x].at = "record" /\ history' = history \cup {k}
          /\ UNCHANGED <<now, schedules, keys, queued, late, ticked, running, stopping, delegated>>
      BY <1>2, <1>5, <2>12 DEF RecordRun, prompts, control
    <3>2. GoTo(x, "pick")
      BY <2>12, <3>1, Zenon DEF RecordRun
    <3>3. HasPrompt(k)'
      BY <2>3, <3>1 DEF HasPrompt
    <3>4. QED
      BY <1>2, <1>4, <1>5, <2>1, <2>2, <3>1, <3>2, <3>3 DEF Positions
  <2>13. ~ GiveUp(x)
    BY <1>1, RunnerAssumption DEF GiveUp
  <2>14. QED
    BY <1>6, <2>6, <2>7, <2>8, <2>9, <2>10, <2>11, <2>12, <2>13 DEF Execute
<1>7. QED
  BY <1>3, <1>6

LEMMA LoopFires ==
  ASSUME FiresAssumed, RunnerInv, Flawless, NEW l \in Loop,
         Start(l) \/ LoopEnds(l) \/ Boot(l) \/ Collect(l)
  PROVE  Flawless'
<1>1. /\ l \in Thread /\ thread \in [Thread -> Resting \cup Working] /\ BooksTyped /\ ControlTyped
      /\ ~ stopping /\ ~ delegated /\ \A s \in Schedules : schedules[s].enabled
  BY DEF RunnerInv, RunnerTyped, ThreadsTyped, Thread, Flawless, Orderly
<1>2. ~ LoopEnds(l)
  BY <1>1 DEF LoopEnds
<1>3. ASSUME UNCHANGED <<history, keys, queued>>, thread[l].at # "post",
             \A y \in Thread \ {l} : thread'[y] = thread[y]
      PROVE  Prompted'
  BY <1>1, <1>3 DEF Flawless, Prompted, HasPrompt, KeyOf
<1>4. CASE Start(l)
  <2>1. /\ ~ running /\ running' = TRUE /\ stopping' = FALSE /\ thread[l].at = "dead"
        /\ UNCHANGED <<now, schedules, history, keys, queued, late, ticked, delegated>>
        /\ thread' = [thread EXCEPT ![l] = [AtRest EXCEPT !.at = "boot"]]
    BY <1>4 DEF Start, memory, files, prompts
  <2>2. /\ thread'[l].at = "boot" /\ thread'[l].todo = {}
        /\ \A y \in Thread \ {l} : thread'[y] = thread[y]
    BY <1>1, <2>1 DEF AtRest
  <2>3. \A y \in Thread : thread[y].at = "dead"
    BY <2>1 DEF Flawless, Orderly
  <2>4. Orderly'
    BY <1>1, <2>1, <2>2, <2>3 DEF Flawless, Orderly
  <2>5. Prompted'
    BY <1>3, <2>1, <2>2
  <2>6. InTime'
    BY <2>1, <2>2, <2>3 DEF Flawless, InTime, Between
  <2>7. \A y \in Thread, j \in Work : ~ Open(y, j)
    BY <2>3 DEF Flawless, InTime, Between, Open, Before
  <2>8. Covered'
    <3>1. RoomForAll /\ BasicCronDue(now) => \A y \in ticked, s \in Cron : HasPrompt(<<s, MinuteOf(now)>>)
      <4>1. ticked \subseteq Thread
        BY <1>1 DEF ControlTyped, Thread
      <4>2. QED
        BY <2>7, <4>1 DEF Flawless, Covered
    <3>2. QED
      BY <2>1, <3>1 DEF Covered, HasPrompt
  <2>9. Fired'
    BY <2>1 DEF Flawless, Fired, HasPrompt
  <2>10. QED
    BY <2>4, <2>5, <2>6, <2>8, <2>9 DEF Flawless
<1>5. CASE Boot(l)
  <2>1. /\ thread[l].at = "boot" /\ thread' = [thread EXCEPT ![l] = AtRest]
        /\ UNCHANGED <<now, history, keys, queued, late, ticked, running, stopping, delegated>>
    BY <1>5 DEF Boot, prompts, control
  <2>2. /\ thread'[l] = AtRest /\ \A y \in Thread \ {l} : thread'[y] = thread[y]
    BY <1>1, <2>1
  <2>3. \A s \in Schedules : schedules'[s].enabled
    <3>1. CASE SKIP_MISSED
      <4>1. schedules' = [s \in Schedules |->
              IF s \in DueNow THEN [Evaluated(s) EXCEPT !.cursor = CursorSkipped(s)] ELSE Evaluated(s)]
        BY <1>5, <3>1 DEF Boot
      <4>2. QED
        BY <1>1, <4>1, StaysEnabled
    <3>2. CASE ~ SKIP_MISSED
      BY <1>1, <1>5, <3>2 DEF Boot
    <3>3. QED
      BY <3>1, <3>2
  <2>4. \A j \in Work : ~ Open(l, j)
    BY <1>1, <2>1 DEF Flawless, InTime, Between, Open, Before
  <2>5. Prompted'
    BY <1>3, <2>1, <2>2
  <2>6. /\ thread'[l].at = "wait" /\ thread'[l].todo = {} /\ thread'[l].at \in Between
    BY <2>2 DEF AtRest, Between
  <2>7. QED
    BY <1>1, <2>1, <2>2, <2>3, <2>4, <2>5, <2>6, Onward
<1>6. CASE Collect(l)
  <2>1. /\ thread[l].at = "wait" /\ ticked' = ticked \cup {l}
        /\ UNCHANGED <<now, history, keys, queued, late, running, stopping, delegated>>
        /\ schedules' = [s \in Schedules |-> Evaluated(s)]
    BY <1>6 DEF Collect, prompts
  <2>2. PICK C \in Chosen :
          thread' = [thread EXCEPT ![l] =
            [AtRest EXCEPT !.at = "pick", !.ts = now,
                           !.todo = {[s |-> s, from |-> schedules[s].cursor] : s \in C}]]
    BY <1>6 DEF Collect
  <2>3. /\ thread'[l].at = "pick" /\ thread'[l].ts = now
        /\ thread'[l].todo = {[s |-> s, from |-> schedules[s].cursor] : s \in C}
        /\ \A y \in Thread \ {l} : thread'[y] = thread[y]
    BY <1>1, <2>2 DEF AtRest
  <2>4. \A s \in Schedules : schedules'[s].enabled
    BY <1>1, <2>1, StaysEnabled
  <2>5. RoomForAll => C = DueNow
    BY AllChosen
  <2>6. ASSUME RoomForAll, BasicCronDue(now), NEW s \in Cron
        PROVE  \E j \in Work : j.s = s /\ Open(l, j)'
    <3>1. s \in Schedules /\ ~ CRONITER
      BY RunnerAssumption DEF FiresAssumed
    <3>2. Due(s)
      BY <2>6, <3>1, Zenon DEF Due
    <3>3. s \in C
      BY <1>1, <2>5, <2>6, <3>1, <3>2, StaysEnabled DEF DueNow
    <3>4. schedules[s].cursor \in Cursor
      BY <1>1, <3>1 DEF BooksTyped, ScheduleState
    <3> DEFINE j == [s |-> s, from |-> schedules[s].cursor]
    <3>5. j \in Work /\ j.s = s /\ j \in thread'[l].todo
      BY <2>3, <3>1, <3>3, <3>4 DEF Work
    <3> HIDE DEF j
    <3>6. QED
      BY <3>5 DEF Open
  <2>7. Prompted'
    BY <1>3, <2>1, <2>3
  <2>8. QED
    BY <1>1, <2>1, <2>3, <2>4, <2>6, <2>7, Onward DEF Between
<1>7. QED
  BY <1>2, <1>4, <1>5, <1>6

\* A period that passes has had its tick, and the tick has ended.
LEMMA ClockFires ==
  ASSUME FiresAssumed, RunnerInv, Flawless, \A kind : ~ Fault(kind), Clock,
         RoomForAll \/ (Punctual => AllRan)
  PROVE  Flawless'
<1>1. /\ now' = now + 1 /\ ticked' = {} /\ Punctual /\ now \in Nat
      /\ UNCHANGED <<schedules, history, keys, queued, late, thread, running, stopping, delegated>>
  BY DEF Clock, memory, files, prompts, RunnerInv, RunnerTyped, ControlTyped, Time
<1>2. \A x \in Thread : thread[x].at \in Between /\ thread[x].todo = {}
  BY <1>1 DEF Punctual, Flawless, InTime, Between
<1>3. Orderly' /\ Prompted'
  BY <1>1 DEF Flawless, Orderly, Prompted, HasPrompt, KeyOf
<1>4. InTime'
  BY <1>1, <1>2 DEF Flawless, InTime, Between
<1>5. Covered'
  BY <1>1 DEF Covered
<1>6. Fired'
  <2> SUFFICES ASSUME NEW s \in Cron, NEW m \in 0 .. MinuteOf(now + 1) - 1, CronNames(m)
               PROVE  HasPrompt(<<s, m>>)
    BY <1>1 DEF Fired, HasPrompt
  <2>1. MinuteOf(now + 1) <= MinuteOf(now) + 1 /\ MinuteOf(now) \in Nat /\ MinuteOf(now + 1) \in Nat
    BY <1>1, NextMinute
  <2>2. CASE m \in 0 .. MinuteOf(now) - 1
    BY <2>2 DEF Flawless, Fired
  <2>3. CASE m = MinuteOf(now)
    <3>1. BasicCronDue(now)
      BY <2>3 DEF BasicCronDue
    <3>2. PICK l \in Loop : thread[l].at # "dead"
      BY <1>1 DEF Punctual, Flawless, Orderly
    <3>3. l \in ticked /\ l \in Thread
      BY <1>1, <3>2 DEF Punctual, FiresAssumed, Thread
    <3>4. \A j \in Work : ~ Open(l, j)
      BY <1>2, <3>3 DEF Open, Between, Before
    <3>5. CASE RoomForAll
      BY <2>3, <3>1, <3>3, <3>4, <3>5 DEF Flawless, Covered
    <3>6. QED
      BY <1>1, <2>1, <2>3, <3>1, <3>5 DEF AllRan
  <2>4. QED
    BY <2>1, <2>2, <2>3
<1>7. QED
  BY <1>3, <1>4, <1>5, <1>6 DEF Flawless

LEMMA FiresHolds ==
  ASSUME FiresAssumed, RunnerInv, FiresInv, [Next]_vars,
         RoomForAll \/ (faultsLeft = MaxFaults /\ Punctual => AllRan)
  PROVE  FiresInv'
<1> SUFFICES ASSUME faultsLeft' = MaxFaults PROVE Flawless'
  BY DEF FiresInv
<1>1. faultsLeft = MaxFaults /\ Flawless /\ \A kind : ~ Fault(kind)
  BY NoneSpent DEF RunnerInv, RunnerTyped, FiresInv
<1>2. ~ Stop /\ ~ Crash /\ ~ SwitchMode
  BY <1>1 DEF Stop, Crash, SwitchMode
<1>3. Manual = {} /\ late = {}
  BY <1>1 DEF FiresAssumed, Flawless, Orderly
<1>4. CASE UNCHANGED vars
  <2>1. UNCHANGED <<now, schedules, history, keys, queued, late, thread, ticked, running, stopping,
                    delegated>>
    BY <1>4 DEF vars, memory, files, prompts, control
  <2>2. Orderly' /\ Prompted'
    BY <1>1, <2>1 DEF Flawless, Orderly, Prompted, HasPrompt, KeyOf
  <2>3. InTime'
    BY <1>1, <2>1 DEF Flawless, InTime, HasPrompt, KeyOf
  <2>4. \A q : HasPrompt(q) => HasPrompt(q)'
    BY <2>1 DEF HasPrompt
  <2>5. \A y, j : Open(y, j) => Open(y, j)'
    BY <2>1 DEF Open
  <2>6. Covered'
    <3> SUFFICES ASSUME RoomForAll, BasicCronDue(now), NEW y \in ticked, NEW s \in Cron,
                        ~ HasPrompt(<<s, MinuteOf(now)>>)'
                 PROVE  \E j \in Work : j.s = s /\ Open(y, j)'
      BY <2>1 DEF Covered
    <3>1. PICK j \in Work : j.s = s /\ Open(y, j)
      BY <1>1, <2>1, <2>4 DEF Flawless, Covered
    <3>2. QED
      BY <2>5, <3>1
  <2>7. Fired'
    BY <1>1, <2>1, <2>4 DEF Flawless, Fired
  <2>8. QED
    BY <2>2, <2>3, <2>6, <2>7 DEF Flawless
<1>5. ASSUME NEW l \in Loop, Start(l) \/ LoopEnds(l) \/ Boot(l) \/ Collect(l) PROVE Flawless'
  BY <1>1, <1>5, LoopFires
<1>6. ASSUME NEW x \in Thread, Execute(x) PROVE Flawless'
  BY <1>1, <1>6, ExecutionFires
<1>7. CASE Clock
  BY <1>1, <1>7, ClockFires
<1>8. QED
  BY <1>2, <1>3, <1>4, <1>5, <1>6, <1>7 DEF Next

LEMMA FiresBegins == ASSUME FiresAssumed, Init PROVE FiresInv
<1>1. \A x \in Thread : thread[x].at = "dead" /\ thread[x].todo = {}
  BY DEF Init, AtRest, Dead, FiresAssumed, Thread
<1>2. Orderly
  BY <1>1 DEF Init, Orderly
<1>3. Prompted
  BY DEF Init, Prompted
<1>4. InTime
  BY <1>1 DEF InTime, Between
<1>5. Covered
  BY DEF Init, Covered
<1>6. Fired
  <2>1. MinuteOf(0) = 0
    BY RunnerAssumption DEF MinuteOf
  <2>2. QED
    BY <2>1 DEF Init, Fired
<1>7. QED
  BY <1>2, <1>3, <1>4, <1>5, <1>6 DEF FiresInv, Flawless

\* Without croniter a cron schedule runs in every minute that its expression names, as
\* long as nothing went wrong (is_cron_due, _tick), if a tick has room for all schedules;
\* whatever the expression, the length of a minute and the number of loops to start.
THEOREM CronRuns ==
  ASSUME FiresAssumed, RoomForAll
  PROVE  Spec => []CronFires
<1>1. Init => RunnerInv /\ FiresInv
  BY BeginsWell, FiresBegins
<1>2. RunnerInv /\ FiresInv /\ [Next]_vars => RunnerInv' /\ FiresInv'
  BY StepHolds, FiresHolds
<1>3. FiresInv => CronFires
  BY DEF FiresInv, Flawless, Fired, CronFires, HasPrompt
<1>4. QED
  BY <1>1, <1>2, <1>3, PTL DEF Spec

-----------------------------------------------------------------------------
(* The same when a tick runs fewer schedules than there are.  They take    *)
(* turns, oldest cursor first: whoever waits is passed over by schedules   *)
(* with an older cursor, and none of them is ahead of it again once it has *)
(* run.  So a wait ends after LongestWait periods, if an interval is long  *)
(* enough that its schedule does not come back before.                     *)

LongestWait == (Cardinality(Schedules) - 1) \div MAX_RUNS_PER_TICK

InTurn ==
  /\ FiresAssumed /\ ~ SKIP_MISSED
  /\ LongestWait < MINUTE /\ MINUTE + LongestWait <= INTERVAL

CursorOf(s) == schedules[s].cursor
Began       == MinuteOf(now) * MINUTE

\* What the loop has chosen and not yet moved the cursor of.
Handling == {"check", "reserve", "post", "note", "intent", "cursor"}
Taking(x, s) == \/ \E j \in thread[x].todo : j.s = s
                \/ thread[x].at \in Handling /\ thread[x].job.s = s
Taken == {s \in Schedules : \E x \in Thread : Taking(x, s)}

\* s is due and has not run since it became due, in DueSince.
Waiting(s)  == IF s \in Cron THEN BasicCronDue(now) /\ CursorOf(s) < Began
                             ELSE IntervalDue(CursorOf(s), now)
DueSince(s) == IF s \in Cron THEN Began
               ELSE IF CursorOf(s) = NoTick THEN 0 ELSE CursorOf(s) + INTERVAL

\* The schedules that may be chosen before s while it waits.
Ahead(s) ==
  {r \in Schedules \ {s} :
     /\ CursorOf(r) <= CursorOf(s)
     /\ s \in Cron /\ r \notin Cron /\ CursorOf(r) # NoTick => CursorOf(r) + INTERVAL < Began + MINUTE}

Ticks(s) == now - DueSince(s) + IF ticked = {} THEN 0 ELSE 1

Paced ==
  \A s \in Schedules \ Taken : Waiting(s) =>
    Cardinality(Ahead(s) \ Taken) + MAX_RUNS_PER_TICK * Ticks(s) < Cardinality(Schedules)

\* s has run in this period, or lately enough: it is ahead of nobody who waits.
Settled(s) ==
  /\ CursorOf(s) # NoTick
  /\ IF s \in Cron THEN Began <= CursorOf(s)
     ELSE now - LongestWait <= CursorOf(s) /\ now + MINUTE <= CursorOf(s) + INTERVAL

\* s is not due before minute m is over, or has run in it.
Rested(s, m) ==
  /\ CursorOf(s) # NoTick
  /\ IF s \in Cron THEN m <= MinuteOf(CursorOf(s)) ELSE m < MinuteOf(CursorOf(s) + INTERVAL)

InStep(s) ==
  /\ CursorOf(s) <= now
  /\ s \in Cron /\ CursorOf(s) # NoTick => HasPrompt(<<s, MinuteOf(CursorOf(s))>>)
  /\ s \in Taken \ Cron /\ CursorOf(s) # NoTick =>
       CursorOf(s) + INTERVAL <= now /\ now <= CursorOf(s) + INTERVAL + LongestWait

SingleOf(x) ==
  /\ \A i, j \in thread[x].todo : i.s = j.s => i = j
  /\ thread[x].at \in Handling => \A j \in thread[x].todo : j.s # thread[x].job.s
  /\ thread[x].at = "record" => Settled(thread[x].job.s)

Single == \A x \in Thread : SingleOf(x)

TurnInv ==
  /\ \A s \in Schedules : InStep(s)
  /\ \A k \in history : Rested(k[1], k[2])
  /\ Single
  /\ \A x \in ticked : thread[x].at # "dead"
  /\ Paced

LEMMA TurnNumbers ==
  ASSUME InTurn, NEW u \in Schedules
  PROVE  /\ LongestWait \in Nat /\ {MINUTE, INTERVAL, MAX_RUNS_PER_TICK} \subseteq Nat \ {0}
         /\ LongestWait < MINUTE /\ MINUTE + LongestWait <= INTERVAL
         /\ Cardinality(Schedules) \in Nat \ {0}
<1>1. {MINUTE, INTERVAL, MAX_RUNS_PER_TICK} \subseteq Nat \ {0}
  BY RunnerAssumption
<1>2. Cardinality(Schedules) \in Nat \ {0}
  BY FS_CardinalityType, FS_EmptySet DEF InTurn, FiresAssumed
<1>3. LongestWait \in Nat
  BY <1>1, <1>2, WholePart DEF LongestWait
<1>4. QED
  BY <1>1, <1>2, <1>3 DEF InTurn

\* Who was passed over that often has waited no longer than LongestWait.
LEMMA WaitEnds ==
  ASSUME InTurn, NEW u \in Schedules, NEW t \in Int,
         MAX_RUNS_PER_TICK * t < Cardinality(Schedules)
  PROVE  t <= LongestWait
<1> DEFINE k == MAX_RUNS_PER_TICK
           n == Cardinality(Schedules) - 1
           w == LongestWait
<1>1. k \in Nat \ {0} /\ n \in Nat /\ w \in Nat
  BY TurnNumbers
<1>2. k * t <= n /\ w = n \div k
  <2>1. k * t \in Int /\ k * t < n + 1
    BY <1>1, TurnNumbers
  <2>2. QED
    BY <1>1, <2>1 DEF LongestWait
<1> HIDE DEF k, n, w
<1>3. n < w * k + k
  BY <1>1, <1>2, WholePart
<1>4. ASSUME t > w PROVE FALSE
  <2>1. k * (w + 1) <= k * t
    BY <1>1, <1>4, SMTT(30)
  <2>2. k * (w + 1) = w * k + k
    BY <1>1, SMTT(30)
  <2>3. w * k \in Int /\ k * t \in Int
    BY <1>1
  <2>4. QED
    BY <1>1, <1>2, <1>3, <2>1, <2>2, <2>3
<1>5. QED
  BY <1>1, <1>4 DEF w

\* The minute of a period.
LEMMA MinuteBounds ==
  ASSUME NEW t \in Nat
  PROVE  /\ MinuteOf(t) \in Nat /\ MINUTE \in Nat \ {0} /\ MinuteOf(t) * MINUTE \in Nat
         /\ MinuteOf(t) * MINUTE <= t /\ t < MinuteOf(t) * MINUTE + MINUTE
BY RunnerAssumption, WholePart DEF MinuteOf

LEMMA MinuteOrder ==
  ASSUME NEW t \in Nat, NEW m \in Nat
  PROVE  m * MINUTE <= t <=> m <= MinuteOf(t)
<1> DEFINE u == MinuteOf(t)
           b == MINUTE
<1>1. u \in Nat /\ b \in Nat \ {0} /\ u * b \in Nat /\ u * b <= t /\ t < u * b + b
  BY MinuteBounds
<1> HIDE DEF u, b
<1>2. m * b \in Nat
  BY <1>1
<1>3. ASSUME m <= u PROVE m * b <= t
  <2>1. m * b <= u * b
    BY <1>1, <1>3, SMTT(30)
  <2>2. QED
    BY <1>1, <1>2, <2>1
<1>4. ASSUME m > u PROVE t < m * b
  <2>1. (u + 1) * b <= m * b
    BY <1>1, <1>4, SMTT(30)
  <2>2. (u + 1) * b = u * b + b
    BY <1>1, SMTT(30)
  <2>3. QED
    BY <1>1, <1>2, <2>1, <2>2
<1>5. QED
  BY <1>1, <1>2, <1>3, <1>4 DEF u, b

\* What the invariant is about has its type.
LEMMA TurnTypes ==
  ASSUME RunnerInv
  PROVE  /\ now \in Nat /\ Began \in Nat /\ Began <= now /\ now < Began + MINUTE
         /\ MinuteOf(now) \in Nat /\ NoTick = -1
         /\ \A s \in Schedules : CursorOf(s) \in Nat \cup {-1}
<1>1. now \in Nat
  BY RunnerAssumption DEF RunnerInv, RunnerTyped, ControlTyped, Time
<1>2. \A s \in Schedules : CursorOf(s) \in Nat \cup {-1}
  BY RunnerAssumption
  DEF RunnerInv, RunnerTyped, BooksTyped, ScheduleState, CursorOf, Cursor, Time, NoTick
<1>3. QED
  BY <1>1, <1>2, MinuteBounds DEF Began, NoTick

\* One that has run is ahead of nobody who waits, and does not wait.
SettledApart ==
  \A r, u \in Schedules : Settled(r) /\ Waiting(u) => r \notin Ahead(u) /\ r # u

LEMMA RunsApart ==
  ASSUME InTurn, RunnerInv
  PROVE  SettledApart
<1> SUFFICES ASSUME NEW r \in Schedules, NEW s \in Schedules, Settled(r), Waiting(s)
             PROVE  r \notin Ahead(s) /\ r # s
  BY DEF SettledApart
<1>1. /\ LongestWait \in Nat /\ MINUTE \in Nat \ {0} /\ INTERVAL \in Nat \ {0}
      /\ LongestWait < MINUTE /\ MINUTE + LongestWait <= INTERVAL
  BY TurnNumbers
<1>2. /\ now \in Nat /\ Began \in Nat /\ Began <= now /\ now < Began + MINUTE /\ NoTick = -1
      /\ CursorOf(r) \in Nat \cup {-1} /\ CursorOf(s) \in Nat \cup {-1}
  BY TurnTypes
<1>3. ~ Waiting(r)
  BY <1>1, <1>2 DEF Settled, Waiting, IntervalDue
<1>4. ASSUME r \in Ahead(s) PROVE FALSE
  <2>1. CASE s \in Cron
    BY <1>1, <1>2, <1>4, <2>1 DEF Settled, Waiting, Ahead
  <2>2. CASE s \notin Cron
    BY <1>1, <1>2, <1>4, <2>2 DEF Settled, Waiting, Ahead, IntervalDue
  <2>3. QED
    BY <2>1, <2>2
<1>5. QED
  BY <1>3, <1>4

\* One that has run rests until the minute is over.
LEMMA SettledRests ==
  ASSUME InTurn, RunnerInv, NEW s \in Schedules, Settled(s)
  PROVE  Rested(s, MinuteOf(now))
<1>1. /\ LongestWait \in Nat /\ MINUTE \in Nat \ {0} /\ INTERVAL \in Nat \ {0}
      /\ LongestWait < MINUTE /\ MINUTE + LongestWait <= INTERVAL
  BY TurnNumbers
<1>2. /\ now \in Nat /\ Began \in Nat /\ Began <= now /\ now < Began + MINUTE /\ NoTick = -1
      /\ MinuteOf(now) \in Nat /\ CursorOf(s) \in Nat
  BY TurnTypes DEF Settled
<1>3. CASE s \in Cron
  BY <1>2, <1>3, MinuteOrder DEF Settled, Rested, Began
<1>4. CASE s \notin Cron
  <2>1. Began + MINUTE <= CursorOf(s) + INTERVAL
    BY <1>1, <1>2, <1>4 DEF Settled
  <2>2. (MinuteOf(now) + 1) * MINUTE = Began + MINUTE
    BY <1>1, <1>2, SMTT(30) DEF Began
  <2>3. CursorOf(s) + INTERVAL \in Nat /\ MinuteOf(now) + 1 \in Nat
    BY <1>1, <1>2
  <2>4. MinuteOf(now) + 1 <= MinuteOf(CursorOf(s) + INTERVAL) /\ MinuteOf(CursorOf(s) + INTERVAL) \in Nat
    BY <2>1, <2>2, <2>3, MinuteOrder, MinuteBounds
  <2>5. QED
    BY <1>2, <1>4, <2>4 DEF Rested
<1>5. QED
  BY <1>3, <1>4

\* A schedule that was taken and has run in this minute has its cursor in it.
LEMMA RestedSettled ==
  ASSUME InTurn, RunnerInv, NEW s \in Taken, InStep(s), Rested(s, MinuteOf(now))
  PROVE  Settled(s)
<1>1. s \in Schedules /\ INTERVAL \in Nat \ {0}
  BY RunnerAssumption DEF Taken
<1>2. /\ now \in Nat /\ Began \in Nat /\ MinuteOf(now) \in Nat /\ NoTick = -1
      /\ CursorOf(s) \in Nat
  BY <1>1, TurnTypes DEF Rested
<1>3. CASE s \in Cron
  BY <1>2, <1>3, MinuteOrder DEF Settled, Rested, Began
<1>4. CASE s \notin Cron
  <2>1. MinuteOf(now) < MinuteOf(CursorOf(s) + INTERVAL) /\ CursorOf(s) + INTERVAL <= now
    BY <1>2, <1>4 DEF Rested, InStep
  <2> DEFINE t == CursorOf(s) + INTERVAL
             m == MinuteOf(t)
  <2>2. t \in Nat
    BY <1>1, <1>2
  <2>3. MinuteOf(now) < m /\ t <= now
    BY <2>1
  <2> HIDE DEF t
  <2>4. m \in Nat /\ m * MINUTE <= t /\ m * MINUTE \in Nat
    BY <2>2, MinuteBounds
  <2> HIDE DEF m
  <2>5. m * MINUTE <= now
    BY <1>2, <2>2, <2>3, <2>4
  <2>6. m <= MinuteOf(now)
    BY <1>2, <2>4, <2>5, MinuteOrder
  <2>7. QED
    BY <1>2, <2>3, <2>4, <2>6
<1>5. QED
  BY <1>3, <1>4

\* A cursor that moves forward leaves a schedule at rest.
LEMMA RestsOn ==
  ASSUME InTurn, RunnerInv, RunnerInv', NEW s \in Schedules, NEW m \in Nat,
         Rested(s, m), CursorOf(s) <= CursorOf(s)'
  PROVE  Rested(s, m)'
<1>1. CursorOf(s) \in Nat /\ CursorOf(s)' \in Nat /\ NoTick = -1 /\ INTERVAL \in Nat \ {0}
  <2>1. CursorOf(s) \in Nat /\ NoTick = -1
    BY TurnTypes DEF Rested
  <2>2. CursorOf(s)' \in Nat \cup {-1}
    BY RunnerAssumption
    DEF RunnerInv, RunnerTyped, BooksTyped, ScheduleState, CursorOf, Cursor, Time, NoTick
  <2>3. QED
    BY <2>1, <2>2, RunnerAssumption
<1>2. ASSUME NEW a \in Nat, NEW b \in Nat, a <= b, m <= MinuteOf(a) PROVE m <= MinuteOf(b)
  <2>1. m * MINUTE <= a /\ m * MINUTE \in Nat
    BY <1>2, MinuteOrder, MinuteBounds
  <2>2. m * MINUTE <= b
    BY <1>2, <2>1
  <2>3. QED
    BY <2>2, MinuteOrder
<1>3. CASE s \in Cron
  <2>1. m <= MinuteOf(CursorOf(s)) => m <= MinuteOf(CursorOf(s)')
    BY <1>1, <1>2
  <2>2. QED
    BY <1>1, <1>3, <2>1 DEF Rested
<1>4. CASE s \notin Cron
  <2> DEFINE a == CursorOf(s) + INTERVAL
             b == CursorOf(s)' + INTERVAL
  <2>1. a \in Nat /\ b \in Nat /\ a <= b
    BY <1>1
  <2>2. m < MinuteOf(a)
    BY <1>4 DEF Rested
  <2> HIDE DEF a, b
  <2>3. m + 1 \in Nat /\ m + 1 <= MinuteOf(a) /\ (m + 1) * MINUTE \in Nat
    <3>1. MinuteOf(a) \in Nat /\ MINUTE \in Nat
      BY <2>1, MinuteBounds
    <3>2. QED
      BY <2>2, <3>1
  <2>4. (m + 1) * MINUTE <= a
    BY <2>1, <2>3, MinuteOrder
  <2>5. (m + 1) * MINUTE <= b
    BY <2>1, <2>3, <2>4
  <2>6. m < MinuteOf(b)
    BY <2>1, <2>3, <2>5, MinuteOrder, MinuteBounds
  <2>7. QED
    BY <1>1, <1>4, <2>6 DEF Rested, b
<1>5. QED
  BY <1>3, <1>4

\* A step within a period: some of what was taken has run, and nothing else moved.
LEMMA TurnKeeps ==
  ASSUME InTurn, RunnerInv, RunnerInv', TurnInv,
         UNCHANGED <<now, ticked>>, queued \subseteq queued',
         \A x \in ticked : thread'[x].at # "dead",
         Taken' \subseteq Taken,
         \A s \in Schedules \ (Taken \ Taken') : CursorOf(s)' = CursorOf(s),
         \A s \in Taken \ Taken' :
           /\ Settled(s)' /\ CursorOf(s) <= CursorOf(s)' /\ CursorOf(s)' <= now
           /\ s \in Cron => CursorOf(s)' = CursorOf(s) \/ HasPrompt(<<s, MinuteOf(CursorOf(s))>>)',
         \A k \in history' : k \in history \/ Rested(k[1], k[2])',
         Single'
  PROVE  TurnInv'
<1>1. /\ now \in Nat /\ Began' = Began /\ NoTick = -1
      /\ \A s \in Schedules : CursorOf(s) \in Nat \cup {-1}
  BY TurnTypes DEF Began
<1>2. \A k : HasPrompt(k) => HasPrompt(k)'
  BY DEF HasPrompt
<1>3. ASSUME NEW s \in Schedules PROVE CursorOf(s) <= CursorOf(s)'
  <2>1. CASE s \in Taken \ Taken'
    BY <2>1
  <2>2. CASE s \notin Taken \ Taken'
    <3>1. CursorOf(s)' = CursorOf(s)
      BY <2>2
    <3>2. CursorOf(s) \in Int
      BY <1>1
    <3>3. QED
      BY <3>1, <3>2
  <2>3. QED
    BY <2>1, <2>2
<1>4. ASSUME NEW s \in Schedules PROVE InStep(s)'
  <2>1. InStep(s)
    BY DEF TurnInv
  <2>2. CASE s \in Taken \ Taken'
    BY <1>2, <2>1, <2>2 DEF InStep
  <2>3. CASE s \notin Taken \ Taken'
    BY <1>2, <2>1, <2>3 DEF InStep
  <2>4. QED
    BY <2>2, <2>3
<1>5. ASSUME NEW k \in history' PROVE Rested(k[1], k[2])'
  <2>1. CASE k \in history
    <3>1. k \in Key /\ Rested(k[1], k[2])
      BY <2>1 DEF RunnerInv, RunnerTyped, BooksTyped, TurnInv
    <3>2. k[1] \in Schedules /\ k[2] \in Nat
      BY <3>1 DEF Key
    <3>3. CursorOf(k[1]) <= CursorOf(k[1])'
      BY <1>3, <3>2
    <3>4. QED
      BY <3>1, <3>2, <3>3, RestsOn
  <2>2. QED
    BY <2>1
<1>6. Paced'
  <2> SUFFICES ASSUME NEW s \in Schedules \ Taken', Waiting(s)'
               PROVE  Cardinality((Ahead(s) \ Taken)') + MAX_RUNS_PER_TICK * Ticks(s)'
                        < Cardinality(Schedules)
    BY DEF Paced
  <2>1. \A r \in Schedules, u \in Schedules :
          Settled(r)' /\ Waiting(u)' => r \notin Ahead(u)' /\ r # u
    <3>1. SettledApart'
      BY RunsApart, PTL
    <3>2. QED
      BY <3>1 DEF SettledApart
  <2>2. s \notin Taken
    BY <2>1
  <2>3. CursorOf(s)' = CursorOf(s)
    BY <2>2
  <2>4. Waiting(s) /\ Ticks(s)' = Ticks(s)
    BY <1>1, <2>3 DEF Waiting, Ticks, DueSince, BasicCronDue
  <2>5. ASSUME NEW r \in (Ahead(s) \ Taken)' PROVE r \in Ahead(s) \ Taken
    <3>1. r \in Schedules /\ r \in Ahead(s)' /\ r \notin Taken'
      BY <2>5 DEF Ahead
    <3>2. r \notin Taken
      BY <2>1, <3>1
    <3>3. CursorOf(r)' = CursorOf(r)
      BY <3>1, <3>2
    <3>4. QED
      BY <1>1, <2>3, <3>1, <3>2, <3>3 DEF Ahead
  <2>6. IsFiniteSet(Ahead(s) \ Taken)
    BY FS_Subset DEF InTurn, FiresAssumed, Ahead
  <2>7. /\ Cardinality((Ahead(s) \ Taken)') <= Cardinality(Ahead(s) \ Taken)
        /\ Cardinality((Ahead(s) \ Taken)') \in Nat /\ Cardinality(Ahead(s) \ Taken) \in Nat
    BY <2>5, <2>6, FS_Subset, FS_CardinalityType
  <2>8. Cardinality(Ahead(s) \ Taken) + MAX_RUNS_PER_TICK * Ticks(s) < Cardinality(Schedules)
    BY <2>2, <2>4 DEF TurnInv, Paced
  <2>9. MAX_RUNS_PER_TICK * Ticks(s) \in Int /\ Cardinality(Schedules) \in Nat
    <3>1. DueSince(s) \in Int /\ now \in Nat
      BY <1>1, TurnTypes, TurnNumbers DEF DueSince
    <3>2. Ticks(s) \in Int
      BY <3>1 DEF Ticks
    <3>3. QED
      BY <3>2, TurnNumbers
  <2>10. QED
    BY <2>4, <2>7, <2>8, <2>9
<1>7. QED
  BY <1>4, <1>5, <1>6 DEF TurnInv

\* The loop that runs is alone, so what was taken is what it has taken.
LEMMA TakenByOne ==
  ASSUME RunnerInv, Flawless, NEW x \in Thread, thread[x].at # "dead"
  PROVE  /\ \A y \in Thread \ {x} : thread[y].at = "dead" /\ thread[y].todo = {}
         /\ Taken = {s \in Schedules : Taking(x, s)}
         /\ ticked \subseteq Thread
<1>1. \A y \in Thread \ {x} : thread[y].at = "dead" /\ thread[y].todo = {}
  BY DEF Flawless, Orderly, InTime, Between
<1>2. \A y \in Thread \ {x}, s \in Schedules : ~ Taking(y, s)
  BY <1>1 DEF Taking, Handling
<1>3. QED
  BY <1>1, <1>2 DEF Taken, RunnerInv, RunnerTyped, ControlTyped, Thread

\* A step of the loop that runs, in which it takes on nothing new.
LEMMA TurnStep ==
  ASSUME InTurn, RunnerInv, RunnerInv', Flawless, TurnInv, NEW x \in Thread,
         thread[x].at # "dead", thread'[x].at # "dead",
         \A y \in Thread \ {x} : thread'[y] = thread[y],
         UNCHANGED <<now, ticked>>, queued \subseteq queued',
         \A s \in Schedules : Taking(x, s)' => Taking(x, s),
         \A s \in Schedules : Taking(x, s)' \/ ~ Taking(x, s) => CursorOf(s)' = CursorOf(s),
         \A s \in Schedules : Taking(x, s) /\ ~ Taking(x, s)' =>
           /\ Settled(s)' /\ CursorOf(s) <= CursorOf(s)' /\ CursorOf(s)' <= now
           /\ s \in Cron => CursorOf(s)' = CursorOf(s) \/ HasPrompt(<<s, MinuteOf(CursorOf(s))>>)',
         \A k \in history' : k \in history \/ Rested(k[1], k[2])',
         SingleOf(x)'
  PROVE  TurnInv'
<1>1. /\ \A y \in Thread \ {x} : thread[y].at = "dead" /\ thread[y].todo = {}
      /\ Taken = {s \in Schedules : Taking(x, s)} /\ ticked \subseteq Thread
  BY TakenByOne
<1>2. Taken' = {s \in Schedules : Taking(x, s)'}
  <2>1. \A y \in Thread \ {x}, s \in Schedules : ~ Taking(y, s)'
    BY <1>1 DEF Taking, Handling
  <2>2. QED
    BY <2>1 DEF Taken
<1>3. Single'
  BY <1>1 DEF Single, SingleOf, Handling
<1>4. \A y \in ticked : thread'[y].at # "dead"
  BY <1>1 DEF TurnInv
<1>5. /\ Taken' \subseteq Taken
      /\ \A s \in Schedules \ (Taken \ Taken') : CursorOf(s)' = CursorOf(s)
      /\ \A s \in Taken \ Taken' : s \in Schedules /\ Taking(x, s) /\ ~ Taking(x, s)'
  BY <1>1, <1>2
<1>6. QED
  BY <1>3, <1>4, <1>5, TurnKeeps

\* The cursor of a schedule that has run in its turn.
LEMMA CursorSettles ==
  ASSUME InTurn, RunnerInv, NEW s \in Taken, InStep(s), now' = now,
         schedules' = [schedules EXCEPT ![s].cursor = CursorAfter(s, now)]
  PROVE  /\ Settled(s)' /\ CursorOf(s) <= CursorOf(s)' /\ CursorOf(s)' <= now
         /\ s \in Cron => CursorOf(s)' = now
         /\ \A r \in Schedules \ {s} : CursorOf(r)' = CursorOf(r)
<1>1. s \in Schedules
  BY DEF Taken
<1>2. /\ LongestWait \in Nat /\ MINUTE \in Nat \ {0} /\ INTERVAL \in Nat \ {0}
      /\ LongestWait < MINUTE /\ MINUTE + LongestWait <= INTERVAL
  BY <1>1, TurnNumbers
<1>3. /\ now \in Nat /\ Began \in Nat /\ Began <= now /\ NoTick = -1
      /\ CursorOf(s) \in Nat \cup {-1} /\ Began' = Began
  BY <1>1, TurnTypes DEF Began
<1>4. schedules \in [Schedules -> ScheduleState]
  BY DEF RunnerInv, RunnerTyped, BooksTyped
<1>5. CursorOf(s)' = CursorAfter(s, now) /\ \A r \in Schedules \ {s} : CursorOf(r)' = CursorOf(r)
  BY <1>1, <1>4 DEF CursorOf, ScheduleState
<1>6. CASE s \in Cron
  <2>1. CursorOf(s)' = now
    BY <1>5, <1>6 DEF CursorAfter
  <2>2. QED
    BY <1>3, <1>5, <1>6, <2>1 DEF Settled, InStep
<1>7. CASE s \notin Cron
  <2>1. CursorAfter(s, now) = IF CursorOf(s) # NoTick /\ CursorOf(s) + INTERVAL <= now
                                THEN CursorOf(s) + INTERVAL ELSE now
    BY <1>7 DEF CursorAfter, CursorOf
  <2>2. CursorOf(s) # NoTick =>
          CursorOf(s) + INTERVAL <= now /\ now <= CursorOf(s) + INTERVAL + LongestWait
    BY <1>7 DEF InStep
  <2>3. CASE CursorOf(s) = NoTick
    BY <1>2, <1>3, <1>5, <1>7, <2>1, <2>3 DEF Settled
  <2>4. CASE CursorOf(s) # NoTick
    <3>1. CursorOf(s)' = CursorOf(s) + INTERVAL
      BY <1>5, <2>1, <2>2, <2>4
    <3>2. QED
      BY <1>2, <1>3, <1>5, <1>7, <2>2, <2>4, <3>1 DEF Settled
  <2>5. QED
    BY <2>3, <2>4
<1>8. QED
  BY <1>6, <1>7

\* A step of an execution that moves no cursor and ends no execution.
LEMMA TurnStays ==
  ASSUME InTurn, RunnerInv, RunnerInv', Flawless, TurnInv, NEW x \in Thread,
         thread[x].at \notin {"dead", "boot", "wait", "pick"},
         NEW at, NEW b, GoTo(x, at) \/ thread' = [thread EXCEPT ![x].at = at, ![x].prompt = b],
         at \in Handling /\ thread[x].at \in Handling,
         UNCHANGED <<now, ticked, schedules, history>>, queued \subseteq queued'
  PROVE  TurnInv'
<1>1. ThreadsTyped /\ thread \in [Thread -> Resting \cup Working]
  BY DEF RunnerInv, RunnerTyped, ThreadsTyped
<1>2. /\ thread'[x].at = at /\ thread'[x].todo = thread[x].todo /\ thread'[x].job = thread[x].job
      /\ \A y \in Thread \ {x} : thread'[y] = thread[y]
  BY <1>1, Keeps DEF GoTo
<1>3. \A s \in Schedules : (Taking(x, s)' <=> Taking(x, s)) /\ CursorOf(s)' = CursorOf(s)
  BY <1>2 DEF Taking, CursorOf
<1>4. SingleOf(x)'
  BY <1>2 DEF TurnInv, Single, SingleOf, Handling
<1>5. thread[x].at # "dead" /\ thread'[x].at # "dead"
  BY <1>2 DEF Handling
<1>6. QED
  BY <1>2, <1>3, <1>4, <1>5, TurnStep

LEMMA PickTurns ==
  ASSUME InTurn, RunnerInv, RunnerInv', Flawless, TurnInv, NEW x \in Thread, Pick(x)
  PROVE  TurnInv'
<1>1. /\ thread[x].at = "pick" /\ ~ delegated /\ thread \in [Thread -> Resting \cup Working]
      /\ UNCHANGED <<now, ticked, schedules, history, queued>>
  BY DEF Pick, memory, prompts, control, RunnerInv, RunnerTyped, ThreadsTyped, Flawless, Orderly
<1>2. \A s \in Schedules : CursorOf(s)' = CursorOf(s)
  BY <1>1 DEF CursorOf
<1>3. SingleOf(x)
  BY DEF TurnInv, Single
<1>4. CASE thread[x].todo = {} /\ thread' = [thread EXCEPT ![x] = AtRest]
  <2>1. thread'[x] = AtRest /\ \A y \in Thread \ {x} : thread'[y] = thread[y]
    BY <1>1, <1>4
  <2>2. \A s \in Schedules : ~ Taking(x, s) /\ ~ Taking(x, s)'
    BY <1>1, <1>4, <2>1 DEF Taking, Handling, AtRest
  <2>3. SingleOf(x)' /\ thread'[x].at # "dead"
    BY <2>1 DEF SingleOf, AtRest, Handling
  <2>4. QED
    BY <1>1, <1>2, <2>1, <2>2, <2>3, TurnStep
<1>5. ASSUME NEW j \in thread[x].todo,
             thread' = [thread EXCEPT ![x] =
               [at |-> "check", todo |-> @.todo \ {j}, ts |-> @.ts, prompt |-> FALSE, job |-> j]]
      PROVE  TurnInv'
  <2>1. /\ thread'[x].at = "check" /\ thread'[x].todo = thread[x].todo \ {j} /\ thread'[x].job = j
        /\ \A y \in Thread \ {x} : thread'[y] = thread[y]
    BY <1>1, <1>5
  <2>2. \A s \in Schedules : Taking(x, s)' <=> Taking(x, s)
    BY <1>1, <2>1 DEF Taking, Handling
  <2>3. SingleOf(x)' /\ thread'[x].at # "dead"
    BY <1>3, <2>1 DEF SingleOf
  <2>4. QED
    BY <1>1, <1>2, <2>1, <2>2, <2>3, TurnStep
<1>6. QED
  BY <1>1, <1>4, <1>5 DEF Pick

LEMMA CheckTurns ==
  ASSUME InTurn, RunnerInv, RunnerInv', Flawless, TurnInv, NEW x \in Thread, CheckHistory(x)
  PROVE  TurnInv'
<1>1. /\ thread[x].at = "check" /\ ThreadsTyped /\ thread \in [Thread -> Resting \cup Working]
      /\ UNCHANGED <<now, ticked, schedules, history, queued>>
  BY DEF CheckHistory, memory, prompts, control, RunnerInv, RunnerTyped, ThreadsTyped
<1>2. CASE KeyOf(x) \notin history
  <2>1. GoTo(x, "reserve")
    BY <1>2 DEF CheckHistory
  <2>2. QED
    BY <1>1, <2>1, TurnStays DEF Handling
<1>3. CASE KeyOf(x) \in history
  <2>1. GoTo(x, "pick")
    BY <1>3 DEF CheckHistory
  <2>2. /\ thread'[x].at = "pick" /\ thread'[x].todo = thread[x].todo
        /\ \A y \in Thread \ {x} : thread'[y] = thread[y]
    BY <1>1, <2>1, Keeps DEF GoTo
  <2> DEFINE r == thread[x].job.s
  <2>3. r \in Schedules /\ thread[x].ts = now /\ \A j \in thread[x].todo : j.s # r
    BY <1>1, HasKey DEF Working, Work, Flawless, InTime, Between, TurnInv, Single, SingleOf, Handling
  <2>4. r \in Taken /\ InStep(r) /\ Rested(r, MinuteOf(now))
    <3>1. Taking(x, r)
      BY <1>1 DEF Taking, Handling
    <3>2. Rested(KeyOf(x)[1], KeyOf(x)[2])
      BY <1>3 DEF TurnInv
    <3>3. QED
      BY <2>3, <3>1, <3>2 DEF Taken, TurnInv, KeyOf
  <2>5. Settled(r) /\ CursorOf(r) \in Int /\ CursorOf(r) <= now
    BY <2>3, <2>4, RestedSettled, TurnTypes DEF InStep
  <2>6. \A s \in Schedules : CursorOf(s)' = CursorOf(s) /\ (Settled(s)' <=> Settled(s))
    BY <1>1 DEF Settled, CursorOf, Began
  <2> HIDE DEF r
  <2>7. \A s \in Schedules : (Taking(x, s)' => Taking(x, s)) /\ (Taking(x, s) /\ ~ Taking(x, s)' => s = r)
    BY <2>2 DEF Taking, Handling, r
  <2>8. SingleOf(x)'
    BY <2>2 DEF TurnInv, Single, SingleOf, Handling
  <2>9. \A s \in Schedules : Taking(x, s) /\ ~ Taking(x, s)' =>
           /\ Settled(s)' /\ CursorOf(s) <= CursorOf(s)' /\ CursorOf(s)' <= now
           /\ CursorOf(s)' = CursorOf(s)
    BY <2>5, <2>6, <2>7
  <2>10. QED
    BY <1>1, <2>2, <2>6, <2>7, <2>8, <2>9, TurnStep
<1>4. QED
  BY <1>2, <1>3

LEMMA MoveTurns ==
  ASSUME InTurn, RunnerInv, RunnerInv', Flawless, TurnInv, NEW x \in Thread, MoveCursor(x)
  PROVE  TurnInv'
<1>1. /\ thread[x].at = "cursor" /\ thread[x].ts = now
      /\ ThreadsTyped /\ thread \in [Thread -> Resting \cup Working]
      /\ UNCHANGED <<now, ticked, history, queued>>
  BY DEF MoveCursor, prompts, control, RunnerInv, RunnerTyped, ThreadsTyped, Flawless, InTime, Between
<1>2. PICK r \in Schedules : r = thread[x].job.s
  BY <1>1, HasKey DEF Working, Work
<1>3. schedules' = [schedules EXCEPT ![r].cursor = CursorAfter(r, now)] /\ GoTo(x, "record")
  BY <1>1, <1>2, Zenon DEF MoveCursor
<1>4. /\ thread'[x].at = "record" /\ thread'[x].todo = thread[x].todo
      /\ thread'[x].job.s = r /\ \A j \in thread[x].todo : j.s # r
      /\ \A y \in Thread \ {x} : thread'[y] = thread[y]
  BY <1>1, <1>2, <1>3, Keeps DEF GoTo, TurnInv, Single, SingleOf, Handling
<1>5. r \in Taken /\ InStep(r)
  BY <1>1, <1>2 DEF Taken, Taking, Handling, TurnInv
<1>6. HasPrompt(<<r, MinuteOf(now)>>)
  <2>1. HasPrompt(KeyOf(x)) /\ KeyOf(x) = <<r, MinuteOf(now)>>
    BY <1>1, <1>2 DEF Flawless, InTime, KeyOf
  <2>2. QED
    BY <2>1 DEF HasPrompt
<1>7. ASSUME NEW s \in Schedules
      PROVE  (Taking(x, s)' => Taking(x, s) /\ s # r) /\ (Taking(x, s) /\ ~ Taking(x, s)' => s = r)
  BY <1>1, <1>2, <1>4 DEF Taking, Handling
<1>8. /\ Settled(r)' /\ CursorOf(r) <= CursorOf(r)' /\ CursorOf(r)' <= now
      /\ r \in Cron => CursorOf(r)' = now
      /\ \A s \in Schedules \ {r} : CursorOf(s)' = CursorOf(s)
  <2>1. now' = now
    BY <1>1
  <2>2. QED
    BY <1>3, <1>5, <2>1, CursorSettles
<1>9. r \in Cron => HasPrompt(<<r, MinuteOf(CursorOf(r))>>)'
  BY <1>1, <1>6, <1>8 DEF HasPrompt, MinuteOf
<1>10. SingleOf(x)'
  <2>1. \A i, j \in thread[x].todo : i.s = j.s => i = j
    BY DEF TurnInv, Single, SingleOf
  <2>2. Settled(thread[x].job.s)'
    BY <1>4, <1>8
  <2>3. QED
    BY <1>4, <2>1, <2>2 DEF SingleOf, Handling
<1>11. \A s \in Schedules : Taking(x, s)' \/ ~ Taking(x, s) => s # r
  BY <1>1, <1>2, <1>7 DEF Taking, Handling
<1>12. QED
  BY <1>1, <1>4, <1>7, <1>8, <1>9, <1>10, <1>11, TurnStep

LEMMA RecordTurns ==
  ASSUME InTurn, RunnerInv, RunnerInv', Flawless, TurnInv, NEW x \in Thread, RecordRun(x)
  PROVE  TurnInv'
<1>1. /\ thread[x].at = "record" /\ thread[x].ts = now
      /\ ThreadsTyped /\ thread \in [Thread -> Resting \cup Working]
      /\ history' = history \cup {KeyOf(x)} /\ UNCHANGED <<now, ticked, schedules, queued>>
  BY DEF RecordRun, prompts, control, RunnerInv, RunnerTyped, ThreadsTyped, Flawless, InTime, Between
<1>2. GoTo(x, "pick")
  BY <1>1, Zenon DEF RecordRun
<1>3. /\ thread'[x].at = "pick" /\ thread'[x].todo = thread[x].todo
      /\ \A y \in Thread \ {x} : thread'[y] = thread[y]
  BY <1>1, <1>2, Keeps DEF GoTo
<1>4. PICK r \in Schedules : r = thread[x].job.s
  BY <1>1, HasKey DEF Working, Work
<1>5. Rested(r, MinuteOf(now)) /\ KeyOf(x) = <<r, MinuteOf(now)>>
  BY <1>1, <1>4, SettledRests DEF KeyOf, TurnInv, Single, SingleOf
<1>6. \A s, m : Rested(s, m) <=> Rested(s, m)'
  BY <1>1 DEF Rested, CursorOf, MinuteOf
<1>7. ASSUME NEW k \in history' PROVE k \in history \/ Rested(k[1], k[2])'
  BY <1>1, <1>5, <1>6, <1>7
<1>8. \A s \in Schedules : (Taking(x, s)' <=> Taking(x, s)) /\ CursorOf(s)' = CursorOf(s)
  BY <1>1, <1>3 DEF Taking, Handling, CursorOf
<1>9. SingleOf(x)'
  BY <1>3 DEF TurnInv, Single, SingleOf, Handling
<1>10. QED
  BY <1>1, <1>3, <1>7, <1>8, <1>9, TurnStep

LEMMA ExecutionTurns ==
  ASSUME InTurn, RunnerInv, RunnerInv', Flawless, TurnInv, \A kind : ~ Fault(kind),
         NEW x \in Thread, Execute(x)
  PROVE  TurnInv'
<1>1. CASE Pick(x) \/ CheckHistory(x) \/ MoveCursor(x) \/ RecordRun(x)
  BY <1>1, PickTurns, CheckTurns, MoveTurns, RecordTurns
<1>2. CASE Reserve(x)
  <2>1. /\ thread[x].at = "reserve"
        /\ UNCHANGED <<now, schedules, history, queued, ticked>>
    BY <1>2 DEF Reserve, memory, prompts, control
  <2>2. \E at \in {"post", "intent"} : \E b :
          GoTo(x, at) \/ thread' = [thread EXCEPT ![x].at = at, ![x].prompt = b]
    BY <1>2 DEF Reserve
  <2>3. QED
    BY <2>1, <2>2, TurnStays DEF Handling
<1>3. CASE Post(x)
  <2>1. /\ thread[x].at = "post" /\ GoTo(x, "note") /\ queued \subseteq queued'
        /\ UNCHANGED <<now, schedules, history, ticked>>
    BY <1>3 DEF Post, memory, files, control
  <2>2. QED
    BY <2>1, TurnStays DEF Handling
<1>4. CASE Note(x)
  <2>1. /\ thread[x].at = "note"
        /\ thread' = [thread EXCEPT ![x].at = "intent", ![x].prompt = TRUE]
        /\ UNCHANGED <<now, schedules, history, queued, ticked>>
    BY <1>4 DEF Note, memory, prompts, control
  <2>2. QED
    BY <2>1, TurnStays DEF Handling
<1>5. CASE RecordIntent(x)
  <2>1. /\ thread[x].at = "intent" /\ GoTo(x, "cursor")
        /\ UNCHANGED <<now, schedules, history, queued, ticked>>
    BY <1>5 DEF RecordIntent, memory, prompts, control
  <2>2. QED
    BY <2>1, TurnStays DEF Handling
<1>6. ~ GiveUp(x)
  BY RunnerAssumption DEF GiveUp, InTurn, FiresAssumed
<1>7. QED
  BY <1>1, <1>2, <1>3, <1>4, <1>5, <1>6 DEF Execute

\* Steps that only start a loop, or let it begin.
LEMMA LoopTurns ==
  ASSUME InTurn, RunnerInv, RunnerInv', Flawless, TurnInv, NEW l \in Loop,
         Start(l) \/ LoopEnds(l) \/ Boot(l)
  PROVE  TurnInv'
<1>1. /\ l \in Thread /\ thread \in [Thread -> Resting \cup Working] /\ ~ stopping /\ ~ delegated
      /\ ~ SKIP_MISSED
  BY DEF RunnerInv, RunnerTyped, ThreadsTyped, Thread, Flawless, Orderly, InTurn
<1>2. ~ LoopEnds(l)
  BY <1>1 DEF LoopEnds
<1>3. CASE Start(l)
  <2>1. /\ ~ running /\ thread[l].at = "dead"
        /\ UNCHANGED <<now, schedules, history, queued, ticked>>
        /\ thread' = [thread EXCEPT ![l] = [AtRest EXCEPT !.at = "boot"]]
    BY <1>3 DEF Start, memory, prompts
  <2>2. /\ thread'[l].at = "boot" /\ thread'[l].todo = {}
        /\ \A y \in Thread \ {l} : thread'[y] = thread[y]
    BY <1>1, <2>1 DEF AtRest
  <2>3. \A y \in Thread : thread[y].at = "dead" /\ thread[y].todo = {}
    BY <2>1 DEF Flawless, Orderly, InTime, Between
  <2>4. Taken = {} /\ Taken' = {}
    BY <2>2, <2>3 DEF Taken, Taking, Handling
  <2>5. Single'
    BY <2>2, <2>3 DEF Single, SingleOf, Handling
  <2>6. \A y \in ticked : thread'[y].at # "dead"
    BY <2>3 DEF TurnInv, RunnerInv, RunnerTyped, ControlTyped, Thread
  <2>7. \A s \in Schedules : CursorOf(s)' = CursorOf(s)
    BY <2>1 DEF CursorOf
  <2>8. QED
    BY <2>1, <2>4, <2>5, <2>6, <2>7, TurnKeeps
<1>4. CASE Boot(l)
  <2>1. /\ thread[l].at = "boot" /\ UNCHANGED <<now, schedules, history, queued, ticked>>
        /\ thread' = [thread EXCEPT ![l] = AtRest]
    BY <1>1, <1>4 DEF Boot, prompts, control
  <2>2. /\ thread'[l].at = "wait" /\ thread'[l].todo = {} /\ thread[l].todo = {}
        /\ \A y \in Thread \ {l} : thread'[y] = thread[y]
    BY <1>1, <2>1 DEF AtRest, Flawless, InTime, Between
  <2>3. \A s \in Schedules : ~ Taking(l, s) /\ ~ Taking(l, s)' /\ CursorOf(s)' = CursorOf(s)
    BY <2>1, <2>2 DEF Taking, Handling, CursorOf
  <2>4. SingleOf(l)'
    BY <2>2 DEF SingleOf, Handling
  <2>5. QED
    BY <1>1, <2>1, <2>2, <2>3, <2>4, TurnStep
<1>5. QED
  BY <1>2, <1>3, <1>4

LEMMA AheadFinite ==
  ASSUME InTurn, NEW s \in Schedules, NEW S \in SUBSET Ahead(s)
  PROVE  /\ IsFiniteSet(S) /\ Cardinality(S) \in Nat /\ Cardinality(S) < Cardinality(Schedules)
<1>1. S \subseteq Schedules \ {s} /\ IsFiniteSet(Schedules)
  BY DEF Ahead, InTurn, FiresAssumed
<1>2. /\ IsFiniteSet(Schedules \ {s}) /\ Cardinality(Schedules) \in Nat
      /\ Cardinality(Schedules \ {s}) = Cardinality(Schedules) - 1
  BY <1>1, FS_RemoveElement, FS_CardinalityType
<1>3. IsFiniteSet(S) /\ Cardinality(S) <= Cardinality(Schedules \ {s})
  BY <1>1, <1>2, FS_Subset
<1>4. Cardinality(S) \in Nat
  BY <1>3, FS_CardinalityType
<1>5. QED
  BY <1>2, <1>3, <1>4

\* The periods for which s has been due.
LEMMA DueBefore ==
  ASSUME InTurn, RunnerInv, NEW s \in Schedules, Waiting(s)
  PROVE  DueSince(s) \in Nat /\ DueSince(s) <= now
<1>1. /\ now \in Nat /\ Began \in Nat /\ Began <= now /\ NoTick = -1
      /\ CursorOf(s) \in Nat \cup {-1} /\ INTERVAL \in Nat \ {0}
  BY TurnTypes, RunnerAssumption
<1>2. QED
  BY <1>1 DEF Waiting, DueSince, IntervalDue

LEMMA CollectTurns ==
  ASSUME InTurn, RunnerInv, RunnerInv', Flawless, TurnInv, NEW l \in Loop, Collect(l)
  PROVE  TurnInv'
<1>1. /\ l \in Thread /\ thread \in [Thread -> Resting \cup Working] /\ BooksTyped
      /\ thread[l].at = "wait" /\ l \notin ticked /\ ticked' = ticked \cup {l}
      /\ UNCHANGED <<now, history, queued>>
      /\ schedules' = [s \in Schedules |-> Evaluated(s)]
      /\ \A s \in Schedules : schedules[s].enabled
  BY DEF Collect, prompts, RunnerInv, RunnerTyped, ThreadsTyped, Thread, Flawless, Orderly
<1>2. PICK C \in Chosen :
        thread' = [thread EXCEPT ![l] =
          [AtRest EXCEPT !.at = "pick", !.ts = now,
                         !.todo = {[s |-> s, from |-> schedules[s].cursor] : s \in C}]]
  BY DEF Collect
<1>3. /\ thread'[l].at = "pick"
      /\ thread'[l].todo = {[s |-> s, from |-> schedules[s].cursor] : s \in C}
      /\ \A y \in Thread \ {l} : thread'[y] = thread[y]
  BY <1>1, <1>2 DEF AtRest
<1>4. /\ \A y \in Thread \ {l} : thread[y].at = "dead" /\ thread[y].todo = {}
      /\ thread[l].todo = {} /\ ticked = {} /\ Taken = {}
  <2>1. /\ \A y \in Thread \ {l} : thread[y].at = "dead" /\ thread[y].todo = {}
        /\ ticked \subseteq Thread /\ Taken = {s \in Schedules : Taking(l, s)}
    BY <1>1, TakenByOne
  <2>2. thread[l].todo = {}
    BY <1>1 DEF Flawless, InTime, Between
  <2>3. ticked = {}
    BY <1>1, <2>1 DEF TurnInv
  <2>4. \A s \in Schedules : ~ Taking(l, s)
    BY <1>1, <2>2 DEF Taking, Handling
  <2>5. QED
    BY <2>1, <2>2, <2>3, <2>4
<1>5. C \subseteq DueNow /\ DueNow \subseteq Schedules
  BY Zenon DEF Chosen, DueNow
<1>6. Taken' = C
  <2>1. ASSUME NEW s \in Schedules PROVE Taking(l, s)' <=> s \in C
    <3>1. Taking(l, s)' <=> \E j \in thread'[l].todo : j.s = s
      BY <1>3 DEF Taking, Handling
    <3>2. ASSUME s \in C PROVE \E j \in thread'[l].todo : j.s = s
      <4>1. [s |-> s, from |-> schedules[s].cursor] \in thread'[l].todo
        BY <1>3, <3>2
      <4>2. QED
        BY <4>1
    <3>3. ASSUME NEW j \in thread'[l].todo, j.s = s PROVE s \in C
      BY <1>3, <3>3
    <3>4. QED
      BY <3>1, <3>2, <3>3
  <2>2. \A y \in Thread \ {l}, s \in Schedules : ~ Taking(y, s)'
    BY <1>3, <1>4 DEF Taking, Handling
  <2>3. QED
    BY <1>1, <1>5, <2>1, <2>2 DEF Taken
<1>7. \A s \in Schedules : CursorOf(s)' = CursorOf(s)
  <2> SUFFICES ASSUME NEW s \in Schedules PROVE Evaluated(s).cursor = schedules[s].cursor
    BY <1>1 DEF CursorOf
  <2>1. schedules[s] \in ScheduleState
    BY <1>1 DEF BooksTyped
  <2>2. ~ Raises(s)
    BY <1>1, StaysEnabled DEF InTurn
  <2>3. Evaluated(s) = [schedules[s] EXCEPT !.errors = 0]
    BY <1>1, <2>2, Zenon DEF Evaluated
  <2>4. QED
    BY <2>1, <2>3 DEF ScheduleState
<1>8. \A s \in Schedules : Waiting(s) => s \in DueNow
  <2> SUFFICES ASSUME NEW s \in Schedules, Waiting(s) PROVE s \in DueNow
    OBVIOUS
  <2>1. ~ Raises(s) /\ ~ CRONITER
    BY <1>1, StaysEnabled DEF InTurn, FiresAssumed
  <2>2. Due(s)
    BY <2>1 DEF Waiting, Due, CursorOf
  <2>3. QED
    BY <1>1, <2>1, <2>2 DEF DueNow
<1>9. \A s \in Schedules \ Cron : s \in DueNow => Waiting(s)
  BY DEF DueNow, Due, Waiting, CursorOf
<1>10. ASSUME NEW s \in Schedules PROVE InStep(s)'
  <2>1. InStep(s) /\ (HasPrompt(<<s, MinuteOf(CursorOf(s))>>)' <=> HasPrompt(<<s, MinuteOf(CursorOf(s))>>))
    BY <1>1, <1>7 DEF TurnInv, HasPrompt, MinuteOf
  <2>2. ASSUME s \in C, s \notin Cron, CursorOf(s) # NoTick
        PROVE  CursorOf(s) + INTERVAL <= now /\ now <= CursorOf(s) + INTERVAL + LongestWait
    <3>1. Waiting(s)
      BY <1>5, <1>9, <2>2
    <3>2. DueSince(s) = CursorOf(s) + INTERVAL /\ DueSince(s) \in Nat /\ DueSince(s) <= now
      BY <2>2, <3>1, DueBefore DEF DueSince
    <3>3. Cardinality(Ahead(s) \ Taken) + MAX_RUNS_PER_TICK * Ticks(s) < Cardinality(Schedules)
      BY <1>4, <3>1 DEF TurnInv, Paced
    <3>4. Ticks(s) = now - DueSince(s) /\ Ticks(s) \in Int /\ now \in Nat
      BY <1>4, <3>2, TurnTypes DEF Ticks
    <3>5. MAX_RUNS_PER_TICK * Ticks(s) \in Int /\ Cardinality(Schedules) \in Nat /\ LongestWait \in Nat
      BY <3>4, TurnNumbers
    <3>6. Cardinality(Ahead(s) \ Taken) \in Nat
      BY AheadFinite
    <3>7. MAX_RUNS_PER_TICK * Ticks(s) < Cardinality(Schedules)
      BY <3>3, <3>5, <3>6
    <3>8. Ticks(s) <= LongestWait
      BY <3>4, <3>7, WaitEnds
    <3>9. QED
      BY <3>2, <3>4, <3>5, <3>8
  <2>3. QED
    BY <1>1, <1>6, <1>7, <2>1, <2>2 DEF InStep
<1>11. ASSUME NEW k \in history' PROVE Rested(k[1], k[2])'
  <2>1. k \in Key /\ Rested(k[1], k[2])
    BY <1>1 DEF BooksTyped, TurnInv
  <2>2. k[1] \in Schedules
    BY <2>1 DEF Key
  <2>3. QED
    BY <1>7, <2>1, <2>2 DEF Rested, MinuteOf
<1>12. Single'
  BY <1>3, <1>4 DEF Single, SingleOf, Handling
<1>13. \A y \in ticked' : thread'[y].at # "dead"
  BY <1>1, <1>3, <1>4
<1>14. Paced'
  <2> SUFFICES ASSUME NEW s \in Schedules \ C, Waiting(s)'
               PROVE  Cardinality((Ahead(s) \ Taken)') + MAX_RUNS_PER_TICK * Ticks(s)'
                        < Cardinality(Schedules)
    BY <1>6 DEF Paced
  <2>1. /\ Began' = Began /\ Waiting(s) /\ Ahead(s)' = Ahead(s) /\ DueSince(s)' = DueSince(s)
    BY <1>1, <1>7 DEF Began, Waiting, Ahead, DueSince, BasicCronDue
  <2>2. s \in DueNow
    BY <1>8, <2>1
  <2>3. C \subseteq Ahead(s)
    <3> SUFFICES ASSUME NEW r \in C PROVE r \in Ahead(s)
      OBVIOUS
    <3>1. r \in Schedules \ {s} /\ r \in DueNow /\ CursorOf(r) <= CursorOf(s)
      BY <1>5, <2>2 DEF Chosen, CursorOf
    <3>2. ASSUME r \notin Cron, CursorOf(r) # NoTick PROVE CursorOf(r) + INTERVAL < Began + MINUTE
      <4>1. Waiting(r)
        BY <1>9, <3>1, <3>2
      <4>2. DueSince(r) = CursorOf(r) + INTERVAL /\ DueSince(r) \in Nat /\ DueSince(r) <= now
        BY <3>1, <3>2, <4>1, DueBefore DEF DueSince
      <4>3. now \in Nat /\ Began \in Nat /\ now < Began + MINUTE /\ MINUTE \in Nat
        BY TurnTypes, RunnerAssumption
      <4>4. QED
        BY <4>2, <4>3
    <3>3. QED
      BY <3>1, <3>2 DEF Ahead
  <2>4. Cardinality(C) = MAX_RUNS_PER_TICK
    <3>1. /\ IsFiniteSet(DueNow) /\ Cardinality(C) =
               IF Cardinality(DueNow) > MAX_RUNS_PER_TICK THEN MAX_RUNS_PER_TICK ELSE Cardinality(DueNow)
      BY <1>5, FS_Subset, Zenon DEF Chosen, InTurn, FiresAssumed
    <3>2. Cardinality(C) # Cardinality(DueNow)
      BY <1>5, <2>2, <3>1, FS_Subset
    <3>3. QED
      BY <3>1, <3>2
  <2>5. Cardinality(Ahead(s)) + MAX_RUNS_PER_TICK * Ticks(s) < Cardinality(Schedules)
    <3>1. Ahead(s) \ Taken = Ahead(s)
      BY <1>4
    <3>2. QED
      BY <1>4, <2>1, <3>1 DEF TurnInv, Paced
  <2>6. /\ IsFiniteSet(Ahead(s)) /\ Cardinality(Ahead(s)) \in Nat
        /\ Cardinality(Ahead(s) \ C) = Cardinality(Ahead(s)) - Cardinality(C)
    <3>1. IsFiniteSet(Ahead(s)) /\ Cardinality(Ahead(s)) \in Nat
      BY AheadFinite
    <3>2. Ahead(s) \cap C = C
      BY <2>3
    <3>3. QED
      BY <3>1, <3>2, FS_Difference
  <2>7. Ticks(s)' = Ticks(s) + 1 /\ Ticks(s) \in Int
    <3>1. DueSince(s) \in Nat /\ now \in Nat
      BY <2>1, DueBefore, TurnTypes
    <3>2. QED
      BY <1>1, <1>4, <2>1, <3>1 DEF Ticks
  <2>8. MAX_RUNS_PER_TICK * (Ticks(s) + 1) = MAX_RUNS_PER_TICK * Ticks(s) + MAX_RUNS_PER_TICK
    BY <2>7, TurnNumbers, SMTT(30)
  <2>9. /\ MAX_RUNS_PER_TICK * Ticks(s) \in Int /\ MAX_RUNS_PER_TICK \in Nat
        /\ Cardinality(Schedules) \in Nat
    BY <2>7, TurnNumbers
  <2>10. Cardinality(Ahead(s) \ C) + MAX_RUNS_PER_TICK * (Ticks(s) + 1) < Cardinality(Schedules)
    BY <2>4, <2>5, <2>6, <2>8, <2>9
  <2>11. QED
    BY <1>6, <2>1, <2>7, <2>10
<1>15. QED
  BY <1>10, <1>11, <1>12, <1>13, <1>14 DEF TurnInv

\* The minute after this one begins in the period after this one, if that is not in this one.
LEMMA MinuteTurns ==
  ASSUME NEW t \in Nat, MinuteOf(t + 1) # MinuteOf(t)
  PROVE  MinuteOf(t + 1) * MINUTE = t + 1
<1> DEFINE u == MinuteOf(t)
           v == MinuteOf(t + 1)
<1>1. /\ u \in Nat /\ v \in Nat /\ u * MINUTE \in Nat /\ v * MINUTE \in Nat
      /\ u * MINUTE <= t /\ v * MINUTE <= t + 1 /\ t + 1 \in Nat
  BY MinuteBounds
<1>2. u <= v
  <2>1. u * MINUTE <= t + 1
    BY <1>1
  <2>2. QED
    BY <1>1, <2>1, MinuteOrder
<1>3. ~ (v * MINUTE <= t)
  BY <1>1, <1>2, MinuteOrder
<1>4. QED
  BY <1>1, <1>3

\* Who waits when a period ends waits on; who begins to wait has waited for no period.
LEMMA ClockTurns ==
  ASSUME InTurn, RunnerInv, RunnerInv', Flawless, TurnInv, \A kind : ~ Fault(kind), Clock
  PROVE  TurnInv'
<1>1. /\ now' = now + 1 /\ ticked' = {} /\ Punctual
      /\ UNCHANGED <<schedules, history, queued, thread, delegated>>
  BY DEF Clock, memory, files, prompts
<1>2. now \in Nat /\ NoTick = -1 /\ ~ delegated
  BY TurnTypes, RunnerAssumption DEF Flawless, Orderly, RunnerInv, RunnerTyped, ControlTyped, Time, NoTick
<1>3. PICK l \in Loop : l \in ticked
  BY <1>1, <1>2 DEF Punctual, InTurn, FiresAssumed, Thread
<1>4. \A x \in Thread : thread[x].at \in Between /\ thread[x].todo = {}
  BY <1>1 DEF Punctual, Flawless, InTime, Between
<1>5. Taken = {} /\ Taken' = {}
  BY <1>1, <1>4 DEF Taken, Taking, Between, Handling
<1>6. \A s \in Schedules : CursorOf(s)' = CursorOf(s) /\ CursorOf(s) \in Nat \cup {-1}
  BY <1>1, TurnTypes DEF CursorOf
<1>7. ASSUME NEW s \in Schedules PROVE InStep(s)'
  <2>1. /\ InStep(s) /\ (HasPrompt(<<s, MinuteOf(CursorOf(s))>>)' <=> HasPrompt(<<s, MinuteOf(CursorOf(s))>>))
    BY <1>1, <1>6 DEF TurnInv, HasPrompt, MinuteOf
  <2>2. QED
    BY <1>1, <1>2, <1>5, <1>6, <2>1 DEF InStep
<1>8. ASSUME NEW k \in history' PROVE Rested(k[1], k[2])'
  <2>1. Rested(k[1], k[2])
    BY <1>1 DEF TurnInv
  <2>2. QED
    BY <1>1, <2>1 DEF Rested, MinuteOf, CursorOf
<1>9. Single' /\ \A x \in ticked' : thread'[x].at # "dead"
  BY <1>1, <1>4 DEF Single, SingleOf, Between, Handling
<1>10. Paced'
  <2> SUFFICES ASSUME NEW s \in Schedules, Waiting(s)'
               PROVE  Cardinality(Ahead(s)') + MAX_RUNS_PER_TICK * Ticks(s)' < Cardinality(Schedules)
    BY <1>5 DEF Paced
  <2>1. /\ MINUTE \in Nat \ {0} /\ INTERVAL \in Nat \ {0} /\ NoTick = -1
        /\ MAX_RUNS_PER_TICK \in Nat \ {0} /\ Cardinality(Schedules) \in Nat
    BY TurnNumbers, TurnTypes
  <2>2. MinuteOf(now') \in Nat /\ Began' \in Nat /\ Began' <= now' /\ now' < Began' + MINUTE
    BY <1>1, <1>2, MinuteBounds DEF Began
  <2>3. /\ Cardinality(Ahead(s)') \in Nat /\ Cardinality(Ahead(s)') < Cardinality(Schedules)
    <3>1. Ahead(s)' \subseteq Schedules \ {s} /\ IsFiniteSet(Schedules)
      BY DEF Ahead, InTurn, FiresAssumed
    <3>2. /\ IsFiniteSet(Schedules \ {s}) /\ Cardinality(Schedules \ {s}) = Cardinality(Schedules) - 1
      BY <3>1, FS_RemoveElement
    <3>3. IsFiniteSet(Ahead(s)') /\ Cardinality(Ahead(s)') <= Cardinality(Schedules) - 1
      BY <3>1, <3>2, FS_Subset
    <3>4. QED
      BY <2>1, <3>3, FS_CardinalityType
  <2>4. CASE Waiting(s) /\ (s \in Cron => MinuteOf(now') = MinuteOf(now))
    <3>1. Ahead(s)' = Ahead(s) /\ DueSince(s)' = DueSince(s)
      BY <1>6, <2>4 DEF Ahead, DueSince, Began
    <3>2. Ticks(s)' = Ticks(s)
      <4>1. DueSince(s) \in Nat
        BY <2>4, DueBefore
      <4>2. QED
        BY <1>1, <1>2, <1>3, <3>1, <4>1 DEF Ticks
    <3>3. Ahead(s) \ Taken = Ahead(s)
      BY <1>5
    <3>4. QED
      BY <1>5, <2>4, <3>1, <3>2, <3>3 DEF TurnInv, Paced
  <2>5. CASE s \in Cron /\ MinuteOf(now') # MinuteOf(now)
    <3>1. Began' = now'
      BY <1>1, <1>2, <2>5, MinuteTurns DEF Began
    <3>2. Ticks(s)' = 0
      BY <1>1, <1>2, <2>5, <3>1 DEF Ticks, DueSince
    <3>3. QED
      BY <2>1, <2>3, <3>2
  <2>6. CASE ~ Waiting(s) /\ (s \in Cron => MinuteOf(now') = MinuteOf(now))
    <3>1. s \notin Cron
      BY <1>6, <2>6 DEF Waiting, BasicCronDue, Began
    <3>2. CursorOf(s) # NoTick /\ CursorOf(s) + INTERVAL = now + 1
      BY <1>1, <1>2, <1>6, <2>1, <2>6, <3>1 DEF Waiting, IntervalDue
    <3>3. Ticks(s)' = 0
      BY <1>1, <1>2, <1>6, <3>1, <3>2 DEF Ticks, DueSince
    <3>4. QED
      BY <2>1, <2>3, <3>3
  <2>7. QED
    BY <2>4, <2>5, <2>6
<1>11. QED
  BY <1>7, <1>8, <1>9, <1>10 DEF TurnInv

\* Whoever still waited in the last period of a minute has waited for LongestWait.
LEMMA RunsInTurn ==
  ASSUME InTurn, RunnerInv, Flawless, TurnInv, Punctual
  PROVE  AllRan
<1> SUFFICES ASSUME BasicCronDue(now), MinuteOf(now + 1) # MinuteOf(now), NEW s \in Cron,
                    ~ HasPrompt(<<s, MinuteOf(now)>>)
             PROVE  FALSE
  BY DEF AllRan
<1>1. /\ s \in Schedules /\ now \in Nat /\ Began \in Nat /\ MinuteOf(now) \in Nat /\ NoTick = -1
      /\ CursorOf(s) \in Nat \cup {-1} /\ now < Began + MINUTE /\ MINUTE \in Nat
  BY TurnTypes, RunnerAssumption
<1>2. Taken = {} /\ ticked # {}
  <2>1. \A x \in Thread : thread[x].at \in Between /\ thread[x].todo = {}
    BY DEF Punctual, Flawless, InTime, Between
  <2>2. ticked # {}
    BY DEF Punctual, InTurn, FiresAssumed, Flawless, Orderly, Thread
  <2>3. QED
    BY <2>1, <2>2 DEF Taken, Taking, Between, Handling
<1>3. Waiting(s)
  <2>1. ASSUME Began <= CursorOf(s) PROVE FALSE
    <3>1. InStep(s)
      BY <1>1 DEF TurnInv
    <3>2. CursorOf(s) \in Nat /\ CursorOf(s) <= now
      BY <1>1, <2>1, <3>1 DEF InStep
    <3>3. HasPrompt(<<s, MinuteOf(CursorOf(s))>>)
      BY <1>1, <3>1, <3>2 DEF InStep
    <3>4. MinuteOf(now) <= MinuteOf(CursorOf(s)) /\ MinuteOf(CursorOf(s)) \in Nat
      BY <1>1, <2>1, <3>2, MinuteOrder, MinuteBounds DEF Began
    <3>5. MinuteOf(CursorOf(s)) * MINUTE <= now
      <4>1. /\ MinuteOf(CursorOf(s)) * MINUTE <= CursorOf(s)
            /\ MinuteOf(CursorOf(s)) * MINUTE \in Nat
        BY <3>2, MinuteBounds
      <4>2. QED
        BY <1>1, <3>2, <4>1
    <3>6. MinuteOf(CursorOf(s)) <= MinuteOf(now)
      BY <1>1, <3>4, <3>5, MinuteOrder
    <3>7. MinuteOf(CursorOf(s)) = MinuteOf(now)
      BY <1>1, <3>4, <3>6
    <3>8. QED
      BY <3>3, <3>7
  <2>2. QED
    BY <1>1, <2>1 DEF Waiting
<1>4. now = Began + MINUTE - 1
  <2>1. MinuteOf(now + 1) * MINUTE = now + 1
    BY <1>1, MinuteTurns
  <2>2. now + 1 >= Began + MINUTE
    <3> DEFINE u == MinuteOf(now)
               v == MinuteOf(now + 1)
    <3>1. u \in Nat /\ v \in Nat /\ u # v
      BY <1>1, MinuteBounds
    <3>2. u * MINUTE <= now /\ u * MINUTE \in Nat /\ v * MINUTE = now + 1
      BY <1>1, <2>1, MinuteBounds
    <3> HIDE DEF u, v
    <3>3. ASSUME v < u PROVE FALSE
      <4>1. v * MINUTE <= u * MINUTE
        BY <1>1, <3>1, <3>3, SMTT(30)
      <4>2. QED
        BY <1>1, <3>2, <4>1
    <3>4. (u + 1) * MINUTE <= v * MINUTE
      <4>1. u + 1 <= v
        BY <3>1, <3>3
      <4>2. QED
        BY <1>1, <3>1, <4>1, SMTT(30)
    <3>5. (u + 1) * MINUTE = u * MINUTE + MINUTE
      BY <1>1, <3>1, SMTT(30)
    <3>6. QED
      BY <1>1, <3>2, <3>4, <3>5 DEF Began, u
  <2>3. QED
    BY <1>1, <2>2
<1>5. Cardinality(Ahead(s) \ Taken) + MAX_RUNS_PER_TICK * Ticks(s) < Cardinality(Schedules)
  BY <1>1, <1>2, <1>3 DEF TurnInv, Paced
<1>6. Ticks(s) = MINUTE
  BY <1>1, <1>2, <1>4 DEF Ticks, DueSince
<1>7. Cardinality(Ahead(s) \ Taken) \in Nat
  BY <1>1, AheadFinite
<1>8. MAX_RUNS_PER_TICK * MINUTE < Cardinality(Schedules)
  <2>1. MAX_RUNS_PER_TICK * MINUTE \in Nat /\ Cardinality(Schedules) \in Nat
    BY <1>1, TurnNumbers
  <2>2. QED
    BY <1>5, <1>6, <1>7, <2>1
<1>9. MINUTE <= LongestWait
  BY <1>1, <1>8, WaitEnds
<1>10. QED
  BY <1>1, <1>9, TurnNumbers

LEMMA TurnBegins == ASSUME InTurn, Init PROVE TurnInv
<1>1. RunnerInv
  BY BeginsWell
<1>2. \A x \in Thread : thread[x].at = "dead" /\ thread[x].todo = {}
  BY DEF Init, AtRest, Dead, InTurn, FiresAssumed, Thread
<1>3. Taken = {}
  BY <1>2 DEF Taken, Taking, Handling
<1>4. /\ now = 0 /\ ticked = {} /\ history = {} /\ NoTick = -1
      /\ \A s \in Schedules : CursorOf(s) = -1
  BY DEF Init, CursorOf, NoTick
<1>5. Single
  BY <1>2 DEF Single, SingleOf, Handling
<1>6. \A s \in Schedules : InStep(s)
  BY <1>3, <1>4 DEF InStep
<1>7. Paced
  <2> SUFFICES ASSUME NEW s \in Schedules, Waiting(s)
               PROVE  Cardinality(Ahead(s)) + MAX_RUNS_PER_TICK * Ticks(s) < Cardinality(Schedules)
    BY <1>3 DEF Paced
  <2>1. Ticks(s) = 0
    <3>1. DueSince(s) \in Nat /\ DueSince(s) <= now
      BY <1>1, DueBefore
    <3>2. QED
      BY <1>4, <3>1 DEF Ticks
  <2>2. /\ Cardinality(Ahead(s)) \in Nat /\ Cardinality(Ahead(s)) < Cardinality(Schedules)
        /\ Cardinality(Schedules) \in Nat /\ MAX_RUNS_PER_TICK \in Nat
    BY AheadFinite, TurnNumbers
  <2>3. QED
    BY <2>1, <2>2
<1>8. QED
  BY <1>4, <1>5, <1>6, <1>7 DEF TurnInv

TurnsInv == faultsLeft = MaxFaults => TurnInv

LEMMA TurnHolds ==
  ASSUME InTurn, RunnerInv, RunnerInv', FiresInv, TurnsInv, [Next]_vars
  PROVE  TurnsInv'
<1> SUFFICES ASSUME faultsLeft' = MaxFaults PROVE TurnInv'
  BY DEF TurnsInv
<1>1. Flawless /\ TurnInv /\ \A kind : ~ Fault(kind)
  BY NoneSpent DEF RunnerInv, RunnerTyped, FiresInv, TurnsInv
<1>2. ~ Stop /\ ~ Crash /\ ~ SwitchMode
  BY <1>1 DEF Stop, Crash, SwitchMode
<1>3. Manual = {} /\ late = {}
  BY <1>1 DEF InTurn, FiresAssumed, Flawless, Orderly
<1>4. CASE UNCHANGED vars
  <2>1. UNCHANGED <<now, schedules, history, queued, thread, ticked>>
    BY <1>4 DEF vars, memory, files, prompts, control
  <2>2. Taken' = Taken /\ \A s \in Schedules : CursorOf(s)' = CursorOf(s)
    BY <2>1 DEF Taken, Taking, CursorOf
  <2>3. Single'
    BY <1>1, <2>1 DEF TurnInv, Single, SingleOf, Settled, CursorOf, Began
  <2>4. \A x \in ticked : thread'[x].at # "dead"
    BY <1>1, <2>1 DEF TurnInv
  <2>5. QED
    BY <1>1, <2>1, <2>2, <2>3, <2>4, TurnKeeps
<1>5. ASSUME NEW l \in Loop, Start(l) \/ LoopEnds(l) \/ Boot(l) \/ Collect(l) PROVE TurnInv'
  BY <1>1, <1>5, LoopTurns, CollectTurns
<1>6. ASSUME NEW x \in Thread, Execute(x) PROVE TurnInv'
  BY <1>1, <1>6, ExecutionTurns
<1>7. CASE Clock
  BY <1>1, <1>7, ClockTurns
<1>8. QED
  BY <1>2, <1>3, <1>4, <1>5, <1>6, <1>7 DEF Next

\* Without croniter a cron schedule runs in every minute that its expression names, as
\* long as nothing went wrong, although a tick runs no more than MAX_RUNS_PER_TICK of the
\* schedules (is_cron_due, _tick): the oldest first, none waits for longer than
\* LongestWait, which has to be shorter than a minute, and an interval longer than both.
THEOREM CronRunsInTurn ==
  ASSUME InTurn
  PROVE  Spec => []CronFires
<1>1. Init => RunnerInv /\ FiresInv /\ TurnsInv
  BY BeginsWell, FiresBegins, TurnBegins DEF InTurn, TurnsInv
<1>2. RunnerInv /\ FiresInv /\ TurnsInv /\ [Next]_vars => RunnerInv' /\ FiresInv' /\ TurnsInv'
  <2> SUFFICES ASSUME RunnerInv, FiresInv, TurnsInv, [Next]_vars
               PROVE  RunnerInv' /\ FiresInv' /\ TurnsInv'
    OBVIOUS
  <2>1. RunnerInv'
    BY StepHolds
  <2>2. faultsLeft = MaxFaults /\ Punctual => AllRan
    BY RunsInTurn DEF FiresInv, TurnsInv
  <2>3. FiresInv'
    BY <2>2, FiresHolds DEF InTurn
  <2>4. QED
    BY <2>1, <2>3, TurnHolds
<1>3. FiresInv => CronFires
  BY DEF FiresInv, Flawless, Fired, CronFires, HasPrompt
<1>4. QED
  BY <1>1, <1>2, <1>3, PTL DEF Spec
=============================================================================
