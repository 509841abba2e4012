--------------------------- MODULE ScheduleEditing ---------------------------
(***************************************************************************)
(* How schedules are edited: the requests of the schedule API              *)
(* (api/schedules.py), the store that writes all schedules to one file     *)
(* (services/scheduler/storage.py), and the scheduler's thread, which      *)
(* changes the same objects and writes the same file.                      *)
(*                                                                         *)
(* An update changes the stored object field by field, validates it, and   *)
(* then saves.  What is refused half-way stays in the object, and the next *)
(* save of any schedule writes it.  A schedule that does not validate is   *)
(* skipped when the file is read, and the save after that drops it.        *)
(*                                                                         *)
(* Requests are served by one thread, which an update gives up only while  *)
(* it waits for its body.  When a schedule is due is not modelled here.    *)
(***************************************************************************)
EXTENDS Naturals, FiniteSets

CONSTANTS
  ScheduleIds,    \* the ids that are generated
  Texts,          \* contents of a schedule
  Editors,        \* requests that update a schedule
  MAX_SCHEDULES,
  EDIT_MISHAPS    \* bound: how often the file cannot be read or written

ASSUME EditingAssumption ==
  /\ MAX_SCHEDULES \in Nat /\ EDIT_MISHAPS \in Nat
  /\ Texts \cap {"new", "unsure", "gone"} = {}

VARIABLES
  object,   \* the Schedule objects
  listed,   \* the schedules in the store
  file,     \* schedules.json
  due,      \* the schedules that the scheduler's tick still has to execute
  editor,   \* what each update is at
  told,     \* what clients know of each schedule: its content, or that it is gone
  kept,     \* the schedules that were created and that nobody asked to delete
  mishaps   \* how often the file could not be read or written

editingVars == <<object, listed, file, due, editor, told, kept, mishaps>>

Entry   == [text : Texts, sound : BOOLEAN, enabled : BOOLEAN]
NoEntry == [text |-> "none", sound |-> FALSE, enabled |-> FALSE]
Idle    == [at |-> "idle"]

\* No update is between its first change and its answer.
Serving == \A h \in Editors : editor[h].at # "applied"

EditingTypeOK ==
  /\ object \in [ScheduleIds -> Entry \cup {NoEntry}] /\ listed \subseteq ScheduleIds
  /\ file \in [ScheduleIds -> Entry \cup {NoEntry}]
  /\ due \subseteq ScheduleIds /\ kept \subseteq ScheduleIds
  /\ \A h \in Editors : editor[h].at \in {"idle", "body", "applied"}
  /\ told \in [ScheduleIds -> Texts \cup {"new", "unsure", "gone"}]
  /\ Cardinality(listed) <= MAX_SCHEDULES

\* save_schedules writes the whole store, or fails and leaves the file alone.
SaveBook(ok) ==
  IF ok
    THEN /\ file' = [s \in ScheduleIds |-> IF s \in listed' THEN object'[s] ELSE NoEntry]
         /\ UNCHANGED mishaps
    ELSE /\ mishaps < EDIT_MISHAPS /\ mishaps' = mishaps + 1
         /\ UNCHANGED file

\* What the client knows once its request is answered.
Answered(s, ok, what) == told' = [told EXCEPT ![s] = IF ok THEN what ELSE "unsure"]

\* ScheduleStore.update: a schedule that is no longer in the store is not saved.
StoreUpdate(s, ok) == IF s \in listed THEN SaveBook(ok) ELSE ~ ok /\ UNCHANGED <<file, mishaps>>
-----------------------------------------------------------------------------
(* Requests.                                                               *)

CreateSchedule(s, x, ok) ==
  /\ Serving /\ told[s] = "new" /\ Cardinality(listed) < MAX_SCHEDULES
  /\ object' = [object EXCEPT ![s] = [text |-> x, sound |-> TRUE, enabled |-> TRUE]]
  /\ listed' = listed \cup {s}
  /\ SaveBook(ok) /\ Answered(s, ok, x)
  /\ kept' = IF ok THEN kept \cup {s} ELSE kept
  /\ UNCHANGED <<due, editor>>

DeleteSchedule(s, ok) ==
  /\ Serving /\ s \in listed
  /\ listed' = listed \ {s} /\ kept' = kept \ {s}
  /\ UNCHANGED object
  /\ SaveBook(ok) /\ Answered(s, ok, "gone")
  /\ UNCHANGED <<due, editor>>

\* toggle_schedule does not validate.
ToggleSchedule(s, ok) ==
  /\ Serving /\ s \in listed
  /\ object' = [object EXCEPT ![s].enabled = ~ @]
  /\ UNCHANGED listed
  /\ SaveBook(ok)
  /\ told' = IF ok THEN told ELSE [told EXCEPT ![s] = "unsure"]
  /\ UNCHANGED <<due, editor, kept>>

\* update_schedule finds the object and waits for the request's body.
OpenUpdate(h, s) ==
  /\ Serving /\ editor[h] = Idle /\ s \in listed
  /\ editor' = [editor EXCEPT ![h] = [at |-> "body", s |-> s]]
  /\ UNCHANGED <<object, listed, file, due, told, kept, mishaps>>

\* The body is not JSON or names an unknown template: nothing has changed.
RefuseUpdate(h) ==
  /\ Serving /\ editor[h].at = "body"
  /\ editor' = [editor EXCEPT ![h] = Idle]
  /\ UNCHANGED <<object, listed, file, due, told, kept, mishaps>>

\* The fields are changed, all of them or up to one that raises.
ApplyUpdate(h, x, sound, enabled) ==
  /\ Serving /\ editor[h].at = "body"
  /\ LET s == editor[h].s
     IN  /\ object' = [object EXCEPT ![s] = [text |-> x, sound |-> sound, enabled |-> enabled]]
         /\ told' = IF s \in listed THEN [told EXCEPT ![s] = "unsure"] ELSE told
  /\ editor' = [editor EXCEPT ![h].at = "applied"]
  /\ UNCHANGED <<listed, file, due, kept, mishaps>>

\* It does not validate, or a field raised: the change is refused, and stays.
RefuseApplied(h) ==
  /\ editor[h].at = "applied"
  /\ editor' = [editor EXCEPT ![h] = Idle]
  /\ UNCHANGED <<object, listed, file, due, told, kept, mishaps>>

\* It validates and is saved, unless it was deleted meanwhile.
SaveUpdate(h, ok) ==
  /\ editor[h].at = "applied" /\ object[editor[h].s].sound
  /\ UNCHANGED <<object, listed, due, kept>>
  /\ StoreUpdate(editor[h].s, ok)
  /\ editor' = [editor EXCEPT ![h] = Idle]
  /\ told' = IF ok THEN [told EXCEPT ![editor[h].s] = object[editor[h].s].text] ELSE told
-----------------------------------------------------------------------------
(* The scheduler's thread.                                                 *)

\* A tick collects schedules that are due.
CollectDue ==
  /\ due = {}
  /\ due' \in SUBSET {s \in listed : object[s].enabled} \ {{}}
  /\ UNCHANGED <<object, listed, file, editor, told, kept, mishaps>>

\* An evaluation that raises is counted, and may disable the schedule; one that
\* succeeds after that clears the count.
RecordEvaluation(s, ok) ==
  /\ s \in listed /\ object[s].enabled
  /\ object' \in {object, [object EXCEPT ![s].enabled = FALSE]}
  /\ UNCHANGED listed
  /\ SaveBook(ok)
  /\ UNCHANGED <<due, editor, told, kept>>

\* A schedule has been executed and its cursor moves, even if it was deleted or
\* disabled since the tick collected it.
SaveCursor(s, ok) ==
  /\ s \in due /\ due' = due \ {s}
  /\ UNCHANGED <<object, listed>>
  /\ StoreUpdate(s, ok)
  /\ UNCHANGED <<editor, told, kept>>

\* The shutdown flushes the store.
FlushStore(ok) ==
  /\ UNCHANGED <<object, listed>>
  /\ SaveBook(ok)
  /\ UNCHANGED <<due, editor, told, kept>>

\* Mutation: one schedule that is not valid ends the loading.
LoadAllOrNothing ==
  IF \E s \in ScheduleIds : file[s] # NoEntry /\ ~ file[s].sound THEN {}
  ELSE {s \in ScheduleIds : file[s] # NoEntry}

\* load_schedules skips the schedules that do not validate.
LoadSchedules == {s \in ScheduleIds : file[s].sound}

Reload(L) ==
  /\ listed' = L
  /\ object' = [s \in ScheduleIds |-> IF s \in L THEN file[s] ELSE object[s]]
  /\ due' = {} /\ editor' = [h \in Editors |-> Idle]
  /\ UNCHANGED <<file, kept>>

RestartEditing == Reload(LoadSchedules) /\ UNCHANGED <<told, mishaps>>

\* A file that cannot be read is taken for an empty one.
RestartUnread ==
  /\ mishaps < EDIT_MISHAPS /\ mishaps' = mishaps + 1
  /\ Reload({})
  /\ told' = [s \in ScheduleIds |-> IF told[s] \in Texts THEN "unsure" ELSE told[s]]

EditingInit ==
  /\ object = [s \in ScheduleIds |-> NoEntry]
  /\ listed = {} /\ due = {} /\ kept = {} /\ mishaps = 0
  /\ file = [s \in ScheduleIds |-> NoEntry]
  /\ editor = [h \in Editors |-> Idle]
  /\ told = [s \in ScheduleIds |-> "new"]

EditingNext ==
  \/ \E s \in ScheduleIds, ok \in BOOLEAN :
       \/ \E x \in Texts : CreateSchedule(s, x, ok)
       \/ DeleteSchedule(s, ok) \/ ToggleSchedule(s, ok)
       \/ RecordEvaluation(s, ok) \/ SaveCursor(s, ok) \/ FlushStore(ok)
  \/ \E h \in Editors :
       \/ \E s \in ScheduleIds : OpenUpdate(h, s)
       \/ \E x \in Texts, sound, enabled \in BOOLEAN : ApplyUpdate(h, x, sound, enabled)
       \/ \E ok \in BOOLEAN : SaveUpdate(h, ok)
       \/ RefuseUpdate(h) \/ RefuseApplied(h)
  \/ CollectDue \/ RestartEditing \/ RestartUnread

EditingSpec == EditingInit /\ [][EditingNext]_editingVars
-----------------------------------------------------------------------------
(* Properties.                                                             *)

\* An edit that was confirmed stands, in memory and in the file, through
\* restarts and through refused and failed edits of other schedules: the content
\* is what the client was told, and a deleted schedule does not come back.
EditsStand ==
  \A s \in ScheduleIds :
    /\ told[s] \in Texts =>
         s \in listed /\ \A e \in {object[s], file[s]} : e.text = told[s] /\ e.sound
    /\ told[s] = "gone" => s \notin listed /\ file[s] = NoEntry

\* A schedule that was created stays until somebody deletes it, as long as the
\* file can be read and written.
ScheduleKept == mishaps = 0 => kept \subseteq listed
=============================================================================
