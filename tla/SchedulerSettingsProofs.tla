----------------------- MODULE SchedulerSettingsProofs -----------------------
(***************************************************************************)
(* The editing of schedules for any ids, contents, requests and failures   *)
(* of the file: an edit that was confirmed stands, and the store stays     *)
(* within its limit.  Then the settings of the scheduler, each with what   *)
(* SchedulerRunnerProofs shows of it.                                      *)
(*                                                                         *)
(* EditsStand is inductive once it is known which schedule an update       *)
(* under way has changed: until it is saved nothing is told of that one.   *)
(***************************************************************************)
EXTENDS MCSchedulerSettings, SchedulerRunnerProofs

Stored == Entry \cup {NoEntry}

EditingTyped ==
  /\ object \in [ScheduleIds -> Stored] /\ file \in [ScheduleIds -> Stored]
  /\ listed \subseteq ScheduleIds /\ due \subseteq ScheduleIds /\ kept \subseteq ScheduleIds
  /\ \A s \in listed : object[s] \in Entry
  /\ editor \in [Editors -> {Idle} \cup [at : {"body", "applied"}, s : ScheduleIds]]
  /\ told \in [ScheduleIds -> Texts \cup {"new", "unsure", "gone"}]

\* What a client knows of a schedule is what the store and the file hold of it.
Stands(s) ==
  /\ told[s] \in Texts => /\ s \in listed
                          /\ object[s].text = told[s] /\ object[s].sound
                          /\ file[s].text = told[s] /\ file[s].sound
  /\ told[s] = "gone" => s \notin listed /\ file[s] = NoEntry

EditingInv == EditingTyped /\ \A s \in ScheduleIds : Stands(s)

-----------------------------------------------------------------------------
\* A save that succeeds writes what the store holds; one that fails writes nothing.
LEMMA SavedBook ==
  ASSUME EditingTyped, NEW ok \in BOOLEAN, SaveBook(ok),
         object' \in [ScheduleIds -> Stored]
  PROVE  /\ file' \in [ScheduleIds -> Stored]
         /\ ok => \A s \in ScheduleIds : file'[s] = IF s \in listed' THEN object'[s] ELSE NoEntry
         /\ ~ ok => file' = file
BY DEF SaveBook, EditingTyped, Stored

\* A schedule that a step leaves alone, but for a save and the switch that enables
\* it, stands as it did.
LEMMA StandsStill ==
  ASSUME EditingTyped, NEW s \in ScheduleIds, Stands(s),
         told'[s] = told[s], s \in listed' <=> s \in listed,
         object'[s].text = object[s].text, object'[s].sound = object[s].sound,
         \/ file'[s] = file[s]
         \/ file'[s] = IF s \in listed' THEN object'[s] ELSE NoEntry
  PROVE  Stands(s)'
BY EditingAssumption DEF Stands, NoEntry

\* Enabling and disabling a listed schedule changes nothing that is told of it.
LEMMA Switched ==
  ASSUME EditingTyped, NEW s \in listed, NEW b \in BOOLEAN,
         object' = [object EXCEPT ![s].enabled = b]
  PROVE  /\ object' \in [ScheduleIds -> Stored] /\ \A r \in listed : object'[r] \in Entry
         /\ \A r \in ScheduleIds : object'[r].text = object[r].text /\ object'[r].sound = object[r].sound
<1>1. s \in ScheduleIds /\ object[s] \in Entry
  BY DEF EditingTyped
<1>2. object'[s] = [text |-> object[s].text, sound |-> object[s].sound, enabled |-> b]
  BY <1>1 DEF EditingTyped, Entry
<1>3. object'[s] \in Entry
  BY <1>1, <1>2 DEF Entry
<1>4. QED
  BY <1>1, <1>2, <1>3 DEF EditingTyped, Stored

-----------------------------------------------------------------------------
(* Requests.                                                               *)

LEMMA CreateHolds ==
  ASSUME EditingInv, NEW s \in ScheduleIds, NEW x \in Texts, NEW ok \in BOOLEAN,
         CreateSchedule(s, x, ok)
  PROVE  EditingInv'
<1>1. EditingTyped /\ told[s] = "new"
  BY DEF EditingInv, CreateSchedule
<1>2. /\ object' = [object EXCEPT ![s] = [text |-> x, sound |-> TRUE, enabled |-> TRUE]]
      /\ listed' = listed \cup {s} /\ SaveBook(ok)
      /\ told' = [told EXCEPT ![s] = IF ok THEN x ELSE "unsure"]
      /\ UNCHANGED <<due, editor>> /\ kept' \subseteq kept \cup {s}
  BY DEF CreateSchedule, Answered
<1>3. object' \in [ScheduleIds -> Stored]
  BY <1>1, <1>2 DEF EditingTyped, Stored, Entry
<1>4. /\ file' \in [ScheduleIds -> Stored]
      /\ ok => \A r \in ScheduleIds : file'[r] = IF r \in listed' THEN object'[r] ELSE NoEntry
      /\ ~ ok => file' = file
  BY <1>1, <1>2, <1>3, SavedBook
<1>5. EditingTyped'
  <2>1. \A r \in listed' : object'[r] \in Entry
    BY <1>1, <1>2 DEF EditingTyped, Entry
  <2>2. told' \in [ScheduleIds -> Texts \cup {"new", "unsure", "gone"}]
    BY <1>1, <1>2 DEF EditingTyped
  <2>3. QED
    BY <1>1, <1>2, <1>3, <1>4, <2>1, <2>2 DEF EditingTyped
<1>6. ASSUME NEW r \in ScheduleIds PROVE Stands(r)'
  <2>1. CASE r = s
    <3>1. /\ s \in listed' /\ told'[s] = IF ok THEN x ELSE "unsure"
          /\ object'[s] = [text |-> x, sound |-> TRUE, enabled |-> TRUE]
      BY <1>1, <1>2 DEF EditingTyped
    <3>2. QED
      BY <2>1, <3>1, <1>4, EditingAssumption DEF Stands
  <2>2. CASE r # s
    BY <2>2, <1>1, <1>2, <1>4, StandsStill DEF EditingInv, EditingTyped
  <2>3. QED
    BY <2>1, <2>2
<1>7. QED
  BY <1>5, <1>6 DEF EditingInv

LEMMA DeleteHolds ==
  ASSUME EditingInv, NEW s \in ScheduleIds, NEW ok \in BOOLEAN, DeleteSchedule(s, ok)
  PROVE  EditingInv'
<1>1. EditingTyped
  BY DEF EditingInv
<1>2. /\ object' = object /\ listed' = listed \ {s} /\ SaveBook(ok)
      /\ told' = [told EXCEPT ![s] = IF ok THEN "gone" ELSE "unsure"]
      /\ UNCHANGED <<due, editor>> /\ kept' = kept \ {s}
  BY DEF DeleteSchedule, Answered
<1>3. /\ file' \in [ScheduleIds -> Stored]
      /\ ok => \A r \in ScheduleIds : file'[r] = IF r \in listed' THEN object'[r] ELSE NoEntry
      /\ ~ ok => file' = file
  BY <1>1, <1>2, SavedBook DEF EditingTyped
<1>4. EditingTyped'
  BY <1>1, <1>2, <1>3 DEF EditingTyped
<1>5. ASSUME NEW r \in ScheduleIds PROVE Stands(r)'
  <2>1. CASE r = s
    <3>1. s \notin listed' /\ told'[s] = IF ok THEN "gone" ELSE "unsure"
      BY <1>1, <1>2 DEF EditingTyped
    <3>2. QED
      BY <2>1, <3>1, <1>3, EditingAssumption DEF Stands
  <2>2. CASE r # s
    BY <2>2, <1>1, <1>2, <1>3, StandsStill DEF EditingInv, EditingTyped
  <2>3. QED
    BY <2>1, <2>2
<1>6. QED
  BY <1>4, <1>5 DEF EditingInv

\* Steps that switch schedules or change none, and save the store or do not.
LEMMA SavingHolds ==
  ASSUME EditingInv, object' \in [ScheduleIds -> Stored], listed' = listed,
         \A r \in listed : object'[r] \in Entry,
         \A r \in ScheduleIds : object'[r].text = object[r].text /\ object'[r].sound = object[r].sound,
         file' = file \/ \E ok \in BOOLEAN : SaveBook(ok),
         due' \subseteq listed \cup due, kept' = kept,
         editor' \in [Editors -> {Idle} \cup [at : {"body", "applied"}, s : ScheduleIds]],
         told' \in [ScheduleIds -> Texts \cup {"new", "unsure", "gone"}],
         \A r \in ScheduleIds : told'[r] = told[r] \/ told'[r] = "unsure"
  PROVE  EditingInv'
<1>1. EditingTyped
  BY DEF EditingInv
<1>2. /\ file' \in [ScheduleIds -> Stored]
      /\ file' = file \/ \A r \in ScheduleIds : file'[r] = IF r \in listed' THEN object'[r] ELSE NoEntry
  BY <1>1, SavedBook DEF EditingTyped
<1>3. EditingTyped'
  BY <1>1, <1>2 DEF EditingTyped
<1>4. ASSUME NEW r \in ScheduleIds PROVE Stands(r)'
  <2>1. CASE told'[r] = told[r]
    BY <2>1, <1>1, <1>2, StandsStill DEF EditingInv
  <2>2. CASE told'[r] = "unsure"
    BY <2>2, EditingAssumption DEF Stands
  <2>3. QED
    BY <2>1, <2>2
<1>5. QED
  BY <1>3, <1>4 DEF EditingInv

LEMMA ToggleHolds ==
  ASSUME EditingInv, NEW s \in ScheduleIds, NEW ok \in BOOLEAN, ToggleSchedule(s, ok)
  PROVE  EditingInv'
<1>1. EditingTyped
  BY DEF EditingInv
<1>2. /\ s \in listed /\ object' = [object EXCEPT ![s].enabled = ~ @]
      /\ UNCHANGED <<listed, due, editor, kept>> /\ SaveBook(ok)
      /\ told' = IF ok THEN told ELSE [told EXCEPT ![s] = "unsure"]
  BY DEF ToggleSchedule
<1>3. object[s].enabled \in BOOLEAN
  BY <1>1, <1>2 DEF EditingTyped, Entry
<1>4. \E b \in BOOLEAN : object' = [object EXCEPT ![s].enabled = b]
  BY <1>2, <1>3, Zenon
<1>5. /\ object' \in [ScheduleIds -> Stored] /\ \A r \in listed : object'[r] \in Entry
      /\ \A r \in ScheduleIds : object'[r].text = object[r].text /\ object'[r].sound = object[r].sound
  BY <1>1, <1>2, <1>4, Switched
<1>6. /\ told' \in [ScheduleIds -> Texts \cup {"new", "unsure", "gone"}]
      /\ \A r \in ScheduleIds : told'[r] = told[r] \/ told'[r] = "unsure"
  BY <1>1, <1>2 DEF EditingTyped
<1>7. /\ editor' \in [Editors -> {Idle} \cup [at : {"body", "applied"}, s : ScheduleIds]]
      /\ due' \subseteq listed \cup due
  BY <1>1, <1>2 DEF EditingTyped
<1>8. QED
  BY <1>2, <1>5, <1>6, <1>7, SavingHolds

\* The scheduler's thread.
LEMMA SchedulerHolds ==
  ASSUME EditingInv,
         \/ \E s \in ScheduleIds, ok \in BOOLEAN :
              RecordEvaluation(s, ok) \/ SaveCursor(s, ok) \/ FlushStore(ok)
         \/ CollectDue
  PROVE  EditingInv'
<1>1. EditingTyped
  BY DEF EditingInv
<1>2. ASSUME NEW s \in ScheduleIds, NEW ok \in BOOLEAN, RecordEvaluation(s, ok) PROVE EditingInv'
  <2>1. /\ s \in listed /\ object' \in {object, [object EXCEPT ![s].enabled = FALSE]}
        /\ UNCHANGED <<listed, due, editor, told, kept>> /\ SaveBook(ok)
    BY <1>2 DEF RecordEvaluation
  <2>2. /\ object' \in [ScheduleIds -> Stored] /\ \A r \in listed : object'[r] \in Entry
        /\ \A r \in ScheduleIds : object'[r].text = object[r].text /\ object'[r].sound = object[r].sound
    <3>1. CASE object' = object
      BY <3>1, <1>1 DEF EditingTyped
    <3>2. CASE object' = [object EXCEPT ![s].enabled = FALSE]
      BY <3>2, <1>1, <1>2, Switched DEF RecordEvaluation
    <3>3. QED
      BY <2>1, <3>1, <3>2
  <2>3. QED
    BY <1>1, <2>1, <2>2, SavingHolds DEF EditingTyped
<1>3. ASSUME NEW s \in ScheduleIds, NEW ok \in BOOLEAN, SaveCursor(s, ok) PROVE EditingInv'
  <2>1. /\ UNCHANGED <<object, listed, editor, told, kept>> /\ due' \subseteq due
        /\ file' = file \/ SaveBook(ok)
    BY <1>3 DEF SaveCursor, StoreUpdate
  <2>2. QED
    BY <1>1, <2>1, SavingHolds DEF EditingTyped
<1>4. ASSUME NEW ok \in BOOLEAN, FlushStore(ok) PROVE EditingInv'
  BY <1>1, <1>4, SavingHolds DEF EditingTyped, FlushStore
<1>5. CASE CollectDue
  <2>1. /\ UNCHANGED <<object, listed, file, editor, told, kept>> /\ due' \subseteq listed
    BY <1>5 DEF CollectDue
  <2>2. QED
    BY <1>1, <2>1, SavingHolds DEF EditingTyped
<1>6. QED
  BY <1>2, <1>3, <1>4, <1>5

\* An update that is opened or refused changes nothing; what it has applied stays.
LEMMA OpenedHolds ==
  ASSUME EditingInv, NEW h \in Editors,
         \/ \E s \in ScheduleIds : OpenUpdate(h, s)
         \/ RefuseUpdate(h) \/ RefuseApplied(h)
  PROVE  EditingInv'
<1>1. EditingTyped
  BY DEF EditingInv
<1>2. UNCHANGED <<object, listed, file, due, told, kept>>
  BY DEF OpenUpdate, RefuseUpdate, RefuseApplied
<1>3. \E e \in {Idle} \cup [at : {"body", "applied"}, s : ScheduleIds] : editor' = [editor EXCEPT ![h] = e]
  <2>1. ASSUME NEW s \in ScheduleIds, OpenUpdate(h, s)
        PROVE  editor' = [editor EXCEPT ![h] = [at |-> "body", s |-> s]]
    BY <2>1 DEF OpenUpdate
  <2>2. CASE RefuseUpdate(h) \/ RefuseApplied(h)
    BY <2>2 DEF RefuseUpdate, RefuseApplied
  <2>3. QED
    BY <2>1, <2>2
<1>4. editor' \in [Editors -> {Idle} \cup [at : {"body", "applied"}, s : ScheduleIds]]
  BY <1>1, <1>3 DEF EditingTyped
<1>5. QED
  BY <1>1, <1>2, <1>4, SavingHolds DEF EditingTyped

\* The fields are changed: of this schedule nothing is told any more.
LEMMA ApplyHolds ==
  ASSUME EditingInv, NEW h \in Editors, NEW x \in Texts, NEW sound \in BOOLEAN,
         NEW enabled \in BOOLEAN, ApplyUpdate(h, x, sound, enabled)
  PROVE  EditingInv'
<1>1. EditingTyped
  BY DEF EditingInv
<1>2. PICK s \in ScheduleIds : editor[h] = [at |-> "body", s |-> s]
  BY <1>1 DEF EditingTyped, ApplyUpdate, Idle
<1>3. /\ object' = [object EXCEPT ![s] = [text |-> x, sound |-> sound, enabled |-> enabled]]
      /\ told' = IF s \in listed THEN [told EXCEPT ![s] = "unsure"] ELSE told
      /\ editor' = [editor EXCEPT ![h].at = "applied"]
      /\ UNCHANGED <<listed, file, due, kept>>
  BY <1>2 DEF ApplyUpdate
<1>4. editor' \in [Editors -> {Idle} \cup [at : {"body", "applied"}, s : ScheduleIds]]
  <2>1. editor' = [editor EXCEPT ![h] = [at |-> "applied", s |-> s]]
    <3>1. editor' = [editor EXCEPT ![h] = [editor[h] EXCEPT !.at = "applied"]]
      BY <1>3, Zenon
    <3>2. [editor[h] EXCEPT !.at = "applied"] = [at |-> "applied", s |-> s]
      BY <1>2
    <3>3. QED
      BY <3>1, <3>2
  <2>2. QED
    BY <2>1, <1>1 DEF EditingTyped
<1>5. EditingTyped'
  <2>1. object' \in [ScheduleIds -> Stored] /\ \A r \in listed' : object'[r] \in Entry
    BY <1>1, <1>3 DEF EditingTyped, Stored, Entry
  <2>2. told' \in [ScheduleIds -> Texts \cup {"new", "unsure", "gone"}]
    BY <1>1, <1>3 DEF EditingTyped
  <2>3. QED
    BY <2>1, <2>2, <1>1, <1>3, <1>4 DEF EditingTyped
<1>6. ASSUME NEW r \in ScheduleIds PROVE Stands(r)'
  <2>1. Stands(r)
    BY DEF EditingInv
  <2>2. CASE r = s /\ s \in listed
    <3>1. told'[r] = "unsure"
      BY <2>2, <1>1, <1>3 DEF EditingTyped
    <3>2. QED
      BY <3>1, EditingAssumption DEF Stands
  <2>3. CASE r = s /\ s \notin listed
    BY <2>1, <2>3, <1>3 DEF Stands
  <2>4. CASE r # s
    BY <2>1, <2>4, <1>1, <1>3, StandsStill DEF EditingTyped
  <2>5. QED
    BY <2>2, <2>3, <2>4
<1>7. QED
  BY <1>5, <1>6 DEF EditingInv

\* The update is saved, and confirmed if it is.
LEMMA SaveUpdateHolds ==
  ASSUME EditingInv, NEW h \in Editors, NEW ok \in BOOLEAN, SaveUpdate(h, ok)
  PROVE  EditingInv'
<1>1. EditingTyped
  BY DEF EditingInv
<1>2. PICK s \in ScheduleIds : editor[h] = [at |-> "applied", s |-> s]
  BY <1>1 DEF EditingTyped, SaveUpdate, Idle
<1>3. /\ object[s].sound /\ UNCHANGED <<object, listed, due, kept>>
      /\ IF s \in listed THEN SaveBook(ok) ELSE ~ ok /\ file' = file
      /\ editor' = [editor EXCEPT ![h] = Idle]
      /\ told' = IF ok THEN [told EXCEPT ![s] = object[s].text] ELSE told
  BY <1>2 DEF SaveUpdate, StoreUpdate
<1>4. editor' \in [Editors -> {Idle} \cup [at : {"body", "applied"}, s : ScheduleIds]]
  BY <1>1, <1>3 DEF EditingTyped
<1>5. CASE ~ ok
  <2>1. told' = told /\ (file' = file \/ SaveBook(ok))
    BY <1>3, <1>5
  <2>2. QED
    BY <2>1, <1>1, <1>3, <1>4, SavingHolds DEF EditingTyped
<1>6. CASE ok
  <2>1. s \in listed /\ SaveBook(ok) /\ told' = [told EXCEPT ![s] = object[s].text]
    BY <1>3, <1>6
  <2>2. /\ file' \in [ScheduleIds -> Stored]
        /\ \A r \in ScheduleIds : file'[r] = IF r \in listed THEN object[r] ELSE NoEntry
    BY <2>1, <1>1, <1>3, <1>6, SavedBook DEF EditingTyped
  <2>3. object[s].text \in Texts
    BY <2>1, <1>1 DEF EditingTyped, Entry
  <2>4. EditingTyped'
    BY <2>1, <2>2, <2>3, <1>1, <1>3, <1>4 DEF EditingTyped
  <2>5. ASSUME NEW r \in ScheduleIds PROVE Stands(r)'
    <3>1. CASE r = s
      <4>1. told'[s] = object[s].text /\ file'[s] = object[s] /\ object' = object /\ listed' = listed
        BY <2>1, <2>2, <1>1, <1>3 DEF EditingTyped
      <4>2. QED
        BY <3>1, <4>1, <2>1, <2>3, <1>3, EditingAssumption DEF Stands
    <3>2. CASE r # s
      BY <3>2, <2>1, <2>2, <1>1, <1>3, StandsStill DEF EditingInv, EditingTyped
    <3>3. QED
      BY <3>1, <3>2
  <2>6. QED
    BY <2>4, <2>5 DEF EditingInv
<1>7. QED
  BY <1>5, <1>6

\* A restart: what is told was sound in the file and is loaded, or the file is not read.
LEMMA RestartHolds ==
  ASSUME EditingInv, RestartEditing \/ RestartUnread
  PROVE  EditingInv'
<1>1. EditingTyped
  BY DEF EditingInv
<1>2. PICK L \in SUBSET ScheduleIds :
        /\ \/ /\ L = LoadSchedules /\ told' = told
           \/ /\ L = {}
              /\ told' = [s \in ScheduleIds |-> IF told[s] \in Texts THEN "unsure" ELSE told[s]]
        /\ Reload(L)
  <2>1. LoadSchedules \in SUBSET ScheduleIds
    BY DEF LoadSchedules
  <2>2. QED
    BY <2>1 DEF RestartEditing, RestartUnread
<1>3. /\ listed' = L /\ object' = [s \in ScheduleIds |-> IF s \in L THEN file[s] ELSE object[s]]
      /\ due' = {} /\ editor' = [h \in Editors |-> Idle] /\ UNCHANGED <<file, kept>>
  BY <1>2 DEF Reload
<1>4. \A s \in L : file[s] \in Entry
  BY <1>1, <1>2 DEF LoadSchedules, EditingTyped, Stored, NoEntry
<1>5. EditingTyped'
  <2>1. object' \in [ScheduleIds -> Stored] /\ \A r \in listed' : object'[r] \in Entry
    BY <1>1, <1>3, <1>4 DEF EditingTyped, Stored
  <2>2. told' \in [ScheduleIds -> Texts \cup {"new", "unsure", "gone"}]
    BY <1>1, <1>2 DEF EditingTyped
  <2>3. editor' \in [Editors -> {Idle} \cup [at : {"body", "applied"}, s : ScheduleIds]]
    BY <1>3
  <2>4. QED
    BY <2>1, <2>2, <2>3, <1>1, <1>3 DEF EditingTyped
<1>6. ASSUME NEW r \in ScheduleIds PROVE Stands(r)'
  <2>1. Stands(r)
    BY DEF EditingInv
  <2>2. told'[r] = told[r] \/ told'[r] = "unsure"
    BY <1>2
  <2>3. told'[r] \in Texts => r \in L
    BY <2>1, <1>2, EditingAssumption DEF Stands, LoadSchedules
  <2>4. told[r] = "gone" => r \notin L
    BY <2>1, <1>2 DEF Stands, LoadSchedules, NoEntry
  <2>5. QED
    BY <2>1, <2>2, <2>3, <2>4, <1>3, EditingAssumption DEF Stands
<1>7. QED
  BY <1>5, <1>6 DEF EditingInv

-----------------------------------------------------------------------------
LEMMA EditingBegins == EditingInit => EditingInv
BY EditingAssumption DEF EditingInit, EditingInv, EditingTyped, Stands, Stored

LEMMA EditingHolds == EditingInv /\ [EditingNext]_editingVars => EditingInv'
<1>1. CASE UNCHANGED editingVars
  BY <1>1 DEF editingVars, EditingInv, EditingTyped, Stands
<1>2. CASE EditingNext
  BY <1>2, CreateHolds, DeleteHolds, ToggleHolds, SchedulerHolds, OpenedHolds, ApplyHolds,
     SaveUpdateHolds, RestartHolds
  DEF EditingNext
<1>3. QED
  BY <1>1, <1>2

\* An edit that was confirmed stands, in memory and in the file, through restarts and
\* through refused and failed edits of others, for any schedules, contents and failures
\* (update_schedule, save_schedules, load_schedules).
THEOREM ConfirmedEditsStand == EditingSpec => []EditsStand
<1>1. EditingInv => EditsStand
  BY DEF EditingInv, Stands, EditsStand
<1>2. QED
  BY <1>1, EditingBegins, EditingHolds, PTL DEF EditingSpec

-----------------------------------------------------------------------------
(* Room: the store and the file hold no more schedules than the limit.  A  *)
(* file was written from the store, so a restart loads no more than it.    *)

Room ==
  /\ IsFiniteSet(listed) /\ Cardinality(listed) <= MAX_SCHEDULES
  /\ IsFiniteSet(LoadSchedules) /\ Cardinality(LoadSchedules) <= MAX_SCHEDULES

LEMMA Fits ==
  ASSUME NEW S, NEW T, S \subseteq T, IsFiniteSet(T), Cardinality(T) <= MAX_SCHEDULES
  PROVE  IsFiniteSet(S) /\ Cardinality(S) <= MAX_SCHEDULES
<1>1. IsFiniteSet(S) /\ Cardinality(S) <= Cardinality(T)
  BY FS_Subset
<1>2. Cardinality(S) \in Nat /\ Cardinality(T) \in Nat
  BY <1>1, FS_CardinalityType
<1>3. QED
  BY <1>1, <1>2, EditingAssumption

LEMMA RoomBegins == EditingInit => Room
<1> SUFFICES ASSUME EditingInit PROVE Room
  OBVIOUS
<1>1. listed = {} /\ LoadSchedules = {}
  BY DEF EditingInit, LoadSchedules, NoEntry
<1>2. QED
  BY <1>1, FS_EmptySet, EditingAssumption DEF Room

\* A save leaves no more in the file than the store holds.
LEMMA RoomSaved ==
  ASSUME Room, IsFiniteSet(listed'), Cardinality(listed') <= MAX_SCHEDULES,
         file' = file \/ \E ok \in BOOLEAN : SaveBook(ok)
  PROVE  Room'
<1>1. LoadSchedules' = LoadSchedules \/ LoadSchedules' \subseteq listed'
  <2>1. CASE file' = file
    BY <2>1 DEF LoadSchedules
  <2>2. ASSUME NEW ok \in BOOLEAN, SaveBook(ok)
        PROVE  file' = file \/ LoadSchedules' \subseteq listed'
    BY <2>2 DEF SaveBook, LoadSchedules, NoEntry
  <2>3. QED
    BY <2>1, <2>2 DEF LoadSchedules
<1>2. QED
  BY <1>1, Fits DEF Room

LEMMA RoomHolds == Room /\ [EditingNext]_editingVars => Room'
<1> SUFFICES ASSUME Room, [EditingNext]_editingVars PROVE Room'
  OBVIOUS
<1>1. CASE listed' \subseteq listed /\ (file' = file \/ \E ok \in BOOLEAN : SaveBook(ok))
  BY <1>1, Fits, RoomSaved DEF Room
<1>2. ASSUME NEW s \in ScheduleIds, NEW x \in Texts, NEW ok \in BOOLEAN, CreateSchedule(s, x, ok)
      PROVE  Room'
  <2>1. listed' = listed \cup {s} /\ Cardinality(listed) < MAX_SCHEDULES /\ SaveBook(ok)
    BY <1>2 DEF CreateSchedule
  <2>2. /\ IsFiniteSet(listed')
        /\ Cardinality(listed') = Cardinality(listed) \/ Cardinality(listed') = Cardinality(listed) + 1
    BY <2>1, FS_AddElement DEF Room
  <2>3. Cardinality(listed') <= MAX_SCHEDULES
    BY <2>1, <2>2, FS_CardinalityType, EditingAssumption DEF Room
  <2>4. QED
    BY <2>1, <2>2, <2>3, RoomSaved
<1>3. CASE RestartEditing \/ RestartUnread
  <2>1. listed' \subseteq LoadSchedules /\ file' = file
    BY <1>3 DEF RestartEditing, RestartUnread, Reload
  <2>2. QED
    BY <2>1, Fits, RoomSaved DEF Room
<1>4. ASSUME NEW s \in ScheduleIds, NEW ok \in BOOLEAN,
             DeleteSchedule(s, ok) \/ ToggleSchedule(s, ok) \/ RecordEvaluation(s, ok)
               \/ SaveCursor(s, ok) \/ FlushStore(ok)
      PROVE  Room'
  <2>1. listed' \subseteq listed
    BY <1>4 DEF DeleteSchedule, ToggleSchedule, RecordEvaluation, SaveCursor, FlushStore
  <2>2. file' = file \/ SaveBook(ok)
    BY <1>4 DEF DeleteSchedule, ToggleSchedule, RecordEvaluation, SaveCursor, FlushStore, StoreUpdate
  <2>3. QED
    BY <1>1, <2>1, <2>2
<1>5. ASSUME NEW h \in Editors, NEW ok \in BOOLEAN, SaveUpdate(h, ok) PROVE Room'
  <2>1. listed' = listed /\ (file' = file \/ SaveBook(ok))
    BY <1>5 DEF SaveUpdate, StoreUpdate
  <2>2. QED
    BY <1>1, <2>1
<1>6. ASSUME NEW h \in Editors,
             \/ \E s \in ScheduleIds : OpenUpdate(h, s)
             \/ \E x \in Texts, sound, enabled \in BOOLEAN : ApplyUpdate(h, x, sound, enabled)
             \/ RefuseUpdate(h) \/ RefuseApplied(h)
      PROVE  Room'
  BY <1>1, <1>6 DEF OpenUpdate, ApplyUpdate, RefuseUpdate, RefuseApplied
<1>7. CASE CollectDue
  BY <1>1, <1>7 DEF CollectDue
<1>8. CASE UNCHANGED editingVars
  BY <1>1, <1>8 DEF editingVars
<1>9. QED
  BY <1>2, <1>3, <1>4, <1>5, <1>6, <1>7, <1>8 DEF EditingNext

-----------------------------------------------------------------------------
(* One loop, in the setting of the configuration.                          *)

LEMMA SettingSteps ==
  ASSUME SettingsNext, setting = "loop"
  PROVE  Next /\ setting' = "loop"
BY DEF SettingsNext

\* The cursors keep their cadence in the setting with one loop.
THEOREM LoopKeepsCadence ==
  ASSUME OneLoop
  PROVE  SettingsSpec => LoopOnCadence
<1> DEFINE IInv == setting = "loop" => RunnerInv /\ CadInv
<1>1. SettingsInit => IInv
  BY BeginsWell, CadenceBegins DEF SettingsInit
<1>2. IInv /\ [SettingsNext]_<<vars, editingVars, setting>>
        => IInv' /\ [setting = "loop" => CadenceStep]_vars
  <2> SUFFICES ASSUME IInv, [SettingsNext]_<<vars, editingVars, setting>>
               PROVE  IInv' /\ (setting = "loop" => CadenceStep)
    OBVIOUS
  <2>1. CASE setting = "loop"
    <3>1. [Next]_vars /\ setting' = "loop"
      BY <2>1, SettingSteps
    <3>2. QED
      BY <2>1, <3>1, StepHolds, CadenceHolds
  <2>2. CASE setting # "loop"
    <3>1. setting' # "loop"
      BY <2>2 DEF SettingsNext
    <3>2. QED
      BY <2>2, <3>1
  <2>3. QED
    BY <2>1, <2>2
<1>3. QED
  BY <1>1, <1>2, PTL DEF SettingsSpec, LoopOnCadence

\* The loop queues one prompt per cursor position in the setting with one loop.
THEOREM LoopQueuesOnce ==
  ASSUME NoRepeats
  PROVE  SettingsSpec => []LoopOncePerTick
<1> DEFINE IInv == setting = "loop" => RunnerInv /\ CadInv /\ OnceInv
<1>1. SettingsInit => IInv
  BY BeginsWell, CadenceBegins, OnceBegins DEF SettingsInit, NoRepeats
<1>2. IInv /\ [SettingsNext]_<<vars, editingVars, setting>> => IInv'
  <2> SUFFICES ASSUME IInv, [SettingsNext]_<<vars, editingVars, setting>>, setting' = "loop"
               PROVE  (RunnerInv /\ CadInv /\ OnceInv)'
    OBVIOUS
  <2>1. [Next]_vars /\ setting = "loop"
    BY SettingSteps DEF SettingsNext
  <2>2. QED
    BY <2>1, StepHolds, CadenceHolds, OnceHolds DEF NoRepeats
<1>3. IInv => LoopOncePerTick
  BY DEF LoopOncePerTick, OnceInv
<1>4. QED
  BY <1>1, <1>2, <1>3, PTL DEF SettingsSpec

-----------------------------------------------------------------------------
(* A loop that outlives its stop, and its successor.  Handover is an       *)
(* instance of the module, HP one of the proofs about it: the lemmas below *)
(* say, action by action, that a step of the first is one of the second.   *)

HP == INSTANCE SchedulerRunnerProofs WITH
  Loop <- {l1, l2}, CronMinutes <- {0}, CRONITER <- FALSE, Faults <- {"stop", "slow", "mode"}

LEMMA HandoverSame ==
  /\ Handover!Thread = HP!Thread /\ Handover!AtRest = HP!AtRest
  /\ Handover!Dead = HP!Dead /\ Handover!NoTick = HP!NoTick
  /\ \A x : Handover!KeyOf(x) = HP!KeyOf(x)
  /\ \A t : Handover!MinuteOf(t) = HP!MinuteOf(t)
BY DEF Handover!Thread, HP!Thread, Handover!AtRest, HP!AtRest, Handover!Dead, HP!Dead,
    Handover!NoTick, HP!NoTick, Handover!KeyOf, HP!KeyOf, Handover!MinuteOf, HP!MinuteOf

LEMMA HandoverCardinality ==
  \A S : Handover!Cardinality(S) = Cardinality(S) /\ HP!Cardinality(S) = Cardinality(S)
BY DEF Handover!Cardinality, HP!Cardinality, Cardinality

LEMMA HandoverPrompt ==
  ASSUME NEW x
  PROVE  Handover!NewPrompt(x) = HP!NewPrompt(x)
<1> DEFINE new(k) ==
             [key |-> k, from |-> thread[x].job.from,
              by |-> IF x \in {l1, l2} THEN "loop" ELSE "manual",
              copy |-> 1 + Cardinality({p \in queued \cup late : p.key = k})]
<1>1. Handover!NewPrompt(x) = new(Handover!KeyOf(x)) /\ HP!NewPrompt(x) = new(HP!KeyOf(x))
  BY HandoverCardinality DEF Handover!NewPrompt, HP!NewPrompt
<1> HIDE DEF new
<1>2. QED
  BY <1>1, HandoverSame

LEMMA HandoverDue ==
  /\ Handover!DueNow = HP!DueNow /\ Handover!Chosen = HP!Chosen
  /\ \A s : Handover!Evaluated(s) = HP!Evaluated(s)
<1>1. \A s : (Handover!Raises(s) <=> HP!Raises(s)) /\ (Handover!Due(s) <=> HP!Due(s))
  BY DEF Handover!Raises, HP!Raises, Handover!Due, HP!Due, Handover!CronRaises, HP!CronRaises,
      Handover!IntervalDue, HP!IntervalDue, Handover!CroniterDue, HP!CroniterDue,
      Handover!BasicCronDue, HP!BasicCronDue, Handover!CronNames, HP!CronNames,
      Handover!MinuteOf, HP!MinuteOf, Handover!NoTick, HP!NoTick
<1>2. Handover!DueNow = HP!DueNow
  BY <1>1 DEF Handover!DueNow, HP!DueNow
<1>3. Handover!Chosen = HP!Chosen
  <2> DEFINE most(D) ==
               {C \in SUBSET D :
                  /\ Cardinality(C) = IF Cardinality(D) > MAX_RUNS_PER_TICK
                                        THEN MAX_RUNS_PER_TICK ELSE Cardinality(D)
                  /\ \A s \in C, u \in D \ C : schedules[s].cursor <= schedules[u].cursor}
  <2>1. Handover!Chosen = most(Handover!DueNow) /\ HP!Chosen = most(HP!DueNow)
    BY HandoverCardinality DEF Handover!Chosen, HP!Chosen
  <2> HIDE DEF most
  <2>2. QED
    BY <1>2, <2>1
<1>4. ASSUME NEW s PROVE Handover!Evaluated(s) = HP!Evaluated(s)
  BY <1>1, Zenon DEF Handover!Evaluated, HP!Evaluated
<1>5. QED
  BY <1>2, <1>3, <1>4

LEMMA HandoverLoop ==
  ASSUME NEW l
  PROVE  /\ Handover!Start(l) => HP!Start(l)
         /\ Handover!LoopEnds(l) => HP!LoopEnds(l)
         /\ Handover!Boot(l) => HP!Boot(l)
BY HandoverSame, HandoverDue
DEF Handover!Start, HP!Start, Handover!LoopEnds, HP!LoopEnds, Handover!Boot, HP!Boot,
    Handover!SaveSchedules, HP!SaveSchedules, Handover!NoFault, HP!NoFault, Handover!Fault,
    HP!Fault, Handover!CursorSkipped, HP!CursorSkipped, Handover!NoTick, HP!NoTick,
    Handover!memory, HP!memory, Handover!files, HP!files, Handover!prompts, HP!prompts,
    Handover!control, HP!control

LEMMA HandoverCollect ==
  ASSUME NEW l
  PROVE  Handover!Collect(l) => HP!Collect(l)
BY HandoverSame, HandoverDue
DEF Handover!Collect, HP!Collect, Handover!SaveSchedules, HP!SaveSchedules, Handover!NoFault,
    HP!NoFault, Handover!Fault, HP!Fault, Handover!memory, HP!memory, Handover!files, HP!files,
    Handover!prompts, HP!prompts, Handover!control, HP!control

LEMMA HandoverReserve ==
  ASSUME NEW x
  PROVE  /\ Handover!Pick(x) => HP!Pick(x)
         /\ Handover!CheckHistory(x) => HP!CheckHistory(x)
         /\ Handover!Reserve(x) => HP!Reserve(x)
         /\ Handover!Note(x) => HP!Note(x)
BY DEF Handover!Pick, HP!Pick, Handover!CheckHistory, HP!CheckHistory, Handover!Reserve, HP!Reserve,
    Handover!Note, HP!Note, Handover!AtRest, HP!AtRest, Handover!GoTo, HP!GoTo, Handover!KeyOf,
    HP!KeyOf, Handover!MinuteOf, HP!MinuteOf, Handover!NoFault, HP!NoFault, Handover!Fault,
    HP!Fault, Handover!memory, HP!memory, Handover!files, HP!files, Handover!prompts, HP!prompts,
    Handover!control, HP!control

LEMMA HandoverPost ==
  ASSUME NEW x
  PROVE  /\ Handover!Post(x) => HP!Post(x)
         /\ Handover!GiveUp(x) => HP!GiveUp(x)
BY HandoverPrompt
DEF Handover!Post, HP!Post, Handover!GiveUp, HP!GiveUp, Handover!GoTo, HP!GoTo,
    Handover!ServerFree, HP!ServerFree, Handover!NoFault, HP!NoFault, Handover!Fault, HP!Fault,
    Handover!memory, HP!memory, Handover!files, HP!files, Handover!prompts, HP!prompts,
    Handover!control, HP!control

LEMMA HandoverRecord ==
  ASSUME NEW x
  PROVE  /\ Handover!RecordIntent(x) => HP!RecordIntent(x)
         /\ Handover!MoveCursor(x) => HP!MoveCursor(x)
         /\ Handover!RecordRun(x) => HP!RecordRun(x)
BY DEF Handover!RecordIntent, HP!RecordIntent, Handover!MoveCursor, HP!MoveCursor,
    Handover!RecordRun, HP!RecordRun, Handover!GoTo, HP!GoTo, Handover!KeyOf, HP!KeyOf,
    Handover!MinuteOf, HP!MinuteOf, Handover!SaveSchedules, HP!SaveSchedules,
    Handover!CursorAfter, HP!CursorAfter, Handover!NoTick, HP!NoTick, Handover!NoFault,
    HP!NoFault, Handover!Fault, HP!Fault, Handover!memory, HP!memory, Handover!files, HP!files,
    Handover!prompts, HP!prompts, Handover!control, HP!control

LEMMA HandoverRest ==
  /\ Handover!Stop => HP!Stop
  /\ Handover!Crash => HP!Crash
  /\ Handover!SwitchMode => HP!SwitchMode
  /\ Handover!Clock => HP!Clock
BY HandoverSame
DEF Handover!Stop, HP!Stop, Handover!Crash, HP!Crash, Handover!SwitchMode, HP!SwitchMode,
    Handover!Clock, HP!Clock, Handover!Punctual, HP!Punctual, Handover!NoFault, HP!NoFault,
    Handover!Fault, HP!Fault, Handover!memory, HP!memory, Handover!files, HP!files,
    Handover!prompts, HP!prompts, Handover!control, HP!control

LEMMA HandoverRequests ==
  /\ \A p : Handover!ServeLate(p) => HP!ServeLate(p)
  /\ \A x, s : Handover!RunNow(x, s) => HP!RunNow(x, s)
BY DEF Handover!ServeLate, HP!ServeLate, Handover!RunNow, HP!RunNow, Handover!ServerFree,
    HP!ServerFree, Handover!NoFault, HP!NoFault, Handover!Fault, HP!Fault, Handover!AtRest,
    HP!AtRest, Handover!NoTick, HP!NoTick, Handover!memory, HP!memory, Handover!files, HP!files,
    Handover!prompts, HP!prompts, Handover!control, HP!control

LEMMA HandoverNext == Handover!Next => HP!Next
<1> SUFFICES ASSUME Handover!Next PROVE HP!Next
  OBVIOUS
<1>1. \A x : Handover!Execute(x) => HP!Execute(x)
  BY HandoverReserve, HandoverPost, HandoverRecord DEF Handover!Execute, HP!Execute
<1>2. QED
  BY <1>1, HandoverSame, HandoverLoop, HandoverCollect, HandoverRest, HandoverRequests
  DEF Handover!Next, HP!Next

LEMMA HandoverInit == Handover!Init => HP!Init
BY HandoverSame DEF Handover!Init, HP!Init, Handover!Key, HP!Key

LEMMA HandoverAssumed == {l1, l2} \cap Manual = {} => HP!RunnerAssumption
BY RunnerAssumption DEF RunnerAssumption, HP!RunnerAssumption

LEMMA HandoverSteps ==
  ASSUME [SettingsNext]_<<vars, editingVars, setting>>, setting' = "handover"
  PROVE  setting = "handover" /\ [HP!Next]_HP!vars
<1>1. CASE UNCHANGED <<vars, editingVars, setting>>
  <2>1. UNCHANGED HP!vars
    BY <1>1 DEF vars, memory, files, prompts, control, HP!vars, HP!memory, HP!files, HP!prompts,
      HP!control
  <2>2. QED
    BY <1>1, <2>1
<1>2. CASE SettingsNext
  <2>1. setting = "handover" /\ Handover!Next
    BY <1>2 DEF SettingsNext
  <2>2. QED
    BY <2>1, HandoverNext
<1>3. QED
  BY <1>1, <1>2

\* No delivery is lost while a loop that was stopped works next to its successor
\* (_record_delivery_intent): neither fault of this setting ends a process or a record.
THEOREM HandoverKeepsDeliveries ==
  ASSUME Manual = {}
  PROVE  SettingsSpec => []HandoverDeliveryKept
<1> DEFINE IInv == setting = "handover" => HP!RunnerInv /\ HP!KeptInv
<1>1. HP!RunnerAssumption /\ HP!NoLoss
  BY HandoverAssumed DEF HP!NoLoss
<1>2. SettingsInit => IInv
  BY <1>1, HandoverInit, HP!BeginsWell DEF SettingsInit, HP!Init, HP!KeptInv
<1>3. IInv /\ [SettingsNext]_<<vars, editingVars, setting>> => IInv'
  BY <1>1, HandoverSteps, HP!StepHolds, HP!KeptHolds
<1>4. IInv => HandoverDeliveryKept
  BY HandoverSame DEF HandoverDeliveryKept, HP!KeptInv, Handover!DeliveryKept,
    Handover!Executing, HP!Carries
<1>5. QED
  BY <1>2, <1>3, <1>4, PTL DEF SettingsSpec

-----------------------------------------------------------------------------
(* Three schedules that take turns at the one run of a tick.               *)

TP == INSTANCE SchedulerRunnerProofs WITH
  Schedules <- {s1, s2, s3}, Cron <- {s1}, CronMinutes <- {0}, Loop <- {l1}, Manual <- {},
  INTERVAL <- 5, MINUTE <- 3, HOUR <- 1, CRONITER <- FALSE, SKIP_MISSED <- FALSE,
  MAX_RUNS_PER_TICK <- 1, Faults <- {}, MaxFaults <- 0, MaxTime <- 18

LEMMA ThrottledSame ==
  /\ Throttled!Thread = TP!Thread /\ Throttled!AtRest = TP!AtRest
  /\ Throttled!Dead = TP!Dead /\ Throttled!NoTick = TP!NoTick
  /\ \A x : Throttled!KeyOf(x) = TP!KeyOf(x)
  /\ \A t : Throttled!MinuteOf(t) = TP!MinuteOf(t)
BY DEF Throttled!Thread, TP!Thread, Throttled!AtRest, TP!AtRest, Throttled!Dead, TP!Dead,
    Throttled!NoTick, TP!NoTick, Throttled!KeyOf, TP!KeyOf, Throttled!MinuteOf, TP!MinuteOf

LEMMA ThrottledCardinality ==
  \A S : Throttled!Cardinality(S) = Cardinality(S) /\ TP!Cardinality(S) = Cardinality(S)
BY DEF Throttled!Cardinality, TP!Cardinality, Cardinality

LEMMA ThrottledPrompt ==
  ASSUME NEW x
  PROVE  Throttled!NewPrompt(x) = TP!NewPrompt(x)
<1> DEFINE new(k) ==
             [key |-> k, from |-> thread[x].job.from,
              by |-> IF x \in {l1} THEN "loop" ELSE "manual",
              copy |-> 1 + Cardinality({p \in queued \cup late : p.key = k})]
<1>1. Throttled!NewPrompt(x) = new(Throttled!KeyOf(x)) /\ TP!NewPrompt(x) = new(TP!KeyOf(x))
  BY ThrottledCardinality DEF Throttled!NewPrompt, TP!NewPrompt
<1> HIDE DEF new
<1>2. QED
  BY <1>1, ThrottledSame

LEMMA ThrottledDue ==
  /\ Throttled!DueNow = TP!DueNow /\ Throttled!Chosen = TP!Chosen
  /\ \A s : Throttled!Evaluated(s) = TP!Evaluated(s)
<1>1. \A s : (Throttled!Raises(s) <=> TP!Raises(s)) /\ (Throttled!Due(s) <=> TP!Due(s))
  BY DEF Throttled!Raises, TP!Raises, Throttled!Due, TP!Due, Throttled!CronRaises, TP!CronRaises,
      Throttled!IntervalDue, TP!IntervalDue, Throttled!CroniterDue, TP!CroniterDue,
      Throttled!BasicCronDue, TP!BasicCronDue, Throttled!CronNames, TP!CronNames,
      Throttled!MinuteOf, TP!MinuteOf, Throttled!NoTick, TP!NoTick
<1>2. Throttled!DueNow = TP!DueNow
  BY <1>1 DEF Throttled!DueNow, TP!DueNow
<1>3. Throttled!Chosen = TP!Chosen
  <2> DEFINE most(D) ==
               {C \in SUBSET D :
                  /\ Cardinality(C) = IF Cardinality(D) > 1 THEN 1 ELSE Cardinality(D)
                  /\ \A s \in C, u \in D \ C : schedules[s].cursor <= schedules[u].cursor}
  <2>1. Throttled!Chosen = most(Throttled!DueNow) /\ TP!Chosen = most(TP!DueNow)
    BY ThrottledCardinality DEF Throttled!Chosen, TP!Chosen
  <2> HIDE DEF most
  <2>2. QED
    BY <1>2, <2>1
<1>4. ASSUME NEW s PROVE Throttled!Evaluated(s) = TP!Evaluated(s)
  BY <1>1, Zenon DEF Throttled!Evaluated, TP!Evaluated
<1>5. QED
  BY <1>2, <1>3, <1>4

LEMMA ThrottledLoop ==
  ASSUME NEW l
  PROVE  /\ Throttled!Start(l) => TP!Start(l)
         /\ Throttled!LoopEnds(l) => TP!LoopEnds(l)
         /\ Throttled!Boot(l) => TP!Boot(l)
BY ThrottledSame, ThrottledDue
DEF Throttled!Start, TP!Start, Throttled!LoopEnds, TP!LoopEnds, Throttled!Boot, TP!Boot,
    Throttled!SaveSchedules, TP!SaveSchedules, Throttled!NoFault, TP!NoFault, Throttled!Fault,
    TP!Fault, Throttled!CursorSkipped, TP!CursorSkipped, Throttled!NoTick, TP!NoTick,
    Throttled!memory, TP!memory, Throttled!files, TP!files, Throttled!prompts, TP!prompts,
    Throttled!control, TP!control

LEMMA ThrottledCollect ==
  ASSUME NEW l
  PROVE  Throttled!Collect(l) => TP!Collect(l)
BY ThrottledSame, ThrottledDue
DEF Throttled!Collect, TP!Collect, Throttled!SaveSchedules, TP!SaveSchedules, Throttled!NoFault,
    TP!NoFault, Throttled!Fault, TP!Fault, Throttled!memory, TP!memory, Throttled!files, TP!files,
    Throttled!prompts, TP!prompts, Throttled!control, TP!control

LEMMA ThrottledReserve ==
  ASSUME NEW x
  PROVE  /\ Throttled!Pick(x) => TP!Pick(x)
         /\ Throttled!CheckHistory(x) => TP!CheckHistory(x)
         /\ Throttled!Reserve(x) => TP!Reserve(x)
         /\ Throttled!Note(x) => TP!Note(x)
BY DEF Throttled!Pick, TP!Pick, Throttled!CheckHistory, TP!CheckHistory, Throttled!Reserve, TP!Reserve,
    Throttled!Note, TP!Note, Throttled!AtRest, TP!AtRest, Throttled!GoTo, TP!GoTo, Throttled!KeyOf,
    TP!KeyOf, Throttled!MinuteOf, TP!MinuteOf, Throttled!NoFault, TP!NoFault, Throttled!Fault,
    TP!Fault, Throttled!memory, TP!memory, Throttled!files, TP!files, Throttled!prompts, TP!prompts,
    Throttled!control, TP!control

LEMMA ThrottledPost ==
  ASSUME NEW x
  PROVE  /\ Throttled!Post(x) => TP!Post(x)
         /\ Throttled!GiveUp(x) => TP!GiveUp(x)
BY ThrottledPrompt
DEF Throttled!Post, TP!Post, Throttled!GiveUp, TP!GiveUp, Throttled!GoTo, TP!GoTo,
    Throttled!ServerFree, TP!ServerFree, Throttled!NoFault, TP!NoFault, Throttled!Fault, TP!Fault,
    Throttled!memory, TP!memory, Throttled!files, TP!files, Throttled!prompts, TP!prompts,
    Throttled!control, TP!control

LEMMA ThrottledRecord ==
  ASSUME NEW x
  PROVE  /\ Throttled!RecordIntent(x) => TP!RecordIntent(x)
         /\ Throttled!MoveCursor(x) => TP!MoveCursor(x)
         /\ Throttled!RecordRun(x) => TP!RecordRun(x)
BY DEF Throttled!RecordIntent, TP!RecordIntent, Throttled!MoveCursor, TP!MoveCursor,
    Throttled!RecordRun, TP!RecordRun, Throttled!GoTo, TP!GoTo, Throttled!KeyOf, TP!KeyOf,
    Throttled!MinuteOf, TP!MinuteOf, Throttled!SaveSchedules, TP!SaveSchedules,
    Throttled!CursorAfter, TP!CursorAfter, Throttled!NoTick, TP!NoTick, Throttled!NoFault,
    TP!NoFault, Throttled!Fault, TP!Fault, Throttled!memory, TP!memory, Throttled!files, TP!files,
    Throttled!prompts, TP!prompts, Throttled!control, TP!control

LEMMA ThrottledRest ==
  /\ Throttled!Stop => TP!Stop
  /\ Throttled!Crash => TP!Crash
  /\ Throttled!SwitchMode => TP!SwitchMode
  /\ Throttled!Clock => TP!Clock
BY ThrottledSame
DEF Throttled!Stop, TP!Stop, Throttled!Crash, TP!Crash, Throttled!SwitchMode, TP!SwitchMode,
    Throttled!Clock, TP!Clock, Throttled!Punctual, TP!Punctual, Throttled!NoFault, TP!NoFault,
    Throttled!Fault, TP!Fault, Throttled!memory, TP!memory, Throttled!files, TP!files,
    Throttled!prompts, TP!prompts, Throttled!control, TP!control

LEMMA ThrottledRequests ==
  /\ \A p : Throttled!ServeLate(p) => TP!ServeLate(p)
  /\ \A x, s : Throttled!RunNow(x, s) => TP!RunNow(x, s)
BY DEF Throttled!ServeLate, TP!ServeLate, Throttled!RunNow, TP!RunNow, Throttled!ServerFree,
    TP!ServerFree, Throttled!NoFault, TP!NoFault, Throttled!Fault, TP!Fault, Throttled!AtRest,
    TP!AtRest, Throttled!NoTick, TP!NoTick, Throttled!memory, TP!memory, Throttled!files, TP!files,
    Throttled!prompts, TP!prompts, Throttled!control, TP!control

LEMMA ThrottledNext == Throttled!Next => TP!Next
<1> SUFFICES ASSUME Throttled!Next PROVE TP!Next
  OBVIOUS
<1>1. \A x : Throttled!Execute(x) => TP!Execute(x)
  BY ThrottledReserve, ThrottledPost, ThrottledRecord DEF Throttled!Execute, TP!Execute
<1>2. QED
  BY <1>1, ThrottledSame, ThrottledLoop, ThrottledCollect, ThrottledRest, ThrottledRequests
  DEF Throttled!Next, TP!Next

LEMMA ThrottledInit == Throttled!Init => TP!Init
BY ThrottledSame DEF Throttled!Init, TP!Init, Throttled!Key, TP!Key

LEMMA ThrottledAssumed == TP!RunnerAssumption
BY RunnerAssumption DEF RunnerAssumption, TP!RunnerAssumption

LEMMA ThrottledSteps ==
  ASSUME [SettingsNext]_<<vars, editingVars, setting>>, setting' = "throttled"
  PROVE  setting = "throttled" /\ [TP!Next]_TP!vars
<1>1. CASE UNCHANGED <<vars, editingVars, setting>>
  <2>1. UNCHANGED TP!vars
    BY <1>1 DEF vars, memory, files, prompts, control, TP!vars, TP!memory, TP!files, TP!prompts,
      TP!control
  <2>2. QED
    BY <1>1, <2>1
<1>2. CASE SettingsNext
  <2>1. setting = "throttled" /\ Throttled!Next
    BY <1>2 DEF SettingsNext
  <2>2. QED
    BY <2>1, ThrottledNext
<1>3. QED
  BY <1>1, <1>2

\* The three schedules, a minute of three periods and intervals of five: the longest
\* wait is shorter than a minute, and an interval longer than both.
LEMMA ThrottledTurns == TP!InTurn
<1>1. TP!IsFiniteSet({s1, s2, s3}) /\ TP!Cardinality({s1, s2, s3}) \in 1 .. 3
  <2>1. IsFiniteSet({s3}) /\ Cardinality({s3}) = 1
    BY FS_Singleton
  <2>2. IsFiniteSet({s2, s3}) /\ Cardinality({s2, s3}) \in 1 .. 2
    <3>1. {s3} \cup {s2} = {s2, s3}
      OBVIOUS
    <3>2. QED
      BY <2>1, <3>1, FS_AddElement
  <2>3. IsFiniteSet({s1, s2, s3}) /\ Cardinality({s1, s2, s3}) \in 1 .. 3
    <3>1. {s2, s3} \cup {s1} = {s1, s2, s3}
      OBVIOUS
    <3>2. QED
      BY <2>2, <3>1, FS_AddElement
  <2>4. QED
    BY <2>3 DEF TP!IsFiniteSet, IsFiniteSet, TP!Cardinality, Cardinality
<1>2. TP!LongestWait \in 0 .. 2
  BY <1>1 DEF TP!LongestWait
<1>3. TP!FiresAssumed
  BY <1>1 DEF TP!FiresAssumed
<1>4. QED
  BY <1>2, <1>3 DEF TP!InTurn

\* The cron schedule fires in every minute that its expression names, although a tick
\* runs one of three schedules (is_cron_due, _tick): they take turns, the oldest first.
THEOREM ThrottledRunsCron == SettingsSpec => []ThrottledCronFires
<1> DEFINE Inv  == TP!RunnerInv /\ TP!FiresInv /\ TP!TurnsInv
           IInv == setting = "throttled" => Inv
<1>1. TP!RunnerAssumption /\ TP!InTurn /\ TP!FiresAssumed
  BY ThrottledAssumed, ThrottledTurns DEF TP!InTurn
<1>2. SettingsInit => IInv
  <2>1. TP!Init => TP!RunnerInv
    BY <1>1, TP!BeginsWell
  <2>2. TP!Init => TP!FiresInv
    BY <1>1, TP!FiresBegins
  <2>3. TP!Init => TP!TurnsInv
    BY <1>1, TP!TurnBegins DEF TP!TurnsInv
  <2>4. QED
    BY <2>1, <2>2, <2>3, ThrottledInit DEF SettingsInit
<1>3. IInv /\ [SettingsNext]_<<vars, editingVars, setting>> => IInv'
  <2> SUFFICES ASSUME IInv, [SettingsNext]_<<vars, editingVars, setting>>, setting' = "throttled"
               PROVE  Inv'
    OBVIOUS
  <2>1. setting = "throttled" /\ [TP!Next]_TP!vars
    BY ThrottledSteps
  <2>2. TP!RunnerInv /\ TP!FiresInv /\ TP!TurnsInv
    BY <2>1
  <2>3. TP!RunnerInv'
    BY <1>1, <2>1, <2>2, TP!StepHolds
  <2>4. faultsLeft = 0 /\ TP!Punctual => TP!AllRan
    BY <1>1, <2>2, TP!RunsInTurn DEF TP!FiresInv, TP!TurnsInv
  <2>5. TP!FiresInv'
    BY <1>1, <2>1, <2>2, <2>4, TP!FiresHolds
  <2>6. TP!TurnsInv'
    BY <1>1, <2>1, <2>2, <2>3, TP!TurnHolds
  <2>7. QED
    BY <2>3, <2>5, <2>6
<1>4. IInv => ThrottledCronFires
  BY ThrottledSame
  DEF ThrottledCronFires, Throttled!CronFires, Throttled!CronNames, TP!CronNames, TP!FiresInv,
      TP!Flawless, TP!Fired, TP!HasPrompt
<1>5. QED
  BY <1>2, <1>3, <1>4, PTL DEF SettingsSpec

-----------------------------------------------------------------------------
(* Restarts of the process, next to run-now requests, in the same way.     *)

RP == INSTANCE SchedulerRunnerProofs WITH
  Schedules <- {s2}, Cron <- {}, CronMinutes <- {}, Loop <- {l1, l2}, Manual <- {server},
  CRONITER <- FALSE, SKIP_MISSED <- TRUE, MaxFaults <- 2, MaxTime <- 4,
  Faults <- {"crash", "stop", "slow", "post", "save"}

LEMMA RestartsSame ==
  /\ Restarts!Thread = RP!Thread /\ Restarts!AtRest = RP!AtRest
  /\ Restarts!Dead = RP!Dead /\ Restarts!NoTick = RP!NoTick
  /\ \A x : Restarts!KeyOf(x) = RP!KeyOf(x)
  /\ \A t : Restarts!MinuteOf(t) = RP!MinuteOf(t)
BY DEF Restarts!Thread, RP!Thread, Restarts!AtRest, RP!AtRest, Restarts!Dead, RP!Dead,
    Restarts!NoTick, RP!NoTick, Restarts!KeyOf, RP!KeyOf, Restarts!MinuteOf, RP!MinuteOf

LEMMA RestartsCardinality ==
  \A S : Restarts!Cardinality(S) = Cardinality(S) /\ RP!Cardinality(S) = Cardinality(S)
BY DEF Restarts!Cardinality, RP!Cardinality, Cardinality

LEMMA RestartsPrompt ==
  ASSUME NEW x
  PROVE  Restarts!NewPrompt(x) = RP!NewPrompt(x)
<1> DEFINE new(k) ==
             [key |-> k, from |-> thread[x].job.from,
              by |-> IF x \in {l1, l2} THEN "loop" ELSE "manual",
              copy |-> 1 + Cardinality({p \in queued \cup late : p.key = k})]
<1>1. Restarts!NewPrompt(x) = new(Restarts!KeyOf(x)) /\ RP!NewPrompt(x) = new(RP!KeyOf(x))
  BY RestartsCardinality DEF Restarts!NewPrompt, RP!NewPrompt
<1> HIDE DEF new
<1>2. QED
  BY <1>1, RestartsSame

LEMMA RestartsDue ==
  /\ Restarts!DueNow = RP!DueNow /\ Restarts!Chosen = RP!Chosen
  /\ \A s : Restarts!Evaluated(s) = RP!Evaluated(s)
<1>1. \A s : (Restarts!Raises(s) <=> RP!Raises(s)) /\ (Restarts!Due(s) <=> RP!Due(s))
  BY DEF Restarts!Raises, RP!Raises, Restarts!Due, RP!Due, Restarts!CronRaises, RP!CronRaises,
      Restarts!IntervalDue, RP!IntervalDue, Restarts!CroniterDue, RP!CroniterDue,
      Restarts!BasicCronDue, RP!BasicCronDue, Restarts!CronNames, RP!CronNames,
      Restarts!MinuteOf, RP!MinuteOf, Restarts!NoTick, RP!NoTick
<1>2. Restarts!DueNow = RP!DueNow
  BY <1>1 DEF Restarts!DueNow, RP!DueNow
<1>3. Restarts!Chosen = RP!Chosen
  <2> DEFINE most(D) ==
               {C \in SUBSET D :
                  /\ Cardinality(C) = IF Cardinality(D) > MAX_RUNS_PER_TICK
                                        THEN MAX_RUNS_PER_TICK ELSE Cardinality(D)
                  /\ \A s \in C, u \in D \ C : schedules[s].cursor <= schedules[u].cursor}
  <2>1. Restarts!Chosen = most(Restarts!DueNow) /\ RP!Chosen = most(RP!DueNow)
    BY RestartsCardinality DEF Restarts!Chosen, RP!Chosen
  <2> HIDE DEF most
  <2>2. QED
    BY <1>2, <2>1
<1>4. ASSUME NEW s PROVE Restarts!Evaluated(s) = RP!Evaluated(s)
  BY <1>1, Zenon DEF Restarts!Evaluated, RP!Evaluated
<1>5. QED
  BY <1>2, <1>3, <1>4

LEMMA RestartsLoop ==
  ASSUME NEW l
  PROVE  /\ Restarts!Start(l) => RP!Start(l)
         /\ Restarts!LoopEnds(l) => RP!LoopEnds(l)
         /\ Restarts!Boot(l) => RP!Boot(l)
BY RestartsSame, RestartsDue
DEF Restarts!Start, RP!Start, Restarts!LoopEnds, RP!LoopEnds, Restarts!Boot, RP!Boot,
    Restarts!SaveSchedules, RP!SaveSchedules, Restarts!NoFault, RP!NoFault, Restarts!Fault,
    RP!Fault, Restarts!CursorSkipped, RP!CursorSkipped, Restarts!NoTick, RP!NoTick,
    Restarts!memory, RP!memory, Restarts!files, RP!files, Restarts!prompts, RP!prompts,
    Restarts!control, RP!control

LEMMA RestartsCollect ==
  ASSUME NEW l
  PROVE  Restarts!Collect(l) => RP!Collect(l)
BY RestartsSame, RestartsDue
DEF Restarts!Collect, RP!Collect, Restarts!SaveSchedules, RP!SaveSchedules, Restarts!NoFault,
    RP!NoFault, Restarts!Fault, RP!Fault, Restarts!memory, RP!memory, Restarts!files, RP!files,
    Restarts!prompts, RP!prompts, Restarts!control, RP!control

LEMMA RestartsReserve ==
  ASSUME NEW x
  PROVE  /\ Restarts!Pick(x) => RP!Pick(x)
         /\ Restarts!CheckHistory(x) => RP!CheckHistory(x)
         /\ Restarts!Reserve(x) => RP!Reserve(x)
         /\ Restarts!Note(x) => RP!Note(x)
BY DEF Restarts!Pick, RP!Pick, Restarts!CheckHistory, RP!CheckHistory, Restarts!Reserve, RP!Reserve,
    Restarts!Note, RP!Note, Restarts!AtRest, RP!AtRest, Restarts!GoTo, RP!GoTo, Restarts!KeyOf,
    RP!KeyOf, Restarts!MinuteOf, RP!MinuteOf, Restarts!NoFault, RP!NoFault, Restarts!Fault,
    RP!Fault, Restarts!memory, RP!memory, Restarts!files, RP!files, Restarts!prompts, RP!prompts,
    Restarts!control, RP!control

LEMMA RestartsPost ==
  ASSUME NEW x
  PROVE  /\ Restarts!Post(x) => RP!Post(x)
         /\ Restarts!GiveUp(x) => RP!GiveUp(x)
BY RestartsPrompt
DEF Restarts!Post, RP!Post, Restarts!GiveUp, RP!GiveUp, Restarts!GoTo, RP!GoTo,
    Restarts!ServerFree, RP!ServerFree, Restarts!NoFault, RP!NoFault, Restarts!Fault, RP!Fault,
    Restarts!memory, RP!memory, Restarts!files, RP!files, Restarts!prompts, RP!prompts,
    Restarts!control, RP!control

LEMMA RestartsRecord ==
  ASSUME NEW x
  PROVE  /\ Restarts!RecordIntent(x) => RP!RecordIntent(x)
         /\ Restarts!MoveCursor(x) => RP!MoveCursor(x)
         /\ Restarts!RecordRun(x) => RP!RecordRun(x)
BY DEF Restarts!RecordIntent, RP!RecordIntent, Restarts!MoveCursor, RP!MoveCursor,
    Restarts!RecordRun, RP!RecordRun, Restarts!GoTo, RP!GoTo, Restarts!KeyOf, RP!KeyOf,
    Restarts!MinuteOf, RP!MinuteOf, Restarts!SaveSchedules, RP!SaveSchedules,
    Restarts!CursorAfter, RP!CursorAfter, Restarts!NoTick, RP!NoTick, Restarts!NoFault,
    RP!NoFault, Restarts!Fault, RP!Fault, Restarts!memory, RP!memory, Restarts!files, RP!files,
    Restarts!prompts, RP!prompts, Restarts!control, RP!control

LEMMA RestartsRest ==
  /\ Restarts!Stop => RP!Stop
  /\ Restarts!Crash => RP!Crash
  /\ Restarts!SwitchMode => RP!SwitchMode
  /\ Restarts!Clock => RP!Clock
BY RestartsSame
DEF Restarts!Stop, RP!Stop, Restarts!Crash, RP!Crash, Restarts!SwitchMode, RP!SwitchMode,
    Restarts!Clock, RP!Clock, Restarts!Punctual, RP!Punctual, Restarts!NoFault, RP!NoFault,
    Restarts!Fault, RP!Fault, Restarts!memory, RP!memory, Restarts!files, RP!files,
    Restarts!prompts, RP!prompts, Restarts!control, RP!control

LEMMA RestartsRequests ==
  /\ \A p : Restarts!ServeLate(p) => RP!ServeLate(p)
  /\ \A x, s : Restarts!RunNow(x, s) => RP!RunNow(x, s)
BY DEF Restarts!ServeLate, RP!ServeLate, Restarts!RunNow, RP!RunNow, Restarts!ServerFree,
    RP!ServerFree, Restarts!NoFault, RP!NoFault, Restarts!Fault, RP!Fault, Restarts!AtRest,
    RP!AtRest, Restarts!NoTick, RP!NoTick, Restarts!memory, RP!memory, Restarts!files, RP!files,
    Restarts!prompts, RP!prompts, Restarts!control, RP!control

LEMMA RestartsNext == Restarts!Next => RP!Next
<1> SUFFICES ASSUME Restarts!Next PROVE RP!Next
  OBVIOUS
<1>1. \A x : Restarts!Execute(x) => RP!Execute(x)
  BY RestartsReserve, RestartsPost, RestartsRecord DEF Restarts!Execute, RP!Execute
<1>2. QED
  BY <1>1, RestartsSame, RestartsLoop, RestartsCollect, RestartsRest, RestartsRequests
  DEF Restarts!Next, RP!Next

LEMMA RestartsInit == Restarts!Init => RP!Init
BY RestartsSame DEF Restarts!Init, RP!Init, Restarts!Key, RP!Key

LEMMA RestartsAssumed == server \notin {l1, l2} => RP!RunnerAssumption
BY RunnerAssumption DEF RunnerAssumption, RP!RunnerAssumption

LEMMA RestartsSteps ==
  ASSUME [SettingsNext]_<<vars, editingVars, setting>>, setting' = "restarts"
  PROVE  setting = "restarts" /\ [RP!Next]_RP!vars
<1>1. CASE UNCHANGED <<vars, editingVars, setting>>
  <2>1. UNCHANGED RP!vars
    BY <1>1 DEF vars, memory, files, prompts, control, RP!vars, RP!memory, RP!files, RP!prompts,
      RP!control
  <2>2. QED
    BY <1>1, <2>1
<1>2. CASE SettingsNext
  <2>1. setting = "restarts" /\ Restarts!Next
    BY <1>2 DEF SettingsNext
  <2>2. QED
    BY <2>1, RestartsNext
<1>3. QED
  BY <1>1, <1>2

LEMMA RestartsTyped == RP!TypeOK => Restarts!TypeOK
BY RestartsSame
DEF Restarts!TypeOK, RP!TypeOK, Restarts!Time, RP!Time, Restarts!Cursor, RP!Cursor, Restarts!Key,
    RP!Key, Restarts!Prompt, RP!Prompt, Restarts!Positions, RP!Positions, Restarts!Work, RP!Work

\* The state is well formed in the settings of restarts and of editing, through crashes
\* and every failure of a file or a post, and never more schedules than the limit.
THEOREM RestartsWellFormed ==
  ASSUME server \notin {l1, l2}
  PROVE  SettingsSpec => []RestartsTypeOK
<1> DEFINE IInv == EditingInv /\ Room /\ (setting = "restarts" => RP!RunnerInv)
<1>1. RP!RunnerAssumption
  BY RestartsAssumed
<1>2. SettingsInit => IInv
  BY <1>1, EditingBegins, RoomBegins, RestartsInit, RP!BeginsWell DEF SettingsInit
<1>3. IInv /\ [SettingsNext]_<<vars, editingVars, setting>> => IInv'
  <2> SUFFICES ASSUME IInv, [SettingsNext]_<<vars, editingVars, setting>> PROVE IInv'
    OBVIOUS
  <2>1. [EditingNext]_editingVars
    BY DEF SettingsNext
  <2>2. EditingInv' /\ Room'
    BY <2>1, EditingHolds, RoomHolds
  <2>3. setting' = "restarts" => RP!RunnerInv'
    BY <1>1, RestartsSteps, RP!StepHolds
  <2>4. QED
    BY <2>2, <2>3
<1>4. IInv => RestartsTypeOK
  <2>1. EditingInv /\ Room => EditingTypeOK
    BY DEF EditingInv, EditingTyped, EditingTypeOK, Room, Stored, Idle
  <2>2. RP!RunnerInv => Restarts!TypeOK
    BY <1>1, RP!WellFormed, RestartsTyped
  <2>3. QED
    BY <2>1, <2>2 DEF RestartsTypeOK
<1>5. QED
  BY <1>2, <1>3, <1>4, PTL DEF SettingsSpec

\* No idempotency key is queued twice, in any of the settings (compute_idempotency_key,
\* check_and_record).
THEOREM SettingsQueueOnce ==
  ASSUME {l1, l2} \cap (Manual \cup {server}) = {}
  PROVE  SettingsSpec => []KeyOnce
<1> DEFINE IInv == /\ setting \in {"loop", "editing"} => RunnerInv
                   /\ setting = "handover" => HP!RunnerInv
                   /\ setting = "restarts" => RP!RunnerInv
                   /\ setting = "throttled" => TP!RunnerInv
                   /\ setting \in {"loop", "editing", "handover", "restarts", "throttled"}
<1>1. HP!RunnerAssumption /\ RP!RunnerAssumption /\ TP!RunnerAssumption
  BY HandoverAssumed, RestartsAssumed, ThrottledAssumed
<1>2. SettingsInit => IInv
  BY <1>1, BeginsWell, HandoverInit, HP!BeginsWell, RestartsInit, RP!BeginsWell, ThrottledInit,
    TP!BeginsWell
  DEF SettingsInit
<1>3. IInv /\ [SettingsNext]_<<vars, editingVars, setting>> => IInv'
  <2> SUFFICES ASSUME IInv, [SettingsNext]_<<vars, editingVars, setting>> PROVE IInv'
    OBVIOUS
  <2>1. setting' = setting
    BY DEF SettingsNext
  <2>2. CASE setting \in {"loop", "editing"}
    <3>1. [Next]_vars
      BY <2>2 DEF SettingsNext
    <3>2. QED
      BY <2>1, <2>2, <3>1, StepHolds
  <2>3. CASE setting = "handover"
    BY <1>1, <2>1, <2>3, HandoverSteps, HP!StepHolds
  <2>4. CASE setting = "restarts"
    BY <1>1, <2>1, <2>4, RestartsSteps, RP!StepHolds
  <2>5. CASE setting = "throttled"
    BY <1>1, <2>1, <2>5, ThrottledSteps, TP!StepHolds
  <2>6. QED
    BY <2>2, <2>3, <2>4, <2>5
<1>4. IInv => KeyOnce
  BY DEF RunnerInv, HP!RunnerInv, RP!RunnerInv, TP!RunnerInv, KeyOnce, HP!KeyOnce,
    RP!KeyOnce, TP!KeyOnce
<1>5. QED
  BY <1>2, <1>3, <1>4, PTL DEF SettingsSpec
=============================================================================
