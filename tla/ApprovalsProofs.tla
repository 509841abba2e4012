--------------------------- MODULE ApprovalsProofs ---------------------------
(***************************************************************************)
(* The approval workflow for any set of requests, any capacity and any     *)
(* faults: decisions that were confirmed stand, a request is executed at   *)
(* most once and never after a rejection, and the whole workflow, with its *)
(* copies and its faults, is a register of decisions (DecisionRegister).   *)
(*                                                                         *)
(* The inductive invariant says of the dictionary and of the file alike    *)
(* what no copy may contradict (Faithful); whichever copy a handler finds  *)
(* after a restart, a failed save or a damaged file then agrees with what  *)
(* the callers were told and what was executed.                            *)
(***************************************************************************)
EXTENDS Approvals, TLAPS

\* The request is on its way, executed, or confirmed as approved.
Taken(r) == work[r] # "idle" \/ queued[r] > 0 \/ told[r] = "approved"

\* What a copy m of the store may say of the request r.
Fits(m, r) ==
  /\ m[r].status # "absent" => r \in issued
  /\ Taken(r) => m[r].status \in {"approved", "absent"}
  /\ told[r] = "rejected" => m[r].status \in {"rejected", "absent"}
  /\ m[r].prompt => queued[r] = 1

Faithful(m) == m \in [Requests -> Request] /\ \A r \in Requests : Fits(m, r)

\* How far the request r has come.
Course(r) ==
  /\ Taken(r) \/ told[r] = "rejected" => r \in issued
  /\ queued[r] <= 1
  /\ work[r] = "submit" => queued[r] = 0
  /\ work[r] = "record" => queued[r] = 1
  /\ told[r] = "rejected" => queued[r] = 0 /\ work[r] = "idle"
  /\ watch[r] = "tracking" => queued[r] = 1

IInv ==
  /\ TypeOK
  /\ Faithful(approvals) /\ Faithful(disk)
  /\ \A r \in Requests : Course(r)

callers == <<issued, work, queued, told, watch>>

-----------------------------------------------------------------------------
(* The copies of the store.                                                *)

\* The records a copy is made of are well formed.
LEMMA Records ==
  /\ Absent \in Request /\ New \in Request
  /\ Absent.status = "absent" /\ ~ Absent.prompt
  /\ New.status = "pending" /\ ~ New.prompt
BY ApprovalsAssumption DEF Absent, New, Request, Status, Decided

\* The empty store contradicts nothing.
LEMMA EmptyFaithful == Faithful(Empty)
BY Records DEF Faithful, Empty, Fits

\* Whatever _ensure_loaded finds is faithful.
LEMMA ViewFaithful == ASSUME IInv, NEW cur \in Views PROVE Faithful(cur)
BY EmptyFaithful DEF IInv, Views

\* Setting the status of a request that nothing was decided about yet.
LEMMA MarkFaithful ==
  ASSUME NEW cur, Faithful(cur), NEW r \in Requests, NEW s \in Decided, Pending(cur, r)
  PROVE  Faithful(Mark(cur, r, s)) /\ ~ Taken(r) /\ told[r] # "rejected" /\ r \in issued
<1> DEFINE m == Mark(cur, r, s)
<1>1. /\ cur \in [Requests -> Request] /\ cur[r].status = "pending"
      /\ Fits(cur, r)
  BY DEF Faithful, Pending
<1>2. ~ Taken(r) /\ told[r] # "rejected" /\ r \in issued
  BY <1>1 DEF Fits
<1>3. m[r] = [cur[r] EXCEPT !.status = s]
  BY <1>1 DEF Mark, Request
<1>4. m \in [Requests -> Request]
  BY <1>1, <1>3 DEF Mark, Request, Status
<1>5. Fits(m, r)
  BY <1>1, <1>2, <1>3 DEF Fits, Request
<1>6. \A q \in Requests \ {r} : m[q] = cur[q]
  BY <1>1 DEF Mark
<1>7. \A q \in Requests : Fits(m, q)
  BY <1>5, <1>6 DEF Faithful, Fits
<1> QED
  BY <1>2, <1>4, <1>7 DEF Faithful

\* Making room drops records and changes none.
LEMMA RoomFaithful ==
  ASSUME NEW cur, Faithful(cur), NEW m \in WithRoom(cur)
  PROVE  Faithful(m)
<1>1. /\ m \in [Requests -> Request]
      /\ \A r \in Requests : m[r] \in {Absent, cur[r]}
  BY Records DEF WithRoom, Cleaned, Faithful
<1> QED
  BY <1>1, Records DEF Faithful, Fits

-----------------------------------------------------------------------------
(* Every step keeps the invariant.                                         *)

\* A handler that changes the store to a faithful copy, saved or not, and
\* nothing else.
LEMMA StoreStep ==
  ASSUME IInv, NEW m, Faithful(m), UNCHANGED callers,
         approvals' = m, loaded' = TRUE, disk' \in {disk, m}
  PROVE  IInv'
<1>1. Faithful(approvals)' /\ Faithful(disk)'
  BY DEF IInv, Faithful, Fits, Taken, callers
<1>2. TypeOK'
  BY <1>1 DEF IInv, TypeOK, Faithful, callers
<1>3. \A r \in Requests : Course(r)'
  BY DEF IInv, Course, Taken, callers
<1> QED
  BY <1>1, <1>2, <1>3 DEF IInv

\* Creating a request: the id is new, so no copy and no caller knows it.
LEMMA CreateStep == ASSUME IInv, NEW r \in Requests, Create(r) PROVE IInv'
<1>1. PICK cur \in Views : \E m \in WithRoom(cur), ok \in SaveResults :
        LET room == Cardinality(Present(m)) < MAX_APPROVALS
        IN  /\ IF room THEN Commit([m EXCEPT ![r] = New], ok) ELSE Keep(m)
            /\ watch' \in {watch} \cup (IF room /\ ok THEN {[watch EXCEPT ![r] = "polling"]} ELSE {})
  BY DEF Create
<1>2. PICK m \in WithRoom(cur) :
        /\ \/ approvals' = [m EXCEPT ![r] = New]
           \/ approvals' = m
        /\ disk' \in {disk, approvals'} /\ loaded' = TRUE
        /\ watch' \in {watch, [watch EXCEPT ![r] = "polling"]}
  BY <1>1 DEF Commit, Keep
<1>3. Faithful(m)
  BY <1>2, ViewFaithful, RoomFaithful
<1>4. /\ issued' = issued \cup {r} /\ r \notin issued
      /\ UNCHANGED <<work, queued, told>>
  BY DEF Create
<1>5. ~ Taken(r) /\ told[r] # "rejected"
  BY <1>4 DEF IInv, Course
<1>6. \A q \in Requests : Taken(q)' = Taken(q)
  BY <1>4 DEF Taken
<1>7. approvals' \in [Requests -> Request] /\ \A q \in Requests : Fits(approvals, q)'
  <2>1. CASE approvals' = m
    BY <1>3, <1>4, <1>6, <2>1 DEF Faithful, Fits
  <2>2. CASE approvals' = [m EXCEPT ![r] = New]
    <3>1. approvals' \in [Requests -> Request] /\ approvals'[r] = New
      BY <1>3, <2>2, Records DEF Faithful
    <3>2. Fits(approvals, r)'
      BY <1>4, <1>5, <1>6, <3>1, Records DEF Fits
    <3>3. ASSUME NEW q \in Requests \ {r} PROVE Fits(approvals, q)'
      <4>1. approvals'[q] = m[q]
        BY <1>3, <2>2 DEF Faithful
      <4> QED
        BY <1>3, <1>4, <1>6, <4>1 DEF Faithful, Fits
    <3> QED
      BY <3>1, <3>2, <3>3
  <2> QED
    BY <1>2, <2>1, <2>2
<1>8. Faithful(disk)' /\ Faithful(approvals)'
  BY <1>2, <1>4, <1>6, <1>7 DEF IInv, Faithful, Fits
<1>9. TypeOK'
  BY <1>2, <1>4, <1>8 DEF IInv, TypeOK, Faithful
<1>10. \A q \in Requests : Course(q)'
  BY <1>2, <1>4, <1>6 DEF IInv, Course, TypeOK
<1> QED
  BY <1>8, <1>9, <1>10 DEF IInv

\* Approving: a pending request is neither taken nor refused; a save that
\* succeeds makes the file agree before the approval is put on its way.
LEMMA GrantStep == ASSUME IInv, NEW r \in Requests, Grant(r) PROVE IInv'
<1>1. PICK cur \in Views, ok \in SaveResults :
        /\ Pending(cur, r)
        /\ Commit(Mark(cur, r, "approved"), ok)
        /\ \/ ok /\ work' = [work EXCEPT ![r] = "submit"] /\ UNCHANGED told
           \/ ok /\ told' = [told EXCEPT ![r] = "approved"] /\ UNCHANGED work
           \/ ~ ok /\ UNCHANGED <<work, told>>
  BY DEF Grant
<1> DEFINE m == Mark(cur, r, "approved")
<1>2. UNCHANGED <<issued, queued, watch>>
  BY DEF Grant
<1>3. Faithful(cur)
  BY ViewFaithful
<1>4. Faithful(m) /\ ~ Taken(r) /\ told[r] # "rejected" /\ r \in issued
  BY <1>1, <1>3, MarkFaithful DEF Decided
<1>5. approvals' = m /\ loaded' = TRUE /\ disk' = IF ok THEN m ELSE disk
  BY <1>1 DEF Commit
<1>6. CASE ~ ok
  BY <1>1, <1>2, <1>4, <1>5, <1>6, StoreStep DEF callers
<1>7. CASE ok
  <2>1. disk' = m /\ approvals' = m
    BY <1>5, <1>7
  <2>2. \/ work' = [work EXCEPT ![r] = "submit"] /\ told' = told
        \/ told' = [told EXCEPT ![r] = "approved"] /\ work' = work
    BY <1>1, <1>7
  <2>3. work[r] = "idle" /\ queued[r] = 0 /\ told[r] = "nothing"
    BY <1>4 DEF Taken, IInv, TypeOK
  <2>4. \A q \in Requests \ {r} : work'[q] = work[q] /\ told'[q] = told[q]
    BY <2>2 DEF IInv, TypeOK
  <2>5. told'[r] # "rejected"
    BY <2>2, <2>3 DEF IInv, TypeOK
  <2>6. m[r].status = "approved"
    BY <1>1, <1>3 DEF Mark, Faithful, Request
  <2>7. \A q \in Requests : Fits(m, q)'
    <3>1. Fits(m, r)'
      BY <1>2, <1>4, <2>1, <2>5, <2>6 DEF Faithful, Fits
    <3>2. ASSUME NEW q \in Requests \ {r} PROVE Fits(m, q)'
      BY <1>2, <1>4, <2>1, <2>4 DEF Faithful, Fits, Taken
    <3> QED
      BY <3>1, <3>2
  <2>8. Faithful(approvals)' /\ Faithful(disk)'
    BY <1>4, <2>1, <2>7 DEF Faithful
  <2>9. TypeOK'
    BY <1>2, <1>5, <2>2, <2>8 DEF IInv, TypeOK, Faithful
  <2>10. \A q \in Requests : Course(q)'
    <3>1. Course(r)'
      BY <1>2, <1>4, <2>2, <2>3, <2>5 DEF IInv, TypeOK, Course, Taken
    <3>2. ASSUME NEW q \in Requests \ {r} PROVE Course(q)'
      BY <1>2, <2>4 DEF IInv, Course, Taken
    <3> QED
      BY <3>1, <3>2
  <2> QED
    BY <2>8, <2>9, <2>10 DEF IInv
<1> QED
  BY <1>6, <1>7

\* Rejecting: as approving, but nothing is put on its way.
LEMMA RejectStep == ASSUME IInv, NEW r \in Requests, Reject(r) PROVE IInv'
<1>1. PICK cur \in Views, ok \in SaveResults :
        /\ Pending(cur, r)
        /\ Commit(Mark(cur, r, "rejected"), ok)
        /\ told' = IF ok THEN [told EXCEPT ![r] = "rejected"] ELSE told
  BY DEF Reject
<1> DEFINE m == Mark(cur, r, "rejected")
<1>2. UNCHANGED <<issued, work, queued, watch>>
  BY DEF Reject
<1>3. Faithful(cur)
  BY ViewFaithful
<1>4. Faithful(m) /\ ~ Taken(r) /\ r \in issued
  BY <1>1, <1>3, MarkFaithful DEF Decided
<1>5. approvals' = m /\ loaded' = TRUE /\ disk' = IF ok THEN m ELSE disk
  BY <1>1 DEF Commit
<1>6. CASE ~ ok
  BY <1>1, <1>2, <1>4, <1>5, <1>6, StoreStep DEF callers
<1>7. CASE ok
  <2>1. disk' = m /\ approvals' = m /\ told' = [told EXCEPT ![r] = "rejected"]
    BY <1>1, <1>5, <1>7
  <2>2. work[r] = "idle" /\ queued[r] = 0 /\ told'[r] = "rejected"
    BY <1>4, <2>1 DEF Taken, IInv, TypeOK
  <2>3. m[r].status = "rejected"
    BY <1>1, <1>3 DEF Mark, Faithful, Request
  <2>4. \A q \in Requests \ {r} : told'[q] = told[q]
    BY <2>1 DEF IInv, TypeOK
  <2>5. \A q \in Requests : Fits(m, q)'
    <3>1. Fits(m, r)'
      BY <1>2, <1>4, <2>1, <2>2, <2>3 DEF Faithful, Fits, Taken
    <3>2. ASSUME NEW q \in Requests \ {r} PROVE Fits(m, q)'
      BY <1>2, <1>4, <2>1, <2>4 DEF Faithful, Fits, Taken
    <3> QED
      BY <3>1, <3>2
  <2>6. Faithful(approvals)' /\ Faithful(disk)'
    BY <1>4, <2>1, <2>5 DEF Faithful
  <2>7. TypeOK'
    BY <1>2, <1>5, <2>1, <2>6 DEF IInv, TypeOK, Faithful
  <2>8. \A q \in Requests : Course(q)'
    <3>1. Course(r)'
      BY <1>2, <1>4, <2>2 DEF IInv, Course, Taken
    <3>2. ASSUME NEW q \in Requests \ {r} PROVE Course(q)'
      BY <1>2, <2>4 DEF IInv, Course, Taken
    <3> QED
      BY <3>1, <3>2
  <2> QED
    BY <2>6, <2>7, <2>8 DEF IInv
<1> QED
  BY <1>6, <1>7

\* The handlers that change only the store: a late approval, a listing and
\* whatever merely loads the file.
LEMMA GrantLateStep == ASSUME IInv, NEW r \in Requests, GrantLate(r) PROVE IInv'
<1>1. PICK cur \in Views, ok \in SaveResults :
        Pending(cur, r) /\ Commit(Mark(cur, r, "expired"), ok)
  BY DEF GrantLate
<1>2. Faithful(Mark(cur, r, "expired"))
  BY <1>1, ViewFaithful, MarkFaithful DEF Decided
<1> QED
  BY <1>1, <1>2, StoreStep DEF GrantLate, Commit, callers

LEMMA LookStep == ASSUME IInv, Look PROVE IInv'
BY ViewFaithful, StoreStep DEF Look, Keep, callers

LEMMA ListStep == ASSUME IInv, List PROVE IInv'
<1> DEFINE due(cur) == {r \in Requests : Pending(cur, r) /\ Expired(cur, r)}
           m(cur) == [r \in Requests |->
                        IF r \in due(cur) THEN [cur[r] EXCEPT !.status = "expired"] ELSE cur[r]]
<1>1. PICK cur \in Views, ok \in SaveResults :
        IF due(cur) = {} THEN Keep(cur) ELSE Commit(m(cur), ok)
  BY DEF List
<1>2. Faithful(cur)
  BY ViewFaithful
<1>3. Faithful(m(cur))
  <2>1. SUFFICES ASSUME NEW r \in Requests
                 PROVE  m(cur)[r] \in Request /\ Fits(m(cur), r)
    BY DEF Faithful
  <2>2. CASE r \in due(cur)
    <3>1. m(cur)[r] = [cur[r] EXCEPT !.status = "expired"] /\ Pending(cur, r)
      BY <2>2
    <3> HIDE DEF m, due
    <3>2. Faithful(Mark(cur, r, "expired")) /\ m(cur)[r] = Mark(cur, r, "expired")[r]
      BY <1>2, <3>1, MarkFaithful DEF Decided, Mark, Faithful, Request
    <3> QED
      BY <3>2 DEF Faithful, Fits
  <2>3. CASE r \notin due(cur)
    <3>1. m(cur)[r] = cur[r]
      BY <2>3
    <3> HIDE DEF m, due
    <3> QED
      BY <1>2, <3>1 DEF Faithful, Fits
  <2> QED
    BY <2>2, <2>3
<1> HIDE DEF m, due
<1> QED
  BY <1>1, <1>2, <1>3, StoreStep DEF List, Keep, Commit, callers

\* What happens to one request while the copies stay: r moves on, the others
\* do not, and what the copies say of r still fits.
LEMMA CourseStep ==
  ASSUME IInv, NEW r \in Requests, TypeOK', UNCHANGED <<store, issued>>,
         \A q \in Requests \ {r} : /\ work'[q] = work[q] /\ queued'[q] = queued[q]
                                   /\ told'[q] = told[q] /\ watch'[q] = watch[q],
         Course(r)', Fits(approvals, r)', Fits(disk, r)'
  PROVE  IInv'
<1>1. \A q \in Requests : Fits(approvals, q)' /\ Fits(disk, q)'
  <2>1. ASSUME NEW q \in Requests \ {r} PROVE Fits(approvals, q)' /\ Fits(disk, q)'
    BY DEF IInv, Faithful, Fits, Taken, store
  <2> QED
    BY <2>1
<1>2. \A q \in Requests : Course(q)'
  <2>1. ASSUME NEW q \in Requests \ {r} PROVE Course(q)'
    BY DEF IInv, Course, Taken, store
  <2> QED
    BY <2>1
<1>3. Faithful(approvals)' /\ Faithful(disk)'
  BY <1>1 DEF Faithful, IInv, store
<1> QED
  BY <1>2, <1>3 DEF IInv

\* The submission: only an approval that was never queued is under way.
LEMMA SubmitStep == ASSUME IInv, NEW r \in Requests, Submit(r) PROVE IInv'
<1>1. /\ work[r] = "submit" /\ queued[r] = 0 /\ told[r] # "rejected" /\ r \in issued
      /\ watch[r] # "tracking" /\ Taken(r)
  BY DEF Submit, IInv, Course, Taken
<1>2. /\ UNCHANGED <<store, issued, watch>>
      /\ queued' \in {queued, [queued EXCEPT ![r] = @ + 1]}
      /\ \/ /\ work' = [work EXCEPT ![r] = "record"] /\ told' = told
            /\ queued' = [queued EXCEPT ![r] = @ + 1]
         \/ /\ work' = [work EXCEPT ![r] = "idle"] /\ told' = [told EXCEPT ![r] = "approved"]
  BY DEF Submit, Answer
<1>3. \A q \in Requests \ {r} : /\ work'[q] = work[q] /\ queued'[q] = queued[q]
                                /\ told'[q] = told[q] /\ watch'[q] = watch[q]
  BY <1>2 DEF IInv, TypeOK
<1>4. /\ queued'[r] \in {0, 1} /\ told'[r] # "rejected" /\ watch'[r] # "tracking"
      /\ \/ work'[r] = "record" /\ queued'[r] = 1
         \/ work'[r] = "idle" /\ told'[r] = "approved"
  BY <1>1, <1>2 DEF IInv, TypeOK
<1>5. TypeOK'
  BY <1>2 DEF IInv, TypeOK, store
<1>6. Course(r)'
  BY <1>1, <1>2, <1>4 DEF Course
<1>7. Fits(approvals, r)' /\ Fits(disk, r)'
  BY <1>1, <1>2, <1>4 DEF IInv, Faithful, Fits, store
<1> QED
  BY <1>2, <1>3, <1>5, <1>6, <1>7, CourseStep

\* Recording the execution: the prompt was queued, so the note may be written
\* into whatever copy is found.
LEMMA RecordExecutionStep == ASSUME IInv, NEW r \in Requests, RecordExecution(r) PROVE IInv'
<1>1. PICK cur \in Views, ok \in SaveResults :
        IF cur[r].status = "absent" THEN Keep(cur)
                                    ELSE Commit([cur EXCEPT ![r].prompt = TRUE], ok)
  BY DEF RecordExecution
<1> DEFINE m == IF cur[r].status = "absent" THEN cur ELSE [cur EXCEPT ![r].prompt = TRUE]
<1>2. /\ approvals' = m /\ disk' \in {disk, m} /\ loaded' = TRUE
  BY <1>1 DEF Keep, Commit
<1>3. /\ work' = [work EXCEPT ![r] = "idle"] /\ told' = [told EXCEPT ![r] = "approved"]
      /\ UNCHANGED <<issued, queued, watch>>
  BY DEF RecordExecution, Answer
<1>4. /\ work[r] = "record" /\ queued[r] = 1 /\ r \in issued /\ told[r] # "rejected"
  BY DEF RecordExecution, IInv, Course, Taken
<1>5. Faithful(cur)
  BY ViewFaithful
<1>6. m \in [Requests -> Request]
  BY <1>5 DEF Faithful, Request
<1>7. \A q \in Requests : m[q].status = cur[q].status /\ (q # r => m[q] = cur[q])
  BY <1>5 DEF Faithful, Request
<1>8. \A q \in Requests : Fits(m, q)
  BY <1>4, <1>5, <1>7 DEF Faithful, Fits
<1>9. \A q \in Requests : /\ Taken(q)' = Taken(q)
                          /\ told'[q] = "rejected" => told[q] = "rejected"
  BY <1>3, <1>4 DEF Taken, IInv, TypeOK
<1> HIDE DEF m
<1>10. Faithful(approvals)' /\ Faithful(disk)'
  BY <1>2, <1>3, <1>6, <1>8, <1>9 DEF IInv, Faithful, Fits
<1>11. TypeOK'
  BY <1>2, <1>3, <1>10 DEF IInv, TypeOK, Faithful
<1>12. \A q \in Requests : Course(q)'
  BY <1>3, <1>4, <1>9 DEF IInv, TypeOK, Course
<1> QED
  BY <1>10, <1>11, <1>12 DEF IInv

\* The connector's poll: a prompt named in any copy was queued.
LEMMA PollStep == ASSUME IInv, NEW r \in Requests, Poll(r) PROVE IInv'
<1>1. PICK cur \in Views :
        /\ Keep(cur)
        /\ \/ watch' = [watch EXCEPT ![r] = "refused"]
           \/ cur[r].prompt /\ watch' = [watch EXCEPT ![r] = "tracking"]
  BY DEF Poll
<1>2. Faithful(cur) /\ UNCHANGED <<issued, work, queued, told>>
  BY ViewFaithful DEF Poll
<1>3. approvals' = cur /\ disk' = disk /\ loaded' = TRUE
  BY <1>1 DEF Keep
<1>4. cur[r].prompt => queued[r] = 1
  BY <1>2 DEF Faithful, Fits
<1>5. Faithful(approvals)' /\ Faithful(disk)'
  BY <1>2, <1>3 DEF IInv, Faithful, Fits, Taken
<1>6. TypeOK'
  BY <1>1, <1>2, <1>3, <1>5 DEF IInv, TypeOK, Faithful
<1>7. \A q \in Requests : watch'[q] = "tracking" => queued[q] = 1
  BY <1>1, <1>4 DEF IInv, Course, TypeOK
<1>8. \A q \in Requests : Course(q)'
  BY <1>2, <1>7 DEF IInv, Course, Taken
<1> QED
  BY <1>5, <1>6, <1>8 DEF IInv

LEMMA StopWatchStep == ASSUME IInv, NEW r \in Requests, StopWatch(r) PROVE IInv'
<1>1. /\ watch' = [watch EXCEPT ![r] = "gave_up"]
      /\ UNCHANGED <<store, issued, work, queued, told>>
  BY DEF StopWatch
<1>2. TypeOK' /\ \A q \in Requests : watch'[q] = "tracking" => watch[q] = "tracking"
  BY <1>1 DEF IInv, TypeOK, store
<1> QED
  BY <1>1, <1>2 DEF IInv, Faithful, Fits, Course, Taken, store

\* A crash forgets the dictionary and ends the handlers.
LEMMA CrashStep == ASSUME IInv, Crash PROVE IInv'
<1>1. /\ approvals' = Empty /\ loaded' = FALSE
      /\ work' = [r \in Requests |-> "idle"]
      /\ UNCHANGED <<disk, issued, queued, told, watch>>
  BY DEF Crash
<1>2. \A q \in Requests : Taken(q)' => Taken(q)
  BY <1>1 DEF Taken
<1>3. Faithful(approvals)'
  BY <1>1, Records DEF Faithful, Fits, Empty
<1>4. Faithful(disk)'
  BY <1>1, <1>2 DEF IInv, Faithful, Fits
<1>5. TypeOK'
  BY <1>1, <1>3 DEF IInv, TypeOK, Faithful
<1>6. \A q \in Requests : Course(q)'
  BY <1>1, <1>2 DEF IInv, Course
<1> QED
  BY <1>3, <1>4, <1>5, <1>6 DEF IInv

\* Time changes nothing but the time that is left.
LEMMA AgedRequest ==
  ASSUME NEW q \in Request
  PROVE  Aged(q) \in Request /\ Aged(q).status = q.status /\ Aged(q).prompt = q.prompt
BY ApprovalsAssumption DEF Aged, Request

LEMMA TickStep == ASSUME IInv, Tick PROVE IInv'
<1>1. /\ approvals' = [r \in Requests |-> Aged(approvals[r])]
      /\ disk' = [r \in Requests |-> Aged(disk[r])]
      /\ UNCHANGED <<loaded, issued, work, queued, told, watch>>
  BY DEF Tick
<1>2. ASSUME NEW r \in Requests
      PROVE  /\ approvals'[r] \in Request /\ disk'[r] \in Request
             /\ Fits(approvals, r)' /\ Fits(disk, r)'
  BY <1>1, AgedRequest DEF IInv, TypeOK, Faithful, Fits, Taken
<1>3. Faithful(approvals)' /\ Faithful(disk)'
  BY <1>1, <1>2 DEF Faithful
<1>4. TypeOK'
  BY <1>1, <1>3 DEF IInv, TypeOK, Faithful
<1> QED
  BY <1>1, <1>3, <1>4 DEF IInv, Course, Taken

\* Init establishes the invariant.
LEMMA Initial == Init => IInv
<1> SUFFICES ASSUME Init PROVE IInv
  OBVIOUS
<1>1. Faithful(approvals) /\ Faithful(disk)
  BY EmptyFaithful DEF Init
<1>2. TypeOK
  BY <1>1 DEF Init, TypeOK, Faithful
<1> QED
  BY <1>1, <1>2 DEF Init, IInv, Course, Taken

\* The invariant is inductive.
LEMMA Invariance == IInv /\ [Next]_vars => IInv'
<1> SUFFICES ASSUME IInv, [Next]_vars PROVE IInv'
  OBVIOUS
<1>1. CASE UNCHANGED vars
  BY <1>1 DEF vars, store, IInv, TypeOK, Faithful, Fits, Course, Taken
<1>2. ASSUME NEW r \in Requests, Create(r) \/ Grant(r) \/ GrantLate(r) \/ Reject(r)
      PROVE  IInv'
  BY <1>2, CreateStep, GrantStep, GrantLateStep, RejectStep
<1>3. ASSUME NEW r \in Requests, Submit(r) \/ RecordExecution(r) \/ Poll(r) \/ StopWatch(r)
      PROVE  IInv'
  BY <1>3, SubmitStep, RecordExecutionStep, PollStep, StopWatchStep
<1>4. CASE Look \/ List \/ Crash \/ Tick
  BY <1>4, LookStep, ListStep, CrashStep, TickStep
<1> QED
  BY <1>1, <1>2, <1>3, <1>4 DEF Next

LEMMA Reachable == Spec => []IInv
BY Initial, Invariance, PTL DEF Spec

-----------------------------------------------------------------------------
(* Every step is a step of the register of decisions.                      *)

\* The request may still be decided, in some copy of the store.
Opens(r) == r \notin issued \/ Pending(approvals, r) \/ Pending(disk, r)

\* How the standing of a request may change.
Moves(r) ==
  \/ Standing(r)' = Standing(r)
  \/ Standing(r) = "open" /\ Standing(r)' \in {"granted", "refused", "closed"}
  \/ Standing(r) = "granted" /\ Standing(r)' \in {"executed", "closed"}

\* What was decided is not pending in any copy.
LEMMA TakenIsShut ==
  ASSUME IInv, NEW r \in Requests, Taken(r) \/ told[r] = "rejected"
  PROVE  ~ Opens(r)
BY DEF IInv, Faithful, Fits, Course, Opens, Pending

\* A handler writes nothing as pending that was not, except what it creates.
LEMMA StaysShut ==
  ASSUME IInv, NEW cur \in Views, NEW m, approvals' = m, disk' \in {disk, m},
         issued \subseteq issued', NEW r \in Requests,
         Pending(m, r) => Pending(cur, r) \/ r \notin issued
  PROVE  Opens(r)' => Opens(r)
<1>1. Pending(cur, r) => Pending(approvals, r) \/ Pending(disk, r)
  <2>1. cur = approvals \/ cur = disk \/ cur = Empty
    BY DEF Views
  <2>2. ~ Pending(Empty, r)
    BY Records DEF Pending, Empty
  <2> QED
    BY <2>1, <2>2
<1> QED
  BY <1>1 DEF Opens, Pending

\* A request that nothing is done to, or whose handler ends with the server.
LEMMA LeftAlone ==
  ASSUME IInv, NEW r \in Requests, Opens(r)' => Opens(r),
         told'[r] = told[r], queued'[r] = queued[r], work'[r] = work[r] \/ work'[r] = "idle"
  PROVE  Moves(r)
<1>1. /\ Standing(r)' = IF told[r] = "rejected" THEN "refused"
                        ELSE IF queued[r] > 0 THEN "executed"
                        ELSE IF work'[r] # "idle" \/ told[r] = "approved" THEN "granted"
                        ELSE IF Opens(r)' THEN "open" ELSE "closed"
      /\ Standing(r) = IF told[r] = "rejected" THEN "refused"
                       ELSE IF queued[r] > 0 THEN "executed"
                       ELSE IF work[r] # "idle" \/ told[r] = "approved" THEN "granted"
                       ELSE IF Opens(r) THEN "open" ELSE "closed"
  BY DEF Standing, Opens
<1>2. Taken(r) => ~ Opens(r)
  BY TakenIsShut
<1> QED
  BY <1>1, <1>2 DEF Moves, Taken

\* Deciding a request makes none pending.
LEMMA MarkShuts ==
  ASSUME NEW cur, Faithful(cur), NEW q \in Requests, NEW s \in Decided, NEW r \in Requests,
         Pending(Mark(cur, q, s), r)
  PROVE  Pending(cur, r)
<1>1. CASE r = q
  BY <1>1 DEF Mark, Pending, Faithful, Request, Decided
<1>2. CASE r # q
  BY <1>2 DEF Mark, Pending, Faithful
<1> QED
  BY <1>1, <1>2

\* What a handler finds pending is open.
LEMMA PendingOpens ==
  ASSUME NEW cur \in Views, NEW q \in Requests, Pending(cur, q)
  PROVE  Opens(q)
<1>1. cur = approvals \/ cur = disk \/ cur = Empty
  BY DEF Views
<1>2. ~ Pending(Empty, q)
  BY Records DEF Pending, Empty
<1> QED
  BY <1>1, <1>2 DEF Opens

\* A new request was open before it was created.
LEMMA CreateMoves ==
  ASSUME IInv, NEW q \in Requests, Create(q), NEW r \in Requests
  PROVE  Moves(r)
<1>1. PICK cur \in Views : \E m \in WithRoom(cur) :
        /\ approvals' = [m EXCEPT ![q] = New] \/ approvals' = m
        /\ disk' \in {disk, approvals'}
  BY DEF Create, Commit, Keep
<1>2. PICK m \in WithRoom(cur) :
        /\ approvals' = [m EXCEPT ![q] = New] \/ approvals' = m
        /\ disk' \in {disk, approvals'}
  BY <1>1
<1>3. m \in [Requests -> Request] /\ m[r] \in {Absent, cur[r]}
  BY ViewFaithful, Records DEF WithRoom, Cleaned, Faithful
<1>4. Pending(approvals', r) => Pending(cur, r) \/ r \notin issued
  <2>1. q \notin issued
    BY DEF Create
  <2>2. CASE r = q
    BY <2>1, <2>2
  <2>3. CASE r # q
    <3>1. approvals'[r] = m[r]
      BY <1>2, <1>3, <2>3
    <3> QED
      BY <1>3, <3>1, Records DEF Pending
  <2> QED
    BY <2>2, <2>3
<1>5. issued \subseteq issued' /\ UNCHANGED <<work, queued, told>>
  BY DEF Create
<1>6. Opens(r)' => Opens(r)
  BY <1>2, <1>4, <1>5, StaysShut
<1> QED
  BY <1>5, <1>6, LeftAlone

\* Approving, in any copy that has the request pending.
LEMMA GrantMoves ==
  ASSUME IInv, NEW q \in Requests, Grant(q), NEW r \in Requests
  PROVE  Moves(r)
<1>1. PICK cur \in Views, ok \in SaveResults :
        /\ Pending(cur, q)
        /\ Commit(Mark(cur, q, "approved"), ok)
        /\ \/ ok /\ work' = [work EXCEPT ![q] = "submit"] /\ UNCHANGED told
           \/ ok /\ told' = [told EXCEPT ![q] = "approved"] /\ UNCHANGED work
           \/ ~ ok /\ UNCHANGED <<work, told>>
  BY DEF Grant
<1>2. UNCHANGED <<issued, queued>>
  BY DEF Grant
<1>3. Faithful(cur) /\ "approved" \in Decided
  BY ViewFaithful DEF Decided
<1>4. ~ Taken(q) /\ told[q] # "rejected" /\ q \in issued
  BY <1>1, <1>3, MarkFaithful
<1>5. Opens(r)' => Opens(r)
  <2>1. /\ approvals' = Mark(cur, q, "approved")
        /\ disk' \in {disk, Mark(cur, q, "approved")}
    BY <1>1 DEF Commit
  <2> QED
    BY <1>2, <1>3, <2>1, StaysShut, MarkShuts
<1>6. /\ work \in [Requests -> {"idle", "submit", "record"}]
      /\ told \in [Requests -> {"nothing", "approved", "rejected"}]
      /\ queued \in [Requests -> Nat]
  BY DEF IInv, TypeOK
<1>7. CASE r # q \/ UNCHANGED <<work, told>>
  <2>1. told'[r] = told[r] /\ queued'[r] = queued[r] /\ work'[r] = work[r]
    BY <1>1, <1>2, <1>6, <1>7
  <2> QED
    BY <1>5, <2>1, LeftAlone
<1>8. CASE r = q /\ ~ UNCHANGED <<work, told>>
  <2>1. Opens(q)
    BY <1>1, PendingOpens
  <2>2. Standing(q) = "open"
    BY <1>4, <1>6, <2>1 DEF Standing, Opens, Taken
  <2>3. Standing(q)' = "granted"
    <3>1. queued'[q] = 0 /\ told'[q] # "rejected" /\ (work'[q] # "idle" \/ told'[q] = "approved")
      BY <1>1, <1>2, <1>4, <1>6, <1>8 DEF Taken
    <3> QED
      BY <3>1 DEF Standing
  <2> QED
    BY <1>8, <2>2, <2>3 DEF Moves
<1> QED
  BY <1>7, <1>8

\* Rejecting, in any copy that has the request pending.
LEMMA RejectMoves ==
  ASSUME IInv, NEW q \in Requests, Reject(q), NEW r \in Requests
  PROVE  Moves(r)
<1>1. PICK cur \in Views, ok \in SaveResults :
        /\ Pending(cur, q)
        /\ Commit(Mark(cur, q, "rejected"), ok)
        /\ told' = IF ok THEN [told EXCEPT ![q] = "rejected"] ELSE told
  BY DEF Reject
<1>2. UNCHANGED <<issued, queued, work>>
  BY DEF Reject
<1>3. Faithful(cur) /\ "rejected" \in Decided
  BY ViewFaithful DEF Decided
<1>4. ~ Taken(q) /\ told[q] # "rejected"
  BY <1>1, <1>3, MarkFaithful
<1>5. Opens(r)' => Opens(r)
  <2>1. /\ approvals' = Mark(cur, q, "rejected")
        /\ disk' \in {disk, Mark(cur, q, "rejected")}
    BY <1>1 DEF Commit
  <2> QED
    BY <1>2, <1>3, <2>1, StaysShut, MarkShuts
<1>6. told \in [Requests -> {"nothing", "approved", "rejected"}]
  BY DEF IInv, TypeOK
<1>7. CASE r # q \/ told' = told
  <2>1. told'[r] = told[r] /\ queued'[r] = queued[r] /\ work'[r] = work[r]
    BY <1>1, <1>2, <1>6, <1>7
  <2> QED
    BY <1>5, <2>1, LeftAlone
<1>8. CASE r = q /\ told' # told
  <2>1. told'[q] = "rejected"
    BY <1>1, <1>6, <1>8
  <2>2. Standing(q) = "open"
    <3>1. Opens(q)
      BY <1>1, PendingOpens
    <3>2. queued[q] = 0 /\ work[q] = "idle" /\ told[q] # "approved"
      BY <1>4 DEF Taken, IInv, TypeOK
    <3> QED
      BY <1>4, <3>1, <3>2 DEF Standing, Opens
  <2>3. Standing(q)' = "refused"
    BY <2>1 DEF Standing
  <2> QED
    BY <1>8, <2>2, <2>3 DEF Moves
<1> QED
  BY <1>7, <1>8

\* The handlers that change only the store, and none of whose writes reopens.
LEMMA StoreMoves ==
  ASSUME IInv, NEW cur \in Views, NEW m, approvals' = m, disk' \in {disk, m},
         UNCHANGED <<issued, work, queued, told>>, NEW r \in Requests,
         Pending(m, r) => Pending(cur, r)
  PROVE  Moves(r)
<1>1. Opens(r)' => Opens(r)
  BY StaysShut
<1> QED
  BY <1>1, LeftAlone

LEMMA GrantLateMoves ==
  ASSUME IInv, NEW q \in Requests, GrantLate(q), NEW r \in Requests
  PROVE  Moves(r)
<1>1. PICK cur \in Views, ok \in SaveResults : Commit(Mark(cur, q, "expired"), ok)
  BY DEF GrantLate
<1>2. Pending(Mark(cur, q, "expired"), r) => Pending(cur, r)
  BY ViewFaithful, MarkShuts DEF Decided
<1>3. /\ approvals' = Mark(cur, q, "expired")
      /\ disk' \in {disk, Mark(cur, q, "expired")}
  BY <1>1 DEF Commit
<1> QED
  BY <1>2, <1>3, StoreMoves DEF GrantLate

\* Whatever merely loads the file, the connector's poll included.
LEMMA LookMoves ==
  ASSUME IInv, Look \/ (\E q \in Requests : Poll(q)), NEW r \in Requests
  PROVE  Moves(r)
<1>1. PICK cur \in Views : Keep(cur)
  BY DEF Look, Poll
<1>2. UNCHANGED <<issued, work, queued, told>>
  BY DEF Look, Poll
<1>3. approvals' = cur /\ disk' \in {disk, cur}
  BY <1>1 DEF Keep
<1> QED
  BY <1>2, <1>3, StoreMoves

LEMMA ListMoves == ASSUME IInv, List, NEW r \in Requests PROVE Moves(r)
<1>1. PICK cur \in Views, ok \in SaveResults :
        LET due == {q \in Requests : Pending(cur, q) /\ Expired(cur, q)}
            m   == [q \in Requests |-> IF q \in due THEN [cur[q] EXCEPT !.status = "expired"]
                                                    ELSE cur[q]]
        IN  IF due = {} THEN Keep(cur) ELSE Commit(m, ok)
  BY DEF List
<1> DEFINE due == {q \in Requests : Pending(cur, q) /\ Expired(cur, q)}
           m == [q \in Requests |-> IF q \in due THEN [cur[q] EXCEPT !.status = "expired"]
                                                ELSE cur[q]]
<1>2. Pending(m, r) => Pending(cur, r)
  BY DEF Pending
<1>3. approvals' \in {cur, m} /\ disk' \in {disk, approvals'}
  BY <1>1 DEF Keep, Commit
<1>4. Pending(approvals', r) => Pending(cur, r)
  BY <1>2, <1>3
<1> HIDE DEF m, due
<1> QED
  BY <1>3, <1>4, StoreMoves DEF List

\* The submission executes what was granted, or leaves it granted.
LEMMA SubmitMoves ==
  ASSUME IInv, NEW q \in Requests, Submit(q), NEW r \in Requests
  PROVE  Moves(r)
<1>1. /\ work[q] = "submit" /\ queued[q] = 0 /\ told[q] # "rejected"
  BY DEF Submit, IInv, Course
<1>2. /\ UNCHANGED <<store, issued>>
      /\ queued' \in {queued, [queued EXCEPT ![q] = @ + 1]}
      /\ \/ /\ work' = [work EXCEPT ![q] = "record"] /\ told' = told
            /\ queued' = [queued EXCEPT ![q] = @ + 1]
         \/ /\ work' = [work EXCEPT ![q] = "idle"] /\ told' = [told EXCEPT ![q] = "approved"]
  BY DEF Submit, Answer
<1>3. CASE r # q
  <2>1. Opens(r)' => Opens(r)
    BY <1>2 DEF Opens, Pending, store
  <2>2. told'[r] = told[r] /\ queued'[r] = queued[r] /\ work'[r] = work[r]
    BY <1>2, <1>3 DEF IInv, TypeOK
  <2> QED
    BY <2>1, <2>2, LeftAlone
<1>4. CASE r = q
  <2>1. Standing(q) = "granted"
    BY <1>1 DEF Standing
  <2>2. /\ queued'[q] \in {0, 1} /\ told'[q] # "rejected"
        /\ queued'[q] = 0 => told'[q] = "approved"
    BY <1>1, <1>2 DEF IInv, TypeOK
  <2>3. Standing(q)' \in {"executed", "granted"}
    BY <2>2 DEF Standing
  <2> QED
    BY <1>4, <2>1, <2>3 DEF Moves
<1> QED
  BY <1>3, <1>4

\* The record of an execution changes no status.
LEMMA RecordExecutionMoves ==
  ASSUME IInv, NEW q \in Requests, RecordExecution(q), NEW r \in Requests
  PROVE  Moves(r)
<1>1. PICK cur \in Views, ok \in SaveResults :
        IF cur[q].status = "absent" THEN Keep(cur)
                                    ELSE Commit([cur EXCEPT ![q].prompt = TRUE], ok)
  BY DEF RecordExecution
<1>2. /\ work' = [work EXCEPT ![q] = "idle"] /\ told' = [told EXCEPT ![q] = "approved"]
      /\ UNCHANGED <<issued, queued>>
  BY DEF RecordExecution, Answer
<1>3. work[q] = "record" /\ queued[q] = 1 /\ told[q] # "rejected"
  BY DEF RecordExecution, IInv, Course
<1>4. CASE r # q
  <2>1. approvals' \in {cur, [cur EXCEPT ![q].prompt = TRUE]} /\ disk' \in {disk, approvals'}
    BY <1>1 DEF Keep, Commit
  <2>2. Pending(approvals', r) => Pending(cur, r)
    BY <1>4, <2>1, ViewFaithful DEF Pending, Faithful
  <2>3. Opens(r)' => Opens(r)
    BY <1>2, <2>1, <2>2, StaysShut
  <2>4. told'[r] = told[r] /\ queued'[r] = queued[r] /\ work'[r] = work[r]
    BY <1>2, <1>4 DEF IInv, TypeOK
  <2> QED
    BY <2>3, <2>4, LeftAlone
<1>5. CASE r = q
  <2>1. Standing(q) = "executed"
    BY <1>3 DEF Standing
  <2>2. queued'[q] = 1 /\ told'[q] = "approved"
    BY <1>2, <1>3 DEF IInv, TypeOK
  <2>3. Standing(q)' = "executed"
    BY <2>2 DEF Standing
  <2> QED
    BY <1>5, <2>1, <2>3 DEF Moves
<1> QED
  BY <1>4, <1>5

\* A crash closes what was on its way and not executed, and nothing else.
LEMMA CrashMoves == ASSUME IInv, Crash, NEW r \in Requests PROVE Moves(r)
<1>1. approvals' = Empty /\ UNCHANGED <<disk, issued, queued, told>> /\ work'[r] = "idle"
  BY DEF Crash
<1>2. ~ Pending(Empty, r)
  BY Records DEF Pending, Empty
<1>3. Opens(r)' => Opens(r)
  BY <1>1, <1>2 DEF Opens, Pending
<1> QED
  BY <1>1, <1>3, LeftAlone

LEMMA TickMoves == ASSUME IInv, Tick, NEW r \in Requests PROVE Moves(r)
<1>1. /\ approvals'[r] = Aged(approvals[r]) /\ disk'[r] = Aged(disk[r])
      /\ UNCHANGED <<issued, work, queued, told>>
  BY DEF Tick
<1>2. approvals[r] \in Request /\ disk[r] \in Request
  BY DEF IInv, TypeOK
<1>3. Opens(r)' => Opens(r)
  BY <1>1, <1>2, AgedRequest DEF Opens, Pending
<1> QED
  BY <1>1, <1>3, LeftAlone

\* Every step moves every request as the register allows.
LEMMA EveryMoves == ASSUME IInv, [Next]_vars, NEW r \in Requests PROVE Moves(r)
<1>1. CASE UNCHANGED <<store, issued, work, queued, told>>
  <2>1. Opens(r)' => Opens(r)
    BY <1>1 DEF Opens, Pending, store
  <2> QED
    BY <1>1, <2>1, LeftAlone
<1>2. ASSUME NEW q \in Requests, Create(q) \/ Grant(q) \/ GrantLate(q) \/ Reject(q)
      PROVE  Moves(r)
  BY <1>2, CreateMoves, GrantMoves, GrantLateMoves, RejectMoves
<1>3. ASSUME NEW q \in Requests, Submit(q) \/ RecordExecution(q) \/ Poll(q) \/ StopWatch(q)
      PROVE  Moves(r)
  <2>1. StopWatch(q) => UNCHANGED <<store, issued, work, queued, told>>
    BY DEF StopWatch
  <2> QED
    BY <1>1, <1>3, <2>1, SubmitMoves, RecordExecutionMoves, LookMoves
<1>4. CASE Look \/ List \/ Crash \/ Tick
  BY <1>4, LookMoves, ListMoves, CrashMoves, TickMoves
<1>5. UNCHANGED vars => UNCHANGED <<store, issued, work, queued, told>>
  BY DEF vars
<1> QED
  BY <1>1, <1>2, <1>3, <1>4, <1>5 DEF Next

-----------------------------------------------------------------------------
(* The theorems.                                                           *)

\* Every request, in memory and in the file, is well formed in every state.
THEOREM ApprovalsTyped == Spec => []TypeOK
<1>1. IInv => TypeOK
  BY DEF IInv
<1> QED
  BY <1>1, Reachable, PTL

\* No failed save, no damaged file and no restart reopens or reverses a decision
\* that a caller got a success answer for.
THEOREM DecisionsHold == Spec => []DecisionStands
<1>1. IInv => DecisionStands
  BY DEF IInv, TypeOK, DecisionStands, Current, Faithful, Fits, Taken
<1> QED
  BY <1>1, Reachable, PTL

\* A request puts at most one prompt into the queue, and none that the file could
\* offer for decision again.
THEOREM ExecutesOnce == Spec => []ExecutedOnce
<1>1. IInv => ExecutedOnce
  BY DEF IInv, ExecutedOnce, Faithful, Fits, Course, Taken
<1> QED
  BY <1>1, Reachable, PTL

\* A request whose rejection was confirmed is never executed.
THEOREM RejectionFinal == Spec => []NeverAfterReject
<1>1. IInv => NeverAfterReject
  BY DEF IInv, NeverAfterReject, Course
<1> QED
  BY <1>1, Reachable, PTL

\* The connector tracks only jobs that were queued for their request.
THEOREM TracksOnlyQueued == Spec => []TracksQueued
<1>1. IInv => TracksQueued
  BY DEF IInv, TracksQueued, Course
<1> QED
  BY <1>1, Reachable, PTL

\* The workflow implements the register of decisions: a request is decided once,
\* executed once, and never again once it was refused, executed or closed, through
\* failed saves, damaged files and restarts.
THEOREM ApprovalsImplementRegister == Spec => DecisionSpec
<1>1. Init => Register!Init
  <2> SUFFICES ASSUME Init PROVE Register!Init
    OBVIOUS
  <2>1. ASSUME NEW r \in Requests PROVE Standing(r) = "open"
    BY DEF Init, Standing
  <2> QED
    BY <2>1, Zenon DEF Register!Init
<1>2. IInv /\ [Next]_vars => Register!Next
  <2> SUFFICES ASSUME IInv, [Next]_vars, NEW r \in Requests PROVE Register!Step(r)
    BY DEF Register!Next
  <2>1. Moves(r)
    BY EveryMoves
  <2>2. /\ [q \in Requests |-> Standing(q)][r] = Standing(r)
        /\ [q \in Requests |-> Standing(q)]'[r] = Standing(r)'
    OBVIOUS
  <2> QED
    BY <2>1, <2>2 DEF Moves, Register!Step, Register!Grant, Register!Refuse,
       Register!Execute, Register!Close, Register!Idle, Register!Becomes
<1> QED
  BY <1>1, <1>2, Reachable, PTL DEF Spec, DecisionSpec, Register!Spec
=============================================================================
