--------------------------- MODULE ServicesProofs ---------------------------
(***************************************************************************)
(* Proofs about services of the core, for every value of their constants.  *)
(* Each part is about one module, and uses nothing of the other parts; the *)
(* last is about all of them side by side, as MCServices runs them.        *)
(***************************************************************************)
EXTENDS MCServices, ApprovalsProofs, SubmissionProofs,
        WellFoundedInduction, FiniteSetTheorems, SequenceTheorems, TLAPS

-----------------------------------------------------------------------------
(* Finite sets that gain or lose an element.                               *)

LEMMA Gains ==
  ASSUME NEW S, NEW T, NEW x, IsFiniteSet(S), x \notin S, T = S \cup {x}
  PROVE  IsFiniteSet(T) /\ Cardinality(T) = Cardinality(S) + 1 /\ Cardinality(S) \in Nat
<1> QED
  BY FS_AddElement, FS_CardinalityType

LEMMA Loses ==
  ASSUME NEW S, NEW T, NEW x, IsFiniteSet(S), x \in S, T = S \ {x}
  PROVE  IsFiniteSet(T) /\ Cardinality(T) = Cardinality(S) - 1 /\ Cardinality(S) \in Nat \ {0}
<1>1. IsFiniteSet(T) /\ Cardinality(T) = Cardinality(S) - 1 /\ Cardinality(S) \in Nat
  BY FS_RemoveElement, FS_CardinalityType
<1>2. Cardinality(T) \in Nat
  BY <1>1, FS_CardinalityType
<1> QED
  BY <1>1, <1>2

\* Min is the least of a set of numbers, and Max the greatest of a finite one.
LEMMA LeastOf ==
  ASSUME NEW S, S \subseteq Nat, S # {}
  PROVE  Min(S) \in S /\ \A y \in S : Min(S) <= y
<1> DEFINE Less == OpToRel(<, Nat)
<1>1. IsWellFoundedOn(Less, Nat)
  BY NatLessThanWellFounded
<1> HIDE DEF Less
<1>2. PICK x \in S : \A y \in S : ~ (<<y, x>> \in Less)
  BY <1>1, WFMin
<1>3. ASSUME NEW y \in S PROVE x <= y
  <2>1. y \in Nat /\ x \in Nat /\ ~ (<<y, x>> \in Less)
    BY <1>2
  <2>2. ~ (y < x)
    BY <2>1 DEF Less, OpToRel
  <2> QED
    BY <2>1, <2>2
<1>4. \E z \in S : \A y \in S : z <= y
  BY <1>3
<1> QED
  BY <1>4 DEF Min

LEMMA GreatestOf ==
  ASSUME NEW S, S \subseteq Nat, S # {}, IsFiniteSet(S)
  PROVE  Max(S) \in S /\ \A y \in S : y <= Max(S)
<1> DEFINE Above(x) == {z \in S : x < z}
           Counts   == {Cardinality(Above(x)) : x \in S}
<1>1. \A x \in S : IsFiniteSet(Above(x)) /\ Cardinality(Above(x)) \in Nat
  BY FS_Subset, FS_CardinalityType
<1>2. Counts \subseteq Nat /\ Counts # {}
  BY <1>1
<1>3. PICK x \in S : \A y \in S : Cardinality(Above(x)) <= Cardinality(Above(y))
  <2> HIDE DEF Above
  <2>1. Min(Counts) \in Counts /\ \A c \in Counts : Min(Counts) <= c
    <3> HIDE DEF Counts
    <3> QED
      BY <1>2, LeastOf
  <2> QED
    BY <2>1
<1>4. ASSUME NEW y \in S PROVE y <= x
  <2> SUFFICES ASSUME x < y PROVE FALSE
    BY <1>3
  <2>1. Above(y) \subseteq Above(x) /\ y \in Above(x) /\ y \notin Above(y)
    <3>1. x \in Nat /\ y \in Nat /\ y \in S
      BY <1>3, <1>4
    <3>2. \A z \in S : z \in Nat /\ (y < z => x < z)
      BY <3>1
    <3>3. y \in Above(x)
      BY <3>1
    <3>4. y \notin Above(y)
      BY <3>1
    <3>5. ASSUME NEW z \in Above(y) PROVE z \in Above(x)
      <4>1. z \in S /\ y < z
        BY <3>5
      <4> QED
        BY <3>2, <4>1
    <3> HIDE DEF Above
    <3> QED
      BY <3>3, <3>4, <3>5
  <2> HIDE DEF Above
  <2>2. Above(y) \subseteq Above(x) \ {y} /\ IsFiniteSet(Above(x))
    BY <1>1, <2>1
  <2>3. IsFiniteSet(Above(x) \ {y}) /\ Cardinality(Above(x) \ {y}) = Cardinality(Above(x)) - 1
    BY <2>1, <2>2, FS_RemoveElement
  <2>4. Cardinality(Above(y)) <= Cardinality(Above(x) \ {y})
    BY <2>2, <2>3, FS_Subset
  <2> QED
    BY <1>1, <1>3, <2>3, <2>4
<1>5. \E z \in S : \A y \in S : z >= y
  BY <1>4
<1>6. Max(S) \in S /\ \A y \in S : Max(S) >= y
  BY <1>5 DEF Max
<1> QED
  BY <1>6

\* What is at the places of a sequence.
LEMMA Places ==
  ASSUME NEW S, NEW q \in Seq(S)
  PROVE  Len(q) \in Nat /\ DOMAIN q = 1 .. Len(q) /\ \A i \in 1 .. Len(q) : q[i] \in S
OBVIOUS

-----------------------------------------------------------------------------
(* Execution budgets.                                                      *)

\* A slot is found only by a submission that is about to take it.
Looking == \A s \in Submits : looked[s] => stage[s] \in AcquireStage

BudgetsInv == BudgetsTypeOK /\ Looking /\ SlotsAccounted

Posting == {s \in Submits : stage[s] = "posting"}

\* What a submission holds at a stage x, and the semaphore that x is about.
HeldAt(s, x) ==
  CASE x = "acquire_tenant" -> {GlobalGate}
    [] x = "acquire_source" -> {GlobalGate, TenantGate[s]} \ {"none"}
    [] x = "posting"        -> Needs(s)
    [] OTHER                -> {}

LEMMA HeldStage ==
  ASSUME NEW s PROVE Held(s) = HeldAt(s, stage[s]) /\ Held(s)' = HeldAt(s, stage'[s])
<1> QED
  BY DEF Held, HeldAt, Needs

\* A move of one submission changes the holders of a semaphore by that submission.
LEMMA HoldersMove ==
  ASSUME BudgetsTypeOK, NEW s \in Submits, NEW x, stage' = [stage EXCEPT ![s] = x], NEW g
  PROVE  /\ IsFiniteSet(Holders(g)) /\ Cardinality(Holders(g)) \in Nat
         /\ g \in HeldAt(s, x) /\ g \in Held(s) => Holders(g)' = Holders(g)
         /\ g \notin HeldAt(s, x) /\ g \notin Held(s) => Holders(g)' = Holders(g)
         /\ g \in HeldAt(s, x) /\ g \notin Held(s) =>
              Cardinality(Holders(g)') = Cardinality(Holders(g)) + 1
         /\ g \notin HeldAt(s, x) /\ g \in Held(s) =>
              Cardinality(Holders(g)') = Cardinality(Holders(g)) - 1
<1>1. IsFiniteSet(Holders(g))
  BY BudgetsAssumption, FS_Subset DEF Holders
<1>2. stage'[s] = x /\ \A t \in Submits \ {s} : stage'[t] = stage[t]
  BY DEF BudgetsTypeOK
<1>3. Held(s)' = HeldAt(s, x) /\ \A t \in Submits \ {s} : Held(t)' = Held(t)
  BY <1>2, HeldStage
<1>4. s \in Holders(g) <=> g \in Held(s)
  BY DEF Holders
<1>5. g \in HeldAt(s, x) => Holders(g)' = Holders(g) \cup {s}
  BY <1>3 DEF Holders
<1>6. g \notin HeldAt(s, x) => Holders(g)' = Holders(g) \ {s}
  BY <1>3 DEF Holders
<1>7. CASE g \in HeldAt(s, x) /\ g \notin Held(s)
  BY <1>1, <1>4, <1>5, <1>7, Gains
<1>8. CASE g \notin HeldAt(s, x) /\ g \in Held(s)
  BY <1>1, <1>4, <1>6, <1>8, Loses
<1> QED
  BY <1>1, <1>4, <1>5, <1>6, <1>7, <1>8, FS_CardinalityType

LEMMA PostingMove ==
  ASSUME BudgetsTypeOK, NEW s \in Submits, NEW x, stage' = [stage EXCEPT ![s] = x]
  PROVE  /\ IsFiniteSet(Posting) /\ Cardinality(Posting) \in Nat
         /\ x # "posting" /\ stage[s] # "posting" => Posting' = Posting
         /\ x = "posting" /\ stage[s] # "posting" =>
              Cardinality(Posting') = Cardinality(Posting) + 1
         /\ x # "posting" /\ stage[s] = "posting" =>
              Cardinality(Posting') = Cardinality(Posting) - 1 /\ Cardinality(Posting) # 0
<1>1. IsFiniteSet(Posting)
  BY BudgetsAssumption, FS_Subset DEF Posting
<1>2. stage'[s] = x /\ \A t \in Submits \ {s} : stage'[t] = stage[t]
  BY DEF BudgetsTypeOK
<1>3. x = "posting" => Posting' = Posting \cup {s}
  BY <1>2 DEF Posting
<1>4. x # "posting" => Posting' = Posting \ {s}
  BY <1>2 DEF Posting
<1>5. s \in Posting <=> stage[s] = "posting"
  BY DEF Posting
<1>6. CASE x = "posting" /\ stage[s] # "posting"
  BY <1>1, <1>3, <1>5, <1>6, Gains
<1>7. CASE x # "posting" /\ stage[s] = "posting"
  BY <1>1, <1>4, <1>5, <1>7, Loses
<1> QED
  BY <1>1, <1>4, <1>5, <1>6, <1>7, FS_CardinalityType

\* A submission acquires its semaphores in order, and none of them twice.
LEMMA GateFacts ==
  ASSUME BudgetsTypeOK, NEW s \in Submits, stage[s] \in AcquireStage
  PROVE  /\ GateOf(s) \subseteq Gates /\ Held(s) \subseteq Gates
         /\ GateOf(s) \cap Held(s) = {}
         /\ Beyond[stage[s]] \in Stage
         /\ HeldAt(s, Beyond[stage[s]]) = Held(s) \cup GateOf(s)
         /\ Beyond[stage[s]] = "posting" <=> stage[s] = "acquire_source"
<1>1. /\ GlobalGate \in Gates /\ GlobalGate # "none"
      /\ SourceGate[s] \in (Gates \ {GlobalGate}) \cup {"none"}
      /\ TenantGate[s] \in (Gates \ {GlobalGate}) \cup {"none"}
      /\ SourceGate[s] # "none" => SourceGate[s] # TenantGate[s]
  BY BudgetsAssumption
<1>2. CASE stage[s] = "acquire_global"
  BY <1>1, <1>2, HeldStage DEF GateOf, HeldAt, Beyond, Stage, AcquireStage
<1>3. CASE stage[s] = "acquire_tenant"
  BY <1>1, <1>3, HeldStage DEF GateOf, HeldAt, Beyond, Stage, AcquireStage
<1>4. CASE stage[s] = "acquire_source"
  BY <1>1, <1>4, HeldStage DEF GateOf, HeldAt, Needs, Beyond, Stage, AcquireStage
<1> QED
  BY <1>2, <1>3, <1>4 DEF AcquireStage

\* The count of a semaphore, as four numbers.
LEMMA CountMoves ==
  ASSUME NEW f \in Int, NEW h \in Nat, NEW l \in Nat, NEW c \in Nat, f + h + l = c
  PROVE  /\ (f - 1) + (h + 1) + l = c
         /\ (f + 1) + (h - 1) + l = c
         /\ f + (h - 1) + (l + 1) = c
<1> QED
  OBVIOUS

LEMMA AccountsCheck ==
  ASSUME BudgetsInv, NEW s \in Submits, CheckBudget(s)
  PROVE  BudgetsInv'
<1> DEFINE x == IF Locked(s) THEN "over" ELSE Beyond[stage[s]]
<1>1. stage[s] \in CheckStage /\ stage' = [stage EXCEPT ![s] = x]
      /\ UNCHANGED <<looked, free, inflight, leaked>>
  BY DEF CheckBudget, BudgetsInv, BudgetsTypeOK
<1>2. x \in Stage /\ x # "posting" /\ stage[s] # "posting" /\ HeldAt(s, x) = {} /\ Held(s) = {}
      /\ stage[s] \notin AcquireStage
  BY <1>1, HeldStage DEF CheckStage, Beyond, Stage, AcquireStage, HeldAt
<1> HIDE DEF x
<1>3. Posting' = Posting /\ \A g \in Gates : Holders(g)' = Holders(g)
  BY <1>1, <1>2, HoldersMove, PostingMove DEF BudgetsInv
<1>4. BudgetsTypeOK' /\ Looking'
  BY <1>1, <1>2 DEF BudgetsInv, BudgetsTypeOK, Looking
<1>5. SlotsAccounted'
  BY <1>1, <1>3 DEF BudgetsInv, SlotsAccounted, Posting
<1> QED
  BY <1>4, <1>5 DEF BudgetsInv

LEMMA AccountsFind ==
  ASSUME BudgetsInv, NEW s \in Submits, FindSlot(s)
  PROVE  BudgetsInv'
<1>1. BudgetsTypeOK' /\ Looking'
  BY DEF FindSlot, BudgetsInv, BudgetsTypeOK, Looking
<1>2. Posting' = Posting /\ \A g \in Gates : Holders(g)' = Holders(g)
  BY DEF FindSlot, Posting, Holders, Held, Needs
<1>3. SlotsAccounted'
  BY <1>2 DEF FindSlot, BudgetsInv, SlotsAccounted, Posting
<1> QED
  BY <1>1, <1>3 DEF BudgetsInv

LEMMA AccountsTake ==
  ASSUME BudgetsInv, NEW s \in Submits, TakeSlot(s)
  PROVE  BudgetsInv'
<1> DEFINE x == Beyond[stage[s]]
<1>1. stage[s] \in AcquireStage /\ stage[s] # "posting"
  BY DEF TakeSlot, BudgetsInv, Looking, AcquireStage
<1>2. stage' = [stage EXCEPT ![s] = x] /\ looked' = [looked EXCEPT ![s] = FALSE] /\ leaked' = leaked
      /\ free' = [g \in Gates |-> IF g \in GateOf(s) THEN free[g] - 1 ELSE free[g]]
      /\ inflight' = IF x = "posting" THEN inflight + 1 ELSE inflight
  BY <1>1, GateFacts DEF TakeSlot, BudgetsInv, BudgetsTypeOK
<1>3. x \in Stage /\ HeldAt(s, x) = Held(s) \cup GateOf(s) /\ GateOf(s) \cap Held(s) = {}
  BY <1>1, GateFacts DEF BudgetsInv
<1> HIDE DEF x
<1>4. BudgetsTypeOK' /\ Looking'
  BY <1>2, <1>3 DEF BudgetsInv, BudgetsTypeOK, Looking
<1>5. ASSUME NEW g \in Gates
      PROVE  free'[g] + Cardinality(Holders(g)') + leaked'[g] = CAP[g]
  <2>1. free[g] \in Int /\ leaked[g] \in Nat /\ CAP[g] \in Nat
        /\ free[g] + Cardinality(Holders(g)) + leaked[g] = CAP[g]
    BY BudgetsAssumption DEF BudgetsInv, BudgetsTypeOK, SlotsAccounted
  <2>2. CASE g \in GateOf(s)
    <3>1. Cardinality(Holders(g)) \in Nat /\ Cardinality(Holders(g)') = Cardinality(Holders(g)) + 1
      BY <1>2, <1>3, <2>2, HoldersMove DEF BudgetsInv
    <3> QED
      BY <1>2, <2>1, <2>2, <3>1
  <2>3. CASE g \notin GateOf(s)
    <3>1. Holders(g)' = Holders(g)
      BY <1>2, <1>3, <2>3, HoldersMove DEF BudgetsInv
    <3> QED
      BY <1>2, <2>1, <2>3, <3>1
  <2> QED
    BY <2>2, <2>3
<1>6. inflight' = Cardinality(Posting')
  BY <1>1, <1>2, PostingMove DEF BudgetsInv, SlotsAccounted, Posting
<1> QED
  BY <1>4, <1>5, <1>6 DEF BudgetsInv, SlotsAccounted, Posting

\* The ways to end: what is held is given back, or is known to be leaked.
LEMMA AccountsEnd ==
  ASSUME BudgetsInv, NEW s \in Submits, WaitFails(s) \/ WaitCancelled(s) \/ Leave(s)
  PROVE  BudgetsInv'
<1>1. stage' = [stage EXCEPT ![s] = "over"] /\ looked' = looked /\ ~ looked[s]
      /\ inflight' = IF stage[s] = "posting" THEN inflight - 1 ELSE inflight
  BY DEF WaitFails, WaitCancelled, Waiting, Leave, AcquireStage, BudgetsInv, Looking, BudgetsTypeOK
<1>2. HeldAt(s, "over") = {}
  BY DEF HeldAt
<1>3. inflight' = Cardinality(Posting') /\ inflight' \in Nat
  <2>1. inflight = Cardinality(Posting) /\ BudgetsTypeOK
    BY DEF BudgetsInv, SlotsAccounted, Posting
  <2>2. /\ Cardinality(Posting) \in Nat
        /\ stage[s] # "posting" => Posting' = Posting
        /\ stage[s] = "posting" => /\ Cardinality(Posting) # 0
                                  /\ Cardinality(Posting') = Cardinality(Posting) - 1
    <3>1. PICK x : x # "posting" /\ stage' = [stage EXCEPT ![s] = x]
      BY <1>1
    <3> QED
      BY <2>1, <3>1, PostingMove
  <2>3. inflight' = IF stage[s] = "posting" THEN inflight - 1 ELSE inflight
    BY <1>1
  <2> HIDE DEF Posting
  <2> QED
    BY <2>1, <2>2, <2>3
<1>4. \/ Release(Held(s)) /\ leaked' = leaked
      \/ /\ leaked' = [g \in Gates |-> IF g \in Held(s) THEN leaked[g] + 1 ELSE leaked[g]]
         /\ free' = free
  BY DEF WaitFails, WaitCancelled, Leave
<1>5. BudgetsTypeOK' /\ Looking'
  BY <1>1, <1>3, <1>4 DEF BudgetsInv, BudgetsTypeOK, Looking, Release, Stage
<1>6. ASSUME NEW g \in Gates
      PROVE  free'[g] + Cardinality(Holders(g)') + leaked'[g] = CAP[g]
  <2>1. free[g] \in Int /\ leaked[g] \in Nat /\ CAP[g] \in Nat
        /\ free[g] + Cardinality(Holders(g)) + leaked[g] = CAP[g]
    BY BudgetsAssumption DEF BudgetsInv, BudgetsTypeOK, SlotsAccounted
  <2>2. CASE g \in Held(s)
    <3>1. Cardinality(Holders(g)) \in Nat /\ Cardinality(Holders(g)') = Cardinality(Holders(g)) - 1
      BY <1>1, <1>2, <2>2, HoldersMove DEF BudgetsInv
    <3>2. \/ free'[g] = free[g] + 1 /\ leaked'[g] = leaked[g]
          \/ free'[g] = free[g] /\ leaked'[g] = leaked[g] + 1
      BY <1>4, <2>2 DEF Release
    <3> QED
      BY <2>1, <3>1, <3>2
  <2>3. CASE g \notin Held(s)
    <3>1. Holders(g)' = Holders(g)
      BY <1>1, <1>2, <2>3, HoldersMove DEF BudgetsInv
    <3>2. free'[g] = free[g] /\ leaked'[g] = leaked[g]
      BY <1>4, <2>3 DEF Release
    <3> QED
      BY <2>1, <3>1, <3>2
  <2> QED
    BY <2>2, <2>3
<1> QED
  BY <1>3, <1>5, <1>6 DEF BudgetsInv, SlotsAccounted, Posting

LEMMA BudgetsBegin == BudgetsInit => BudgetsInv
<1> SUFFICES ASSUME BudgetsInit PROVE BudgetsInv
  OBVIOUS
<1>1. Posting = {} /\ \A g \in Gates : Holders(g) = {}
  BY DEF BudgetsInit, Posting, Holders, Held
<1>2. BudgetsTypeOK /\ Looking
  BY BudgetsAssumption DEF BudgetsInit, BudgetsTypeOK, Looking, Stage, CheckStage
<1>3. SlotsAccounted
  <2>1. \A g \in Gates : CAP[g] \in Nat /\ free[g] = CAP[g] /\ leaked[g] = 0
    BY BudgetsAssumption DEF BudgetsInit
  <2>2. \A g \in Gates : free[g] + Cardinality(Holders(g)) + leaked[g] = CAP[g]
    BY <1>1, <2>1, FS_EmptySet
  <2>3. inflight = Cardinality(Posting)
    BY <1>1, FS_EmptySet DEF BudgetsInit
  <2> QED
    BY <2>2, <2>3 DEF SlotsAccounted, Posting
<1> QED
  BY <1>2, <1>3 DEF BudgetsInv

LEMMA BudgetsHold == BudgetsInv /\ [BudgetsNext]_budgetVars => BudgetsInv'
<1> SUFFICES ASSUME BudgetsInv, [BudgetsNext]_budgetVars PROVE BudgetsInv'
  OBVIOUS
<1>1. CASE UNCHANGED budgetVars
  BY <1>1 DEF budgetVars, BudgetsInv, BudgetsTypeOK, Looking, SlotsAccounted, Holders, Held, Needs
<1>2. CASE BudgetsNext
  BY <1>2, AccountsCheck, AccountsFind, AccountsTake, AccountsEnd DEF BudgetsNext
<1> QED
  BY <1>1, <1>2

\* However threads interleave in the semaphores of asyncio that they share, no
\* slot is ever lost or counted twice: it is free, held, or leaked by a wait
\* that was cancelled (acquire of execution_budgets.py).
THEOREM SlotsAccountedFor == BudgetsSpec => []SlotsAccounted
<1>1. BudgetsInv => SlotsAccounted
  BY DEF BudgetsInv
<1> QED
  BY <1>1, BudgetsBegin, BudgetsHold, PTL DEF BudgetsSpec

-----------------------------------------------------------------------------
(* Result callbacks.                                                       *)

WatchEvent == {"completed", "failed", "callback_sent", "callback_failed"}
Watcher    == [at : {"none", "poll", "post", "ended"}, polls : 0 .. POLL_MAX_ATTEMPTS,
               used : [Lane -> Nat], refused : BOOLEAN]

WatchTyped ==
  /\ job \in [WatchedPrompts -> Result \cup {"pending"}]
  /\ watcher \in [WatchedPrompts -> Watcher]
  /\ heard \in [WatchedPrompts -> SUBSET WatchEvent]
  /\ delivered \in [WatchedPrompts -> Nat] /\ misled \in [WatchedPrompts -> Nat]

\* What holds of a prompt: a watcher that polls has polls left, each result that
\* was received before the watcher ended was followed by a lost answer, and the
\* events tell the truth.
SpentIn(w) == \E l \in Lane : w.used[l] >= Budget[l]
Sound(p) ==
  /\ watcher[p].at \in {"none", "poll"} => watcher[p].polls < POLL_MAX_ATTEMPTS
  /\ watcher[p].at # "ended" => delivered[p] <= misled[p]
  /\ delivered[p] <= misled[p] + 1
  /\ "completed" \in heard[p] => job[p] = "completed"
  /\ "callback_sent" \in heard[p] => delivered[p] > 0
  /\ "callback_failed" \in heard[p] => watcher[p].refused \/ SpentIn(watcher[p])

WatchInv == WatchTyped /\ \A p \in WatchedPrompts : Sound(p)

\* An action of one watcher leaves the others alone.
LEMMA WatchFrame ==
  ASSUME WatchInv, NEW p \in WatchedPrompts,
         NEW j \in Result \cup {"pending"}, job' = [job EXCEPT ![p] = j],
         NEW w \in Watcher, watcher' = [watcher EXCEPT ![p] = w],
         NEW h \in SUBSET WatchEvent, heard' = [heard EXCEPT ![p] = h],
         NEW n \in Nat, delivered' = [delivered EXCEPT ![p] = n],
         NEW m \in Nat, misled' = [misled EXCEPT ![p] = m],
         w.at \in {"none", "poll"} => w.polls < POLL_MAX_ATTEMPTS,
         w.at # "ended" => n <= m,
         n <= m + 1,
         "completed" \in h => j = "completed",
         "callback_sent" \in h => n > 0,
         "callback_failed" \in h => w.refused \/ SpentIn(w)
  PROVE  WatchInv'
<1>1. WatchTyped'
  BY DEF WatchInv, WatchTyped
<1>2. Sound(p)'
  <2>1. job'[p] = j /\ watcher'[p] = w /\ heard'[p] = h /\ delivered'[p] = n /\ misled'[p] = m
    BY DEF WatchInv, WatchTyped
  <2>2. SpentIn(watcher[p])' = SpentIn(w)
    BY <2>1 DEF SpentIn, Budget
  <2> QED
    BY <2>1, <2>2 DEF Sound
<1>3. ASSUME NEW q \in WatchedPrompts, q # p PROVE Sound(q)'
  <2>1. /\ job'[q] = job[q] /\ watcher'[q] = watcher[q] /\ heard'[q] = heard[q]
        /\ delivered'[q] = delivered[q] /\ misled'[q] = misled[q]
    BY <1>3 DEF WatchInv, WatchTyped
  <2>2. SpentIn(watcher[q])' = SpentIn(watcher[q])
    BY <2>1 DEF SpentIn, Budget
  <2> QED
    BY <2>1, <2>2 DEF Sound, WatchInv
<1> QED
  BY <1>1, <1>2, <1>3 DEF WatchInv

LEMMA SameAt ==
  ASSUME NEW S, NEW T, NEW f \in [S -> T], NEW x \in S
  PROVE  f = [f EXCEPT ![x] = f[x]] /\ f[x] \in T
<1> QED
  OBVIOUS

LEMMA WatchParts ==
  ASSUME WatchInv, NEW p \in WatchedPrompts
  PROVE  /\ job[p] \in Result \cup {"pending"} /\ watcher[p] \in Watcher
         /\ heard[p] \in SUBSET WatchEvent /\ delivered[p] \in Nat /\ misled[p] \in Nat
         /\ Sound(p)
<1> QED
  BY DEF WatchInv, WatchTyped

\* Steps that only move the watcher, with or without an event.
LEMMA WatcherMoves ==
  ASSUME WatchInv, NEW p \in WatchedPrompts, UNCHANGED <<job, delivered, misled>>,
         NEW w \in Watcher, watcher' = [watcher EXCEPT ![p] = w],
         NEW h \in SUBSET WatchEvent, heard' = [heard EXCEPT ![p] = h],
         w.at \in {"none", "poll"} => w.polls < POLL_MAX_ATTEMPTS,
         w.at # "ended" => watcher[p].at # "ended",
         "completed" \in h => job[p] = "completed",
         "callback_sent" \in h => "callback_sent" \in heard[p],
         "callback_failed" \in h => w.refused \/ SpentIn(w)
  PROVE  WatchInv'
<1>1. Sound(p) /\ delivered[p] \in Nat /\ misled[p] \in Nat /\ job[p] \in Result \cup {"pending"}
  BY WatchParts
<1> DEFINE j == job[p]  n == delivered[p]  m == misled[p]
<1>2. /\ job' = [job EXCEPT ![p] = j] /\ delivered' = [delivered EXCEPT ![p] = n]
      /\ misled' = [misled EXCEPT ![p] = m]
      /\ j \in Result \cup {"pending"} /\ n \in Nat /\ m \in Nat
  BY <1>1, SameAt DEF WatchInv, WatchTyped
<1>3. w.at # "ended" => n <= m
  BY <1>1 DEF Sound
<1>4. n <= m + 1 /\ ("callback_sent" \in h => n > 0) /\ ("completed" \in h => j = "completed")
  BY <1>1 DEF Sound
<1> HIDE DEF j, n, m
<1> QED
  BY <1>1, <1>2, <1>3, <1>4, WatchFrame

LEMMA WatchPolls ==
  ASSUME WatchInv, NEW p \in WatchedPrompts,
         StartWatch(p) \/ PollFinds(p) \/ PollAgain(p) \/ PollTimesOut(p)
  PROVE  WatchInv'
<1>0. watcher[p] \in Watcher /\ Sound(p) /\ heard[p] \in SUBSET WatchEvent /\ job[p] \in Result \cup {"pending"}
      /\ watcher \in [WatchedPrompts -> Watcher] /\ heard \in [WatchedPrompts -> SUBSET WatchEvent]
  BY WatchParts DEF WatchInv, WatchTyped
<1>1. /\ watcher[p].polls < POLL_MAX_ATTEMPTS /\ watcher[p].polls + 1 \in 0 .. POLL_MAX_ATTEMPTS
      /\ watcher[p].polls \in 0 .. POLL_MAX_ATTEMPTS /\ watcher[p].at # "ended"
  BY <1>0, WatchAssumption DEF Watcher, Sound, StartWatch, PollFinds, PollAgain, PollTimesOut
<1>2. CASE StartWatch(p)
  <2> DEFINE w == [watcher[p] EXCEPT !.at = "poll"]
  <2>1. w \in Watcher /\ w.at = "poll" /\ w.polls = watcher[p].polls /\ w.refused = watcher[p].refused
        /\ w.used = watcher[p].used
    BY <1>0 DEF Watcher
  <2>2. watcher' = [watcher EXCEPT ![p] = w] /\ heard' = [heard EXCEPT ![p] = heard[p]]
        /\ UNCHANGED <<job, delivered, misled>>
    BY <1>0, <1>2 DEF StartWatch
  <2>3. "callback_failed" \in heard[p] => w.refused \/ SpentIn(w)
    BY <1>0, <2>1 DEF Sound, SpentIn
  <2>4. "completed" \in heard[p] => job[p] = "completed"
    BY <1>0 DEF Sound
  <2> HIDE DEF w
  <2> QED
    BY <1>0, <1>1, <2>1, <2>2, <2>3, <2>4, WatcherMoves
<1>3. CASE PollAgain(p)
  <2> DEFINE w == [watcher[p] EXCEPT !.polls = @ + 1]
  <2>1. w \in Watcher /\ w.at = watcher[p].at /\ w.polls < POLL_MAX_ATTEMPTS /\ w.refused = watcher[p].refused
        /\ w.used = watcher[p].used
    BY <1>0, <1>1, <1>3 DEF Watcher, PollAgain
  <2>2. watcher' = [watcher EXCEPT ![p] = w] /\ heard' = [heard EXCEPT ![p] = heard[p]]
        /\ UNCHANGED <<job, delivered, misled>>
    BY <1>0, <1>3 DEF PollAgain
  <2>3. "callback_failed" \in heard[p] => w.refused \/ SpentIn(w)
    BY <1>0, <2>1 DEF Sound, SpentIn
  <2>4. "completed" \in heard[p] => job[p] = "completed"
    BY <1>0 DEF Sound
  <2> HIDE DEF w
  <2> QED
    BY <1>0, <1>1, <2>1, <2>2, <2>3, <2>4, WatcherMoves
<1>4. CASE PollFinds(p) \/ PollTimesOut(p)
  <2>1. PICK e \in {"completed", "failed"}, a \in {"post", "ended"} :
          /\ e = "completed" => job[p] = "completed"
          /\ watcher' = [watcher EXCEPT ![p].at = a, ![p].polls = @ + 1]
          /\ heard' = [heard EXCEPT ![p] = @ \cup {e}]
          /\ UNCHANGED <<job, delivered, misled>>
    <3>1. CASE PollFinds(p)
      <4>1. PICK r \in Seen(p) :
              /\ r \in {"completed", "error", "unknown"}
              /\ heard' = [heard EXCEPT ![p] = @ \cup {IF r = "completed" THEN "completed" ELSE "failed"}]
        BY <3>1 DEF PollFinds, Tell
      <4> DEFINE e == IF r = "completed" THEN "completed" ELSE "failed"
      <4>2. e \in {"completed", "failed"} /\ (e = "completed" => job[p] = "completed")
        BY <4>1 DEF Seen
      <4>3. watcher' = [watcher EXCEPT ![p].at = "post", ![p].polls = @ + 1]
            /\ UNCHANGED <<job, delivered, misled>>
        BY <3>1 DEF PollFinds
      <4> QED
        BY <4>1, <4>2, <4>3
    <3>2. CASE PollTimesOut(p)
      BY <3>2 DEF PollTimesOut, Tell
    <3> QED
      BY <1>4, <3>1, <3>2
  <2> DEFINE v == [watcher[p] EXCEPT !.at = a]
             w == [v EXCEPT !.polls = watcher[p].polls + 1]
             h == heard[p] \cup {e}
  <2>2. v \in Watcher /\ v.at = a /\ v.polls = watcher[p].polls /\ v.used = watcher[p].used
        /\ v.refused = watcher[p].refused
    BY <1>0 DEF Watcher
  <2>3. watcher' = [watcher EXCEPT ![p] = w] /\ heard' = [heard EXCEPT ![p] = h]
    BY <1>0, <2>1
  <2> HIDE DEF v
  <2>4. w \in Watcher /\ w.at = a /\ w.used = watcher[p].used /\ w.refused = watcher[p].refused
    BY <1>1, <2>2 DEF Watcher
  <2>5. "callback_failed" \in h => w.refused \/ SpentIn(w)
    BY <1>0, <2>4 DEF Sound, SpentIn
  <2>6. "completed" \in h => job[p] = "completed"
    BY <1>0, <2>1 DEF Sound
  <2>7. h \in SUBSET WatchEvent /\ ("callback_sent" \in h => "callback_sent" \in heard[p])
    BY <1>0 DEF WatchEvent
  <2> HIDE DEF w, h
  <2> QED
    BY <1>1, <2>1, <2>3, <2>4, <2>5, <2>6, <2>7, WatcherMoves
<1> QED
  BY <1>2, <1>3, <1>4

\* A lane that is charged for the last time has spent its budget, since the loop
\* makes room for both lanes.
LEMMA LaneArithmetic ==
  ASSUME NEW r \in Nat, NEW t \in Nat, NEW c \in Nat, NEW b \in 1 .. 2
  PROVE  /\ ~ (r + 1 < b /\ r + t + 1 < c + 2) => (r + 1 >= b \/ t >= c)
         /\ ~ (t + 1 < c /\ r + t + 1 < c + 2) => (r >= b \/ t + 1 >= c)
<1> QED
  OBVIOUS

LEMMA FailedPost ==
  ASSUME WatchInv, NEW p \in WatchedPrompts, NEW lane \in Lane, watcher[p].at = "post",
         PostFails(p, lane)
  PROVE  \E w \in Watcher, h \in SUBSET WatchEvent :
           /\ watcher' = [watcher EXCEPT ![p] = w] /\ heard' = [heard EXCEPT ![p] = h]
           /\ w.at \in {"post", "ended"}
           /\ h \subseteq heard[p] \cup {"callback_failed"}
           /\ "callback_failed" \in h => w.refused \/ SpentIn(w)
<1> DEFINE n == watcher[p].used[lane] + 1
           u == [watcher[p].used EXCEPT ![lane] = n]
           goesOn == n < Budget[lane] /\ AttemptsLeft(p)
           a == IF goesOn THEN "post" ELSE "ended"
           v == [watcher[p] EXCEPT !.used = u]
           w == [v EXCEPT !.at = a]
           h == IF goesOn THEN heard[p] ELSE heard[p] \cup {"callback_failed"}
<1>0. watcher[p] \in Watcher /\ Sound(p) /\ heard[p] \in SUBSET WatchEvent
      /\ watcher \in [WatchedPrompts -> Watcher] /\ heard \in [WatchedPrompts -> SUBSET WatchEvent]
  BY WatchParts DEF WatchInv, WatchTyped
<1>1. watcher[p].used \in [Lane -> Nat] /\ n \in Nat /\ u \in [Lane -> Nat]
      /\ u[lane] = n /\ \A l \in Lane : u[l] >= watcher[p].used[l]
  BY <1>0 DEF Watcher
<1>2. v \in Watcher /\ v.at = watcher[p].at /\ v.used = u /\ v.refused = watcher[p].refused
  BY <1>0, <1>1 DEF Watcher
<1>3. watcher' = [watcher EXCEPT ![p] = w]
  BY <1>0 DEF PostFails
<1>4. heard' = [heard EXCEPT ![p] = h]
  <2>1. CASE goesOn
    BY <1>0, <2>1 DEF PostFails
  <2>2. CASE ~ goesOn
    BY <1>0, <2>2 DEF PostFails, Tell
  <2> QED
    BY <2>1, <2>2
<1>5. ~ goesOn => \E l \in Lane : u[l] >= Budget[l]
  <2>1. /\ watcher[p].used["rate"] \in Nat /\ watcher[p].used["transport"] \in Nat
        /\ CALLBACK_MAX_RETRIES \in Nat /\ RATE_LIMIT_RETRIES \in 1 .. 2
    BY <1>1, WatchAssumption DEF Lane
  <2>2. CASE lane = "rate"
    <3>1. u["rate"] = watcher[p].used["rate"] + 1 /\ u["transport"] = watcher[p].used["transport"]
      BY <1>1, <2>2 DEF Lane
    <3>2. goesOn <=> /\ watcher[p].used["rate"] + 1 < RATE_LIMIT_RETRIES
                     /\ watcher[p].used["rate"] + watcher[p].used["transport"] + 1
                          < CALLBACK_MAX_RETRIES + 2
      BY <2>2 DEF AttemptsLeft, Attempts, Budget, Lane
    <3> HIDE DEF goesOn, u
    <3>3. ~ goesOn => u["rate"] >= RATE_LIMIT_RETRIES \/ u["transport"] >= CALLBACK_MAX_RETRIES
      BY <2>1, <3>1, <3>2, LaneArithmetic
    <3> QED
      BY <3>3 DEF Budget, Lane
  <2>3. CASE lane = "transport"
    <3>1. u["transport"] = watcher[p].used["transport"] + 1 /\ u["rate"] = watcher[p].used["rate"]
      BY <1>1, <2>3 DEF Lane
    <3>2. goesOn <=> /\ watcher[p].used["transport"] + 1 < CALLBACK_MAX_RETRIES
                     /\ watcher[p].used["rate"] + watcher[p].used["transport"] + 1
                          < CALLBACK_MAX_RETRIES + 2
      BY <2>3 DEF AttemptsLeft, Attempts, Budget, Lane
    <3> HIDE DEF goesOn, u
    <3>3. ~ goesOn => u["rate"] >= RATE_LIMIT_RETRIES \/ u["transport"] >= CALLBACK_MAX_RETRIES
      BY <2>1, <3>1, <3>2, LaneArithmetic
    <3> QED
      BY <3>3 DEF Budget, Lane
  <2> QED
    BY <2>2, <2>3 DEF Lane
<1>6. SpentIn(watcher[p]) => \E l \in Lane : u[l] >= Budget[l]
  <2>1. \A l \in Lane : Budget[l] \in Nat /\ u[l] \in Nat /\ watcher[p].used[l] \in Nat
    BY <1>1, WatchAssumption DEF Budget, Lane
  <2> QED
    BY <1>1, <2>1 DEF SpentIn
<1> HIDE DEF v, u, goesOn
<1>7. w \in Watcher /\ w.at \in {"post", "ended"} /\ w.used = u /\ w.refused = watcher[p].refused
  BY <1>2 DEF Watcher
<1>8. h \in SUBSET WatchEvent /\ h \subseteq heard[p] \cup {"callback_failed"}
  BY <1>0 DEF WatchEvent
<1>9. "callback_failed" \in h => w.refused \/ SpentIn(w)
  BY <1>0, <1>5, <1>6, <1>7 DEF SpentIn, Sound
<1> HIDE DEF w, h
<1> QED
  BY <1>3, <1>4, <1>7, <1>8, <1>9

LEMMA WatchPosts ==
  ASSUME WatchInv, NEW p \in WatchedPrompts,
         Posted(p) \/ AnswerLost(p) \/ NotPosted(p) \/ Refused(p) \/ Blocked(p)
  PROVE  WatchInv'
<1>0. watcher[p] \in Watcher /\ Sound(p) /\ heard[p] \in SUBSET WatchEvent /\ job[p] \in Result \cup {"pending"}
      /\ watcher \in [WatchedPrompts -> Watcher] /\ heard \in [WatchedPrompts -> SUBSET WatchEvent]
      /\ delivered[p] \in Nat /\ misled[p] \in Nat
  BY WatchParts DEF WatchInv, WatchTyped
<1>1. watcher[p].at = "post" /\ delivered[p] <= misled[p] /\ delivered[p] <= misled[p] + 1
      /\ ("completed" \in heard[p] => job[p] = "completed")
      /\ ("callback_sent" \in heard[p] => delivered[p] > 0)
  BY <1>0 DEF Sound, Posted, AnswerLost, NotPosted, Refused, Blocked
<1>2. /\ job = [job EXCEPT ![p] = job[p]] /\ delivered = [delivered EXCEPT ![p] = delivered[p]]
      /\ misled = [misled EXCEPT ![p] = misled[p]] /\ heard = [heard EXCEPT ![p] = heard[p]]
  BY SameAt DEF WatchInv, WatchTyped
<1>3. CASE NotPosted(p)
  <2>1. PICK lane \in Lane : PostFails(p, lane)
    BY <1>3 DEF NotPosted
  <2>2. PICK w \in Watcher, h \in SUBSET WatchEvent :
           /\ watcher' = [watcher EXCEPT ![p] = w] /\ heard' = [heard EXCEPT ![p] = h]
           /\ w.at \in {"post", "ended"}
           /\ h \subseteq heard[p] \cup {"callback_failed"}
           /\ "callback_failed" \in h => w.refused \/ SpentIn(w)
    BY <1>1, <2>1, FailedPost
  <2>3. "completed" \in h => job[p] = "completed"
    BY <1>1, <2>2
  <2>4. "callback_sent" \in h => "callback_sent" \in heard[p]
    BY <2>2
  <2> QED
    BY <1>1, <1>3, <2>2, <2>3, <2>4, WatcherMoves DEF NotPosted
<1>4. CASE AnswerLost(p)
  <2>1. PICK w \in Watcher, h \in SUBSET WatchEvent :
           /\ watcher' = [watcher EXCEPT ![p] = w] /\ heard' = [heard EXCEPT ![p] = h]
           /\ w.at \in {"post", "ended"}
           /\ h \subseteq heard[p] \cup {"callback_failed"}
           /\ "callback_failed" \in h => w.refused \/ SpentIn(w)
    BY <1>1, <1>4, FailedPost DEF AnswerLost, Lane
  <2> DEFINE n == delivered[p] + 1  m == misled[p] + 1
  <2>2. delivered' = [delivered EXCEPT ![p] = n] /\ misled' = [misled EXCEPT ![p] = m] /\ job' = job
    BY <1>4 DEF AnswerLost
  <2>3. n \in Nat /\ m \in Nat /\ n <= m /\ n <= m + 1 /\ n > 0
    BY <1>0, <1>1
  <2>4. "completed" \in h => job[p] = "completed"
    BY <1>1, <2>1
  <2> HIDE DEF n, m
  <2> QED
    BY <1>0, <1>2, <2>1, <2>2, <2>3, <2>4, WatchFrame
<1>5. CASE Posted(p)
  <2> DEFINE n == delivered[p] + 1  w == [watcher[p] EXCEPT !.at = "ended"]
             h == heard[p] \cup {"callback_sent"}  j == job[p]  m == misled[p]
  <2>0. job' = [job EXCEPT ![p] = j] /\ misled' = [misled EXCEPT ![p] = m]
        /\ j \in Result \cup {"pending"} /\ m \in Nat
    BY <1>0, <1>2, <1>5 DEF Posted
  <2>1. /\ delivered' = [delivered EXCEPT ![p] = n] /\ heard' = [heard EXCEPT ![p] = h]
        /\ watcher' = [watcher EXCEPT ![p] = w] /\ UNCHANGED <<job, misled>>
    BY <1>0, <1>5 DEF Posted, Ends, Tell
  <2>2. n \in Nat /\ n <= m + 1 /\ n > 0
    BY <1>0, <1>1
  <2>3. w \in Watcher /\ w.at = "ended" /\ w.used = watcher[p].used /\ w.refused = watcher[p].refused
    BY <1>0 DEF Watcher
  <2>4. "callback_failed" \in h => w.refused \/ SpentIn(w)
    BY <1>0, <2>3 DEF Sound, SpentIn
  <2>5. h \in SUBSET WatchEvent /\ ("completed" \in h => j = "completed")
    BY <1>0, <1>1 DEF WatchEvent
  <2> HIDE DEF n, w, h, j, m
  <2> QED
    BY <2>0, <2>1, <2>2, <2>3, <2>4, <2>5, WatchFrame
<1>6. CASE Refused(p)
  <2> DEFINE v == [watcher[p] EXCEPT !.at = "ended"]
             w == [v EXCEPT !.refused = TRUE]
             h == heard[p] \cup {"callback_failed"}
  <2>1. v \in Watcher /\ v.at = "ended"
    BY <1>0 DEF Watcher
  <2>2. watcher' = [watcher EXCEPT ![p] = w] /\ heard' = [heard EXCEPT ![p] = h]
        /\ UNCHANGED <<job, delivered, misled>>
    BY <1>0, <1>6 DEF Refused, Tell
  <2> HIDE DEF v
  <2>3. w \in Watcher /\ w.at = "ended" /\ w.refused
    BY <2>1 DEF Watcher
  <2>4. h \in SUBSET WatchEvent /\ ("completed" \in h => job[p] = "completed")
        /\ ("callback_sent" \in h => "callback_sent" \in heard[p])
    BY <1>0, <1>1 DEF WatchEvent
  <2> HIDE DEF w, h
  <2> QED
    BY <2>2, <2>3, <2>4, WatcherMoves
<1>7. CASE Blocked(p)
  <2> DEFINE w == [watcher[p] EXCEPT !.at = "ended"]
  <2>1. w \in Watcher /\ w.at = "ended" /\ w.used = watcher[p].used /\ w.refused = watcher[p].refused
    BY <1>0 DEF Watcher
  <2>2. watcher' = [watcher EXCEPT ![p] = w] /\ heard' = [heard EXCEPT ![p] = heard[p]]
        /\ UNCHANGED <<job, delivered, misled>>
    BY <1>0, <1>2, <1>7 DEF Blocked, Ends
  <2>3. "callback_failed" \in heard[p] => w.refused \/ SpentIn(w)
    BY <1>0, <2>1 DEF Sound, SpentIn
  <2> HIDE DEF w
  <2> QED
    BY <1>0, <1>1, <2>1, <2>2, <2>3, WatcherMoves
<1> QED
  BY <1>3, <1>4, <1>5, <1>6, <1>7

LEMMA WatchJob ==
  ASSUME WatchInv, NEW p \in WatchedPrompts, JobEnds(p)
  PROVE  WatchInv'
<1>1. job[p] = "pending" /\ UNCHANGED <<watcher, heard, delivered, misled>>
      /\ \A q \in WatchedPrompts \ {p} : job'[q] = job[q]
  BY DEF JobEnds, WatchInv, WatchTyped
<1>2. WatchTyped'
  BY DEF JobEnds, WatchInv, WatchTyped
<1>3. ASSUME NEW q \in WatchedPrompts PROVE Sound(q)'
  <2>1. Sound(q) /\ ("completed" \in heard[q] => q # p)
    BY <1>1 DEF WatchInv, Sound
  <2> QED
    BY <1>1, <2>1 DEF Sound, SpentIn
<1> QED
  BY <1>2, <1>3 DEF WatchInv

LEMMA WatchRestarts ==
  ASSUME WatchInv, WatchRestart
  PROVE  WatchInv'
<1>1. ASSUME NEW p \in WatchedPrompts
      PROVE  /\ watcher'[p] \in Watcher /\ heard'[p] = {}
             /\ watcher'[p].at \in {"none", "poll"} => watcher'[p].polls < POLL_MAX_ATTEMPTS
             /\ watcher'[p].at # "ended" => watcher[p].at = "none"
  <2>1. watcher[p] \in Watcher
    BY WatchParts
  <2>2. CASE watcher[p].at = "none"
    <3>1. watcher'[p] = NoWatcher
      BY <2>2 DEF WatchRestart
    <3> QED
      BY <2>2, <3>1, WatchAssumption DEF WatchRestart, NoWatcher, Watcher, Lane
  <2>3. CASE watcher[p].at # "none"
    <3>1. watcher'[p] = [watcher[p] EXCEPT !.at = "ended"]
      BY <2>3 DEF WatchRestart
    <3> QED
      BY <2>1, <3>1 DEF WatchRestart, Watcher
  <2> QED
    BY <2>2, <2>3
<1>2. WatchTyped'
  BY <1>1 DEF WatchRestart, WatchInv, WatchTyped
<1>3. ASSUME NEW p \in WatchedPrompts PROVE Sound(p)'
  <2>1. Sound(p) /\ UNCHANGED <<job, delivered, misled>>
    BY DEF WatchInv, WatchRestart
  <2> QED
    BY <1>1, <2>1 DEF Sound
<1> QED
  BY <1>2, <1>3 DEF WatchInv

LEMMA WatchBegin == WatchInit => WatchInv
<1> SUFFICES ASSUME WatchInit PROVE WatchInv
  OBVIOUS
<1>1. NoWatcher \in Watcher /\ NoWatcher.polls = 0 /\ 0 < POLL_MAX_ATTEMPTS
  BY WatchAssumption DEF NoWatcher, Watcher, Lane
<1> QED
  BY <1>1 DEF WatchInit, WatchInv, WatchTyped, Sound

LEMMA WatchHold == WatchInv /\ [WatchNext]_watchVars => WatchInv'
<1> SUFFICES ASSUME WatchInv, [WatchNext]_watchVars PROVE WatchInv'
  OBVIOUS
<1>1. CASE UNCHANGED watchVars
  BY <1>1 DEF watchVars, WatchInv, WatchTyped, Sound, SpentIn
<1>2. CASE WatchNext
  BY <1>2, WatchPolls, WatchPosts, WatchJob, WatchRestarts DEF WatchNext
<1> QED
  BY <1>1, <1>2

LEMMA WatchAlways == WatchSpec => []WatchInv
BY WatchBegin, WatchHold, PTL DEF WatchSpec

\* The watcher of a prompt never polls or posts more often than it may, and the
\* events it emits tell the truth: what failed for good has spent the whole
\* budget of a lane or was refused, and a result is posted again only after an
\* answer that was lost (callback_delivery.py:269-281, retry_partition.py).
THEOREM CallbacksTellTheTruth == WatchSpec => []CallbackEventsTrue
<1>1. WatchInv => CallbackEventsTrue
  BY DEF WatchInv, Sound, SpentIn, CallbackEventsTrue
<1> QED
  BY <1>1, WatchAlways, PTL

-----------------------------------------------------------------------------
(* Model downloads.                                                        *)

DownloadTask == [state : TaskState, cancel : BOOLEAN, imported : BOOLEAN]

\* Only a task one of whose changes was not saved differs from its row.
Synced == \A t \in Downloads : t \notin unsaved => tasksFile[t] = tasks[t]

\* A worker that has seen the end of its transfer has its file, and one that
\* failed at the end has not saved its task.
WorkerHasFile ==
  \A t \in Downloads : /\ worker[t] = "ready" => t \in staged
                       /\ worker[t] = "failing" => t \in unsaved

\* A completed task has its file, in memory and on disk, and no worker that
\* would begin again; what was never created has no row.
FilesKept ==
  \A t \in Downloads :
    /\ tasks[t].state = "completed" \/ tasksFile[t].state = "completed" =>
         t \in staged /\ worker[t] \notin {"pending", "picked"}
    /\ tasks[t].state = "none" => tasksFile[t].state = "none"

\* A task that was installed is marked, or is about to be.
MarkedOnce ==
  \A t \in Downloads : t \notin unsaved =>
    /\ installed[t] <= 1
    /\ installed[t] = 1 => importing = t \/ tasks[t].imported

DownloadsInv ==
  /\ DownloadsTypeOK /\ ActiveBounded /\ Synced /\ WorkerHasFile /\ FilesKept
  /\ WorkerMatchesTask /\ MarkedOnce

\* What the properties need to know of a task.
TaskSound(t) ==
  /\ t \notin unsaved => tasksFile[t] = tasks[t]
  /\ worker[t] = "ready" => t \in staged
  /\ worker[t] = "failing" => t \in unsaved
  /\ tasks[t].state = "completed" \/ tasksFile[t].state = "completed" =>
       t \in staged /\ worker[t] \notin {"pending", "picked"}
  /\ tasks[t].state = "none" => tasksFile[t].state = "none"
  /\ worker[t] \in {"pending", "picked", "downloading", "ready"} => tasks[t].state \in {"queued", "running"}
  /\ tasks[t].state \in {"queued", "running"} => worker[t] \notin {"none", "gone"} \/ t \in unsaved
  /\ t \notin unsaved => /\ installed[t] <= 1
                         /\ installed[t] = 1 => importing = t \/ tasks[t].imported

LEMMA TasksSound ==
  ASSUME DownloadsTypeOK, ActiveBounded
  PROVE  DownloadsInv <=> \A t \in Downloads : TaskSound(t)
<1> QED
  BY DEF DownloadsInv, TaskSound, Synced, WorkerHasFile, FilesKept, WorkerMatchesTask, MarkedOnce,
     ActiveIn

LEMMA ActiveFinite ==
  ASSUME NEW m PROVE IsFiniteSet(ActiveIn(m)) /\ Cardinality(ActiveIn(m)) \in Nat
<1>1. ActiveIn(m) \subseteq Downloads
  BY DEF ActiveIn
<1> QED
  BY <1>1, DownloadsAssumption, FS_Subset, FS_CardinalityType

\* A table in which no task turned active has no more active tasks than before.
LEMMA FewerActive ==
  ASSUME NEW m, NEW n, ActiveIn(m) \subseteq ActiveIn(n), Cardinality(ActiveIn(n)) <= MAX_ACTIVE
  PROVE  Cardinality(ActiveIn(m)) <= MAX_ACTIVE
<1>1. Cardinality(ActiveIn(m)) <= Cardinality(ActiveIn(n))
  BY ActiveFinite, FS_Subset
<1> QED
  BY <1>1, ActiveFinite, DownloadsAssumption

\* The row of a task that changes in memory is saved or is known to differ.
LEMMA SaveOrNot ==
  ASSUME DownloadsInv, NEW t \in Downloads, Saved \/ NotSaved(t),
         tasks' \in [Downloads -> DownloadTask],
         Cardinality(ActiveIn(tasks')) <= MAX_ACTIVE
  PROVE  /\ tasksFile' \in [Downloads -> DownloadTask]
         /\ Cardinality(ActiveIn(tasksFile')) <= MAX_ACTIVE
         /\ unsaved' \subseteq Downloads /\ incidents' \in 0 .. MISHAPS
         /\ unsaved \subseteq unsaved'
         /\ \A u \in Downloads : u # t => (u \in unsaved' <=> u \in unsaved)
         /\ t \notin unsaved' => tasksFile'[t] = tasks'[t]
         /\ \A u \in Downloads : tasksFile'[u] = tasks'[u] \/ tasksFile'[u] = tasksFile[u]
<1>1. CASE Saved
  BY <1>1 DEF Saved, DownloadsInv, DownloadsTypeOK
<1>2. CASE NotSaved(t)
  BY <1>2, DownloadsAssumption DEF NotSaved, DownloadsInv, DownloadsTypeOK, ActiveBounded, DownloadTask
<1> QED
  BY <1>1, <1>2

\* One task changes: what a step of it or of its worker has to keep.
LEMMA DownloadsFrame ==
  ASSUME DownloadsInv, NEW t \in Downloads, Saved \/ NotSaved(t),
         NEW r \in DownloadTask, tasks' = [tasks EXCEPT ![t] = r],
         NEW p \in Phase, worker' = [worker EXCEPT ![t] = p],
         NEW i \in Nat, installed' = [installed EXCEPT ![t] = i],
         staged' \in SUBSET Downloads, \A u \in Downloads \ {t} : u \in staged' <=> u \in staged,
         cancelled' \in SUBSET Downloads,
         importing' \in {importing, "none"},
         importing' = importing \/ importing = t,
         r.state \in {"queued", "running"} =>
           \/ tasks[t].state \in {"queued", "running"}
           \/ Cardinality(ActiveIn(tasks)) < MAX_ACTIVE,
         p = "ready" => t \in staged',
         p = "failing" => t \in unsaved',
         r.state = "completed" \/ tasksFile'[t].state = "completed" =>
            t \in staged' /\ p \notin {"pending", "picked"},
         r.state = "none" => tasksFile'[t].state = "none",
         p \in {"pending", "picked", "downloading", "ready"} => r.state \in {"queued", "running"},
         r.state \in {"queued", "running"} => p \notin {"none", "gone"} \/ t \in unsaved',
         t \notin unsaved' => i <= 1 /\ (i = 1 => importing' = t \/ r.imported)
  PROVE  DownloadsInv'
<1>0. /\ tasks \in [Downloads -> DownloadTask] /\ tasksFile \in [Downloads -> DownloadTask]
      /\ worker \in [Downloads -> Phase] /\ installed \in [Downloads -> Nat]
      /\ importing \in Downloads \cup {"none"} /\ unsaved \subseteq Downloads
      /\ Cardinality(ActiveIn(tasks)) <= MAX_ACTIVE
      /\ \A u \in Downloads : TaskSound(u)
  BY TasksSound DEF DownloadsInv, DownloadsTypeOK, ActiveBounded, DownloadTask
<1>1. /\ tasks' \in [Downloads -> DownloadTask] /\ tasks'[t] = r
      /\ \A u \in Downloads \ {t} : tasks'[u] = tasks[u]
  BY <1>0
<1>2. Cardinality(ActiveIn(tasks')) <= MAX_ACTIVE
  <2>1. ActiveIn(tasks') \subseteq ActiveIn(tasks) \cup {t}
    BY <1>1 DEF ActiveIn
  <2>2. CASE ActiveIn(tasks') \subseteq ActiveIn(tasks)
    BY <1>0, <2>2, FewerActive
  <2>3. CASE ~ (ActiveIn(tasks') \subseteq ActiveIn(tasks))
    <3>1. t \in ActiveIn(tasks') /\ t \notin ActiveIn(tasks)
      BY <2>1, <2>3
    <3>2. Cardinality(ActiveIn(tasks)) < MAX_ACTIVE
      BY <1>1, <3>1 DEF ActiveIn
    <3>3. ActiveIn(tasks') = ActiveIn(tasks) \cup {t}
      BY <1>1, <3>1 DEF ActiveIn
    <3>4. Cardinality(ActiveIn(tasks')) = Cardinality(ActiveIn(tasks)) + 1
      BY <3>1, <3>3, ActiveFinite, Gains
    <3> QED
      BY <3>2, <3>4, ActiveFinite, DownloadsAssumption
  <2> QED
    BY <2>2, <2>3
<1>3. /\ tasksFile' \in [Downloads -> DownloadTask]
      /\ Cardinality(ActiveIn(tasksFile')) <= MAX_ACTIVE
      /\ unsaved' \subseteq Downloads /\ incidents' \in 0 .. MISHAPS
      /\ \A u \in Downloads : u # t => (u \in unsaved' <=> u \in unsaved)
      /\ t \notin unsaved' => tasksFile'[t] = tasks'[t]
      /\ \A u \in Downloads : tasksFile'[u] = tasks'[u] \/ tasksFile'[u] = tasksFile[u]
  BY <1>1, <1>2, SaveOrNot
<1>4. DownloadsTypeOK' /\ ActiveBounded'
  <2>1. DownloadsTypeOK'
    BY <1>0, <1>1, <1>3 DEF DownloadsTypeOK, DownloadTask
  <2>2. ActiveBounded'
    BY <1>2, <1>3 DEF ActiveBounded, ActiveIn
  <2> QED
    BY <2>1, <2>2
<1>5. TaskSound(t)'
  <2>1. worker'[t] = p /\ installed'[t] = i
    BY <1>0
  <2> QED
    BY <1>1, <1>3, <2>1 DEF TaskSound
<1>6. ASSUME NEW u \in Downloads, u # t PROVE TaskSound(u)'
  <2>1. worker'[u] = worker[u] /\ installed'[u] = installed[u] /\ (u \in staged' <=> u \in staged)
        /\ tasks'[u] = tasks[u] /\ (u \in unsaved' <=> u \in unsaved) /\ (importing = u => importing' = u)
    BY <1>0, <1>1, <1>3, <1>6
  <2>2. tasksFile'[u] = tasks[u] \/ tasksFile'[u] = tasksFile[u]
    BY <1>3, <2>1
  <2>3. TaskSound(u)
    BY <1>0
  <2> QED
    BY <2>1, <2>2, <2>3 DEF TaskSound
<1>7. \A u \in Downloads : TaskSound(u)'
  BY <1>5, <1>6
<1> QED
  BY <1>4, <1>7 DEF DownloadsInv, TaskSound, Synced, WorkerHasFile, FilesKept, WorkerMatchesTask,
     MarkedOnce, ActiveIn

\* The steps of a worker.
LEMMA TaskParts ==
  ASSUME DownloadsInv, NEW t \in Downloads
  PROVE  /\ tasks \in [Downloads -> DownloadTask] /\ worker \in [Downloads -> Phase]
         /\ installed \in [Downloads -> Nat] /\ importing \in Downloads \cup {"none"}
         /\ tasks[t] \in DownloadTask /\ tasksFile[t] \in DownloadTask /\ worker[t] \in Phase
         /\ installed[t] \in Nat /\ staged \in SUBSET Downloads /\ cancelled \in SUBSET Downloads
         /\ installed = [installed EXCEPT ![t] = installed[t]]
         /\ worker = [worker EXCEPT ![t] = worker[t]]
         /\ TaskSound(t)
<1> QED
  BY TasksSound DEF DownloadsInv, DownloadsTypeOK, DownloadTask

LEMMA Turned ==
  ASSUME DownloadsInv, NEW t \in Downloads, NEW s \in TaskState, Turn(t, s)
  PROVE  \E r \in DownloadTask :
           /\ tasks' = [tasks EXCEPT ![t] = r]
           /\ r.state = s /\ r.imported = tasks[t].imported /\ r.cancel = tasks[t].cancel
<1> DEFINE r == [tasks[t] EXCEPT !.state = s]
<1>1. tasks[t] \in DownloadTask /\ tasks \in [Downloads -> DownloadTask]
  BY TaskParts
<1>2. r \in DownloadTask /\ r.state = s /\ r.imported = tasks[t].imported /\ r.cancel = tasks[t].cancel
  BY <1>1 DEF DownloadTask
<1>3. tasks' = [tasks EXCEPT ![t] = r]
  BY <1>1 DEF Turn
<1> QED
  BY <1>2, <1>3

\* Whether the row of the task was saved.
LEMMA RowSaved ==
  ASSUME DownloadsInv, NEW t \in Downloads, Saved \/ NotSaved(t)
  PROVE  /\ t \notin unsaved' => t \notin unsaved /\ Saved
         /\ NotSaved(t) => t \in unsaved'
         /\ tasksFile'[t] = tasks'[t] \/ tasksFile'[t] = tasksFile[t]
         /\ Saved => tasksFile'[t] = tasks'[t]
<1> QED
  BY DEF Saved, NotSaved

LEMMA DownloadWorks ==
  ASSUME DownloadsInv, NEW t \in Downloads,
         CreateDownload(t) \/ Start(t) \/ Complete(t) \/ Fail(t) \/ Stop(t)
  PROVE  DownloadsInv'
<1>1. PICK s \in TaskState, p \in Phase :
        /\ Turn(t, s) /\ Goes(t, p) /\ (Saved \/ NotSaved(t))
        /\ staged' \in SUBSET Downloads /\ (\A u \in Downloads \ {t} : u \in staged' <=> u \in staged)
        /\ UNCHANGED <<cancelled, importing, installed>>
        /\ \/ /\ s = "queued" /\ p = "pending" /\ tasks[t].state = "none" /\ staged' = staged
              /\ Cardinality(ActiveIn(tasks)) < MAX_ACTIVE
           \/ /\ s = "running" /\ worker[t] = "picked"
              /\ (Saved /\ p = "downloading") \/ (NotSaved(t) /\ p = "gone")
           \/ /\ s = "completed" /\ worker[t] = "ready" /\ staged' = staged
              /\ (Saved /\ p = "gone") \/ (NotSaved(t) /\ p = "failing")
           \/ /\ s = "failed" /\ p = "gone" /\ staged' = staged
              /\ worker[t] \in {"downloading", "failing"}
           \/ /\ s = "cancelled" /\ p = "gone" /\ staged' = staged /\ worker[t] = "downloading"
  <2>1. staged \in SUBSET Downloads
    BY TaskParts
  <2>2. CASE CreateDownload(t)
    BY <2>1, <2>2 DEF CreateDownload, TaskState, Phase
  <2>3. CASE Start(t)
    BY <2>1, <2>3 DEF Start, TaskState, Phase
  <2>4. CASE Complete(t)
    BY <2>1, <2>4 DEF Complete, TaskState, Terminal, Phase
  <2>5. CASE Fail(t)
    BY <2>1, <2>5 DEF Fail, TaskState, Terminal, Phase
  <2>6. CASE Stop(t)
    BY <2>1, <2>6 DEF Stop, TaskState, Terminal, Phase
  <2> QED
    BY <2>2, <2>3, <2>4, <2>5, <2>6
<1>2. PICK r \in DownloadTask :
         /\ tasks' = [tasks EXCEPT ![t] = r]
         /\ r.state = s /\ r.imported = tasks[t].imported
  BY <1>1, Turned
<1>3. /\ tasks[t] \in DownloadTask /\ worker[t] \in Phase /\ installed[t] \in Nat /\ TaskSound(t)
      /\ tasks \in [Downloads -> DownloadTask]
      /\ cancelled \in SUBSET Downloads
  BY TaskParts
<1> DEFINE i == installed[t]
<1>4. i \in Nat /\ installed' = [installed EXCEPT ![t] = i] /\ tasks'[t] = r
  BY <1>1, <1>2, <1>3, TaskParts
<1>5. /\ t \notin unsaved' => t \notin unsaved /\ Saved
      /\ NotSaved(t) => t \in unsaved'
      /\ tasksFile'[t] = r \/ tasksFile'[t] = tasksFile[t]
      /\ Saved => tasksFile'[t] = r
  BY <1>1, <1>4, RowSaved
<1>6. worker' = [worker EXCEPT ![t] = p]
  BY <1>1 DEF Goes
<1>7. r.state \in {"queued", "running"} =>
        tasks[t].state \in {"queued", "running"} \/ Cardinality(ActiveIn(tasks)) < MAX_ACTIVE
  BY <1>1, <1>2, <1>3 DEF TaskSound
<1>8. (p = "ready" => t \in staged') /\ (p = "failing" => t \in unsaved')
  BY <1>1, <1>5
<1>9. r.state = "completed" \/ tasksFile'[t].state = "completed" =>
        t \in staged' /\ p \notin {"pending", "picked"}
  BY <1>1, <1>2, <1>3, <1>5 DEF TaskSound
<1>10. r.state # "none"
  BY <1>1, <1>2
<1>11. /\ p \in {"pending", "picked", "downloading", "ready"} => r.state \in {"queued", "running"}
       /\ r.state \in {"queued", "running"} => p \notin {"none", "gone"} \/ t \in unsaved'
  BY <1>1, <1>2, <1>5
<1>12. t \notin unsaved' => i <= 1 /\ (i = 1 => importing' = t \/ r.imported)
  BY <1>1, <1>2, <1>3, <1>5 DEF TaskSound
<1>13. /\ Saved \/ NotSaved(t)
       /\ staged' \in SUBSET Downloads /\ (\A u \in Downloads \ {t} : u \in staged' <=> u \in staged)
       /\ cancelled' \in SUBSET Downloads
       /\ importing' \in {importing, "none"} /\ (importing' = importing \/ importing = t)
  BY <1>1, <1>3
<1>14. tasks' = [tasks EXCEPT ![t] = r]
  BY <1>2
<1>15. installed' = [installed EXCEPT ![t] = i]
  BY <1>4
<1>16. r.state = "none" => tasksFile'[t].state = "none"
  BY <1>10
<1>17. i \in Nat
  BY <1>4
<1> HIDE DEF i
<1> QED
  BY <1>6, <1>7, <1>8, <1>9, <1>11, <1>12, <1>13, <1>14, <1>15, <1>16, <1>17, DownloadsFrame

LEMMA CancelWorks ==
  ASSUME DownloadsInv, NEW t \in Downloads, Cancel(t)
  PROVE  DownloadsInv'
<1> DEFINE p == IF worker[t] = "pending" THEN "gone" ELSE worker[t]
           s == IF worker[t] = "pending" THEN "cancelled" ELSE tasks[t].state
           q == [tasks[t] EXCEPT !.cancel = TRUE]
           r == [q EXCEPT !.state = s]
           i == installed[t]
<1>1. /\ tasks[t] \in DownloadTask /\ worker[t] \in Phase /\ i \in Nat /\ TaskSound(t)
      /\ tasks \in [Downloads -> DownloadTask] /\ staged \in SUBSET Downloads
      /\ cancelled \in SUBSET Downloads
      /\ installed = [installed EXCEPT ![t] = i]
      /\ worker = [worker EXCEPT ![t] = worker[t]]
  BY TaskParts
<1>2. /\ importing = "none" /\ tasks[t].state \in {"queued", "running"}
      /\ (Saved \/ NotSaved(t)) /\ UNCHANGED <<staged, importing, installed>>
      /\ cancelled' \in SUBSET Downloads
  BY <1>1 DEF Cancel, ActiveIn
<1>3. tasks' = [tasks EXCEPT ![t] = r]
  BY <1>1 DEF Cancel
<1>4. p \in Phase /\ worker' = [worker EXCEPT ![t] = p]
  BY <1>1 DEF Cancel, Phase
<1>5. q \in DownloadTask /\ q.imported = tasks[t].imported /\ s \in TaskState
  BY <1>1 DEF DownloadTask, TaskState, Terminal
<1>6. s \in {"queued", "running", "cancelled"} /\ (s = "cancelled" <=> worker[t] = "pending")
  BY <1>2
<1> HIDE DEF q
<1>7. r \in DownloadTask /\ r.imported = tasks[t].imported /\ r.state = s
  BY <1>5 DEF DownloadTask
<1> HIDE DEF r, s
<1>8. tasks'[t] = r
  BY <1>1, <1>3
<1>9. /\ t \notin unsaved' => t \notin unsaved /\ Saved
      /\ tasksFile'[t] = r \/ tasksFile'[t] = tasksFile[t]
      /\ t \in unsaved => t \in unsaved'
  BY <1>2, <1>8, RowSaved DEF Saved, NotSaved
<1>10. (p = "ready" => t \in staged') /\ (p = "failing" => t \in unsaved')
  BY <1>1, <1>2, <1>9 DEF TaskSound
<1>11. r.state = "completed" \/ tasksFile'[t].state = "completed" =>
        t \in staged' /\ p \notin {"pending", "picked"}
  BY <1>1, <1>2, <1>6, <1>7, <1>9 DEF TaskSound
<1>12. /\ p \in {"pending", "picked", "downloading", "ready"} => r.state \in {"queued", "running"}
       /\ r.state \in {"queued", "running"} => p \notin {"none", "gone"} \/ t \in unsaved'
  BY <1>1, <1>2, <1>6, <1>7, <1>9 DEF TaskSound
<1>13. t \notin unsaved' => i <= 1 /\ (i = 1 => importing' = t \/ r.imported)
  BY <1>1, <1>2, <1>7, <1>9 DEF TaskSound
<1> HIDE DEF i, p
<1> QED
  BY <1>1, <1>2, <1>3, <1>4, <1>6, <1>7, <1>10, <1>11, <1>12, <1>13, DownloadsFrame

LEMMA MarkWorks ==
  ASSUME DownloadsInv, NEW t \in Downloads, MarkImported(t)
  PROVE  DownloadsInv'
<1> DEFINE r == [tasks[t] EXCEPT !.imported = TRUE]  i == installed[t]  p == worker[t]
<1>1. /\ tasks[t] \in DownloadTask /\ p \in Phase /\ i \in Nat /\ TaskSound(t)
      /\ tasks \in [Downloads -> DownloadTask] /\ staged \in SUBSET Downloads
      /\ cancelled \in SUBSET Downloads
      /\ installed = [installed EXCEPT ![t] = i]
      /\ worker = [worker EXCEPT ![t] = p]
  BY TaskParts
<1>2. /\ importing = t /\ importing' = "none" /\ tasks' = [tasks EXCEPT ![t] = r]
      /\ (Saved \/ NotSaved(t)) /\ UNCHANGED <<worker, cancelled, staged, installed>>
  BY <1>1 DEF MarkImported
<1>3. r \in DownloadTask /\ r.imported /\ r.state = tasks[t].state
  BY <1>1 DEF DownloadTask
<1> HIDE DEF r
<1>4. tasks'[t] = r
  BY <1>1, <1>2
<1>5. /\ t \notin unsaved' => t \notin unsaved /\ Saved
      /\ tasksFile'[t] = r \/ tasksFile'[t] = tasksFile[t]
      /\ t \in unsaved => t \in unsaved'
  BY <1>2, <1>4, RowSaved DEF Saved, NotSaved
<1>6. (p = "ready" => t \in staged') /\ (p = "failing" => t \in unsaved')
  BY <1>1, <1>2, <1>5 DEF TaskSound
<1>7. r.state = "completed" \/ tasksFile'[t].state = "completed" =>
        t \in staged' /\ p \notin {"pending", "picked"}
  BY <1>1, <1>2, <1>3, <1>5 DEF TaskSound
<1>8. /\ p \in {"pending", "picked", "downloading", "ready"} => r.state \in {"queued", "running"}
      /\ r.state \in {"queued", "running"} => p \notin {"none", "gone"} \/ t \in unsaved'
  BY <1>1, <1>3, <1>5 DEF TaskSound
<1>9. t \notin unsaved' => i <= 1 /\ (i = 1 => importing' = t \/ r.imported)
  BY <1>1, <1>3, <1>5 DEF TaskSound
<1>10. r.state = "none" => tasksFile'[t].state = "none"
  BY <1>1, <1>3, <1>5 DEF TaskSound
<1>11. r.state \in {"queued", "running"} => tasks[t].state \in {"queued", "running"}
  BY <1>3
<1>12. /\ Saved \/ NotSaved(t)
       /\ staged' \in SUBSET Downloads /\ (\A u \in Downloads \ {t} : u \in staged' <=> u \in staged)
       /\ cancelled' \in SUBSET Downloads
       /\ importing' \in {importing, "none"} /\ importing = t
       /\ worker' = [worker EXCEPT ![t] = p] /\ installed' = [installed EXCEPT ![t] = i]
       /\ tasks' = [tasks EXCEPT ![t] = r]
       /\ p \in Phase /\ i \in Nat /\ r \in DownloadTask
  BY <1>1, <1>2, <1>3
<1> HIDE DEF i, p
<1> QED
  BY <1>6, <1>7, <1>8, <1>9, <1>10, <1>11, <1>12, DownloadsFrame

\* The steps that change no task.
LEMMA QuietFrame ==
  ASSUME DownloadsInv, tasks' = tasks, tasksFile' = tasksFile \/ tasksFile' = tasks,
         UNCHANGED <<cancelled, unsaved, incidents>>,
         worker' \in [Downloads -> Phase], staged' \in SUBSET Downloads,
         importing' \in Downloads \cup {"none"}, installed' \in [Downloads -> Nat],
         \A t \in Downloads : TaskSound(t)'
  PROVE  DownloadsInv'
<1>1. DownloadsTypeOK' /\ ActiveBounded'
  BY DEF DownloadsInv, DownloadsTypeOK, ActiveBounded, ActiveIn
<1> QED
  BY <1>1 DEF DownloadsInv, TaskSound, Synced, WorkerHasFile, FilesKept, WorkerMatchesTask,
     MarkedOnce, ActiveIn

LEMMA QuietSteps ==
  ASSUME DownloadsInv, NEW t \in Downloads,
         Pick(t) \/ Progress(t) \/ StageFile(t) \/ Import(t)
  PROVE  DownloadsInv'
<1>0. /\ tasks \in [Downloads -> DownloadTask] /\ worker \in [Downloads -> Phase]
      /\ installed \in [Downloads -> Nat] /\ importing \in Downloads \cup {"none"}
      /\ staged \in SUBSET Downloads
      /\ \A u \in Downloads : TaskSound(u)
  BY TaskParts
<1>1. CASE Pick(t)
  <2>1. ASSUME NEW u \in Downloads PROVE TaskSound(u)'
    <3>1. TaskSound(u) /\ (u # t => worker'[u] = worker[u])
          /\ (u = t => worker[u] = "pending" /\ worker'[u] = "picked")
      BY <1>0, <1>1 DEF Pick, Goes
    <3> QED
      BY <1>1, <3>1 DEF TaskSound, Pick
  <2>2. worker' \in [Downloads -> Phase]
    BY <1>0, <1>1 DEF Pick, Goes, Phase
  <2> QED
    BY <1>0, <1>1, <2>1, <2>2, QuietFrame DEF Pick
<1>2. CASE Progress(t)
  <2>1. ASSUME NEW u \in Downloads PROVE TaskSound(u)'
    <3>1. TaskSound(u)
      BY <1>0
    <3> QED
      BY <1>2, <3>1 DEF TaskSound, Progress
  <2> QED
    BY <1>0, <1>2, <2>1, QuietFrame DEF Progress
<1>3. CASE StageFile(t)
  <2>1. ASSUME NEW u \in Downloads PROVE TaskSound(u)'
    <3>1. TaskSound(u) /\ (u # t => worker'[u] = worker[u])
          /\ (u = t => worker[u] = "downloading" /\ worker'[u] = "ready")
      BY <1>0, <1>3 DEF StageFile, Goes
    <3> QED
      BY <1>3, <3>1 DEF TaskSound, StageFile
  <2>2. worker' \in [Downloads -> Phase] /\ staged' \in SUBSET Downloads
    BY <1>0, <1>3 DEF StageFile, Goes, Phase
  <2> QED
    BY <1>0, <1>3, <2>1, <2>2, QuietFrame DEF StageFile
<1>4. CASE Import(t)
  <2>1. installed' = [installed EXCEPT ![t] = installed[t] + 1] /\ installed' \in [Downloads -> Nat]
        /\ importing = "none" /\ importing' = t /\ ~ tasks[t].imported
        /\ UNCHANGED <<tasks, tasksFile, worker, cancelled, staged, unsaved, incidents>>
    BY <1>0, <1>4 DEF Import
  <2>2. t # "none"
    BY <1>0, <2>1, DownloadsAssumption
  <2>3. ASSUME NEW u \in Downloads PROVE TaskSound(u)'
    <3>1. TaskSound(u) /\ installed[u] \in Nat /\ (u # t => installed'[u] = installed[u])
          /\ (u = t => installed'[u] = installed[u] + 1) /\ u # "none"
      BY <1>0, <2>1, DownloadsAssumption
    <3>2. u = t /\ u \notin unsaved => installed[u] <= 1 /\ installed[u] # 1
      BY <2>1, <3>1 DEF TaskSound
    <3>3. u \notin unsaved => /\ installed'[u] <= 1
                              /\ installed'[u] = 1 => importing' = u \/ tasks[u].imported
      BY <2>1, <3>1, <3>2 DEF TaskSound
    <3> QED
      BY <2>1, <3>1, <3>3 DEF TaskSound
  <2> QED
    BY <1>0, <2>1, <2>3, QuietFrame
<1> QED
  BY <1>1, <1>2, <1>3, <1>4

\* The table after a crash is the one on disk, without tasks that run.
LEMMA RecoveredTable ==
  ASSUME DownloadsInv, NEW R \in SUBSET ActiveIn(tasksFile)
  PROVE  /\ Recovered(R) \in [Downloads -> DownloadTask]
         /\ Cardinality(ActiveIn(Recovered(R))) <= MAX_ACTIVE
         /\ \A t \in Downloads :
              /\ Recovered(R)[t].imported = tasksFile[t].imported
              /\ t \in R => Recovered(R)[t].state = "queued"
              /\ t \notin R => /\ Recovered(R)[t].state \notin {"queued", "running"}
                               /\ tasksFile[t].state = "none" <=> Recovered(R)[t].state = "none"
                               /\ Recovered(R)[t].state = "completed" => tasksFile[t].state = "completed"
                               /\ tasksFile[t].state \in Terminal => Recovered(R)[t] = tasksFile[t]
              /\ t \in R => tasksFile[t].state \in {"queued", "running"}
<1>1. ASSUME NEW t \in Downloads
      PROVE  /\ Recovered(R)[t] \in DownloadTask
             /\ Recovered(R)[t].imported = tasksFile[t].imported
             /\ t \in R => Recovered(R)[t].state = "queued"
             /\ t \notin R => /\ Recovered(R)[t].state \notin {"queued", "running"}
                              /\ tasksFile[t].state = "none" <=> Recovered(R)[t].state = "none"
                              /\ Recovered(R)[t].state = "completed" => tasksFile[t].state = "completed"
                              /\ tasksFile[t].state \in Terminal => Recovered(R)[t] = tasksFile[t]
             /\ t \in R => tasksFile[t].state \in {"queued", "running"}
  <2>0. tasksFile[t] \in DownloadTask
    BY TaskParts
  <2>1. CASE t \in R
    <3> DEFINE v == [tasksFile[t] EXCEPT !.state = "queued"]
    <3>1. v \in DownloadTask /\ v.state = "queued" /\ v.imported = tasksFile[t].imported
      BY <2>0 DEF DownloadTask, TaskState
    <3>2. Recovered(R)[t] = [v EXCEPT !.cancel = FALSE]
      BY <2>0, <2>1 DEF Recovered, DownloadTask
    <3> HIDE DEF v
    <3> QED
      BY <2>1, <3>1, <3>2 DEF DownloadTask, ActiveIn
  <2>2. CASE t \notin R /\ t \in ActiveIn(tasksFile)
    <3>1. Recovered(R)[t] = [tasksFile[t] EXCEPT !.state = "failed"]
      BY <2>2 DEF Recovered
    <3> QED
      BY <2>0, <2>2, <3>1 DEF DownloadTask, ActiveIn, TaskState, Terminal
  <2>3. CASE t \notin R /\ t \notin ActiveIn(tasksFile)
    <3>1. Recovered(R)[t] = tasksFile[t]
      BY <2>3 DEF Recovered
    <3> QED
      BY <2>0, <2>3, <3>1 DEF ActiveIn
  <2> QED
    BY <2>1, <2>2, <2>3
<1>2. Recovered(R) \in [Downloads -> DownloadTask]
  BY <1>1 DEF Recovered
<1>3. ActiveIn(Recovered(R)) \subseteq ActiveIn(tasksFile)
  BY <1>1 DEF ActiveIn
<1>4. Cardinality(ActiveIn(Recovered(R))) <= MAX_ACTIVE
  BY <1>3, FewerActive DEF DownloadsInv, ActiveBounded
<1> QED
  BY <1>1, <1>2, <1>4

LEMMA CrashSets ==
  ASSUME DownloadsInv, DownloadsCrash
  PROVE  \E R \in SUBSET ActiveIn(tasksFile) :
           /\ tasks' = Recovered(R) /\ tasksFile' = Recovered(R)
           /\ worker' = [t \in Downloads |-> IF t \in R THEN "pending"
                                             ELSE IF tasksFile[t].state = "none" THEN "none" ELSE "gone"]
<1> QED
  BY DEF DownloadsCrash, kSubset

LEMMA CrashWorks ==
  ASSUME DownloadsInv, DownloadsCrash
  PROVE  DownloadsInv'
<1>1. PICK R \in SUBSET ActiveIn(tasksFile) :
           /\ tasks' = Recovered(R) /\ tasksFile' = Recovered(R)
           /\ worker' = [t \in Downloads |-> IF t \in R THEN "pending"
                                             ELSE IF tasksFile[t].state = "none" THEN "none" ELSE "gone"]
  BY CrashSets
<1>2. /\ importing' = "none" /\ cancelled' = {} /\ UNCHANGED <<staged, installed>>
      /\ unsaved' = unsaved \cup ({importing} \ {"none"}) /\ incidents' = incidents + 1
      /\ incidents < MISHAPS
  BY DEF DownloadsCrash
<1>3. /\ tasks' \in [Downloads -> DownloadTask] /\ tasksFile' \in [Downloads -> DownloadTask]
      /\ Cardinality(ActiveIn(tasks')) <= MAX_ACTIVE
      /\ Cardinality(ActiveIn(tasksFile')) <= MAX_ACTIVE
  BY <1>1, RecoveredTable
<1>4. DownloadsTypeOK'
  <2>1. worker' \in [Downloads -> Phase]
    BY <1>1 DEF Phase
  <2> QED
    BY <1>2, <1>3, <2>1, DownloadsAssumption DEF DownloadsInv, DownloadsTypeOK, DownloadTask
<1>5. ActiveBounded'
  BY <1>3 DEF ActiveBounded, ActiveIn
<1>6. ASSUME NEW t \in Downloads PROVE TaskSound(t)'
  <2>1. /\ TaskSound(t) /\ t # "none" /\ tasks'[t] = tasksFile'[t]
        /\ t \in R => worker'[t] = "pending" /\ tasks'[t].state = "queued"
        /\ t \notin R => worker'[t] \in {"none", "gone"} /\ tasks'[t].state \notin {"queued", "running"}
        /\ tasks'[t].imported = tasksFile[t].imported
        /\ tasks'[t].state = "completed" => tasksFile[t].state = "completed"
    BY <1>1, TaskParts, RecoveredTable, DownloadsAssumption
  <2>2. t \notin unsaved' => t \notin unsaved /\ importing # t
    BY <1>2, <2>1
  <2>3. UNCHANGED <<staged, installed>>
    BY <1>2
  <2> QED
    BY <2>1, <2>2, <2>3 DEF TaskSound
<1> QED
  BY <1>4, <1>5, <1>6 DEF DownloadsInv, TaskSound, Synced, WorkerHasFile, FilesKept,
     WorkerMatchesTask, MarkedOnce, ActiveIn

LEMMA DownloadsBegin == DownloadsInit => DownloadsInv
<1> SUFFICES ASSUME DownloadsInit PROVE DownloadsInv
  OBVIOUS
<1>1. ActiveIn(tasks) = {} /\ ActiveIn(tasksFile) = {}
  BY DEF DownloadsInit, ActiveIn, NoTask
<1>2. ActiveBounded
  BY <1>1, FS_EmptySet, DownloadsAssumption DEF ActiveBounded
<1>3. DownloadsTypeOK
  BY DownloadsAssumption DEF DownloadsInit, DownloadsTypeOK, NoTask, TaskState, Phase
<1>4. \A t \in Downloads : TaskSound(t)
  BY DEF DownloadsInit, TaskSound, NoTask
<1> QED
  BY <1>2, <1>3, <1>4, TasksSound

LEMMA DownloadsHold == DownloadsInv /\ [DownloadsNext]_downloadVars => DownloadsInv'
<1> SUFFICES ASSUME DownloadsInv, [DownloadsNext]_downloadVars PROVE DownloadsInv'
  OBVIOUS
<1>1. CASE UNCHANGED downloadVars
  BY <1>1 DEF downloadVars, DownloadsInv, DownloadsTypeOK, ActiveBounded, Synced, WorkerHasFile,
     FilesKept, WorkerMatchesTask, MarkedOnce, ActiveIn
<1>2. CASE DownloadsNext
  BY <1>2, DownloadWorks, CancelWorks, MarkWorks, QuietSteps, CrashWorks
     DEF DownloadsNext, WorkerStep, HandlerStep
<1> QED
  BY <1>1, <1>2

LEMMA DownloadsAlways == DownloadsSpec => []DownloadsInv
BY DownloadsBegin, DownloadsHold, PTL DEF DownloadsSpec

\* Never are more downloads active than max_active, a completed task has its
\* file, an active one its worker, and a model is installed once, wherever the
\* process stops, unless a save failed (model_manager.py, model_manager_tasks.py).
THEOREM DownloadsAgree == DownloadsSpec => []DownloadsConsistent
<1>1. DownloadsInv => DownloadsConsistent
  <2> SUFFICES ASSUME DownloadsInv PROVE DownloadsConsistent
    OBVIOUS
  <2>1. CompletedHasFile
    BY DEF DownloadsInv, FilesKept, CompletedHasFile
  <2>2. InstalledOnce
    BY DEF DownloadsInv, MarkedOnce, InstalledOnce
  <2> QED
    BY <2>1, <2>2 DEF DownloadsInv, DownloadsConsistent
<1> QED
  BY <1>1, DownloadsAlways, PTL

\* How a download ended stays so, whatever handlers, workers, crashes and
\* recovery do to it, as long as its saves succeed (model_manager_tasks.py).
THEOREM EndsAreFinal == DownloadsSpec => TerminalIsFinal
<1>1. DownloadsInv /\ [DownloadsNext]_downloadVars
        => [\A t \in Downloads : tasks[t].state \in Terminal /\ t \notin unsaved'
                                   => tasks'[t].state = tasks[t].state]_downloadVars
  <2> SUFFICES ASSUME DownloadsInv, DownloadsNext, NEW t \in Downloads,
                      tasks[t].state \in Terminal, t \notin unsaved'
               PROVE  tasks'[t].state = tasks[t].state
    OBVIOUS
  <2>0. TaskSound(t) /\ tasks \in [Downloads -> DownloadTask] /\ tasks[t] \in DownloadTask
    BY TaskParts
  <2>1. tasks[t].state \notin {"none", "queued", "running"}
    BY DEF Terminal
  <2>2. CASE DownloadsCrash
    <3>1. PICK R \in SUBSET ActiveIn(tasksFile) : tasks' = Recovered(R)
      BY <2>2, CrashSets
    <3>2. t \notin unsaved
      BY <2>2 DEF DownloadsCrash
    <3>3. tasksFile[t] = tasks[t]
      BY <2>0, <3>2 DEF TaskSound
    <3> QED
      BY <2>1, <3>1, <3>3, RecoveredTable
  <2>3. ASSUME NEW u \in Downloads, Pick(u) \/ WorkerStep(u) \/ Progress(u) \/ HandlerStep(u)
        PROVE  tasks'[t].state = tasks[t].state
    <3>1. CASE Pick(u) \/ Progress(u) \/ StageFile(u) \/ Import(u)
      BY <3>1 DEF Pick, Progress, StageFile, Import
    <3>2. CASE MarkImported(u)
      BY <2>0, <3>2 DEF MarkImported, DownloadTask
    <3>3. CASE Cancel(u)
      BY <2>0, <2>1, <3>3 DEF Cancel, ActiveIn, DownloadTask
    <3>4. CASE CreateDownload(u) \/ Start(u) \/ Complete(u) \/ Fail(u) \/ Stop(u)
      <4>1. u # t => tasks'[t] = tasks[t]
        BY <2>0, <3>4 DEF CreateDownload, Start, Complete, Fail, Stop, Turn
      <4>2. u # t
        <5>1. t \notin unsaved
          BY <3>4 DEF CreateDownload, Start, Complete, Fail, Stop, Saved, NotSaved
        <5>2. worker[t] \notin {"pending", "picked", "downloading", "ready", "failing"}
          BY <2>0, <2>1, <5>1 DEF TaskSound
        <5> QED
          BY <2>1, <3>4, <5>2 DEF CreateDownload, Start, Complete, Fail, Stop
      <4> QED
        BY <4>1, <4>2
    <3> QED
      BY <2>3, <3>1, <3>2, <3>3, <3>4 DEF WorkerStep, HandlerStep
  <2> QED
    BY <2>2, <2>3 DEF DownloadsNext
<1> QED
  BY <1>1, DownloadsAlways, PTL DEF DownloadsSpec, TerminalIsFinal

-----------------------------------------------------------------------------
(* Failover between models.                                                *)

CallerAt == {"idle", "look", "expired", "gate", "request", "cool", "exhausted"}
Caller   == [at : CallerAt, left : Seq(Candidates), tries : Nat, sent : BOOLEAN, why : SUBSET Failures]

FailoverTyped ==
  /\ cooldowns \in [Candidates -> Int] /\ file \in [Candidates -> Nat]
  /\ failed \in [Candidates -> 0 .. LongAgo]
  /\ caller \in [Callers -> Caller]

\* A request that has candidates left, has asked one if it says so, and gives up
\* without having asked only for a last candidate that could not be asked.
Fine(x) ==
  /\ x.at # "idle" => x.left # <<>>
  /\ x.at \in {"request", "cool"} => x.sent
  /\ x.at = "exhausted" /\ ~ x.sent => Head(x.left) \notin usable

\* A candidate that failed over lately and whose cooldown is neither about to be
\* set nor deleted by mistake cools for what is left of the shortest cooldown, in
\* memory and, unless a save missed it, in the file.
Due(c)   == ~ CoolingBegins(c) /\ c \notin stolen
Again(c) == \E f \in Failures : <<c, f>> \in deduped
Fresh(c) ==
  Due(c) => /\ failed[c] < LongAgo => /\ cooldowns[c] + failed[c] >= Shortest
                                      /\ c \notin unwritten => file[c] + failed[c] >= Shortest
            /\ Again(c) => /\ cooldowns[c] >= Shortest
                           /\ c \notin unwritten => file[c] >= Shortest

FailoverInv ==
  /\ FailoverTyped
  /\ \A r \in Callers : Fine(caller[r])
  /\ \A c \in Candidates : Fresh(c)

\* The shortest cooldown is one of them, and two windows long or more.
LEMMA ShortestCooldown ==
  /\ Shortest \in Nat /\ Shortest >= 2 /\ LongAgo \in Nat /\ LongAgo = Shortest - 1 /\ LongAgo >= 1
  /\ \A f \in Failures : Cooldown[f] \in Nat /\ Shortest <= Cooldown[f]
<1> DEFINE D == {Cooldown[f] : f \in Failures}
<1>1. D \subseteq Nat \ {0, 1} /\ D # {} /\ \A f \in Failures : Cooldown[f] \in D
  BY FailoverAssumption
<1>2. \E d \in D : \A e \in D : d <= e
  <2> HIDE DEF D
  <2>1. Min(D) \in D /\ \A e \in D : Min(D) <= e
    BY <1>1, LeastOf
  <2> QED
    BY <2>1
<1>3. Shortest \in D /\ \A e \in D : Shortest <= e
  <2>1. Shortest = CHOOSE d \in D : \A e \in D : d <= e
    BY DEF Shortest
  <2> HIDE DEF D
  <2> QED
    BY <1>2, <2>1
<1>4. \A d \in D : d \in Nat /\ d >= 2
  BY <1>1
<1> HIDE DEF D
<1>5. Shortest \in Nat /\ Shortest >= 2
  BY <1>3, <1>4
<1>6. LongAgo \in Nat /\ LongAgo = Shortest - 1 /\ LongAgo >= 1
  BY <1>5 DEF LongAgo
<1>7. ASSUME NEW f \in Failures PROVE Cooldown[f] \in Nat /\ Shortest <= Cooldown[f]
  <2>1. Cooldown[f] \in D
    BY <1>1
  <2> QED
    BY <1>3, <1>4, <2>1
<1> QED
  BY <1>5, <1>6, <1>7

LEMMA FailoverParts ==
  ASSUME FailoverInv
  PROVE  /\ cooldowns \in [Candidates -> Int] /\ file \in [Candidates -> Nat]
         /\ failed \in [Candidates -> 0 .. LongAgo]
         /\ caller \in [Callers -> Caller]
         /\ \A r \in Callers : caller[r] \in Caller /\ Fine(caller[r])
         /\ \A c \in Candidates : Fresh(c) /\ cooldowns[c] \in Int /\ file[c] \in Nat /\ failed[c] \in 0 .. LongAgo
<1> QED
  BY DEF FailoverInv, FailoverTyped

LEMMA HeadOfList ==
  ASSUME NEW s \in Seq(Candidates), s # <<>>
  PROVE  /\ Head(s) \in Candidates /\ Len(s) \in Nat \ {0}
         /\ Len(s) # 1 => Tail(s) \in Seq(Candidates) /\ Tail(s) # <<>>
<1>1. Len(s) \in Nat /\ Len(s) # 0
  BY EmptySeq
<1>2. Head(s) = s[1] /\ 1 \in 1 .. Len(s)
  BY <1>1, HeadTailProperties
<1>3. Tail(s) \in Seq(Candidates) /\ Len(Tail(s)) = Len(s) - 1
  BY HeadTailProperties
<1>4. s[1] \in Candidates
  BY <1>1, <1>2, ElementOfSeq
<1>5. Len(s) # 1 => Len(Tail(s)) # 0
  BY <1>1, <1>3
<1>6. Tail(s) = <<>> => Len(Tail(s)) = 0
  BY EmptySeq
<1> QED
  BY <1>1, <1>2, <1>3, <1>4, <1>5, <1>6

\* What the move of one request means for the cooldowns that are about to be set.
LEMMA CoolingMoves ==
  ASSUME FailoverInv, NEW r \in Callers, NEW x \in Caller, caller' = [caller EXCEPT ![r] = x],
         NEW c \in Candidates
  PROVE  /\ caller' \in [Callers -> Caller]
         /\ x.at # "cool" /\ caller[r].at # "cool" => (CoolingBegins(c)' <=> CoolingBegins(c))
         /\ x.at # "cool" /\ caller[r].at = "cool" /\ Candidate(r) # c =>
              (CoolingBegins(c)' <=> CoolingBegins(c))
         /\ x.at = "cool" /\ Head(x.left) = c => CoolingBegins(c)'
         /\ x.at = "cool" /\ caller[r].at # "cool" /\ Head(x.left) # c =>
              (CoolingBegins(c)' <=> CoolingBegins(c))
<1>1. caller \in [Callers -> Caller]
  BY FailoverParts
<1>2. caller'[r] = x /\ (\A q \in Callers \ {r} : caller'[q] = caller[q]) /\ caller' \in [Callers -> Caller]
  BY <1>1
<1>3. CoolingBegins(c)' <=> \E q \in Callers : caller'[q].at = "cool" /\ Head(caller'[q].left) = c
  BY DEF CoolingBegins, Candidate
<1>4. CoolingBegins(c) <=> \E q \in Callers : caller[q].at = "cool" /\ Head(caller[q].left) = c
  BY DEF CoolingBegins, Candidate
<1> QED
  BY <1>2, <1>3, <1>4 DEF Candidate

\* Passing a candidate over.
LEMMA PassingOver ==
  ASSUME FailoverInv, NEW r \in Callers, caller[r].at # "idle", PassOver(r),
         IsLast(r) /\ ~ caller[r].sent => Candidate(r) \notin usable
  PROVE  \E x \in Caller : /\ caller' = [caller EXCEPT ![r] = x]
                           /\ x.at \in {"look", "exhausted"} /\ Fine(x)
<1>0. caller[r] \in Caller /\ Fine(caller[r]) /\ caller \in [Callers -> Caller]
  BY FailoverParts
<1>1. caller[r].left \in Seq(Candidates) /\ caller[r].left # <<>>
  BY <1>0 DEF Caller, Fine
<1> DEFINE l == IF IsLast(r) THEN caller[r].left ELSE Tail(caller[r].left)
           a == IF IsLast(r) THEN "exhausted" ELSE "look"
           x1 == [caller[r] EXCEPT !.left = l]
           x2 == [x1 EXCEPT !.at = a]
           x3 == [x2 EXCEPT !.tries = 0]
           x4 == [x3 EXCEPT !.why = {}]
<1>2. l \in Seq(Candidates) /\ l # <<>>
  BY <1>1, HeadOfList DEF IsLast
<1>3. caller' = [caller EXCEPT ![r] = x4]
  BY <1>0 DEF PassOver
<1>4. a \in {"look", "exhausted"} /\ (a = "exhausted" <=> IsLast(r))
  OBVIOUS
<1>5. IsLast(r) => l = caller[r].left
  OBVIOUS
<1> HIDE DEF l, a
<1>6. x1 \in Caller /\ x1.left = l /\ x1.sent = caller[r].sent
  BY <1>0, <1>2 DEF Caller
<1> HIDE DEF x1
<1>7. x2 \in Caller /\ x2.left = l /\ x2.sent = caller[r].sent /\ x2.at = a
  BY <1>4, <1>6 DEF Caller, CallerAt
<1> HIDE DEF x2
<1>8. x3 \in Caller /\ x3.left = l /\ x3.sent = caller[r].sent /\ x3.at = a
  BY <1>7 DEF Caller
<1> HIDE DEF x3
<1>9. x4 \in Caller /\ x4.left = l /\ x4.sent = caller[r].sent /\ x4.at = a
  BY <1>8 DEF Caller
<1> HIDE DEF x4
<1>10. Fine(x4)
  BY <1>2, <1>4, <1>5, <1>9 DEF Fine, Candidate
<1> QED
  BY <1>3, <1>4, <1>9, <1>10

\* Moving on to another check of the same candidate.
LEMMA MovingTo ==
  ASSUME FailoverInv, NEW r \in Callers, caller[r].at # "idle", NEW a \in {"look", "expired", "gate"},
         To(r, a)
  PROVE  \E x \in Caller : /\ caller' = [caller EXCEPT ![r] = x] /\ x.at = a /\ Fine(x)
<1>0. caller[r] \in Caller /\ Fine(caller[r]) /\ caller \in [Callers -> Caller]
  BY FailoverParts
<1> DEFINE x == [caller[r] EXCEPT !.at = a]
<1>1. x \in Caller /\ x.at = a /\ x.left = caller[r].left
  BY <1>0 DEF Caller, CallerAt
<1>2. caller' = [caller EXCEPT ![r] = x]
  BY <1>0 DEF To
<1> HIDE DEF x
<1>3. Fine(x)
  BY <1>0, <1>1 DEF Fine
<1> QED
  BY <1>1, <1>2, <1>3

LEMMA IdleCaller == Idle \in Caller /\ Fine(Idle) /\ Idle.at = "idle"
<1>1. <<>> \in Seq(Candidates)
  BY EmptySeq
<1> QED
  BY <1>1 DEF Idle, Caller, CallerAt, Fine

\* The list of a request: candidates, and one at least.
LEMMA OrdersAreLists == \A o \in Orders : o \in Seq(Candidates) /\ o # <<>>
<1> SUFFICES ASSUME NEW s \in SetToSeqs(Candidates) PROVE Cut(s) \in Seq(Candidates) /\ Cut(s) # <<>>
  BY DEF Orders
<1> DEFINE n == Cardinality(Candidates)
<1>1. n \in Nat /\ n # 0
  BY FailoverAssumption, FS_CardinalityType, FS_EmptySet
<1>2. s \in [1 .. n -> Candidates]
  BY DEF SetToSeqs
<1>3. s \in Seq(Candidates) /\ Len(s) = n
  BY <1>1, <1>2, IsASeq, LenProperties
<1> HIDE DEF n
<1> DEFINE m == IF Len(s) < MAX_FAILOVER_CANDIDATES THEN Len(s) ELSE MAX_FAILOVER_CANDIDATES
<1>4. m \in 1 .. Len(s)
  BY <1>1, <1>3, FailoverAssumption
<1>5. Cut(s) = SubSeq(s, 1, m)
  BY DEF Cut
<1> HIDE DEF m
<1>6. SubSeq(s, 1, m) \in Seq(Candidates) /\ Len(SubSeq(s, 1, m)) = m
  BY <1>3, <1>4, SubSeqProperties
<1> QED
  BY <1>4, <1>5, <1>6, EmptySeq

\* A step of one request that leaves the cooldowns and the failures alone.
LEMMA QuietMove ==
  ASSUME FailoverInv, NEW r \in Callers, NEW x \in Caller, caller' = [caller EXCEPT ![r] = x],
         x.at # "cool", caller[r].at # "cool", Fine(x),
         UNCHANGED <<usable, cooldowns, file, deduped, failed, unwritten, stolen>>
  PROVE  FailoverInv'
<1>1. caller \in [Callers -> Caller] /\ \A q \in Callers : Fine(caller[q])
  BY FailoverParts
<1>2. caller' \in [Callers -> Caller] /\ \A q \in Callers : caller'[q] = caller[q] \/ caller'[q] = x
  BY <1>1
<1>3. \A q \in Callers : Fine(caller[q])'
  BY <1>1, <1>2 DEF Fine
<1>4. ASSUME NEW c \in Candidates PROVE Fresh(c)'
  <2>1. Fresh(c)
    BY FailoverParts
  <2>2. CoolingBegins(c)' <=> CoolingBegins(c)
    BY CoolingMoves
  <2>3. Due(c)' <=> Due(c)
    BY <2>2 DEF Due
  <2>4. Again(c)' <=> Again(c)
    BY DEF Again
  <2> QED
    BY <2>1, <2>3, <2>4 DEF Fresh
<1> QED
  BY <1>2, <1>3, <1>4, FailoverParts DEF FailoverInv, FailoverTyped

\* What a save leaves in the file.
LEMMA Saving ==
  ASSUME FailoverInv, NEW c \in Candidates, NEW held \in [Candidates -> Int], Save(c, held)
  PROVE  /\ file' \in [Candidates -> Nat]
         /\ \A d \in Candidates :
              d \notin unwritten' =>
                \/ held[d] > 0 => file'[d] = held[d]
                \/ d # c /\ d \notin unwritten /\ file'[d] = file[d]
<1>1. CASE file' = [d \in Candidates |-> IF held[d] > 0 THEN held[d] ELSE 0]
  <2>1. \A d \in Candidates : held[d] \in Int
    OBVIOUS
  <2>2. \A d \in Candidates : (IF held[d] > 0 THEN held[d] ELSE 0) \in Nat
    BY <2>1
  <2>3. \A d \in Candidates : held[d] > 0 => file'[d] = held[d]
    BY <1>1
  <2> QED
    BY <1>1, <2>2, <2>3
<1>2. CASE file' = file /\ unwritten' = unwritten \cup {c}
  BY <1>2, FailoverParts
<1> QED
  BY <1>1, <1>2 DEF Save

\* A save for one candidate keeps what holds of the others.
LEMMA OthersFresh ==
  ASSUME FailoverInv, NEW c \in Candidates, NEW held \in [Candidates -> Int], Save(c, held),
         cooldowns' = held, NEW d \in Candidates \ {c}, held[d] = cooldowns[d],
         Due(d)' => Due(d), deduped' = deduped, failed' = failed
  PROVE  Fresh(d)'
<1>1. Fresh(d) /\ cooldowns[d] \in Int /\ file[d] \in Nat /\ failed[d] \in 0 .. LongAgo
  BY FailoverParts
<1>2. Again(d)' <=> Again(d)
  BY DEF Again
<1>3. /\ d \notin unwritten' =>
           \/ held[d] > 0 => file'[d] = held[d]
           \/ d \notin unwritten /\ file'[d] = file[d]
  BY Saving
<1>4. Shortest \in Nat /\ Shortest >= 2 /\ LongAgo = Shortest - 1
  BY ShortestCooldown
<1>5. ASSUME Due(d)', failed[d] < LongAgo
      PROVE  cooldowns'[d] + failed[d] >= Shortest /\ (d \notin unwritten' => file'[d] + failed[d] >= Shortest)
  <2>1. cooldowns[d] + failed[d] >= Shortest /\ (d \notin unwritten => file[d] + failed[d] >= Shortest)
    BY <1>1, <1>5 DEF Fresh
  <2>2. held[d] > 0
    BY <1>1, <1>4, <1>5, <2>1
  <2> QED
    BY <1>3, <2>1, <2>2
<1>6. ASSUME Due(d)', Again(d)
      PROVE  cooldowns'[d] >= Shortest /\ (d \notin unwritten' => file'[d] >= Shortest)
  <2>1. cooldowns[d] >= Shortest /\ (d \notin unwritten => file[d] >= Shortest)
    BY <1>1, <1>6 DEF Fresh
  <2>2. held[d] > 0
    BY <1>1, <1>4, <2>1
  <2> QED
    BY <1>3, <2>1, <2>2
<1> QED
  BY <1>2, <1>5, <1>6 DEF Fresh

LEMMA AskKeeps ==
  ASSUME FailoverInv, NEW r \in Callers, Ask(r)
  PROVE  FailoverInv'
<1>1. PICK o \in Orders : caller' = [caller EXCEPT ![r] = [Idle EXCEPT !.at = "look", !.left = o]]
  BY DEF Ask
<1> DEFINE x == [Idle EXCEPT !.at = "look", !.left = o]
<1>2. o \in Seq(Candidates) /\ o # <<>>
  BY OrdersAreLists
<1> DEFINE y == [Idle EXCEPT !.at = "look"]
<1>3. x = [y EXCEPT !.left = o]
  OBVIOUS
<1>4. y \in Caller /\ y.at = "look"
  BY IdleCaller DEF Caller, CallerAt
<1> HIDE DEF x, y
<1>5. x \in Caller /\ x.at = "look" /\ x.left = o
  BY <1>2, <1>3, <1>4 DEF Caller
<1>6. x \in Caller /\ x.at = "look" /\ Fine(x)
  BY <1>2, <1>5 DEF Fine
<1>7. caller[r].at # "cool" /\ UNCHANGED <<usable, cooldowns, file, deduped, failed, unwritten, stolen>>
  BY DEF Ask
<1>8. caller' = [caller EXCEPT ![r] = x]
  BY <1>1 DEF x
<1> QED
  BY <1>6, <1>7, <1>8, QuietMove

LEMMA CheckCooldownKeeps ==
  ASSUME FailoverInv, NEW r \in Callers, CheckCooldown(r)
  PROVE  FailoverInv'
<1>1. caller[r].at = "look" /\ UNCHANGED <<usable, cooldowns, file, deduped, failed, unwritten, stolen>>
  BY DEF CheckCooldown
<1>2. PICK x \in Caller : caller' = [caller EXCEPT ![r] = x] /\ x.at # "cool" /\ Fine(x)
  <2>1. CASE PassOver(r) /\ ~ IsLast(r)
    BY <1>1, <2>1, PassingOver
  <2>2. CASE To(r, "expired")
    BY <1>1, <2>2, MovingTo
  <2>3. CASE To(r, "gate")
    BY <1>1, <2>3, MovingTo
  <2> QED
    BY <2>1, <2>2, <2>3 DEF CheckCooldown
<1> QED
  BY <1>1, <1>2, QuietMove

LEMMA RequestEnds ==
  ASSUME FailoverInv, NEW r \in Callers, DeletedAlready(r) \/ Answered(r)
  PROVE  FailoverInv'
<1>1. caller[r].at # "cool" /\ caller' = [caller EXCEPT ![r] = Idle]
      /\ UNCHANGED <<usable, cooldowns, file, deduped, failed, unwritten, stolen>>
  BY DEF DeletedAlready, Answered
<1>2. Idle \in Caller /\ Fine(Idle) /\ Idle.at # "cool"
  BY IdleCaller
<1> QED
  BY <1>1, <1>2, QuietMove

LEMMA GateKeeps ==
  ASSUME FailoverInv, NEW r \in Callers, Gate(r)
  PROVE  FailoverInv'
<1>1. caller[r].at = "gate" /\ UNCHANGED <<usable, cooldowns, file, deduped, failed, unwritten, stolen>>
  BY DEF Gate
<1>2. PICK x \in Caller : caller' = [caller EXCEPT ![r] = x] /\ x.at # "cool" /\ Fine(x)
  <2>1. CASE PassOver(r) /\ (IsLast(r) => Candidate(r) \notin usable)
    BY <1>1, <2>1, PassingOver
  <2>2. CASE caller' = [caller EXCEPT ![r].at = "request", ![r].tries = 1, ![r].sent = TRUE]
    <3>0. caller[r] \in Caller /\ Fine(caller[r]) /\ caller \in [Callers -> Caller]
      BY FailoverParts
    <3> DEFINE x1 == [caller[r] EXCEPT !.at = "request"]
               x2 == [x1 EXCEPT !.tries = 1]
               x3 == [x2 EXCEPT !.sent = TRUE]
    <3>1. caller' = [caller EXCEPT ![r] = x3]
      BY <2>2, <3>0
    <3>2. x1 \in Caller /\ x1.at = "request" /\ x1.left = caller[r].left
      BY <3>0 DEF Caller, CallerAt
    <3> HIDE DEF x1
    <3>3. x2 \in Caller /\ x2.at = "request" /\ x2.left = caller[r].left
      BY <3>2 DEF Caller
    <3> HIDE DEF x2
    <3>4. x3 \in Caller /\ x3.at = "request" /\ x3.left = caller[r].left /\ x3.sent
      BY <3>3 DEF Caller
    <3> HIDE DEF x3
    <3>5. Fine(x3)
      BY <1>1, <3>0, <3>4 DEF Fine
    <3> QED
      BY <3>1, <3>4, <3>5
  <2> QED
    BY <2>1, <2>2 DEF Gate
<1> QED
  BY <1>1, <1>2, QuietMove

LEMMA FailsForNowKeeps ==
  ASSUME FailoverInv, NEW r \in Callers, FailsForNow(r)
  PROVE  FailoverInv'
<1>0. caller[r] \in Caller /\ Fine(caller[r]) /\ caller \in [Callers -> Caller]
  BY FailoverParts
<1>1. caller[r].at = "request" /\ UNCHANGED <<usable, cooldowns, file, deduped, failed, unwritten, stolen>>
  BY DEF FailsForNow
<1>2. PICK x \in Caller : caller' = [caller EXCEPT ![r] = x] /\ x.at # "cool" /\ Fine(x)
  <2>1. CASE PassOver(r)
    <3>1. caller[r].sent
      BY <1>0, <1>1 DEF Fine
    <3> QED
      BY <1>1, <2>1, <3>1, PassingOver
  <2>2. CASE caller' = [caller EXCEPT ![r].tries = @ + 1]
    <3> DEFINE n == caller[r].tries + 1
               x == [caller[r] EXCEPT !.tries = n]
    <3>1. caller' = [caller EXCEPT ![r] = x]
      BY <1>0, <2>2
    <3>4. n \in Nat
      BY <1>0 DEF Caller
    <3> HIDE DEF n
    <3>2. x \in Caller /\ x.at = "request" /\ x.left = caller[r].left /\ x.sent = caller[r].sent
      BY <1>0, <1>1, <3>4 DEF Caller
    <3> HIDE DEF x
    <3>3. Fine(x)
      BY <1>0, <1>1, <3>2 DEF Fine
    <3> QED
      BY <3>1, <3>2, <3>3
  <2> QED
    BY <2>1, <2>2 DEF FailsForNow
<1> QED
  BY <1>1, <1>2, QuietMove

LEMMA DeleteExpiredKeeps ==
  ASSUME FailoverInv, NEW r \in Callers, DeleteExpired(r)
  PROVE  FailoverInv'
<1>0. caller[r] \in Caller /\ Fine(caller[r]) /\ caller \in [Callers -> Caller]
  BY FailoverParts
<1>1. caller[r].at = "expired"
  BY DEF DeleteExpired
<1>2. PICK c \in Candidates : c = Candidate(r)
  BY <1>0, <1>1, HeadOfList DEF Caller, Fine, Candidate
<1> DEFINE held == [cooldowns EXCEPT ![c] = -1]
<1>3. caller[r].at = "expired" /\ cooldowns' = held /\ Save(c, held)
      /\ stolen' = (IF cooldowns[c] > 0 THEN stolen \cup {c} ELSE stolen)
      /\ To(r, "gate") /\ UNCHANGED <<usable, deduped, attempts, failed>>
  BY <1>2 DEF DeleteExpired
<1>4. held \in [Candidates -> Int] /\ \A d \in Candidates \ {c} : held[d] = cooldowns[d]
  BY <1>1, FailoverParts
<1>5. PICK x \in Caller : caller' = [caller EXCEPT ![r] = x] /\ x.at = "gate" /\ Fine(x)
  BY <1>3, MovingTo
<1> HIDE DEF held
<1>6. \A d \in Candidates : CoolingBegins(d)' <=> CoolingBegins(d)
  BY <1>3, <1>5, CoolingMoves
<1>7. file' \in [Candidates -> Nat]
  BY <1>3, <1>1, <1>4, Saving
<1>8. ASSUME NEW d \in Candidates \ {c} PROVE Fresh(d)'
  <2>1. Due(d)' => Due(d)
    BY <1>3, <1>6 DEF Due
  <2>2. deduped' = deduped /\ failed' = failed /\ cooldowns' = held /\ held[d] = cooldowns[d]
    BY <1>3, <1>4
  <2> QED
    BY <1>3, <1>1, <1>4, <2>1, <2>2, OthersFresh
<1>9. Fresh(c)'
  <2>1. Fresh(c) /\ cooldowns[c] \in Int /\ failed[c] \in 0 .. LongAgo
    BY <1>1, FailoverParts
  <2>2. Due(c)' => Due(c) /\ cooldowns[c] <= 0
    BY <1>3, <1>1, <1>6, <2>1 DEF Due
  <2>3. Due(c)' => ~ (failed[c] < LongAgo) /\ ~ Again(c)
    BY <2>1, <2>2, ShortestCooldown DEF Fresh
  <2>4. failed' = failed /\ (Again(c)' <=> Again(c))
    BY <1>3 DEF Again
  <2> QED
    BY <2>3, <2>4 DEF Fresh
<1>10. \A q \in Callers : Fine(caller[q])'
  <2>1. \A q \in Callers : caller'[q] = caller[q] \/ caller'[q] = x
    BY <1>0, <1>5
  <2> QED
    BY <1>3, <1>5, <2>1, FailoverParts DEF Fine
<1>11. FailoverTyped'
  <2>1. caller' \in [Callers -> Caller]
    BY <1>0, <1>5
  <2> QED
    BY <1>3, <1>4, <1>7, <2>1, FailoverParts DEF FailoverTyped
<1> QED
  BY <1>8, <1>9, <1>10, <1>11 DEF FailoverInv

LEMMA SetCooldownKeeps ==
  ASSUME FailoverInv, NEW r \in Callers, SetCooldown(r)
  PROVE  FailoverInv'
<1>0. caller[r] \in Caller /\ Fine(caller[r]) /\ caller \in [Callers -> Caller]
  BY FailoverParts
<1>1. caller[r].at = "cool"
  BY DEF SetCooldown
<1>2. PICK c \in Candidates : c = Candidate(r) /\ caller[r].sent
  BY <1>0, <1>1, HeadOfList DEF Caller, Fine, Candidate
<1>3. caller[r].at = "cool" /\ stolen' = stolen \ {c} /\ PassOver(r)
      /\ UNCHANGED <<usable, deduped, attempts, failed>>
  BY <1>2 DEF SetCooldown
<1>4. PICK f \in caller[r].why :
        cooldowns' = [cooldowns EXCEPT ![c] = Cooldown[f]] /\ Save(c, [cooldowns EXCEPT ![c] = Cooldown[f]])
  BY <1>2 DEF SetCooldown
<1>5. Cooldown[f] \in Nat /\ Cooldown[f] >= Shortest
  BY <1>0, ShortestCooldown DEF Caller
<1> DEFINE held == [cooldowns EXCEPT ![c] = Cooldown[f]]
<1>6. held \in [Candidates -> Int] /\ held[c] = Cooldown[f] /\ \A d \in Candidates \ {c} : held[d] = cooldowns[d]
  BY <1>2, <1>5, FailoverParts
<1>7. cooldowns' = held /\ Save(c, held)
  BY <1>4
<1>8. PICK x \in Caller : caller' = [caller EXCEPT ![r] = x] /\ x.at # "cool" /\ Fine(x)
  BY <1>2, <1>3, PassingOver
<1>9. \A d \in Candidates : d # c => (CoolingBegins(d)' <=> CoolingBegins(d))
  BY <1>2, <1>3, <1>8, CoolingMoves
<1> HIDE DEF held
<1>10. file' \in [Candidates -> Nat]
  BY <1>2, <1>6, <1>7, Saving
<1>11. ASSUME NEW d \in Candidates \ {c} PROVE Fresh(d)'
  <2>1. Due(d)' => Due(d)
    BY <1>3, <1>9 DEF Due
  <2>2. deduped' = deduped /\ failed' = failed /\ held[d] = cooldowns[d]
    BY <1>3, <1>6
  <2> QED
    BY <1>2, <1>6, <1>7, <2>1, <2>2, OthersFresh
<1>12. Fresh(c)'
  <2>1. failed' = failed /\ failed[c] \in 0 .. LongAgo
    BY <1>2, <1>3, FailoverParts
  <2>2. cooldowns'[c] \in Nat /\ cooldowns'[c] >= Shortest /\ Shortest \in Nat /\ Shortest >= 2 /\ LongAgo \in Nat
    BY <1>5, <1>6, <1>7, ShortestCooldown
  <2>3. c \notin unwritten' => file'[c] = held[c]
    BY <1>2, <1>5, <1>6, <1>7, <2>2, Saving
  <2>4. c \notin unwritten' => file'[c] \in Nat /\ file'[c] >= Shortest
    BY <1>5, <1>6, <2>3
  <2>5. cooldowns'[c] + failed'[c] >= Shortest /\ (c \notin unwritten' => file'[c] + failed'[c] >= Shortest)
    BY <2>1, <2>2, <2>4
  <2> QED
    BY <2>2, <2>4, <2>5 DEF Fresh
<1>13. \A q \in Callers : Fine(caller[q])'
  <2>1. \A q \in Callers : caller'[q] = caller[q] \/ caller'[q] = x
    BY <1>0, <1>8
  <2> QED
    BY <1>3, <1>8, <2>1, FailoverParts DEF Fine
<1>14. FailoverTyped'
  <2>1. caller' \in [Callers -> Caller]
    BY <1>0, <1>8
  <2> QED
    BY <1>3, <1>6, <1>7, <1>10, <2>1, FailoverParts DEF FailoverTyped
<1> QED
  BY <1>11, <1>12, <1>13, <1>14 DEF FailoverInv

LEMMA FailsOverKeeps ==
  ASSUME FailoverInv, NEW r \in Callers, FailsOver(r)
  PROVE  FailoverInv'
<1>0. caller[r] \in Caller /\ Fine(caller[r]) /\ caller \in [Callers -> Caller]
  BY FailoverParts
<1>1. caller[r].at = "request"
  BY DEF FailsOver
<1>2. PICK c \in Candidates : c = Candidate(r) /\ caller[r].sent
  BY <1>0, <1>1, HeadOfList DEF Caller, Fine, Candidate
<1>3. caller[r].at = "request" /\ failed' = [failed EXCEPT ![c] = 0]
      /\ UNCHANGED <<usable, cooldowns, file, attempts, unwritten, missed, stolen>>
  BY <1>2 DEF FailsOver
<1>4. PICK f \in Failures :
        IF Suppressed(c, f)
        THEN PassOver(r) /\ UNCHANGED deduped
        ELSE /\ deduped' = deduped \cup {<<c, f>>}
             /\ caller' = [caller EXCEPT ![r].at = "cool", ![r].why = {f}]
  BY <1>2 DEF FailsOver
<1>5. failed' \in [Candidates -> 0 .. LongAgo] /\ failed'[c] = 0
      /\ \A d \in Candidates \ {c} : failed'[d] = failed[d]
  BY <1>2, <1>3, FailoverParts, ShortestCooldown
<1>6. \A d \in Candidates \ {c} : Again(d)' <=> Again(d)
  BY <1>4 DEF Again
<1>7. PICK x \in Caller :
        /\ caller' = [caller EXCEPT ![r] = x] /\ Fine(x)
        /\ \/ x.at # "cool" /\ Again(c) /\ (Again(c)' <=> Again(c))
           \/ x.at = "cool" /\ Head(x.left) = c
  <2>1. CASE Suppressed(c, f)
    <3>1. PassOver(r) /\ deduped' = deduped
      BY <1>4, <2>1
    <3>2. PICK x \in Caller : caller' = [caller EXCEPT ![r] = x] /\ x.at # "cool" /\ Fine(x)
      BY <1>2, <1>3, <3>1, PassingOver
    <3>3. Again(c) /\ (Again(c)' <=> Again(c))
      BY <2>1, <3>1 DEF Again, Suppressed
    <3> QED
      BY <3>2, <3>3
  <2>2. CASE ~ Suppressed(c, f)
    <3> DEFINE x1 == [caller[r] EXCEPT !.at = "cool"]
               x2 == [x1 EXCEPT !.why = {f}]
    <3>1. caller' = [caller EXCEPT ![r] = x2]
      BY <1>0, <1>4, <2>2
    <3>2. x1 \in Caller /\ x1.at = "cool" /\ x1.left = caller[r].left /\ x1.sent = caller[r].sent
      BY <1>0 DEF Caller, CallerAt
    <3> HIDE DEF x1
    <3>3. x2 \in Caller /\ x2.at = "cool" /\ x2.left = caller[r].left /\ x2.sent = caller[r].sent
      BY <3>2 DEF Caller
    <3> HIDE DEF x2
    <3>4. Fine(x2)
      BY <1>0, <1>2, <1>3, <3>3 DEF Fine
    <3> QED
      BY <1>2, <3>1, <3>3, <3>4 DEF Candidate
  <2> QED
    BY <2>1, <2>2
<1>8. \A d \in Candidates : /\ d # c \/ x.at # "cool" => (CoolingBegins(d)' <=> CoolingBegins(d))
                            /\ d = c /\ x.at = "cool" => CoolingBegins(d)'
  BY <1>3, <1>7, CoolingMoves
<1>9. ASSUME NEW d \in Candidates \ {c} PROVE Fresh(d)'
  <2>1. Due(d)' <=> Due(d)
    BY <1>3, <1>8 DEF Due
  <2>2. Fresh(d)
    BY FailoverParts
  <2> QED
    BY <1>3, <1>5, <1>6, <2>1, <2>2 DEF Fresh
<1>10. Fresh(c)'
  <2>1. CASE x.at = "cool"
    <3>1. ~ Due(c)'
      BY <1>2, <1>7, <1>8, <2>1 DEF Due
    <3> QED
      BY <3>1 DEF Fresh
  <2>2. CASE x.at # "cool"
    <3>1. Fresh(c) /\ Again(c) /\ (Due(c)' <=> Due(c)) /\ cooldowns[c] \in Int /\ file[c] \in Nat
      BY <1>2, <1>3, <1>7, <1>8, <2>2, FailoverParts DEF Due
    <3>2. Due(c)' => cooldowns'[c] >= Shortest /\ (c \notin unwritten' => file'[c] >= Shortest)
      BY <1>3, <3>1 DEF Fresh
    <3>3. cooldowns'[c] \in Int /\ file'[c] \in Nat
      BY <1>3, <3>1
    <3>4. Due(c)' => cooldowns'[c] + failed'[c] >= Shortest /\ (c \notin unwritten' => file'[c] + failed'[c] >= Shortest)
      BY <1>5, <3>2, <3>3, ShortestCooldown
    <3> QED
      BY <3>2, <3>4 DEF Fresh
  <2> QED
    BY <2>1, <2>2
<1>11. \A q \in Callers : Fine(caller[q])'
  <2>1. \A q \in Callers : caller'[q] = caller[q] \/ caller'[q] = x
    BY <1>0, <1>7
  <2> QED
    BY <1>3, <1>7, <2>1, FailoverParts DEF Fine
<1>12. FailoverTyped'
  <2>1. caller' \in [Callers -> Caller]
    BY <1>0, <1>7
  <2> QED
    BY <1>3, <1>5, <2>1, FailoverParts DEF FailoverTyped
<1> QED
  BY <1>9, <1>10, <1>11, <1>12 DEF FailoverInv

\* What passes in one window: a cooldown loses what the age of a failure gains.
LEMMA TickKeeps ==
  ASSUME FailoverInv, FailoverTick
  PROVE  FailoverInv'
<1>1. UNCHANGED <<usable, caller, unwritten, stolen>> /\ deduped' = {}
  BY DEF FailoverTick
<1>2. ASSUME NEW c \in Candidates
      PROVE  /\ cooldowns'[c] \in Int /\ cooldowns'[c] = Passes(cooldowns[c])
             /\ file'[c] \in Nat /\ file'[c] = Passes(file[c])
             /\ failed'[c] \in 0 .. LongAgo
             /\ failed'[c] < LongAgo => failed[c] < LongAgo /\ failed'[c] = failed[c] + 1
  <2>1. cooldowns[c] \in Int /\ file[c] \in Nat /\ failed[c] \in 0 .. LongAgo /\ LongAgo \in Nat
    BY FailoverParts, ShortestCooldown
  <2> QED
    BY <2>1 DEF FailoverTick, Passes
<1>3. FailoverTyped'
  <2>1. cooldowns' \in [Candidates -> Int] /\ file' \in [Candidates -> Nat] /\ failed' \in [Candidates -> 0 .. LongAgo]
    BY <1>2 DEF FailoverTick
  <2> QED
    BY <1>1, <2>1, FailoverParts DEF FailoverTyped
<1>4. ASSUME NEW c \in Candidates PROVE Fresh(c)'
  <2>1. Fresh(c) /\ cooldowns[c] \in Int /\ file[c] \in Nat /\ failed[c] \in 0 .. LongAgo
    BY FailoverParts
  <2>2. Due(c)' <=> Due(c)
    BY <1>1 DEF Due, CoolingBegins, Candidate
  <2>3. ~ Again(c)'
    BY <1>1 DEF Again
  <2>4. ASSUME Due(c)', failed'[c] < LongAgo
        PROVE  cooldowns'[c] + failed'[c] >= Shortest /\ (c \notin unwritten' => file'[c] + failed'[c] >= Shortest)
    <3>1. failed[c] < LongAgo /\ failed'[c] = failed[c] + 1
      BY <1>2, <2>4
    <3>2. cooldowns[c] + failed[c] >= Shortest /\ (c \notin unwritten => file[c] + failed[c] >= Shortest)
      BY <2>1, <2>2, <2>4, <3>1 DEF Fresh
    <3>3. Shortest \in Nat /\ LongAgo = Shortest - 1
      BY ShortestCooldown
    <3>4. cooldowns[c] > 0 /\ cooldowns'[c] = cooldowns[c] - 1
      BY <1>2, <2>1, <3>1, <3>2, <3>3 DEF Passes
    <3>5. c \notin unwritten => file[c] > 0 /\ file'[c] = file[c] - 1
      BY <1>2, <2>1, <3>1, <3>2, <3>3 DEF Passes
    <3> QED
      BY <1>1, <2>1, <3>1, <3>2, <3>3, <3>4, <3>5
  <2> QED
    BY <2>3, <2>4 DEF Fresh
<1>5. \A q \in Callers : Fine(caller[q])'
  BY <1>1, FailoverParts DEF Fine
<1> QED
  BY <1>3, <1>4, <1>5 DEF FailoverInv

LEMMA FailoverRestarts ==
  ASSUME FailoverInv, FailoverRestart
  PROVE  FailoverInv'
<1>1. UNCHANGED <<usable, file, stolen>> /\ deduped' = {} /\ unwritten' = {}
      /\ caller' = [r \in Callers |-> Idle]
  BY DEF FailoverRestart
<1>2. \A r \in Callers : caller'[r] = Idle
  BY <1>1
<1>3. caller' \in [Callers -> Caller] /\ \A q \in Callers : Fine(caller[q])'
  BY <1>1, <1>2, IdleCaller DEF Fine
<1>4. ASSUME NEW c \in Candidates
      PROVE  /\ cooldowns'[c] \in Int /\ (file[c] > 0 => cooldowns'[c] = file[c])
             /\ failed'[c] \in 0 .. LongAgo
             /\ failed'[c] < LongAgo => c \notin unwritten /\ ~ CoolingBegins(c) /\ failed'[c] = failed[c]
  <2>1. file[c] \in Nat /\ failed[c] \in 0 .. LongAgo /\ LongAgo \in Nat
    BY FailoverParts, ShortestCooldown
  <2>2. cooldowns'[c] = IF file[c] > 0 THEN file[c] ELSE -1
    BY DEF FailoverRestart
  <2>3. failed'[c] = IF c \in unwritten \/ CoolingBegins(c) THEN LongAgo ELSE failed[c]
    BY DEF FailoverRestart
  <2> QED
    BY <2>1, <2>2, <2>3
<1>5. FailoverTyped'
  <2>1. cooldowns' \in [Candidates -> Int] /\ failed' \in [Candidates -> 0 .. LongAgo]
    BY <1>4 DEF FailoverRestart
  <2> QED
    BY <1>1, <1>3, <2>1, FailoverParts DEF FailoverTyped
<1>6. ASSUME NEW c \in Candidates PROVE Fresh(c)'
  <2>1. ~ Again(c)'
    BY <1>1 DEF Again
  <2>2. ASSUME Due(c)', failed'[c] < LongAgo
        PROVE  cooldowns'[c] + failed'[c] >= Shortest /\ file'[c] + failed'[c] >= Shortest
    <3>1. Due(c) /\ c \notin unwritten /\ failed'[c] = failed[c]
      BY <1>1, <1>4, <2>2 DEF Due
    <3>2. file[c] + failed[c] >= Shortest /\ file[c] \in Nat /\ failed[c] \in 0 .. LongAgo
      BY <2>2, <3>1, FailoverParts DEF Fresh
    <3>3. file[c] > 0
      BY <2>2, <3>1, <3>2, ShortestCooldown
    <3> QED
      BY <1>1, <1>4, <3>1, <3>2, <3>3
  <2> QED
    BY <2>1, <2>2 DEF Fresh
<1> QED
  BY <1>3, <1>5, <1>6 DEF FailoverInv

LEMMA FailoverBegin == FailoverInit => FailoverInv
<1> SUFFICES ASSUME FailoverInit PROVE FailoverInv
  OBVIOUS
<1>1. /\ cooldowns = [c \in Candidates |-> -1] /\ file = [c \in Candidates |-> 0] /\ deduped = {}
      /\ caller = [r \in Callers |-> Idle] /\ failed = [c \in Candidates |-> LongAgo]
  BY DEF FailoverInit
<1>2. \A r \in Callers : caller[r] = Idle
  BY <1>1
<1>3. FailoverTyped
  BY <1>1, IdleCaller, ShortestCooldown DEF FailoverTyped
<1>4. \A r \in Callers : Fine(caller[r])
  BY <1>2, IdleCaller
<1>5. ASSUME NEW c \in Candidates PROVE Fresh(c)
  <2>1. ~ (failed[c] < LongAgo) /\ ~ Again(c)
    BY <1>1, ShortestCooldown DEF Again
  <2> QED
    BY <2>1 DEF Fresh
<1> QED
  BY <1>3, <1>4, <1>5 DEF FailoverInv

LEMMA FailoverHold == FailoverInv /\ [FailoverNext]_failoverVars => FailoverInv'
<1> SUFFICES ASSUME FailoverInv, [FailoverNext]_failoverVars PROVE FailoverInv'
  OBVIOUS
<1>1. CASE UNCHANGED failoverVars
  BY <1>1 DEF FailoverInv, FailoverTyped, failoverVars, Fine, Fresh, Due, Again, CoolingBegins, Candidate
<1>2. CASE FailoverTick
  BY <1>2, TickKeeps
<1>3. CASE FailoverRestart
  BY <1>3, FailoverRestarts
<1>4. ASSUME NEW r \in Callers,
             \/ Ask(r) \/ CheckCooldown(r) \/ DeleteExpired(r) \/ DeletedAlready(r) \/ Gate(r)
             \/ Answered(r) \/ FailsForNow(r) \/ FailsOver(r) \/ SetCooldown(r)
      PROVE  FailoverInv'
  <2>1. CASE Ask(r)
    BY <2>1, AskKeeps
  <2>2. CASE CheckCooldown(r)
    BY <2>2, CheckCooldownKeeps
  <2>3. CASE DeleteExpired(r)
    BY <2>3, DeleteExpiredKeeps
  <2>4. CASE DeletedAlready(r) \/ Answered(r)
    BY <2>4, RequestEnds
  <2>5. CASE Gate(r)
    BY <2>5, GateKeeps
  <2>6. CASE FailsForNow(r)
    BY <2>6, FailsForNowKeeps
  <2>7. CASE FailsOver(r)
    BY <2>7, FailsOverKeeps
  <2>8. CASE SetCooldown(r)
    BY <2>8, SetCooldownKeeps
  <2> QED
    BY <1>4, <2>1, <2>2, <2>3, <2>4, <2>5, <2>6, <2>7, <2>8
<1> QED
  BY <1>1, <1>2, <1>3, <1>4 DEF FailoverNext

LEMMA FailoverAlways == FailoverSpec => []FailoverInv
BY FailoverBegin, FailoverHold, PTL DEF FailoverSpec

\* A candidate that failed over cools for the shortest cooldown less one window
\* (set_cooldown, is_cooling_down and should_suppress_duplicate of
\* services/failover.py), however requests meet and although a repetition of the
\* failure is not recorded, also after a restart, unless a save missed it or
\* another thread deleted the new cooldown for the expired one it had found.
THEOREM FailuresCool == FailoverSpec => []FailureCools
<1>1. FailoverInv => FailureCools
  <2> SUFFICES ASSUME FailoverInv, NEW c \in Candidates, failed[c] < LongAgo, ~ CoolingBegins(c), c \notin stolen
               PROVE  cooldowns[c] > 0
    BY DEF FailureCools
  <2>1. Fresh(c) /\ cooldowns[c] \in Int /\ failed[c] \in 0 .. LongAgo
    BY FailoverParts
  <2>2. cooldowns[c] + failed[c] >= Shortest
    BY <2>1 DEF Fresh, Due
  <2> QED
    BY <2>1, <2>2, ShortestCooldown
<1> QED
  BY <1>1, FailoverAlways, PTL

\* A request that gives up without having asked any candidate found that the last
\* of its list has no key or no permitted address: neither a cooldown nor the
\* interval between attempts keeps it from that one (the failover loop of
\* services/llm_client.py, "Never hard-block the final candidate").
THEOREM LastIsAsked == FailoverSpec => []TriedBeforeGivingUp
<1>1. FailoverInv => TriedBeforeGivingUp
  <2> SUFFICES ASSUME FailoverInv, NEW r \in Callers, caller[r].at = "exhausted", ~ caller[r].sent
               PROVE  Candidate(r) \notin usable
    BY DEF TriedBeforeGivingUp
  <2>1. Fine(caller[r])
    BY FailoverParts
  <2> QED
    BY <2>1 DEF Fine, Candidate
<1> QED
  BY <1>1, FailoverAlways, PTL

LEMMA LongestCooldown == Longest \in Nat /\ \A f \in Failures : Cooldown[f] \in 0 .. Longest
<1> DEFINE D == {Cooldown[f] : f \in Failures}
<1>1. D \subseteq Nat /\ D # {} /\ \A f \in Failures : Cooldown[f] \in D
  BY FailoverAssumption
<1>2. IsFiniteSet(D)
  <2>1. [f \in Failures |-> Cooldown[f]] \in Surjection(Failures, D)
    BY DEF Surjection
  <2> HIDE DEF D
  <2> QED
    BY <2>1, FailoverAssumption, FS_Surjection
<1>3. Longest = CHOOSE d \in D : \A f \in Failures : Cooldown[f] <= d
  BY DEF Longest
<1> HIDE DEF D
<1>4. \E d \in D : \A f \in Failures : Cooldown[f] <= d
  BY <1>1, <1>2, GreatestOf
<1>5. Longest \in D /\ \A f \in Failures : Cooldown[f] <= Longest
  BY <1>3, <1>4
<1>6. Longest \in Nat /\ \A f \in Failures : Cooldown[f] \in Nat
  BY <1>1, <1>5
<1> QED
  BY <1>5, <1>6

\* No cooldown is longer than the longest, and nothing is kept of what is no candidate.
FailoverRanged ==
  /\ usable \subseteq Candidates /\ attempts \subseteq Candidates
  /\ deduped \subseteq Candidates \X Failures
  /\ \A c \in Candidates : cooldowns[c] \in -1 .. Longest /\ file[c] \in 0 .. Longest

LEMMA SaveRanged ==
  ASSUME FailoverRanged, FailoverInv', NEW held, cooldowns' = held, NEW c, Save(c, held),
         \A d \in Candidates : held[d] \in -1 .. Longest
  PROVE  \A d \in Candidates : cooldowns'[d] \in -1 .. Longest /\ file'[d] \in 0 .. Longest
<1>1. Longest \in Nat
  BY LongestCooldown
<1>2. CASE file' = [d \in Candidates |-> IF held[d] > 0 THEN held[d] ELSE 0]
  BY <1>1, <1>2
<1>3. CASE file' = file
  BY <1>3 DEF FailoverRanged
<1> QED
  BY <1>2, <1>3 DEF Save

LEMMA RangesHold ==
  ASSUME FailoverInv, FailoverInv', FailoverRanged, [FailoverNext]_failoverVars
  PROVE  FailoverRanged'
<1>0. Longest \in Nat /\ cooldowns \in [Candidates -> Int]
  BY LongestCooldown, FailoverParts
<1>1. CASE UNCHANGED <<usable, attempts, deduped, cooldowns, file>>
  BY <1>1 DEF FailoverRanged
<1>2. CASE FailoverTick
  <2>1. ASSUME NEW c \in Candidates
        PROVE  cooldowns'[c] \in -1 .. Longest /\ file'[c] \in 0 .. Longest
    <3>1. /\ cooldowns'[c] = Passes(cooldowns[c]) /\ file'[c] = Passes(file[c])
          /\ cooldowns[c] \in -1 .. Longest /\ file[c] \in 0 .. Longest
      BY <1>2 DEF FailoverTick, FailoverRanged
    <3> QED
      BY <1>0, <3>1 DEF Passes
  <2> QED
    BY <1>2, <2>1 DEF FailoverTick, FailoverRanged
<1>3. CASE FailoverRestart
  <2>1. ASSUME NEW c \in Candidates
        PROVE  cooldowns'[c] \in -1 .. Longest /\ file'[c] \in 0 .. Longest
    <3>1. /\ cooldowns'[c] = IF file[c] > 0 THEN file[c] ELSE -1
          /\ file'[c] = file[c] /\ file[c] \in 0 .. Longest
      BY <1>3 DEF FailoverRestart, FailoverRanged
    <3> QED
      BY <1>0, <3>1
  <2> QED
    BY <1>3, <2>1 DEF FailoverRestart, FailoverRanged
<1>4. ASSUME NEW r \in Callers,
             \/ Ask(r) \/ CheckCooldown(r) \/ DeletedAlready(r) \/ Answered(r) \/ FailsForNow(r)
      PROVE  FailoverRanged'
  <2>1. UNCHANGED <<usable, attempts, deduped, cooldowns, file>>
    BY <1>4 DEF Ask, CheckCooldown, DeletedAlready, Answered, FailsForNow
  <2> QED
    BY <1>1, <2>1
<1>5. ASSUME NEW r \in Callers, DeleteExpired(r) \/ Gate(r) \/ FailsOver(r) \/ SetCooldown(r)
      PROVE  FailoverRanged'
  <2>1. caller[r] \in Caller /\ Fine(caller[r])
    BY FailoverParts
  <2>2. caller[r].at # "idle"
    BY <1>5 DEF DeleteExpired, Gate, FailsOver, SetCooldown
  <2>3. PICK c \in Candidates : c = Candidate(r)
    BY <2>1, <2>2, HeadOfList DEF Caller, Fine, Candidate
  <2>4. CASE DeleteExpired(r)
    <3>1. /\ cooldowns' = [cooldowns EXCEPT ![c] = -1] /\ Save(c, [cooldowns EXCEPT ![c] = -1])
          /\ UNCHANGED <<usable, deduped, attempts>>
      BY <2>3, <2>4 DEF DeleteExpired
    <3> DEFINE held == [cooldowns EXCEPT ![c] = -1]
    <3>2. \A d \in Candidates : held[d] \in -1 .. Longest
      BY <1>0 DEF FailoverRanged
    <3>3. cooldowns' = held /\ Save(c, held)
      BY <3>1
    <3> HIDE DEF held
    <3> QED
      BY <3>1, <3>2, <3>3, SaveRanged DEF FailoverRanged
  <2>5. CASE SetCooldown(r)
    <3>1. PICK f \in caller[r].why :
            cooldowns' = [cooldowns EXCEPT ![c] = Cooldown[f]] /\ Save(c, [cooldowns EXCEPT ![c] = Cooldown[f]])
      BY <2>3, <2>5 DEF SetCooldown
    <3>2. Cooldown[f] \in 0 .. Longest
      BY <2>1, LongestCooldown DEF Caller
    <3> DEFINE held == [cooldowns EXCEPT ![c] = Cooldown[f]]
    <3>3. \A d \in Candidates : held[d] \in -1 .. Longest
      BY <1>0, <3>2 DEF FailoverRanged
    <3>4. cooldowns' = held /\ Save(c, held)
      BY <3>1
    <3>5. UNCHANGED <<usable, deduped, attempts>>
      BY <2>5 DEF SetCooldown
    <3> HIDE DEF held
    <3> QED
      BY <3>3, <3>4, <3>5, SaveRanged DEF FailoverRanged
  <2>6. CASE Gate(r)
    BY <2>3, <2>6 DEF Gate, FailoverRanged
  <2>7. CASE FailsOver(r)
    <3>1. UNCHANGED <<usable, attempts, cooldowns, file>>
      BY <2>7 DEF FailsOver
    <3>2. deduped' = deduped \/ \E f \in Failures : deduped' = deduped \cup {<<c, f>>}
      BY <2>3, <2>7 DEF FailsOver
    <3> QED
      BY <3>1, <3>2 DEF FailoverRanged
  <2> QED
    BY <1>5, <2>4, <2>5, <2>6, <2>7
<1>6. UNCHANGED failoverVars => FailoverRanged'
  BY <1>1 DEF failoverVars
<1> QED
  BY <1>2, <1>3, <1>4, <1>5, <1>6 DEF FailoverNext

LEMMA RangesBegin == FailoverInit => FailoverRanged
BY LongestCooldown DEF FailoverInit, FailoverRanged

LEMMA FailoverWellFormed == ASSUME FailoverInv, FailoverRanged PROVE FailoverTypeOK
<1>1. /\ cooldowns \in [Candidates -> Int] /\ file \in [Candidates -> Nat]
      /\ failed \in [Candidates -> 0 .. LongAgo] /\ \A r \in Callers : caller[r] \in Caller
  BY FailoverParts
<1>2. cooldowns \in [Candidates -> -1 .. Longest] /\ file \in [Candidates -> 0 .. Longest]
  BY <1>1 DEF FailoverRanged
<1>3. failed \in [Candidates -> 0 .. Shortest - 1]
  BY <1>1 DEF LongAgo
<1> QED
  BY <1>1, <1>2, <1>3 DEF FailoverTypeOK, FailoverRanged, Caller, CallerAt

LEMMA FailoverTypeAlways == FailoverSpec => []FailoverTypeOK
<1>1. FailoverInv /\ FailoverRanged /\ [FailoverNext]_failoverVars => FailoverInv' /\ FailoverRanged'
  BY FailoverHold, RangesHold
<1>2. FailoverInv /\ FailoverRanged => FailoverTypeOK
  BY FailoverWellFormed
<1> QED
  BY <1>1, <1>2, FailoverBegin, RangesBegin, PTL DEF FailoverSpec

-----------------------------------------------------------------------------
(* Job events: the buffer, the stream and the polls.                       *)

Event == [seq : Nat, age : Nat]

EventsTyped ==
  /\ counter \in Nat /\ buffer \in Seq(Event) /\ restarts \in Nat
  /\ open \in BOOLEAN /\ sent \in Nat /\ seen \in Nat /\ cursor \in Nat
  /\ fetched \in Seq(Nat) /\ wire \in Seq(Nat)

\* The buffer holds the last events in order, the older ones first.
InSequence ==
  /\ Len(buffer) <= CAPACITY /\ Len(buffer) <= counter
  /\ \A i \in 1 .. Len(buffer) : buffer[i].seq = counter - Len(buffer) + i
  /\ \A i, j \in 1 .. Len(buffer) : i <= j => buffer[j].age <= buffer[i].age

LEMMA Buffered ==
  ASSUME EventsTyped
  PROVE  /\ buffer \in Seq(Event) /\ Len(buffer) \in Nat /\ DOMAIN buffer = 1 .. Len(buffer)
         /\ \A i \in 1 .. Len(buffer) : /\ buffer[i] \in Event /\ buffer[i].seq \in Nat
                                        /\ buffer[i].age \in Nat
<1>1. \A e \in Event : e.seq \in Nat /\ e.age \in Nat
  BY DEF Event
<1>2. buffer \in Seq(Event)
  BY DEF EventsTyped
<1> QED
  BY <1>1, <1>2, Places

\* Which of a set of places one of them is.
Rank(H, i) == Cardinality({j \in H : j <= i})

\* The k-th of a set of places, for every k up to their number.
LEMMA NthPlace ==
  ASSUME NEW m \in Nat, NEW H \in SUBSET (1 .. m)
  PROVE  /\ Cardinality(H) \in Nat
         /\ \A k \in 1 .. Cardinality(H) :
              Nth(H, k) \in H /\ Rank(H, Nth(H, k)) = k
         /\ \A i \in H : Rank(H, i) \in 1 .. Cardinality(H) /\ Nth(H, Rank(H, i)) = i
         /\ \A i, k \in H : i <= k => Rank(H, i) <= Rank(H, k)
<1> DEFINE upto(i) == {j \in H : j <= i}
           rank == [i \in H |-> Cardinality(upto(i))]
<1>0. \A i \in H : i \in Nat
  OBVIOUS
<1>1. IsFiniteSet(H) /\ Cardinality(H) \in Nat
  <2>1. IsFiniteSet(1 .. m)
    BY FS_Interval
  <2>2. QED
    BY <2>1, FS_Subset, FS_CardinalityType
<1>2. \A i \in H : IsFiniteSet(upto(i)) /\ Cardinality(upto(i)) \in Nat
  <2> SUFFICES ASSUME NEW i \in H PROVE IsFiniteSet(upto(i)) /\ Cardinality(upto(i)) \in Nat
    OBVIOUS
  <2>1. upto(i) \subseteq H
    OBVIOUS
  <2> HIDE DEF upto
  <2>2. QED
    BY <1>1, <2>1, FS_Subset, FS_CardinalityType
<1>3. ASSUME NEW i \in H, NEW k \in H, i <= k PROVE Cardinality(upto(i)) <= Cardinality(upto(k))
  <2>1. \A j \in upto(i) : j \in upto(k)
    BY <1>0, <1>3
  <2> HIDE DEF upto
  <2>2. QED
    BY <1>2, <2>1, FS_Subset
<1>4. ASSUME NEW i \in H, NEW k \in H, i < k PROVE Cardinality(upto(i)) < Cardinality(upto(k))
  <2>1. upto(i) \subseteq upto(k) /\ upto(i) # upto(k)
    <3>1. k \in upto(k) /\ k \notin upto(i)
      BY <1>0, <1>4
    <3>2. \A j \in upto(i) : j \in upto(k)
      BY <1>0, <1>4
    <3>3. QED
      BY <3>1, <3>2
  <2> HIDE DEF upto
  <2>2. Cardinality(upto(i)) <= Cardinality(upto(k)) /\ Cardinality(upto(i)) # Cardinality(upto(k))
    BY <1>2, <2>1, FS_Subset
  <2>3. QED
    BY <1>2, <2>2
<1>5. \A i \in H : Cardinality(upto(i)) \in 1 .. Cardinality(H)
  <2> SUFFICES ASSUME NEW i \in H PROVE Cardinality(upto(i)) \in 1 .. Cardinality(H)
    OBVIOUS
  <2>1. upto(i) \subseteq H /\ i \in upto(i)
    BY <1>0
  <2> HIDE DEF upto
  <2>2. Cardinality(upto(i)) <= Cardinality(H)
    BY <1>1, <2>1, FS_Subset
  <2>3. Cardinality(upto(i)) # 0
    BY <1>2, <2>1, FS_EmptySet
  <2>4. QED
    BY <1>1, <1>2, <2>2, <2>3
<1> HIDE DEF upto
<1>6. rank \in Injection(H, 1 .. Cardinality(H))
  <2>1. rank \in [H -> 1 .. Cardinality(H)]
    BY <1>5
  <2>2. ASSUME NEW i \in H, NEW k \in H, rank[i] = rank[k] PROVE i = k
    <3>1. ~ (i < k) /\ ~ (k < i)
      BY <1>2, <1>4, <2>2
    <3>2. QED
      BY <1>0, <3>1
  <2>3. QED
    BY <2>1, <2>2 DEF Injection, IsInjective
<1>7. rank \in Surjection(H, 1 .. Cardinality(H))
  <2>1. IsFiniteSet(1 .. Cardinality(H)) /\ Cardinality(1 .. Cardinality(H)) = Cardinality(H)
    BY <1>1, FS_Interval
  <2> HIDE DEF rank
  <2>2. QED
    BY <1>6, <2>1, FS_Injection
<1>8. ASSUME NEW k \in 1 .. Cardinality(H)
      PROVE  Nth(H, k) \in H /\ Cardinality(upto(Nth(H, k))) = k
  <2>1. \E i \in H : Cardinality(upto(i)) = k
    BY <1>7 DEF Surjection
  <2>2. QED
    BY <2>1 DEF Nth, upto
<1>9. ASSUME NEW i \in H PROVE Nth(H, Cardinality(upto(i))) = i
  <2>1. /\ Nth(H, Cardinality(upto(i))) \in H
        /\ Cardinality(upto(Nth(H, Cardinality(upto(i))))) = Cardinality(upto(i))
    BY <1>5, <1>8
  <2>2. \A k \in H : Cardinality(upto(k)) = Cardinality(upto(i)) => k = i
    <3> SUFFICES ASSUME NEW k \in H, Cardinality(upto(k)) = Cardinality(upto(i)) PROVE k = i
      OBVIOUS
    <3>1. ~ (i < k) /\ ~ (k < i)
      BY <1>2, <1>4
    <3>2. QED
      BY <1>0, <3>1
  <2>3. QED
    BY <2>1, <2>2
<1>10. \A i : Cardinality(upto(i)) = Rank(H, i)
  BY DEF upto, Rank
<1>11. QED
  BY <1>1, <1>3, <1>5, <1>8, <1>9, <1>10

\* What a reader is given: shown events that it has not seen, and nothing before the
\* last of them is left out; something, if there is anything.
Serves(A, last) ==
  /\ A \in Seq(Nat)
  /\ \A k \in 1 .. Len(A) : /\ last < A[k] /\ A[k] <= counter
                            /\ \E i \in 1 .. Len(buffer) :
                                 buffer[i].seq = A[k] /\ Shown(buffer[i])
  /\ \A k \in 1 .. Len(A), i \in 1 .. Len(buffer) :
       Shown(buffer[i]) /\ last < buffer[i].seq /\ buffer[i].seq <= A[k]
         => \E j \in 1 .. k : A[j] = buffer[i].seq
  /\ (\E i \in 1 .. Len(buffer) : Shown(buffer[i]) /\ last < buffer[i].seq) => A # <<>>

LEMMA Given ==
  ASSUME EventsTyped, InSequence, NEW last \in Nat, NEW n \in Nat \ {0},
         NEW scan \in Nat, scan >= Len(buffer)
  PROVE  Serves(EventsSince(last, n, scan), last)
<1> DEFINE H == Hits(last, scan)
           A == EventsSince(last, n, scan)
           m == IF Cardinality(H) < n THEN Cardinality(H) ELSE n
           rank(i) == Rank(H, i)
<1>1. /\ Len(buffer) \in Nat /\ DOMAIN buffer = 1 .. Len(buffer)
      /\ \A i \in 1 .. Len(buffer) : buffer[i].seq \in Nat
  BY Buffered
<1>2. /\ H \in SUBSET (1 .. Len(buffer))
      /\ \A i \in 1 .. Len(buffer) : i \in H <=> buffer[i].seq > last /\ Shown(buffer[i])
  BY <1>1 DEF Hits
<1> HIDE DEF H
<1>3. /\ Cardinality(H) \in Nat
      /\ \A k \in 1 .. Cardinality(H) : Nth(H, k) \in H /\ rank(Nth(H, k)) = k
      /\ \A i \in H : rank(i) \in 1 .. Cardinality(H) /\ Nth(H, rank(i)) = i
      /\ \A i, k \in H : i <= k => rank(i) <= rank(k)
  BY <1>1, <1>2, NthPlace
<1> HIDE DEF rank
<1>4. A = [k \in 1 .. m |-> buffer[Nth(H, k)].seq]
  BY DEF EventsSince, H
<1>5. m \in Nat /\ \A k \in 1 .. m : k \in 1 .. Cardinality(H)
  BY <1>3
<1> HIDE DEF A, m
<1>6. A \in Seq(Nat) /\ Len(A) = m
  <2>1. \A k \in 1 .. m : buffer[Nth(H, k)].seq \in Nat
    BY <1>1, <1>2, <1>3, <1>5
  <2>2. A \in [1 .. m -> Nat]
    BY <1>4, <2>1
  <2>3. QED
    BY <1>5, <2>2
<1>7. ASSUME NEW k \in 1 .. Len(A)
      PROVE  /\ last < A[k] /\ A[k] <= counter
             /\ \E i \in 1 .. Len(buffer) : buffer[i].seq = A[k] /\ Shown(buffer[i])
  <2>1. Nth(H, k) \in H /\ A[k] = buffer[Nth(H, k)].seq
    BY <1>3, <1>4, <1>5, <1>6
  <2>2. PICK i \in 1 .. Len(buffer) : i = Nth(H, k)
    BY <1>2, <2>1
  <2>3. buffer[i].seq = A[k] /\ Shown(buffer[i]) /\ buffer[i].seq > last
    BY <1>2, <2>1, <2>2
  <2>4. buffer[i].seq <= counter
    BY <1>1 DEF InSequence, EventsTyped
  <2>5. QED
    BY <1>1, <2>3, <2>4
<1>8. ASSUME NEW k \in 1 .. Len(A), NEW i \in 1 .. Len(buffer),
             Shown(buffer[i]), last < buffer[i].seq, buffer[i].seq <= A[k]
      PROVE  \E j \in 1 .. k : A[j] = buffer[i].seq
  <2>1. /\ i \in H /\ Nth(H, k) \in H /\ rank(Nth(H, k)) = k /\ A[k] = buffer[Nth(H, k)].seq
        /\ k \in 1 .. m
    BY <1>1, <1>2, <1>3, <1>4, <1>5, <1>6, <1>8
  <2>2. PICK h \in 1 .. Len(buffer) : h = Nth(H, k)
    BY <1>2, <2>1
  <2>3. i <= h
    <3>1. buffer[i].seq = counter - Len(buffer) + i /\ buffer[h].seq = counter - Len(buffer) + h
      BY DEF InSequence
    <3>2. buffer[i].seq <= buffer[h].seq
      BY <1>8, <2>1, <2>2
    <3>3. QED
      BY <1>1, <3>1, <3>2 DEF EventsTyped
  <2>4. rank(i) <= k /\ rank(i) \in 1 .. Cardinality(H) /\ Nth(H, rank(i)) = i
    BY <1>3, <2>1, <2>2, <2>3
  <2>5. rank(i) \in 1 .. k /\ rank(i) \in 1 .. m
    BY <1>3, <1>5, <2>1, <2>4
  <2>6. A[rank(i)] = buffer[i].seq
    BY <1>4, <2>4, <2>5
  <2>7. QED
    BY <2>5, <2>6
<1>9. ASSUME NEW i \in 1 .. Len(buffer), Shown(buffer[i]), last < buffer[i].seq PROVE A # <<>>
  <2>1. i \in H
    BY <1>1, <1>2, <1>9
  <2>2. m # 0
    BY <1>3, <2>1 DEF m
  <2>3. QED
    BY <1>6, <2>2
<1>10. QED
  BY <1>6, <1>7, <1>8, <1>9 DEF A, Serves

-----------------------------------------------------------------------------
LEMMA EmitOrders ==
  ASSUME EventsTyped, InSequence, Emit
  PROVE  /\ buffer' \in Seq(Event) /\ counter' = counter + 1 /\ InSequence'
         /\ \A i \in 1 .. Len(buffer') :
              \/ buffer'[i].seq = counter'
              \/ \E j \in 1 .. Len(buffer) : buffer'[i] = buffer[j]
<1> DEFINE e == [seq |-> counter + 1, age |-> 0]
           more == Append(buffer, e)
<1>1. /\ counter' = counter + 1 /\ counter \in Nat /\ CAPACITY \in Nat \ {0}
      /\ buffer' = IF Len(more) > CAPACITY THEN Tail(more) ELSE more
  BY JobEventsAssumption DEF Emit, EventsTyped
<1>2. /\ buffer \in Seq(Event) /\ Len(buffer) \in Nat /\ e \in Event
      /\ \A i \in 1 .. Len(buffer) : buffer[i] \in Event /\ buffer[i].age \in Nat
  BY <1>1, Buffered DEF Event
<1>3. /\ more \in Seq(Event) /\ Len(more) = Len(buffer) + 1
      /\ \A i \in 1 .. Len(buffer) : more[i] = buffer[i]
      /\ more[Len(buffer) + 1] = e
  BY <1>2, AppendProperties
<1> HIDE DEF more
<1>4. PICK d \in {0, 1} :
        /\ buffer' \in Seq(Event) /\ Len(buffer') = Len(buffer) + 1 - d
        /\ \A i \in 1 .. Len(buffer') : buffer'[i] = more[i + d]
        /\ Len(buffer') <= CAPACITY
  <2>1. CASE Len(more) > CAPACITY
    <3>1. Tail(more) \in Seq(Event) /\ Len(Tail(more)) = Len(more) - 1
          /\ \A i \in 1 .. Len(Tail(more)) : Tail(more)[i] = more[i + 1]
      BY <1>2, <1>3, HeadTailProperties
    <3>2. QED
      BY <1>1, <1>2, <1>3, <2>1, <3>1 DEF InSequence
  <2>2. CASE ~ (Len(more) > CAPACITY)
    BY <1>1, <1>2, <1>3, <2>2
  <2>3. QED
    BY <2>1, <2>2
<1>5. \A i \in 1 .. Len(buffer') :
        \/ i + d = Len(buffer) + 1 /\ buffer'[i] = e
        \/ i + d \in 1 .. Len(buffer) /\ buffer'[i] = buffer[i + d]
  BY <1>2, <1>3, <1>4
<1>6. \A i \in 1 .. Len(buffer') : buffer'[i].seq = counter' - Len(buffer') + i
  <2> SUFFICES ASSUME NEW i \in 1 .. Len(buffer')
               PROVE  buffer'[i].seq = counter' - Len(buffer') + i
    OBVIOUS
  <2>1. CASE i + d = Len(buffer) + 1 /\ buffer'[i] = e
    <3>1. buffer'[i].seq = counter + 1 /\ i = Len(buffer')
      BY <1>2, <1>4, <2>1
    <3>2. i \in Nat /\ counter' = counter + 1 /\ counter \in Nat
      BY <1>1
    <3>3. QED
      BY <3>1, <3>2
  <2>2. CASE i + d \in 1 .. Len(buffer) /\ buffer'[i] = buffer[i + d]
    <3>1. buffer[i + d].seq = counter - Len(buffer) + (i + d)
      BY <2>2 DEF InSequence
    <3>2. Len(buffer') = Len(buffer) + 1 - d /\ Len(buffer) \in Nat /\ d \in {0, 1} /\ i \in Nat
      BY <1>2, <1>4
    <3>3. buffer'[i].seq = counter - Len(buffer) + (i + d) /\ counter' = counter + 1 /\ counter \in Nat
      BY <1>1, <2>2, <3>1
    <3>4. QED
      BY <3>2, <3>3
  <2>3. QED
    BY <1>5, <2>1, <2>2
<1>7. \A i, j \in 1 .. Len(buffer') : i <= j => buffer'[j].age <= buffer'[i].age
  <2> SUFFICES ASSUME NEW i \in 1 .. Len(buffer'), NEW j \in 1 .. Len(buffer'), i <= j
               PROVE  buffer'[j].age <= buffer'[i].age
    OBVIOUS
  <2>1. CASE buffer'[j] = e
    BY <1>2, <1>5, <2>1
  <2>2. CASE j + d \in 1 .. Len(buffer) /\ buffer'[j] = buffer[j + d]
    <3>1. i + d \in 1 .. Len(buffer) /\ i + d <= j + d
      BY <1>2, <1>4, <2>2
    <3>2. buffer'[i] = buffer[i + d]
      BY <1>2, <1>5, <3>1
    <3>3. QED
      BY <2>2, <3>1, <3>2 DEF InSequence
  <2>3. QED
    BY <1>5, <2>1, <2>2
<1>8. Len(buffer') <= counter'
  <2>1. Len(buffer) <= counter /\ Len(buffer') = Len(buffer) + 1 - d /\ d \in {0, 1}
    BY <1>4 DEF InSequence
  <2>2. counter' = counter + 1 /\ counter \in Nat /\ Len(buffer) \in Nat
    BY <1>1, <1>2
  <2>3. QED
    BY <2>1, <2>2
<1>9. InSequence'
  BY <1>4, <1>6, <1>7, <1>8 DEF InSequence
<1>10. \A i \in 1 .. Len(buffer') :
         \/ buffer'[i].seq = counter'
         \/ \E j \in 1 .. Len(buffer) : buffer'[i] = buffer[j]
  <2> SUFFICES ASSUME NEW i \in 1 .. Len(buffer')
               PROVE  \/ buffer'[i].seq = counter'
                      \/ \E j \in 1 .. Len(buffer) : buffer'[i] = buffer[j]
    OBVIOUS
  <2>1. e.seq = counter'
    BY <1>1
  <2> HIDE DEF e
  <2>2. QED
    BY <1>5, <2>1
<1>11. QED
  BY <1>1, <1>4, <1>9, <1>10

LEMMA TickOrders ==
  ASSUME EventsTyped, InSequence, EventsTick
  PROVE  /\ buffer' \in Seq(Event) /\ InSequence' /\ Len(buffer') = Len(buffer)
         /\ \A i \in 1 .. Len(buffer) : buffer'[i].seq = buffer[i].seq
         /\ \A i \in 1 .. Len(buffer) : Shown(buffer'[i]) => Shown(buffer[i])
<1> DEFINE older(a) == IF a > EVENT_TTL THEN a ELSE a + 1
<1>1. /\ EVENT_TTL \in Nat /\ Len(buffer) \in Nat /\ DOMAIN buffer = 1 .. Len(buffer)
      /\ \A i \in 1 .. Len(buffer) : buffer[i] \in Event /\ buffer[i].age \in Nat
  BY JobEventsAssumption, Buffered
<1>2. counter' = counter
      /\ buffer' = [i \in 1 .. Len(buffer) |-> [buffer[i] EXCEPT !.age = older(buffer[i].age)]]
  BY <1>1 DEF EventsTick
<1>3. \A i \in 1 .. Len(buffer) :
        /\ buffer'[i] \in Event /\ buffer'[i].seq = buffer[i].seq
        /\ buffer'[i].age = older(buffer[i].age)
  BY <1>1, <1>2 DEF Event
<1>4. buffer' \in Seq(Event) /\ Len(buffer') = Len(buffer)
  <2>1. buffer' \in [1 .. Len(buffer) -> Event]
    BY <1>2, <1>3
  <2>2. QED
    BY <1>1, <2>1
<1>5. \A i, j \in 1 .. Len(buffer) : i <= j => buffer'[j].age <= buffer'[i].age
  <2> SUFFICES ASSUME NEW i \in 1 .. Len(buffer), NEW j \in 1 .. Len(buffer), i <= j
               PROVE  buffer'[j].age <= buffer'[i].age
    OBVIOUS
  <2>1. buffer[j].age <= buffer[i].age
    BY DEF InSequence
  <2>2. QED
    BY <1>1, <1>3, <2>1
<1>6. InSequence'
  BY <1>2, <1>3, <1>4, <1>5 DEF InSequence
<1>7. \A i \in 1 .. Len(buffer) : Shown(buffer'[i]) => Shown(buffer[i])
  BY <1>1, <1>3 DEF Shown
<1>8. QED
  BY <1>3, <1>4, <1>6, <1>7

-----------------------------------------------------------------------------
(* The stream.  What is on the wire, or fetched and not yet written, is in *)
(* order: before a number in it comes every shown event that the client    *)
(* does not have.                                                          *)

Delivered(n) == n \in received \/ \E j \in 1 .. Len(wire) : wire[j] = n

\* Event n, as long as it is shown.
Passed(n) ==
  /\ n <= seen => n \in received
  /\ \A k \in 1 .. Len(wire) : n <= wire[k] => n \in received \/ \E j \in 1 .. k : wire[j] = n
  /\ open /\ n <= sent => Delivered(n)
  /\ \A k \in 1 .. Len(fetched) :
       n <= fetched[k] => Delivered(n) \/ \E j \in 1 .. k : fetched[j] = n

\* Nobody is ahead of the store.
NotAhead ==
  /\ seen <= counter /\ sent <= counter
  /\ \A k \in 1 .. Len(wire) : wire[k] <= counter
  /\ \A k \in 1 .. Len(fetched) : fetched[k] <= counter

StreamSound ==
  restarts = 0 =>
    NotAhead /\ \A i \in 1 .. Len(buffer) : Shown(buffer[i]) => Passed(buffer[i].seq)

EventsInv == EventsTyped /\ InSequence /\ StreamSound

\* The stream moves, and the buffer stays.
LEMMA StreamMoves ==
  ASSUME EventsInv, UNCHANGED storeVars, EventsTyped',
         restarts = 0 => NotAhead',
         \A n \in Nat : restarts = 0 /\ Passed(n) => Passed(n)'
  PROVE  EventsInv'
<1>1. UNCHANGED <<counter, buffer, restarts>>
  BY DEF storeVars
<1>2. InSequence'
  BY <1>1 DEF EventsInv, InSequence
<1>3. StreamSound'
  <2> SUFFICES ASSUME restarts = 0, NEW i \in 1 .. Len(buffer), Shown(buffer[i])
               PROVE  Passed(buffer[i].seq)'
    BY <1>1 DEF StreamSound
  <2>1. buffer[i].seq \in Nat /\ Passed(buffer[i].seq)
    BY Buffered DEF EventsInv, StreamSound
  <2>2. PICK n \in Nat : n = buffer[i].seq
    BY <2>1
  <2>3. Passed(n)'
    BY <2>1, <2>2
  <2>4. n' = n
    OBVIOUS
  <2>5. QED
    BY <1>1, <2>2, <2>3 DEF Passed, Delivered
<1>4. QED
  BY <1>2, <1>3 DEF EventsInv

LEMMA ConnectHolds == ASSUME EventsInv, Connect PROVE EventsInv'
<1>1. /\ open' = TRUE /\ sent' = seen
      /\ UNCHANGED storeVars /\ UNCHANGED <<counter, buffer, restarts, fetched, wire, seen, received, cursor>>
  BY DEF Connect, storeVars, pollVars
<1>2. EventsTyped'
  BY <1>1 DEF EventsInv, EventsTyped
<1>3. restarts = 0 => NotAhead'
  BY <1>1 DEF EventsInv, StreamSound, NotAhead
<1>4. ASSUME NEW n \in Nat, Passed(n) PROVE Passed(n)'
  BY <1>1, <1>4 DEF Passed, Delivered
<1>5. QED
  BY <1>1, <1>2, <1>3, <1>4, StreamMoves

LEMMA DisconnectHolds == ASSUME EventsInv, Disconnect PROVE EventsInv'
<1>1. /\ open' = FALSE /\ fetched' = <<>> /\ wire' = <<>>
      /\ UNCHANGED storeVars /\ UNCHANGED <<counter, buffer, restarts, sent, seen, received, cursor>>
  BY DEF Disconnect, storeVars, pollVars
<1>2. EventsTyped'
  BY <1>1, EmptySeq DEF EventsInv, EventsTyped
<1>3. restarts = 0 => NotAhead'
  BY <1>1 DEF EventsInv, StreamSound, NotAhead
<1>4. ASSUME NEW n \in Nat, Passed(n) PROVE Passed(n)'
  BY <1>1, <1>4 DEF Passed
<1>5. QED
  BY <1>1, <1>2, <1>3, <1>4, StreamMoves

LEMMA WriteHolds == ASSUME EventsInv, WriteEvent PROVE EventsInv'
<1>1. /\ fetched # <<>> /\ wire' = Append(wire, Head(fetched)) /\ sent' = Head(fetched)
      /\ fetched' = Tail(fetched)
      /\ UNCHANGED storeVars /\ UNCHANGED <<counter, buffer, restarts, open, seen, received, cursor>>
  BY DEF WriteEvent, storeVars, pollVars
<1>2. fetched \in Seq(Nat) /\ wire \in Seq(Nat) /\ Len(wire) \in Nat /\ Len(fetched) \in Nat \ {0}
  BY <1>1, EmptySeq, LenProperties DEF EventsInv, EventsTyped
<1>3. PICK m \in Nat : m = Head(fetched) /\ m = fetched[1]
  BY <1>1, <1>2, HeadTailProperties
<1>4. /\ wire' \in Seq(Nat) /\ Len(wire') = Len(wire) + 1 /\ wire'[Len(wire) + 1] = m
      /\ \A k \in 1 .. Len(wire) : wire'[k] = wire[k]
  BY <1>1, <1>2, <1>3, AppendProperties
<1>5. /\ fetched' \in Seq(Nat) /\ Len(fetched') = Len(fetched) - 1
      /\ \A k \in 1 .. Len(fetched') : fetched'[k] = fetched[k + 1]
  BY <1>1, <1>2, HeadTailProperties
<1>6. EventsTyped'
  BY <1>1, <1>3, <1>4, <1>5 DEF EventsInv, EventsTyped
<1>7. ASSUME restarts = 0 PROVE NotAhead'
  <2>1. NotAhead
    BY <1>7 DEF EventsInv, StreamSound
  <2>2. m <= counter
    BY <1>2, <1>3, <2>1 DEF NotAhead
  <2>3. \A k \in 1 .. Len(wire') : wire'[k] <= counter
    <3> SUFFICES ASSUME NEW k \in 1 .. Len(wire') PROVE wire'[k] <= counter
      OBVIOUS
    <3>1. k \in 1 .. Len(wire) \/ k = Len(wire) + 1
      BY <1>2, <1>4
    <3>2. QED
      BY <1>4, <2>1, <2>2, <3>1 DEF NotAhead
  <2>4. \A k \in 1 .. Len(fetched') : fetched'[k] <= counter
    <3> SUFFICES ASSUME NEW k \in 1 .. Len(fetched') PROVE fetched'[k] <= counter
      OBVIOUS
    <3>1. k + 1 \in 1 .. Len(fetched) /\ fetched'[k] = fetched[k + 1]
      BY <1>2, <1>5
    <3>2. QED
      BY <2>1, <3>1 DEF NotAhead
  <2>5. QED
    BY <1>1, <1>3, <2>1, <2>2, <2>3, <2>4 DEF NotAhead
<1>8. ASSUME NEW n \in Nat, Passed(n) PROVE Passed(n)'
  <2>1. Delivered(n) => Delivered(n)'
    BY <1>1, <1>2, <1>4 DEF Delivered
  <2>2. n = m => Delivered(n)'
    BY <1>2, <1>4 DEF Delivered
  <2>3. n <= m => Delivered(n)'
    BY <1>2, <1>3, <1>8, <2>1, <2>2 DEF Passed
  <2>4. \A k \in 1 .. Len(wire') : n <= wire'[k] => n \in received' \/ \E j \in 1 .. k : wire'[j] = n
    <3> SUFFICES ASSUME NEW k \in 1 .. Len(wire'), n <= wire'[k]
                 PROVE  n \in received \/ \E j \in 1 .. k : wire'[j] = n
      BY <1>1
    <3>1. CASE k \in 1 .. Len(wire)
      <4>1. n <= wire[k]
        BY <1>4, <3>1
      <4>2. n \in received \/ \E j \in 1 .. k : wire[j] = n
        BY <1>8, <3>1, <4>1 DEF Passed
      <4>3. \A j \in 1 .. k : j \in 1 .. Len(wire)
        BY <1>2, <3>1
      <4>4. QED
        BY <1>4, <4>2, <4>3
    <3>2. CASE k = Len(wire) + 1
      <4>1. Delivered(n)'
        BY <1>4, <2>3, <3>2
      <4>2. QED
        BY <1>1, <1>4, <3>2, <4>1 DEF Delivered
    <3>3. QED
      BY <1>2, <1>4, <3>1, <3>2
  <2>5. \A k \in 1 .. Len(fetched') :
          n <= fetched'[k] => Delivered(n)' \/ \E j \in 1 .. k : fetched'[j] = n
    <3> SUFFICES ASSUME NEW k \in 1 .. Len(fetched'), n <= fetched'[k], ~ Delivered(n)'
                 PROVE  \E j \in 1 .. k : fetched'[j] = n
      OBVIOUS
    <3>1. k + 1 \in 1 .. Len(fetched) /\ n <= fetched[k + 1]
      BY <1>2, <1>5
    <3>2. PICK j \in 1 .. k + 1 : fetched[j] = n
      BY <1>8, <2>1, <3>1 DEF Passed
    <3>3. j # 1
      BY <1>3, <2>2, <3>2
    <3>4. j - 1 \in 1 .. k /\ j - 1 \in 1 .. Len(fetched') /\ (j - 1) + 1 = j
      BY <1>2, <1>5, <3>1, <3>3
    <3>5. QED
      BY <1>5, <3>2, <3>4
  <2>6. QED
    BY <1>1, <1>3, <1>8, <2>3, <2>4, <2>5 DEF Passed
<1>9. QED
  BY <1>1, <1>6, <1>7, <1>8, StreamMoves

LEMMA ReceiveHolds == ASSUME EventsInv, Receive PROVE EventsInv'
<1>1. /\ wire # <<>> /\ seen' = Head(wire) /\ received' = received \cup {Head(wire)}
      /\ wire' = Tail(wire)
      /\ UNCHANGED storeVars /\ UNCHANGED <<counter, buffer, restarts, open, fetched, sent, cursor>>
  BY DEF Receive, storeVars, pollVars
<1>2. wire \in Seq(Nat) /\ Len(wire) \in Nat \ {0}
  BY <1>1, EmptySeq, LenProperties DEF EventsInv, EventsTyped
<1>3. PICK m \in Nat : m = Head(wire) /\ m = wire[1]
  BY <1>1, <1>2, HeadTailProperties
<1>4. /\ wire' \in Seq(Nat) /\ Len(wire') = Len(wire) - 1
      /\ \A k \in 1 .. Len(wire') : wire'[k] = wire[k + 1]
  BY <1>1, <1>2, HeadTailProperties
<1>5. EventsTyped'
  BY <1>1, <1>3, <1>4 DEF EventsInv, EventsTyped
<1>6. ASSUME restarts = 0 PROVE NotAhead'
  <2>1. NotAhead
    BY <1>6 DEF EventsInv, StreamSound
  <2>2. m <= counter
    BY <1>2, <1>3, <2>1 DEF NotAhead
  <2>3. \A k \in 1 .. Len(wire') : wire'[k] <= counter
    <3> SUFFICES ASSUME NEW k \in 1 .. Len(wire') PROVE wire'[k] <= counter
      OBVIOUS
    <3>1. k + 1 \in 1 .. Len(wire) /\ wire'[k] = wire[k + 1]
      BY <1>2, <1>4
    <3>2. QED
      BY <2>1, <3>1 DEF NotAhead
  <2>4. QED
    BY <1>1, <1>3, <2>1, <2>2, <2>3 DEF NotAhead
<1>7. ASSUME NEW n \in Nat, Passed(n) PROVE Passed(n)'
  <2>1. n \in received => n \in received'
    BY <1>1
  <2>2. n = m => n \in received'
    BY <1>1, <1>3
  <2>3. \A k \in 1 .. Len(wire) : \A j \in 1 .. k : wire[j] = n =>
          n \in received' \/ \E i \in 1 .. k - 1 : i \in 1 .. Len(wire') /\ wire'[i] = n
    <3> SUFFICES ASSUME NEW k \in 1 .. Len(wire), NEW j \in 1 .. k, wire[j] = n, n # m
                 PROVE  \E i \in 1 .. k - 1 : i \in 1 .. Len(wire') /\ wire'[i] = n
      BY <2>2
    <3>1. j # 1
      BY <1>3
    <3>2. j - 1 \in 1 .. k - 1 /\ j - 1 \in 1 .. Len(wire') /\ (j - 1) + 1 = j
      BY <1>2, <1>4, <3>1
    <3>3. QED
      BY <1>4, <3>2
  <2>4. Delivered(n) => Delivered(n)'
    <3> SUFFICES ASSUME NEW j \in 1 .. Len(wire), wire[j] = n PROVE Delivered(n)'
      BY <2>1 DEF Delivered
    <3>1. n \in received' \/ \E i \in 1 .. Len(wire) - 1 : i \in 1 .. Len(wire') /\ wire'[i] = n
      BY <1>2, <2>3
    <3>2. QED
      BY <3>1 DEF Delivered
  <2>5. n <= m => n \in received'
    <3> SUFFICES ASSUME n <= m PROVE n \in received'
      OBVIOUS
    <3>1. n \in received \/ \E j \in 1 .. 1 : wire[j] = n
      BY <1>2, <1>3, <1>7 DEF Passed
    <3>2. QED
      BY <1>3, <2>1, <2>2, <3>1
  <2>6. \A k \in 1 .. Len(wire') : n <= wire'[k] => n \in received' \/ \E j \in 1 .. k : wire'[j] = n
    <3> SUFFICES ASSUME NEW k \in 1 .. Len(wire'), n <= wire'[k], n \notin received'
                 PROVE  \E j \in 1 .. k : wire'[j] = n
      OBVIOUS
    <3>1. k + 1 \in 1 .. Len(wire) /\ n <= wire[k + 1] /\ (k + 1) - 1 = k
      BY <1>2, <1>4
    <3>2. PICK j \in 1 .. k + 1 : wire[j] = n
      BY <1>7, <2>1, <3>1 DEF Passed
    <3>3. QED
      BY <2>3, <3>1, <3>2
  <2>7. QED
    BY <1>1, <1>3, <1>7, <2>4, <2>5, <2>6 DEF Passed
<1>8. QED
  BY <1>1, <1>5, <1>6, <1>7, StreamMoves

LEMMA FetchHolds == ASSUME EventsInv, Fetch PROVE EventsInv'
<1> DEFINE A == EventsSince(sent, STREAM_LIMIT, Len(buffer))
<1>1. /\ open /\ fetched = <<>> /\ fetched' = A
      /\ UNCHANGED storeVars /\ UNCHANGED <<counter, buffer, restarts, open, sent, wire, seen, received, cursor>>
  BY DEF Fetch, storeVars, pollVars
<1>2. EventsTyped /\ InSequence /\ sent \in Nat /\ Len(buffer) \in Nat /\ STREAM_LIMIT \in Nat \ {0}
  BY Buffered, JobEventsAssumption DEF EventsInv, EventsTyped
<1>3. /\ A \in Seq(Nat)
      /\ \A k \in 1 .. Len(A) : A[k] <= counter
      /\ \A k \in 1 .. Len(A), i \in 1 .. Len(buffer) :
           Shown(buffer[i]) /\ sent < buffer[i].seq /\ buffer[i].seq <= A[k]
             => \E j \in 1 .. k : A[j] = buffer[i].seq
  <2>1. Len(buffer) >= Len(buffer)
    BY <1>2
  <2>2. QED
    BY <1>2, <2>1, Given DEF Serves
<1> HIDE DEF A
<1>4. EventsTyped' /\ InSequence'
  BY <1>1, <1>2, <1>3 DEF EventsTyped, InSequence
<1>5. StreamSound'
  <2> SUFFICES ASSUME restarts = 0
               PROVE  NotAhead' /\ \A i \in 1 .. Len(buffer) : Shown(buffer[i]) => Passed(buffer[i].seq)'
    BY <1>1 DEF StreamSound
  <2>1. NotAhead /\ \A i \in 1 .. Len(buffer) : Shown(buffer[i]) => Passed(buffer[i].seq)
    BY DEF EventsInv, StreamSound
  <2>2. NotAhead'
    BY <1>1, <1>3, <2>1 DEF NotAhead
  <2>3. ASSUME NEW i \in 1 .. Len(buffer), Shown(buffer[i]) PROVE Passed(buffer[i].seq)'
    <3>1. PICK n \in Nat : n = buffer[i].seq
      BY <1>2, Buffered
    <3>2. Passed(n)
      BY <2>1, <2>3, <3>1
    <3>3. n <= sent => Delivered(n)
      BY <1>1, <3>2 DEF Passed
    <3>4. \A k \in 1 .. Len(A) : n <= A[k] => Delivered(n) \/ \E j \in 1 .. k : A[j] = n
      <4> SUFFICES ASSUME NEW k \in 1 .. Len(A), n <= A[k]
                   PROVE  Delivered(n) \/ \E j \in 1 .. k : A[j] = n
        OBVIOUS
      <4>1. n <= sent \/ sent < n
        BY <1>2, <3>1
      <4>2. sent < n => \E j \in 1 .. k : A[j] = n
        BY <1>3, <2>3, <3>1
      <4> QED
        BY <3>3, <4>1, <4>2
    <3>5. Passed(n)'
      BY <1>1, <3>2, <3>4 DEF Passed, Delivered
    <3>6. QED
      BY <1>1, <3>1, <3>5 DEF Passed, Delivered
  <2>4. QED
    BY <2>2, <2>3
<1>6. QED
  BY <1>4, <1>5 DEF EventsInv

LEMMA PassedOver ==
  ASSUME UNCHANGED <<open, fetched, sent, wire, seen, received>>
  PROVE  \A n : Passed(n) => Passed(n)'
BY DEF Passed, Delivered

LEMMA SoundNext ==
  ASSUME restarts' = 0 => NotAhead',
         \A n, i : /\ restarts' = 0 /\ i \in 1 .. Len(buffer') /\ Shown(buffer'[i])
                  /\ buffer'[i].seq = n
                 => Passed(n)'
  PROVE  StreamSound'
<1> SUFFICES ASSUME restarts' = 0, NEW i \in 1 .. Len(buffer'), Shown(buffer[i])'
             PROVE  Passed(buffer[i].seq)'
  BY DEF StreamSound
<1>1. PICK n : n = buffer'[i].seq
  OBVIOUS
<1>2. Shown(buffer'[i])
  BY DEF Shown
<1>3. Passed(n)'
  BY <1>1, <1>2
<1>4. QED
  BY <1>1, <1>3 DEF Passed, Delivered

LEMMA StoreHolds == ASSUME EventsInv, Emit \/ EventsTick \/ EventsRestart PROVE EventsInv'
<1>1. EventsTyped /\ InSequence /\ StreamSound
  BY DEF EventsInv
<1>2. CASE Emit
  <2>1. /\ buffer' \in Seq(Event) /\ counter' = counter + 1 /\ InSequence'
        /\ \A i \in 1 .. Len(buffer') :
             \/ buffer'[i].seq = counter'
             \/ \E j \in 1 .. Len(buffer) : buffer'[i] = buffer[j]
    BY <1>1, <1>2, EmitOrders
  <2>2. UNCHANGED <<restarts, open, fetched, sent, wire, seen, received, cursor>>
    BY <1>2 DEF Emit, streamVars, pollVars
  <2>3. EventsTyped' /\ counter \in Nat
    BY <1>1, <2>1, <2>2 DEF EventsTyped
  <2>4. ASSUME restarts = 0
        PROVE  NotAhead /\ \A i \in 1 .. Len(buffer) : Shown(buffer[i]) => Passed(buffer[i].seq)
    BY <1>1, <2>4 DEF StreamSound
  <2>5. ASSUME restarts = 0, NotAhead
        PROVE  /\ NotAhead' /\ ~ (counter' <= seen) /\ ~ (counter' <= sent)
               /\ \A k \in 1 .. Len(wire) : ~ (counter' <= wire[k])
               /\ \A k \in 1 .. Len(fetched) : ~ (counter' <= fetched[k])
    <3>1. /\ seen \in Nat /\ sent \in Nat /\ \A k \in 1 .. Len(wire) : wire[k] \in Nat
          /\ \A k \in 1 .. Len(fetched) : fetched[k] \in Nat
      BY <1>1, Places DEF EventsTyped
    <3>2. \A a \in Nat : a <= counter => a <= counter' /\ ~ (counter' <= a)
      BY <2>1, <2>3
    <3>3. /\ seen <= counter /\ sent <= counter
          /\ \A k \in 1 .. Len(wire) : wire[k] <= counter
          /\ \A k \in 1 .. Len(fetched) : fetched[k] <= counter
      BY <2>5 DEF NotAhead
    <3>4. NotAhead'
      BY <2>2, <3>1, <3>2, <3>3 DEF NotAhead
    <3>5. QED
      BY <3>1, <3>2, <3>3, <3>4
  <2>6. ASSUME NEW n, NEW i \in 1 .. Len(buffer'), restarts = 0, Shown(buffer'[i]), buffer'[i].seq = n
        PROVE  Passed(n)'
    <3>1. CASE n = counter'
      <4>1. /\ ~ (n <= seen) /\ ~ (n <= sent)
            /\ \A k \in 1 .. Len(wire) : ~ (n <= wire[k])
            /\ \A k \in 1 .. Len(fetched) : ~ (n <= fetched[k])
        BY <2>4, <2>5, <2>6, <3>1
      <4>2. QED
        BY <2>2, <4>1 DEF Passed
    <3>2. ASSUME NEW j \in 1 .. Len(buffer), buffer'[i] = buffer[j] PROVE Passed(n)'
      <4>1. Passed(n)
        BY <2>4, <2>6, <3>2
      <4>2. QED
        BY <2>2, <4>1, PassedOver
    <3>3. QED
      BY <2>1, <2>6, <3>1, <3>2
  <2>7. StreamSound'
    BY <2>2, <2>4, <2>5, <2>6, SoundNext
  <2>8. QED
    BY <2>1, <2>3, <2>7 DEF EventsInv
<1>3. CASE EventsTick
  <2>1. /\ buffer' \in Seq(Event) /\ InSequence' /\ Len(buffer') = Len(buffer)
        /\ \A i \in 1 .. Len(buffer) : buffer'[i].seq = buffer[i].seq
        /\ \A i \in 1 .. Len(buffer) : Shown(buffer'[i]) => Shown(buffer[i])
    BY <1>1, <1>3, TickOrders
  <2>2. UNCHANGED <<counter, restarts, open, fetched, sent, wire, seen, received, cursor>>
    BY <1>3 DEF EventsTick, streamVars, pollVars
  <2>3. EventsTyped'
    BY <1>1, <2>1, <2>2 DEF EventsTyped
  <2>4. StreamSound'
    <3>1. restarts' = 0 => NotAhead'
      BY <1>1, <2>2 DEF StreamSound, NotAhead
    <3>2. ASSUME NEW n, NEW i \in 1 .. Len(buffer'), restarts' = 0, Shown(buffer'[i]),
                 buffer'[i].seq = n
          PROVE  Passed(n)'
      <4>1. Passed(n)
        BY <1>1, <2>1, <2>2, <3>2 DEF StreamSound
      <4>2. QED
        BY <2>2, <4>1, PassedOver
    <3>3. QED
      BY <3>1, <3>2, SoundNext
  <2>5. QED
    BY <2>1, <2>3, <2>4 DEF EventsInv
<1>4. CASE EventsRestart
  <2>1. /\ counter' = 0 /\ buffer' = <<>> /\ open' = FALSE /\ fetched' = <<>> /\ wire' = <<>>
        /\ restarts' = restarts + 1 /\ UNCHANGED <<sent, seen, cursor>>
    BY <1>4 DEF EventsRestart
  <2>2. /\ Len(buffer') = 0 /\ \A S : <<>> \in Seq(S)
    BY <2>1, EmptySeq
  <2>3. EventsTyped'
    <3>1. buffer' \in Seq(Event) /\ fetched' \in Seq(Nat) /\ wire' \in Seq(Nat)
      BY <2>1, <2>2
    <3>2. open' \in BOOLEAN
      BY <2>1
    <3>3. QED
      BY <1>1, <2>1, <3>1, <3>2 DEF EventsTyped
  <2>4. InSequence'
    BY <2>1, <2>2, JobEventsAssumption DEF InSequence
  <2>5. restarts' # 0
    BY <1>1, <2>1 DEF EventsTyped
  <2>6. QED
    BY <2>3, <2>4, <2>5 DEF EventsInv, StreamSound
<1>5. QED
  BY <1>2, <1>3, <1>4

-----------------------------------------------------------------------------
(* Polls.                                                                  *)

\* What a poll finds at first, and the earliest event that it knows of.
LEMMA Found ==
  ASSUME EventsTyped, InSequence, NEW since \in Nat
  PROVE  /\ PollScan(since) \in Seq(Nat) /\ Earliest(since) \in Nat
         /\ \A k \in 1 .. Len(PollScan(since)) :
              /\ since < PollScan(since)[k] /\ PollScan(since)[k] <= counter
              /\ \E i \in 1 .. Len(buffer) :
                   buffer[i].seq = PollScan(since)[k] /\ Shown(buffer[i])
         /\ \A k \in 1 .. Len(PollScan(since)), i \in 1 .. Len(buffer) :
              Shown(buffer[i]) /\ since < buffer[i].seq /\ buffer[i].seq <= PollScan(since)[k]
                => \E j \in 1 .. k : PollScan(since)[j] = buffer[i].seq
         /\ (\E i \in 1 .. Len(buffer) : Shown(buffer[i]) /\ since < buffer[i].seq)
              => PollScan(since) # <<>>
         /\ PollScan(since) # <<>> => Earliest(since) = PollScan(since)[1]
         /\ PollScan(since) = <<>> => Earliest(since) <= since
<1>1. /\ POLL_LIMIT \in Nat \ {0} /\ SCAN_CAP \in Nat /\ Len(buffer) \in Nat /\ 1 \in Nat \ {0}
      /\ SCAN_CAP >= Len(buffer) /\ Len(buffer) >= Len(buffer) /\ 0 \in Nat
  BY JobEventsAssumption, Buffered DEF InSequence
<1> DEFINE A == EventsSince(since, POLL_LIMIT, SCAN_CAP)
           all == EventsSince(0, 1, Len(buffer))
<1>2. Serves(A, since) /\ Serves(all, 0)
  BY <1>1, Given
<1>3. A \in Seq(Nat) /\ all \in Seq(Nat)
  BY <1>2 DEF Serves
<1>4. A = PollScan(since)
  BY DEF PollScan
<1>5. Earliest(since) = IF A # <<>> THEN Head(A) ELSE IF all # <<>> THEN Head(all) ELSE 0
  BY DEF Earliest, PollScan
<1> HIDE DEF A, all
<1>6. \A q \in Seq(Nat) : q # <<>> => Head(q) = q[1] /\ Head(q) \in Nat
  BY HeadTailProperties
<1>7. Earliest(since) \in Nat /\ (A # <<>> => Earliest(since) = A[1])
  BY <1>3, <1>5, <1>6
<1>8. A = <<>> => Earliest(since) <= since
  <2> SUFFICES ASSUME A = <<>> PROVE Earliest(since) <= since
    OBVIOUS
  <2>1. CASE all = <<>>
    BY <1>5, <2>1
  <2>2. CASE all # <<>>
    <3>1. Earliest(since) = all[1] /\ 1 \in 1 .. Len(all)
      BY <1>3, <1>5, <1>6, <2>2, EmptySeq, LenProperties
    <3>2. PICK i \in 1 .. Len(buffer) : buffer[i].seq = all[1] /\ Shown(buffer[i])
      BY <1>2, <3>1 DEF Serves
    <3>3. ~ (since < buffer[i].seq) /\ buffer[i].seq \in Nat
      BY <1>2, <3>2, Buffered DEF Serves
    <3> QED
      BY <3>1, <3>2, <3>3
  <2> QED
    BY <2>1, <2>2
<1>9. QED
  BY <1>2, <1>4, <1>7, <1>8 DEF Serves

\* From where a poll goes on.
LEMMA GoesOnFrom ==
  ASSUME EventsTyped, InSequence, NEW since \in Nat
  PROVE  /\ Effective(since) \in Nat /\ NextCursor(since) \in Nat
         /\ PollAnswer(since) = PollScan(Effective(since))
<1>1. Earliest(since) \in Nat /\ counter \in Nat
  BY Found DEF EventsTyped
<1>2. Effective(since) \in Nat
  BY <1>1 DEF Effective, Stale, Future
<1>3. PollScan(Effective(since)) \in Seq(Nat)
  BY <1>2, Found
<1>4. NextCursor(since) = IF PollAnswer(since) # <<>> THEN PollAnswer(since)[Len(PollAnswer(since))]
                                                     ELSE Effective(since)
  BY DEF NextCursor
<1>5. PollAnswer(since) = PollScan(Effective(since))
  BY DEF PollAnswer
<1>6. \A q \in Seq(Nat) : q # <<>> => q[Len(q)] \in Nat
  BY EmptySeq, LenProperties, ElementOfSeq
<1>7. QED
  BY <1>2, <1>3, <1>4, <1>5, <1>6

LEMMA PollHolds == ASSUME EventsInv, PollEvents PROVE EventsInv'
<1>1. /\ cursor' = NextCursor(cursor) /\ UNCHANGED storeVars
      /\ UNCHANGED <<counter, buffer, restarts, open, fetched, sent, wire, seen, received>>
  BY DEF PollEvents, storeVars, streamVars
<1>2. EventsTyped'
  BY <1>1, GoesOnFrom DEF EventsInv, EventsTyped
<1>3. restarts = 0 => NotAhead'
  BY <1>1 DEF EventsInv, StreamSound, NotAhead
<1>4. \A n \in Nat : Passed(n) => Passed(n)'
  BY <1>1, PassedOver
<1>5. QED
  BY <1>1, <1>2, <1>3, <1>4, StreamMoves

\* A poll that is neither of the future nor stale skips nothing.
LEMMA OkSkips == ASSUME EventsTyped, InSequence PROVE OkSkipsNothing
<1> SUFFICES ASSUME cursor # 0, ~ Future(cursor), ~ Stale(cursor),
                    NEW n \in cursor + 1 .. NextCursor(cursor)
             PROVE  n \in ToSet(PollAnswer(cursor))
  BY DEF OkSkipsNothing, IsOk
<1> DEFINE A == PollScan(cursor)
<1>1. /\ cursor \in Nat /\ counter \in Nat /\ Len(buffer) \in Nat
      /\ \A i \in 1 .. Len(buffer) : buffer[i].age \in Nat
  BY Buffered DEF EventsTyped
<1>2. PollAnswer(cursor) = A /\ NextCursor(cursor) = IF A # <<>> THEN A[Len(A)] ELSE cursor
  BY DEF PollAnswer, NextCursor, Effective
<1>3. /\ A \in Seq(Nat) /\ Earliest(cursor) \in Nat
      /\ \A k \in 1 .. Len(A) : /\ cursor < A[k] /\ A[k] <= counter
                                /\ \E i \in 1 .. Len(buffer) :
                                     buffer[i].seq = A[k] /\ Shown(buffer[i])
      /\ \A k \in 1 .. Len(A), i \in 1 .. Len(buffer) :
           Shown(buffer[i]) /\ cursor < buffer[i].seq /\ buffer[i].seq <= A[k]
             => \E j \in 1 .. k : A[j] = buffer[i].seq
      /\ A # <<>> => Earliest(cursor) = A[1]
  BY <1>1, Found
<1> HIDE DEF A
<1>4. A # <<>> /\ n \in Nat
  BY <1>1, <1>2
<1>5. Len(A) \in Nat \ {0} /\ A[1] \in Nat /\ A[Len(A)] \in Nat
  BY <1>3, <1>4, EmptySeq, LenProperties, ElementOfSeq
<1>6. A[1] = cursor + 1
  <2>1. Earliest(cursor) <= cursor + 1
    BY <1>1, <1>3 DEF Stale
  <2>2. cursor < A[1] /\ Earliest(cursor) = A[1]
    BY <1>3, <1>4, <1>5
  <2>3. QED
    BY <1>1, <1>5, <2>1, <2>2
<1>7. PICK i \in 1 .. Len(buffer) : buffer[i].seq = cursor + 1 /\ Shown(buffer[i])
  BY <1>3, <1>5, <1>6
<1>8. n <= A[Len(A)] /\ A[Len(A)] <= counter /\ cursor + 1 <= n
  BY <1>1, <1>2, <1>3, <1>4, <1>5
<1>9. PICK p \in 1 .. Len(buffer) : p = i + (n - (cursor + 1)) /\ i <= p
  <2>1. cursor + 1 = counter - Len(buffer) + i
    BY <1>7 DEF InSequence
  <2>2. QED
    BY <1>1, <1>4, <1>5, <1>8, <2>1
<1>10. buffer[p].seq = n
  <2>1. buffer[i].seq = counter - Len(buffer) + i /\ buffer[p].seq = counter - Len(buffer) + p
    BY DEF InSequence
  <2>2. QED
    BY <1>1, <1>4, <1>7, <1>9, <2>1
<1>11. Shown(buffer[p])
  <2>1. buffer[p].age <= buffer[i].age
    BY <1>9 DEF InSequence
  <2>2. QED
    BY <1>1, <1>7, <2>1, JobEventsAssumption DEF Shown
<1>12. PICK j \in 1 .. Len(A) : A[j] = n
  <2>1. Len(A) \in 1 .. Len(A) /\ cursor < n
    BY <1>1, <1>4, <1>5, <1>8
  <2>2. QED
    BY <1>3, <1>8, <1>10, <1>11, <2>1
<1>13. QED
  BY <1>2, <1>3, <1>12, Places DEF ToSet

LEMMA Advances == ASSUME EventsTyped, InSequence PROVE PollAdvances
<1> SUFFICES ASSUME NEW i \in 1 .. Len(buffer), Shown(buffer[i]), buffer[i].seq > cursor,
                    ~ Future(cursor)
             PROVE  PollAnswer(cursor) # <<>>
  BY Buffered DEF PollAdvances
<1>1. /\ cursor \in Nat /\ counter \in Nat /\ Len(buffer) \in Nat
      /\ \A k \in 1 .. Len(buffer) : buffer[k].seq \in Nat
  BY Buffered DEF EventsTyped
<1>0. \E h \in 1 .. Len(buffer) : Shown(buffer[h]) /\ cursor < buffer[h].seq
  BY <1>1
<1>2. /\ PollScan(cursor) \in Seq(Nat) /\ Earliest(cursor) \in Nat
      /\ \A k \in 1 .. Len(PollScan(cursor)) :
           /\ cursor < PollScan(cursor)[k] /\ PollScan(cursor)[k] <= counter
           /\ \E h \in 1 .. Len(buffer) :
                buffer[h].seq = PollScan(cursor)[k] /\ Shown(buffer[h])
      /\ (\E h \in 1 .. Len(buffer) : Shown(buffer[h]) /\ cursor < buffer[h].seq)
           => PollScan(cursor) # <<>>
      /\ PollScan(cursor) # <<>> => Earliest(cursor) = PollScan(cursor)[1]
  BY <1>1, Found
<1>6. PollScan(cursor) # <<>> /\ Earliest(cursor) = PollScan(cursor)[1]
  BY <1>0, <1>2
<1>3. CASE ~ Stale(cursor)
  BY <1>6, <1>3 DEF PollAnswer, Effective
<1>4. CASE Stale(cursor)
  <2>1. 1 \in 1 .. Len(PollScan(cursor))
    BY <1>2, <1>6, EmptySeq, LenProperties
  <2>2. PICK h \in 1 .. Len(buffer) : buffer[h].seq = Earliest(cursor) /\ Shown(buffer[h])
    BY <1>2, <1>6, <2>1
  <2>3. Earliest(cursor) \in Nat /\ cursor < Earliest(cursor)
    BY <1>1, <1>2, <1>6, <2>1
  <2>4. PICK e \in Nat : e = Earliest(cursor) - 1 /\ e < buffer[h].seq
    BY <1>1, <2>2, <2>3
  <2>5. PollScan(e) # <<>>
    <3>1. (\E x \in 1 .. Len(buffer) : Shown(buffer[x]) /\ e < buffer[x].seq)
            => PollScan(e) # <<>>
      BY <2>4, Found
    <3>2. QED
      BY <2>2, <2>4, <3>1
  <2>6. PollAnswer(cursor) = PollScan(e)
    BY <1>4, <2>4 DEF PollAnswer, Effective
  <2>7. QED
    BY <2>5, <2>6
<1>5. QED
  BY <1>3, <1>4

-----------------------------------------------------------------------------
(* What lies behind the cursor, in one life of the server.                 *)

Gone(n)   == \A i \in 1 .. Len(buffer) : buffer[i].seq = n => ~ Shown(buffer[i])
Behind(n) == n \in polled \/ (n \in skipped /\ Gone(n))

PollsSound == restarts = 0 => cursor <= counter /\ \A n \in 1 .. cursor : Behind(n)

\* A step that is no poll: the numbers behind the cursor are not shown again.
LEMMA CursorKept ==
  ASSUME EventsTyped, PollsSound, UNCHANGED <<restarts, cursor, polled, skipped>>,
         counter' \in Nat, counter <= counter',
         \A i \in 1 .. Len(buffer') :
           Shown(buffer'[i]) => \/ buffer'[i].seq > counter
                                \/ \E j \in 1 .. Len(buffer) :
                                     buffer[j].seq = buffer'[i].seq /\ Shown(buffer[j])
  PROVE  PollsSound'
<1> SUFFICES ASSUME restarts = 0
             PROVE  cursor <= counter' /\ \A n \in 1 .. cursor : Behind(n)'
  BY DEF PollsSound
<1>1. cursor \in Nat /\ counter \in Nat /\ cursor <= counter /\ \A n \in 1 .. cursor : Behind(n)
  BY DEF EventsTyped, PollsSound
<1>2. ASSUME NEW n \in 1 .. cursor PROVE Behind(n)'
  <2>1. CASE n \in polled
    BY <2>1 DEF Behind
  <2>2. CASE n \in skipped /\ Gone(n)
    <3>1. ASSUME NEW i \in 1 .. Len(buffer'), buffer'[i].seq = n, Shown(buffer'[i]) PROVE FALSE
      <4>1. n <= counter /\ n \in Nat
        BY <1>1
      <4>2. PICK j \in 1 .. Len(buffer) : buffer[j].seq = n /\ Shown(buffer[j])
        BY <1>1, <3>1, <4>1
      <4> QED
        BY <2>2, <4>2 DEF Gone
    <3> QED
      BY <2>2, <3>1 DEF Behind, Gone, Shown
  <2> QED
    BY <1>1, <2>1, <2>2 DEF Behind
<1> QED
  BY <1>1, <1>2

\* A poll in the first life: it is not of the future, and what it passes over with the
\* next cursor is in its answer, or is told and not shown.
LEMMA PollTells == ASSUME EventsInv, PollsSound, PollEvents PROVE PollsSound'
<1> SUFFICES ASSUME restarts = 0
             PROVE  NextCursor(cursor) <= counter /\ \A n \in 1 .. NextCursor(cursor) : Behind(n)'
  BY DEF PollsSound, PollEvents, storeVars
<1> DEFINE e == Effective(cursor)
           B == PollAnswer(cursor)
<1>1. EventsTyped /\ InSequence /\ cursor \in Nat /\ counter \in Nat /\ cursor <= counter
  BY DEF EventsInv, EventsTyped, PollsSound
<1>2. /\ UNCHANGED <<counter, buffer, restarts>> /\ polled' = polled \cup ToSet(B)
      /\ skipped' = IF IsOk(cursor) THEN skipped ELSE skipped \cup 1 .. NextCursor(cursor)
  BY DEF PollEvents, storeVars
<1>3. e \in Nat /\ NextCursor(cursor) \in Nat /\ B = PollScan(e)
      /\ NextCursor(cursor) = IF B # <<>> THEN B[Len(B)] ELSE e
  BY <1>1, GoesOnFrom DEF NextCursor
<1>4. ~ Future(cursor) /\ e = IF Stale(cursor) THEN Earliest(cursor) - 1 ELSE cursor
  BY <1>1 DEF Future, Effective
<1> HIDE DEF e, B
<1>5. /\ B \in Seq(Nat)
      /\ \A k \in 1 .. Len(B) : e < B[k] /\ B[k] <= counter
      /\ \A k \in 1 .. Len(B), i \in 1 .. Len(buffer) :
           Shown(buffer[i]) /\ e < buffer[i].seq /\ buffer[i].seq <= B[k]
             => \E j \in 1 .. k : B[j] = buffer[i].seq
      /\ (\E i \in 1 .. Len(buffer) : Shown(buffer[i]) /\ e < buffer[i].seq) => B # <<>>
  BY <1>1, <1>3, Found
<1>6. B # <<>> => Len(B) \in 1 .. Len(B) /\ Len(B) \in Nat
  BY <1>5, EmptySeq, LenProperties
\* The first event that is shown beyond the cursor is the earliest.
<1>7. /\ PollScan(cursor) \in Seq(Nat) /\ Earliest(cursor) \in Nat
      /\ PollScan(cursor) = <<>> => Earliest(cursor) <= cursor
      /\ PollScan(cursor) # <<>> =>
           /\ Earliest(cursor) = PollScan(cursor)[1] /\ 1 \in 1 .. Len(PollScan(cursor))
           /\ cursor < Earliest(cursor) /\ Earliest(cursor) <= counter
      /\ \A i \in 1 .. Len(buffer) :
           Shown(buffer[i]) /\ cursor < buffer[i].seq => Earliest(cursor) <= buffer[i].seq
  <2> DEFINE A == PollScan(cursor)
  <2>1. /\ A \in Seq(Nat) /\ Earliest(cursor) \in Nat
        /\ \A k \in 1 .. Len(A) : cursor < A[k] /\ A[k] <= counter
        /\ \A k \in 1 .. Len(A), i \in 1 .. Len(buffer) :
             Shown(buffer[i]) /\ cursor < buffer[i].seq /\ buffer[i].seq <= A[k]
               => \E j \in 1 .. k : A[j] = buffer[i].seq
        /\ (\E i \in 1 .. Len(buffer) : Shown(buffer[i]) /\ cursor < buffer[i].seq) => A # <<>>
        /\ A # <<>> => Earliest(cursor) = A[1]
        /\ A = <<>> => Earliest(cursor) <= cursor
    BY <1>1, Found
  <2> HIDE DEF A
  <2>2. A # <<>> => 1 \in 1 .. Len(A)
    BY <2>1, EmptySeq, LenProperties
  <2>3. ASSUME NEW i \in 1 .. Len(buffer), Shown(buffer[i]), cursor < buffer[i].seq
        PROVE  Earliest(cursor) <= buffer[i].seq
    <3>1. A # <<>> /\ Earliest(cursor) = A[1] /\ buffer[i].seq \in Nat
      BY <1>1, <2>1, <2>3, Buffered
    <3>2. buffer[i].seq <= A[1] => \E j \in 1 .. 1 : A[j] = buffer[i].seq
      BY <2>1, <2>2, <2>3, <3>1
    <3> QED
      BY <2>1, <3>1, <3>2
  <2> QED
    BY <2>1, <2>2, <2>3 DEF A
<1>8. NextCursor(cursor) <= counter
  <2>1. CASE B # <<>>
    BY <1>3, <1>5, <1>6, <2>1
  <2>2. CASE B = <<>>
    <3>1. Stale(cursor) => PollScan(cursor) # <<>>
      BY <1>1, <1>7 DEF Stale
    <3> QED
      BY <1>1, <1>3, <1>4, <1>7, <2>2, <3>1
  <2> QED
    BY <2>1, <2>2
<1>9. ASSUME NEW n \in 1 .. NextCursor(cursor), n > cursor PROVE Behind(n)'
  <2>0. n \in Nat /\ n <= NextCursor(cursor)
    BY <1>3
  <2>1. CASE IsOk(cursor)
    <3>1. n \in cursor + 1 .. NextCursor(cursor)
      BY <1>1, <1>3, <1>9
    <3>2. n \in ToSet(B)
      BY <1>1, <2>1, <3>1, OkSkips DEF OkSkipsNothing, B
    <3> QED
      BY <1>2, <3>2 DEF Behind
  <2>2. CASE ~ IsOk(cursor) /\ Gone(n)
    BY <1>2, <2>2 DEF Behind, Gone, Shown
  <2>3. CASE ~ Gone(n)
    <3>1. PICK i \in 1 .. Len(buffer) : buffer[i].seq = n /\ Shown(buffer[i])
      BY <2>3 DEF Gone
    <3>2. Earliest(cursor) <= n
      BY <1>1, <1>7, <1>9, <3>1
    <3>3. e < n
      BY <1>1, <1>4, <1>7, <1>9, <2>0, <3>2
    <3>4. B # <<>>
      BY <1>5, <3>1, <3>3
    <3>5. PICK j \in 1 .. Len(B) : B[j] = n
      BY <1>3, <1>5, <1>6, <2>0, <3>1, <3>3, <3>4
    <3>6. n \in ToSet(B)
      BY <1>5, <3>5, Places DEF ToSet
    <3> QED
      BY <1>2, <3>6 DEF Behind
  <2> QED
    BY <2>1, <2>2, <2>3
<1>10. ASSUME NEW n \in 1 .. NextCursor(cursor), ~ (n > cursor) PROVE Behind(n)'
  <2>1. Behind(n)
    BY <1>1, <1>3, <1>10 DEF PollsSound
  <2>2. polled \subseteq polled' /\ skipped \subseteq skipped'
    BY <1>2
  <2> QED
    BY <1>2, <2>1, <2>2 DEF Behind, Gone, Shown
<1> QED
  BY <1>8, <1>9, <1>10

LEMMA PollsHold ==
  ASSUME EventsInv, PollsSound, [EventsNext]_eventVars
  PROVE  PollsSound'
<1>1. EventsTyped /\ InSequence /\ counter \in Nat
  BY DEF EventsInv, EventsTyped
<1>2. ASSUME UNCHANGED <<storeVars, pollVars>> PROVE PollsSound'
  <2>1. UNCHANGED <<restarts, cursor, polled, skipped, counter, buffer>>
    BY <1>2 DEF storeVars, pollVars
  <2> QED
    BY <1>1, <2>1, CursorKept
<1>3. CASE Emit
  <2>1. counter' = counter + 1 /\ UNCHANGED <<restarts, cursor, polled, skipped>>
    BY <1>3 DEF Emit, pollVars
  <2>2. \A i \in 1 .. Len(buffer') :
          \/ buffer'[i].seq = counter'
          \/ \E j \in 1 .. Len(buffer) : buffer'[i] = buffer[j]
    BY <1>1, <1>3, EmitOrders
  <2>3. \A i \in 1 .. Len(buffer') :
          Shown(buffer'[i]) => \/ buffer'[i].seq > counter
                               \/ \E j \in 1 .. Len(buffer) :
                                    buffer[j].seq = buffer'[i].seq /\ Shown(buffer[j])
    BY <1>1, <2>1, <2>2
  <2> QED
    BY <1>1, <2>1, <2>3, CursorKept
<1>4. CASE EventsTick
  <2>1. UNCHANGED <<counter, restarts, cursor, polled, skipped>>
    BY <1>4 DEF EventsTick, pollVars
  <2>2. /\ Len(buffer') = Len(buffer)
        /\ \A i \in 1 .. Len(buffer) : buffer'[i].seq = buffer[i].seq
        /\ \A i \in 1 .. Len(buffer) : Shown(buffer'[i]) => Shown(buffer[i])
    BY <1>1, <1>4, TickOrders
  <2> QED
    BY <1>1, <2>1, <2>2, CursorKept
<1>5. CASE EventsRestart
  BY <1>5 DEF EventsRestart, PollsSound, EventsInv, EventsTyped
<1>6. CASE PollEvents
  BY <1>6, PollTells
<1>7. Connect \/ Fetch \/ WriteEvent \/ Receive \/ Disconnect \/ UNCHANGED eventVars
        => UNCHANGED <<storeVars, pollVars>>
  BY DEF Connect, Fetch, WriteEvent, Receive, Disconnect, eventVars
<1> QED
  BY <1>2, <1>3, <1>4, <1>5, <1>6, <1>7 DEF EventsNext

LEMMA EventsBegin == EventsInit => EventsInv
<1> SUFFICES ASSUME EventsInit PROVE EventsInv
  OBVIOUS
<1>1. /\ counter = 0 /\ restarts = 0 /\ buffer = <<>> /\ open = FALSE /\ fetched = <<>>
      /\ sent = 0 /\ wire = <<>> /\ seen = 0 /\ cursor = 0
  BY DEF EventsInit
<1>2. \A S : <<>> \in Seq(S)
  BY EmptySeq
<1>3. Len(buffer) = 0 /\ Len(fetched) = 0 /\ Len(wire) = 0
  BY <1>1, EmptySeq
<1>4. EventsTyped
  BY <1>1, <1>2 DEF EventsTyped
<1>5. InSequence
  BY <1>1, <1>3, JobEventsAssumption DEF InSequence
<1>6. StreamSound
  BY <1>1, <1>3 DEF StreamSound, NotAhead
<1>7. QED
  BY <1>4, <1>5, <1>6 DEF EventsInv

LEMMA EventsHold == EventsInv /\ [EventsNext]_eventVars => EventsInv'
<1> SUFFICES ASSUME EventsInv, [EventsNext]_eventVars PROVE EventsInv'
  OBVIOUS
<1>1. CASE UNCHANGED eventVars
  <2>1. UNCHANGED storeVars /\ UNCHANGED <<counter, buffer, restarts, open, fetched, sent, wire, seen,
                                           received, cursor>>
    BY <1>1 DEF eventVars, storeVars, streamVars, pollVars
  <2>2. EventsTyped'
    BY <2>1 DEF EventsInv, EventsTyped
  <2>3. restarts = 0 => NotAhead'
    BY <2>1 DEF EventsInv, StreamSound, NotAhead
  <2>4. QED
    BY <2>1, <2>2, <2>3, PassedOver, StreamMoves
<1>2. CASE EventsNext
  BY <1>2, StoreHolds, ConnectHolds, FetchHolds, WriteHolds, ReceiveHolds, DisconnectHolds, PollHolds
  DEF EventsNext
<1>3. QED
  BY <1>1, <1>2

\* In one life of the server every event behind a reader's number has reached it, by the
\* stream, however often it breaks, or by a poll, unless a reset told that it is passed over
\* and it is shown no more; and in any life a poll that is told its cursor is good passes
\* over no event ahead of that cursor, and none comes back empty while there is something
\* new (events_since, events_poll_handler); for buffers, limits and batches of any size.
THEOREM NothingIsMissed == EventsSpec => []ReadersMissNothing
<1>1. EventsInv /\ PollsSound => ReadersMissNothing
  <2> SUFFICES ASSUME EventsInv, PollsSound PROVE ReadersMissNothing
    OBVIOUS
  <2>1. ResumeInOneLife
    BY Buffered DEF EventsInv, StreamSound, Passed, ResumeInOneLife, ResumeMissesNothing
  <2>2. BehindCursor
    BY Buffered DEF EventsInv, PollsSound, Behind, Gone, BehindCursor
  <2>3. QED
    BY <2>1, <2>2, OkSkips, Advances DEF EventsInv, ReadersMissNothing
<1>2. EventsInit => PollsSound
  BY DEF EventsInit, PollsSound
<1>3. EventsInv /\ PollsSound /\ [EventsNext]_eventVars => PollsSound'
  BY PollsHold
<1>4. QED
  BY <1>1, <1>2, <1>3, EventsBegin, EventsHold, PTL DEF EventsSpec

-----------------------------------------------------------------------------
(* The audit log.                                                          *)

AreFiles(fs) == fs \in [0 .. TOP -> Seq(Line)]

\* No file is left beyond the last backup, and every line has an end.
Removed(fs) == \A n \in backups + 1 .. TOP : fs[n] = <<>>
Entire(fs)  == \A n \in 0 .. TOP : \A i \in 1 .. Len(fs[n]) : fs[n][i].kind \in {"whole", "long"}

\* The chain within a file, and from one file to the next newer one.
Within(fs) == \A n \in 0 .. TOP : \A i \in 2 .. Len(fs[n]) : fs[n][i].prev = fs[n][i - 1].hash
Across(fs) ==
  \A n, m \in 0 .. TOP :
    n < m /\ fs[n] # <<>> /\ fs[m] # <<>> /\ (\A k \in n + 1 .. m - 1 : fs[k] = <<>>)
      => fs[n][1].prev = fs[m][Len(fs[m])].hash

\* The newest line there is has hash h.
EndsWith(fs, h) ==
  \A n \in 0 .. TOP :
    fs[n] # <<>> /\ (\A k \in 0 .. n - 1 : fs[k] = <<>>) => fs[n][Len(fs[n])].hash = h

Linked(fs) == Removed(fs) /\ Entire(fs) /\ Within(fs) /\ Across(fs)

AuditInv ==
  /\ AuditTypeOK /\ entries \in 0 .. LAST_ENTRY
  /\ broken = {} => Linked(files) /\ (lastHash # NoHash => EndsWith(files, lastHash))

LEMMA TopBounds == TOP \in Nat /\ \A b \in BackupChoices : b \in 0 .. TOP
<1>1. TOP \in BackupChoices /\ \A b \in BackupChoices : b <= TOP
  BY AuditAssumption, GreatestOf DEF TOP
<1> QED
  BY <1>1, AuditAssumption

LEMMA LineParts ==
  \A l \in Line : /\ l.prev \in 0 .. LAST_ENTRY /\ l.hash \in 0 .. LAST_ENTRY
                  /\ l.kind \in {"whole", "long", "torn", "garbled"}
BY DEF Line

\* What a file of lines has.
LEMMA FileParts ==
  ASSUME NEW fs, AreFiles(fs), NEW n \in 0 .. TOP
  PROVE  /\ fs[n] \in Seq(Line) /\ Len(fs[n]) \in Nat /\ DOMAIN fs[n] = 1 .. Len(fs[n])
         /\ \A i \in 1 .. Len(fs[n]) : fs[n][i] \in Line
         /\ fs[n] # <<>> => Len(fs[n]) \in 1 .. Len(fs[n]) /\ 1 \in 1 .. Len(fs[n])
         /\ fs[n] = <<>> <=> Len(fs[n]) = 0
<1>1. fs[n] \in Seq(Line)
  BY DEF AreFiles
<1>2. Len(fs[n]) \in Nat /\ DOMAIN fs[n] = 1 .. Len(fs[n]) /\ \A i \in 1 .. Len(fs[n]) : fs[n][i] \in Line
  BY <1>1, Places
<1>3. fs[n] = <<>> <=> Len(fs[n]) = 0
  BY <1>1, EmptySeq
<1> QED
  BY <1>1, <1>2, <1>3

\* A rotation, ended or not, leaves the files that it keeps in their order.
LEMMA ShiftKeeps ==
  ASSUME AreFiles(files), backups \in BackupChoices, NEW from \in 0 .. backups
  PROVE  /\ AreFiles(Shifted(from))
         /\ Linked(files) => Linked(Shifted(from))
         /\ Linked(files) => \A h : EndsWith(files, h) => EndsWith(Shifted(from), h)
<1>1. TOP \in Nat /\ backups \in 0 .. TOP /\ from \in 0 .. TOP /\ from <= backups
  BY TopBounds
<1> DEFINE F == Shifted(from)
<1>2. /\ \A n \in 0 .. TOP : n < from \/ n > backups => F[n] = files[n]
      /\ F[from] = <<>>
      /\ \A n \in from + 1 .. backups : F[n] = files[n - 1]
  BY <1>1 DEF Shifted
<1>3. AreFiles(F)
  <2>1. \A n \in 0 .. TOP : files[n] \in Seq(Line)
    BY DEF AreFiles
  <2>2. <<>> \in Seq(Line)
    BY EmptySeq
  <2>3. ASSUME NEW n \in 0 .. TOP
        PROVE  (IF n < from \/ n > backups THEN files[n] ELSE IF n = from THEN <<>> ELSE files[n - 1])
                 \in Seq(Line)
    <3>1. CASE n < from \/ n > backups
      BY <2>1, <3>1
    <3>2. CASE n = from
      BY <2>1, <2>2, <3>2
    <3>3. CASE ~ (n < from \/ n > backups) /\ n # from
      <4>1. n - 1 \in 0 .. TOP
        BY <1>1, <3>3
      <4> QED
        BY <2>1, <3>3, <4>1
    <3> QED
      BY <3>1, <3>2, <3>3
  <2> QED
    BY <2>3 DEF AreFiles, Shifted
<1> HIDE DEF F
<1> SUFFICES ASSUME Linked(files)
             PROVE  Linked(F) /\ \A h : EndsWith(files, h) => EndsWith(F, h)
  BY <1>3 DEF F
\* Where a file that is there comes from.
<1> DEFINE g(n) == IF n < from THEN n ELSE n - 1
<1>4. ASSUME NEW n \in 0 .. TOP, F[n] # <<>>
      PROVE  g(n) \in 0 .. TOP /\ F[n] = files[g(n)] /\ n # from /\ n <= backups
  <2>1. n <= backups
    <3> SUFFICES ASSUME n > backups PROVE FALSE
      BY <1>1
    <3>1. n \in backups + 1 .. TOP
      BY <1>1
    <3> QED
      BY <1>2, <1>4, <3>1 DEF Linked, Removed
  <2>2. n # from
    BY <1>2, <1>4
  <2>3. CASE n < from
    BY <1>1, <1>2, <2>1, <2>2, <2>3
  <2>4. CASE n > from
    <3>1. n \in from + 1 .. backups /\ n - 1 \in 0 .. TOP
      BY <1>1, <2>1, <2>4
    <3> QED
      BY <1>1, <1>2, <2>1, <2>2, <2>4, <3>1
  <2> QED
    BY <1>1, <2>2, <2>3, <2>4
\* Where nothing is, nothing was.
<1>5. ASSUME NEW n \in -1 .. TOP, NEW m \in 0 .. TOP, F[m] # <<>>, n < m,
             n = -1 \/ (n # -1 /\ F[n] # <<>>),
             \A k \in n + 1 .. m - 1 : F[k] = <<>>,
             NEW k \in (IF n = -1 THEN 0 ELSE g(n) + 1) .. g(m) - 1
      PROVE  files[k] = <<>>
  <2>1. m <= backups /\ m # from
    BY <1>4, <1>5
  <2>2. n = -1 \/ n # from
    BY <1>4, <1>5
  <2>3. k \in 0 .. TOP /\ k < backups
    BY <1>1, <1>5, <2>1
  <2>4. CASE k < from
    <3>1. k \in n + 1 .. m - 1
      BY <1>1, <1>5, <2>1, <2>2, <2>3, <2>4
    <3> QED
      BY <1>2, <1>5, <2>3, <2>4, <3>1
  <2>5. CASE ~ (k < from)
    <3>1. k + 1 \in n + 1 .. m - 1 /\ k + 1 \in from + 1 .. backups /\ (k + 1) - 1 = k
      BY <1>1, <1>5, <2>1, <2>2, <2>3, <2>5
    <3>2. F[k + 1] = <<>>
      BY <1>5, <3>1
    <3>3. F[k + 1] = files[(k + 1) - 1]
      BY <1>2, <3>1
    <3> QED
      BY <3>1, <3>2, <3>3
  <2> QED
    BY <2>4, <2>5
<1>6. Removed(F)
  BY <1>1, <1>2 DEF Linked, Removed
<1>7. Entire(F) /\ Within(F)
  <2>1. ASSUME NEW n \in 0 .. TOP, F[n] # <<>>
        PROVE  /\ \A i \in 1 .. Len(F[n]) : F[n][i].kind \in {"whole", "long"}
               /\ \A i \in 2 .. Len(F[n]) : F[n][i].prev = F[n][i - 1].hash
    BY <1>4, <2>1 DEF Linked, Entire, Within
  <2>2. ASSUME NEW n \in 0 .. TOP, F[n] = <<>> PROVE Len(F[n]) = 0
    BY <2>2, EmptySeq
  <2> QED
    BY <2>1, <2>2 DEF Entire, Within
<1>8. Across(F)
  <2> SUFFICES ASSUME NEW n \in 0 .. TOP, NEW m \in 0 .. TOP, n < m, F[n] # <<>>, F[m] # <<>>,
                      \A k \in n + 1 .. m - 1 : F[k] = <<>>
               PROVE  F[n][1].prev = F[m][Len(F[m])].hash
    BY DEF Across
  <2>1. g(n) \in 0 .. TOP /\ g(m) \in 0 .. TOP /\ F[n] = files[g(n)] /\ F[m] = files[g(m)]
        /\ n # from /\ m # from
    BY <1>4
  <2>2. g(n) < g(m)
    BY <1>1, <2>1
  <2>3. \A k \in g(n) + 1 .. g(m) - 1 : files[k] = <<>>
    BY <1>1, <1>5
  <2> QED
    BY <2>1, <2>2, <2>3 DEF Linked, Across
<1>9. ASSUME NEW h, EndsWith(files, h) PROVE EndsWith(F, h)
  <2> SUFFICES ASSUME NEW n \in 0 .. TOP, F[n] # <<>>, \A k \in 0 .. n - 1 : F[k] = <<>>
               PROVE  F[n][Len(F[n])].hash = h
    BY DEF EndsWith
  <2>1. g(n) \in 0 .. TOP /\ F[n] = files[g(n)]
    BY <1>4
  <2>2. \A k \in 0 .. g(n) - 1 : files[k] = <<>>
    <3>1. -1 \in -1 .. TOP /\ -1 < n /\ -1 + 1 = 0 /\ n \in 0 .. TOP
      BY <1>1
    <3>2. \A k \in -1 + 1 .. n - 1 : F[k] = <<>>
      BY <3>1
    <3>3. \A k \in (IF -1 = -1 THEN 0 ELSE g(-1) + 1) .. g(n) - 1 : files[k] = <<>>
      BY <1>5, <3>1, <3>2
    <3> QED
      BY <3>3
  <2> QED
    BY <1>9, <2>1, <2>2 DEF EndsWith
<1> QED
  BY <1>6, <1>7, <1>8, <1>9 DEF Linked

\* The file that is written to, by a line that stands on its own.
LEMMA AppendLinks ==
  ASSUME NEW fs, AreFiles(fs), Linked(fs), NEW line \in Line, line.kind \in {"whole", "long"},
         EndsWith(fs, line.prev), backups \in BackupChoices,
         NEW G, G = [fs EXCEPT ![0] = Append(fs[0], line)]
  PROVE  Linked(G) /\ EndsWith(G, line.hash)
<1>1. TOP \in Nat /\ backups \in 0 .. TOP /\ 0 \in 0 .. TOP
  BY TopBounds
<1>2. \A n \in 0 .. TOP : n # 0 => G[n] = fs[n]
  BY DEF AreFiles
<1>3. /\ Len(G[0]) = Len(fs[0]) + 1 /\ G[0] # <<>> /\ G[0][Len(fs[0]) + 1] = line
      /\ \A i \in 1 .. Len(fs[0]) : G[0][i] = fs[0][i]
  <2>1. G[0] = Append(fs[0], line)
    BY <1>1 DEF AreFiles
  <2>2. fs[0] \in Seq(Line)
    BY <1>1, FileParts
  <2> QED
    BY <2>1, <2>2, AppendProperties
<1>4. Len(fs[0]) \in Nat /\ (fs[0] = <<>> <=> Len(fs[0]) = 0)
  BY <1>1, FileParts
<1>5. Removed(G)
  BY <1>1, <1>2 DEF Linked, Removed
<1>6. Entire(G)
  <2>1. ASSUME NEW i \in 1 .. Len(G[0]) PROVE G[0][i].kind \in {"whole", "long"}
    <3>1. CASE i = Len(fs[0]) + 1
      BY <1>3, <3>1
    <3>2. CASE i # Len(fs[0]) + 1
      <4>1. i \in 1 .. Len(fs[0])
        BY <1>3, <1>4, <3>2
      <4> QED
        BY <1>1, <1>3, <4>1 DEF Linked, Entire
    <3> QED
      BY <3>1, <3>2
  <2> QED
    BY <1>2, <2>1 DEF Linked, Entire
<1>7. Within(G)
  <2>1. ASSUME NEW i \in 2 .. Len(G[0]) PROVE G[0][i].prev = G[0][i - 1].hash
    <3>1. CASE i = Len(fs[0]) + 1
      <4>1. Len(fs[0]) \in 1 .. Len(fs[0]) /\ i - 1 = Len(fs[0]) /\ fs[0] # <<>>
        BY <1>3, <1>4, <3>1
      <4>2. fs[0][Len(fs[0])].hash = line.prev
        <5>1. \A k \in 0 .. 0 - 1 : fs[k] = <<>>
          OBVIOUS
        <5> QED
          BY <1>1, <4>1, <5>1 DEF EndsWith
      <4> QED
        BY <1>3, <3>1, <4>1, <4>2
    <3>2. CASE i # Len(fs[0]) + 1
      <4>1. i \in 2 .. Len(fs[0]) /\ i \in 1 .. Len(fs[0]) /\ i - 1 \in 1 .. Len(fs[0])
        BY <1>3, <1>4, <3>2
      <4> QED
        BY <1>1, <1>3, <4>1 DEF Linked, Within
    <3> QED
      BY <3>1, <3>2
  <2> QED
    BY <1>2, <2>1 DEF Linked, Within
<1>8. Across(G)
  <2> SUFFICES ASSUME NEW n \in 0 .. TOP, NEW m \in 0 .. TOP, n < m, G[n] # <<>>, G[m] # <<>>,
                      \A k \in n + 1 .. m - 1 : G[k] = <<>>
               PROVE  G[n][1].prev = G[m][Len(G[m])].hash
    BY DEF Across
  <2>1. m # 0 /\ G[m] = fs[m]
    BY <1>1, <1>2
  <2>2. \A k \in n + 1 .. m - 1 : fs[k] = <<>>
    BY <1>1, <1>2
  <2>3. CASE fs[n] # <<>>
    <3>1. G[n][1] = fs[n][1]
      <4>1. CASE n = 0
        <5>1. 1 \in 1 .. Len(fs[0])
          BY <1>4, <2>3, <4>1
        <5> QED
          BY <1>3, <4>1, <5>1
      <4> QED
        BY <1>2, <4>1
    <3> QED
      BY <2>1, <2>2, <2>3, <3>1 DEF Linked, Across
  <2>4. CASE fs[n] = <<>>
    <3>1. n = 0
      BY <1>2, <2>4
    <3>2. G[0][1] = line
      BY <1>3, <1>4, <2>4, <3>1
    <3>3. \A k \in 0 .. m - 1 : fs[k] = <<>>
      BY <2>2, <2>4, <3>1
    <3>4. fs[m][Len(fs[m])].hash = line.prev
      BY <2>1, <3>3 DEF EndsWith
    <3> QED
      BY <2>1, <3>1, <3>2, <3>4
  <2> QED
    BY <2>3, <2>4
<1>9. EndsWith(G, line.hash)
  <2> SUFFICES ASSUME NEW n \in 0 .. TOP, G[n] # <<>>, \A k \in 0 .. n - 1 : G[k] = <<>>
               PROVE  G[n][Len(G[n])].hash = line.hash
    BY DEF EndsWith
  <2>1. n = 0
    BY <1>1, <1>3
  <2> QED
    BY <1>3, <2>1
<1> QED
  BY <1>5, <1>6, <1>7, <1>8, <1>9 DEF Linked

\* A line is written in its form.
LEMMA WrittenIsFile ==
  ASSUME NEW fs, AreFiles(fs), NEW line \in Line
  PROVE  /\ AreFiles([fs EXCEPT ![0] = Written(@, line)])
         /\ Entire(fs) => Written(fs[0], line) = Append(fs[0], line)
<1>1. TOP \in Nat /\ 0 \in 0 .. TOP
  BY TopBounds
<1>2. /\ fs[0] \in Seq(Line) /\ Len(fs[0]) \in Nat
      /\ \A i \in 1 .. Len(fs[0]) : fs[0][i] \in Line
      /\ fs[0] # <<>> => Len(fs[0]) \in 1 .. Len(fs[0])
  BY <1>1, FileParts
<1>3. Written(fs[0], line) \in Seq(Line)
  <2>1. [line EXCEPT !.kind = "garbled"] \in Line
    BY DEF Line
  <2>2. Front(fs[0]) \in Seq(Line)
    BY <1>2, SubSeqProperties DEF Front
  <2>3. /\ Append(Front(fs[0]), [line EXCEPT !.kind = "garbled"]) \in Seq(Line)
        /\ Append(fs[0], line) \in Seq(Line)
    BY <1>2, <2>1, <2>2, AppendProperties
  <2> QED
    BY <2>3 DEF Written
<1>4. Entire(fs) => Written(fs[0], line) = Append(fs[0], line)
  BY <1>1, <1>2 DEF Entire, Written, Last
<1>5. AreFiles([fs EXCEPT ![0] = Written(@, line)])
  <2>1. fs \in [0 .. TOP -> Seq(Line)]
    BY DEF AreFiles
  <2>2. [fs EXCEPT ![0] = Written(fs[0], line)] \in [0 .. TOP -> Seq(Line)]
    BY <1>3, <2>1
  <2> QED
    BY <2>2 DEF AreFiles
<1> QED
  BY <1>4, <1>5

\* The hash that an entry takes over is a hash, and that of the newest line there is.
LEMMA PrevIsLast ==
  ASSUME NEW fs, AreFiles(fs), lastHash \in NoHash .. LAST_ENTRY, NEW unread
  PROVE  /\ PrevHash(fs, unread) \in 0 .. LAST_ENTRY
         /\ Entire(fs) /\ TailMissed(fs, unread) = {} /\ (lastHash # NoHash => EndsWith(fs, lastHash))
              => EndsWith(fs, PrevHash(fs, unread))
<1>1. TOP \in Nat /\ LAST_ENTRY \in Nat /\ NoHash = -1
  BY TopBounds, AuditAssumption DEF NoHash
<1> DEFINE present  == {n \in 0 .. TOP : fs[n] # <<>>}
           readable == {n \in (0 .. TOP) \ unread : fs[n] # <<>> /\ Last(fs[n]).kind = "whole"}
<1>2. /\ ReadTail(fs, unread) = IF readable = {} THEN 0 ELSE Last(fs[Min(readable)]).hash
      /\ TailMissed(fs, unread) = {} /\ lastHash = NoHash /\ present # {}
           => Last(fs[Min(present)]).kind # "long" /\ Min(present) \notin unread
  <2>1. ASSUME lastHash = NoHash, present # {}, TailMissed(fs, unread) = {}
        PROVE  Last(fs[Min(present)]).kind # "long" /\ Min(present) \notin unread
    <3>1. \A c \in {"hidden", "unread"} :
            ~ (IF c = "hidden" THEN Last(fs[Min(present)]).kind = "long" ELSE Min(present) \in unread)
      BY <2>1, Zenon DEF TailMissed
    <3> QED
      BY <3>1
  <2> QED
    BY <2>1 DEF ReadTail
<1>3. /\ readable \subseteq 0 .. TOP /\ present \subseteq 0 .. TOP
      /\ \A n \in readable : fs[n] # <<>> /\ Last(fs[n]).kind = "whole"
      /\ \A n \in 0 .. TOP : n \in present <=> fs[n] # <<>>
      /\ \A n \in 0 .. TOP : n \notin unread => (n \in readable <=> fs[n] # <<>> /\ Last(fs[n]).kind = "whole")
  OBVIOUS
<1> HIDE DEF present, readable
<1>4. readable \subseteq Nat /\ present \subseteq Nat
  BY <1>1, <1>3
<1>5. readable # {} => Min(readable) \in readable /\ \A n \in readable : Min(readable) <= n
  BY <1>4, LeastOf
<1>6. present # {} => Min(present) \in present /\ \A n \in present : Min(present) <= n
  BY <1>4, LeastOf
<1>7. \A n \in 0 .. TOP : fs[n] # <<>> => Last(fs[n]) \in Line /\ Last(fs[n]).hash \in 0 .. LAST_ENTRY
  <2>1. \A n \in 0 .. TOP : fs[n] # <<>> => Last(fs[n]) \in Line
    BY FileParts DEF Last
  <2> QED
    BY <2>1, LineParts
<1>8. PrevHash(fs, unread) \in 0 .. LAST_ENTRY
  <2>1. ReadTail(fs, unread) \in 0 .. LAST_ENTRY
    <3>1. CASE readable = {}
      BY <1>1, <1>2, <3>1
    <3>2. CASE readable # {}
      <4>1. Min(readable) \in readable /\ Min(readable) \in 0 .. TOP
        BY <1>3, <1>5, <3>2
      <4>2. fs[Min(readable)] # <<>>
        BY <1>3, <4>1
      <4> QED
        BY <1>2, <1>7, <3>2, <4>1, <4>2
    <3> QED
      BY <3>1, <3>2
  <2> QED
    BY <1>1, <2>1 DEF PrevHash
<1>9. ASSUME Entire(fs), TailMissed(fs, unread) = {}, lastHash = NoHash
      PROVE  EndsWith(fs, ReadTail(fs, unread))
  <2> SUFFICES ASSUME NEW n \in 0 .. TOP, fs[n] # <<>>, \A k \in 0 .. n - 1 : fs[k] = <<>>
               PROVE  fs[n][Len(fs[n])].hash = ReadTail(fs, unread)
    BY DEF EndsWith
  <2>1. \A m \in 0 .. TOP : fs[m] # <<>> => n <= m
    BY <1>1
  <2>2. n \in present /\ Min(present) = n
    <3>1. n \in present
      BY <1>3
    <3>2. Min(present) \in present /\ Min(present) <= n
      BY <1>6, <3>1
    <3>3. Min(present) \in 0 .. TOP /\ fs[Min(present)] # <<>>
      BY <1>3, <3>2
    <3>4. n <= Min(present) /\ Min(present) \in Nat
      BY <1>1, <2>1, <3>3
    <3> QED
      BY <3>1, <3>2, <3>4
  <2>3. Last(fs[n]).kind = "whole" /\ n \notin unread
    <3>1. Last(fs[n]).kind # "long" /\ n \notin unread
      BY <1>2, <1>9, <2>2
    <3>2. Last(fs[n]).kind \in {"whole", "long"}
      BY <1>9, FileParts DEF Entire, Last
    <3> QED
      BY <3>1, <3>2
  <2>4. n \in readable /\ Min(readable) = n
    <3>1. n \in readable
      BY <1>3, <2>3
    <3>2. Min(readable) \in readable /\ Min(readable) <= n
      BY <1>5, <3>1
    <3>3. Min(readable) \in 0 .. TOP /\ fs[Min(readable)] # <<>>
      BY <1>3, <3>2
    <3>4. n <= Min(readable) /\ Min(readable) \in Nat
      BY <1>1, <2>1, <3>3
    <3> QED
      BY <3>1, <3>2, <3>4
  <2> QED
    BY <1>2, <2>4 DEF Last
<1> QED
  BY <1>8, <1>9 DEF PrevHash

\* The steps.
LEMMA AuditParts ==
  ASSUME AuditInv
  PROVE  /\ AreFiles(files) /\ backups \in BackupChoices /\ lastHash \in NoHash .. LAST_ENTRY
         /\ entries \in Nat /\ LAST_ENTRY \in Nat
         /\ broken \subseteq Causes
         /\ broken = {} => Linked(files) /\ (lastHash # NoHash => EndsWith(files, lastHash))
BY AuditAssumption DEF AuditInv, AuditTypeOK, AreFiles

\* The invariant of the next state, from what it is made of.
LEMMA AuditFromParts ==
  ASSUME AreFiles(files), backups \in BackupChoices, lastHash \in NoHash .. LAST_ENTRY,
         entries \in 0 .. LAST_ENTRY,
         broken \subseteq Causes, \A n \in backups + 1 .. TOP : files[n] # <<>> => "left" \in broken,
         broken = {} => Linked(files) /\ (lastHash # NoHash => EndsWith(files, lastHash))
  PROVE  AuditInv
BY DEF AuditInv, AuditTypeOK, AreFiles, Linked, Removed

LEMMA AuditBegin == AuditInit => AuditInv
<1> SUFFICES ASSUME AuditInit PROVE AuditInv
  OBVIOUS
<1>1. /\ files = [n \in 0 .. TOP |-> <<>>] /\ lastHash = NoHash /\ backups \in BackupChoices
      /\ entries = 0 /\ broken = {} /\ LAST_ENTRY \in Nat
  BY AuditAssumption DEF AuditInit
<1>2. /\ TOP \in Nat /\ backups \in 0 .. TOP /\ NoHash = -1
  BY <1>1, TopBounds DEF NoHash
<1>3. \A n \in 0 .. TOP : files[n] = <<>> /\ Len(files[n]) = 0
  BY <1>1, EmptySeq
<1>4. AreFiles(files)
  BY <1>1, EmptySeq DEF AreFiles
<1>5. Linked(files)
  BY <1>2, <1>3 DEF Linked, Removed, Entire, Within, Across
<1>6. lastHash \in NoHash .. LAST_ENTRY /\ entries \in 0 .. LAST_ENTRY
  BY <1>1, <1>2
<1>7. broken \subseteq Causes /\ \A n \in backups + 1 .. TOP : files[n] # <<>> => "left" \in broken
  BY <1>1, <1>2, <1>3
<1> QED
  BY <1>1, <1>4, <1>5, <1>6, <1>7, AuditFromParts

\* What a rotation leaves is as before, whether it was due or not.
LEMMA ShiftSpares ==
  ASSUME AreFiles(files), backups \in BackupChoices, NEW from \in 0 .. backups
  PROVE  \A n \in backups + 1 .. TOP : Shifted(from)[n] = files[n]
BY TopBounds DEF Shifted

LEMMA RotationsKeep ==
  ASSUME AuditInv, NEW fs \in Rotations
  PROVE  /\ AreFiles(fs) /\ \A n \in backups + 1 .. TOP : fs[n] = files[n]
         /\ broken = {} => Linked(fs) /\ (lastHash # NoHash => EndsWith(fs, lastHash))
<1>1. backups \in Nat /\ 0 \in 0 .. backups
  BY AuditParts, TopBounds
<1>2. fs = files \/ fs = Shifted(0)
  BY DEF Rotations
<1> QED
  BY <1>1, <1>2, AuditParts, ShiftKeeps, ShiftSpares

\* A line more: the backups are as they were, and what was left behind is still noted.
LEMMA LineAdded ==
  ASSUME AuditInv, NEW fs \in Rotations, NEW unread, NEW kind \in {"whole", "long", "torn"},
         entries' \in 0 .. LAST_ENTRY, backups' = backups, broken' \subseteq Causes, broken \subseteq broken',
         lastHash' \in NoHash .. LAST_ENTRY,
         files' = [fs EXCEPT ![0] = Written(@, LineAfter(fs, unread, kind))],
         broken' = {} => /\ kind # "torn" /\ TailMissed(fs, unread) = {}
                         /\ lastHash' \in {NoHash, entries'}
  PROVE  AuditInv'
<1> DEFINE line == LineAfter(fs, unread, kind)
<1>1. /\ AreFiles(files) /\ backups \in BackupChoices /\ lastHash \in NoHash .. LAST_ENTRY
      /\ entries \in Nat /\ LAST_ENTRY \in Nat
  BY AuditParts
<1>2. /\ AreFiles(fs) /\ \A n \in backups + 1 .. TOP : fs[n] = files[n]
      /\ broken = {} => Linked(fs) /\ (lastHash # NoHash => EndsWith(fs, lastHash))
  BY RotationsKeep
<1>3. PrevHash(fs, unread) \in 0 .. LAST_ENTRY
  BY <1>1, <1>2, PrevIsLast
<1>4. line \in Line /\ line.kind = kind /\ line.hash = entries' /\ line.prev = PrevHash(fs, unread)
  BY <1>3 DEF LineAfter, Line
<1>5. files' = [fs EXCEPT ![0] = Written(@, line)]
  OBVIOUS
<1> HIDE DEF line
<1>6. AreFiles(files')
  BY <1>2, <1>4, <1>5, WrittenIsFile
<1>7. ASSUME broken' = {} PROVE Linked(files') /\ EndsWith(files', entries')
  <2>1. broken = {} /\ TailMissed(fs, unread) = {} /\ kind \in {"whole", "long"}
    BY <1>7
  <2>2. Linked(fs) /\ Entire(fs) /\ (lastHash # NoHash => EndsWith(fs, lastHash))
    BY <1>2, <2>1 DEF Linked
  <2>3. EndsWith(fs, line.prev)
    BY <1>1, <1>2, <1>4, <2>1, <2>2, PrevIsLast
  <2>4. files' = [fs EXCEPT ![0] = Append(fs[0], line)]
    BY <1>2, <1>4, <1>5, <2>2, WrittenIsFile
  <2>5. Linked(files') /\ EndsWith(files', line.hash)
    BY <1>1, <1>2, <1>4, <2>1, <2>2, <2>3, <2>4, AppendLinks
  <2> QED
    BY <1>4, <2>5
<1>8. \A n \in backups' + 1 .. TOP : files'[n] # <<>> => "left" \in broken'
  <2> SUFFICES ASSUME NEW n \in backups + 1 .. TOP, files'[n] # <<>> PROVE "left" \in broken'
    OBVIOUS
  <2>1. n \in 0 .. TOP /\ n # 0
    BY <1>1, TopBounds
  <2>2. files'[n] = files[n]
    BY <1>2, <1>5, <2>1 DEF AreFiles
  <2> QED
    BY <2>2 DEF AuditInv, AuditTypeOK
<1>9. broken' = {} /\ lastHash' # NoHash => EndsWith(files', lastHash')
  BY <1>7
<1>10. broken' = {} => Linked(files')
  BY <1>7
<1> QED
  BY <1>1, <1>6, <1>8, <1>9, <1>10 DEF AuditInv, AuditTypeOK, AreFiles, Linked, Removed, Entire, Within,
     Across, EndsWith

LEMMA MissedAreCauses == \A fs, unread : TailMissed(fs, unread) \subseteq Causes
BY DEF TailMissed, Causes

LEMMA AppendEntryHolds == ASSUME AuditInv, AppendEntry PROVE AuditInv'
<1>1. PICK fs \in Rotations, unread \in ReadFailures, kind \in {"whole", "long"} :
        /\ files' = [fs EXCEPT ![0] = Written(@, LineAfter(fs, unread, kind))]
        /\ broken' = broken \cup TailMissed(fs, unread)
  BY DEF AppendEntry
<1>2. /\ entries \in Nat /\ LAST_ENTRY \in Nat /\ broken \subseteq Causes
      /\ entries < LAST_ENTRY /\ entries' = entries + 1 /\ lastHash' = entries' /\ backups' = backups
  BY AuditParts DEF AppendEntry
<1>3. entries' \in 0 .. LAST_ENTRY /\ lastHash' \in NoHash .. LAST_ENTRY
  BY <1>2 DEF NoHash
<1>4. broken' \subseteq Causes /\ broken \subseteq broken'
  BY <1>1, <1>2, MissedAreCauses
<1> QED
  BY <1>1, <1>2, <1>3, <1>4, LineAdded

LEMMA AppendFailsHolds == ASSUME AuditInv, AppendFails PROVE AuditInv'
<1>1. PICK fs \in Rotations, unread \in ReadFailures :
        \/ files' = fs /\ UNCHANGED broken
        \/ \E kind \in {"whole", "long", "torn"} :
             /\ files' = [fs EXCEPT ![0] = Written(@, LineAfter(fs, unread, kind))]
             /\ broken' = broken \cup TailMissed(fs, unread) \cup
                  (IF kind = "torn" THEN {"torn"}
                   ELSE IF lastHash # NoHash \/ kind = "long" THEN {"unnoted"} ELSE {})
  BY DEF AppendFails
<1>2. /\ backups \in BackupChoices /\ lastHash \in NoHash .. LAST_ENTRY
      /\ entries \in Nat /\ LAST_ENTRY \in Nat /\ broken \subseteq Causes
      /\ entries < LAST_ENTRY /\ entries' = entries + 1 /\ lastHash' = lastHash /\ backups' = backups
  BY AuditParts DEF AppendFails
<1>3. entries' \in 0 .. LAST_ENTRY
  BY <1>2
<1>4. CASE files' = fs /\ UNCHANGED broken
  <2>1. /\ AreFiles(fs) /\ \A n \in backups + 1 .. TOP : fs[n] = files[n]
        /\ broken = {} => Linked(fs) /\ (lastHash # NoHash => EndsWith(fs, lastHash))
    BY RotationsKeep
  <2>2. \A n \in backups + 1 .. TOP : fs[n] # <<>> => "left" \in broken
    BY <2>1 DEF AuditInv, AuditTypeOK
  <2> QED
    BY <1>2, <1>3, <1>4, <2>1, <2>2 DEF AuditInv, AuditTypeOK, AreFiles, Linked, Removed, Entire, Within,
       Across, EndsWith
<1>5. ASSUME NEW kind \in {"whole", "long", "torn"},
             files' = [fs EXCEPT ![0] = Written(@, LineAfter(fs, unread, kind))],
             broken' = broken \cup TailMissed(fs, unread) \cup
               (IF kind = "torn" THEN {"torn"}
                ELSE IF lastHash # NoHash \/ kind = "long" THEN {"unnoted"} ELSE {})
      PROVE  AuditInv'
  <2>1. broken' \subseteq Causes
    <3>1. {"torn"} \subseteq Causes /\ {"unnoted"} \subseteq Causes
      BY DEF Causes
    <3> QED
      BY <1>2, <1>5, <3>1, MissedAreCauses
  <2>2. broken \subseteq broken'
    BY <1>5
  <2>3. broken' = {} => /\ kind # "torn" /\ TailMissed(fs, unread) = {} /\ lastHash' \in {NoHash, entries'}
    BY <1>2, <1>5
  <2> QED
    BY <1>2, <1>3, <1>5, <2>1, <2>2, <2>3, LineAdded
<1> QED
  BY <1>1, <1>4, <1>5

LEMMA RotationFailsHolds == ASSUME AuditInv, RotationFails PROVE AuditInv'
<1>1. PICK from \in 1 .. backups : files' = Shifted(from)
  BY DEF RotationFails
<1>2. /\ AreFiles(files) /\ backups \in BackupChoices /\ lastHash \in NoHash .. LAST_ENTRY
      /\ broken = {} => Linked(files) /\ (lastHash # NoHash => EndsWith(files, lastHash))
  BY AuditParts
<1>3. from \in 0 .. backups
  BY <1>2, TopBounds
<1>4. /\ AreFiles(Shifted(from)) /\ \A n \in backups + 1 .. TOP : Shifted(from)[n] = files[n]
      /\ broken = {} => /\ Linked(Shifted(from))
                        /\ lastHash # NoHash => EndsWith(Shifted(from), lastHash)
  BY <1>2, <1>3, ShiftKeeps, ShiftSpares
<1>5. UNCHANGED <<lastHash, backups, entries, broken>>
  BY DEF RotationFails
<1> HIDE DEF Shifted
<1> DEFINE fs == Shifted(from)
<1>6. /\ files' = fs /\ AreFiles(fs) /\ \A n \in backups + 1 .. TOP : fs[n] = files[n]
      /\ broken = {} => Linked(fs) /\ (lastHash # NoHash => EndsWith(fs, lastHash))
  BY <1>1, <1>4
<1> HIDE DEF fs
<1>7. \A n \in backups + 1 .. TOP : fs[n] # <<>> => "left" \in broken
  BY <1>6 DEF AuditInv, AuditTypeOK
<1> QED
  BY <1>2, <1>5, <1>6, <1>7 DEF AuditInv, AuditTypeOK, AreFiles, Linked, Removed, Entire, Within, Across,
     EndsWith

LEMMA AuditRestartHolds == ASSUME AuditInv, AuditRestart PROVE AuditInv'
<1>1. /\ lastHash' = NoHash /\ backups' \in BackupChoices /\ UNCHANGED <<files, entries>>
      /\ broken' = broken \cup {c \in {"left"} : \E n \in backups' + 1 .. TOP : files[n] # <<>>}
  BY DEF AuditRestart
<1>2. /\ AreFiles(files) /\ LAST_ENTRY \in Nat /\ entries \in 0 .. LAST_ENTRY /\ broken \subseteq Causes
      /\ broken = {} => Linked(files)
  BY AuditParts DEF AuditInv
<1>3. NoHash \in NoHash .. LAST_ENTRY
  BY <1>2 DEF NoHash
<1>4. /\ broken' \subseteq Causes
      /\ \A n \in backups' + 1 .. TOP : files[n] # <<>> => "left" \in broken'
  BY <1>1, <1>2 DEF Causes
<1>5. broken' = {} => Entire(files) /\ Within(files) /\ Across(files) /\ Removed(files)'
  BY <1>1, <1>2, <1>4 DEF Linked, Removed
<1> QED
  BY <1>1, <1>2, <1>3, <1>4, <1>5 DEF AuditInv, AuditTypeOK, AreFiles, Linked, Removed, Entire, Within, Across

LEMMA AuditHold == AuditInv /\ [AuditNext]_auditVars => AuditInv'
<1> SUFFICES ASSUME AuditInv, [AuditNext]_auditVars PROVE AuditInv'
  OBVIOUS
<1>1. CASE UNCHANGED auditVars
  BY <1>1 DEF auditVars, AuditInv, AuditTypeOK, Linked, Removed, Entire, Within, Across, EndsWith
<1>2. CASE AuditNext
  BY <1>2, AppendEntryHolds, AppendFailsHolds, RotationFailsHolds, AuditRestartHolds DEF AuditNext
<1> QED
  BY <1>1, <1>2

LEMMA AuditAlways == AuditSpec => []AuditInv
BY AuditBegin, AuditHold, PTL DEF AuditSpec

\* What is retained of the audit log verifies, line after line and file after file, at
\* whichever of its renames a rotation ends, after appends that wrote nothing, and after a
\* restart, for any choice of backups, unless a line was torn, could not be read back, was
\* written by an append that raised, or was left behind in a backup (_write_audit_entry,
\* rotate_if_needed, read_last_entry_hash_from_chain, verify_audit_chain).
THEOREM ChainIsRetained == AuditSpec => []RetainedChainVerifies
<1>1. AuditInv => RetainedChainVerifies
  <2> SUFFICES ASSUME AuditInv, broken = {}, NEW n \in 0 .. TOP, NEW m \in 0 .. TOP,
                      NEW i \in DOMAIN files[n], NEW j \in DOMAIN files[m], Precedes(m, j, n, i)
               PROVE  files[n][i].prev = files[m][j].hash
    BY DEF RetainedChainVerifies, Verifies
  <2>1. TOP \in Nat /\ AreFiles(files) /\ Linked(files)
    BY AuditParts, TopBounds
  <2>2. /\ i \in 1 .. Len(files[n]) /\ j \in 1 .. Len(files[m])
        /\ Len(files[n]) \in Nat /\ Len(files[m]) \in Nat
        /\ files[n] # <<>> /\ files[m] # <<>>
    <3>1. /\ i \in 1 .. Len(files[n]) /\ j \in 1 .. Len(files[m])
          /\ Len(files[n]) \in Nat /\ Len(files[m]) \in Nat
          /\ (files[n] = <<>> <=> Len(files[n]) = 0) /\ (files[m] = <<>> <=> Len(files[m]) = 0)
      BY <2>1, FileParts
    <3> QED
      BY <3>1
  <2>3. CASE m = n /\ j = i - 1
    <3>1. i \in 2 .. Len(files[n])
      BY <2>2, <2>3
    <3> QED
      BY <2>1, <2>3, <3>1 DEF Linked, Within
  <2>4. CASE /\ m > n /\ i = 1 /\ j = Len(files[m])
             /\ \A k \in n + 1 .. m - 1 : files[k] = <<>>
    BY <2>1, <2>2, <2>4 DEF Linked, Across
  <2> QED
    BY <2>3, <2>4 DEF Precedes
<1> QED
  BY <1>1, AuditAlways, PTL

-----------------------------------------------------------------------------
(* All of them side by side.                                               *)

\* What is run side by side is each of them: it shows no behaviour that its own
\* specification does not have.
THEOREM ServicesAreThemselves ==
  ServicesSpec => /\ Spec /\ BudgetsSpec /\ SubmissionSpec /\ DownloadsSpec /\ EventsSpec
                  /\ WatchSpec /\ FailoverSpec /\ AuditSpec
<1>1. ServicesInit => /\ Init /\ BudgetsInit /\ SubmissionInit /\ DownloadsInit /\ EventsInit
                      /\ WatchInit /\ FailoverInit /\ AuditInit
  BY DEF ServicesInit
<1>2. [ServicesNext]_serviceVars =>
        /\ [Next]_vars /\ [BudgetsNext]_budgetVars /\ [SubmissionNext]_submissionVars
        /\ [DownloadsNext]_downloadVars /\ [EventsNext]_eventVars /\ [WatchNext]_watchVars
        /\ [FailoverNext]_failoverVars /\ [AuditNext]_auditVars
  BY DEF ServicesNext, serviceVars
<1> QED
  BY <1>1, <1>2, PTL DEF ServicesSpec, Spec, BudgetsSpec, SubmissionSpec, DownloadsSpec, EventsSpec,
     WatchSpec, FailoverSpec, AuditSpec

\* Whichever of them moves, the state of every service is well formed: of the store of the
\* approvals, the semaphores, the rows, the tasks, the watchers, the cooldowns and the log.
THEOREM ServicesTyped == ServicesSpec => []ServicesTypeOK
<1>1. BudgetsInv => BudgetsTypeOK
  BY DEF BudgetsInv
<1>2. DownloadsInv => DownloadsTypeOK
  BY DEF DownloadsInv
<1>3. WatchInv => WatchTypeOK
  BY WatchAssumption DEF WatchInv, WatchTyped, WatchTypeOK, Watcher
<1>4. AuditInv => AuditTypeOK
  BY DEF AuditInv
<1>5. TypeOK /\ BudgetsTypeOK /\ SubmissionTypeOK /\ DownloadsTypeOK
      /\ WatchTypeOK /\ FailoverTypeOK /\ AuditTypeOK => ServicesTypeOK
  BY DEF ServicesTypeOK
<1>6. BudgetsSpec => []BudgetsInv
  BY BudgetsBegin, BudgetsHold, PTL DEF BudgetsSpec
<1> QED
  BY <1>1, <1>2, <1>3, <1>4, <1>5, <1>6, ServicesAreThemselves, ApprovalsTyped, SubmissionsTyped,
     DownloadsAlways, WatchAlways, FailoverTypeAlways, AuditAlways, PTL

\* Hence the properties of each of them hold of what is run, for every value of the
\* constants.
THEOREM ServicesAreSafe ==
  ServicesSpec => /\ []DecisionStands /\ []ExecutedOnce /\ []NeverAfterReject /\ DecisionSpec
                  /\ []SlotsAccounted
                  /\ []QueuedOnce /\ []AnswersTrue
                  /\ []DownloadsConsistent /\ TerminalIsFinal
                  /\ []ReadersMissNothing /\ []CallbackEventsTrue
                  /\ []FailureCools /\ []TriedBeforeGivingUp
                  /\ []RetainedChainVerifies
BY ServicesAreThemselves, DecisionsHold, ExecutesOnce, RejectionFinal, ApprovalsImplementRegister,
   SlotsAccountedFor, QueuesOnce,
   AnswersAreTrue, DownloadsAgree, EndsAreFinal, NothingIsMissed, CallbacksTellTheTruth, FailuresCool,
   LastIsAsked, ChainIsRetained, PTL

=============================================================================
