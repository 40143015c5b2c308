---------------------------- MODULE AccountingProofs ----------------------------
(***************************************************************************)
(* What Accounting promises of snapshot() and reset(), for any number of   *)
(* tasks, calls and watches; and, for CounterProofs, that every step of    *)
(* the wrappers is one of AdaptiveBatching, or none.                       *)
(***************************************************************************)
EXTENDS Accounting, TLAPS

(* Both directions of the adjustment stay within the clamp of the code.    *)
LEMMA RetargetInRange ==
  ASSUME NEW size \in Sizes
  PROVE  Halve(size) \in Sizes /\ Grow(size) \in Sizes
BY BatchBounds DEF Sizes, Halve, Grow, AtLeast, AtMost

(* The Mutex-protected methods map controller states to controller states. *)
LEMMA MethodsTyped ==
  ASSUME NEW s \in AdaptiveStates
  PROVE  /\ record_would_block(s) \in AdaptiveStates
         /\ record_event(s) \in AdaptiveStates
         /\ maybe_adjust(s) \in AdaptiveStates
<1>1. \A t \in AdaptiveStates : record_event(t) \in AdaptiveStates
  BY DEF AdaptiveStates, record_event
<1>a. [s EXCEPT !.would_block_count = @ + 1] \in AdaptiveStates
  BY DEF AdaptiveStates
<1>b. record_would_block(s) = record_event([s EXCEPT !.would_block_count = @ + 1])
  BY ZenonT(30) DEF AdaptiveStates, record_would_block, record_event
<1>c. record_would_block(s) \in AdaptiveStates
  BY <1>1, <1>a, <1>b, ZenonT(30)
<1>2. Retarget(s) \in Sizes
  BY RetargetInRange, ZenonT(30) DEF Retarget, AdaptiveStates
<1>3. maybe_adjust(s) \in AdaptiveStates
  BY <1>2, BatchBounds DEF maybe_adjust, AdaptiveStates
<1>4. QED
  BY <1>1, <1>c, <1>3, ZenonT(30)

(* So does the clock. *)
LEMMA TickTyped ==
  ASSUME NEW s \in AdaptiveStates, s.elapsed < ADJUSTMENT_INTERVAL
  PROVE  [s EXCEPT !.elapsed = @ + 1] \in AdaptiveStates
BY BatchBounds DEF AdaptiveStates

(* A platform call returns something that can be counted. *)
LEMMA OutcomeTyped ==
  ASSUME NEW r \in Outcomes
  PROVE  /\ r.kind \in {"Ok", "WouldBlock", "Error"} /\ r.n \in Nat
         /\ backend = "loop" => r.kind # "WouldBlock"
<1> USE AccountingAssumption DEF Outcome
<1>1. CASE r \in SyscallOutcomes /\ backend # "loop"
  BY <1>1 DEF SyscallOutcomes
<1>2. CASE r \in LoopOutcomes
  BY <1>2 DEF LoopOutcomes
<1>3. CASE r = Outcome("Ok", 0, 0, 0)
  BY <1>3, ZenonT(30)
<1>4. CASE r \in OverflowOutcomes
  BY <1>4 DEF OverflowOutcomes
<1> QED BY <1>1, <1>2, <1>3, <1>4, ZenonT(30) DEF Outcomes

(* A call increments counters. *)
LEMMA IncrementsTyped ==
  ASSUME NEW r PROVE Increments(r) \in Seq(Counters)
<1>1. /\ <<"packets", "batches", "syscalls">> \in Seq(Counters)
      /\ <<"errors", "would_block">> \in Seq(Counters) /\ <<"errors">> \in Seq(Counters)
  BY DEF Counters
<1> QED BY <1>1, ZenonT(30) DEF Increments

(* snapshot() loads fields and reset() clears counters, whatever the order. *)
LEMMA OrdersTyped ==
  /\ StoreOrder \in Seq(Counters) /\ StoreOrder \in Seq(Fields) /\ LoadOrder \in Seq(Fields)
  /\ \A c \in Counters : \E k \in 1 .. Len(StoreOrder) : StoreOrder[k] = c
<1>1. StoreOrder \in Seq(Counters) /\ StoreOrder \in Seq(Fields)
  BY DEF StoreOrder, Counters, Fields
<1>2. <<"ratio_packets", "ratio_syscalls">> \in Seq(Fields)
  BY DEF Fields, Ratio
<1>3. LoadOrder \in Seq(Fields)
  BY <1>1, <1>2 DEF LoadOrder
<1>4. /\ Len(StoreOrder) = 5 /\ StoreOrder[1] = "packets" /\ StoreOrder[2] = "batches"
      /\ StoreOrder[3] = "syscalls" /\ StoreOrder[4] = "errors" /\ StoreOrder[5] = "would_block"
  BY ZenonT(30) DEF StoreOrder
<1>5. \A c \in Counters : \E k \in 1 .. 5 : StoreOrder[k] = c
  BY <1>4 DEF Counters
<1> QED BY <1>1, <1>3, <1>4, <1>5, ZenonT(30)

(* Every field of a snapshot is read from a counter. *)
LEMMA CounterOfTyped ==
  ASSUME NEW f \in Fields PROVE CounterOf(f) \in Counters
BY ZenonT(30) DEF Fields, Ratio, Counters, CounterOf

(* The first element of a sequence that is not empty, and the rest. *)
LEMMA Unstack ==
  ASSUME NEW S, NEW s \in Seq(S), s # <<>>
  PROVE  Head(s) \in S /\ Tail(s) \in Seq(S)
OBVIOUS

-----------------------------------------------------------------------------
(* The types hold at the start, *)
LEMMA AccountingTypeInit == Init => TypeOK
<1> SUFFICES ASSUME Init PROVE TypeOK BY ZenonT(30)
<1>1. state \in AdaptiveStates
  BY BatchBounds, AccountingAssumption DEF Init, new, AdaptiveStates, Sizes, AtLeast, AtMost
<1>2. Zero \in [Counters -> Nat] /\ NoResult \in [kind : {"None", "Ok", "WouldBlock", "Error"}, n : Nat]
  BY ZenonT(30) DEF Zero, NoResult
<1>3. /\ todo \in [Tasks -> Seq(Counters)]
      /\ left \in Seq(IF watch = "reset" THEN Counters ELSE Fields)
  BY DEF Init
<1>4. DOMAIN snap \subseteq Fields /\ snap \in [DOMAIN snap -> Nat]
  BY DEF Init
<1> QED BY <1>1, <1>2, <1>3, <1>4, ZenonT(30) DEF Init, TypeOK

Results == [kind : {"None", "Ok", "WouldBlock", "Error"}, n : Nat]

(* a task keeps them, *)
LEMMA TaskTyped ==
  ASSUME TypeOK, NEW t \in Tasks, TaskStep(t) PROVE TypeOK'
<1> USE DEF fixed, watcher, history, control
<1>0. NoResult \in Results
  BY ZenonT(30) DEF NoResult, Results
<1>1. ASSUME NEW o \in {"try", "async", "either"}, NEW r \in Outcomes, Attempt(t, o, r)
      PROVE  TypeOK'
  <2>1. [kind |-> r.kind, n |-> r.n] \in Results /\ Increments(r) \in Seq(Counters)
    BY OutcomeTyped, IncrementsTyped, ZenonT(30) DEF Results
  <2>2. ret' \in [Tasks -> Results] /\ todo' \in [Tasks -> Seq(Counters)]
    BY <1>1, <2>1, ZenonT(30) DEF Attempt, TypeOK, Results
  <2>3. /\ pc' \in [Tasks -> {"idle", "record", "count", "waiting"}]
        /\ op' \in [Tasks -> {"none", "try", "async", "either"}]
        /\ calls' \in Nat /\ clean' \in BOOLEAN
    BY <1>1 DEF Attempt, TypeOK
  <2> QED BY <1>1, <2>2, <2>3, ZenonT(30) DEF Attempt, TypeOK, Results
<1>2. CASE RecordEvent(t)
  BY <1>2, MethodsTyped, SMTT(30) DEF RecordEvent, TypeOK
<1>3. CASE Increment(t)
  <2>1. Head(todo[t]) \in Counters /\ Tail(todo[t]) \in Seq(Counters)
    BY <1>3, Unstack, ZenonT(30) DEF Increment, TypeOK
  <2>2. Amount(t, Head(todo[t])) \in Nat
    BY ZenonT(30) DEF Amount, TypeOK
  <2>3. /\ counter' \in [Counters -> Nat] /\ since' \in [Counters -> Nat]
        /\ todo' \in [Tasks -> Seq(Counters)]
    <3> DEFINE c == Head(todo[t])
               a == Amount(t, c)
    <3>1. /\ counter \in [Counters -> Nat] /\ since \in [Counters -> Nat]
          /\ todo \in [Tasks -> Seq(Counters)] /\ c \in Counters /\ a \in Nat
      BY <2>1, <2>2, ZenonT(30) DEF TypeOK
    <3>2. /\ counter' = [counter EXCEPT ![c] = counter[c] + a]
          /\ since' = [since EXCEPT ![c] = since[c] + a]
          /\ todo' = [todo EXCEPT ![t] = Tail(todo[t])]
      BY <1>3, ZenonT(30) DEF Increment
    <3> HIDE DEF c, a
    <3> QED BY SMTT(90), <2>1, <3>1, <3>2
  <2> QED BY ZenonT(30), <1>3, <2>3 DEF Increment, TypeOK
<1>4. CASE Finish(t)
  BY <1>0, <1>4, ZenonT(30) DEF Finish, TypeOK, Results
<1>5. CASE Block(t)
  <2>1. maybe_adjust(record_would_block(state)) \in AdaptiveStates
    BY MethodsTyped, ZenonT(30) DEF TypeOK
  <2>2. state' \in AdaptiveStates /\ attempts' \in Nat /\ repeats' \in Nat
    BY <1>5, <2>1, SMTT(30) DEF Block, TypeOK
  <2>3. /\ pc' \in [Tasks -> {"idle", "record", "count", "waiting"}] /\ ret' \in [Tasks -> Results]
    BY <1>0, <1>5, ZenonT(30) DEF Block, TypeOK, Results
  <2> QED BY <1>5, <2>2, <2>3, ZenonT(30) DEF Block, TypeOK, Results
<1>6. CASE Cancel(t)
  BY <1>6, ZenonT(30) DEF Cancel, TypeOK
<1> QED BY <1>1, <1>2, <1>3, <1>4, <1>5, <1>6, ZenonT(30) DEF TaskStep

(* the watcher keeps them, *)
LEMMA WatchTyped ==
  ASSUME TypeOK, WatchStep PROVE TypeOK'
<1> USE DEF fixed, tasks, history, control
<1>1. CASE SnapshotBegins
  BY SMTT(90), <1>1, OrdersTyped DEF SnapshotBegins, TypeOK
<1>2. CASE Load
  <2>1. Head(left) \in Fields /\ Tail(left) \in Seq(Fields)
    BY <1>2, Unstack, ZenonT(30) DEF Load, TypeOK
  <2>2. \A f \in DOMAIN snap \cup {Head(left)} : counter[CounterOf(f)] \in Nat
    BY <2>1, CounterOfTyped, ZenonT(30) DEF TypeOK
  <2>3. DOMAIN snap' \subseteq Fields /\ snap' \in [DOMAIN snap' -> Nat]
    BY <1>2, <2>1, <2>2, ZenonT(30) DEF Load, TypeOK
  <2> QED BY <1>2, <2>1, <2>3, ZenonT(30) DEF Load, TypeOK
<1>3. CASE ResetBegins
  <2>1. Zero \in [Counters -> Nat]
    BY ZenonT(30) DEF Zero
  <2> QED BY <1>3, <2>1, OrdersTyped, SMTT(90) DEF ResetBegins, TypeOK
<1>4. CASE Store
  <2>1. Head(left) \in Counters /\ Tail(left) \in Seq(Counters)
    BY <1>4, Unstack, ZenonT(30) DEF Store, TypeOK
  <2> QED BY ZenonT(30), <1>4, <2>1 DEF Store, TypeOK
<1>5. CASE WatchEnds
  <2>1. Zero \in [Counters -> Nat] /\ left \in Seq(Fields)
    BY <1>5 DEF Zero, WatchEnds
  <2>2. DOMAIN snap' \subseteq Fields /\ snap' \in [DOMAIN snap' -> Nat]
    BY <1>5 DEF WatchEnds
  <2> QED BY <1>5, <2>1, <2>2, ZenonT(30) DEF WatchEnds, TypeOK
<1> QED BY <1>1, <1>2, <1>3, <1>4, <1>5, ZenonT(30) DEF WatchStep

(* and so does every step. *)
LEMMA AccountingTypeStep == TypeOK /\ [Next]_vars => TypeOK'
<1> SUFFICES ASSUME TypeOK, [Next]_vars PROVE TypeOK' BY ZenonT(30)
<1>1. CASE Tick
  <2>1. state' \in AdaptiveStates
    <3>1. state \in AdaptiveStates /\ state.elapsed < ADJUSTMENT_INTERVAL
          /\ state' = [state EXCEPT !.elapsed = @ + 1]
      BY <1>1, ZenonT(30) DEF Tick, TypeOK
    <3> QED BY <3>1, TickTyped, ZenonT(30)
  <2> QED BY <1>1, <2>1, ZenonT(30) DEF Tick, TypeOK, fixed, tasks, watcher, history
<1>2. CASE UNCHANGED vars
  BY <1>2, ZenonT(30) DEF vars, TypeOK
<1> QED BY <1>1, <1>2, TaskTyped, WatchTyped, ZenonT(30) DEF Next

-----------------------------------------------------------------------------
(* How the counters move: an increment only adds, a store of reset() only  *)
(* clears, and nothing else touches them.                                  *)
Adds == /\ \A c \in Counters : counter[c] <= counter'[c]
        /\ \A c \in Counters : counter'[c] - counter[c] = since'[c] - since[c]
        /\ UNCHANGED <<watch, left, snap, start>>

(* What a task does to a counter is to add to it. *)
LEMMA TaskAdds ==
  ASSUME TypeOK, NEW t \in Tasks, TaskStep(t) PROVE Adds
<1>1. CASE Increment(t)
  <2> DEFINE c == Head(todo[t])
             a == Amount(t, c)
  <2>1. c \in Counters /\ a \in Nat
    BY <1>1, Unstack, ZenonT(30) DEF Increment, TypeOK, Amount
  <2>2. /\ counter' = [counter EXCEPT ![c] = counter[c] + a]
        /\ since' = [since EXCEPT ![c] = since[c] + a]
        /\ UNCHANGED <<watch, left, snap, start>>
    BY <1>1, ZenonT(30) DEF Increment, watcher
  <2>3. counter \in [Counters -> Nat] /\ since \in [Counters -> Nat]
    BY ZenonT(30) DEF TypeOK
  <2> HIDE DEF c, a
  <2> QED BY <2>1, <2>2, <2>3 DEF Adds
<1>2. CASE UNCHANGED <<counter, since, watch, left, snap, start>>
  BY <1>2 DEF Adds, TypeOK
<1>3. Increment(t) \/ UNCHANGED <<counter, since, watch, left, snap, start>>
  BY ZenonT(30) DEF TaskStep, Attempt, RecordEvent, Finish, Block, Cancel, watcher
<1> QED BY <1>1, <1>2, <1>3, ZenonT(30)

-----------------------------------------------------------------------------
(* While snapshot() runs, no counter is below where it started. *)
SnapshotInv ==
  /\ watch = "snapshot" => \A c \in Counters : start[c] <= counter[c]
  /\ watch # "snapshot" => DOMAIN snap = {}
  /\ SnapshotBounded

(* Every step keeps SnapshotInv. *)
LEMMA SnapshotStep ==
  ASSUME TypeOK, SnapshotInv, [Next]_vars PROVE SnapshotInv'
<1> USE DEF SnapshotInv, SnapshotBounded
<1>0. /\ counter \in [Counters -> Nat] /\ start \in [Counters -> Nat]
      /\ DOMAIN snap \subseteq Fields /\ snap \in [DOMAIN snap -> Nat]
      /\ \A f \in Fields : CounterOf(f) \in Counters
  BY CounterOfTyped, ZenonT(30) DEF TypeOK
<1>1. ASSUME Adds PROVE SnapshotInv'
  <2>1. /\ \A c \in Counters : counter[c] <= counter'[c] /\ counter'[c] \in Nat
        /\ watch' = watch /\ snap' = snap /\ start' = start
    BY <1>1, AccountingTypeStep, ZenonT(30) DEF Adds, TypeOK
  <2> QED BY <1>0, <2>1
<1>2. CASE Tick
  BY <1>2, ZenonT(30) DEF Tick, watcher
<1>3. CASE SnapshotBegins
  BY <1>0, <1>3 DEF SnapshotBegins
<1>4. CASE Load
  <2>1. Head(left) \in Fields
    BY <1>4, Unstack, ZenonT(30) DEF Load, TypeOK
  <2>2. /\ watch = "snapshot" /\ watch' = watch /\ counter' = counter /\ start' = start
        /\ snap' = [f \in DOMAIN snap \cup {Head(left)} |->
                     IF f \in DOMAIN snap THEN snap[f] ELSE counter[CounterOf(f)]]
    BY <1>4, ZenonT(30) DEF Load
  <2>3. ASSUME NEW f \in DOMAIN snap'
        PROVE  start[CounterOf(f)] <= snap'[f] /\ snap'[f] <= counter[CounterOf(f)]
    <3>1. CASE f \in DOMAIN snap
      BY <2>2, <3>1, ZenonT(30)
    <3>2. CASE f \notin DOMAIN snap
      <4>1. f = Head(left) /\ snap'[f] = counter[CounterOf(f)] /\ CounterOf(f) \in Counters
        BY <1>0, <2>1, <2>2, <3>2, ZenonT(30)
      <4> QED BY <1>0, <2>2, <4>1
    <3> QED BY <3>1, <3>2, ZenonT(30)
  <2> QED BY <2>2, <2>3, ZenonT(30)
<1>5. CASE ResetBegins
  BY <1>5, ZenonT(30) DEF ResetBegins
<1>6. CASE Store
  BY <1>6, ZenonT(30) DEF Store
<1>7. CASE WatchEnds
  BY <1>7 DEF WatchEnds
<1>8. CASE UNCHANGED vars
  BY <1>8, ZenonT(30) DEF vars
<1> HIDE DEF SnapshotInv
<1> QED BY <1>1, <1>2, <1>3, <1>4, <1>5, <1>6, <1>7, <1>8, TaskAdds, ZenonT(30) DEF Next, WatchStep

(* Every field of a MetricsSnapshot is a value its counter had while       *)
(* snapshot() ran, for any number of tasks counting meanwhile.             *)
THEOREM SnapshotsAreBounded == Spec => []SnapshotBounded
<1>1. Init => SnapshotInv
  BY DEF Init, SnapshotInv, SnapshotBounded
<1>2. SnapshotInv => SnapshotBounded
  BY ZenonT(30) DEF SnapshotInv
<1> QED BY <1>1, <1>2, AccountingTypeInit, AccountingTypeStep, SnapshotStep, PTL DEF Spec

-----------------------------------------------------------------------------
(* While reset() runs, a counter it has stored holds only what was added   *)
(* since; the others are still in its list.                                *)
ResetInv ==
  \A c \in Counters :
    \/ counter[c] <= since[c]
    \/ watch = "reset" /\ \E k \in 1 .. Len(left) : left[k] = c

(* Every step keeps ResetInv. *)
LEMMA ResetStep ==
  ASSUME TypeOK, ResetInv, [Next]_vars PROVE ResetInv'
<1>0. counter \in [Counters -> Nat] /\ since \in [Counters -> Nat]
  BY ZenonT(30) DEF TypeOK
<1>1. ASSUME Adds PROVE ResetInv'
  <2>1. /\ \A c \in Counters : counter'[c] - counter[c] = since'[c] - since[c]
        /\ \A c \in Counters : counter'[c] \in Nat /\ since'[c] \in Nat
        /\ watch' = watch /\ left' = left
    BY <1>1, AccountingTypeStep, ZenonT(30) DEF Adds, TypeOK
  <2>2. \A c \in Counters : counter[c] <= since[c] => counter'[c] <= since'[c]
    BY <1>0, <2>1
  <2> QED BY <2>1, <2>2, ZenonT(30) DEF ResetInv
<1>2. CASE UNCHANGED <<counter, since, watch, left>>
  BY <1>2, ZenonT(30) DEF ResetInv
<1>3. CASE ResetBegins
  BY <1>3, OrdersTyped, ZenonT(30) DEF ResetBegins, ResetInv
<1>4. CASE Store
  <2>1. /\ watch = "reset" /\ left # <<>> /\ left \in Seq(Counters)
        /\ counter' = [counter EXCEPT ![Head(left)] = 0]
        /\ left' = Tail(left) /\ UNCHANGED <<watch, since>>
    BY <1>4, ZenonT(30) DEF Store, TypeOK
  <2>2. /\ Head(left) = left[1] /\ Len(left) \in Nat /\ Len(left') = Len(left) - 1
        /\ \A k \in 1 .. Len(left') : left'[k] = left[k + 1]
    BY <2>1
  <2> SUFFICES ASSUME NEW c \in Counters, ~ (counter'[c] <= since'[c])
               PROVE  \E k \in 1 .. Len(left') : left'[k] = c
    BY <2>1, ZenonT(30) DEF ResetInv
  <2>3. c # Head(left) /\ counter'[c] = counter[c]
    BY <1>0, <2>1, SMTT(30)
  <2>4. PICK k \in 1 .. Len(left) : left[k] = c
    BY <2>1, <2>3, ZenonT(30) DEF ResetInv
  <2>5. k # 1 /\ k - 1 \in 1 .. Len(left')
    BY <2>2, <2>3, <2>4
  <2>6. left'[k - 1] = c
    BY <2>2, <2>4, <2>5
  <2> QED BY <2>5, <2>6, ZenonT(30)
<1>5. CASE SnapshotBegins \/ WatchEnds
  <2>1. watch # "reset" \/ Len(left) = 0
    BY <1>5 DEF SnapshotBegins, WatchEnds
  <2>2. \A c \in Counters : counter[c] <= since[c]
    BY <2>1 DEF ResetInv
  <2> QED BY <1>5, <2>2, ZenonT(30) DEF SnapshotBegins, WatchEnds, ResetInv
<1>6. CASE Load
  <2>1. watch = "snapshot"
    BY <1>6, ZenonT(30) DEF Load
  <2>2. \A c \in Counters : counter[c] <= since[c]
    BY <2>1, ZenonT(30) DEF ResetInv
  <2> QED BY <1>6, <2>2, ZenonT(30) DEF Load, ResetInv
<1>7. CASE Tick \/ UNCHANGED vars
  BY <1>2, <1>7, ZenonT(30) DEF Tick, vars, watcher
<1> QED BY <1>1, <1>3, <1>4, <1>5, <1>6, <1>7, TaskAdds, ZenonT(30) DEF Next, WatchStep

(* Once reset() has returned, no counter holds more than was added since   *)
(* it was called, however many tasks counted while it ran.                 *)
THEOREM ResetsForget == Spec => []ResetForgets
<1>1. Init => ResetInv
  BY DEF Init, ResetInv, Zero
<1>2. ResetInv => ResetForgets
  BY ZenonT(30) DEF ResetInv, ResetForgets
<1> QED BY <1>1, <1>2, AccountingTypeInit, AccountingTypeStep, ResetStep, PTL DEF Spec

-----------------------------------------------------------------------------
(***************************************************************************)
(* A sum over the tasks, as the cardinality of a set with one element for  *)
(* each unit.                                                              *)
(***************************************************************************)
Units(f) == {x \in Tasks \X Nat : x[2] \in 1 .. f[x[1]]}

(* What the proofs need to know of cardinalities.  The three laws follow   *)
(* from the library's theorems on finite sets: see CounterProofs.          *)
EmptyLaw == IsFiniteSet({}) /\ Cardinality({}) = 0

(* When one task comes to owe something else, the sum changes by as much.  *)
UnitsLaw ==
  \A f, g \in [Tasks -> Nat], t \in Tasks :
    (IsFiniteSet(Units(f)) /\ \A u \in Tasks \ {t} : f[u] = g[u]) =>
      /\ IsFiniteSet(Units(g))
      /\ Cardinality(Units(f)) \in Nat /\ Cardinality(Units(g)) \in Nat
      /\ Cardinality(Units(f)) >= f[t]
      /\ Cardinality(Units(g)) = Cardinality(Units(f)) - f[t] + g[t]

(* A set of tasks grows by one with each of the others. *)
TasksLaw ==
  /\ Cardinality(Tasks) \in Nat
  /\ \A S \in SUBSET Tasks : Cardinality(S) \in Nat
  /\ \A S \in SUBSET Tasks : \A t \in Tasks \ S :
       /\ Cardinality(S \cup {t}) = Cardinality(S) + 1
       /\ Cardinality(S) < Cardinality(Tasks)

(* A step that is not one of these leaves all that is counted alone. *)
LEMMA CountingCases ==
  ASSUME [Next]_vars
  PROVE  \/ \E t \in Tasks, o \in {"try", "async", "either"}, r \in Outcomes : Attempt(t, o, r)
         \/ \E t \in Tasks : RecordEvent(t) \/ Increment(t) \/ Finish(t) \/ Block(t) \/ Cancel(t)
         \/ WatchStep \/ Tick \/ UNCHANGED vars
BY ZenonT(30) DEF Next, TaskStep

-----------------------------------------------------------------------------
(***************************************************************************)
(* The controller is driven as AdaptiveBatching says.                      *)
(***************************************************************************)
Waiters == {t \in Tasks : pc[t] = "count" /\ MustWait(t) /\ SeenEmpty(t)}

(* How often a call may still take the controller's Mutex. *)
Due(t) == CASE pc[t] = "record" -> 2 [] pc[t] = "count" -> 1 [] OTHER -> 0

Dues == Units([t \in Tasks |-> Due(t)])

(* Only an Ok is recorded as an event, and a loop never reports WouldBlock. *)
Fits(t) ==
  /\ pc[t] = "record" => ret[t].kind = "Ok"
  /\ ret[t].kind = "WouldBlock" => backend # "loop"

(* Every platform call visits the controller at most twice. *)
Visits ==
  /\ IsFiniteSet(Dues) /\ state.total_send_count + Cardinality(Dues) <= 2 * calls
  /\ calls <= MaxAttempts

DriveInv == Visits /\ \A t \in Tasks : Fits(t)

(* What is due changes with one task. *)
LEMMA DueChange ==
  ASSUME UnitsLaw, TypeOK, TypeOK', NEW t \in Tasks, \A u \in Tasks \ {t} : pc'[u] = pc[u],
         IsFiniteSet(Dues)
  PROVE  /\ IsFiniteSet(Dues') /\ Cardinality(Dues) \in Nat
         /\ Cardinality(Dues) >= Due(t)
         /\ Cardinality(Dues') = Cardinality(Dues) - Due(t) + Due(t)'
         /\ Cardinality(Dues') \in Nat
<1> DEFINE f == [u \in Tasks |-> Due(u)]
           g == [u \in Tasks |-> Due(u)']
<1>1. \A u \in Tasks : Due(u) \in Nat /\ Due(u)' \in Nat
  BY ZenonT(30) DEF Due
<1>2. f \in [Tasks -> Nat] /\ g \in [Tasks -> Nat] /\ \A u \in Tasks \ {t} : f[u] = g[u]
  BY <1>1, ZenonT(30) DEF Due
<1>3. Dues = Units(f) /\ Dues' = Units(g) /\ f[t] = Due(t) /\ g[t] = Due(t)'
  BY ZenonT(30) DEF Dues, Units
<1> HIDE DEF f, g
<1> QED BY <1>2, <1>3, ZenonT(30) DEF UnitsLaw

(* The controller's count of attempts after each of its methods. *)
LEMMA MethodsCount ==
  ASSUME NEW s \in AdaptiveStates
  PROVE  /\ record_event(s).total_send_count = s.total_send_count + 1
         /\ maybe_adjust(record_would_block(s)).total_send_count \in {0, s.total_send_count + 1}
         /\ s.total_send_count \in Nat
BY ZenonT(30) DEF record_event, record_would_block, maybe_adjust, AdaptiveStates

(* What the proofs below need of the types. *)
LEMMA TasksTyped ==
  ASSUME TypeOK
  PROVE  /\ pc \in [Tasks -> {"idle", "record", "count", "waiting"}]
         /\ ret \in [Tasks -> [kind : {"None", "Ok", "WouldBlock", "Error"}, n : Nat]]
         /\ op \in [Tasks -> {"none", "try", "async", "either"}]
BY ZenonT(30) DEF TypeOK

(* What a call does in the critical section before it waits. *)
LEMMA BlockActs ==
  ASSUME NEW t \in Tasks, Block(t)
  PROVE  /\ pc[t] = "count" /\ MustWait(t) /\ pc' = [pc EXCEPT ![t] = "waiting"]
         /\ state' = maybe_adjust(record_would_block(state))
         /\ ret' = [ret EXCEPT ![t] = NoResult] /\ UNCHANGED <<dir, backend, op, calls>>
BY ZenonT(30) DEF Block, fixed, history

(* Every step keeps DriveInv. *)
LEMMA DriveStep ==
  ASSUME UnitsLaw, TypeOK, TypeOK', DriveInv, [Next]_vars PROVE DriveInv'
<1> DEFINE n == state.total_send_count
<1>0. n \in Nat /\ n' \in Nat /\ state \in AdaptiveStates /\ calls \in Nat
  BY ZenonT(30) DEF TypeOK, AdaptiveStates
<1>1. ASSUME NEW t \in Tasks, NEW o \in {"try", "async", "either"}, NEW r \in Outcomes,
             Attempt(t, o, r)
      PROVE  DriveInv'
  <2>1. /\ ret' = [ret EXCEPT ![t] = [kind |-> r.kind, n |-> r.n]] /\ UNCHANGED <<dir, backend, state>>
        /\ pc' = [pc EXCEPT ![t] = IF r.kind = "Ok" THEN "record" ELSE "count"]
        /\ pc[t] \in {"idle", "waiting"} /\ calls' = calls + 1 /\ calls < MaxAttempts
    BY <1>1, ZenonT(30) DEF Attempt, fixed, control
  <2>2. r.kind = "WouldBlock" => backend # "loop"
    BY OutcomeTyped, ZenonT(30)
  <2>3. ASSUME NEW u \in Tasks PROVE Fits(u)'
    <3>1. u # t => pc'[u] = pc[u] /\ ret'[u] = ret[u]
      BY <2>1, TasksTyped, ZenonT(30)
    <3>2. u = t => /\ ret'[u] = [kind |-> r.kind, n |-> r.n]
                   /\ pc'[u] = IF r.kind = "Ok" THEN "record" ELSE "count"
      BY <2>1, TasksTyped, ZenonT(30)
    <3>3. Fits(u)
      BY ZenonT(30) DEF DriveInv
    <3> QED BY <2>1, <2>2, <3>1, <3>2, <3>3 DEF Fits
  <2>4. Due(t) = 0 /\ Due(t)' <= 2 /\ Due(t)' \in Nat /\ \A u \in Tasks \ {t} : pc'[u] = pc[u]
    BY SMTT(30), <2>1, TasksTyped DEF Due
  <2>5. IsFiniteSet(Dues') /\ n' + Cardinality(Dues') <= 2 * calls'
    <3>1. /\ IsFiniteSet(Dues') /\ Cardinality(Dues) \in Nat
          /\ Cardinality(Dues') = Cardinality(Dues) - Due(t) + Due(t)'
      BY <2>4, DueChange, ZenonT(30) DEF DriveInv, Visits
    <3>2. n + Cardinality(Dues) <= 2 * calls
      BY ZenonT(30) DEF DriveInv, Visits
    <3> QED BY <1>0, <2>1, <2>4, <3>1, <3>2
  <2>6. calls' <= MaxAttempts
    BY <1>0, <2>1, AccountingAssumption, SMTT(30)
  <2> QED BY <2>3, <2>5, <2>6, ZenonT(30) DEF DriveInv, Visits
<1>2. ASSUME NEW t \in Tasks, RecordEvent(t) \/ Finish(t) \/ Block(t) \/ Cancel(t)
      PROVE  DriveInv'
  <2>1. /\ UNCHANGED <<dir, backend, calls>>
        /\ ret' = ret \/ ret' = [ret EXCEPT ![t] = NoResult]
        /\ \A u \in Tasks \ {t} : pc'[u] = pc[u]
        /\ pc'[t] # "record"
    BY <1>2, BlockActs, TasksTyped, ZenonT(30) DEF RecordEvent, Finish, Cancel, fixed, history
  <2>2. ASSUME NEW u \in Tasks PROVE Fits(u)'
    <3>1. ret'[u] = ret[u] \/ ret'[u] = NoResult
      BY <2>1, TasksTyped, ZenonT(30)
    <3>2. pc'[u] = "record" => u # t /\ ret'[u] = ret[u] /\ pc[u] = "record"
      BY <2>1, TasksTyped, ZenonT(30)
    <3>3. Fits(u)
      BY ZenonT(30) DEF DriveInv
    <3> QED BY <2>1, <3>1, <3>2, <3>3 DEF Fits, NoResult
  <2>3. Due(t) \in Nat /\ Due(t)' \in Nat /\ n' - n <= Due(t) - Due(t)'
    <3>1. CASE RecordEvent(t)
      <4>1. Due(t) = 2 /\ Due(t)' = 1
        BY <3>1, TasksTyped, ZenonT(30) DEF RecordEvent, Due
      <4>2. n' = n + 1
        BY <1>0, <3>1, MethodsCount, ZenonT(30) DEF RecordEvent
      <4> QED BY <1>0, <4>1, <4>2
    <3>2. CASE Block(t)
      <4>1. Due(t) = 1 /\ Due(t)' = 0
        BY <3>2, BlockActs, TasksTyped, ZenonT(30) DEF Due
      <4>2. n' \in {0, n + 1}
        BY <1>0, <3>2, BlockActs, MethodsCount, ZenonT(30)
      <4> QED BY <1>0, <4>1, <4>2
    <3>3. CASE Finish(t) \/ Cancel(t)
      <4>1. Due(t) \in {0, 1} /\ Due(t)' = 0 /\ state' = state
        BY <3>3, TasksTyped, ZenonT(30) DEF Finish, Cancel, Due, control
      <4> QED BY <1>0, <4>1
    <3> QED BY <1>2, <3>1, <3>2, <3>3, ZenonT(30)
  <2>4. /\ IsFiniteSet(Dues') /\ Cardinality(Dues) \in Nat
        /\ Cardinality(Dues') = Cardinality(Dues) - Due(t) + Due(t)'
    BY <2>1, DueChange, ZenonT(30) DEF DriveInv, Visits
  <2>5. n + Cardinality(Dues) <= 2 * calls /\ calls <= MaxAttempts
    BY ZenonT(30) DEF DriveInv, Visits
  <2>6. n' + Cardinality(Dues') <= 2 * calls'
    BY SMTT(30), <1>0, <2>1, <2>3, <2>4, <2>5
  <2> QED BY <2>1, <2>2, <2>4, <2>5, <2>6, ZenonT(30) DEF DriveInv, Visits
<1>3. ASSUME UNCHANGED <<dir, backend, calls, pc, ret>>, n' = n PROVE DriveInv'
  <2>1. Dues' = Dues
    BY <1>3, ZenonT(30) DEF Dues, Units, Due
  <2> QED BY <1>3, <2>1, ZenonT(30) DEF DriveInv, Visits, Fits
<1>4. ASSUME NEW t \in Tasks, Increment(t) PROVE DriveInv'
  BY <1>3, <1>4, ZenonT(30) DEF Increment, fixed, history, control
<1>5. CASE Tick
  <2>1. n' = n
    BY <1>0, <1>5, ZenonT(30) DEF Tick, AdaptiveStates
  <2> QED BY <1>3, <1>5, <2>1, ZenonT(30) DEF Tick, fixed, history, tasks
<1>6. CASE WatchStep \/ UNCHANGED vars
  BY ZenonT(30), <1>3, <1>6
     DEF WatchStep, SnapshotBegins, Load, ResetBegins, Store, WatchEnds, vars,
     fixed, history, tasks, control
<1> QED BY <1>1, <1>2, <1>4, <1>5, <1>6, CountingCases, ZenonT(30)

-----------------------------------------------------------------------------
(* The controller of the instance is the one of the wrappers. *)
LEMMA SameController ==
  /\ \A n \in InitialSizes : Controller!new(n) = new(n)
  /\ Controller!record_event(state) = record_event(state)
  /\ Controller!record_would_block(state) = record_would_block(state)
  /\ \A s : Controller!maybe_adjust(s) = maybe_adjust(s)
  /\ \A s : Controller!AdjustmentDue(s) = AdjustmentDue(s)
<1>1. \A x, y : Controller!AtLeast(x, y) = AtLeast(x, y) /\ Controller!AtMost(x, y) = AtMost(x, y)
  BY ZenonT(30) DEF Controller!AtLeast, AtLeast, Controller!AtMost, AtMost
<1>2. \A s : Controller!AdjustmentDue(s) = AdjustmentDue(s)
  BY ZenonT(30) DEF Controller!AdjustmentDue, AdjustmentDue
<1>3. \A s : Controller!Retarget(s) = Retarget(s)
  <2>1. \A x : Controller!Halve(x) = Halve(x) /\ Controller!Grow(x) = Grow(x)
    BY <1>1, ZenonT(30) DEF Controller!Halve, Halve, Controller!Grow, Grow
  <2>2. \A s : /\ Controller!RateAbove30(s) = RateAbove30(s)
               /\ Controller!RateBelow10(s) = RateBelow10(s)
    BY ZenonT(30) DEF Controller!RateAbove30, RateAbove30, Controller!RateBelow10, RateBelow10
  <2> QED BY <2>1, <2>2, ZenonT(30) DEF Controller!Retarget, Retarget
<1>4. \A s : Controller!maybe_adjust(s) = maybe_adjust(s)
  BY <1>2, <1>3, ZenonT(30) DEF Controller!maybe_adjust, maybe_adjust
<1>5. \A n \in InitialSizes : Controller!new(n) = new(n)
  BY <1>1, ZenonT(30) DEF Controller!new, new
<1>6. Controller!record_event(state) = record_event(state)
  BY ZenonT(30) DEF Controller!record_event, record_event
<1>7. Controller!record_would_block(state) = record_would_block(state)
  BY ZenonT(30) DEF Controller!record_would_block, record_would_block
<1> QED BY <1>2, <1>4, <1>5, <1>6, <1>7, ZenonT(30)

(* A call that has not been to the Mutex for the last time finds the       *)
(* controller's bound on events not reached.                               *)
LEMMA RoomForEvent ==
  ASSUME UnitsLaw, TypeOK, TypeOK', DriveInv, NEW t \in Tasks, Due(t) > 0,
         \A u \in Tasks \ {t} : pc'[u] = pc[u]
  PROVE  /\ state.total_send_count < 2 * MaxAttempts
         /\ state.total_send_count <= 2 * MaxAttempts
<1> DEFINE n == state.total_send_count
           d == Cardinality(Dues)
<1>1. n \in Nat /\ calls \in Nat
  BY ZenonT(30) DEF TypeOK, AdaptiveStates
<1>2. Due(t) \in Nat
  BY ZenonT(30) DEF Due
<1>3. d \in Nat /\ d >= Due(t)
  BY DueChange, ZenonT(30) DEF DriveInv, Visits
<1>4. n + d <= 2 * calls /\ calls <= MaxAttempts
  BY ZenonT(30) DEF DriveInv, Visits
<1> HIDE DEF n, d
<1>5. n < 2 * MaxAttempts /\ n <= 2 * MaxAttempts
  BY <1>1, <1>2, <1>3, <1>4, AccountingAssumption
<1> QED BY <1>5, ZenonT(30) DEF n

(* Steps that leave the pending tasks and the controller alone. *)
LEMMA DriveStutters ==
  ASSUME Waiters' = Waiters, UNCHANGED <<fixed, control>>
  PROVE  UNCHANGED Controller!batchingVars
BY ZenonT(30) DEF Controller!batchingVars, Waiters, fixed, control

(* An attempt whose Ok has been recorded: an empty receive that will wait  *)
(* is the controller's RecvEmpty, any other its RecordEvent.               *)
LEMMA RecordDrives ==
  ASSUME UnitsLaw, TasksLaw, TypeOK, TypeOK', DriveInv, NEW t \in Tasks, RecordEvent(t)
  PROVE  Controller!RecvEmpty \/ Controller!RecordEvent
<1>1. /\ pc[t] = "record" /\ pc' = [pc EXCEPT ![t] = "count"]
      /\ state' = record_event(state) /\ attempts' = attempts + 1
      /\ UNCHANGED <<dir, backend, ret, op, repeats>>
  BY ZenonT(30) DEF RecordEvent, fixed
<1>2. t \notin Waiters /\ ret[t].kind = "Ok"
  BY <1>1, ZenonT(30) DEF Waiters, DriveInv, Fits
<1>3. Waiters' = IF MustWait(t) THEN Waiters \cup {t} ELSE Waiters
  <2>1. \A u \in Tasks : MustWait(u)' = MustWait(u) /\ SeenEmpty(u)' = SeenEmpty(u)
    BY <1>1, ZenonT(30) DEF MustWait, WouldWait, SeenEmpty
  <2>2. \A u \in Tasks : pc'[u] = IF u = t THEN "count" ELSE pc[u]
    BY <1>1, TasksTyped, ZenonT(30)
  <2> QED BY <1>1, <1>2, <2>1, <2>2 DEF Waiters, SeenEmpty
<1>4. /\ state.total_send_count < 2 * MaxAttempts
      /\ state.total_send_count <= 2 * MaxAttempts
  <2>1. Due(t) > 0 /\ \A u \in Tasks \ {t} : pc'[u] = pc[u]
    BY <1>1, TasksTyped DEF Due
  <2> QED BY <2>1, RoomForEvent, ZenonT(30)
<1>5. CASE MustWait(t)
  <2>1. dir = "recv"
    BY <1>2, <1>5, ZenonT(30) DEF MustWait, WouldWait
  <2>2. /\ Cardinality(Waiters') = Cardinality(Waiters) + 1
        /\ Cardinality(Waiters) < Cardinality(Tasks)
    BY ZenonT(30), <1>2, <1>3, <1>5 DEF Waiters, TasksLaw
  <2> QED BY <1>1, <1>4, <2>1, <2>2, SameController, ZenonT(30) DEF Controller!RecvEmpty, Waiters
<1>6. CASE ~ MustWait(t)
  BY <1>1, <1>3, <1>4, <1>6, SameController, ZenonT(30) DEF Controller!RecordEvent, Waiters
<1> QED BY <1>5, <1>6, ZenonT(30)

(* The critical section before a wait: RecvEmptyBlocked after an Ok(0),    *)
(* RecordWouldBlock after an error.                                        *)
LEMMA BlockDrives ==
  ASSUME UnitsLaw, TasksLaw, TypeOK, TypeOK', DriveInv, NEW t \in Tasks, Block(t)
  PROVE  Controller!RecvEmptyBlocked \/ Controller!RecordWouldBlock
<1> DEFINE counted == record_would_block(state)
<1>1. /\ pc[t] = "count" /\ MustWait(t) /\ pc' = [pc EXCEPT ![t] = "waiting"]
      /\ state' = maybe_adjust(counted)
      /\ ret' = [ret EXCEPT ![t] = NoResult] /\ UNCHANGED <<dir, backend, op>>
  BY BlockActs, ZenonT(30)
<1>2. IF AdjustmentDue(counted) THEN attempts' = 0 /\ repeats' = 0
      ELSE IF SeenEmpty(t) THEN repeats' = repeats + 1 /\ UNCHANGED attempts
      ELSE attempts' = attempts + 1 /\ UNCHANGED repeats
  BY ZenonT(30) DEF Block
<1> HIDE DEF counted
<1>3. Waiters' = Waiters \ {t}
  <2>1. \A u \in Tasks \ {t} : pc'[u] = pc[u] /\ ret'[u] = ret[u]
    BY <1>1, TasksTyped, ZenonT(30)
  <2>2. \A u \in Tasks \ {t} : MustWait(u)' = MustWait(u) /\ SeenEmpty(u)' = SeenEmpty(u)
    BY <1>1, <2>1, ZenonT(30) DEF MustWait, WouldWait, SeenEmpty
  <2>3. pc'[t] # "count"
    BY <1>1, TasksTyped, ZenonT(30)
  <2> QED BY <2>1, <2>2, <2>3, ZenonT(30) DEF Waiters
<1>4. state.total_send_count < 2 * MaxAttempts
  <2>1. Due(t) > 0 /\ \A u \in Tasks \ {t} : pc'[u] = pc[u]
    BY SMTT(30), <1>1, TasksTyped DEF Due
  <2> QED BY <2>1, RoomForEvent, ZenonT(30)
<1>5. CASE SeenEmpty(t)
  <2>1. t \in Waiters
    BY <1>1, <1>5, ZenonT(30) DEF Waiters
  <2>2. Cardinality(Waiters') = Cardinality(Waiters) - 1 /\ Cardinality(Waiters) > 0
    <3>1. /\ Waiters' \in SUBSET Tasks /\ t \in Tasks \ Waiters'
          /\ Waiters = Waiters' \cup {t}
      BY ZenonT(30), <1>3, <2>1 DEF Waiters
    <3>2. Cardinality(Waiters') \in Nat /\ Cardinality(Waiters) = Cardinality(Waiters') + 1
      BY <3>1, ZenonT(30) DEF TasksLaw
    <3> QED BY SMTT(30), <3>2
  <2> QED BY <1>1, <1>2, <1>4, <1>5, <2>2, SameController, ZenonT(30) DEF Controller!RecvEmptyBlocked,
             Controller!Blocked, Waiters, counted
<1>6. CASE ~ SeenEmpty(t)
  <2>1. t \notin Waiters
    BY <1>6, ZenonT(30) DEF Waiters
  <2>2. Waiters' = Waiters
    BY <1>3, <2>1, ZenonT(30)
  <2>3. backend = "syscall"
    <3>1. backend # "loop"
      BY <1>1, <1>6, ZenonT(30) DEF MustWait, WouldWait, SeenEmpty, DriveInv, Fits
    <3> QED BY <3>1, AccountingAssumption, ZenonT(30) DEF TypeOK
  <2> QED BY <1>1, <1>2, <1>4, <1>6, <2>2, <2>3, SameController, ZenonT(30) DEF
             Controller!RecordWouldBlock, Controller!Blocked, Waiters, counted
<1> QED BY <1>5, <1>6, ZenonT(30)

(* Every step is a step of the controller, or none. *)
LEMMA DrivesStep ==
  ASSUME UnitsLaw, TasksLaw, TypeOK, TypeOK', DriveInv, [Next]_vars
  PROVE  [Controller!BatchingNext]_Controller!batchingVars
<1>1. ASSUME NEW t \in Tasks, NEW o \in {"try", "async", "either"}, NEW r \in Outcomes,
             Attempt(t, o, r)
      PROVE  UNCHANGED Controller!batchingVars
  <2>1. /\ \A u \in Tasks \ {t} : pc'[u] = pc[u] /\ ret'[u] = ret[u] /\ op'[u] = op[u]
        /\ dir' = dir
    BY <1>1, TasksTyped, ZenonT(30) DEF Attempt, fixed
  <2>2. \A u \in Tasks \ {t} : MustWait(u)' = MustWait(u) /\ SeenEmpty(u)' = SeenEmpty(u)
    BY ZenonT(30), <2>1 DEF MustWait, WouldWait, SeenEmpty
  <2>3. pc[t] # "count" /\ (pc'[t] = "count" => ret'[t].kind # "Ok")
    BY <1>1, TasksTyped, ZenonT(30) DEF Attempt
  <2>4. Waiters' = Waiters
    BY <2>1, <2>2, <2>3, ZenonT(30) DEF Waiters, SeenEmpty
  <2> QED BY <1>1, <2>4, DriveStutters, ZenonT(30) DEF Attempt
<1>2. ASSUME NEW t \in Tasks, Finish(t) \/ Cancel(t) PROVE UNCHANGED Controller!batchingVars
  <2>1. /\ \A u \in Tasks \ {t} : pc'[u] = pc[u] /\ ret'[u] = ret[u] /\ op'[u] = op[u]
        /\ dir' = dir
    BY <1>2, TasksTyped, ZenonT(30) DEF Finish, Cancel, fixed
  <2>2. \A u \in Tasks \ {t} : MustWait(u)' = MustWait(u) /\ SeenEmpty(u)' = SeenEmpty(u)
    BY ZenonT(30), <2>1 DEF MustWait, WouldWait, SeenEmpty
  <2>3. ~ (pc[t] = "count" /\ MustWait(t)) /\ pc'[t] # "count"
    BY <1>2, TasksTyped, ZenonT(30) DEF Finish, Cancel
  <2>4. Waiters' = Waiters
    BY <2>1, <2>2, <2>3, ZenonT(30) DEF Waiters
  <2> QED BY <1>2, <2>4, DriveStutters, ZenonT(30) DEF Finish, Cancel
<1>3. ASSUME UNCHANGED <<fixed, control, pc, op, ret>> PROVE UNCHANGED Controller!batchingVars
  <2>1. Waiters' = Waiters
    BY <1>3, ZenonT(30) DEF Waiters, MustWait, WouldWait, SeenEmpty, fixed
  <2> QED BY <1>3, <2>1, DriveStutters, ZenonT(30)
<1>4. ASSUME NEW t \in Tasks, Increment(t) PROVE UNCHANGED Controller!batchingVars
  BY <1>3, <1>4, ZenonT(30) DEF Increment
<1>5. WatchStep \/ UNCHANGED vars => UNCHANGED Controller!batchingVars
  BY ZenonT(30), <1>3
     DEF WatchStep, SnapshotBegins, Load, ResetBegins, Store, WatchEnds, vars,
     fixed, tasks, control
<1>6. Tick => Controller!Tick
  <2>1. Tick => Waiters' = Waiters
    BY ZenonT(30) DEF Tick, tasks, fixed, Waiters, MustWait, WouldWait, SeenEmpty
  <2> QED BY <2>1, ZenonT(30) DEF Tick, fixed, Controller!Tick, Waiters
<1> QED BY <1>1, <1>2, <1>4, <1>5, <1>6, RecordDrives, BlockDrives, CountingCases, ZenonT(30) DEF
           Controller!BatchingNext
=============================================================================
