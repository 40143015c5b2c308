----------------------------- MODULE CounterProofs -----------------------------
(***************************************************************************)
(* What Accounting promises of the counters, and that the wrappers drive   *)
(* the controller as AdaptiveBatching says, for any number of tasks.       *)
(***************************************************************************)
EXTENDS AccountingProofs

(***************************************************************************)
(* What the tasks still have to add to a counter, as a set with one        *)
(* element for each unit: its cardinality is the sum over all tasks.       *)
(***************************************************************************)
Elements(s) == {s[k] : k \in 1 .. Len(s)}

Owes(t, c) == IF c \in Elements(todo[t]) THEN Amount(t, c) ELSE 0

Owed(c)  == Units([t \in Tasks |-> Owes(t, c)])

(* What has happened, as counter c tells it: every batch is one syscall. *)
Told(c) == CASE c = "packets"     -> truth.packets
             [] c = "errors"      -> truth.errors
             [] c = "would_block" -> truth.would_block
             [] OTHER             -> truth.batches

(* What is left of the increments of one call. *)
Todos == {<<>>, <<"packets", "batches", "syscalls">>, <<"batches", "syscalls">>, <<"syscalls">>,
          <<"errors", "would_block">>, <<"would_block">>, <<"errors">>}

TodoInv == \A t \in Tasks : todo[t] \in Todos /\ (~ Counting(t) => todo[t] = <<>>)

Truths == [packets : Nat, batches : Nat, errors : Nat, would_block : Nat,
           made : Nat, moved : Nat, empty : Nat]

(* What the platform calls did, whatever is counted. *)
TruthInv ==
  /\ truth \in Truths
  /\ truth.packets <= truth.moved
  /\ truth.batches + truth.errors <= truth.made + truth.empty
  /\ (dir = "send" /\ backend = "syscall") => truth.packets = truth.moved

(* Counted and still owed make up what happened.  A reset() that met no    *)
(* call counting has forgotten what happened, and is clearing the counters.*)
CountInv ==
  clean =>
    /\ watch # "reset" => \A c \in Counters :
         IsFiniteSet(Owed(c)) /\ Told(c) = counter[c] + Cardinality(Owed(c))
    /\ watch = "reset" =>
         /\ \A t \in Tasks : ~ Counting(t)
         /\ truth = NoTruth
         /\ \A c \in Counters : counter[c] = 0 \/ \E k \in 1 .. Len(left) : left[k] = c

(* What is owed to a counter changes with one task. *)
LEMMA OwedChange ==
  ASSUME UnitsLaw, TypeOK, TypeOK', NEW t \in Tasks, NEW c,
         \A u \in Tasks \ {t} : Owes(u, c)' = Owes(u, c), IsFiniteSet(Owed(c))
  PROVE  /\ IsFiniteSet(Owed(c)')
         /\ Cardinality(Owed(c)') = Cardinality(Owed(c)) - Owes(t, c) + Owes(t, c)'
         /\ Cardinality(Owed(c)) \in Nat
<1> DEFINE f == [u \in Tasks |-> Owes(u, c)]
           g == [u \in Tasks |-> Owes(u, c)']
<1>1. \A u \in Tasks : Owes(u, c) \in Nat /\ Owes(u, c)' \in Nat
  BY ZenonT(30) DEF Owes, Amount, TypeOK
<1>2. f \in [Tasks -> Nat] /\ g \in [Tasks -> Nat] /\ \A u \in Tasks \ {t} : f[u] = g[u]
  BY <1>1, ZenonT(30)
<1>3. Owed(c) = Units(f) /\ Owed(c)' = Units(g) /\ f[t] = Owes(t, c) /\ g[t] = Owes(t, c)'
  BY ZenonT(30) DEF Owed, Units
<1> HIDE DEF f, g
<1> QED BY <1>2, <1>3 DEF UnitsLaw

(* What is left of a call's increments, and what taking the first off it   *)
(* leaves: no counter is in the list twice.                                *)
LEMMA TodoElements ==
  /\ Elements(<<>>) = {}
  /\ Elements(<<"packets", "batches", "syscalls">>) = {"packets", "batches", "syscalls"}
  /\ Elements(<<"batches", "syscalls">>) = {"batches", "syscalls"}
  /\ Elements(<<"syscalls">>) = {"syscalls"}
  /\ Elements(<<"errors", "would_block">>) = {"errors", "would_block"}
  /\ Elements(<<"would_block">>) = {"would_block"}
  /\ Elements(<<"errors">>) = {"errors"}
<1>1. Elements(<<>>) = {}
  BY DEF Elements
<1>2. Elements(<<"packets", "batches", "syscalls">>) = {"packets", "batches", "syscalls"}
  <2> DEFINE s == <<"packets", "batches", "syscalls">>
  <2>1. Len(s) = 3 /\ s[1] = "packets" /\ s[2] = "batches" /\ s[3] = "syscalls"
    BY ZenonT(30)
  <2>2. 1 .. 3 = {1, 2, 3}
    OBVIOUS
  <2> HIDE DEF s
  <2>3. Elements(s) = {"packets", "batches", "syscalls"}
    BY <2>1, <2>2, ZenonT(30) DEF Elements
  <2> QED BY <2>3, ZenonT(30) DEF s
<1>3. \A a, b : Elements(<<a, b>>) = {a, b}
  BY DEF Elements
<1>4. \A a : Elements(<<a>>) = {a}
  BY DEF Elements
<1> QED BY <1>1, <1>2, <1>3, <1>4, ZenonT(30)

(* What is left after an increment is again in Todos. *)
LEMMA TodoTail ==
  ASSUME NEW s \in Todos, s # <<>>
  PROVE  Tail(s) \in Todos /\ Elements(Tail(s)) = Elements(s) \ {Head(s)}
<1>1. CASE s = <<"packets", "batches", "syscalls">>
  <2>1. Head(s) = "packets" /\ Tail(s) = <<"batches", "syscalls">>
    BY <1>1
  <2> QED BY <1>1, <2>1, TodoElements, ZenonT(30) DEF Todos
<1>2. CASE s = <<"batches", "syscalls">>
  <2>1. Head(s) = "batches" /\ Tail(s) = <<"syscalls">>
    BY <1>2
  <2> QED BY <1>2, <2>1, TodoElements, ZenonT(30) DEF Todos
<1>3. CASE s = <<"errors", "would_block">>
  <2>1. Head(s) = "errors" /\ Tail(s) = <<"would_block">>
    BY <1>3
  <2> QED BY <1>3, <2>1, TodoElements, ZenonT(30) DEF Todos
<1>4. CASE s \in {<<"syscalls">>, <<"would_block">>, <<"errors">>}
  <2>1. PICK a : s = <<a>> /\ a \in {"syscalls", "would_block", "errors"}
    BY <1>4, ZenonT(30)
  <2>2. Head(s) = a /\ Tail(s) = <<>>
    BY <2>1
  <2> QED BY <1>4, <2>1, <2>2, TodoElements DEF Todos
<1> QED BY <1>1, <1>2, <1>3, <1>4, ZenonT(30) DEF Todos

-----------------------------------------------------------------------------
(* Every step keeps TodoInv. *)
LEMMA TodoStep ==
  ASSUME TypeOK, TodoInv, [Next]_vars PROVE TodoInv'
<1> USE DEF TodoInv, Counting
<1>1. ASSUME NEW t \in Tasks, NEW o \in {"try", "async", "either"}, NEW r \in Outcomes,
             Attempt(t, o, r)
      PROVE  TodoInv'
  <2>1. Increments(r) \in Todos
    BY ZenonT(30) DEF Increments, Todos
  <2> QED BY <1>1, <2>1, ZenonT(30) DEF Attempt, TypeOK
<1>2. ASSUME NEW t \in Tasks, Increment(t) PROVE TodoInv'
  <2>1. Tail(todo[t]) \in Todos /\ todo' = [todo EXCEPT ![t] = Tail(@)] /\ pc' = pc
        /\ pc[t] = "count"
    BY <1>2, TodoTail, ZenonT(30) DEF Increment
  <2> QED BY <2>1, ZenonT(30) DEF TypeOK
<1>3. ASSUME NEW t \in Tasks, RecordEvent(t) \/ Finish(t) \/ Block(t) \/ Cancel(t) PROVE TodoInv'
  BY ZenonT(30), <1>3 DEF RecordEvent, Finish, Block, Cancel, TypeOK
<1>4. CASE WatchStep \/ Tick \/ UNCHANGED vars
  <2>1. UNCHANGED <<pc, todo>>
    BY ZenonT(30), <1>4
       DEF WatchStep, SnapshotBegins, Load, ResetBegins, Store, WatchEnds, Tick, vars, tasks
  <2> QED BY <2>1, ZenonT(30)
<1> QED BY <1>1, <1>2, <1>3, <1>4, CountingCases, ZenonT(30)

-----------------------------------------------------------------------------
(* What an outcome of the platform call is worth. *)
LEMMA OutcomeCounts ==
  ASSUME NEW r \in Outcomes
  PROVE  /\ r.n \in Nat /\ r.moved \in Nat /\ r.made \in Nat
         /\ r.kind \in {"Ok", "WouldBlock", "Error"}
         /\ r.n <= r.moved /\ (r.made >= 1 \/ (r.made = 0 /\ r.kind = "Ok"))
         /\ (dir = "send" /\ backend = "syscall") => r.moved = r.n
<1> USE AccountingAssumption DEF Outcome
<1>1. CASE r \in SyscallOutcomes
  BY <1>1 DEF SyscallOutcomes
<1>2. CASE r \in LoopOutcomes /\ backend = "loop"
  BY <1>2 DEF LoopOutcomes
<1>3. CASE r = Outcome("Ok", 0, 0, 0)
  BY <1>3
<1>4. CASE r \in OverflowOutcomes /\ dir = "recv"
  BY <1>4 DEF OverflowOutcomes
<1> QED BY <1>1, <1>2, <1>3, <1>4, ZenonT(30) DEF Outcomes

(* Every step keeps TruthInv. *)
LEMMA TruthStep ==
  ASSUME TypeOK, TruthInv, [Next]_vars PROVE TruthInv'
<1>1. ASSUME NEW t \in Tasks, NEW o \in {"try", "async", "either"}, NEW r \in Outcomes,
             Attempt(t, o, r)
      PROVE  TruthInv'
  <2>1. truth' = Happened(r) /\ UNCHANGED <<dir, backend>>
    BY <1>1, ZenonT(30) DEF Attempt, fixed
  <2>3. /\ r.n \in Nat /\ r.moved \in Nat /\ r.made \in Nat
        /\ r.kind \in {"Ok", "WouldBlock", "Error"}
        /\ r.n <= r.moved /\ (r.made >= 1 \/ (r.made = 0 /\ r.kind = "Ok"))
        /\ (dir = "send" /\ backend = "syscall") => r.moved = r.n
    BY OutcomeCounts, ZenonT(30)
  <2>4. /\ truth'.packets = truth.packets + r.n
        /\ truth'.batches = truth.batches + (IF r.kind = "Ok" THEN 1 ELSE 0)
        /\ truth'.errors = truth.errors + (IF r.kind # "Ok" THEN 1 ELSE 0)
        /\ truth'.made = truth.made + r.made /\ truth'.moved = truth.moved + r.moved
        /\ truth'.empty = truth.empty + (IF r.made = 0 THEN 1 ELSE 0)
    BY <2>1, ZenonT(30) DEF Happened
  <2>5. truth' \in Truths
    BY <2>1, <2>3 DEF Happened, TruthInv, Truths
  <2>6. /\ truth.packets \in Nat /\ truth.batches \in Nat /\ truth.errors \in Nat
        /\ truth.made \in Nat /\ truth.moved \in Nat /\ truth.empty \in Nat
    BY ZenonT(30) DEF TruthInv, Truths
  <2>7. /\ truth'.packets <= truth'.moved
        /\ truth'.batches + truth'.errors <= truth'.made + truth'.empty
    BY <2>3, <2>4, <2>6, SMTT(30) DEF TruthInv
  <2>8. (dir = "send" /\ backend = "syscall") => truth'.packets = truth'.moved
    BY <2>3, <2>4, <2>6, ZenonT(30) DEF TruthInv
  <2> QED BY <2>1, <2>5, <2>7, <2>8, ZenonT(30) DEF TruthInv
<1>2. CASE ResetBegins
  <2>1. truth' = NoTruth /\ UNCHANGED <<dir, backend>>
    BY <1>2, ZenonT(30) DEF ResetBegins, fixed
  <2> QED BY <2>1 DEF TruthInv, NoTruth, Truths
<1>3. CASE UNCHANGED <<truth, dir, backend>>
  BY <1>3, ZenonT(30) DEF TruthInv
<1>4. ASSUME NEW t \in Tasks,
             RecordEvent(t) \/ Increment(t) \/ Finish(t) \/ Block(t) \/ Cancel(t)
      PROVE  TruthInv'
  BY <1>3, <1>4, ZenonT(30) DEF RecordEvent, Increment, Finish, Block, Cancel, history, fixed
<1>5. CASE SnapshotBegins \/ Load \/ Store \/ WatchEnds \/ Tick \/ UNCHANGED vars
  BY <1>3, <1>5, ZenonT(30) DEF SnapshotBegins, Load, Store, WatchEnds, Tick, vars, history, fixed
<1> QED BY <1>1, <1>2, <1>4, <1>5, CountingCases, ZenonT(30) DEF WatchStep

-----------------------------------------------------------------------------
(* Nothing is owed for a call that has nothing left to count. *)
LEMMA NothingOwed ==
  ASSUME NEW t \in Tasks, todo[t] = <<>>, NEW c PROVE Owes(t, c) = 0
BY TodoElements, ZenonT(30) DEF Owes

(* What a call that starts to count owes is what has happened. *)
LEMMA AttemptOwes ==
  ASSUME TypeOK, TodoInv, TruthInv, NEW t \in Tasks, NEW o \in {"try", "async", "either"},
         NEW r \in Outcomes, Attempt(t, o, r), NEW c \in Counters
  PROVE  /\ \A u \in Tasks \ {t} : Owes(u, c)' = Owes(u, c)
         /\ Owes(t, c) = 0 /\ Owes(t, c)' \in Nat
         /\ Told(c)' = Told(c) + Owes(t, c)' /\ Told(c) \in Nat
<1>1. /\ todo' = [todo EXCEPT ![t] = Increments(r)] /\ truth' = Happened(r)
      /\ ret' = [ret EXCEPT ![t] = [kind |-> r.kind, n |-> r.n]]
      /\ ~ Counting(t)
  BY ZenonT(30) DEF Attempt, Counting
<1>2. \A u \in Tasks \ {t} : Owes(u, c)' = Owes(u, c)
  BY <1>1, ZenonT(30) DEF Owes, Amount, TypeOK
<1>3. Owes(t, c) = 0
  BY <1>1, NothingOwed, ZenonT(30) DEF TodoInv
<1>4. todo'[t] = Increments(r) /\ ret'[t].n = r.n
  BY <1>1, ZenonT(30) DEF TypeOK
<1>5. Owes(t, c)' = IF c \in Elements(Increments(r))
                    THEN (IF c = "packets" THEN r.n ELSE 1) ELSE 0
  BY <1>4, ZenonT(30) DEF Owes, Amount
<1>6. r.n \in Nat /\ r.kind \in {"Ok", "WouldBlock", "Error"}
  BY OutcomeTyped, ZenonT(30)
<1>7. Elements(Increments(r)) = CASE r.kind = "Ok" -> {"packets", "batches", "syscalls"}
                                  [] r.kind = "WouldBlock" -> {"errors", "would_block"}
                                  [] OTHER -> {"errors"}
  BY ZenonT(30), TodoElements DEF Increments
<1>8. /\ truth'.packets = truth.packets + r.n
      /\ truth'.batches = truth.batches + (IF r.kind = "Ok" THEN 1 ELSE 0)
      /\ truth'.errors = truth.errors + (IF r.kind # "Ok" THEN 1 ELSE 0)
      /\ truth'.would_block = truth.would_block + (IF r.kind = "WouldBlock" THEN 1 ELSE 0)
  BY <1>1, ZenonT(30) DEF Happened
<1>9. /\ truth.packets \in Nat /\ truth.batches \in Nat /\ truth.errors \in Nat
      /\ truth.would_block \in Nat
  BY ZenonT(30) DEF TruthInv, Truths
<1>10. r.kind # "Ok" => r.n = 0
  BY AccountingAssumption DEF Outcomes, SyscallOutcomes, OverflowOutcomes, LoopOutcomes, Outcome
<1>11. Told(c)' = Told(c) + Owes(t, c)' /\ Told(c) \in Nat
  <2>1. CASE c = "packets"
    BY <1>5, <1>6, <1>7, <1>8, <1>9, <1>10, <2>1, ZenonT(30) DEF Told
  <2>2. CASE c = "errors"
    BY <1>5, <1>6, <1>7, <1>8, <1>9, <2>2, ZenonT(30) DEF Told
  <2>3. CASE c = "would_block"
    BY <1>5, <1>6, <1>7, <1>8, <1>9, <2>3, ZenonT(30) DEF Told
  <2>4. CASE c \in {"batches", "syscalls"}
    BY <1>5, <1>6, <1>7, <1>8, <1>9, <2>4, ZenonT(30) DEF Told
  <2> QED BY <2>1, <2>2, <2>3, <2>4, ZenonT(30) DEF Counters
<1> QED BY <1>2, <1>3, <1>5, <1>6, <1>11

(* An increment moves as much from what is owed to its counter. *)
LEMMA IncrementOwes ==
  ASSUME TypeOK, TodoInv, NEW t \in Tasks, Increment(t), NEW c \in Counters
  PROVE  /\ \A u \in Tasks \ {t} : Owes(u, c)' = Owes(u, c)
         /\ counter'[c] - counter[c] = Owes(t, c) - Owes(t, c)'
         /\ Owes(t, c) \in Nat /\ Owes(t, c)' \in Nat
         /\ counter[c] \in Nat /\ counter'[c] \in Nat
<1> DEFINE h == Head(todo[t])
<1>1. /\ todo' = [todo EXCEPT ![t] = Tail(todo[t])] /\ ret' = ret /\ todo[t] # <<>>
      /\ counter' = [counter EXCEPT ![h] = counter[h] + Amount(t, h)]
  BY ZenonT(30) DEF Increment
<1>2. \A u \in Tasks \ {t} : Owes(u, c)' = Owes(u, c)
  BY <1>1, ZenonT(30) DEF Owes, Amount, TypeOK
<1>3. h \in Counters /\ counter \in [Counters -> Nat] /\ todo \in [Tasks -> Seq(Counters)]
  BY ZenonT(30), <1>1, Unstack DEF TypeOK
<1>4. h \in Elements(todo[t])
  <2>1. todo[t] \in Seq(Counters) /\ Len(todo[t]) \in Nat \ {0} /\ h = todo[t][1]
    BY <1>1, <1>3
  <2> QED BY <2>1 DEF Elements
<1>5. todo'[t] = Tail(todo[t]) /\ Elements(Tail(todo[t])) = Elements(todo[t]) \ {h}
  BY <1>1, <1>3, TodoTail, ZenonT(30) DEF TodoInv
<1>6. Amount(t, c) \in Nat /\ Amount(t, c)' = Amount(t, c)
  BY <1>1, ZenonT(30) DEF Amount, TypeOK
<1> HIDE DEF h
<1>7. CASE c = h
  <2>1. Owes(t, c) = Amount(t, c) /\ Owes(t, c)' = 0
    BY <1>4, <1>5, <1>7, ZenonT(30) DEF Owes
  <2>2. counter'[c] = counter[c] + Amount(t, c)
    BY <1>1, <1>3, <1>7, ZenonT(30)
  <2> QED BY <1>2, <1>3, <1>6, <2>1, <2>2
<1>8. CASE c # h
  <2>1. Owes(t, c)' = Owes(t, c) /\ Owes(t, c) \in Nat
    BY <1>5, <1>6, <1>8, ZenonT(30) DEF Owes
  <2>2. counter'[c] = counter[c]
    BY <1>1, <1>3, <1>8, ZenonT(30)
  <2> QED BY <1>2, <1>3, <2>1, <2>2
<1> QED BY <1>7, <1>8, ZenonT(30)

(* Every step keeps the books: what happened is counted or owed. *)
LEMMA CountStep ==
  ASSUME EmptyLaw, UnitsLaw, TypeOK, TypeOK', TodoInv, TodoInv', TruthInv, CountInv,
         [Next]_vars
  PROVE  CountInv'
<1>1. ASSUME NEW t \in Tasks, NEW o \in {"try", "async", "either"}, NEW r \in Outcomes,
             Attempt(t, o, r)
      PROVE  CountInv'
  <2> SUFFICES ASSUME clean' PROVE watch' # "reset" /\
        \A c \in Counters : IsFiniteSet(Owed(c)') /\ Told(c)' = counter'[c] + Cardinality(Owed(c)')
    BY ZenonT(30) DEF CountInv
  <2>1. clean /\ watch # "reset" /\ UNCHANGED <<counter, watch>>
    BY ZenonT(30), <1>1 DEF Attempt, watcher
  <2>2. ASSUME NEW c \in Counters
        PROVE  IsFiniteSet(Owed(c)') /\ Told(c)' = counter'[c] + Cardinality(Owed(c)')
    <3>1. IsFiniteSet(Owed(c)) /\ Told(c) = counter[c] + Cardinality(Owed(c)) /\ counter[c] \in Nat
      BY <2>1, ZenonT(30) DEF CountInv, TypeOK
    <3>2. /\ \A u \in Tasks \ {t} : Owes(u, c)' = Owes(u, c)
          /\ Owes(t, c) = 0 /\ Owes(t, c)' \in Nat
          /\ Told(c)' = Told(c) + Owes(t, c)' /\ Told(c) \in Nat
      BY <1>1, AttemptOwes, ZenonT(30)
    <3>3. /\ IsFiniteSet(Owed(c)') /\ Cardinality(Owed(c)) \in Nat
          /\ Cardinality(Owed(c)') = Cardinality(Owed(c)) - Owes(t, c) + Owes(t, c)'
      BY <3>1, <3>2, OwedChange, ZenonT(30)
    <3> QED BY <2>1, <3>1, <3>2, <3>3
  <2> QED BY <2>1, <2>2, ZenonT(30)
<1>2. ASSUME NEW t \in Tasks, Increment(t) PROVE CountInv'
  <2> SUFFICES ASSUME clean' PROVE watch' # "reset" /\
        \A c \in Counters : IsFiniteSet(Owed(c)') /\ Told(c)' = counter'[c] + Cardinality(Owed(c)')
    BY ZenonT(30) DEF CountInv
  <2>1. clean /\ UNCHANGED <<watch, truth>> /\ Counting(t)
    BY <1>2, ZenonT(30) DEF Increment, watcher, history, Counting
  <2>2. watch # "reset"
    BY <2>1, ZenonT(30) DEF CountInv
  <2>3. ASSUME NEW c \in Counters
        PROVE  IsFiniteSet(Owed(c)') /\ Told(c)' = counter'[c] + Cardinality(Owed(c)')
    <3>1. IsFiniteSet(Owed(c)) /\ Told(c) = counter[c] + Cardinality(Owed(c)) /\ Told(c)' = Told(c)
      BY <2>1, <2>2, ZenonT(30) DEF CountInv, Told
    <3>2. /\ \A u \in Tasks \ {t} : Owes(u, c)' = Owes(u, c)
          /\ counter'[c] - counter[c] = Owes(t, c) - Owes(t, c)'
          /\ Owes(t, c) \in Nat /\ Owes(t, c)' \in Nat
          /\ counter[c] \in Nat /\ counter'[c] \in Nat
      BY <1>2, IncrementOwes, ZenonT(30)
    <3>3. /\ IsFiniteSet(Owed(c)') /\ Cardinality(Owed(c)) \in Nat
          /\ Cardinality(Owed(c)') = Cardinality(Owed(c)) - Owes(t, c) + Owes(t, c)'
      BY <3>1, <3>2, OwedChange, ZenonT(30)
    <3> QED BY <3>1, <3>2, <3>3
  <2> QED BY <2>1, <2>2, <2>3, ZenonT(30)
<1>3. ASSUME UNCHANGED <<counter, truth, clean, watch, left>>,
             \A u \in Tasks, c \in Counters : Owes(u, c)' = Owes(u, c),
             (clean /\ watch = "reset") => \A u \in Tasks : Counting(u)' = Counting(u)
      PROVE  CountInv'
  <2>1. \A c \in Counters : Owed(c)' = Owed(c) /\ Told(c)' = Told(c)
    BY <1>3, ZenonT(30) DEF Owed, Units, Told
  <2> QED BY <1>3, <2>1, ZenonT(30) DEF CountInv
<1>4. ASSUME NEW t \in Tasks, RecordEvent(t) \/ Finish(t) \/ Block(t) \/ Cancel(t)
      PROVE  CountInv'
  <2>1. UNCHANGED <<counter, truth, clean, watch, left>>
    BY <1>4, ZenonT(30) DEF RecordEvent, Finish, Block, Cancel, watcher, history
  <2>2. todo' = todo /\ (ret' = ret \/ (todo[t] = <<>> /\ \A u \in Tasks \ {t} : ret'[u] = ret[u]))
    BY SMTT(90), <1>4 DEF RecordEvent, Finish, Block, Cancel, TypeOK
  <2>3. ASSUME NEW u \in Tasks, NEW c \in Counters PROVE Owes(u, c)' = Owes(u, c)
    <3>1. CASE ret'[u] = ret[u]
      BY <2>2, <3>1, ZenonT(30) DEF Owes, Amount
    <3>2. CASE todo[u] = <<>>
      BY <2>2, <3>2, TodoElements, ZenonT(30) DEF Owes
    <3> QED BY <2>2, <3>1, <3>2, ZenonT(30)
  <2>4. (clean /\ watch = "reset") => \A u \in Tasks : Counting(u)' = Counting(u)
    <3> SUFFICES ASSUME clean, watch = "reset" PROVE \A u \in Tasks : ~ Counting(u)'
      BY SMTT(30) DEF CountInv, Counting
    <3>1. \A u \in Tasks : ~ Counting(u)
      BY ZenonT(30) DEF CountInv
    <3>2. Cancel(t)
      BY <1>4, <3>1, ZenonT(30) DEF RecordEvent, Finish, Block, Counting
    <3> QED BY <3>1, <3>2, ZenonT(30) DEF Cancel, Counting, TypeOK
  <2> QED BY <1>3, <2>1, <2>3, <2>4, ZenonT(30)
<1>5. CASE Tick \/ UNCHANGED vars
  <2>1. UNCHANGED <<counter, truth, clean, watch, left, todo, ret, pc>>
    BY <1>5, ZenonT(30) DEF Tick, vars, tasks, watcher, history
  <2> QED BY <1>3, <2>1, ZenonT(30) DEF Owes, Amount, Counting
<1>6. CASE SnapshotBegins \/ Load \/ (WatchEnds /\ watch # "reset")
  <2>1. /\ UNCHANGED <<counter, truth, clean, todo, ret>>
        /\ watch # "reset" /\ watch' # "reset"
    BY <1>6, ZenonT(30) DEF SnapshotBegins, Load, WatchEnds, tasks, history
  <2>2. \A c \in Counters : Owed(c)' = Owed(c) /\ Told(c)' = Told(c)
    BY <2>1, ZenonT(30) DEF Owed, Units, Owes, Amount, Told
  <2> QED BY ZenonT(30), <2>1, <2>2 DEF CountInv
<1>7. CASE ResetBegins
  <2>1. /\ watch' = "reset" /\ left' = StoreOrder /\ truth' = NoTruth /\ pc' = pc
        /\ clean' = (\A t \in Tasks : ~ Counting(t))
    BY <1>7, ZenonT(30) DEF ResetBegins, tasks
  <2>2. \A t \in Tasks : Counting(t)' = Counting(t)
    BY <2>1, ZenonT(30) DEF Counting
  <2> QED BY ZenonT(30), <2>1, <2>2, OrdersTyped DEF CountInv
<1>8. CASE Store
  <2>1. /\ watch = "reset" /\ left # <<>> /\ left \in Seq(Counters)
        /\ counter' = [counter EXCEPT ![Head(left)] = 0] /\ counter \in [Counters -> Nat]
        /\ left' = Tail(left) /\ UNCHANGED <<watch, truth, clean, pc>>
    BY <1>8, ZenonT(30) DEF Store, TypeOK, history, tasks
  <2>2. /\ Head(left) = left[1] /\ Len(left) \in Nat /\ Len(left') = Len(left) - 1
        /\ \A k \in 1 .. Len(left') : left'[k] = left[k + 1]
    BY <2>1
  <2>3. ASSUME clean, NEW c \in Counters, counter'[c] # 0
        PROVE  \E k \in 1 .. Len(left') : left'[k] = c
    <3>1. c # Head(left) /\ counter'[c] = counter[c]
      BY <2>1, <2>3, ZenonT(30)
    <3>2. PICK k \in 1 .. Len(left) : left[k] = c
      BY <2>1, <2>3, <3>1, ZenonT(30) DEF CountInv
    <3>3. k # 1 /\ k - 1 \in 1 .. Len(left')
      BY <2>2, <3>1, <3>2
    <3>4. left'[k - 1] = c
      BY <2>2, <3>2, <3>3
    <3> QED BY <3>3, <3>4, ZenonT(30)
  <2> QED BY <2>1, <2>3, ZenonT(30) DEF CountInv, Counting
<1>9. CASE WatchEnds /\ watch = "reset"
  <2>1. left = <<>> /\ watch' # "reset" /\ UNCHANGED <<counter, truth, clean, todo, ret>>
    BY <1>9, ZenonT(30) DEF WatchEnds, tasks, history
  <2> SUFFICES ASSUME clean, NEW c \in Counters
               PROVE  IsFiniteSet(Owed(c)') /\ Told(c)' = counter'[c] + Cardinality(Owed(c)')
    BY <2>1, ZenonT(30) DEF CountInv
  <2>2. counter'[c] = 0
    BY <1>9, <2>1 DEF CountInv
  <2>3. Told(c)' = 0
    BY SMTT(30), <1>9, <2>1 DEF CountInv, Told, NoTruth, Counters
  <2>4. \A t \in Tasks : Owes(t, c)' = 0
    BY <1>9, <2>1, TodoElements, ZenonT(30) DEF CountInv, TodoInv, Owes
  <2>5. Owed(c)' = {}
    BY SMTT(30), <2>4 DEF Owed, Units
  <2> QED BY <2>2, <2>3, <2>5 DEF EmptyLaw
<1> QED BY <1>1, <1>2, <1>4, <1>5, <1>6, <1>7, <1>8, <1>9, CountingCases, ZenonT(30) DEF WatchStep

-----------------------------------------------------------------------------
(***************************************************************************)
(* The laws of cardinality, and the theorems.                              *)
(***************************************************************************)
INSTANCE FiniteSetTheorems

(* The empty set has no elements. *)
LEMMA EmptyLawHolds == EmptyLaw
BY FS_EmptySet, ZenonT(30) DEF EmptyLaw

(* Units of one task beside units of others. *)
LEMMA UnitsAdd ==
  ASSUME NEW R, IsFiniteSet(R), NEW t, NEW n \in Nat, \A x \in R : x[1] # t
  PROVE  /\ IsFiniteSet(R \cup ({t} \X (1 .. n)))
         /\ Cardinality(R \cup ({t} \X (1 .. n))) = Cardinality(R) + n
<1> DEFINE M == {t} \X (1 .. n)
<1>1. IsFiniteSet(1 .. n) /\ Cardinality(1 .. n) = n
  BY FS_Interval
<1>2. IsFiniteSet({t}) /\ Cardinality({t}) = 1
  BY ZenonT(30), FS_Singleton
<1>3. IsFiniteSet(M) /\ Cardinality(M) = 1 * n
  BY <1>1, <1>2, FS_Product, SMTT(30)
<1>4. R \cap M = {}
  BY ZenonT(30)
<1> HIDE DEF M
<1>5. /\ IsFiniteSet(R \cup M)
      /\ Cardinality(R \cup M) = Cardinality(R) + Cardinality(M) - Cardinality(R \cap M)
  BY <1>3, FS_Union, ZenonT(30)
<1>6. Cardinality(R) \in Nat /\ Cardinality(R \cap M) = 0
  BY <1>4, FS_CardinalityType, FS_EmptySet, ZenonT(30)
<1> QED BY <1>3, <1>5, <1>6, SMTT(30) DEF M

(* When one task comes to owe something else, the sum changes by as much.  *)
LEMMA UnitsChange ==
  ASSUME NEW f \in [Tasks -> Nat], NEW g \in [Tasks -> Nat], NEW t \in Tasks,
         \A u \in Tasks \ {t} : f[u] = g[u], IsFiniteSet(Units(f))
  PROVE  /\ IsFiniteSet(Units(g)) /\ Cardinality(Units(f)) \in Nat
         /\ Cardinality(Units(f)) >= f[t]
         /\ Cardinality(Units(g)) = Cardinality(Units(f)) - f[t] + g[t]
<1> DEFINE R == {x \in Units(f) : x[1] # t}
<1>1. f[t] \in Nat /\ g[t] \in Nat
  BY ZenonT(30)
<1>2. R \subseteq Units(f) /\ \A x \in R : x[1] # t
  BY ZenonT(30)
<1>3. IsFiniteSet(R)
  BY <1>2, FS_Subset, ZenonT(30)
<1>4. Units(f) = R \cup ({t} \X (1 .. f[t]))
  BY <1>1, SMTT(30) DEF Units
<1>5. Units(g) = R \cup ({t} \X (1 .. g[t]))
  BY <1>1 DEF Units
<1> HIDE DEF R
<1>6. Cardinality(R \cup ({t} \X (1 .. f[t]))) = Cardinality(R) + f[t]
  BY ZenonT(90), <1>1, <1>2, <1>3, UnitsAdd
<1>7. /\ IsFiniteSet(R \cup ({t} \X (1 .. g[t])))
      /\ Cardinality(R \cup ({t} \X (1 .. g[t]))) = Cardinality(R) + g[t]
  BY ZenonT(90), <1>1, <1>2, <1>3, UnitsAdd
<1>8. Cardinality(R) \in Nat
  BY <1>3, FS_CardinalityType, ZenonT(30)
<1> QED BY SMTT(30), <1>1, <1>4, <1>5, <1>6, <1>7, <1>8

(* So the law holds of any number of tasks, and of infinitely many. *)
LEMMA UnitsLawHolds == UnitsLaw
<1> SUFFICES ASSUME NEW f \in [Tasks -> Nat], NEW g \in [Tasks -> Nat], NEW t \in Tasks,
                    IsFiniteSet(Units(f)), \A u \in Tasks \ {t} : f[u] = g[u]
             PROVE  /\ IsFiniteSet(Units(g))
                    /\ Cardinality(Units(f)) \in Nat /\ Cardinality(Units(g)) \in Nat
                    /\ Cardinality(Units(f)) >= f[t]
                    /\ Cardinality(Units(g)) = Cardinality(Units(f)) - f[t] + g[t]
  BY ZenonT(30) DEF UnitsLaw
<1>1. /\ IsFiniteSet(Units(g)) /\ Cardinality(Units(f)) \in Nat
      /\ Cardinality(Units(f)) >= f[t]
      /\ Cardinality(Units(g)) = Cardinality(Units(f)) - f[t] + g[t]
  BY UnitsChange, ZenonT(30)
<1>2. Cardinality(Units(g)) \in Nat
  BY <1>1, FS_CardinalityType, ZenonT(30)
<1> QED BY <1>1, <1>2, ZenonT(30)

(* And sets of tasks are counted when the tasks can be. *)
LEMMA TasksLawHolds ==
  ASSUME IsFiniteSet(Tasks) PROVE TasksLaw
<1>1. ASSUME NEW S \in SUBSET Tasks
      PROVE  IsFiniteSet(S) /\ Cardinality(S) \in Nat
  BY FS_Subset, FS_CardinalityType, ZenonT(30)
<1>2. ASSUME NEW S \in SUBSET Tasks, NEW t \in Tasks \ S
      PROVE  /\ Cardinality(S \cup {t}) = Cardinality(S) + 1
             /\ Cardinality(S) < Cardinality(Tasks)
  <2>1. Cardinality(S \cup {t}) = Cardinality(S) + 1
    BY <1>1, FS_AddElement, ZenonT(30)
  <2>2. Cardinality(S \cup {t}) <= Cardinality(Tasks)
    BY FS_Subset, ZenonT(30)
  <2> QED BY SMTT(30), <1>1, <2>1, <2>2, FS_CardinalityType
<1> QED BY <1>1, <1>2, FS_CardinalityType, ZenonT(30) DEF TasksLaw

(* All that is known of the counters, the calls and the watcher. *)
AccountInv == TypeOK /\ TodoInv /\ TruthInv /\ CountInv

(* The books are kept in every run of Accounting. *)
THEOREM AccountInvariant == Spec => []AccountInv
<1>1. Init => AccountInv
  <2> SUFFICES ASSUME Init PROVE TodoInv /\ TruthInv /\ CountInv
    BY AccountingTypeInit, ZenonT(30) DEF AccountInv
  <2>1. TodoInv
    BY ZenonT(30) DEF Init, TodoInv, Todos
  <2>2. TruthInv
    BY DEF Init, TruthInv, NoTruth, Truths
  <2>3. ASSUME NEW c \in Counters PROVE Owed(c) = {} /\ Told(c) = 0 /\ counter[c] = 0
    <3>1. \A t \in Tasks : Owes(t, c) = 0
      BY NothingOwed, ZenonT(30) DEF Init
    <3>2. Owed(c) = {}
      BY <3>1 DEF Owed, Units
    <3>3. Told(c) = 0 /\ counter[c] = 0
      BY ZenonT(30) DEF Init, Told, NoTruth, Zero
    <3> QED BY <3>2, <3>3, ZenonT(30)
  <2>4. CountInv
    <3>1. watch = "none"
      BY ZenonT(30) DEF Init
    <3>2. ASSUME NEW c \in Counters
          PROVE  IsFiniteSet(Owed(c)) /\ Told(c) = counter[c] + Cardinality(Owed(c))
      BY <2>3, EmptyLawHolds, SMTT(30) DEF EmptyLaw
    <3> QED BY <3>1, <3>2, ZenonT(30) DEF CountInv
  <2> QED BY <2>1, <2>2, <2>4, ZenonT(30)
<1>2. AccountInv /\ [Next]_vars => AccountInv'
  BY AccountingTypeStep, TodoStep, TruthStep, CountStep, EmptyLawHolds, UnitsLawHolds, ZenonT(30)
     DEF AccountInv
<1> QED BY <1>1, <1>2, PTL DEF Spec

(* Between calls nothing is owed, so every counter is what happened. *)
LEMMA QuietCounts ==
  ASSUME AccountInv, Quiet, clean, NEW c \in Counters
  PROVE  counter[c] = Told(c)
<1>1. \A t \in Tasks : Owes(t, c) = 0
  BY NothingOwed, ZenonT(30) DEF AccountInv, TodoInv, Quiet
<1>2. Owed(c) = {}
  BY SMTT(30), <1>1 DEF Owed, Units
<1>3. Told(c) = counter[c] + Cardinality(Owed(c)) /\ counter[c] \in Nat
  BY ZenonT(30) DEF AccountInv, CountInv, Quiet, TypeOK
<1> QED BY SMTT(30), <1>2, <1>3, EmptyLawHolds DEF EmptyLaw

(* The relaxed atomics lose nothing and count nothing twice, for any       *)
(* number of tasks: whenever no call is counting, packets, batches, errors *)
(* and WouldBlocks are what the platform calls returned, unless a reset()  *)
(* overlapped a call that was counting.                                    *)
THEOREM CountersAlwaysAddUp == Spec => []CountersAddUp
<1>1. AccountInv => CountersAddUp
  BY QuietCounts, ZenonT(30) DEF CountersAddUp, Told, Counters
<1> QED BY <1>1, AccountInvariant, PTL

(* And what they say of the kernel is never more than it did, however      *)
(* often a syscall is interrupted and however many datagrams find no slot; *)
(* packets_sent is exact with a batch syscall.                             *)
THEOREM CountersAlwaysMeetKernel == Spec => []CountersMeetKernel
<1>1. ASSUME AccountInv PROVE CountersMeetKernel
  <2> SUFFICES ASSUME Quiet, clean
               PROVE  /\ counter.packets <= truth.moved
                      /\ counter.syscalls + counter.errors <= truth.made + truth.empty
                      /\ (dir = "send" /\ backend = "syscall") => counter.packets = truth.moved
    BY ZenonT(30) DEF CountersMeetKernel
  <2>1. /\ counter.packets = truth.packets /\ counter.syscalls = truth.batches
        /\ counter.errors = truth.errors
    BY <1>1, QuietCounts, ZenonT(30) DEF Told, Counters
  <2>2. /\ truth.packets \in Nat /\ truth.batches \in Nat /\ truth.errors \in Nat
        /\ truth.made \in Nat /\ truth.moved \in Nat /\ truth.empty \in Nat
    BY <1>1, ZenonT(30) DEF AccountInv, TruthInv, Truths
  <2> QED BY SMTT(30), <1>1, <2>1, <2>2 DEF AccountInv, TruthInv
<1> QED BY <1>1, AccountInvariant, PTL

(* The wrappers drive the controller as AdaptiveBatching says, whatever the *)
(* number of tasks, so what is proved there of the batch size holds of      *)
(* BingerUdp.                                                               *)
THEOREM DrivesAsPromised ==
  ASSUME IsFiniteSet(Tasks) PROVE Spec => DrivesController
<1>1. Init => DriveInv /\ Controller!BatchingInit
  <2> SUFFICES ASSUME Init PROVE DriveInv /\ Controller!BatchingInit
    BY ZenonT(30)
  <2>1. Waiters = {}
    BY ZenonT(30) DEF Init, Waiters
  <2>2. Controller!BatchingInit
    BY ZenonT(30), <2>1, EmptyLawHolds, SameController
       DEF EmptyLaw, Init, Controller!BatchingInit, Waiters
  <2>3. Dues = {}
    BY DEF Init, Dues, Units, Due
  <2>4. IsFiniteSet(Dues) /\ Cardinality(Dues) = 0
    BY <2>3, EmptyLawHolds, ZenonT(30) DEF EmptyLaw
  <2>5. state.total_send_count = 0 /\ calls = 0
    BY DEF Init, new
  <2>6. 0 + 0 <= 2 * 0 /\ 0 <= MaxAttempts
    BY AccountingAssumption
  <2>7. \A t \in Tasks : Fits(t)
    BY ZenonT(30) DEF Init, NoResult, Fits
  <2> QED BY <2>2, <2>4, <2>5, <2>6, <2>7, ZenonT(30) DEF DriveInv, Visits
<1> QED BY <1>1, AccountingTypeInit, AccountingTypeStep, DriveStep, DrivesStep,
        UnitsLawHolds, TasksLawHolds, PTL
        DEF Spec, DrivesController, Controller!BatchingSpec
=============================================================================
