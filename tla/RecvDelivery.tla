----------------------------- MODULE RecvDelivery -----------------------------
(***************************************************************************)
(* What a receive call hands over, for RecvPath: the datagrams it took, in *)
(* the order of their arrival, one per slot and with their own address.    *)
(***************************************************************************)
EXTENDS RecvProofs

(* A slot's buffer holds the largest message GRO delivers, and GRO is off  *)
(* where the backend is a recvfrom loop.                                   *)
Fits == \A b \in Builds : b.maxGro <= BufSize /\ (~ b.batchSyscall => b.maxGro = 1)

(* A message that is received fits its buffer and is there in full. *)
LEMMA Fitting ==
  ASSUME Fits, Types, NEW m \in Messages
  PROVE  /\ m.first \in Nat \ {0} /\ m.n \in 1 .. BufSize /\ (~ BatchSyscall => m.n = 1)
         /\ Segments(m) \in Seq(Nat) /\ Len(Segments(m)) = m.n
         /\ \A buf : \A j \in 1 .. m.n : Write(buf, Segments(m))[j] = m.first + (j - 1)
<1>1. /\ m.first \in Nat \ {0} /\ m.n \in 1 .. BufSize /\ (~ BatchSyscall => m.n = 1)
      /\ BufSize \in Nat \ {0}
  BY RecvAssumption DEF Fits, Types, Messages, MaxGro, BatchSyscall
<1>2. Segments(m) = [p \in 1 .. m.n |-> m.first + (p - 1)]
  BY <1>1 DEF Segments
<1>3. Segments(m) \in [1 .. m.n -> Nat]
  BY <1>1, <1>2
<1>4. Segments(m) \in Seq(Nat) /\ Len(Segments(m)) = m.n
  BY <1>1, <1>3, FunctionIsSeq, SMTT(30)
<1>5. \A buf : \A j \in 1 .. m.n : Write(buf, Segments(m))[j] = m.first + (j - 1)
  BY <1>1, <1>2, <1>4, SMTT(30) DEF Write
<1> QED BY <1>1, <1>4, <1>5, ZenonT(30)

-----------------------------------------------------------------------------
(* Messages are queued, and taken by each task, in the order of arrival.   *)
Order ==
  /\ Sorted(queue) /\ Below(queue, arrived + 1)
  /\ \A t \in Tasks : /\ Sorted(taken[t]) /\ Below(taken[t], arrived + 1)
                      /\ \A k \in 1 .. Len(queue) : Below(taken[t], queue[k].first)

(* What is below a bound is below any larger one. *)
LEMMA BelowMore ==
  ASSUME TypeOK, NEW q \in Seq(Messages), NEW x \in Nat, NEW y \in Nat, x <= y, Below(q, x)
  PROVE  Below(q, y)
<1>1. \A j \in 1 .. Len(q) : q[j] \in Messages
  OBVIOUS
<1>2. \A m \in Messages : m.first + m.n \in Nat
  BY MessagesTyped
<1> QED BY <1>1, <1>2, SMTT(30) DEF Below

(* A message numbered above the others keeps them sorted. *)
LEMMA Appended ==
  ASSUME NEW q \in Seq(Messages), NEW m \in Messages, NEW b \in Nat,
         Sorted(q), Below(q, m.first), m.first + m.n <= b, TypeOK
  PROVE  Sorted(Append(q, m)) /\ Below(Append(q, m), b)
<1>1. /\ Len(q) \in Nat /\ Len(Append(q, m)) = Len(q) + 1 /\ Append(q, m)[Len(q) + 1] = m
      /\ \A k \in 1 .. Len(q) : Append(q, m)[k] = q[k] /\ q[k] \in Messages
  BY AppendActs, ZenonT(30)
<1>2. \A x \in Messages : x.first \in Nat /\ x.n \in Nat /\ m.first \in Nat /\ m.n \in Nat
  BY MessagesTyped, ZenonT(30)
<1> HIDE DEF Messages
<1>3. Sorted(Append(q, m))
  <2>1. ASSUME NEW k \in 1 .. Len(q) + 1, NEW j \in 1 .. k - 1
        PROVE  Append(q, m)[j].first + Append(q, m)[j].n <= Append(q, m)[k].first
    <3>1. CASE k \in 1 .. Len(q)
      BY <1>1, <3>1, SMTT(30) DEF Sorted
    <3>2. CASE k = Len(q) + 1
      BY <1>1, <3>2, SMTT(30) DEF Below
    <3> QED BY <1>1, <3>1, <3>2, SMTT(30)
  <2> QED BY <1>1, <2>1, ZenonT(30) DEF Sorted
<1>4. Below(Append(q, m), b)
  BY <1>1, <1>2, SMTT(90) DEF Below
<1> QED BY <1>3, <1>4, ZenonT(30)

(* Nothing has arrived yet. *)
LEMMA OrderInit == Init => Order
BY Empty DEF Init, Order

(* Only a receive and an arrival change the queue; apart from them a call  *)
(* at most forgets what the one before it took.                            *)
LEMMA QueueKept ==
  ASSUME Types, NEW t \in Tasks, TaskStep(t), ~ SyscallTakes(t), ~ LoopTakes(t)
  PROVE  /\ queue' = queue /\ arrived' = arrived
         /\ \A u \in Tasks : taken'[u] = taken[u] \/ taken'[u] = << >>
<1>5. CASE ProcessMessage(t)
  <2>1. UNCHANGED <<kernel, clean, pc, op, len, msgs, ret, taken>>
    BY <1>5, ZenonT(30) DEF ProcessMessage
  <2> QED BY <2>1, ZenonT(30) DEF kernel
<1> USE DEF kernel
<1>1. CASE NoSlots(t) \/ SyscallEnds(t) \/ SyscallBlocks(t) \/ SyscallFails(t) \/ ProcessPanics(t)
  BY <1>1, ZenonT(30) DEF NoSlots, SyscallEnds, SyscallBlocks, SyscallFails, ProcessPanics
<1>4. CASE ProcessEnds(t) \/ LoopEnds(t) \/ LoopFails(t) \/ Finish(t) \/ Block(t) \/ Resume(t)
  BY <1>4, ZenonT(30) DEF ProcessEnds, LoopEnds, LoopFails, Finish, Block, Resume
<1>2. CASE Clear(t) \/ (\E kind \in {"Error", "Cancelled"} : WaitEnds(t, kind))
  BY <1>2, CallsTyped, ZenonT(30) DEF Clear, WaitEnds
<1>3. ASSUME NEW o \in Ops, NEW reuse \in BOOLEAN, Call(t, o, reuse)
      PROVE  /\ queue' = queue /\ arrived' = arrived /\ taken' = [taken EXCEPT ![t] = << >>]
  BY <1>3, ZenonT(30) DEF Call
<1> QED BY <1>1, <1>2, <1>3, <1>4, <1>5, CallsTyped, ZenonT(30) DEF TaskStep, Progress

(* Either way of taking a message moves it from the head of the queue to   *)
(* the end of what the call has.                                           *)
LEMMA TakeActs ==
  ASSUME RecvInv, NEW t \in Tasks, SyscallTakes(t) \/ LoopTakes(t)
  PROVE  /\ queue \in Seq(Messages) /\ Len(queue) \in Nat /\ Len(queue) > 0
         /\ queue' = Tail(queue) /\ arrived' = arrived /\ Head(queue) = queue[1]
         /\ Len(queue') = Len(queue) - 1 /\ \A k \in 1 .. Len(queue) - 1 : queue'[k] = queue[k + 1]
         /\ taken' = [taken EXCEPT ![t] = Append(taken[t], queue[1])]
<1>1. /\ queue \in Seq(Messages) /\ queue # << >>
      /\ queue' = Tail(queue) /\ arrived' = arrived
      /\ taken' = [taken EXCEPT ![t] = Append(taken[t], Head(queue))]
  BY ZenonT(30) DEF RecvInv, Types, SyscallTakes, LoopTakes
<1>2. Len(queue) \in Nat /\ Len(queue) > 0 /\ Head(queue) = queue[1]
  BY <1>1
<1>3. Len(queue') = Len(queue) - 1 /\ \A k \in 1 .. Len(queue) - 1 : queue'[k] = queue[k + 1]
  BY <1>1, <1>2
<1> QED BY <1>1, <1>2, <1>3, ZenonT(30)

(* Arrivals and takes keep the order, whichever task takes. *)
LEMMA OrderStep ==
  ASSUME RecvInv, Order, [Next]_vars
  PROVE  Order'
<1>0. /\ Types /\ TypeOK /\ arrived \in Nat /\ DOMAIN taken = Tasks
      /\ queue \in Seq(Messages) /\ Len(queue) \in Nat /\ \A t \in Tasks : taken[t] \in Seq(Messages)
  BY TypesOK DEF RecvInv, Types
<1>1. ASSUME queue' = queue, arrived' = arrived,
             \A u \in Tasks : taken'[u] = taken[u] \/ taken'[u] = << >>
      PROVE  Order'
  BY <1>1, Empty, ZenonT(30) DEF Order
<1>2. ASSUME NEW t \in Tasks, SyscallTakes(t) \/ LoopTakes(t) PROVE Order'
  <2> DEFINE m == queue[1]
  <2>1. /\ Len(queue) > 0 /\ arrived' = arrived /\ Len(queue') = Len(queue) - 1
        /\ \A k \in 1 .. Len(queue) - 1 : queue'[k] = queue[k + 1]
        /\ taken'[t] = Append(taken[t], m) /\ \A u \in Tasks \ {t} : taken'[u] = taken[u]
    BY <1>0, <1>2, TakeActs, SMTT(30)
  <2>2. m \in Messages /\ Below(taken[t], m.first) /\ Sorted(taken[t]) /\ m.first + m.n <= arrived + 1
        /\ \A k \in 1 .. Len(queue) - 1 :
             k + 1 \in 1 .. Len(queue) /\ m.first + m.n <= queue[k + 1].first /\ queue[k + 1].first \in Nat
    <3>1. 1 \in 1 .. Len(queue)
      BY <1>0, <2>1, SMTT(30)
    <3>2. \A k \in 1 .. Len(queue) - 1 : k + 1 \in 1 .. Len(queue) /\ 1 \in 1 .. (k + 1) - 1
      BY <1>0, SMTT(30)
    <3>3. \A k \in 1 .. Len(queue) : queue[k] \in Messages /\ queue[k].first \in Nat
      BY <1>0, MessagesTyped, SMTT(30)
    <3> QED BY <3>1, <3>2, <3>3, ZenonT(30) DEF Order, Sorted, Below
  <2> HIDE DEF m
  <2>3. Sorted(taken'[t]) /\ Below(taken'[t], arrived + 1)
    BY <1>0, <2>1, <2>2, Appended, SMTT(30)
  <2>4. \A k \in 1 .. Len(queue) - 1 : Below(taken'[t], queue[k + 1].first)
    BY <1>0, <2>1, <2>2, Appended, SMTT(30)
  <2>5. Sorted(queue') /\ Below(queue', arrived + 1)
    <3>1. ASSUME NEW k \in 1 .. Len(queue')
          PROVE  /\ k \in 1 .. Len(queue) - 1 /\ k + 1 \in 1 .. Len(queue)
                 /\ \A j \in 1 .. k - 1 : j \in 1 .. Len(queue) - 1 /\ j + 1 \in 1 .. (k + 1) - 1
      BY <1>0, <2>1
    <3>2. Sorted(queue')
      BY <2>1, <3>1, ZenonT(30) DEF Order, Sorted
    <3> QED BY <2>1, <3>1, <3>2, ZenonT(30) DEF Order, Below
  <2>6. ASSUME NEW u \in Tasks
        PROVE  /\ Sorted(taken'[u]) /\ Below(taken'[u], arrived + 1)
               /\ \A k \in 1 .. Len(queue') : Below(taken'[u], queue'[k].first)
    BY <2>1, <2>2, <2>3, <2>4, ZenonT(30) DEF Order
  <2> QED BY <2>1, <2>5, <2>6, ZenonT(30) DEF Order
<1>3. ASSUME NEW n \in 1 .. MaxGro, Arrive(n) PROVE Order'
  <2> DEFINE m == [first |-> arrived + 1, n |-> n]
  <2>1. queue' = Append(queue, m) /\ arrived' = arrived + n /\ taken' = taken
    BY <1>3, ZenonT(30) DEF Arrive
  <2>2. m \in Messages /\ m.first = arrived + 1 /\ m.n = n /\ n \in Nat
    BY <1>0, RecvAssumption, SMTT(30) DEF Messages, MaxGro, Types
  <2> HIDE DEF m
  <2>3. Sorted(queue') /\ Below(queue', arrived' + 1)
    BY <1>0, <2>1, <2>2, Appended, SMTT(30) DEF Order
  <2>4. ASSUME NEW u \in Tasks
        PROVE  /\ Sorted(taken'[u]) /\ Below(taken'[u], arrived' + 1)
               /\ \A k \in 1 .. Len(queue') : Below(taken'[u], queue'[k].first)
    BY <1>0, <2>1, <2>2, BelowMore, SMTT(30) DEF Order
  <2> QED BY <2>3, <2>4, ZenonT(30) DEF Order
<1>4. CASE DriverPolls \/ SetMeta \/ UNCHANGED vars
  BY <1>1, <1>4, ZenonT(30) DEF DriverPolls, SetMeta, vars
<1>5. ASSUME NEW t \in Tasks, TaskStep(t) PROVE Order'
  BY <1>0, <1>1, <1>2, <1>5, QueueKept, ZenonT(30)
<1> QED BY <1>3, <1>4, <1>5, StepCases, SMTT(30)

-----------------------------------------------------------------------------
(* What a call has handed over, at each point: nothing but buffers before  *)
(* the loop over the messages; in it, the datagrams below out_idx, and     *)
(* still the buffers from i on; after it, as many as there are slots for.  *)
HandInv(t) ==
  /\ pc[t] = "attempt" /\ BatchSyscall =>
       \A k \in 1 .. Len(taken[t]) : Buffered(slots[t], taken[t], k)
  /\ pc[t] = "attempt" /\ ~ BatchSyscall =>
       /\ Handed(slots[t], taken[t], Len(taken[t]))
       /\ Len(taken[t]) > 0 => len[t] = Len(taken[t])
  /\ pc[t] = "process" /\ Plain(t) =>
       /\ Handed(slots[t], taken[t], out_idx[t] - 1)
       /\ \A k \in i[t] .. Len(taken[t]) : Buffered(slots[t], taken[t], k)
       /\ i[t] > Len(taken[t]) => out_idx[t] - 1 = Fit(taken[t], capacity(t))
  /\ pc[t] \in {"returned", "idle"} /\ Plain(t) =>
       /\ Len(taken[t]) > 0 =>
            Handed(slots[t], taken[t], len[t]) /\ len[t] = Fit(taken[t], capacity(t))
       /\ ret[t].kind = "Ok" => ret[t].n = IF Len(taken[t]) = 0 THEN 0 ELSE len[t]

(* No call has begun. *)
LEMMA HandInit == Init => \A t \in Tasks : HandInv(t)
BY Empty, SMTT(30) DEF Init, HandInv, Failed

(* t is not touched. *)
LEMMA HandKept ==
  ASSUME NEW t \in Tasks, HandInv(t), build' = build, pc'[t] = pc[t], taken'[t] = taken[t],
         slots'[t] = slots[t], len'[t] = len[t], i'[t] = i[t], out_idx'[t] = out_idx[t],
         ret'[t] = ret[t]
  PROVE  HandInv(t)'
BY ZenonT(30) DEF BatchSyscall, Plain, capacity, HandInv

(* t has taken nothing. *)
LEMMA HandOfNone ==
  ASSUME NEW t \in Tasks, Len(taken'[t]) = 0, pc'[t] # "process",
         pc'[t] \in {"returned", "idle"} /\ ret'[t].kind = "Ok" => ret'[t].n = 0
  PROVE  HandInv(t)'
BY SMTT(30) DEF HandInv, Handed

(* recvmmsg leaves the message whole in the buffer of its slot. *)
LEMMA SyscallTakesHand ==
  ASSUME Fits, RecvInv, NEW t \in Tasks, HandInv(t), SyscallTakes(t)
  PROVE  HandInv(t)'
<1> DEFINE T == taken[t]
           m == Head(queue)
           s == Len(T) + 1
           x == [slots[t][s] EXCEPT !.buf = Write(@, Segments(m))]
<1>0. /\ Types /\ T \in Seq(Messages) /\ slots[t] \in Seq(Slots) /\ Len(T) = Len(msgs[t])
      /\ pc[t] = "attempt" /\ BatchSyscall /\ queue # << >> /\ Len(msgs[t]) + 1 <= Len(slots[t])
      /\ UNCHANGED <<build, pc>>
  BY CallTyped, ZenonT(30) DEF RecvInv, SyscallTakes, InSyscall, TaskInv
<1>1. m \in Messages
  BY <1>0, MessageTaken, ZenonT(30)
<1>2. slots'[t] = [slots[t] EXCEPT ![s] = x] /\ taken'[t] = Append(T, m)
  BY <1>0, CallsTyped, ZenonT(30) DEF SyscallTakes
<1>3. /\ Len(T) \in Nat /\ Len(taken'[t]) = s /\ taken'[t][s] = m
      /\ \A k \in 1 .. Len(T) : taken'[t][k] = T[k]
  BY <1>0, <1>1, <1>2, AppendActs, SMTT(90)
<1>4. /\ s \in 1 .. Len(slots[t]) /\ slots[t][s] \in Slots /\ slots'[t][s] = x
      /\ \A k \in 1 .. Len(T) : slots'[t][k] = slots[t][k]
  <2> HIDE DEF x
  <2>1. /\ s \in 1 .. Len(slots[t]) /\ slots[t][s] \in Slots
        /\ [slots[t] EXCEPT ![s] = x][s] = x
        /\ \A k \in 1 .. Len(T) : [slots[t] EXCEPT ![s] = x][k] = slots[t][k]
    <3>1. slots[t] \in Seq(Slots) /\ Len(T) \in Nat /\ Len(T) + 1 <= Len(slots[t])
      BY <1>0, <1>3, ZenonT(30)
    <3> HIDE DEF T, m
    <3> QED BY <3>1, PutActs, SMTT(30)
  <2> QED BY <1>2, <2>1, ZenonT(30)
<1>5. x.buf = Write(slots[t][s].buf, Segments(m))
  BY <1>4, ZenonT(30) DEF Slots
<1>6. \A j \in 1 .. m.n : x.buf[j] = m.first + (j - 1)
  BY <1>0, <1>1, <1>5, Fitting, SMTT(30)
<1> HIDE DEF x, m
<1>7. Buffered(slots'[t], taken'[t], s)
  BY <1>3, <1>4, <1>6, ZenonT(30) DEF Buffered
<1>8. ASSUME NEW k \in 1 .. Len(T) PROVE Buffered(slots'[t], taken'[t], k)
  <2>1. Buffered(slots[t], T, k)
    BY <1>0, ZenonT(30) DEF HandInv
  <2> QED BY <1>3, <1>4, <2>1, ZenonT(30) DEF Buffered
<1>9. \A k \in 1 .. Len(taken'[t]) : Buffered(slots'[t], taken'[t], k)
  BY <1>3, <1>7, <1>8, SMTT(30)
<1> QED BY <1>0, <1>9, ZenonT(30) DEF HandInv, BatchSyscall

(* recvfrom fills the next slot with the one datagram it takes. *)
LEMMA LoopTakesHand ==
  ASSUME Fits, RecvInv, NEW t \in Tasks, HandInv(t), LoopTakes(t)
  PROVE  HandInv(t)'
<1> DEFINE T == taken[t]
           m == Head(queue)
           s == Len(T) + 1
           x == Recvfrom(slots[t][s], m)
<1>0. /\ Types /\ T \in Seq(Messages) /\ slots[t] \in Seq(Slots) /\ i[t] = s
      /\ pc[t] = "attempt" /\ ~ BatchSyscall /\ queue # << >> /\ i[t] <= Len(slots[t])
      /\ UNCHANGED <<build, pc>>
  <2>1. Types /\ TaskInv(t) /\ pc[t] = "attempt" /\ ~ BatchSyscall /\ queue # << >>
        /\ i[t] <= capacity(t) /\ UNCHANGED <<build, pc>>
    BY ZenonT(30) DEF RecvInv, LoopTakes, InLoop
  <2>2. T \in Seq(Messages) /\ slots[t] \in Seq(Slots) /\ capacity(t) = Len(slots[t])
        /\ i[t] \in Nat /\ Len(T) \in Nat
    BY <2>1, CallTyped, ZenonT(30)
  <2> QED BY <2>1, <2>2, SMTT(30) DEF TaskInv
<1>1. m \in Messages
  BY <1>0, MessageTaken, ZenonT(30)
<1>2. slots'[t] = [slots[t] EXCEPT ![s] = x] /\ taken'[t] = Append(T, m) /\ len'[t] = s
  BY <1>0, CallsTyped, ZenonT(30) DEF LoopTakes
<1>3. /\ Len(T) \in Nat /\ Len(taken'[t]) = s /\ taken'[t][s] = m
      /\ \A k \in 1 .. Len(T) : taken'[t][k] = T[k] /\ T[k] \in Messages
  BY <1>0, <1>1, <1>2, AppendActs, SMTT(30)
<1>4. /\ s \in 1 .. Len(slots[t]) /\ slots[t][s] \in Slots /\ slots'[t][s] = x
      /\ \A k \in 1 .. Len(T) : slots'[t][k] = slots[t][k]
  <2> HIDE DEF x
  <2>1. /\ s \in 1 .. Len(slots[t]) /\ slots[t][s] \in Slots
        /\ [slots[t] EXCEPT ![s] = x][s] = x
        /\ \A k \in 1 .. Len(T) : [slots[t] EXCEPT ![s] = x][k] = slots[t][k]
    <3>1. slots[t] \in Seq(Slots) /\ Len(T) \in Nat /\ Len(T) + 1 <= Len(slots[t])
      BY <1>0, <1>3, ZenonT(30)
    <3> HIDE DEF T, m
    <3> QED BY <3>1, PutActs, SMTT(30)
  <2> QED BY <1>2, <2>1, ZenonT(30)
<1>5. x.buf = Write(slots[t][s].buf, Segments(m)) /\ x.recv_len = Len(Segments(m)) /\ x.addr = m.first
  BY <1>4, ZenonT(30) DEF Slots, Recvfrom
<1>6. x.buf[1] = m.first /\ x.recv_len = 1
  <2>1. m.n = 1 /\ m.first \in Nat /\ Len(Segments(m)) = m.n
        /\ Write(slots[t][s].buf, Segments(m))[1] = m.first + (1 - 1)
    BY <1>0, <1>1, Fitting, SMTT(30)
  <2> HIDE DEF x, m
  <2>2. m.first + (1 - 1) = m.first
    BY <2>1, SMTT(30)
  <2> QED BY <1>5, <2>1, <2>2, ZenonT(30)
<1>7. \A k \in 1 .. Len(T) : T[k].first \in Nat
  BY <1>0, <1>3, Fitting, ZenonT(30)
<1> HIDE DEF x, m
<1>8. Handed(slots'[t], taken'[t], s)
  <2>1. ASSUME NEW p \in 1 .. Len(T)
        PROVE  In(T, p) = p /\ In(taken'[t], p) = p /\ At(T, p) = T[p].first
               /\ At(taken'[t], p) = T[p].first
    <3>1. In(T, p) = p /\ In(taken'[t], p) = p
      BY <1>0, <1>3 DEF In
    <3>2. T[p].first \in Nat /\ taken'[t][p] = T[p]
      BY <1>3, <1>7, ZenonT(30)
    <3>3. T[p].first + (p - p) = T[p].first
      BY <3>2, SMTT(30)
    <3> QED BY <3>1, <3>2, <3>3, ZenonT(30) DEF At
  <2>2. In(taken'[t], s) = s /\ At(taken'[t], s) = m.first
    BY <1>0, <1>1, <1>3, Fitting, SMTT(30) DEF In, At
  <2>3. ASSUME NEW p \in 1 .. s
        PROVE  /\ slots'[t][p].recv_len = 1 /\ slots'[t][p].buf[1] = At(taken'[t], p)
               /\ slots'[t][p].addr = taken'[t][In(taken'[t], p)].first
    <3>1. CASE p \in 1 .. Len(T)
      <4>1. /\ slots[t][p].recv_len = 1 /\ slots[t][p].buf[1] = At(T, p)
            /\ slots[t][p].addr = T[In(T, p)].first
        BY <1>0, <3>1, ZenonT(30) DEF HandInv, Handed
      <4> QED BY <1>3, <1>4, <2>1, <3>1, <4>1, ZenonT(30)
    <3>2. CASE p = s
      BY <1>3, <1>4, <1>5, <1>6, <2>2, <3>2, ZenonT(30)
    <3> QED BY <1>3, <3>1, <3>2, SMTT(30)
  <2> QED BY <2>3, ZenonT(30) DEF Handed
<1> QED BY <1>0, <1>2, <1>3, <1>8, ZenonT(30) DEF HandInv, BatchSyscall

(* A turn of the loop over the messages, split or not. *)
LEMMA ProcessHand ==
  ASSUME Fits, RecvInv, NEW t \in Tasks, InPace(t), HandInv(t), ProcessMessage(t)
  PROVE  HandInv(t)'
<1> DEFINE T  == taken[t]
           ss == slots[t]
           k  == i[t]
           r  == msgs[t][k]
<1>0. Types /\ TaskInv(t) /\ pc[t] = "process" /\ UNCHANGED <<pc, taken>> /\ k <= Len(msgs[t])
  BY ZenonT(30) DEF RecvInv, ProcessMessage, AtMessage
<1>1. /\ ss \in Seq(Slots) /\ T \in Seq(Messages) /\ Len(T) \in Nat /\ Len(msgs[t]) \in Nat
      /\ Len(msgs[t]) <= Len(ss) /\ Len(ss) \in Nat /\ k \in Nat \ {0} /\ DOMAIN i = Tasks
      /\ DOMAIN slots = Tasks /\ DOMAIN out_idx = Tasks
  BY <1>0, CallTyped, CallsTyped, ZenonT(30)
<1>2. Len(T) = Len(msgs[t]) /\ k \in 1 .. Len(T) /\ k \in 1 .. Len(ss) /\ k <= Len(ss)
      /\ Len(T) <= Len(ss) /\ (k # Len(T) => k \in 1 .. Len(T) - 1)
  BY <1>0, <1>1, SMTT(30) DEF TaskInv
<1>3. i'[t] = k + 1
  BY <1>1, ZenonT(30) DEF ProcessMessage
<1>4. r.msg = T[k] /\ (Plain(t) => out_idx[t] = k)
  BY <1>0, <1>2, ZenonT(30) DEF InPace
<1>5. \A q \in 1 .. Len(T) : T[q] \in Messages
  BY <1>1, SMTT(30)
<1>6. Numbered(T) /\ T[k].n \in Nat \ {0} /\ Len(Segments(r.msg)) = T[k].n
  <2>1. BufSize \in Nat
    BY RecvAssumption, ZenonT(30)
  <2>2. \A x \in 1 .. BufSize : x \in Nat \ {0}
    BY <2>1, SMTT(30)
  <2>3. \A q \in 1 .. Len(T) : T[q].first \in Nat \ {0} /\ T[q].n \in 1 .. BufSize
    BY <1>0, <1>5, Fitting, ZenonT(30)
  <2>4. T[k] \in Messages /\ Len(Segments(T[k])) = T[k].n
    BY <1>0, <1>2, <1>5, Fitting, ZenonT(30)
  <2> QED BY <1>2, <1>4, <2>2, <2>3, <2>4, ZenonT(30) DEF Numbered
<1> HIDE DEF r
<1>7. ASSUME Plain(t)
      PROVE  \E d : Spread(ss, slots'[t], T, k, d) /\ out_idx'[t] = k + d
  <2>1. out_idx[t] = k /\ k <= capacity(t)
    BY <1>2, <1>4, <1>7, ZenonT(30) DEF capacity
  <2>2. CASE T[k].n > 1
    <3>1. /\ slots' = [slots EXCEPT ![t] = SplitSlots(ss, r, k, T[k].n)]
          /\ out_idx' = [out_idx EXCEPT ![t] = k + Split(Len(ss), k, T[k].n)]
      BY <1>4, <1>6, <2>1, <2>2, ZenonT(30) DEF ProcessMessage, capacity, r
    <3>2. /\ slots'[t] = SplitSlots(ss, r, k, T[k].n)
          /\ out_idx'[t] = k + Split(Len(ss), k, T[k].n)
      BY <1>1, <3>1, ZenonT(30)
    <3>3. k = Len(T)
      <4>1. ~ (1 > 1)
        OBVIOUS
      <4> QED BY <1>2, <1>7, <2>2, <4>1, ZenonT(30) DEF Plain
    <3>4. Spread(ss, SplitSlots(ss, r, k, T[k].n), T, k, Split(Len(ss), k, T[k].n))
      BY <1>1, <1>2, <1>4, <1>6, <3>3, SpreadSplit, ZenonT(30)
    <3> QED BY <3>2, <3>4, ZenonT(30)
  <2>3. CASE ~ (T[k].n > 1)
    <3>1. T[k].n = 1
      BY <1>6, <2>3, SMTT(30)
    <3>2. /\ slots' = [slots EXCEPT ![t] = [ss EXCEPT ![k] = Filled(ss[k], r, 1)]]
          /\ out_idx' = [out_idx EXCEPT ![t] = k + 1]
      BY <1>4, <1>6, <2>1, <3>1, SMTT(30) DEF ProcessMessage, r
    <3>3. slots'[t] = [ss EXCEPT ![k] = Filled(ss[k], r, 1)] /\ out_idx'[t] = k + 1
      BY <1>1, <3>2, ZenonT(30)
    <3>4. Spread(ss, [ss EXCEPT ![k] = Filled(ss[k], r, 1)], T, k, 1)
      BY <1>1, <1>2, <1>4, <3>1, SpreadOne, ZenonT(30)
    <3> QED BY <3>3, <3>4, ZenonT(30)
  <2> QED BY <2>2, <2>3, ZenonT(30)
<1>8. ASSUME Plain(t) PROVE Halfway(slots'[t], T, k + 1, out_idx'[t])
  <2>1. PICK d : Spread(ss, slots'[t], T, k, d) /\ out_idx'[t] = k + d
    BY <1>7, <1>8, ZenonT(30)
  <2>2. Halfway(ss, T, k, k)
    BY <1>0, <1>4, <1>8, ZenonT(30) DEF HandInv, Halfway, capacity
  <2>3. Halfway(slots'[t], T, k + 1, k + d)
    BY <1>1, <1>2, <1>6, <2>1, <2>2, SpreadHands, ZenonT(30)
  <2>4. out_idx'[t] = k + d
    BY <2>1, ZenonT(30)
  <2> HIDE DEF T, k
  <2> QED BY <2>3, <2>4, ZenonT(30)
<1>9. Plain(t)' = Plain(t)
  BY <1>0, ZenonT(30) DEF Plain
<1> QED BY <1>0, <1>3, <1>8, <1>9, ZenonT(30) DEF HandInv, Halfway, capacity

(* The platform call returned. *)
LEMMA HandOfReturned ==
  ASSUME NEW t \in Tasks, pc'[t] = "returned",
         Len(taken'[t]) > 0 =>
           Handed(slots'[t], taken'[t], len'[t]) /\ len'[t] = Fit(taken'[t], capacity(t)'),
         ret'[t].kind = "Ok" => ret'[t].n = IF Len(taken'[t]) = 0 THEN 0 ELSE len'[t]
  PROVE  HandInv(t)'
BY ZenonT(30) DEF HandInv

(* ProcessEnds reports what the loop over the messages handed over. *)
LEMMA ProcessEndsHand ==
  ASSUME RecvInv, NEW t \in Tasks, HandInv(t), ProcessEnds(t)
  PROVE  HandInv(t)'
<1>1. /\ Types /\ TaskInv(t) /\ pc[t] = "process" /\ i[t] > Len(msgs[t]) /\ UNCHANGED <<slots, taken>>
      /\ pc'[t] = "returned" /\ len'[t] = out_idx[t] - 1 /\ ret'[t] = Ok(out_idx[t] - 1)
  BY CallsTyped, ZenonT(30) DEF RecvInv, ProcessEnds, PlatformReturns
<1>2. Len(taken[t]) = Len(msgs[t]) /\ Len(taken[t]) > 0 /\ out_idx[t] - 1 \in Nat
  <2>1. Len(taken[t]) = Len(msgs[t]) /\ Len(msgs[t]) > 0
    BY <1>1, ZenonT(30) DEF TaskInv
  <2>2. out_idx[t] \in Nat \ {0}
    BY <1>1, CallTyped, ZenonT(30)
  <2>3. out_idx[t] - 1 \in Nat
    BY <2>2, SMTT(30)
  <2> QED BY <2>1, <2>3, ZenonT(30)
<1>3. Plain(t)' = Plain(t) /\ capacity(t)' = capacity(t) /\ Len(taken'[t]) # 0
  <2>1. Plain(t)' = Plain(t) /\ capacity(t)' = capacity(t)
    BY <1>1, ZenonT(30) DEF Plain, capacity
  <2>2. Len(taken[t]) # 0
    BY <1>1, <1>2, CallTyped, AtStart, ZenonT(30)
  <2> QED BY <1>1, <2>1, <2>2, ZenonT(30)
<1>4. Ok(out_idx[t] - 1).n = out_idx[t] - 1
  BY ZenonT(30) DEF Ok
<1> QED BY <1>1, <1>2, <1>3, <1>4, ZenonT(30) DEF HandInv

(* The recvfrom loop ends with one datagram in each slot it came to. *)
LEMMA LoopEndsHand ==
  ASSUME Fits, RecvInv, NEW t \in Tasks, HandInv(t), LoopEnds(t) \/ LoopFails(t)
  PROVE  HandInv(t)'
<1> DEFINE T == taken[t]
<1>1. /\ Types /\ TaskInv(t) /\ pc[t] = "attempt" /\ ~ BatchSyscall
      /\ UNCHANGED <<slots, taken, len>> /\ pc'[t] = "returned"
      /\ ret'[t] = Ok(i[t] - 1) \/ ret'[t] = Failed("Error")
  <2>1. Types /\ TaskInv(t)
    BY ZenonT(30) DEF RecvInv
  <2> QED BY <2>1, CallsTyped, SMTT(30) DEF LoopEnds, LoopFails, PlatformReturns, InLoop, batch
<1>2. /\ i[t] \in Nat \ {0} /\ Len(T) \in Nat /\ capacity(t) \in Nat /\ len[t] <= capacity(t)
      /\ T \in Seq(Messages) /\ Len(T) = i[t] - 1 /\ len[t] \in Nat
  BY <1>1, CallTyped, ZenonT(30) DEF TaskInv
<1>3. Handed(slots[t], T, Len(T)) /\ (Len(T) > 0 => len[t] = Len(T))
  BY <1>1, ZenonT(30) DEF HandInv
<1>4. Len(T) > 0 => Fit(T, capacity(t)) = Len(T)
  <2>1. Len(T) > 0 => T[Len(T)] \in Messages
    BY <1>2
  <2>2. Len(T) > 0 => T[Len(T)].n = 1
    BY <1>1, <2>1, Fitting, ZenonT(30)
  <2> QED BY <1>2, <1>3, <2>2, SMTT(30) DEF Fit, Count
<1>5. ret'[t].kind = "Ok" => ret'[t].n = Len(T)
  BY <1>1, <1>2, SMTT(30) DEF Ok, Failed
<1>6. Plain(t)' = Plain(t) /\ capacity(t)' = capacity(t)
  BY <1>1, ZenonT(30) DEF Plain, capacity
<1>7. Len(T) > 0 => Handed(slots[t], T, len[t]) /\ len[t] = Fit(T, capacity(t))
  BY <1>3, <1>4, ZenonT(30)
<1>8. ret'[t].kind = "Ok" => ret'[t].n = IF Len(T) = 0 THEN 0 ELSE len[t]
  BY <1>2, <1>3, <1>5, SMTT(30)
<1> QED BY <1>1, <1>6, <1>7, <1>8, HandOfReturned, ZenonT(30)

(* Every step keeps HandInv. *)
LEMMA HandStep ==
  ASSUME Fits, RecvInv, NEW t \in Tasks, InPace(t), HandInv(t), [Next]_vars
  PROVE  HandInv(t)'
<1>0. Types /\ TaskInv(t) /\ Len(<< >>) = 0 /\ Len(msgs[t]) \in Nat /\ Len(taken[t]) \in Nat
  BY CallTyped, ZenonT(30) DEF RecvInv
<1>1. CASE SyscallEnds(t)
  <2>1. /\ pc[t] = "attempt" /\ BatchSyscall /\ pc'[t] = "process"
        /\ UNCHANGED <<slots, i, out_idx, taken, msgs>>
    BY <1>0, <1>1, ProcessActs, ZenonT(30)
  <2>2. i[t] = 1 /\ out_idx[t] = 1 /\ Len(taken[t]) > 0
    <3>1. msgs[t] \in Seq(Received) /\ msgs[t] # << >>
      BY <1>0, <1>1, CallTyped, ZenonT(30) DEF SyscallEnds
    <3>2. i[t] = 1 /\ out_idx[t] = 1 /\ Len(taken[t]) = Len(msgs[t])
      BY <1>0, <2>1, ZenonT(30) DEF TaskInv
    <3> QED BY <3>1, <3>2, NonEmpty, ZenonT(30)
  <2>3. Handed(slots[t], taken[t], 1 - 1)
    BY DEF Handed
  <2>4. ~ (1 > Len(taken[t]))
    BY <1>0, <2>2, AtStart, ZenonT(30)
  <2> QED BY <1>0, <2>1, <2>2, <2>3, <2>4, ZenonT(30) DEF HandInv
<1>2. CASE NoSlots(t) \/ SyscallBlocks(t) \/ SyscallFails(t)
  <2>1. Len(taken[t]) = 0
    <3>1. CASE NoSlots(t)
      <4>1. pc[t] = "attempt" /\ capacity(t) = 0 /\ Len(msgs[t]) <= capacity(t) /\ i[t] \in Nat \ {0}
        BY <1>0, <3>1, CallTyped, ZenonT(30) DEF NoSlots
      <4>2. /\ BatchSyscall => Len(taken[t]) = Len(msgs[t])
            /\ ~ BatchSyscall => Len(taken[t]) = i[t] - 1
            /\ i[t] <= 0 + 1
        BY <1>0, <4>1, ZenonT(30) DEF TaskInv
      <4>3. Len(msgs[t]) = 0 /\ i[t] - 1 = 0
        BY <1>0, <4>1, <4>2, AtStart, ZenonT(30)
      <4> QED BY <4>2, <4>3, ZenonT(30)
    <3>2. CASE SyscallBlocks(t) \/ SyscallFails(t)
      BY <1>0, <3>2, ZenonT(30) DEF SyscallBlocks, SyscallFails, InSyscall, TaskInv
    <3> QED BY <1>2, <3>1, <3>2, ZenonT(30)
  <2>2. /\ pc'[t] = "returned" /\ taken' = taken
        /\ ret'[t] \in {Ok(0), Failed("WouldBlock"), Failed("Error")}
    BY <1>0, <1>2, CallsTyped, ZenonT(90) DEF NoSlots, SyscallBlocks, SyscallFails,
       PlatformReturns
  <2>3. ret'[t].n = 0
    BY <2>2, SMTT(30) DEF Ok, Failed
  <2> QED BY <2>1, <2>2, <2>3, HandOfNone, ZenonT(30)
<1>3. CASE Finish(t)
  <2>1. /\ pc[t] = "returned" /\ pc'[t] = "idle" /\ UNCHANGED <<slots, len, taken, ret>>
    BY <1>0, <1>3, CallsTyped, ZenonT(30) DEF Finish, batch
  <2>2. Plain(t)' = Plain(t) /\ capacity(t)' = capacity(t)
    BY <2>1, ZenonT(30) DEF Plain, capacity
  <2> QED BY <2>1, <2>2, ZenonT(30) DEF HandInv
<1>4. CASE Block(t) \/ Resume(t) \/ \E kind \in {"Error", "Cancelled"} : WaitEnds(t, kind)
  <2>1. taken' = taken /\ Len(taken[t]) = 0
    BY <1>0, <1>4, ZenonT(30) DEF Block, MustWait, Resume, WaitEnds, TaskInv
  <2>2. pc'[t] \in {"waiting", "attempt"} \/ (pc'[t] = "idle" /\ ret'[t].kind \in {"Error", "Cancelled"})
    <3>1. \A kind : Failed(kind).kind = kind
      BY ZenonT(30) DEF Failed
    <3> QED BY <1>0, <1>4, <3>1, WrapperActs, ZenonT(30)
  <2> QED BY <2>1, <2>2, HandOfNone, ZenonT(30)
<1>5. ASSUME NEW o \in Ops, NEW reuse \in BOOLEAN, Call(t, o, reuse) PROVE HandInv(t)'
  <2>1. pc'[t] = "attempt" /\ taken'[t] = << >>
    BY <1>0, <1>5, CallActs, ZenonT(30)
  <2> QED BY <1>0, <2>1, HandOfNone, ZenonT(30)
<1>6. CASE Clear(t)
  <2>1. pc'[t] = "idle" /\ ret'[t] = Failed("None")
    BY <1>0, <1>6, ClearActs, ZenonT(30)
  <2>2. taken'[t] = << >>
    BY <1>0, <1>6, CallsTyped, ZenonT(30) DEF Clear
  <2>3. Failed("None").kind # "Ok"
    BY ZenonT(30) DEF Failed
  <2> QED BY <1>0, <2>1, <2>2, <2>3, HandOfNone, ZenonT(30)
<1>7. CASE ProcessPanics(t)
  BY <1>0, <1>7, ProcessActs, ZenonT(30) DEF HandInv
<1>8. CASE (\E n \in 1 .. MaxGro : Arrive(n)) \/ DriverPolls \/ SetMeta \/ UNCHANGED vars
  <2>1. UNCHANGED <<build, pc, slots, len, i, out_idx, ret, taken>>
    BY <1>8, NoTask, ZenonT(30)
  <2> QED BY <2>1, HandKept, ZenonT(30)
<1>9. ASSUME NEW u \in Tasks, u # t, TaskStep(u) PROVE HandInv(t)'
  BY <1>0, <1>9, OtherTasks, HandKept, ZenonT(30)
<1>10. CASE TaskStep(t)
  BY ZenonT(30), <1>1, <1>2, <1>3, <1>4, <1>5, <1>6, <1>7, <1>10, SyscallTakesHand, LoopTakesHand,
     ProcessHand, ProcessEndsHand, LoopEndsHand DEF TaskStep, Progress
<1> QED BY <1>8, <1>9, <1>10, StepCases, ZenonT(30)

-----------------------------------------------------------------------------
(* What was handed over is what HandsOverAll asks for. *)
LEMMA HandsOver ==
  ASSUME CountLaw, Fits, RecvInv, Order, \A t \in Tasks : HandInv(t)
  PROVE  HandsOverAll
<1> SUFFICES ASSUME NEW t \in Tasks, pc[t] = "idle", Separable(t)
             PROVE  /\ taken[t] # << >> => Delivered(t)
                    /\ ret[t].kind = "Ok" => ret[t].n = Cardinality(Holds(t))
  BY ZenonT(30) DEF HandsOverAll
<1> DEFINE T == taken[t]
<1>1. /\ Types /\ T \in Seq(Messages) /\ Len(T) \in Nat /\ DOMAIN T = 1 .. Len(T) /\ Plain(t)
      /\ capacity(t) \in Nat /\ slots[t] \in Seq(Slots) /\ capacity(t) = Len(slots[t])
  <2>1. Types /\ T \in Seq(Messages) /\ capacity(t) \in Nat /\ slots[t] \in Seq(Slots)
    BY CallTyped, ZenonT(30) DEF RecvInv
  <2>2. Len(T) \in Nat /\ DOMAIN T = 1 .. Len(T)
    BY <2>1, Lengthy, ZenonT(30)
  <2> QED BY <2>1, <2>2, ZenonT(30) DEF Separable, Plain, capacity
<1>2. Holds(t) = Of(T) /\ Sorted(T) /\ HandInv(t)
  BY ZenonT(30) DEF Holds, Of, Order
<1>3. CASE T = << >>
  <2>1. Of(T) = {} /\ Len(T) = 0
    BY <1>3 DEF Of
  <2>2. Cardinality(Of(T)) = 0
    <3> DEFINE f == [p \in 1 .. 0 |-> 0]
    <3>1. f \in [1 .. 0 -> Nat] /\ {f[p] : p \in 1 .. 0} = {} /\ \A p, q \in 1 .. 0 : p < q => f[p] < f[q]
      OBVIOUS
    <3> HIDE DEF f
    <3>2. Cardinality({f[p] : p \in 1 .. 0}) = 0
      BY <3>1, ZenonT(30) DEF CountLaw
    <3> QED BY <2>1, <3>1, <3>2, ZenonT(30)
  <2> QED BY <1>1, <1>2, <1>3, <2>1, <2>2, ZenonT(30) DEF HandInv
<1>4. CASE T # << >>
  <2>1. Numbered(T) /\ Len(T) \in Nat \ {0}
    BY <1>1, <1>4, Fitting, RecvAssumption, SMTT(30) DEF Numbered
  <2>2. /\ Cardinality(Of(T)) = Count(T)
        /\ \A p \in 1 .. Count(T) : Cardinality({e \in Of(T) : e <= At(T, p)}) = p
    BY <1>1, <1>2, <2>1, Counting, ZenonT(30) DEF Plain
  <2>3. Handed(slots[t], T, Count(T)) /\ len[t] = Count(T) /\ (ret[t].kind = "Ok" => ret[t].n = len[t])
        /\ Count(T) <= Len(slots[t])
    <3>1. Len(T) > 0 /\ Len(T) # 0
      BY <2>1
    <3>2. Count(T) <= Len(slots[t])
      BY <1>1, <1>2, <2>2, ZenonT(30) DEF Separable
    <3>3. Handed(slots[t], T, len[t]) /\ len[t] = Fit(T, Len(slots[t]))
          /\ (ret[t].kind = "Ok" => ret[t].n = len[t])
      BY <1>1, <1>2, <3>1, ZenonT(30) DEF HandInv
    <3> QED BY <3>2, <3>3, ZenonT(30) DEF Fit
  <2>4. ASSUME NEW k \in DOMAIN T, NEW d \in Datagrams(T[k])
        PROVE  LET slot == slots[t][Cardinality({e \in Holds(t) : e <= d})] IN
               data(slot) = <<d>> /\ slot.addr = T[k].first
    <3>1. PICK p \in 1 .. Count(T) : At(T, p) = d /\ In(T, p) = k
      BY <1>1, <1>2, <2>1, Numbering, ZenonT(30) DEF Plain
    <3>2. Cardinality({e \in Holds(t) : e <= d}) = p
      BY <1>2, <2>2, <3>1, ZenonT(30)
    <3>3. slots[t][p].recv_len = 1 /\ slots[t][p].buf[1] = d /\ slots[t][p].addr = T[k].first
      BY <2>3, <3>1, ZenonT(30) DEF Handed
    <3>4. slots[t][p] \in Slots
      <4>0. Count(T) \in Nat /\ Len(slots[t]) \in Nat
        BY <1>1, <1>2, <2>1, Numbering, ZenonT(30) DEF Plain
      <4>1. p \in 1 .. Len(slots[t])
        BY <2>3, <4>0, SMTT(30)
      <4> QED BY <1>1, <4>1, SMTT(30)
    <3>5. data(slots[t][p]) = <<slots[t][p].buf[1]>>
      BY <3>3, <3>4, FirstOnly, ZenonT(30)
    <3> DEFINE c == Cardinality({e \in Holds(t) : e <= d})
    <3>6. c = p
      BY <3>2, ZenonT(30)
    <3> HIDE DEF c
    <3>7. data(slots[t][c]) = <<d>> /\ slots[t][c].addr = T[k].first
      BY <3>3, <3>5, <3>6, ZenonT(30)
    <3> QED BY <3>7, ZenonT(30) DEF c
  <2> QED BY <1>2, <2>2, <2>3, <2>4, ZenonT(30) DEF Delivered
<1> QED BY <1>3, <1>4, ZenonT(30)

INSTANCE FiniteSetTheorems

(* An increasing enumeration of a set counts it. *)
LEMMA Increasing == CountLaw
BY FS_CountingElements, SMTT(30) DEF CountLaw, Bijection, Injection, Surjection, IsInjective,
   ExistsBijection

(* However a receive call of src/socket.rs ends, the datagrams its         *)
(* syscalls took are in the caller's batch, one per slot, in order, each   *)
(* with its own sender, and the count returned is their number: for any    *)
(* number of tasks, capacities and messages, any reuse of the batch and    *)
(* any interleaving, as long as the messages fit the buffers and GRO is    *)
(* off where the backend cannot split.                                     *)
THEOREM RecvHandsOverAll ==
  ASSUME Fits
  PROVE  Spec => []HandsOverAll
<1> DEFINE Hands == Order /\ \A t \in Tasks : InPace(t) /\ HandInv(t)
<1>1. Init => Hands
  BY OrderInit, HandInit, InPaceInit, ZenonT(30)
<1>2. RecvInv /\ Hands /\ [Next]_vars => Hands'
  BY HandStep, InPaceStep, OrderStep, SMTT(30)
<1>3. RecvInv /\ Hands => HandsOverAll
  BY HandsOver, Increasing, ZenonT(30)
<1> QED BY <1>1, <1>2, <1>3, RecvInvariant, PTL DEF Spec
=============================================================================
