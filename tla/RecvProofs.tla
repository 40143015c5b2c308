------------------------------ MODULE RecvProofs ------------------------------
(***************************************************************************)
(* What RecvPath promises for any tasks, capacities, buffer sizes and      *)
(* builds.                                                                 *)
(***************************************************************************)
EXTENDS RecvLemmas

LEMMA ProcessMessageStep ==
  ASSUME RecvInv, NEW t \in Tasks, ProcessMessage(t)
  PROVE  RecvInv'
<1> DEFINE r     == msgs[t][i[t]]
           first == out_idx[t]
           total == Len(Segments(r.msg))
<1>0. /\ TaskInv(t) /\ Types /\ TypeOK /\ pc[t] = "process" /\ i[t] <= Len(msgs[t])
      /\ first \in 1 .. capacity(t) /\ i[t] \in Nat \ {0} /\ first \in Nat \ {0}
      /\ Len(msgs[t]) \in Nat /\ Len(taken[t]) \in Nat /\ capacity(t) \in Nat
      /\ i' = [i EXCEPT ![t] = i[t] + 1]
      /\ UNCHANGED <<build, arrived, queue, metaOn, edge, ready, clean, pc, op, len, msgs, ret, taken>>
  BY TypesOK, CallTyped DEF RecvInv, ProcessMessage, AtMessage, kernel
<1>1. r \in Received /\ r.msg \in Messages
  <2>1. i[t] \in 1 .. Len(msgs[t]) /\ msgs[t] \in Seq(Received)
    BY <1>0 DEF Types
  <2>2. r \in Received
    BY <2>1
  <2> HIDE DEF r
  <2> QED BY <2>2, ZenonT(30) DEF Received
<1>2. total \in 1 .. BufSize
  BY <1>0, <1>1, SegmentsTyped, ZenonT(30)
<1>3. PICK ss \in Seq(Slots), d \in Nat \ {0} :
        /\ Len(ss) = capacity(t) /\ first + d <= capacity(t) + 1
        /\ slots' = [slots EXCEPT ![t] = ss] /\ out_idx' = [out_idx EXCEPT ![t] = first + d]
  <2>1. slots[t] \in Seq(Slots) /\ slots[t][first] \in Slots
    BY <1>0, SMTT(30) DEF Types, capacity
  <2> HIDE DEF r, total, first
  <2>2. CASE r.msg.n > 1
    <3> DEFINE ss == SplitSlots(slots[t], r, first, total)
               d  == Split(capacity(t), first, total)
    <3>1. ss \in Seq(Slots) /\ Len(ss) = capacity(t)
      BY <1>0, <1>1, <1>2, <2>1, SplitSlotsTyped, ZenonT(30) DEF capacity
    <3>2. total \in Nat \ {0}
      BY <1>2, RecvAssumption
    <3>3. d \in 1 .. capacity(t) - first + 1
      BY <1>0, <3>2, SplitRange, ZenonT(30)
    <3>4. d \in Nat \ {0} /\ first + d <= capacity(t) + 1
      BY <1>0, <3>3, SMTT(30)
    <3>5. slots' = [slots EXCEPT ![t] = ss] /\ out_idx' = [out_idx EXCEPT ![t] = first + d]
      BY <2>2, ZenonT(30) DEF ProcessMessage, r, first, total
    <3> HIDE DEF ss, d
    <3> QED BY <3>1, <3>4, <3>5, ZenonT(30)
  <2>3. CASE ~ (r.msg.n > 1)
    <3> DEFINE x  == Filled(slots[t][first], r, total)
               ss == [slots[t] EXCEPT ![first] = x]
    <3>1. x \in Slots
      BY <1>0, <1>1, <1>2, <2>1, FilledTyped, ZenonT(30)
    <3>2. slots' = [slots EXCEPT ![t] = ss] /\ out_idx' = [out_idx EXCEPT ![t] = first + 1]
      BY <2>3, ZenonT(30) DEF ProcessMessage, r, first, total
    <3> HIDE DEF x
    <3>3. ss \in Seq(Slots) /\ Len(ss) = capacity(t)
      BY <1>0, <3>1, SlotReplaced, ZenonT(30)
    <3>4. 1 \in Nat \ {0} /\ first + 1 <= capacity(t) + 1
      BY <1>0 DEF first
    <3> HIDE DEF ss
    <3> QED BY <3>2, <3>3, <3>4, ZenonT(30)
  <2> QED BY <2>2, <2>3, ZenonT(30)
<1> HIDE DEF r, total
<1>4. Messages' = Messages /\ Received' = Received
  BY <1>0, ZenonT(30) DEF Messages, Received, MaxGro
<1>5. slots' \in [Tasks -> Seq(Slots)] /\ \A u \in Tasks : capacity(u)' = capacity(u)
  BY <1>3, SlotsReplaced, ZenonT(30)
<1>6. /\ i' \in [Tasks -> Nat \ {0}] /\ out_idx' \in [Tasks -> Nat \ {0}]
      /\ i'[t] = i[t] + 1 /\ out_idx'[t] = first + d
  BY SMTT(90), <1>0, <1>3 DEF Types
<1>7. Types'
  BY <1>0, <1>4, <1>5, <1>6, ZenonT(90) DEF Types
<1>8. TaskInv(t)'
  <2>1. /\ pc'[t] = "process" /\ msgs'[t] = msgs[t] /\ taken'[t] = taken[t]
        /\ capacity(t)' = capacity(t)
    BY <1>0, <1>5, ZenonT(30)
  <2>2. Len(taken[t]) = Len(msgs[t]) /\ Len(msgs[t]) > 0 /\ i[t] <= first
    BY <1>0, ZenonT(30) DEF TaskInv
  <2>3. /\ i'[t] <= Len(msgs[t]) + 1 /\ i'[t] <= out_idx'[t]
        /\ out_idx'[t] <= capacity(t) + 1
    BY <1>0, <1>3, <1>6, <2>2, SMTT(30)
  <2> QED BY <2>1, <2>2, <2>3, ZenonT(30) DEF TaskInv
<1> QED BY <1>0, <1>3, <1>7, <1>8, OneTask, ZenonT(30) DEF Types

LEMMA CallStep ==
  ASSUME RecvInv, NEW t \in Tasks, NEW o \in Ops, NEW reuse \in BOOLEAN, Call(t, o, reuse)
  PROVE  RecvInv'
<1>0. /\ TaskInv(t) /\ Types /\ pc[t] = "idle"
      /\ pc' = [pc EXCEPT ![t] = "attempt"] /\ op' = [op EXCEPT ![t] = o]
      /\ ret' = [ret EXCEPT ![t] = Failed("None")] /\ taken' = [taken EXCEPT ![t] = << >>]
      /\ UNCHANGED <<build, arrived, queue, metaOn, edge, ready, msgs, i, out_idx>>
      /\ Len(msgs[t]) = 0
  BY DEF RecvInv, Call, kernel, TaskInv
<1>1. PICK ss \in Seq(Slots), l \in Nat :
        l <= Len(ss) /\ slots' = [slots EXCEPT ![t] = ss] /\ len' = [len EXCEPT ![t] = l]
  <2>1. CASE reuse
    BY <1>0, <2>1 DEF Types, capacity, Call, batch
  <2>2. CASE ~ reuse
    <3>1. PICK c \in Nat : slots' = [slots EXCEPT ![t] = with_capacity(c)]
      BY <2>2, RecvAssumption, ZenonT(30) DEF Call
    <3>2. len' = [len EXCEPT ![t] = 0]
      BY <2>2, ZenonT(30) DEF Call
    <3>3. with_capacity(c) \in Seq(Slots) /\ 0 <= Len(with_capacity(c))
      BY EmptySlots
    <3> QED BY <3>1, <3>2, <3>3, ZenonT(30)
  <2> QED BY <2>1, <2>2, ZenonT(30)
<1>2. clean' \in [Tasks -> BOOLEAN]
  BY <1>0, ZenonT(30) DEF Call, Types
<1>3. Messages' = Messages /\ Received' = Received
  BY <1>0, ZenonT(30) DEF Messages, Received, MaxGro
<1>4. << >> \in Seq(Messages) /\ Len(<< >>) = 0 /\ Failed("None") \in Returns
  BY ReturnsTyped DEF Kinds
<1>5. /\ pc' \in [Tasks -> Places] /\ op' \in [Tasks -> Ops \cup {"none"}]
      /\ ret' \in [Tasks -> Returns] /\ taken' \in [Tasks -> Seq(Messages)]
      /\ slots' \in [Tasks -> Seq(Slots)] /\ len' \in [Tasks -> Nat]
  BY <1>0, <1>1, <1>4, ZenonT(30) DEF Types, Places
<1>6. Len(ss) \in Nat /\ slots'[t] = ss /\ len'[t] = l /\ Len(taken'[t]) = 0 /\ pc'[t] = "attempt"
  BY <1>0, <1>1, <1>4, SMTT(30) DEF Types
<1>7. \A u \in Tasks : len'[u] <= capacity(u)' /\ Len(msgs'[u]) <= capacity(u)'
  BY <1>0, <1>1, <1>6 DEF capacity, Types
<1>8. Types'
  BY <1>0, <1>2, <1>3, <1>5, <1>7, ZenonT(30) DEF Types
<1>9. TaskInv(t)'
  BY <1>0, <1>6 DEF TaskInv, capacity
<1> QED BY <1>0, <1>1, <1>8, <1>9, OneTask, ZenonT(30) DEF Types

(* RecvBatchRaw::clear *)
LEMMA Cleared ==
  ASSUME NEW ss \in Seq(Slots)
  PROVE  LET out == [s \in DOMAIN ss |-> [ss[s] EXCEPT !.recv_len = 0, !.meta = 0]]
         IN  out \in Seq(Slots) /\ Len(out) = Len(ss) /\ \A s \in 1 .. Len(ss) : out[s].meta = 0
<1> DEFINE out == [s \in DOMAIN ss |-> [ss[s] EXCEPT !.recv_len = 0, !.meta = 0]]
<1>1. Len(ss) \in Nat /\ DOMAIN ss = 1 .. Len(ss) /\ \A s \in 1 .. Len(ss) : ss[s] \in Slots
  OBVIOUS
<1>2. \A x \in Slots : /\ [x EXCEPT !.recv_len = 0, !.meta = 0] \in Slots
                       /\ [x EXCEPT !.recv_len = 0, !.meta = 0].meta = 0
  <2>1. 0 \in 0 .. BufSize
    BY RecvAssumption
  <2> QED BY <2>1, ZenonT(30) DEF Slots
<1>3. out \in [1 .. Len(ss) -> Slots] /\ \A s \in 1 .. Len(ss) : out[s].meta = 0
  BY <1>1, <1>2, ZenonT(30)
<1> HIDE DEF out
<1>4. out \in Seq(Slots) /\ Len(out) = Len(ss)
  BY <1>1, <1>3, FunctionIsSeq, ZenonT(30)
<1> QED BY <1>3, <1>4, ZenonT(30) DEF out

LEMMA ClearStep ==
  ASSUME RecvInv, NEW t \in Tasks, Clear(t)
  PROVE  RecvInv'
<1> DEFINE ss == [s \in DOMAIN slots[t] |-> [slots[t][s] EXCEPT !.recv_len = 0, !.meta = 0]]
<1>0. /\ TaskInv(t) /\ Types /\ pc[t] = "idle"
      /\ slots' = [slots EXCEPT ![t] = ss] /\ len' = [len EXCEPT ![t] = 0]
      /\ ret' = [ret EXCEPT ![t] = Failed("None")] /\ taken' = [taken EXCEPT ![t] = << >>]
      /\ UNCHANGED <<build, arrived, queue, metaOn, edge, ready, clean, pc, op, msgs, i, out_idx>>
  BY ZenonT(30) DEF RecvInv, Clear, kernel
<1>1. ss \in Seq(Slots) /\ Len(ss) = capacity(t)
  <2>1. slots[t] \in Seq(Slots)
    BY <1>0, ZenonT(30) DEF Types
  <2> QED BY <2>1, Cleared, ZenonT(30) DEF capacity
<1> HIDE DEF ss
<1>2. Messages' = Messages /\ Received' = Received
  BY <1>0, ZenonT(30) DEF Messages, Received, MaxGro
<1>3. /\ << >> \in Seq(Messages) /\ Len(<< >>) = 0 /\ Failed("None") \in Returns
      /\ Failed("None").kind = "None" /\ Failed("None") # Ok(0)
  BY ReturnsTyped DEF Kinds
<1>4. slots' \in [Tasks -> Seq(Slots)] /\ \A u \in Tasks : capacity(u)' = capacity(u)
  BY <1>0, <1>1, SlotsReplaced, ZenonT(30)
<1>5. /\ ret' \in [Tasks -> Returns] /\ taken' \in [Tasks -> Seq(Messages)] /\ len' \in [Tasks -> Nat]
  BY <1>0, <1>3, ZenonT(30) DEF Types
<1>6. \A u \in Tasks : len'[u] <= capacity(u)
  <2>1. capacity(t) \in Nat
    BY <1>0, SMTT(30) DEF Types, capacity
  <2> QED BY <1>0, <2>1 DEF Types
<1>7. Types'
  BY <1>0, <1>2, <1>4, <1>5, <1>6, SMTT(30) DEF Types
<1>8. TaskInv(t)'
  BY <1>0, <1>3, ZenonT(30) DEF TaskInv, Types
<1> QED BY <1>0, <1>7, <1>8, OneTask, ZenonT(30) DEF Types

(* Steps of the kernel and the driver, and stuttering. *)
LEMMA KernelSteps ==
  ASSUME RecvInv,
         \/ \E n \in 1 .. MaxGro : Arrive(n)
         \/ DriverPolls \/ SetMeta \/ UNCHANGED vars
  PROVE  RecvInv'
<1>0. /\ UNCHANGED <<build, pc, op, slots, len, msgs, i, out_idx, ret, taken, clean>>
  BY ZenonT(30) DEF Arrive, DriverPolls, SetMeta, vars, batch
<1>1. Messages' = Messages /\ Received' = Received
  BY <1>0, ZenonT(30) DEF Messages, Received, MaxGro
<1>2. Types
  BY ZenonT(30) DEF RecvInv
<1>3. /\ arrived' \in Nat /\ queue' \in Seq(Messages)
      /\ metaOn' \in BOOLEAN /\ edge' \in BOOLEAN /\ ready' \in BOOLEAN
  <2>1. ASSUME NEW n \in 1 .. MaxGro, Arrive(n)
        PROVE  /\ arrived' \in Nat /\ queue' \in Seq(Messages)
               /\ metaOn' \in BOOLEAN /\ edge' \in BOOLEAN /\ ready' \in BOOLEAN
    <3>1. MaxGro \in Nat
      BY <1>2, RecvAssumption, ZenonT(30) DEF Types, MaxGro
    <3>2. [first |-> arrived + 1, n |-> n] \in Messages
      BY <1>2, <2>1, <3>1, SMTT(30) DEF Messages, Types
    <3>3. arrived + n \in Nat
      BY <1>2, <2>1, <3>1 DEF Types
    <3> QED BY <1>2, <2>1, <3>2, <3>3, SMTT(30) DEF Arrive, Types
  <2>2. CASE DriverPolls \/ SetMeta \/ UNCHANGED vars
    BY <1>2, <2>2, ZenonT(30) DEF DriverPolls, SetMeta, vars, Types
  <2> QED BY <2>1, <2>2, ZenonT(30)
<1>4. \A u \in Tasks : capacity(u)' = capacity(u)
  BY <1>0, ZenonT(30) DEF capacity
<1>5. Types'
  BY <1>0, <1>1, <1>2, <1>3, <1>4, ZenonT(30) DEF Types
<1>6. ASSUME NEW u \in Tasks PROVE TaskInv(u)'
  BY <1>0, <1>4, ZenonT(30) DEF RecvInv, BatchSyscall, TaskInv
<1> QED BY <1>5, <1>6, ZenonT(30) DEF RecvInv

LEMMA RecvStep == RecvInv /\ [Next]_vars => RecvInv'
<1> SUFFICES ASSUME RecvInv, [Next]_vars PROVE RecvInv' BY ZenonT(30)
<1>1. ASSUME NEW t \in Tasks, Progress(t) PROVE RecvInv'
  BY <1>1, EndSteps, MoveSteps, SyscallTakesStep, LoopTakesStep, ProcessMessageStep, ZenonT(30)
     DEF Progress
<1> QED BY <1>1, CallStep, ClearStep, MoveSteps, KernelSteps, ZenonT(30) DEF Next

LEMMA RecvInvariant == Spec => []RecvInv
BY RecvInit, RecvStep, PTL DEF Spec

(* For any tasks, builds, capacities and interleavings: what the receive   *)
(* calls of src/socket.rs and the backends write stays within the slots'   *)
(* buffers, len within the capacity, and no more messages are taken than   *)
(* there are slots.                                                        *)
THEOREM RecvTypeOK == Spec => []TypeOK
<1>1. RecvInv => TypeOK
  BY TypesOK, ZenonT(30) DEF RecvInv
<1> QED BY <1>1, RecvInvariant, PTL

(* recv_batch (src/socket.rs) can be dropped at its await without losing a *)
(* datagram, and WouldBlock is returned only when none was taken.          *)
THEOREM RecvCancelSafe == Spec => []CancelSafe
<1>1. ASSUME RecvInv PROVE CancelSafe
  <2>1. ASSUME NEW t \in Tasks, Len(taken[t]) = 0 PROVE taken[t] = << >>
    BY SMTT(30), <1>1, <2>1 DEF RecvInv, Types
  <2> QED BY <1>1, <2>1, ZenonT(30) DEF RecvInv, TaskInv, CancelSafe
<1> QED BY <1>1, RecvInvariant, PTL

(* recv_batch and recv_from return neither WouldBlock nor Ok(0), whichever *)
(* way the backend reports an empty queue.                                 *)
THEOREM RecvReturnsSomething == Spec => []AsyncReceives
<1>1. RecvInv => AsyncReceives
  BY ZenonT(30) DEF RecvInv, TaskInv, AsyncReceives
<1> QED BY <1>1, RecvInvariant, PTL

-----------------------------------------------------------------------------
(* No message t took, except the last, is coalesced.  While that is so,    *)
(* out_idx keeps pace with i, and i is below the capacity: the argument    *)
(* behind "SAFETY: i < n <= capacity".                                     *)
Plain(t) == \A k \in 1 .. Len(taken[t]) - 1 : taken[t][k].n = 1

InPace(t) ==
  /\ (pc[t] = "attempt" /\ BatchSyscall) \/ pc[t] = "process" =>
       \A k \in 1 .. Len(msgs[t]) : msgs[t][k].msg = taken[t][k]
  /\ pc[t] = "process" /\ i[t] <= Len(msgs[t]) /\ Plain(t) => out_idx[t] = i[t]
  /\ pc[t] = "panicked" => ~ Plain(t)

LEMMA InPaceInit == Init => \A t \in Tasks : InPace(t)
BY ZenonT(30) DEF Init, InPace

(* t is not touched. *)
LEMMA InPaceKept ==
  ASSUME NEW t \in Tasks, InPace(t), build' = build, pc'[t] = pc[t], msgs'[t] = msgs[t],
         taken'[t] = taken[t], i'[t] = i[t], out_idx'[t] = out_idx[t]
  PROVE  InPace(t)'
<1>1. BatchSyscall' = BatchSyscall /\ Plain(t)' = Plain(t)
  BY ZenonT(30) DEF BatchSyscall, Plain
<1> QED BY <1>1, ZenonT(30) DEF InPace

(* t is where InPace says nothing, or has no messages yet. *)
LEMMA InPaceElsewhere ==
  ASSUME NEW t \in Tasks,
         \/ pc'[t] \in {"idle", "returned", "waiting"}
         \/ pc'[t] = "attempt" /\ Len(msgs'[t]) = 0
  PROVE  InPace(t)'
BY DEF InPace

LEMMA InPaceStep ==
  ASSUME RecvInv, NEW t \in Tasks, InPace(t), [Next]_vars
  PROVE  InPace(t)'
<1>0. /\ Types /\ TaskInv(t) /\ Len(<< >>) = 0
      /\ msgs[t] \in Seq(Received) /\ taken[t] \in Seq(Messages)
      /\ Len(msgs[t]) \in Nat /\ Len(taken[t]) \in Nat
      /\ i[t] \in Nat \ {0} /\ out_idx[t] \in Nat \ {0} /\ Len(msgs[t]) <= capacity(t)
      /\ capacity(t) \in Nat
  BY CallTyped, ZenonT(30) DEF RecvInv
<1>1. CASE SyscallTakes(t)
  <2> DEFINE m  == Head(queue)
             r  == [msg |-> m, meta |-> Cmsgs /\ metaOn]
  <2>1. /\ msgs'[t] = Append(msgs[t], r) /\ taken'[t] = Append(taken[t], m)
        /\ pc'[t] = "attempt" /\ build' = build /\ BatchSyscall /\ pc[t] = "attempt"
    BY <1>0, <1>1, ZenonT(30) DEF SyscallTakes, InSyscall, Types
  <2>2. m \in Messages /\ r \in Received
    BY <1>1, MessageTaken, ZenonT(30) DEF SyscallTakes, Received
  <2>3. r.msg = m /\ Len(taken[t]) = Len(msgs[t])
    BY <1>0, <2>1, ZenonT(30) DEF TaskInv
  <2> HIDE DEF r, m
  <2>4. \A k \in 1 .. Len(msgs'[t]) : msgs'[t][k].msg = taken'[t][k]
    BY SMTT(30), <1>0, <2>1, <2>2, <2>3 DEF InPace
  <2> QED BY <2>1, <2>4, ZenonT(30) DEF InPace
<1>2. CASE SyscallEnds(t)
  <2>1. /\ pc'[t] = "process" /\ pc[t] = "attempt" /\ BatchSyscall
        /\ UNCHANGED <<build, msgs, taken, i, out_idx>>
    BY <1>0, <1>2, ProcessActs, ZenonT(30)
  <2> QED BY <1>0, <2>1, ZenonT(30) DEF InPace, TaskInv, Plain
<1>3. CASE ProcessMessage(t)
  <2>1. /\ UNCHANGED <<build, pc, msgs, taken>> /\ i'[t] = i[t] + 1 /\ pc[t] = "process"
        /\ i[t] <= Len(msgs[t])
        /\ msgs[t][i[t]].msg.n = 1 => out_idx'[t] = out_idx[t] + 1
    <3>1. /\ UNCHANGED <<build, pc, msgs, taken>> /\ i' = [i EXCEPT ![t] = @ + 1]
          /\ pc[t] = "process" /\ i[t] <= Len(msgs[t])
      BY <1>3, ZenonT(30) DEF ProcessMessage, AtMessage, kernel
    <3>2. ~ (msgs[t][i[t]].msg.n > 1) => out_idx' = [out_idx EXCEPT ![t] = out_idx[t] + 1]
      BY <1>3, ZenonT(30) DEF ProcessMessage
    <3>3. i'[t] = i[t] + 1
      BY <1>0, <3>1, ZenonT(30) DEF Types
    <3>4. DOMAIN out_idx = Tasks
      BY <1>0, ZenonT(30) DEF Types
    <3>5. msgs[t][i[t]].msg.n = 1 => out_idx'[t] = out_idx[t] + 1
      BY SMTT(30), <3>2, <3>4
    <3> QED BY <3>1, <3>3, <3>5, ZenonT(30)
  <2>2. ASSUME i[t] + 1 <= Len(msgs[t]), Plain(t) PROVE out_idx'[t] = i[t] + 1
    <3>1. i[t] \in 1 .. Len(taken[t]) - 1 /\ i[t] \in 1 .. Len(msgs[t])
      BY SMTT(30), <1>0, <2>1, <2>2 DEF TaskInv
    <3>2. msgs[t][i[t]].msg.n = 1
      BY <2>1, <2>2, <3>1, ZenonT(30) DEF InPace, Plain
    <3> QED BY <2>1, <2>2, <3>2, ZenonT(30) DEF InPace
  <2>3. Plain(t)' = Plain(t)
    BY <2>1, ZenonT(30) DEF Plain
  <2> QED BY <2>1, <2>2, <2>3, ZenonT(30) DEF InPace
<1>4. CASE ProcessPanics(t)
  <2>1. /\ pc'[t] = "panicked" /\ UNCHANGED taken /\ pc[t] = "process"
        /\ i[t] <= Len(msgs[t]) /\ out_idx[t] > capacity(t)
    BY <1>0, <1>4, ProcessActs, ZenonT(30)
  <2>2. ~ Plain(t)
    BY <1>0, <2>1, SMTT(30) DEF InPace
  <2> QED BY <2>1, <2>2, ZenonT(30) DEF InPace, Plain
<1>5. CASE \/ NoSlots(t) \/ SyscallBlocks(t) \/ SyscallFails(t) \/ ProcessEnds(t)
           \/ LoopEnds(t) \/ LoopFails(t) \/ Finish(t) \/ Block(t)
           \/ \E kind \in {"Error", "Cancelled"} : WaitEnds(t, kind)
  BY <1>0, <1>5, EndActs, ProcessActs, WrapperActs, InPaceElsewhere, ZenonT(30)
<1>6. CASE Resume(t) \/ \E o \in Ops, reuse \in BOOLEAN : Call(t, o, reuse)
  <2>1. CASE Resume(t)
    <3>1. pc[t] = "waiting" /\ pc'[t] = "attempt" /\ msgs' = msgs
      BY <1>0, <2>1, WrapperActs, ZenonT(30)
    <3>2. msgs[t] = << >>
      BY <1>0, <3>1, ZenonT(30) DEF TaskInv
    <3> QED BY <1>0, <3>1, <3>2, InPaceElsewhere, ZenonT(30)
  <2>2. ASSUME NEW o \in Ops, NEW reuse \in BOOLEAN, Call(t, o, reuse) PROVE InPace(t)'
    <3>1. pc[t] = "idle" /\ pc'[t] = "attempt" /\ msgs' = msgs
      BY <1>0, <2>2, CallActs, ZenonT(30)
    <3>2. msgs[t] = << >>
      BY <1>0, <3>1, ZenonT(30) DEF TaskInv
    <3> QED BY <1>0, <3>1, <3>2, InPaceElsewhere, ZenonT(30)
  <2> QED BY <1>6, <2>1, <2>2, ZenonT(30)
<1>7. CASE LoopTakes(t)
  BY <1>0, <1>7, InPaceElsewhere, ZenonT(30) DEF LoopTakes, InLoop, Types, TaskInv
<1>8. CASE Clear(t)
  <2>1. pc'[t] = "idle"
    BY <1>0, <1>8, ClearActs, ZenonT(30)
  <2> QED BY <2>1, InPaceElsewhere, ZenonT(30)
<1>9. CASE (\E n \in 1 .. MaxGro : Arrive(n)) \/ DriverPolls \/ SetMeta \/ UNCHANGED vars
  <2>1. UNCHANGED <<build, pc, msgs, taken, i, out_idx>>
    BY <1>9, NoTask, ZenonT(30)
  <2> QED BY <2>1, InPaceKept, ZenonT(30)
<1>10. ASSUME NEW u \in Tasks, u # t, TaskStep(u) PROVE InPace(t)'
  BY <1>0, <1>10, OtherTasks, InPaceKept, ZenonT(30)
<1>11. CASE TaskStep(t)
  BY ZenonT(30), <1>1, <1>2, <1>3, <1>4, <1>5, <1>6, <1>7, <1>8, <1>11 DEF TaskStep, Progress
<1> QED BY <1>9, <1>10, <1>11, StepCases, ZenonT(30)

(* The indexing of set_recv_len, set_addr and the split in the Linux and   *)
(* macOS backends goes out of bounds only at a message that comes after a  *)
(* coalesced one, so never when GRO is off, and never for a coalesced      *)
(* message at the end, however many segments it has.                       *)
THEOREM RecvPanicsBehindSplit == Spec => []NoPanic
<1>1. (\A t \in Tasks : InPace(t)) /\ RecvInv /\ [Next]_vars => (\A t \in Tasks : InPace(t))'
  BY InPaceStep, ZenonT(30)
<1>2. RecvInv /\ (\A t \in Tasks : InPace(t)) => NoPanic
  <2> SUFFICES ASSUME RecvInv, NEW t \in Tasks, ~ Plain(t)
               PROVE  \E k \in 1 .. Len(taken[t]) - 1 : taken[t][k].n > 1
    BY ZenonT(30) DEF InPace, NoPanic
  <2>1. PICK k \in 1 .. Len(taken[t]) - 1 : taken[t][k].n # 1
    BY ZenonT(30) DEF Plain
  <2>2. taken[t] \in Seq(Messages)
    BY ZenonT(30) DEF RecvInv, Types
  <2>3. taken[t][k] \in Messages
    BY <2>2, SMTT(30)
  <2>4. taken[t][k].n > 1
    BY <2>1, <2>3, SMTT(30) DEF Messages
  <2> QED BY <2>4, ZenonT(30)
<1> QED BY <1>1, <1>2, InPaceInit, RecvInvariant, PTL DEF Spec


-----------------------------------------------------------------------------
(* No slot shows ancillary data; the first n show none but the data of the *)
(* message whose address they show; the slots from n on show none.         *)
NoMeta(ss)      == \A s \in 1 .. Len(ss) : ss[s].meta = 0
OwnMeta(ss, n)  == \A s \in 1 .. n : ss[s].meta \in {0, ss[s].addr}
RestBare(ss, n) == \A s \in n .. Len(ss) : ss[s].meta = 0

(* Before the loop over the messages a clean batch shows none.  In it, the *)
(* slots below out_idx show their own and the others none, whatever was    *)
(* received into their buffers.  A call that must wait showed none, so     *)
(* that its next attempt starts as clean as the first.                     *)
MetaInv(t) ==
  /\ pc[t] = "idle" /\ ret[t].kind = "None" => NoMeta(slots[t])
  /\ clean[t] =>
       /\ pc[t] \in {"attempt", "waiting"} => NoMeta(slots[t])
       /\ pc[t] = "returned" /\ (ret[t].kind = "WouldBlock" \/ ret[t] = Ok(0)) => NoMeta(slots[t])
       /\ pc[t] = "process" => OwnMeta(slots[t], out_idx[t] - 1) /\ RestBare(slots[t], out_idx[t])
       /\ pc[t] \in {"returned", "idle"} /\ ret[t].kind = "Ok" => OwnMeta(slots[t], ret[t].n)

(* A new batch shows no ancillary data. *)
LEMMA NewIsBare ==
  ASSUME NEW c \in Nat
  PROVE  NoMeta(with_capacity(c))
BY EmptySlots, ZenonT(30) DEF NoMeta, with_capacity, EmptySlot

(* All batches are new. *)
LEMMA MetaInit == Init => \A t \in Tasks : MetaInv(t)
<1> SUFFICES ASSUME Init, NEW t \in Tasks PROVE MetaInv(t) BY ZenonT(30)
<1>1. pc[t] = "idle" /\ ret[t].kind = "None"
  BY ZenonT(30) DEF Init, Failed
<1>2. PICK c \in Nat : slots[t] = with_capacity(c)
  BY RecvAssumption, ZenonT(30) DEF Init
<1>3. NoMeta(slots[t])
  BY <1>2, NewIsBare, ZenonT(30)
<1> QED BY <1>1, <1>3, ZenonT(30) DEF MetaInv

(* t is not touched. *)
LEMMA MetaKept ==
  ASSUME NEW t \in Tasks, MetaInv(t), pc'[t] = pc[t], ret'[t] = ret[t], clean'[t] = clean[t],
         slots'[t] = slots[t], out_idx'[t] = out_idx[t]
  PROVE  MetaInv(t)'
BY ZenonT(30) DEF MetaInv

(* Outside the loop over the messages it is enough that a clean batch      *)
(* shows nothing.                                                          *)
LEMMA MetaOfNone ==
  ASSUME NEW t \in Tasks, pc'[t] \in {"attempt", "waiting", "returned"},
         clean'[t] => NoMeta(slots'[t]), ret'[t].n \in Nat, Len(slots'[t]) \in Nat,
         pc'[t] = "returned" /\ ret'[t].kind = "Ok" => ret'[t].n <= Len(slots'[t])
  PROVE  MetaInv(t)'
<1>1. ASSUME clean'[t], pc'[t] = "returned", ret'[t].kind = "Ok"
      PROVE  OwnMeta(slots'[t], ret'[t].n)
  BY <1>1 DEF NoMeta, OwnMeta
<1> QED BY <1>1, ZenonT(30) DEF MetaInv

(* Between calls, when the last one returned no count. *)
LEMMA MetaOfIdle ==
  ASSUME NEW t \in Tasks, pc'[t] = "idle", ret'[t].kind # "Ok",
         ret'[t].kind = "None" => NoMeta(slots'[t])
  PROVE  MetaInv(t)'
BY ZenonT(30) DEF MetaInv

(* recvmmsg and recvfrom write buffers, lengths and addresses only. *)
LEMMA TakesKeepMeta ==
  ASSUME RecvInv, NEW t \in Tasks, SyscallTakes(t) \/ LoopTakes(t), NoMeta(slots[t])
  PROVE  NoMeta(slots'[t])
<1>0. slots[t] \in Seq(Slots) /\ DOMAIN slots = Tasks /\ i[t] \in Nat \ {0} /\ msgs[t] \in Seq(Received)
  BY CallsTyped, ZenonT(30) DEF RecvInv, Types
<1>1. PICK s \in 1 .. Len(slots[t]) : \E x :
        slots' = [slots EXCEPT ![t] = [slots[t] EXCEPT ![s] = x]] /\ x.meta = slots[t][s].meta
  <2>1. CASE SyscallTakes(t)
    <3> DEFINE s == Len(msgs[t]) + 1
               x == [slots[t][s] EXCEPT !.buf = Write(@, Segments(Head(queue)))]
    <3>1. s \in 1 .. Len(slots[t])
      BY <1>0, <2>1 DEF SyscallTakes, capacity
    <3>2. slots' = [slots EXCEPT ![t] = [slots[t] EXCEPT ![s] = x]]
      BY <2>1, ZenonT(30) DEF SyscallTakes
    <3>3. slots[t][s] \in Slots
      BY <1>0, <3>1
    <3>4. x.meta = slots[t][s].meta
      BY <3>3, ZenonT(30) DEF Slots
    <3> QED BY <3>1, <3>2, <3>4, ZenonT(30)
  <2>2. CASE LoopTakes(t)
    <3> DEFINE x == Recvfrom(slots[t][i[t]], Head(queue))
    <3>1. i[t] \in 1 .. Len(slots[t])
      BY <1>0, <2>2 DEF LoopTakes, capacity
    <3>2. slots' = [slots EXCEPT ![t] = [slots[t] EXCEPT ![i[t]] = x]]
      BY <2>2, ZenonT(30) DEF LoopTakes
    <3>3. slots[t][i[t]] \in Slots
      BY <1>0, <3>1
    <3>4. x.meta = slots[t][i[t]].meta
      BY <3>3, ZenonT(30) DEF Slots, Recvfrom
    <3> QED BY <3>1, <3>2, <3>4, ZenonT(30)
  <2> QED BY <2>1, <2>2, ZenonT(30)
<1>2. PICK x : slots'[t] = [slots[t] EXCEPT ![s] = x] /\ x.meta = slots[t][s].meta
  BY <1>0, <1>1, ZenonT(30)
<1>3. Len(slots'[t]) = Len(slots[t])
  BY <1>0, <1>2
<1> QED BY <1>0, <1>2, <1>3, SMTT(30) DEF NoMeta

(* Slot out_idx shows no ancillary data before its message is filled in. *)
LEMMA FilledMeta ==
  ASSUME NEW slot \in Slots, slot.meta = 0, NEW r, NEW total
  PROVE  /\ Filled(slot, r, total).addr = r.msg.first
         /\ Filled(slot, r, total).meta \in {0, r.msg.first}
BY ZenonT(30) DEF Filled, Slots

(* The segments of a coalesced message share its address and its data. *)
LEMMA SplitMeta ==
  ASSUME NEW ss \in Seq(Slots), NEW r, NEW first \in 1 .. Len(ss), NEW total \in Nat \ {0},
         OwnMeta(ss, first - 1), RestBare(ss, first)
  PROVE  /\ OwnMeta(SplitSlots(ss, r, first, total), (first + Split(Len(ss), first, total)) - 1)
         /\ RestBare(SplitSlots(ss, r, first, total), first + Split(Len(ss), first, total))
<1> DEFINE d   == Split(Len(ss), first, total)
           out == SplitSlots(ss, r, first, total)
<1>1. Len(ss) \in Nat /\ ss[first].meta = 0
  BY DEF RestBare
<1>2. d \in 1 .. (Len(ss) - first) + 1
  BY <1>1, SplitRange, ZenonT(30)
<1>3. IsSplit(out, ss, r, first, d)
  BY SplitActs, ZenonT(30)
<1> HIDE DEF d, out
<1>4. Len(out) = Len(ss)
      /\ \A s \in 1 .. Len(ss) : IF s \in first .. first + (d - 1)
                                 THEN out[s].meta \in {0, out[s].addr}
                                 ELSE out[s] = ss[s]
  BY <1>1, <1>3, ZenonT(30) DEF IsSplit
<1>8. OwnMeta(out, (first + d) - 1)
  BY <1>1, <1>2, <1>4, SMTT(30) DEF OwnMeta
<1>9. RestBare(out, first + d)
  <2>1. ASSUME NEW s \in first + d .. Len(out) PROVE out[s].meta = 0
    <3>1. s \in 1 .. Len(ss) /\ s \notin first .. first + (d - 1) /\ s \in first .. Len(ss)
      BY <1>1, <1>2, <1>4, SMTT(30)
    <3> QED BY <1>4, <3>1, ZenonT(30) DEF RestBare
  <2> QED BY <2>1, ZenonT(30) DEF RestBare
<1> QED BY <1>8, <1>9, ZenonT(30) DEF d, out

(* A turn of the loop fills in the data of its own message only. *)
LEMMA ProcessMeta ==
  ASSUME RecvInv, NEW t \in Tasks, ProcessMessage(t),
         OwnMeta(slots[t], out_idx[t] - 1), RestBare(slots[t], out_idx[t])
  PROVE  OwnMeta(slots'[t], out_idx'[t] - 1) /\ RestBare(slots'[t], out_idx'[t])
<1> DEFINE r     == msgs[t][i[t]]
           first == out_idx[t]
           total == Len(Segments(r.msg))
<1>0. slots[t] \in Seq(Slots) /\ DOMAIN slots = Tasks /\ DOMAIN out_idx = Tasks
      /\ out_idx[t] \in Nat \ {0} /\ i[t] \in Nat \ {0} /\ msgs[t] \in Seq(Received) /\ TypeOK
  BY CallsTyped, TypesOK, ZenonT(30) DEF RecvInv, Types
<1>1. first \in 1 .. Len(slots[t]) /\ i[t] \in 1 .. Len(msgs[t])
  BY <1>0, SMTT(30) DEF ProcessMessage, AtMessage, capacity
<1>2. r \in Received
  BY <1>0, <1>1, SMTT(30)
<1>3. total \in Nat \ {0}
  <2>1. r.msg \in Messages
    BY <1>2, ZenonT(30) DEF Received
  <2>2. total \in 1 .. BufSize
    BY <1>0, <2>1, SegmentsTyped, ZenonT(30)
  <2> QED BY <2>2, RecvAssumption
<1>4. CASE r.msg.n > 1
  <2>1. /\ slots' = [slots EXCEPT ![t] = SplitSlots(slots[t], r, first, total)]
        /\ out_idx' = [out_idx EXCEPT ![t] = first + Split(Len(slots[t]), first, total)]
    BY <1>4, ZenonT(30) DEF ProcessMessage, capacity
  <2>2. /\ slots'[t] = SplitSlots(slots[t], r, first, total)
        /\ out_idx'[t] = first + Split(Len(slots[t]), first, total)
    BY <1>0, <2>1, ZenonT(30)
  <2> HIDE DEF r, total
  <2>3. OwnMeta(slots[t], first - 1) /\ RestBare(slots[t], first)
    BY ZenonT(30)
  <2> HIDE DEF first
  <2>4. /\ OwnMeta(slots'[t], (first + Split(Len(slots[t]), first, total)) - 1)
        /\ RestBare(slots'[t], first + Split(Len(slots[t]), first, total))
    BY <1>0, <1>1, <1>3, <2>2, <2>3, SplitMeta, ZenonT(30)
  <2> QED BY <2>2, <2>4, ZenonT(30)
<1>5. CASE ~ (r.msg.n > 1)
  <2> DEFINE x == Filled(slots[t][first], r, total)
  <2>1. /\ slots' = [slots EXCEPT ![t] = [slots[t] EXCEPT ![first] = x]]
        /\ out_idx' = [out_idx EXCEPT ![t] = first + 1]
    BY <1>5, ZenonT(30) DEF ProcessMessage
  <2>2. slots[t][first] \in Slots /\ slots[t][first].meta = 0
    BY <1>0, <1>1, SMTT(30) DEF RestBare
  <2>3. x.meta \in {0, x.addr}
    BY <2>2, FilledMeta, ZenonT(30)
  <2> HIDE DEF x, r, total
  <2>4. slots'[t] = [slots[t] EXCEPT ![first] = x] /\ out_idx'[t] = first + 1
    BY <1>0, <2>1, ZenonT(30)
  <2> QED BY <1>0, <1>1, <2>3, <2>4, SMTT(30) DEF OwnMeta, RestBare
<1> QED BY <1>4, <1>5, ZenonT(30)

(* Every step keeps MetaInv. *)
LEMMA MetaStep ==
  ASSUME RecvInv, RecvInv', NEW t \in Tasks, MetaInv(t), [Next]_vars
  PROVE  MetaInv(t)'
<1>0. Types /\ TaskInv(t)
  BY ZenonT(30) DEF RecvInv
<1>a. /\ slots[t] \in Seq(Slots) /\ Len(slots[t]) \in Nat /\ capacity(t) = Len(slots[t])
      /\ i[t] \in Nat \ {0} /\ out_idx[t] \in Nat \ {0}
  BY <1>0 DEF Types, capacity
<1>b. Len(slots'[t]) \in Nat /\ ret'[t].n \in Nat
  <2>1. slots'[t] \in Seq(Slots) /\ ret'[t] \in Returns
    BY ZenonT(30) DEF RecvInv, Types
  <2> QED BY <2>1 DEF Returns
<1>1. CASE SyscallTakes(t) \/ LoopTakes(t)
  <2>1. pc[t] = "attempt" /\ UNCHANGED <<pc, clean>>
    BY <1>1, ZenonT(30) DEF SyscallTakes, LoopTakes, InSyscall, InLoop
  <2>2. clean'[t] => NoMeta(slots'[t])
    BY <1>1, <2>1, TakesKeepMeta, ZenonT(30) DEF MetaInv
  <2> QED BY <1>b, <2>1, <2>2, MetaOfNone, ZenonT(30)
<1>2. CASE SyscallEnds(t)
  <2>1. pc[t] = "attempt" /\ pc'[t] = "process" /\ UNCHANGED <<slots, out_idx, clean>>
    BY <1>0, <1>2, ProcessActs, ZenonT(30)
  <2>2. out_idx[t] = 1
    BY <1>0, <2>1, ZenonT(30) DEF TaskInv
  <2>3. OwnMeta(slots[t], out_idx[t] - 1) /\ (NoMeta(slots[t]) => RestBare(slots[t], out_idx[t]))
    BY <2>2, SMTT(30) DEF OwnMeta, NoMeta, RestBare
  <2> QED BY <2>1, <2>3, ZenonT(30) DEF MetaInv
<1>3. CASE ProcessMessage(t)
  <2>1. pc[t] = "process" /\ UNCHANGED <<pc, clean>>
    BY <1>3, ZenonT(30) DEF ProcessMessage, AtMessage
  <2> QED BY <1>3, <2>1, ProcessMeta, ZenonT(30) DEF MetaInv
<1>4. CASE ProcessPanics(t)
  BY <1>0, <1>4, ProcessActs, ZenonT(30) DEF MetaInv
<1>5. CASE ProcessEnds(t)
  <2>1. /\ pc[t] = "process" /\ pc'[t] = "returned" /\ ret'[t] = Ok(out_idx[t] - 1)
        /\ UNCHANGED <<slots, clean>> /\ i[t] > Len(msgs[t])
    BY <1>0, <1>5, ProcessActs, ZenonT(30)
  <2>2. i[t] <= out_idx[t] /\ Len(msgs[t]) > 0 /\ Len(msgs[t]) \in Nat
    <3>1. msgs[t] \in Seq(Received)
      BY <1>0, ZenonT(30) DEF Types
    <3> QED BY <1>0, <2>1, <3>1, SMTT(30) DEF TaskInv
  <2>3. PICK n \in Nat \ {0} : n = out_idx[t] - 1
    BY <1>a, <2>1, <2>2, SMTT(30)
  <2>4. Ok(n).kind = "Ok" /\ Ok(n).n = n /\ Ok(n) # Ok(0)
    BY ReturnsTyped, ZenonT(30)
  <2> QED BY <2>1, <2>3, <2>4, ZenonT(30) DEF MetaInv
<1>6. CASE NoSlots(t) \/ SyscallBlocks(t) \/ SyscallFails(t) \/ LoopEnds(t) \/ LoopFails(t)
  <2>1. /\ pc[t] = "attempt" /\ pc'[t] = "returned" /\ UNCHANGED <<slots, clean>>
        /\ ret'[t] \in {Ok(0), Ok(i[t] - 1), Failed("WouldBlock"), Failed("Error")}
    BY <1>0, <1>6, EndActs, ZenonT(30)
  <2>2. i[t] - 1 <= Len(slots[t])
    <3>1. i[t] <= capacity(t) + 1
      BY <1>0, <2>1, ZenonT(30) DEF TaskInv
    <3> QED BY <1>a, <3>1
  <2>3. ret'[t].kind = "Ok" => ret'[t].n <= Len(slots[t])
    BY <1>a, <2>1, <2>2, SMTT(30) DEF Ok, Failed
  <2> QED BY <1>b, <2>1, <2>3, MetaOfNone, ZenonT(30) DEF MetaInv
<1>7. CASE Finish(t)
  <2>1. pc[t] = "returned" /\ pc'[t] = "idle" /\ UNCHANGED <<slots, clean, ret>>
    BY <1>0, <1>7, WrapperActs, ZenonT(30)
  <2>2. ret[t].kind # "None"
    BY <1>0, <2>1, ZenonT(30) DEF TaskInv
  <2> QED BY <2>1, <2>2, ZenonT(30) DEF MetaInv
<1>8. CASE Block(t)
  <2>1. /\ pc[t] = "returned" /\ (ret[t].kind = "WouldBlock" \/ ret[t] = Ok(0))
        /\ UNCHANGED <<slots, clean>>
        /\ pc'[t] = "waiting" \/ (pc'[t] = "idle" /\ ret'[t] = Failed("Error"))
    BY <1>0, <1>8, WrapperActs, ZenonT(30)
  <2>2. CASE pc'[t] = "waiting"
    BY <1>b, <2>1, <2>2, MetaOfNone, ZenonT(30) DEF MetaInv
  <2>3. CASE pc'[t] = "idle" /\ ret'[t] = Failed("Error")
    BY <2>3, MetaOfIdle, SMTT(30) DEF Failed
  <2> QED BY <2>1, <2>2, <2>3, ZenonT(30)
<1>9. CASE Resume(t)
  <2>1. pc[t] = "waiting" /\ pc'[t] = "attempt" /\ UNCHANGED <<slots, clean>>
    BY <1>0, <1>9, WrapperActs, ZenonT(30)
  <2> QED BY <1>b, <2>1, MetaOfNone, ZenonT(30) DEF MetaInv
<1>10. CASE \E kind \in {"Error", "Cancelled"} : WaitEnds(t, kind)
  BY <1>0, <1>10, WrapperActs, MetaOfIdle, ZenonT(30)
<1>11. ASSUME NEW o \in Ops, NEW reuse \in BOOLEAN, Call(t, o, reuse) PROVE MetaInv(t)'
  <2>1. /\ pc[t] = "idle" /\ pc'[t] = "attempt"
        /\ \/ /\ slots' = slots
              /\ clean'[t] => \/ ret[t] = Failed("None")
                              \/ \A s \in DOMAIN slots[t] : slots[t][s].meta = 0
           \/ \E c \in Nat : slots'[t] = with_capacity(c)
    BY <1>0, <1>11, CallActs, ZenonT(30)
  <2>2. ret[t] = Failed("None") => NoMeta(slots[t])
    BY <2>1 DEF MetaInv, Failed
  <2>3. (\A s \in DOMAIN slots[t] : slots[t][s].meta = 0) => NoMeta(slots[t])
    BY <1>a DEF NoMeta
  <2>4. clean'[t] => NoMeta(slots'[t])
    BY <2>1, <2>2, <2>3, NewIsBare, ZenonT(30)
  <2> QED BY <1>b, <2>1, <2>4, MetaOfNone, ZenonT(30)
<1>12. CASE Clear(t)
  <2>1. /\ pc'[t] = "idle" /\ ret'[t] = Failed("None")
        /\ slots'[t] = [s \in DOMAIN slots[t] |-> [slots[t][s] EXCEPT !.recv_len = 0, !.meta = 0]]
    BY <1>0, <1>12, ClearActs, ZenonT(30)
  <2>2. NoMeta(slots'[t])
    <3>1. Len(slots'[t]) = Len(slots[t]) /\ \A s \in 1 .. Len(slots[t]) : slots'[t][s].meta = 0
      <4> DEFINE out == [s \in DOMAIN slots[t] |->
                           [slots[t][s] EXCEPT !.recv_len = 0, !.meta = 0]]
      <4>1. Len(out) = Len(slots[t]) /\ \A s \in 1 .. Len(slots[t]) : out[s].meta = 0
        BY <1>a, Cleared, ZenonT(30)
      <4>2. slots'[t] = out
        BY <2>1, ZenonT(30)
      <4> HIDE DEF out
      <4> QED BY <4>1, <4>2, ZenonT(30)
    <3> QED BY <3>1, ZenonT(30) DEF NoMeta
  <2>3. ret'[t].kind # "Ok"
    <3>1. Failed("None").kind # "Ok"
      BY ZenonT(30) DEF Failed
    <3> QED BY <2>1, <3>1, ZenonT(30)
  <2> QED BY <2>1, <2>2, <2>3, MetaOfIdle, ZenonT(30)
<1>13. CASE (\E n \in 1 .. MaxGro : Arrive(n)) \/ DriverPolls \/ SetMeta \/ UNCHANGED vars
  <2>1. UNCHANGED <<pc, ret, clean, slots, out_idx>>
    BY <1>13, NoTask, ZenonT(30)
  <2> QED BY <2>1, MetaKept, ZenonT(30)
<1>14. ASSUME NEW u \in Tasks, u # t, TaskStep(u) PROVE MetaInv(t)'
  BY <1>0, <1>14, OtherTasks, MetaKept, ZenonT(30)
<1>15. CASE TaskStep(t)
  BY ZenonT(30), <1>1, <1>2, <1>3, <1>4, <1>5, <1>6, <1>7, <1>8, <1>9, <1>10, <1>11, <1>12, <1>15
     DEF TaskStep, Progress
<1> QED BY <1>13, <1>14, <1>15, StepCases, ZenonT(30)

(* RecvBatchRaw::timestamp and ::dst_addr (src/batch.rs) never report the  *)
(* data of another packet when the batch was new or cleared before the     *)
(* call, for any capacities, interleavings, splits and attempts, and       *)
(* although enable_timestamping may be called at any time.                 *)
THEOREM RecvMetadataIsOwn == Spec => []MetadataIsOwn
<1>1. (\A t \in Tasks : MetaInv(t)) /\ RecvInv /\ [Next]_vars => (\A t \in Tasks : MetaInv(t))'
  BY MetaStep, RecvStep, ZenonT(30)
<1>2. (\A t \in Tasks : MetaInv(t)) => MetadataIsOwn
  BY ZenonT(30) DEF MetaInv, OwnMeta, MetadataIsOwn
<1> QED BY <1>1, <1>2, MetaInit, RecvInvariant, PTL DEF Spec
=============================================================================
