------------------------------- MODULE SendProofs -------------------------------
(***************************************************************************)
(* Proofs about SendPath, for any number of tasks, any batches, any size   *)
(* of the send buffer and all four backends.                               *)
(***************************************************************************)
EXTENDS SendPath, TLAPS

(* What holds of one task between any two steps.  Before the kernel is     *)
(* asked, and while the task waits, nothing has been taken; inside a       *)
(* per-packet loop the locals i and sent are the number of entries taken;  *)
(* afterwards the result tells how many were.                              *)
TaskInv(t) ==
  /\ Len(accepted[t]) <= Len(batch[t])
  /\ \A j \in 1 .. Len(accepted[t]) : accepted[t][j].idx = j
  /\ pc[t] \in {"attempt", "syscall", "waiting"} => Len(accepted[t]) = 0
  /\ pc[t] = "loop" =>
       sent[t] = Len(accepted[t]) /\ i[t] = Len(accepted[t]) + 1
  /\ (pc[t] = "returned" /\ ret[t].kind = "Ok") => ret[t].n = Len(accepted[t])
  /\ (pc[t] = "idle" /\ ret[t].kind = "Ok" /\ op[t] \notin SingleOps)
       => ret[t].n = Len(accepted[t])
  /\ (pc[t] \in {"idle", "returned"} /\ ret[t].kind \in {"WouldBlock", "Cancelled"})
       => Len(accepted[t]) = 0

SendInv == TypeOK /\ \A t \in Tasks : TaskInv(t)

Entry == [idx : Nat, dest : Addrs \cup {NoAddr}]

-----------------------------------------------------------------------------
(* What one task does: it calls, goes on, or is cancelled. *)
TaskStep(t) ==
  \/ \E o \in Ops, b \in Batches : Call(t, o, b)
  \/ Progress(t)
  \/ \E kind \in {"Error", "Cancelled"} : WaitEnds(t, kind)

(* A step of one task leaves the calls of the others alone. *)
LEMMA OtherTasks ==
  ASSUME TypeOK, NEW t \in Tasks, NEW u \in Tasks, u # t, TaskStep(t)
  PROVE  /\ pc'[u] = pc[u] /\ ret'[u] = ret[u] /\ accepted'[u] = accepted[u]
         /\ op'[u] = op[u] /\ batch'[u] = batch[u] /\ connected'[u] = connected[u]
<1>1. pc'[u] = pc[u] /\ ret'[u] = ret[u] /\ accepted'[u] = accepted[u]
  BY ZenonT(90)
     DEF TaskStep, Call, Progress, EmptyBatch, ReadConnected, TakeStep, BatchSyscallTakes,
       BatchSyscallBlocks, BatchSyscallFails, LoopSends, LoopBlocks, LoopFails, LoopEnds,
       Finish, Block, Resume, WaitEnds, PlatformReturns, Accept, TypeOK
<1>2. op'[u] = op[u] /\ batch'[u] = batch[u] /\ connected'[u] = connected[u]
  BY ZenonT(30)
     DEF TaskStep, Call, Progress, EmptyBatch, ReadConnected, TakeStep, BatchSyscallTakes,
       BatchSyscallBlocks, BatchSyscallFails, LoopSends, LoopBlocks, LoopFails, LoopEnds,
       Finish, Block, Resume, WaitEnds, TypeOK, call
<1> QED BY <1>1, <1>2, ZenonT(30)

(* connect(), the kernel, the driver and stuttering leave every call alone. *)
LEMMA NoTask ==
  ASSUME (\E a \in Addrs : Connect(a)) \/ Drain \/ DriverPolls \/ UNCHANGED vars
  PROVE  UNCHANGED <<pc, op, batch, connected, i, sent, ret, accepted>>
BY ZenonT(30) DEF Connect, Drain, DriverPolls, vars, locals, call

(* Every step is the step of a task, or one of those. *)
LEMMA StepCases ==
  ASSUME [Next]_vars
  PROVE  \/ \E t \in Tasks : TaskStep(t)
         \/ (\E a \in Addrs : Connect(a)) \/ Drain \/ DriverPolls \/ UNCHANGED vars
BY ZenonT(30) DEF Next, NewCall, TaskStep

(* No step changes the build. *)
LEMMA BuildFixed == [Next]_vars => UNCHANGED build
<1> SUFFICES ASSUME [Next]_vars PROVE build' = build
  BY ZenonT(30)
<1> USE DEF kernel
<1>1. CASE NewCall
  BY <1>1, ZenonT(30) DEF NewCall, Call
<1>2. ASSUME NEW t \in Tasks, Progress(t) PROVE build' = build
  <2>1. CASE EmptyBatch(t) \/ ReadConnected(t) \/ Finish(t) \/ Block(t) \/ Resume(t)
    BY <2>1, ZenonT(30) DEF EmptyBatch, ReadConnected, Finish, Block, Resume
  <2>2. CASE TakeStep(t) \/ BatchSyscallBlocks(t) \/ BatchSyscallFails(t)
    BY <2>2, ZenonT(30) DEF TakeStep, BatchSyscallTakes, BatchSyscallBlocks, BatchSyscallFails
  <2>3. CASE LoopSends(t) \/ LoopBlocks(t) \/ LoopFails(t) \/ LoopEnds(t)
    BY <2>3, ZenonT(30) DEF LoopSends, LoopBlocks, LoopFails, LoopEnds
  <2> QED BY <1>2, <2>1, <2>2, <2>3, ZenonT(30) DEF Progress
<1>3. ASSUME NEW t \in Tasks, NEW kind \in {"Error", "Cancelled"}, WaitEnds(t, kind)
      PROVE  build' = build
  BY <1>3, ZenonT(30) DEF WaitEnds
<1>4. CASE (\E a \in Addrs : Connect(a)) \/ Drain \/ DriverPolls \/ UNCHANGED vars
  BY <1>4, ZenonT(30) DEF Connect, Drain, DriverPolls, vars
<1> QED BY <1>1, <1>2, <1>3, <1>4, ZenonT(30) DEF Next

(* What is known of each call is known of every task. *)
LEMMA CallsTyped ==
  ASSUME TypeOK
  PROVE  /\ DOMAIN pc = Tasks /\ DOMAIN ret = Tasks /\ DOMAIN op = Tasks
         /\ DOMAIN batch = Tasks /\ DOMAIN accepted = Tasks /\ DOMAIN sent = Tasks
BY ZenonT(30) DEF TypeOK

(* The return of a platform call. *)
LEMMA Returns ==
  ASSUME TypeOK, NEW t \in Tasks, NEW r, PlatformReturns(t, r)
  PROVE  pc'[t] = "returned" /\ ret'[t] = r
BY CallsTyped, ZenonT(30) DEF PlatformReturns

(* Where a wrapper leaves a call. *)
LEMMA WrapperActs ==
  ASSUME TypeOK, NEW t \in Tasks
  PROVE  /\ Finish(t) => /\ pc[t] = "returned" /\ pc'[t] = "idle"
                         /\ ret[t].kind # "Ok" => ret'[t] = ret[t]
                         /\ ret'[t].kind = "Ok" <=> ret[t].kind = "Ok"
         /\ Block(t) => /\ pc[t] = "returned" /\ ret[t].kind = "WouldBlock"
                        /\ pc'[t] = "waiting" \/ (pc'[t] = "idle" /\ ret'[t] = Failed("Error"))
         /\ Resume(t) => pc'[t] = "attempt"
         /\ Finish(t) \/ Block(t) \/ Resume(t) => UNCHANGED <<op, batch, accepted>>
<1>1. Finish(t) => /\ pc[t] = "returned" /\ pc'[t] = "idle"
                   /\ ret[t].kind # "Ok" => ret'[t] = ret[t]
                   /\ ret'[t].kind = "Ok" <=> ret[t].kind = "Ok"
  BY CallsTyped DEF Finish, Ok
<1>2. Block(t) => /\ pc[t] = "returned" /\ ret[t].kind = "WouldBlock"
                  /\ pc'[t] = "waiting" \/ (pc'[t] = "idle" /\ ret'[t] = Failed("Error"))
  BY CallsTyped, ZenonT(30) DEF Block
<1>3. Resume(t) => pc'[t] = "attempt"
  BY CallsTyped, ZenonT(30) DEF Resume
<1>4. Finish(t) \/ Block(t) \/ Resume(t) => UNCHANGED <<op, batch, accepted>>
  BY ZenonT(30) DEF Finish, Block, Resume, call
<1> QED BY <1>1, <1>2, <1>3, <1>4, ZenonT(30)

(* An error a wrapper leaves behind was an error, or a WouldBlock, before. *)
LEMMA WrapperErrors ==
  ASSUME TypeOK, NEW t \in Tasks, Finish(t) \/ Block(t) \/ Resume(t)
  PROVE  /\ pc'[t] # "loop" /\ accepted' = accepted
         /\ (pc'[t] \in {"idle", "returned"} /\ ret'[t].kind = "Error")
              => pc[t] = "returned" /\ ret[t].kind \in {"Error", "WouldBlock"}
BY WrapperActs, ZenonT(30)

(* The steps that end a platform call, and what they return through. *)
PlatformEnds(t) ==
  \/ EmptyBatch(t) \/ TakeStep(t) \/ BatchSyscallBlocks(t) \/ BatchSyscallFails(t)
  \/ LoopBlocks(t) \/ LoopFails(t) \/ LoopEnds(t)

LEMMA EndsReturn ==
  ASSUME NEW t \in Tasks, PlatformEnds(t)
  PROVE  \E r : PlatformReturns(t, r)
BY ZenonT(30) DEF PlatformEnds, EmptyBatch, TakeStep, BatchSyscallTakes, BatchSyscallBlocks,
   BatchSyscallFails, LoopBlocks, LoopFails, LoopEnds

(* Where the steps inside a platform call find it and leave it. *)
LEMMA InsideActs ==
  ASSUME TypeOK, NEW t \in Tasks
  PROVE  /\ ReadConnected(t) => /\ pc[t] = "attempt" /\ pc'[t] \in {"syscall", "loop"}
                                /\ ~ (Platform = "linux" /\ BatchSyscall)
         /\ LoopSends(t) \/ LoopBlocks(t) \/ LoopFails(t) \/ LoopEnds(t) => pc[t] = "loop"
         /\ LoopSends(t) => pc'[t] = "loop" /\ sent'[t] = sent[t] + 1
         /\ PlatformEnds(t) => pc[t] # "idle" /\ pc'[t] = "returned"
         /\ PlatformEnds(t) \/ ReadConnected(t) \/ LoopSends(t) => op' = op /\ batch' = batch
<1>1. ReadConnected(t) => /\ pc[t] = "attempt" /\ pc'[t] \in {"syscall", "loop"}
                          /\ ~ (Platform = "linux" /\ BatchSyscall)
  BY CallsTyped, ZenonT(30) DEF ReadConnected
<1>2. LoopSends(t) \/ LoopBlocks(t) \/ LoopFails(t) \/ LoopEnds(t) => pc[t] = "loop"
  BY ZenonT(30) DEF LoopSends, LoopBlocks, LoopFails, LoopEnds, AtPacket
<1>3. LoopSends(t) => pc'[t] = "loop" /\ sent'[t] = sent[t] + 1
  BY CallsTyped, ZenonT(30) DEF LoopSends, AtPacket
<1>4. PlatformEnds(t) => pc'[t] = "returned"
  BY EndsReturn, Returns, ZenonT(30)
<1>5. PlatformEnds(t) => pc[t] # "idle"
  BY <1>2, ZenonT(30) DEF PlatformEnds, EmptyBatch, TakeStep, BatchSyscallTakes, BatchSyscallBlocks,
     BatchSyscallFails, AtBatchSyscall
<1>6. PlatformEnds(t) \/ ReadConnected(t) \/ LoopSends(t) => op' = op /\ batch' = batch
  BY ZenonT(30) DEF PlatformEnds, EmptyBatch, TakeStep, BatchSyscallTakes, BatchSyscallBlocks,
     BatchSyscallFails, LoopBlocks, LoopFails, LoopEnds, ReadConnected, LoopSends, call
<1> QED BY <1>1, <1>2, <1>3, <1>4, <1>5, <1>6, ZenonT(30)

(* Where a call and the end of a wait leave a task. *)
LEMMA OuterActs ==
  ASSUME TypeOK, NEW t \in Tasks
  PROVE  /\ \A o \in Ops, b \in Batches : Call(t, o, b) =>
              pc'[t] = "attempt" /\ op'[t] = o /\ batch'[t] = b /\ (o \in SingleOps => Len(b) = 1)
         /\ \A kind \in {"Error", "Cancelled"} : WaitEnds(t, kind) =>
              /\ pc[t] = "waiting" /\ pc'[t] = "idle" /\ ret'[t] = Failed(kind)
              /\ UNCHANGED <<op, batch, accepted>>
<1>1. ASSUME NEW o \in Ops, NEW b \in Batches, Call(t, o, b)
      PROVE  pc'[t] = "attempt" /\ op'[t] = o /\ batch'[t] = b /\ (o \in SingleOps => Len(b) = 1)
  BY <1>1, CallsTyped, ZenonT(30) DEF Call
<1>2. ASSUME NEW kind \in {"Error", "Cancelled"}, WaitEnds(t, kind)
      PROVE  /\ pc[t] = "waiting" /\ pc'[t] = "idle" /\ ret'[t] = Failed(kind)
             /\ UNCHANGED <<op, batch, accepted>>
  BY <1>2, CallsTyped, ZenonT(30) DEF WaitEnds, call
<1> QED BY <1>1, <1>2, ZenonT(30)

(* A call is over only by the return of the wrapper or the end of a wait. *)
LEMMA EndsBy ==
  ASSUME TypeOK, NEW t \in Tasks, TaskStep(t), pc'[t] = "idle"
  PROVE  Finish(t) \/ Block(t) \/ \E kind \in {"Error", "Cancelled"} : WaitEnds(t, kind)
<1>1. ~ (PlatformEnds(t) \/ ReadConnected(t) \/ LoopSends(t) \/ Resume(t))
  BY InsideActs, WrapperActs, ZenonT(30)
<1>2. ~ \E o \in Ops, b \in Batches : Call(t, o, b)
  BY OuterActs, ZenonT(30)
<1> QED BY <1>1, <1>2, ZenonT(30) DEF TaskStep, Progress, PlatformEnds

-----------------------------------------------------------------------------
(* What a batch syscall reports is a natural number. *)
LEMMA TakesNat == \A k \in 1 .. SndBuf : k \in Nat /\ k > 0
BY SendAssumption

(* A sequence of length zero is the empty sequence. *)
LEMMA ZeroLength ==
  ASSUME NEW S, NEW s \in Seq(S), Len(s) = 0
  PROVE  s = << >>
OBVIOUS

(* A function on 1 .. n is a sequence of length n. *)
LEMMA FunctionIsSeq ==
  ASSUME NEW S, NEW n \in Nat, NEW f \in [1 .. n -> S]
  PROVE  f \in Seq(S) /\ Len(f) = n
<1>1. f \in Seq(S)
  OBVIOUS
<1>2. DOMAIN f = 1 .. n
  BY ZenonT(30)
<1> QED BY <1>1, <1>2

(* Appending consecutive positions to consecutive positions. *)
LEMMA AppendEntries ==
  ASSUME NEW acc \in Seq(Entry), NEW more \in Seq(Entry),
         \A j \in 1 .. Len(acc) : acc[j].idx = j,
         \A j \in 1 .. Len(more) : more[j].idx = Len(acc) + j
  PROVE  /\ acc \o more \in Seq(Entry)
         /\ Len(acc \o more) = Len(acc) + Len(more)
         /\ \A j \in 1 .. Len(acc \o more) : (acc \o more)[j].idx = j
<1>1. /\ acc \o more \in Seq(Entry)
      /\ Len(acc \o more) = Len(acc) + Len(more)
      /\ \A j \in 1 .. Len(acc) + Len(more) : (acc \o more)[j] =
           IF j <= Len(acc) THEN acc[j] ELSE more[j - Len(acc)]
  OBVIOUS
<1>2. Len(acc) \in Nat /\ Len(more) \in Nat
  OBVIOUS
<1>3. ASSUME NEW j \in 1 .. Len(acc) + Len(more)
      PROVE  (acc \o more)[j].idx = j
  <2>1. CASE j <= Len(acc)
    BY <2>1, <1>1, <1>2
  <2>2. CASE j > Len(acc)
    <3>1. j - Len(acc) \in 1 .. Len(more)
      BY <2>2, <1>2
    <3>2. more[j - Len(acc)].idx = j
      BY <3>1, <1>2
    <3> QED BY <3>2, <2>2, <1>1, <1>2
  <2> QED BY <2>1, <2>2, <1>2
<1> QED BY <1>1, <1>3, ZenonT(30)

(* What Accept does to the history, when it goes on where the call is. *)
LEMMA AcceptEffect ==
  ASSUME TypeOK, NEW t \in Tasks, NEW S, NEW names \in Seq(S),
         \A j \in 1 .. Len(names) : Destination(names[j]) \in Addrs,
         \A j \in 1 .. Len(accepted[t]) : accepted[t][j].idx = j,
         Accept(t, Len(accepted[t]) + 1, names)
  PROVE  /\ accepted' \in [Tasks -> Seq(Entry)]
         /\ Len(accepted'[t]) = Len(accepted[t]) + Len(names)
         /\ \A j \in 1 .. Len(accepted'[t]) : accepted'[t][j].idx = j
         /\ \A u \in Tasks \ {t} : accepted'[u] = accepted[u]
<1>0. PICK drops \in BOOLEAN :
        accepted' = [accepted EXCEPT ![t] = @ \o
          [j \in 1 .. Len(names) |-> [idx  |-> (Len(accepted[t]) + 1) + j - 1,
                                      dest |-> Reached(t, names[j], drops)]]]
  BY ZenonT(30) DEF Accept
<1>a. \A j \in 1 .. Len(names) : Reached(t, names[j], drops) \in Addrs \cup {NoAddr}
  BY ZenonT(30) DEF Reached
<1> DEFINE more == [j \in 1 .. Len(names) |->
                     [idx  |-> (Len(accepted[t]) + 1) + j - 1,
                      dest |-> Reached(t, names[j], drops)]]
<1>1. accepted[t] \in Seq(Entry) /\ accepted \in [Tasks -> Seq(Entry)]
  BY ZenonT(30) DEF TypeOK, Entry
<1>2. Len(names) \in Nat /\ Len(accepted[t]) \in Nat
  BY <1>1
<1>3. \A j \in 1 .. Len(names) : more[j] \in Entry /\ more[j].idx = Len(accepted[t]) + j
  BY <1>2, <1>a DEF Entry
<1>4. more \in [1 .. Len(names) -> Entry]
  BY <1>3, ZenonT(30)
<1>5. accepted' = [accepted EXCEPT ![t] = @ \o more]
  BY <1>0, ZenonT(30)
<1> HIDE DEF more
<1>6. more \in Seq(Entry) /\ Len(more) = Len(names)
  BY <1>2, <1>4, FunctionIsSeq, ZenonT(30)
<1>7. /\ accepted[t] \o more \in Seq(Entry)
      /\ Len(accepted[t] \o more) = Len(accepted[t]) + Len(more)
      /\ \A j \in 1 .. Len(accepted[t] \o more) : (accepted[t] \o more)[j].idx = j
  BY ZenonT(30), <1>1, <1>3, <1>6, AppendEntries
<1>8. accepted'[t] = accepted[t] \o more
  BY <1>1, <1>5, ZenonT(30)
<1> QED BY <1>1, <1>5, <1>6, <1>7, <1>8, ZenonT(30)

-----------------------------------------------------------------------------
(* A call starts with nothing taken. *)
LEMMA CallStep ==
  ASSUME SendInv, NEW t \in Tasks, NEW o \in Ops, NEW b \in Batches, Call(t, o, b)
  PROVE  SendInv'
<1> USE DEF SendInv, Call, kernel, Failed
<1>1. b \in Seq(Addrs \cup {NoAddr}) /\ Len(b) \in Nat
  BY SendAssumption
<1>2. TypeOK'
  <2>1. /\ << >> \in Seq([idx : Nat, dest : Addrs \cup {NoAddr}])
        /\ [kind |-> "None", n |-> 0] \in [kind : Kinds, n : Nat]
    BY DEF Kinds
  <2>2. accepted' \in [Tasks -> Seq([idx : Nat, dest : Addrs \cup {NoAddr}])]
    BY ZenonT(30), <2>1 DEF TypeOK
  <2>3. /\ batch' \in [Tasks -> Seq(Addrs \cup {NoAddr})]
        /\ ret' \in [Tasks -> [kind : Kinds, n : Nat]]
        /\ op' \in [Tasks -> Ops \cup {"none"}]
        /\ connected' \in [Tasks -> BOOLEAN]
    BY <1>1, <2>1, ZenonT(30) DEF TypeOK
  <2> QED BY ZenonT(30), <2>2, <2>3 DEF TypeOK
<1>3. ASSUME NEW u \in Tasks PROVE TaskInv(u)'
  BY <1>1 DEF TypeOK, TaskInv
<1> QED BY <1>2, <1>3, ZenonT(30)

(* The returns of the platform call that take nothing. *)
LEMMA ReturnStep ==
  ASSUME SendInv, NEW t \in Tasks, NEW r \in [kind : Kinds, n : Nat],
         PlatformReturns(t, r),
         r.kind = "Ok" => r.n = Len(accepted[t]),
         r.kind \in {"WouldBlock", "Cancelled"} => Len(accepted[t]) = 0,
         UNCHANGED <<kernel, call, accepted, fresh>>
  PROVE  SendInv'
<1> USE DEF SendInv, PlatformReturns, kernel, call
<1>1. TypeOK'
  BY ZenonT(30) DEF TypeOK
<1>2. ASSUME NEW u \in Tasks PROVE TaskInv(u)'
  BY ZenonT(30) DEF TypeOK, TaskInv
<1> QED BY <1>1, <1>2, ZenonT(30)

(* The results a platform call returns are of the type of ret. *)
LEMMA ReturnsAreTyped ==
  /\ \A k \in Nat : Ok(k) \in [kind : Kinds, n : Nat] /\ Ok(k).kind = "Ok" /\ Ok(k).n = k
  /\ \A k \in Kinds : Failed(k) \in [kind : Kinds, n : Nat] /\ Failed(k).kind = k
  BY ZenonT(30) DEF Ok, Failed, Kinds

(* The ends of an attempt that take nothing more: an empty batch,          *)
(* WouldBlock, an error, the end of a loop.                                *)
LEMMA NoTakeSteps ==
  ASSUME SendInv, NEW t \in Tasks,
         \/ EmptyBatch(t) \/ BatchSyscallBlocks(t) \/ BatchSyscallFails(t)
         \/ LoopBlocks(t) \/ LoopFails(t) \/ LoopEnds(t)
  PROVE  SendInv'
<1>1. /\ Len(accepted[t]) \in Nat /\ sent[t] \in Nat
      /\ pc[t] \in {"attempt", "syscall"} => Len(accepted[t]) = 0
      /\ pc[t] = "loop" => sent[t] = Len(accepted[t])
  BY DEF SendInv, TypeOK, TaskInv
<1>2. "WouldBlock" \in Kinds /\ "Error" \in Kinds
  BY ZenonT(30) DEF Kinds
<1>3. CASE EmptyBatch(t)
  BY <1>1, <1>3, ReturnStep, ReturnsAreTyped, ZenonT(30) DEF EmptyBatch
<1>4. CASE BatchSyscallBlocks(t)
  BY <1>1, <1>2, <1>4, ReturnStep, ReturnsAreTyped, ZenonT(30) DEF BatchSyscallBlocks, AtBatchSyscall
<1>5. CASE BatchSyscallFails(t)
  BY <1>1, <1>2, <1>5, ReturnStep, ReturnsAreTyped, ZenonT(30) DEF BatchSyscallFails, AtBatchSyscall
<1>6. CASE LoopBlocks(t)
  BY <1>1, <1>6, ReturnStep, ReturnsAreTyped, ZenonT(90) DEF LoopBlocks, AtPacket
<1>7. CASE LoopFails(t)
  BY <1>1, <1>2, <1>7, ReturnStep, ReturnsAreTyped DEF LoopFails, AtPacket
<1>8. CASE LoopEnds(t)
  BY <1>1, <1>8, ReturnStep, ReturnsAreTyped, ZenonT(90) DEF LoopEnds
<1> QED BY <1>3, <1>4, <1>5, <1>6, <1>7, <1>8, ZenonT(30)

(* Entering a loop (or sendmsg_x): the locals start at nothing taken. *)
LEMMA ReadConnectedStep ==
  ASSUME SendInv, NEW t \in Tasks, ReadConnected(t)
  PROVE  SendInv'
<1> USE DEF SendInv, ReadConnected, kernel
<1>1. TypeOK'
  BY ZenonT(30) DEF TypeOK
<1>2. ASSUME NEW u \in Tasks PROVE TaskInv(u)'
  <2>1. CASE u = t
    <3>1. pc'[t] \in {"syscall", "loop"} /\ i'[t] = 1 /\ sent'[t] = 0
      BY ZenonT(30) DEF TypeOK
    <3>2. Len(accepted[t]) = 0 /\ accepted' = accepted /\ batch' = batch
      BY ZenonT(30) DEF TaskInv
    <3> QED BY <2>1, <3>1, <3>2 DEF TypeOK, TaskInv
  <2>2. CASE u # t
    <3>1. /\ pc'[u] = pc[u] /\ i'[u] = i[u] /\ sent'[u] = sent[u]
          /\ UNCHANGED <<op, batch, ret, accepted>>
      BY <2>2, ZenonT(30) DEF TypeOK
    <3> QED BY <3>1, ZenonT(30) DEF TaskInv
  <2> QED BY <2>1, <2>2, ZenonT(30)
<1> QED BY <1>1, <1>2, ZenonT(30)

(* The wrappers and the environment take nothing. *)
LEMMA WrapperSteps ==
  ASSUME SendInv, NEW t \in Tasks,
         \/ Finish(t) \/ Block(t) \/ Resume(t)
         \/ \E kind \in {"Error", "Cancelled"} : WaitEnds(t, kind)
  PROVE  SendInv'
<1> USE DEF SendInv, kernel, locals, call, Ok, Failed
<1>1. CASE Finish(t)
  <2>1. TypeOK'
    BY ZenonT(30), <1>1 DEF TypeOK, Kinds, Finish
  <2>2. ASSUME NEW u \in Tasks PROVE TaskInv(u)'
    BY <1>1, ZenonT(30) DEF TypeOK, TaskInv, Finish
  <2> QED BY <2>1, <2>2, ZenonT(30)
<1>2. CASE Block(t)
  <2> USE DEF Block
  <2>1. CASE Tokio
    <3>1. /\ pc' = [pc EXCEPT ![t] = "waiting"] /\ ret[t].kind = "WouldBlock"
          /\ pc[t] = "returned" /\ UNCHANGED <<ret, fresh, kernel, locals, call, accepted>>
      BY <1>2, <2>1, ZenonT(30)
    <3>2. TypeOK'
      BY ZenonT(30), <3>1 DEF TypeOK
    <3>3. ASSUME NEW u \in Tasks PROVE TaskInv(u)'
      BY <3>1, ZenonT(30) DEF TypeOK, TaskInv
    <3> QED BY <3>2, <3>3, ZenonT(30)
  <2>2. CASE ~ Tokio
    <3>1. /\ pc' = [pc EXCEPT ![t] = "idle"] /\ pc[t] = "returned"
          /\ ret' = [ret EXCEPT ![t] = [kind |-> "Error", n |-> 0]]
          /\ fresh' = fresh \ {t} /\ UNCHANGED <<kernel, locals, call, accepted>>
      BY <1>2, <2>2, ZenonT(30)
    <3>2. TypeOK'
      BY ZenonT(30), <3>1 DEF TypeOK, Kinds
    <3>3. ASSUME NEW u \in Tasks PROVE TaskInv(u)'
      BY <3>1, ZenonT(30) DEF TypeOK, TaskInv
    <3> QED BY <3>2, <3>3, ZenonT(30)
  <2> QED BY <2>1, <2>2, ZenonT(30)
<1>3. CASE Resume(t)
  <2>1. TypeOK'
    BY ZenonT(30), <1>3 DEF TypeOK, Resume
  <2>2. ASSUME NEW u \in Tasks PROVE TaskInv(u)'
    BY <1>3, ZenonT(30) DEF TypeOK, TaskInv, Resume
  <2> QED BY <2>1, <2>2, ZenonT(30)
<1>4. ASSUME NEW kind \in {"Error", "Cancelled"}, WaitEnds(t, kind)
      PROVE  SendInv'
  <2>1. TypeOK'
    BY ZenonT(30), <1>4 DEF TypeOK, Kinds, WaitEnds
  <2>2. ASSUME NEW u \in Tasks PROVE TaskInv(u)'
    BY <1>4, ZenonT(30) DEF TypeOK, TaskInv, WaitEnds
  <2> QED BY <2>1, <2>2, ZenonT(30)
<1> QED BY <1>1, <1>2, <1>3, <1>4, ZenonT(30)

(* connect(), the kernel and the Tokio driver touch no task's call. *)
LEMMA EnvironmentSteps ==
  ASSUME SendInv, (\E a \in Addrs : Connect(a)) \/ Drain \/ DriverPolls
  PROVE  SendInv'
<1> USE DEF SendInv, locals, call
<1>1. UNCHANGED <<pc, op, batch, connected, i, sent, ret, accepted>>
  BY ZenonT(30) DEF Connect, Drain, DriverPolls
<1>2. \A t \in Tasks : TaskInv(t)'
  BY <1>1, ZenonT(30) DEF TaskInv
<1>3. TypeOK'
  <2>1. CASE \E a \in Addrs : Connect(a)
    BY ZenonT(30), <1>1, <2>1 DEF TypeOK, Connect
  <2>2. CASE Drain
    <3>1. queued' \in 0 .. SndBuf /\ edge' \in BOOLEAN /\ UNCHANGED <<build, peer, ready, fresh>>
      BY <2>2, SendAssumption DEF TypeOK, Drain
    <3> QED BY ZenonT(30), <1>1, <3>1 DEF TypeOK
  <2>3. CASE DriverPolls
    <3>1. /\ edge' = FALSE /\ ready' = TRUE /\ UNCHANGED <<build, peer, queued>>
          /\ fresh' \in SUBSET Tasks
      BY <2>3, ZenonT(30) DEF DriverPolls
    <3> QED BY ZenonT(30), <1>1, <3>1 DEF TypeOK
  <2> QED BY <2>1, <2>2, <2>3, ZenonT(30)
<1> QED BY <1>2, <1>3, ZenonT(30)

-----------------------------------------------------------------------------
(* The headers of a batch are a sequence as long as the batch. *)
LEMMA NamesAreSeq ==
  ASSUME NEW b \in Seq(Addrs \cup {NoAddr})
  PROVE  \E S : MsgNames(b) \in Seq(S) /\ Len(MsgNames(b)) = Len(b)
<1> DEFINE names == MsgNames(b)
           S     == {names[j] : j \in 1 .. Len(b)}
<1>1. DOMAIN names = 1 .. Len(b) /\ names = [j \in 1 .. Len(b) |-> names[j]]
  BY DEF MsgNames
<1>2. Len(b) \in Nat
  OBVIOUS
<1> HIDE DEF names
<1>3. names \in [1 .. Len(b) -> S]
  BY <1>1, ZenonT(30)
<1> HIDE DEF S
<1>4. names \in Seq(S) /\ Len(names) = Len(b)
  BY <1>2, <1>3, FunctionIsSeq, ZenonT(30)
<1> QED BY <1>4, ZenonT(30) DEF names

(* A batch syscall takes a prefix of the batch of a call that has nothing  *)
(* taken yet, and returns its length.                                      *)
LEMMA TakesStep ==
  ASSUME SendInv, NEW t \in Tasks, NEW k \in Nat, BatchSyscallTakes(t, k)
  PROVE  SendInv'
<1> DEFINE names == MsgNames(batch[t])
<1> USE DEF SendInv
<1>1. /\ k \in 1 .. Len(names) /\ k <= Space
      /\ \A j \in 1 .. k : Destination(names[j]) \in Addrs
      /\ Accept(t, 1, SubSeq(names, 1, k))
      /\ PlatformReturns(t, Ok(k))
      /\ UNCHANGED <<build, peer, edge, ready, op, batch, connected, fresh>>
  BY ZenonT(30) DEF BatchSyscallTakes, Deliverable, call
<1>2. Len(accepted[t]) = 0 /\ accepted[t] \in Seq(Entry)
  BY ZenonT(30) DEF BatchSyscallTakes, AtBatchSyscall, TypeOK, TaskInv, Entry
<1>3. PICK S : names \in Seq(S) /\ Len(names) = Len(batch[t])
  BY ZenonT(30), NamesAreSeq DEF TypeOK
<1> DEFINE prefix == SubSeq(names, 1, k)
<1>4. prefix \in Seq(S) /\ Len(prefix) = k /\ \A j \in 1 .. k : prefix[j] = names[j]
  BY <1>1, <1>3
<1> HIDE DEF names, prefix
<1>5. Accept(t, Len(accepted[t]) + 1, prefix)
  BY <1>1, <1>2 DEF prefix
<1>6. /\ accepted' \in [Tasks -> Seq(Entry)]
      /\ Len(accepted'[t]) = k
      /\ \A j \in 1 .. Len(accepted'[t]) : accepted'[t][j].idx = j
      /\ \A u \in Tasks \ {t} : accepted'[u] = accepted[u]
  BY <1>1, <1>2, <1>4, <1>5, AcceptEffect, SMTT(90)
<1>7. queued' = queued + k
  BY <1>1, <1>4, <1>5, ZenonT(30) DEF Accept
<1>8. TypeOK'
  <2>1. queued' \in 0 .. SndBuf
    BY <1>1, <1>7, SendAssumption DEF TypeOK, Space
  <2>2. /\ pc' \in [Tasks -> {"idle", "attempt", "syscall", "loop", "returned", "waiting"}]
        /\ ret' \in [Tasks -> [kind : Kinds, n : Nat]]
        /\ i' \in [Tasks -> Nat] /\ sent' \in [Tasks -> Nat]
    BY <1>1, ReturnsAreTyped, ZenonT(30) DEF TypeOK, PlatformReturns
  <2> QED BY ZenonT(30), <1>1, <1>6, <2>1, <2>2 DEF TypeOK, Entry
<1>9. ASSUME NEW u \in Tasks PROVE TaskInv(u)'
  <2>1. CASE u = t
    <3>1. pc'[t] = "returned" /\ ret'[t] = Ok(k) /\ batch' = batch
      BY <1>1, ZenonT(30) DEF PlatformReturns, TypeOK
    <3>2. k <= Len(batch[t])
      BY <1>1, <1>3
    <3> QED BY <2>1, <3>1, <3>2, <1>6, ReturnsAreTyped, ZenonT(30) DEF TaskInv
  <2>2. CASE u # t
    <3>1. /\ pc'[u] = pc[u] /\ i'[u] = i[u] /\ sent'[u] = sent[u]
          /\ ret'[u] = ret[u] /\ accepted'[u] = accepted[u] /\ UNCHANGED <<op, batch>>
      BY <2>2, <1>1, <1>6, ZenonT(30) DEF PlatformReturns, TypeOK
    <3> QED BY <3>1, ZenonT(30) DEF TaskInv
  <2> QED BY <2>1, <2>2, ZenonT(30)
<1> QED BY <1>8, <1>9, ZenonT(30)

(* One turn of a per-packet loop takes the next entry. *)
LEMMA LoopSendsStep ==
  ASSUME SendInv, NEW t \in Tasks, LoopSends(t)
  PROVE  SendInv'
<1> USE DEF SendInv
<1> DEFINE name == PacketName(t)
<1>1. /\ pc[t] = "loop" /\ i[t] <= Len(batch[t]) /\ Space > 0
      /\ Destination(name) \in Addrs
      /\ Accept(t, i[t], <<name>>)
      /\ i' = [i EXCEPT ![t] = @ + 1] /\ sent' = [sent EXCEPT ![t] = @ + 1]
      /\ UNCHANGED <<build, peer, edge, ready, pc, op, batch, connected, ret, fresh>>
  BY ZenonT(30) DEF LoopSends, AtPacket, Deliverable
<1>2. /\ sent[t] = Len(accepted[t]) /\ i[t] = Len(accepted[t]) + 1
      /\ Len(accepted[t]) \in Nat
  BY <1>1 DEF TaskInv, TypeOK
<1> HIDE DEF name
<1>3. /\ <<name>> \in Seq({name}) /\ Len(<<name>>) = 1
      /\ \A j \in 1 .. Len(<<name>>) : Destination(<<name>>[j]) \in Addrs
  BY <1>1
<1>4. /\ accepted' \in [Tasks -> Seq(Entry)]
      /\ Len(accepted'[t]) = Len(accepted[t]) + 1
      /\ \A j \in 1 .. Len(accepted'[t]) : accepted'[t][j].idx = j
      /\ \A u \in Tasks \ {t} : accepted'[u] = accepted[u]
  <2>1. \A j \in 1 .. Len(accepted[t]) : accepted[t][j].idx = j
    BY ZenonT(30) DEF TaskInv
  <2>2. Accept(t, Len(accepted[t]) + 1, <<name>>)
    BY <1>1, <1>2, ZenonT(30)
  <2> QED BY ZenonT(30), <2>1, <2>2, <1>3, AcceptEffect
<1>5. queued' = queued + 1
  BY <1>1, <1>3, ZenonT(30) DEF Accept
<1>6. TypeOK'
  <2>1. queued' \in 0 .. SndBuf
    BY <1>1, <1>5, SendAssumption DEF TypeOK, Space
  <2>2. i' \in [Tasks -> Nat] /\ sent' \in [Tasks -> Nat]
    BY SMTT(30), <1>1 DEF TypeOK
  <2> QED BY ZenonT(30), <1>1, <1>4, <2>1, <2>2 DEF TypeOK, Entry
<1>7. ASSUME NEW u \in Tasks PROVE TaskInv(u)'
  <2>1. CASE u = t
    <3>1. /\ i'[t] = i[t] + 1 /\ sent'[t] = sent[t] + 1
          /\ pc'[t] = "loop" /\ batch' = batch
      BY <1>1, ZenonT(30) DEF TypeOK
    <3> QED BY <2>1, <3>1, <1>1, <1>2, <1>4, ZenonT(30) DEF TaskInv
  <2>2. CASE u # t
    <3>1. /\ i'[u] = i[u] /\ sent'[u] = sent[u] /\ accepted'[u] = accepted[u]
          /\ UNCHANGED <<pc, op, batch, ret>>
      BY <2>2, <1>1, <1>4, ZenonT(30) DEF TypeOK
    <3> QED BY <3>1, ZenonT(30) DEF TaskInv
  <2> QED BY <2>1, <2>2, ZenonT(30)
<1> QED BY <1>6, <1>7, ZenonT(30)

-----------------------------------------------------------------------------
(* A fresh socket satisfies the invariant. *)
LEMMA SendInit == Init => SendInv
<1> SUFFICES ASSUME Init PROVE SendInv
  BY ZenonT(30)
<1> USE DEF Init, Failed
<1>1. TypeOK
  <2>1. /\ << >> \in Seq([idx : Nat, dest : Addrs \cup {NoAddr}]) /\ << >> \in Seq(Addrs \cup {NoAddr})
        /\ [kind |-> "None", n |-> 0] \in [kind : Kinds, n : Nat]
    BY DEF Kinds
  <2>2. /\ accepted \in [Tasks -> Seq([idx : Nat, dest : Addrs \cup {NoAddr}])]
        /\ batch \in [Tasks -> Seq(Addrs \cup {NoAddr})]
        /\ ret \in [Tasks -> [kind : Kinds, n : Nat]]
    BY <2>1, ZenonT(30)
  <2>3. /\ pc \in [Tasks -> {"idle", "attempt", "syscall", "loop", "returned", "waiting"}]
        /\ op \in [Tasks -> Ops \cup {"none"}] /\ connected \in [Tasks -> BOOLEAN]
        /\ i \in [Tasks -> Nat] /\ sent \in [Tasks -> Nat]
    BY ZenonT(30)
  <2>4. queued \in 0 .. SndBuf /\ fresh \in SUBSET Tasks /\ peer \in Addrs \cup {NoAddr}
    BY SendAssumption
  <2>5. edge \in BOOLEAN /\ ready \in BOOLEAN /\ build \in Builds
    BY ZenonT(30)
  <2> HIDE DEF Init
  <2> QED BY ZenonT(30), <2>2, <2>3, <2>4, <2>5 DEF TypeOK
<1>2. ASSUME NEW t \in Tasks PROVE TaskInv(t)
  BY DEF TaskInv
<1> QED BY <1>1, <1>2, ZenonT(30) DEF SendInv

(* Every step of the send path preserves the invariant: one case per       *)
(* action.                                                                 *)
LEMMA SendNext == SendInv /\ [Next]_vars => SendInv'
<1> SUFFICES ASSUME SendInv, [Next]_vars PROVE SendInv'
  BY ZenonT(30)
<1>1. CASE NewCall
  BY <1>1, CallStep, ZenonT(30) DEF NewCall
<1>2. ASSUME NEW t \in Tasks, Progress(t) PROVE SendInv'
  <2>1. CASE TakeStep(t)
    <3>1. PICK k \in 1 .. SndBuf : BatchSyscallTakes(t, k)
      BY <2>1, ZenonT(30) DEF TakeStep
    <3>2. k \in Nat
      BY SendAssumption
    <3> QED BY <3>1, <3>2, TakesStep, ZenonT(30)
  <2> QED BY <1>2, <2>1, NoTakeSteps, ReadConnectedStep, LoopSendsStep, WrapperSteps, ZenonT(30) DEF
             Progress
<1>3. ASSUME NEW t \in Tasks, NEW kind \in {"Error", "Cancelled"}, WaitEnds(t, kind)
      PROVE  SendInv'
  BY <1>3, WrapperSteps, ZenonT(30)
<1>4. CASE (\E a \in Addrs : Connect(a)) \/ Drain \/ DriverPolls
  BY <1>4, EnvironmentSteps, ZenonT(30)
<1>5. CASE UNCHANGED vars
  BY ZenonT(30), <1>5 DEF vars, SendInv, TypeOK, TaskInv
<1> QED BY <1>1, <1>2, <1>3, <1>4, <1>5, ZenonT(30) DEF Next

(* The invariant holds in every behaviour. *)
THEOREM SendInvariant == Spec => []SendInv
<1> QED BY SendInit, SendNext, PTL DEF Spec

(* Type correctness of the send path; in particular the kernel's buffer is *)
(* never overfilled by sends of several tasks.                             *)
THEOREM SendTypeOK == Spec => []TypeOK
<1>1. SendInv => TypeOK
  BY ZenonT(30) DEF SendInv
<1> QED BY <1>1, SendInvariant, PTL

(* try_send_batch of every backend, and the retry loop of send_batch: the  *)
(* kernel takes each entry at most once, in order, none skipped.           *)
THEOREM SendPrefixOnce == Spec => []PrefixOnce
<1>1. SendInv => PrefixOnce
  BY ZenonT(30) DEF SendInv, TaskInv, PrefixOnce
<1> QED BY <1>1, SendInvariant, PTL

(* The count send_batch and try_send_batch return is the number of entries *)
(* the kernel took.                                                        *)
THEOREM SendCountIsTruth == Spec => []CountIsTruth
<1>1. SendInv => CountIsTruth
  BY ZenonT(30) DEF SendInv, TaskInv, CountIsTruth
<1> QED BY <1>1, SendInvariant, PTL

(* A send dropped at its await, or reporting WouldBlock, has sent nothing. *)
THEOREM SendCancelSafe == Spec => []CancelSafe
<1>1. ASSUME SendInv, NEW t \in Tasks,
             pc[t] = "waiting" \/ (pc[t] = "idle" /\ ret[t].kind \in {"Cancelled", "WouldBlock"})
      PROVE  accepted[t] = << >>
  <2>1. Len(accepted[t]) = 0 /\ accepted[t] \in Seq([idx : Nat, dest : Addrs \cup {NoAddr}])
    BY <1>1, ZenonT(30) DEF SendInv, TypeOK, TaskInv
  <2> QED BY <2>1, ZeroLength, ZenonT(30)
<1>2. SendInv => CancelSafe
  BY <1>1, ZenonT(30) DEF CancelSafe
<1> QED BY <1>2, SendInvariant, PTL

-----------------------------------------------------------------------------
-----------------------------------------------------------------------------
(* On the lossless backends an error in flight hides nothing either. *)
ErrorInv(t) ==
  /\ pc[t] = "loop" => Platform = "windows"
  /\ (pc[t] \in {"idle", "returned"} /\ ret[t].kind = "Error") => Len(accepted[t]) = 0

(* On a lossless backend a task that goes on keeps errors free of sent     *)
(* entries: an error ends a batch syscall that took nothing, or the loop   *)
(* of the Windows backend before its first entry.                          *)
LEMMA ErrorInvProgress ==
  ASSUME TypeOK, Lossless, Platform' = Platform, NEW t \in Tasks,
         TaskInv(t), ErrorInv(t), Progress(t)
  PROVE  ErrorInv(t)'
<1>1. ASSUME NEW r, PlatformReturns(t, r),
             r.kind = "Error" => Len(accepted[t]) = 0 /\ accepted' = accepted
      PROVE  ErrorInv(t)'
  BY <1>1, Returns, ZenonT(30) DEF ErrorInv
<1>2. CASE EmptyBatch(t) \/ TakeStep(t) \/ BatchSyscallBlocks(t) \/ LoopBlocks(t) \/ LoopEnds(t)
  <2>1. \A n : Ok(n).kind # "Error"
    BY ZenonT(30) DEF Ok
  <2>2. Failed("WouldBlock").kind # "Error"
    BY ZenonT(30) DEF Failed
  <2>3. CASE EmptyBatch(t) \/ TakeStep(t) \/ LoopEnds(t)
    BY <1>1, <2>1, <2>3, ZenonT(30) DEF EmptyBatch, TakeStep, BatchSyscallTakes, LoopEnds
  <2>4. CASE BatchSyscallBlocks(t)
    BY <1>1, <2>2, <2>4, ZenonT(30) DEF BatchSyscallBlocks
  <2>5. CASE LoopBlocks(t)
    BY <1>1, <2>1, <2>2, <2>5, ZenonT(30) DEF LoopBlocks
  <2> QED BY <1>2, <2>3, <2>4, <2>5, ZenonT(30)
<1>3. CASE ReadConnected(t)
  <2>1. pc'[t] \in {"syscall", "loop"} /\ ~ (Platform = "linux" /\ BatchSyscall)
    BY <1>3, InsideActs, ZenonT(30)
  <2>2. Platform = "windows"
    BY <2>1, ZenonT(30) DEF Lossless
  <2> QED BY <2>1, <2>2, ZenonT(30) DEF ErrorInv
<1>4. CASE BatchSyscallFails(t)
  <2>1. /\ pc[t] \in {"attempt", "syscall"} /\ accepted' = accepted
        /\ PlatformReturns(t, Failed("Error"))
    BY <1>4, ZenonT(30) DEF BatchSyscallFails, AtBatchSyscall
  <2>2. Len(accepted[t]) = 0
    BY <2>1, ZenonT(30) DEF TaskInv
  <2> QED BY <1>1, <2>1, <2>2, ZenonT(30)
<1>5. CASE LoopFails(t)
  <2>1. pc[t] = "loop" /\ accepted' = accepted
    BY <1>5, ZenonT(30) DEF LoopFails, AtPacket
  <2>2. Platform = "windows" /\ sent[t] = Len(accepted[t]) /\ sent[t] \in Nat
    BY <2>1, ZenonT(30) DEF ErrorInv, TaskInv, TypeOK
  <2>3. PICK r : PlatformReturns(t, r) /\ (r.kind = "Error" => ~ sent[t] > 0)
    BY <1>5, <2>2 DEF LoopFails, Ok
  <2>4. r.kind = "Error" => Len(accepted[t]) = 0
    BY <2>2, <2>3, SMTT(30)
  <2> QED BY <1>1, <2>1, <2>3, <2>4, ZenonT(30)
<1>6. CASE LoopSends(t)
  BY <1>6, InsideActs, ZenonT(30) DEF ErrorInv
<1>7. CASE Finish(t) \/ Block(t) \/ Resume(t)
  <2>1. /\ pc'[t] # "loop" /\ accepted' = accepted
        /\ (pc'[t] \in {"idle", "returned"} /\ ret'[t].kind = "Error")
             => pc[t] = "returned" /\ ret[t].kind \in {"Error", "WouldBlock"}
    BY ZenonT(30), <1>7, WrapperErrors
  <2>2. pc[t] = "returned" /\ ret[t].kind \in {"Error", "WouldBlock"} => Len(accepted[t]) = 0
    BY ZenonT(30) DEF TaskInv, ErrorInv
  <2> QED BY <2>1, <2>2, ZenonT(30) DEF ErrorInv
<1> QED BY ZenonT(30), <1>2, <1>3, <1>4, <1>5, <1>6, <1>7 DEF Progress

(* On a lossless backend every step keeps errors free of sent entries. *)
LEMMA ErrorInvStep ==
  ASSUME Lossless, SendInv, \A t \in Tasks : ErrorInv(t), [Next]_vars
  PROVE  \A t \in Tasks : ErrorInv(t)'
<1>0. TypeOK /\ Platform' = Platform /\ \A t \in Tasks : TaskInv(t)
  BY ZenonT(30), BuildFixed DEF SendInv, Platform
<1>1. ASSUME NEW t \in Tasks, NEW u \in Tasks, u # t, TaskStep(t) PROVE ErrorInv(u)'
  BY <1>0, <1>1, OtherTasks, ZenonT(30) DEF ErrorInv
<1>2. ASSUME NEW t \in Tasks, NEW o \in Ops, NEW b \in Batches, Call(t, o, b)
      PROVE  ErrorInv(t)'
  <2>1. pc'[t] = "attempt"
    BY ZenonT(30), <1>0, <1>2, OuterActs
  <2> QED BY <2>1, ZenonT(30) DEF ErrorInv
<1>3. ASSUME NEW t \in Tasks, Progress(t) PROVE ErrorInv(t)'
  BY <1>0, <1>3, ErrorInvProgress, ZenonT(30)
<1>4. ASSUME NEW t \in Tasks, NEW kind \in {"Error", "Cancelled"}, WaitEnds(t, kind)
      PROVE  ErrorInv(t)'
  <2>1. pc[t] = "waiting" /\ pc'[t] = "idle" /\ accepted' = accepted
    BY ZenonT(90), <1>0, <1>4, OuterActs
  <2>2. Len(accepted[t]) = 0
    BY <1>0, <2>1, ZenonT(30) DEF TaskInv
  <2> QED BY <2>1, <2>2, ZenonT(30) DEF ErrorInv
<1>5. CASE (\E a \in Addrs : Connect(a)) \/ Drain \/ DriverPolls \/ UNCHANGED vars
  BY <1>0, <1>5, NoTask, ZenonT(30) DEF ErrorInv
<1> QED BY <1>1, <1>2, <1>3, <1>4, <1>5, StepCases, ZenonT(30) DEF TaskStep

(* With sendmmsg, and on Windows, a call that returns an error has sent    *)
(* nothing of its batch: it can be repeated as a whole.                    *)
THEOREM SendErrorsLossless == Spec => []ErrorMeansNothingSent
<1> DEFINE AllErrorInv == Lossless => \A t \in Tasks : ErrorInv(t)
<1>1. Init => AllErrorInv
  BY DEF Init, Failed, ErrorInv
<1>2. ASSUME SendInv, AllErrorInv, [Next]_vars PROVE AllErrorInv'
  <2>1. Lossless' = Lossless
    BY <1>2, BuildFixed, ZenonT(30) DEF Lossless, Platform, BatchSyscall
  <2>2. CASE Lossless
    BY <1>2, <2>2, ErrorInvStep, ZenonT(30)
  <2> QED BY <2>1, <2>2, ZenonT(30)
<1>3. ASSUME SendInv, AllErrorInv PROVE ErrorMeansNothingSent
  <2> SUFFICES ASSUME Lossless, NEW t \in Tasks, pc[t] = "idle", ret[t].kind = "Error"
               PROVE  accepted[t] = << >>
    BY ZenonT(30) DEF ErrorMeansNothingSent
  <2>1. Len(accepted[t]) = 0 /\ accepted[t] \in Seq([idx : Nat, dest : Addrs \cup {NoAddr}])
    BY <1>3, ZenonT(30) DEF SendInv, TypeOK, ErrorInv
  <2> QED BY <2>1, ZeroLength, ZenonT(30)
<1> HIDE DEF AllErrorInv
<1> QED BY <1>1, <1>2, <1>3, SendInvariant, PTL DEF Spec

-----------------------------------------------------------------------------
(* send_batch and send_to wait on WouldBlock, or turn it into an error     *)
(* when they cannot wait; they never return it.                            *)
THEOREM SendHidesWouldBlock == Spec => []AsyncHidesWouldBlock
<1>1. Init => AsyncHidesWouldBlock
  BY ZenonT(30) DEF Init, AsyncHidesWouldBlock, AsyncOps
<1>2. ASSUME TypeOK, AsyncHidesWouldBlock, [Next]_vars PROVE AsyncHidesWouldBlock'
  <2>1. ASSUME NEW t \in Tasks, TaskStep(t), pc'[t] = "idle", op'[t] \in AsyncOps
        PROVE  ret'[t].kind # "WouldBlock"
    <3>1. CASE Finish(t)
      BY <1>2, <2>1, <3>1, CallsTyped, ZenonT(30) DEF Finish, call, Ok
    <3>2. CASE Block(t)
      BY <1>2, <2>1, <3>2, WrapperActs DEF Failed
    <3>3. ASSUME NEW kind \in {"Error", "Cancelled"}, WaitEnds(t, kind)
          PROVE  ret'[t].kind # "WouldBlock"
      BY <1>2, <3>3, OuterActs DEF Failed
    <3> QED BY ZenonT(30), <1>2, <2>1, <3>1, <3>2, <3>3, EndsBy
  <2>2. ASSUME NEW t \in Tasks, TaskStep(t) PROVE AsyncHidesWouldBlock'
    BY ZenonT(30), <1>2, <2>1, <2>2, OtherTasks DEF AsyncHidesWouldBlock
  <2>3. CASE (\E a \in Addrs : Connect(a)) \/ Drain \/ DriverPolls \/ UNCHANGED vars
    BY <1>2, <2>3, NoTask, ZenonT(30) DEF AsyncHidesWouldBlock
  <2> QED BY <1>2, <2>2, <2>3, StepCases, ZenonT(30)
<1> QED BY <1>1, <1>2, SendTypeOK, PTL DEF Spec

-----------------------------------------------------------------------------
(* With sendmmsg, a call of send_to is one entry, asks the kernel for all  *)
(* of it at once, and gets Ok only when the kernel took it.                *)
WithSendmmsg == Platform = "linux" /\ BatchSyscall

SingleInv(t) ==
  /\ op[t] \in SingleOps => Len(batch[t]) = 1
  /\ pc[t] \notin {"syscall", "loop"}
  /\ (op[t] \in SingleOps /\ pc[t] \in {"returned", "idle"} /\ ret[t].kind = "Ok")
       => Len(accepted[t]) = 1

(* A sendmmsg that takes something takes all of a single entry. *)
LEMMA SingleTakes ==
  ASSUME TypeOK, NEW t \in Tasks, TaskInv(t)', SingleInv(t),
         NEW k \in Nat, BatchSyscallTakes(t, k)
  PROVE  SingleInv(t)'
<1>1. k \in 1 .. Len(MsgNames(batch[t])) /\ op' = op /\ batch' = batch
  BY ZenonT(30) DEF BatchSyscallTakes, call
<1>2. pc'[t] = "returned" /\ ret'[t] = Ok(k)
  BY ZenonT(30) DEF BatchSyscallTakes, PlatformReturns, TypeOK
<1>3. Len(MsgNames(batch[t])) = Len(batch[t])
  BY ZenonT(30), NamesAreSeq DEF TypeOK
<1>4. Len(accepted'[t]) = k
  <2>1. ret'[t].kind = "Ok" /\ ret'[t].n = k
    BY <1>2 DEF Ok
  <2> QED BY ZenonT(30), <1>2, <2>1 DEF TaskInv
<1>5. op[t] \in SingleOps => Len(batch[t]) = 1
  BY ZenonT(30) DEF SingleInv
<1>6. ASSUME op[t] \in SingleOps PROVE k = 1
  <2>1. k \in 1 .. 1
    BY <1>1, <1>3, <1>5, <1>6, ZenonT(30)
  <2> QED BY <2>1
<1> QED BY <1>1, <1>2, <1>4, <1>5, <1>6, ZenonT(30) DEF SingleInv

(* Every step of a task with sendmmsg keeps that. *)
LEMMA SingleStep ==
  ASSUME WithSendmmsg, SendInv, SendInv', NEW t \in Tasks, SingleInv(t), TaskStep(t)
  PROVE  SingleInv(t)'
<1>1. TypeOK /\ TaskInv(t)'
  BY ZenonT(30) DEF SendInv
<1>2. ASSUME NEW o \in Ops, NEW b \in Batches, Call(t, o, b) PROVE SingleInv(t)'
  <2>1. pc'[t] = "attempt" /\ op'[t] = o /\ batch'[t] = b /\ (o \in SingleOps => Len(b) = 1)
    BY ZenonT(30), <1>1, <1>2, OuterActs
  <2> QED BY <2>1, ZenonT(30) DEF SingleInv
<1>3. ASSUME NEW r, PlatformReturns(t, r), op' = op, batch' = batch, r.kind = "Ok" => Len(batch[t]) = 0
      PROVE  SingleInv(t)'
  BY <1>1, <1>3, Returns DEF SingleInv
<1>4. CASE EmptyBatch(t)
  <2>1. PlatformReturns(t, Ok(0)) /\ op' = op /\ batch' = batch /\ batch[t] = << >>
    BY <1>4, ZenonT(30) DEF EmptyBatch, call
  <2>2. Len(batch[t]) = 0
    BY <2>1
  <2> QED BY <1>3, <2>1, <2>2, ZenonT(30)
<1>5. CASE BatchSyscallBlocks(t) \/ BatchSyscallFails(t)
  <2>1. PICK kind \in {"WouldBlock", "Error"} :
          PlatformReturns(t, Failed(kind)) /\ op' = op /\ batch' = batch
    BY <1>5, ZenonT(30) DEF BatchSyscallBlocks, BatchSyscallFails, call
  <2>2. Failed(kind).kind # "Ok"
    BY <2>1, ZenonT(30) DEF Failed
  <2> QED BY <1>3, <2>1, <2>2, ZenonT(30)
<1>6. ASSUME NEW k \in 1 .. SndBuf, BatchSyscallTakes(t, k) PROVE SingleInv(t)'
  BY ZenonT(30), <1>1, <1>6, TakesNat, SingleTakes
<1>7. ~ (ReadConnected(t) \/ LoopSends(t) \/ LoopBlocks(t) \/ LoopFails(t) \/ LoopEnds(t))
  <2>1. pc[t] # "loop" /\ Platform = "linux" /\ BatchSyscall
    BY ZenonT(30) DEF SingleInv, WithSendmmsg
  <2> QED BY <1>1, <2>1, InsideActs, ZenonT(30)
<1>8. CASE Finish(t) \/ Block(t) \/ Resume(t)
  <2>1. Failed("Error").kind # "Ok"
    BY ZenonT(30) DEF Failed
  <2>2. /\ Finish(t) => pc[t] = "returned" /\ pc'[t] = "idle"
                         /\ (ret'[t].kind = "Ok" <=> ret[t].kind = "Ok")
        /\ Block(t) => pc'[t] = "waiting" \/ (pc'[t] = "idle" /\ ret'[t] = Failed("Error"))
        /\ Resume(t) => pc'[t] = "attempt"
        /\ UNCHANGED <<op, batch, accepted>>
    BY ZenonT(30), <1>1, <1>8, WrapperActs
  <2> QED BY <1>8, <2>1, <2>2, ZenonT(30) DEF SingleInv
<1>9. ASSUME NEW kind \in {"Error", "Cancelled"}, WaitEnds(t, kind) PROVE SingleInv(t)'
  <2>1. pc'[t] = "idle" /\ ret'[t] = Failed(kind) /\ op' = op /\ batch' = batch
    BY ZenonT(90), <1>1, <1>9, OuterActs
  <2>2. ret'[t].kind # "Ok"
    BY <2>1 DEF Failed
  <2> QED BY <2>1, <2>2, ZenonT(30) DEF SingleInv
<1> QED BY ZenonT(30), <1>2, <1>4, <1>5, <1>6, <1>7, <1>8, <1>9
   DEF TaskStep, Progress, TakeStep

(* On Linux with sendmmsg the Ok(buf.len()) of send_to and try_send_to     *)
(* means that the kernel took the datagram (the per-packet loops break     *)
(* this: there the count they drop may be zero).                           *)
THEOREM SendToSendsWithSendmmsg == Spec => [](WithSendmmsg => SendToSends)
<1> DEFINE AllSingle == WithSendmmsg => \A t \in Tasks : SingleInv(t)
<1>1. Init => AllSingle
  BY ZenonT(30) DEF Init, SingleInv, SingleOps, Failed
<1>2. ASSUME SendInv, SendInv', AllSingle, [Next]_vars PROVE AllSingle'
  <2> SUFFICES ASSUME WithSendmmsg PROVE \A t \in Tasks : SingleInv(t)'
    BY <1>2, BuildFixed, ZenonT(30) DEF WithSendmmsg, Platform, BatchSyscall
  <2>1. ASSUME NEW t \in Tasks, NEW u \in Tasks, u # t, TaskStep(t) PROVE SingleInv(u)'
    BY <1>2, <2>1, OtherTasks DEF SingleInv, SendInv
  <2>2. ASSUME NEW t \in Tasks, TaskStep(t) PROVE SingleInv(t)'
    BY <1>2, <2>2, SingleStep, ZenonT(30)
  <2>3. CASE (\E a \in Addrs : Connect(a)) \/ Drain \/ DriverPolls \/ UNCHANGED vars
    BY <1>2, <2>3, NoTask, ZenonT(30) DEF SingleInv
  <2> QED BY <1>2, <2>1, <2>2, <2>3, StepCases, ZenonT(30)
<1>3. AllSingle => (WithSendmmsg => SendToSends)
  BY ZenonT(30) DEF SingleInv, SendToSends
<1> HIDE DEF AllSingle
<1> QED BY <1>1, <1>2, <1>3, SendInvariant, PTL DEF Spec
=============================================================================
