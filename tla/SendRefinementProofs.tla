-------------------------- MODULE SendRefinementProofs --------------------------
(***************************************************************************)
(* The refinement of BatchSend by SendPath, and where the datagrams go:    *)
(* the headers a batch is given and the destinations the kernel uses.      *)
(***************************************************************************)
EXTENDS SendRefinement, SendProofs

(* The first k elements of a sequence. *)
LEMMA PrefixIs ==
  ASSUME NEW S, NEW s \in Seq(S), NEW k \in 1 .. Len(s)
  PROVE  /\ SubSeq(s, 1, k) \in Seq(S) /\ Len(SubSeq(s, 1, k)) = k
         /\ \A j \in 1 .. k : SubSeq(s, 1, k)[j] = s[j]
OBVIOUS

(* How a call ended, for each kind of result. *)
LEMMA EndedIs ==
  /\ Ended["None"] = "new" /\ Ended["Ok"] = "completed"
  /\ Ended["WouldBlock"] = "abandoned" /\ Ended["Cancelled"] = "abandoned"
  /\ Ended["Error"] = "failed"
BY ZenonT(30) DEF Ended

(* The positions taken are the first Len(accepted[t]) ones. *)
LEMMA TakenIs ==
  ASSUME SendInv, NEW t \in Tasks
  PROVE  /\ Taken[t] = [j \in 1 .. Len(accepted[t]) |-> j]
         /\ Len(Taken[t]) = Len(accepted[t])
         /\ Len(accepted[t]) = 0 => Taken[t] = << >>
<1> DEFINE n == Len(accepted[t])
           f == [j \in 1 .. n |-> j]
<1>1. n \in Nat /\ DOMAIN accepted[t] = 1 .. n
  BY DEF SendInv, TypeOK
<1>2. Taken[t] = f
  BY <1>1, ZenonT(30) DEF Taken, SendInv, TaskInv
<1>3. f \in [1 .. n -> Nat]
  BY <1>1
<1> HIDE DEF f
<1>4. f \in Seq(Nat) /\ Len(f) = n
  BY <1>1, <1>3, FunctionIsSeq, ZenonT(30)
<1>5. n = 0 => f = << >>
  BY <1>4, ZeroLength, ZenonT(30)
<1> QED BY <1>2, <1>4, <1>5, ZenonT(30) DEF f

(* A step of one task changes the mapped state of that task alone. *)
LEMMA MappedStep ==
  ASSUME SendInv, NEW t \in Tasks, TaskStep(t)
  PROVE  /\ Status' = [Status EXCEPT ![t] = Status'[t]]
         /\ Length' = [Length EXCEPT ![t] = Length'[t]]
         /\ Taken'  = [Taken  EXCEPT ![t] = Taken'[t]]
         /\ Count'  = [Count  EXCEPT ![t] = Count'[t]]
<1>1. \A u \in Tasks \ {t} :
        /\ Status'[u] = Status[u] /\ Length'[u] = Length[u]
        /\ Taken'[u] = Taken[u] /\ Count'[u] = Count[u]
  BY OtherTasks, ZenonT(30) DEF SendInv, Status, Length, Taken, Count
<1>2. /\ Status = [u \in Tasks |-> Status[u]] /\ Status' = [u \in Tasks |-> Status'[u]]
      /\ Length = [u \in Tasks |-> Length[u]] /\ Length' = [u \in Tasks |-> Length'[u]]
      /\ Taken = [u \in Tasks |-> Taken[u]] /\ Taken' = [u \in Tasks |-> Taken'[u]]
      /\ Count = [u \in Tasks |-> Count[u]] /\ Count' = [u \in Tasks |-> Count'[u]]
  BY ZenonT(30) DEF Status, Length, Taken, Count
<1> QED BY <1>1, <1>2, ZenonT(30)

(* What a platform call returned: a count, WouldBlock or an error. *)
ResultInv(t) ==
  pc[t] = "returned" =>
    ret[t].kind \in {"Ok", "WouldBlock", "Error"} /\ (ret[t].kind # "Ok" => ret[t].n = 0)

(* Every step of a task keeps that. *)
LEMMA ResultStep ==
  ASSUME TypeOK, NEW t \in Tasks, ResultInv(t), TaskStep(t)
  PROVE  ResultInv(t)'
<1> USE DEF ResultInv, TypeOK
<1>1. CASE \/ EmptyBatch(t) \/ BatchSyscallBlocks(t) \/ BatchSyscallFails(t)
           \/ LoopBlocks(t) \/ LoopFails(t) \/ LoopEnds(t) \/ TakeStep(t)
  <2>1. \/ \E n : PlatformReturns(t, Ok(n))
        \/ PlatformReturns(t, Failed("WouldBlock")) \/ PlatformReturns(t, Failed("Error"))
    BY <1>1, ZenonT(30) DEF EmptyBatch, TakeStep, BatchSyscallTakes, BatchSyscallBlocks,
       BatchSyscallFails, LoopBlocks, LoopFails, LoopEnds
  <2> QED BY SMTT(30), <2>1 DEF PlatformReturns, Ok, Failed
<1>2. CASE ReadConnected(t) \/ LoopSends(t) \/ Finish(t) \/ Block(t) \/ Resume(t)
  <2>1. pc'[t] # "returned"
    BY <1>2, ZenonT(30) DEF ReadConnected, LoopSends, AtPacket, Finish, Block, Resume
  <2> QED BY <2>1, ZenonT(30)
<1>3. CASE \/ \E o \in Ops, b \in Batches : Call(t, o, b)
           \/ \E kind \in {"Error", "Cancelled"} : WaitEnds(t, kind)
  <2>1. pc'[t] # "returned"
    BY <1>3, ZenonT(30) DEF Call, WaitEnds
  <2> QED BY <2>1, ZenonT(30)
<1> QED BY <1>1, <1>2, <1>3, ZenonT(30) DEF TaskStep, Progress

-----------------------------------------------------------------------------
(* A new call is a Submit. *)
LEMMA CallSubmits ==
  ASSUME SendInv, build' = build, NEW t \in Tasks, NEW o \in Ops, NEW b \in Batches,
         Call(t, o, b)
  PROVE  Promise!Submit(t)
<1>1. TypeOK /\ TaskStep(t)
  BY ZenonT(30) DEF SendInv, TaskStep
<1>2. /\ pc[t] = "idle" /\ pc'[t] = "attempt" /\ batch'[t] = b
      /\ accepted'[t] = << >> /\ ret[t].kind \in Kinds
  BY <1>1, ZenonT(30) DEF Call, TypeOK
<1>3. Status[t] # "open" /\ Status'[t] = "open" /\ Length'[t] = Len(b) /\ Count'[t] = 0
  BY <1>2, EndedIs, ZenonT(30) DEF Status, Length, Count, Kinds
<1>4. Taken'[t] = << >>
  <2> DEFINE empty == << >>
  <2>1. Taken'[t] = [j \in DOMAIN empty |-> empty[j].idx]
    BY ZenonT(30), <1>2 DEF Taken
  <2> QED BY SMTT(30), <2>1
<1>5. Lossless' = Lossless
  BY ZenonT(30) DEF Lossless, Platform, BatchSyscall
<1> QED BY <1>1, <1>3, <1>4, <1>5, MappedStep, ZenonT(30) DEF Promise!Submit

(* A step in which the kernel takes entries is a Take. *)
LEMMA TakesTake ==
  ASSUME SendInv, SendInv', build' = build, NEW t \in Tasks, TaskStep(t),
         pc[t] # "idle", pc'[t] # "idle", batch' = batch,
         Len(accepted'[t]) > Len(accepted[t])
  PROVE  Promise!Take(t)
<1>1. Lossless' = Lossless
  BY ZenonT(30) DEF Lossless, Platform, BatchSyscall
<1>2. Status[t] = "open" /\ Status'[t] = "open" /\ Count[t] = 0 /\ Count'[t] = 0
  BY ZenonT(30) DEF Status, Count
<1>3. Length' = Length /\ Length[t] = Len(batch[t])
  BY ZenonT(30) DEF Length
<1>4. /\ Len(Taken[t]) = Len(accepted[t])
      /\ Taken'[t] = [j \in 1 .. Len(accepted'[t]) |-> j]
  <2>1. Len(Taken[t]) = Len(accepted[t])
    BY ZenonT(30), TakenIs
  <2>2. (Taken[t] = [j \in 1 .. Len(accepted[t]) |-> j])'
    <3>1. (DOMAIN accepted[t] = 1 .. Len(accepted[t]))'
      BY SMTT(30) DEF SendInv, TypeOK
    <3> QED BY <3>1, ZenonT(30) DEF Taken, SendInv, TaskInv
  <2> QED BY <2>1, <2>2, ZenonT(30)
<1>5. Len(accepted'[t]) \in Len(Taken[t]) + 1 .. Length[t]
  BY <1>3, <1>4 DEF SendInv, TypeOK, TaskInv
<1>6. Status' = Status /\ Count' = Count
  <2>1. Status' = [Status EXCEPT ![t] = Status[t]] /\ Count' = [Count EXCEPT ![t] = Count[t]]
    BY <1>2, MappedStep, ZenonT(30)
  <2>2. Status = [u \in Tasks |-> Status[u]] /\ Count = [u \in Tasks |-> Count[u]]
    BY ZenonT(30) DEF Status, Count
  <2> QED BY ZenonT(30), <2>1, <2>2
<1>7. Taken' = [Taken EXCEPT ![t] = [j \in 1 .. Len(accepted'[t]) |-> j]]
  BY <1>4, MappedStep, ZenonT(30)
<1> QED BY ZenonT(30), <1>1, <1>2, <1>3, <1>5, <1>6, <1>7 DEF Promise!Take

(* A step in which a call returns ends the abstract call. *)
LEMMA ReturnsEnd ==
  ASSUME SendInv, build' = build, NEW t \in Tasks, TaskStep(t),
         pc[t] # "idle", pc'[t] = "idle", UNCHANGED <<batch, accepted>>
  PROVE  Promise!End(t, Ended[ret'[t].kind], ret'[t].n)
<1>1. Lossless' = Lossless
  BY ZenonT(30) DEF Lossless, Platform, BatchSyscall
<1>2. Status[t] = "open" /\ Status'[t] = Ended[ret'[t].kind] /\ Count'[t] = ret'[t].n
  BY ZenonT(30) DEF Status, Count
<1>3. Length' = Length /\ Taken' = Taken
  BY ZenonT(30) DEF Length, Taken
<1> QED BY <1>1, <1>2, <1>3, MappedStep, ZenonT(30) DEF Promise!End

(* A step inside a call that takes nothing is not seen. *)
LEMMA InsideStutters ==
  ASSUME SendInv, build' = build, NEW t \in Tasks, TaskStep(t),
         pc[t] # "idle", pc'[t] # "idle", UNCHANGED <<batch, accepted>>
  PROVE  UNCHANGED Promise!sendVars
<1>1. Lossless' = Lossless
  BY ZenonT(30) DEF Lossless, Platform, BatchSyscall
<1>2. Length' = Length /\ Taken' = Taken
  BY ZenonT(30) DEF Length, Taken
<1>3. Status' = [Status EXCEPT ![t] = Status[t]] /\ Count' = [Count EXCEPT ![t] = Count[t]]
  BY ZenonT(30), MappedStep DEF Status, Count
<1>4. Status = [u \in Tasks |-> Status[u]] /\ Count = [u \in Tasks |-> Count[u]]
  BY ZenonT(30) DEF Status, Count
<1>5. Status' = Status /\ Count' = Count
  BY ZenonT(30), <1>3, <1>4
<1> QED BY <1>1, <1>2, <1>5, ZenonT(30) DEF Promise!sendVars

(* The ways a call returns. *)
LEMMA FinishEnds ==
  ASSUME SendInv, build' = build, NEW t \in Tasks, op[t] \notin SingleOps,
         ResultInv(t), Lossless => ErrorInv(t), Finish(t)
  PROVE  Promise!Complete(t) \/ Promise!Abandon(t) \/ Promise!Fail(t)
<1>1. /\ pc[t] = "returned" /\ pc'[t] = "idle" /\ ret'[t] = ret[t]
      /\ UNCHANGED <<batch, accepted>>
  BY ZenonT(30) DEF Finish, call, SendInv, TypeOK
<1>2. Promise!End(t, Ended[ret[t].kind], ret[t].n)
  <2>1. TaskStep(t)
    BY ZenonT(30) DEF TaskStep, Progress
  <2> QED BY <1>1, <2>1, ReturnsEnd, ZenonT(30)
<1>3. Len(Taken[t]) = Len(accepted[t]) /\ (Len(accepted[t]) = 0 => Taken[t] = << >>)
  BY ZenonT(30), TakenIs
<1>4. CASE ret[t].kind = "Ok"
  <2>1. ret[t].n = Len(Taken[t])
    BY <1>1, <1>3, <1>4, ZenonT(30) DEF SendInv, TaskInv
  <2> QED BY <1>2, <1>4, <2>1, EndedIs, ZenonT(30) DEF Promise!Complete
<1>5. CASE ret[t].kind = "WouldBlock"
  <2>1. Len(accepted[t]) = 0 /\ ret[t].n = 0
    BY <1>1, <1>5, ZenonT(30) DEF SendInv, TaskInv, ResultInv
  <2> QED BY <1>2, <1>3, <1>5, <2>1, EndedIs, ZenonT(30) DEF Promise!Abandon
<1>6. CASE ret[t].kind = "Error"
  <2>1. (Lossless => Len(accepted[t]) = 0) /\ ret[t].n = 0
    BY <1>1, <1>6, ZenonT(30) DEF ErrorInv, ResultInv
  <2> QED BY <1>2, <1>3, <1>6, <2>1, EndedIs, ZenonT(30) DEF Promise!Fail
<1> QED BY <1>1, <1>4, <1>5, <1>6, ZenonT(30) DEF ResultInv

(* A call that cannot wait, or whose wait ends, has taken nothing. *)
LEMMA WaitsEnd ==
  ASSUME SendInv, build' = build, NEW t \in Tasks,
         \/ Block(t) /\ pc'[t] = "idle"
         \/ \E kind \in {"Error", "Cancelled"} : WaitEnds(t, kind)
  PROVE  Promise!Abandon(t) \/ Promise!Fail(t)
<1>1. PICK kind \in {"Error", "Cancelled"} :
        /\ pc[t] # "idle" /\ pc'[t] = "idle" /\ ret'[t] = Failed(kind)
        /\ Len(accepted[t]) = 0 /\ UNCHANGED <<batch, accepted>>
  <2>1. CASE Block(t) /\ pc'[t] = "idle"
    BY <2>1, ZenonT(30) DEF Block, call, SendInv, TypeOK, TaskInv
  <2>2. ASSUME NEW kind \in {"Error", "Cancelled"}, WaitEnds(t, kind)
        PROVE  /\ pc[t] # "idle" /\ pc'[t] = "idle" /\ ret'[t] = Failed(kind)
               /\ Len(accepted[t]) = 0 /\ UNCHANGED <<batch, accepted>>
    BY <2>2, ZenonT(30) DEF WaitEnds, call, SendInv, TypeOK, TaskInv
  <2> QED BY <2>1, <2>2, ZenonT(30)
<1>2. Promise!End(t, Ended[kind], 0)
  <2>1. TaskStep(t)
    BY ZenonT(30) DEF TaskStep, Progress
  <2>2. ret'[t].kind = kind /\ ret'[t].n = 0
    BY SMTT(30), <1>1 DEF Failed
  <2>3. Promise!End(t, Ended[ret'[t].kind], ret'[t].n)
    BY ZenonT(30), <1>1, <2>1, ReturnsEnd
  <2> QED BY <2>2, <2>3, ZenonT(30)
<1>3. Taken[t] = << >>
  BY ZenonT(30), <1>1, TakenIs
<1> QED BY <1>2, <1>3, EndedIs, ZenonT(30) DEF Promise!Abandon, Promise!Fail

-----------------------------------------------------------------------------
(* Everything the refinement needs to know about the calls in flight. *)
PromiseInv ==
  /\ SendInv
  /\ \A t \in Tasks : ResultInv(t)
  /\ Lossless => \A t \in Tasks : ErrorInv(t)

(* It holds in every behaviour. *)
LEMMA PromiseInvariant == Spec => []PromiseInv
<1>1. Init => PromiseInv
  BY SendInit DEF Init, PromiseInv, ResultInv, ErrorInv, Failed
<1>2. ASSUME PromiseInv, [Next]_vars PROVE PromiseInv'
  <2>1. SendInv'
    BY <1>2, SendNext, ZenonT(30) DEF PromiseInv
  <2>2. \A t \in Tasks : ResultInv(t)'
    <3>1. ASSUME NEW t \in Tasks, NEW u \in Tasks, u # t, TaskStep(t) PROVE ResultInv(u)'
      BY <1>2, <3>1, OtherTasks, ZenonT(30) DEF PromiseInv, SendInv, ResultInv
    <3>2. ASSUME NEW t \in Tasks, TaskStep(t) PROVE ResultInv(t)'
      BY <1>2, <3>2, ResultStep, ZenonT(30) DEF PromiseInv, SendInv
    <3>3. CASE (\E a \in Addrs : Connect(a)) \/ Drain \/ DriverPolls \/ UNCHANGED vars
      BY <1>2, <3>3, NoTask, ZenonT(30) DEF PromiseInv, ResultInv
    <3> QED BY <1>2, <3>1, <3>2, <3>3, StepCases, ZenonT(30)
  <2>3. (Lossless => \A t \in Tasks : ErrorInv(t))'
    <3>1. Lossless' = Lossless
      BY <1>2, BuildFixed, ZenonT(30) DEF Lossless, Platform, BatchSyscall
    <3> QED BY <1>2, <3>1, ErrorInvStep, ZenonT(30) DEF PromiseInv
  <2> QED BY <2>1, <2>2, <2>3, ZenonT(30) DEF PromiseInv
<1> QED BY <1>1, <1>2, PTL DEF Spec

(* Every step of the send path is one step of BatchSend, or none. *)
LEMMA PromiseStep ==
  ASSUME Ops \cap SingleOps = {}, PromiseInv, SendInv', [Next]_vars
  PROVE  [Promise!Next]_(Promise!sendVars)
<1>1. SendInv /\ TypeOK /\ build' = build
  BY BuildFixed, ZenonT(30) DEF PromiseInv, SendInv
<1>t. \A t \in Tasks : /\ TaskInv(t) /\ TaskInv(t)'
                       /\ Len(accepted[t]) \in Nat
  BY <1>1 DEF SendInv, TypeOK
<1>2. ASSUME NEW t \in Tasks, NEW o \in Ops, NEW b \in Batches, Call(t, o, b)
      PROVE  Promise!Next
  BY <1>1, <1>2, CallSubmits, ZenonT(30) DEF Promise!Next
<1>3. ASSUME NEW t \in Tasks, Progress(t) PROVE [Promise!Next]_(Promise!sendVars)
  <2>1. TaskStep(t)
    BY <1>3, ZenonT(30) DEF TaskStep
  <2>2. CASE \/ EmptyBatch(t) \/ ReadConnected(t) \/ BatchSyscallBlocks(t)
             \/ BatchSyscallFails(t) \/ LoopBlocks(t) \/ LoopFails(t) \/ LoopEnds(t) \/ Resume(t)
    <3>1. accepted' = accepted
      BY <2>2, ZenonT(30) DEF EmptyBatch, ReadConnected, BatchSyscallBlocks, BatchSyscallFails,
         LoopBlocks, LoopFails, LoopEnds, Resume
    <3>2. pc[t] # "idle" /\ pc'[t] # "idle" /\ batch' = batch
      <4>1. CASE PlatformEnds(t)
        BY <1>1, <4>1, InsideActs, ZenonT(30)
      <4>2. CASE ReadConnected(t)
        BY <1>1, <4>2, InsideActs, ZenonT(30)
      <4>3. CASE Resume(t)
        BY <1>1, <4>3, WrapperActs, ZenonT(30) DEF Resume
      <4> QED BY ZenonT(30), <2>2, <4>1, <4>2, <4>3 DEF PlatformEnds
    <3> QED BY ZenonT(30), <1>1, <2>1, <3>1, <3>2, InsideStutters
  <2>3. CASE TakeStep(t)
    <3>1. PICK k \in 1 .. SndBuf : BatchSyscallTakes(t, k)
      BY <2>3, ZenonT(30) DEF TakeStep
    <3>2. /\ pc[t] \in {"attempt", "syscall"} /\ pc'[t] = "returned"
          /\ ret'[t] = Ok(k) /\ batch' = batch
      BY <1>1, <3>1, Returns, ZenonT(30) DEF BatchSyscallTakes, AtBatchSyscall, call
    <3>3. Len(accepted[t]) = 0 /\ Len(accepted'[t]) = k
      BY <1>t, <3>2 DEF TaskInv, Ok
    <3>4. Len(accepted'[t]) > Len(accepted[t])
      BY <3>3, TakesNat, ZenonT(30)
    <3> QED BY ZenonT(30), <1>1, <2>1, <3>2, <3>4, TakesTake DEF Promise!Next
  <2>4. CASE LoopSends(t)
    <3>1. /\ pc[t] = "loop" /\ pc'[t] = "loop" /\ batch' = batch /\ sent'[t] = sent[t] + 1
      BY ZenonT(30), <1>1, <2>4, InsideActs
    <3>2. Len(accepted'[t]) = Len(accepted[t]) + 1
      BY <1>t, <3>1, ZenonT(30) DEF TaskInv
    <3>3. Len(accepted'[t]) > Len(accepted[t])
      BY <1>t, <3>2
    <3> QED BY ZenonT(30), <1>1, <2>1, <3>1, <3>3, TakesTake DEF Promise!Next
  <2>5. CASE Finish(t)
    <3>1. op[t] \notin SingleOps
      BY <1>1, SendAssumption, ZenonT(30) DEF TypeOK, SingleOps
    <3> QED BY <1>1, <2>5, <3>1, FinishEnds, ZenonT(30) DEF PromiseInv, Promise!Next
  <2>6. CASE Block(t)
    <3>1. pc[t] # "idle" /\ UNCHANGED <<batch, accepted>>
      BY <2>6, ZenonT(30) DEF Block, call
    <3>2. CASE pc'[t] = "idle"
      BY <1>1, <2>6, <3>2, WaitsEnd, ZenonT(30) DEF Promise!Next
    <3>3. CASE pc'[t] # "idle"
      BY <1>1, <2>1, <3>1, <3>3, InsideStutters, ZenonT(30)
    <3> QED BY <3>2, <3>3, ZenonT(30)
  <2> QED BY <1>3, <2>2, <2>3, <2>4, <2>5, <2>6, ZenonT(30) DEF Progress
<1>4. ASSUME NEW t \in Tasks, NEW kind \in {"Error", "Cancelled"}, WaitEnds(t, kind)
      PROVE  Promise!Next
  BY <1>1, <1>4, WaitsEnd, ZenonT(30) DEF Promise!Next
<1>5. CASE (\E a \in Addrs : Connect(a)) \/ Drain \/ DriverPolls \/ UNCHANGED vars
  BY <1>1, <1>5, NoTask, ZenonT(30) DEF Promise!sendVars, Status, Length, Taken, Count, Lossless,
     Platform, BatchSyscall
<1> QED BY <1>2, <1>3, <1>4, <1>5, StepCases, ZenonT(30) DEF TaskStep

(* send_batch and try_send_batch keep the promise of BatchSend on every    *)
(* backend: each step of any number of tasks is one step of the abstract   *)
(* sender or leaves it alone.                                              *)
THEOREM SendKeepsPromise ==
  ASSUME Ops \cap SingleOps = {}
  PROVE  Spec => KeepsPromise
<1>1. Init => Promise!Init
  <2> SUFFICES ASSUME Init PROVE Promise!Init
    BY ZenonT(30)
  <2>1. Status = [t \in Tasks |-> "new"] /\ Count = [t \in Tasks |-> 0]
    BY EndedIs, ZenonT(30) DEF Init, Status, Count, Failed
  <2>2. Length = [t \in Tasks |-> 0]
    BY ZenonT(30) DEF Init, Length
  <2>3. Taken = [t \in Tasks |-> << >>]
    BY DEF Init, Taken
  <2> QED BY <2>1, <2>2, <2>3, ZenonT(30) DEF Promise!Init
<1>2. PromiseInv /\ SendInv' /\ [Next]_vars => [Promise!Next]_(Promise!sendVars)
  BY PromiseStep, ZenonT(30)
<1> QED BY <1>1, <1>2, SendInvariant, PromiseInvariant, PTL
   DEF Spec, KeepsPromise, Promise!Spec

-----------------------------------------------------------------------------
(* Where the datagrams of an Accept go, and that it keeps the earlier ones. *)
LEMMA AcceptDests ==
  ASSUME TypeOK, NEW t \in Tasks, NEW S, NEW names \in Seq(S), NEW from \in Nat,
         \A j \in 1 .. Len(names) : Destination(names[j]) \in Addrs,
         Accept(t, from, names)
  PROVE  /\ \A j \in 1 .. Len(accepted[t]) : accepted'[t][j] = accepted[t][j]
         /\ \A j \in 1 .. Len(names) : names[j] # NoAddr =>
              accepted'[t][Len(accepted[t]) + j].dest = Destination(names[j])
<1>0. PICK drops \in BOOLEAN :
        accepted' = [accepted EXCEPT ![t] = @ \o
          [j \in 1 .. Len(names) |-> [idx |-> from + j - 1, dest |-> Reached(t, names[j], drops)]]]
  BY ZenonT(30) DEF Accept
<1>a. \A j \in 1 .. Len(names) :
        /\ Reached(t, names[j], drops) \in Addrs \cup {NoAddr}
        /\ names[j] # NoAddr => Reached(t, names[j], drops) = Destination(names[j])
  BY ZenonT(30) DEF Reached
<1> DEFINE more == [j \in 1 .. Len(names) |->
                     [idx |-> from + j - 1, dest |-> Reached(t, names[j], drops)]]
<1>1. accepted[t] \in Seq(Entry) /\ accepted \in [Tasks -> Seq(Entry)]
  BY ZenonT(30) DEF TypeOK, Entry
<1>2. Len(names) \in Nat /\ Len(accepted[t]) \in Nat
  BY <1>1
<1>3. \A j \in 1 .. Len(names) :
        more[j] \in Entry /\ (names[j] # NoAddr => more[j].dest = Destination(names[j]))
  BY <1>2, <1>a DEF Entry
<1>4. more \in [1 .. Len(names) -> Entry]
  BY <1>3, ZenonT(30)
<1>5. accepted' = [accepted EXCEPT ![t] = @ \o more]
  BY <1>0, ZenonT(30)
<1> HIDE DEF more
<1>6. more \in Seq(Entry) /\ Len(more) = Len(names)
  BY <1>2, <1>4, FunctionIsSeq, ZenonT(30)
<1>8. \A j \in 1 .. Len(accepted[t]) + Len(more) : (accepted[t] \o more)[j] =
        IF j <= Len(accepted[t]) THEN accepted[t][j] ELSE more[j - Len(accepted[t])]
  BY <1>1, <1>6
<1>9. accepted'[t] = accepted[t] \o more
  BY <1>1, <1>5, ZenonT(30)
<1>10. ASSUME NEW j \in 1 .. Len(names), names[j] # NoAddr
       PROVE  accepted'[t][Len(accepted[t]) + j].dest = Destination(names[j])
  <2>1. /\ Len(accepted[t]) + j \in 1 .. Len(accepted[t]) + Len(more)
        /\ ~ (Len(accepted[t]) + j <= Len(accepted[t]))
        /\ (Len(accepted[t]) + j) - Len(accepted[t]) = j
    BY <1>2, <1>6
  <2> QED BY <1>3, <1>8, <1>9, <1>10, <2>1, ZenonT(30)
<1>11. ASSUME NEW j \in 1 .. Len(accepted[t]) PROVE accepted'[t][j] = accepted[t][j]
  <2>1. j \in 1 .. Len(accepted[t]) + Len(more) /\ j <= Len(accepted[t])
    BY <1>2, <1>6
  <2> QED BY <1>8, <1>9, <2>1, ZenonT(30)
<1> QED BY <1>10, <1>11, ZenonT(30)

-----------------------------------------------------------------------------
(* A call whose wrong headers, if it has any, the kernel refuses. *)
Refusable(b) == ZeroedIsNoAddr => Aligned(b)
Safe(t)      == Refusable(batch[t])

(* What the kernel has taken of such a call went where the batch said,     *)
(* unless the loop found the socket connected.                             *)
DestInv(t) ==
  Safe(t) => \A j \in 1 .. Len(accepted[t]) :
    (batch[t][j] # NoAddr /\ ~ connected[t]) => accepted[t][j].dest = batch[t][j]

(* Safe depends on the batch and on the build, which never changes. *)
LEMMA SafeKept ==
  ASSUME NEW t \in Tasks, build' = build, batch'[t] = batch[t]
  PROVE  Safe(t)' <=> Safe(t)
BY ZenonT(30) DEF Safe, Refusable, ZeroedIsNoAddr, Aligned, OnStack, Platform, V6

(* Names handed to the kernel before it has taken anything. *)
LEMMA PrefixDest ==
  ASSUME SendInv, NEW t \in Tasks,
         NEW S, NEW prefix \in Seq(S), \A j \in 1 .. Len(prefix) : Deliverable(prefix[j]),
         Accept(t, 1, prefix)
  PROVE  Len(accepted[t]) = 0 =>
           /\ Len(accepted'[t]) = Len(prefix)
           /\ \A j \in 1 .. Len(prefix) :
                prefix[j] # NoAddr => accepted'[t][j].dest = Destination(prefix[j])
<1>0. TypeOK
  BY ZenonT(30) DEF SendInv
<1>1. \A j \in 1 .. Len(prefix) : Destination(prefix[j]) \in Addrs
  BY ZenonT(30) DEF Deliverable
<1>a. 1 \in Nat
  OBVIOUS
<1>4. \A j \in 1 .. Len(prefix) : prefix[j] # NoAddr =>
        accepted'[t][Len(accepted[t]) + j].dest = Destination(prefix[j])
  BY ZenonT(30), <1>0, <1>1, <1>a, AcceptDests
<1> SUFFICES ASSUME Len(accepted[t]) = 0
             PROVE  /\ Len(accepted'[t]) = Len(prefix)
                    /\ \A j \in 1 .. Len(prefix) :
                         prefix[j] # NoAddr => accepted'[t][j].dest = Destination(prefix[j])
  BY ZenonT(30)
<1>2. /\ Accept(t, Len(accepted[t]) + 1, prefix) /\ Len(prefix) \in Nat
      /\ \A j \in 1 .. Len(accepted[t]) : accepted[t][j].idx = j
  OBVIOUS
<1>3. Len(accepted'[t]) = Len(accepted[t]) + Len(prefix)
  BY ZenonT(30), <1>0, <1>1, <1>2, AcceptEffect
<1>5. \A j \in 1 .. Len(prefix) : Len(accepted[t]) + j = j
  BY <1>2
<1>6. Len(accepted'[t]) = Len(prefix)
  BY <1>2, <1>3, SMTT(30)
<1> QED BY ZenonT(30), <1>4, <1>5, <1>6

(* A run of deliverable headers of a refusable batch names its own entries *)
(* (shown below, from how MsgNames is built).                              *)
DeliverableLaw ==
  \A b \in Seq(Addrs \cup {NoAddr}) : \A n \in 0 .. Len(b) :
    (Refusable(b) /\ \A j \in 1 .. n : Deliverable(MsgNames(b)[j]))
    => \A j \in 1 .. n : MsgNames(b)[j] = b[j]

(* An address is not the zeroed one, and is its own destination. *)
LEMMA NamedDestination ==
  ASSUME NEW a \in Addrs \cup {NoAddr}, a # NoAddr
  PROVE  Destination(a) = a
BY SendAssumption, ZenonT(30) DEF Destination

(* What a batch syscall takes goes where the batch says. *)
LEMMA TakesDest ==
  ASSUME DeliverableLaw, SendInv, NEW t \in Tasks, NEW k \in Nat, BatchSyscallTakes(t, k)
  PROVE  DestInv(t)'
<1>0. SUFFICES ASSUME Safe(t)' PROVE DestInv(t)'
  BY ZenonT(30) DEF DestInv
<1>1. /\ k \in 1 .. Len(MsgNames(batch[t])) /\ \A j \in 1 .. k : Deliverable(MsgNames(batch[t])[j])
      /\ Accept(t, 1, SubSeq(MsgNames(batch[t]), 1, k)) /\ batch' = batch
      /\ pc[t] \in {"attempt", "syscall"} /\ build' = build
  BY ZenonT(30) DEF BatchSyscallTakes, AtBatchSyscall, call
<1>2. Len(accepted[t]) = 0
  BY ZenonT(30), <1>1 DEF SendInv, TaskInv
<1>3. batch[t] \in Seq(Addrs \cup {NoAddr})
  BY ZenonT(30) DEF SendInv, TypeOK
<1>4. PICK S : MsgNames(batch[t]) \in Seq(S) /\ Len(MsgNames(batch[t])) = Len(batch[t])
  BY ZenonT(30), <1>3, NamesAreSeq
<1>5. PICK prefix \in Seq(S) :
        /\ prefix = SubSeq(MsgNames(batch[t]), 1, k) /\ Len(prefix) = k
        /\ \A j \in 1 .. k : prefix[j] = MsgNames(batch[t])[j]
  BY ZenonT(90), <1>1, <1>4, PrefixIs
<1>6. \A j \in 1 .. k : MsgNames(batch[t])[j] = batch[t][j]
  <2>1. k \in 0 .. Len(batch[t])
    BY <1>1, <1>4
  <2>2. Safe(t)
    BY ZenonT(30), <1>0, <1>1, SafeKept
  <2> QED BY ZenonT(30), <1>1, <1>3, <2>1, <2>2 DEF DeliverableLaw, Safe
<1>7. /\ Len(accepted'[t]) = k
      /\ \A j \in 1 .. k : prefix[j] # NoAddr => accepted'[t][j].dest = Destination(prefix[j])
  <2>1. Accept(t, 1, prefix)
    BY ZenonT(30), <1>1, <1>5
  <2>2. \A j \in 1 .. Len(prefix) : Deliverable(prefix[j])
    BY ZenonT(30), <1>1, <1>5
  <2>3. /\ Len(accepted'[t]) = Len(prefix)
        /\ \A j \in 1 .. Len(prefix) :
             prefix[j] # NoAddr => accepted'[t][j].dest = Destination(prefix[j])
    BY ZenonT(30), <1>2, <2>1, <2>2, PrefixDest
  <2> QED BY ZenonT(30), <1>5, <2>3
<1>8. \A j \in 1 .. k :
        batch[t][j] # NoAddr => accepted'[t][j].dest = Destination(batch[t][j])
  BY ZenonT(90), <1>5, <1>6, <1>7
<1>9. \A j \in 1 .. k : batch[t][j] # NoAddr => Destination(batch[t][j]) = batch[t][j]
  <2>1. \A j \in 1 .. k : batch[t][j] \in Addrs \cup {NoAddr}
    BY SMTT(30), <1>1, <1>3, <1>4
  <2> QED BY ZenonT(30), <2>1, NamedDestination
<1> QED BY ZenonT(30), <1>1, <1>7, <1>8, <1>9 DEF DestInv

(* So does the packet a per-packet loop sends. *)
LEMMA LoopDest ==
  ASSUME SendInv, NEW t \in Tasks, DestInv(t), LoopSends(t)
  PROVE  DestInv(t)'
<1>0. SUFFICES ASSUME Safe(t)' PROVE DestInv(t)'
  BY ZenonT(30) DEF DestInv
<1> DEFINE name == PacketName(t)
<1>1. /\ pc[t] = "loop" /\ Destination(name) \in Addrs /\ Accept(t, i[t], <<name>>)
      /\ UNCHANGED <<batch, connected>> /\ i[t] <= Len(batch[t]) /\ build' = build
  BY ZenonT(30) DEF LoopSends, AtPacket, Deliverable
<1>2. i[t] = Len(accepted[t]) + 1 /\ Len(accepted[t]) \in Nat /\ i[t] \in Nat
  BY <1>1 DEF SendInv, TaskInv, TypeOK
<1>3. name = IF connected[t] THEN NoAddr ELSE batch[t][i[t]]
  BY ZenonT(30) DEF PacketName
<1> HIDE DEF name
<1> DEFINE names == <<name>>
<1>4. /\ names \in Seq({name}) /\ Len(names) = 1 /\ Accept(t, i[t], names)
      /\ \A j \in 1 .. Len(names) : names[j] = name
  BY SMTT(30), <1>1
<1> HIDE DEF names
<1>5. /\ \A j \in 1 .. Len(accepted[t]) : accepted'[t][j] = accepted[t][j]
      /\ name # NoAddr => accepted'[t][Len(accepted[t]) + 1].dest = Destination(name)
  <2>1. \A j \in 1 .. Len(names) : Destination(names[j]) \in Addrs
    BY <1>1, <1>4, ZenonT(30)
  <2> QED BY SMTT(30), <1>2, <1>4, <2>1, AcceptDests DEF SendInv
<1>6. Len(accepted'[t]) = Len(accepted[t]) + 1
  <2>1. \A j \in 1 .. Len(accepted[t]) : accepted[t][j].idx = j
    BY ZenonT(30) DEF SendInv, TaskInv
  <2>2. \A j \in 1 .. Len(names) : Destination(names[j]) \in Addrs
    BY <1>1, <1>4, ZenonT(30)
  <2>3. Accept(t, Len(accepted[t]) + 1, names)
    BY <1>2, <1>4, ZenonT(30)
  <2> QED BY ZenonT(90), <1>4, <2>1, <2>2, <2>3, AcceptEffect DEF SendInv
<1>7. ASSUME NEW j \in 1 .. Len(accepted'[t]), batch[t][j] # NoAddr, ~ connected[t]
      PROVE  accepted'[t][j].dest = batch[t][j]
  <2>1. CASE j = Len(accepted[t]) + 1
    <3>1. j = i[t] /\ batch[t][j] \in Addrs \cup {NoAddr}
      BY <1>1, <1>2, <2>1, SMTT(30) DEF SendInv, TypeOK
    <3>2. Destination(batch[t][j]) = batch[t][j]
      BY <1>7, <3>1, NamedDestination, ZenonT(30)
    <3> QED BY <1>2, <1>3, <1>5, <1>7, <2>1, <3>1, <3>2, ZenonT(30)
  <2>2. CASE j \in 1 .. Len(accepted[t])
    <3>1. Safe(t)
      BY ZenonT(30), <1>0, <1>1, SafeKept
    <3> QED BY <1>5, <1>7, <2>2, <3>1, ZenonT(30) DEF DestInv
  <2> QED BY <1>2, <1>6, <2>1, <2>2
<1> QED BY <1>1, <1>7, ZenonT(30) DEF DestInv

(* No other step takes a datagram or changes a call with one taken. *)
LEMMA DestStep ==
  ASSUME DeliverableLaw, SendInv, \A t \in Tasks : DestInv(t), [Next]_vars
  PROVE  \A t \in Tasks : DestInv(t)'
<1>0. build' = build
  BY ZenonT(30), BuildFixed
<1>1. ASSUME NEW t \in Tasks, NEW u \in Tasks, u # t, TaskStep(t) PROVE DestInv(u)'
  <2>1. /\ accepted'[u] = accepted[u] /\ batch'[u] = batch[u]
        /\ connected'[u] = connected[u]
    BY ZenonT(30), <1>1, OtherTasks DEF SendInv
  <2> QED BY ZenonT(30), <1>0, <2>1, SafeKept DEF DestInv
<1>2. ASSUME NEW t \in Tasks, TaskStep(t) PROVE DestInv(t)'
  <2>1. ASSUME NEW o \in Ops, NEW b \in Batches, Call(t, o, b) PROVE DestInv(t)'
    <3>1. accepted'[t] = << >>
      BY ZenonT(30), <2>1, CallsTyped DEF Call, SendInv
    <3> QED BY <3>1 DEF DestInv
  <2>2. CASE ReadConnected(t)
    <3>1. accepted' = accepted /\ Len(accepted[t]) = 0
      BY ZenonT(30), <2>2 DEF ReadConnected, SendInv, TaskInv
    <3> QED BY <3>1 DEF DestInv
  <2>3. CASE UNCHANGED <<batch, connected, accepted>>
    BY ZenonT(30), <1>0, <2>3, SafeKept DEF DestInv
  <2>4. CASE TakeStep(t)
    <3>1. PICK k \in 1 .. SndBuf : BatchSyscallTakes(t, k)
      BY <2>4, ZenonT(30) DEF TakeStep
    <3> QED BY ZenonT(30), <3>1, TakesNat, TakesDest
  <2>5. CASE LoopSends(t)
    BY <2>5, LoopDest, ZenonT(30)
  <2> QED BY ZenonT(30), <1>2, <2>1, <2>2, <2>3, <2>4, <2>5
     DEF TaskStep, Progress, EmptyBatch,
        BatchSyscallBlocks, BatchSyscallFails, LoopBlocks, LoopFails, LoopEnds, Finish, Block,
        Resume, WaitEnds, call
<1>3. CASE (\E a \in Addrs : Connect(a)) \/ Drain \/ DriverPolls \/ UNCHANGED vars
  BY <1>0, <1>3, NoTask, SafeKept, ZenonT(30) DEF DestInv
<1> QED BY <1>1, <1>2, <1>3, StepCases, ZenonT(30)

-----------------------------------------------------------------------------
INSTANCE FiniteSetTheorems
INSTANCE WellFoundedInduction

(* A set of natural numbers that is not empty has a least element. *)
LEMMA Least ==
  ASSUME NEW S \in SUBSET Nat, S # {}
  PROVE  \E m \in S : \A n \in S : m <= n
<1> DEFINE R == OpToRel(<, Nat)
<1>1. IsWellFoundedOn(R, Nat)
  BY NatLessThanWellFounded, ZenonT(30)
<1>2. \A x, y \in Nat : x < y => <<x, y>> \in R
  BY ZenonT(30) DEF OpToRel
<1> HIDE DEF R
<1>3. PICK m \in S : \A n \in S : ~ (<<n, m>> \in R)
  BY ZenonT(30), <1>1, WFMin
<1>4. ASSUME NEW n \in S PROVE m <= n
  <2>1. ~ (n < m)
    BY ZenonT(30), <1>2, <1>3
  <2> QED BY <2>1, SMTT(30)
<1> QED BY <1>4, ZenonT(30)

(* addr_idx counts: at most the entries before j, all of them when all     *)
(* have a destination, and one more after each entry with a destination.   *)
LEMMA AddrIdxBounds ==
  ASSUME NEW b, NEW j \in Nat \ {0}
  PROVE  /\ addr_idx(b, j) \in 0 .. j - 1
         /\ (\A q \in 1 .. j - 1 : b[q] # NoAddr) => addr_idx(b, j) = j - 1
         /\ (\E q \in 1 .. j - 1 : b[q] = NoAddr) => addr_idx(b, j) < j - 1
<1> DEFINE A == {k \in 1 .. j - 1 : b[k] # NoAddr}
<1>1. IsFiniteSet(1 .. j - 1) /\ Cardinality(1 .. j - 1) = j - 1
  BY FS_Interval, SMTT(30)
<1>2. A \subseteq 1 .. j - 1
  BY ZenonT(30)
<1>3. /\ IsFiniteSet(A) /\ Cardinality(A) <= j - 1
      /\ (Cardinality(A) = j - 1 => A = 1 .. j - 1)
  BY ZenonT(30), <1>1, <1>2, FS_Subset
<1>4. Cardinality(A) \in Nat
  BY <1>3, FS_CardinalityType, ZenonT(30)
<1>5. addr_idx(b, j) = Cardinality(A)
  BY ZenonT(30) DEF addr_idx
<1>6. (\A q \in 1 .. j - 1 : b[q] # NoAddr) => A = 1 .. j - 1
  BY ZenonT(30)
<1>7. (\E q \in 1 .. j - 1 : b[q] = NoAddr) => A # 1 .. j - 1
  BY ZenonT(30)
<1> HIDE DEF A
<1> QED BY <1>1, <1>3, <1>4, <1>5, <1>6, <1>7, SMTT(30)

(* addr_idx goes up by one behind an entry with a destination, else not. *)
LEMMA AddrIdxGrows ==
  ASSUME NEW b, NEW j \in Nat \ {0}, NEW k \in Nat \ {0}, j < k, b[j] # NoAddr
  PROVE  addr_idx(b, j) < addr_idx(b, k)
<1> DEFINE A(n) == {q \in 1 .. n - 1 : b[q] # NoAddr}
<1>1. IsFiniteSet(1 .. k - 1)
  BY FS_Interval, SMTT(30)
<1>2. IsFiniteSet(A(k))
  <2>1. A(k) \subseteq 1 .. k - 1
    BY ZenonT(30)
  <2> QED BY <1>1, <2>1, FS_Subset, ZenonT(30)
<1>3. A(j) \subseteq A(k) /\ j \in A(k) /\ j \notin A(j)
  OBVIOUS
<1>4. addr_idx(b, j) = Cardinality(A(j)) /\ addr_idx(b, k) = Cardinality(A(k))
  BY ZenonT(30) DEF addr_idx
<1> HIDE DEF A
<1>5. /\ IsFiniteSet(A(j)) /\ Cardinality(A(j)) <= Cardinality(A(k))
      /\ Cardinality(A(j)) # Cardinality(A(k))
  BY <1>2, <1>3, FS_Subset, SMTT(30)
<1>6. Cardinality(A(j)) \in Nat /\ Cardinality(A(k)) \in Nat
  BY <1>2, <1>5, FS_CardinalityType, SMTT(30)
<1> QED BY <1>4, <1>5, <1>6, SMTT(30)

(* The headers of the stack path: the address of entry j is stored at      *)
(* addrs[addr_idx], and no later one overwrites it.                        *)
LEMMA StackNames ==
  ASSUME NEW b \in Seq(Addrs \cup {NoAddr}), OnStack(b)
  PROVE  \A j \in 1 .. Len(b) : MsgNames(b)[j] = b[j]
<1> SUFFICES ASSUME NEW j \in 1 .. Len(b), b[j] # NoAddr
             PROVE  StackAddrs(b)[addr_idx(b, j) + 1] = b[j]
  BY DEF MsgNames
<1>1. Len(b) \in Nat /\ j \in Nat \ {0} /\ DOMAIN b = 1 .. Len(b)
  BY SMTT(30)
<1>2. addr_idx(b, j) \in Nat /\ addr_idx(b, Len(b) + 1) \in Nat
  BY <1>1, AddrIdxBounds, SMTT(30)
<1>3. addr_idx(b, j) < addr_idx(b, Len(b) + 1)
  BY <1>1, AddrIdxGrows, SMTT(30)
<1> DEFINE At(l) == b[l] # NoAddr /\ addr_idx(b, l) = addr_idx(b, j) + 1 - 1
<1>4. StackAddrs(b)[addr_idx(b, j) + 1] = b[CHOOSE l \in DOMAIN b : At(l)]
  BY <1>2, <1>3, SMTT(30) DEF StackAddrs
<1>5. At(j) /\ \A l \in DOMAIN b : At(l) => l = j
  <2>1. At(j)
    BY <1>2, SMTT(30)
  <2>2. ASSUME NEW l \in DOMAIN b, At(l) PROVE l = j
    <3>1. l \in Nat \ {0} /\ addr_idx(b, l) = addr_idx(b, j) /\ b[l] # NoAddr
      BY <1>1, <1>2, <2>2, SMTT(30)
    <3>2. ~ (l < j) /\ ~ (j < l)
      BY <1>1, <1>2, <3>1, AddrIdxGrows, SMTT(30)
    <3> QED BY <1>1, <3>1, <3>2, SMTT(30)
  <2> QED BY <2>1, <2>2, ZenonT(30)
<1> HIDE DEF At
<1>6. (CHOOSE l \in DOMAIN b : At(l)) = j
  BY <1>1, <1>5, ZenonT(30)
<1> QED BY ZenonT(30), <1>4, <1>6

(* An entry before which all entries have a destination finds its own      *)
(* address also on the Vec path.                                           *)
LEMMA VecNames ==
  ASSUME NEW b \in Seq(Addrs \cup {NoAddr}), ~ OnStack(b), NEW j \in 1 .. Len(b),
         \A q \in 1 .. j - 1 : b[q] # NoAddr
  PROVE  MsgNames(b)[j] = b[j]
<1>1. j \in Nat \ {0} /\ DOMAIN b = 1 .. Len(b) /\ Len(b) \in Nat
  BY SMTT(30)
<1>2. addr_idx(b, j) + 1 = j
  BY <1>1, AddrIdxBounds, SMTT(30)
<1> QED BY <1>1, <1>2, ZenonT(30) DEF MsgNames, VecAddrs

(* On the Vec path the first entry with a destination after one without is *)
(* given the zeroed storage of the latter.                                 *)
LEMMA FirstMisaligned ==
  ASSUME NEW b \in Seq(Addrs \cup {NoAddr}), ~ OnStack(b), NEW n \in 0 .. Len(b),
         \A j \in 1 .. n : b[j] # NoAddr => MsgNames(b)[j] # Zeroed
  PROVE  \A j \in 1 .. n : b[j] # NoAddr => \A q \in 1 .. j - 1 : b[q] # NoAddr
<1> DEFINE Bad == {j \in 1 .. n : b[j] # NoAddr /\ \E q \in 1 .. j - 1 : b[q] = NoAddr}
<1> SUFFICES ASSUME Bad # {} PROVE FALSE
  BY ZenonT(30)
<1>1. n \in Nat /\ Len(b) \in Nat /\ DOMAIN b = 1 .. Len(b) /\ Bad \in SUBSET Nat
  BY SMTT(30)
<1>2. PICK m \in Bad : \A l \in Bad : m <= l
  BY ZenonT(30), <1>1, Least
<1> DEFINE p == addr_idx(b, m) + 1
<1>3. m \in 1 .. n /\ m \in Nat \ {0} /\ b[m] # NoAddr /\ \E q \in 1 .. m - 1 : b[q] = NoAddr
  BY <1>1, SMTT(30)
<1> HIDE DEF Bad
<1>4. p \in 1 .. n /\ p < m /\ p \in Nat \ {0} /\ addr_idx(b, m) = p - 1
  <2>1. addr_idx(b, m) \in 0 .. m - 1 /\ addr_idx(b, m) < m - 1
    BY <1>3, AddrIdxBounds, ZenonT(30)
  <2> QED BY <1>1, <1>3, <2>1, SMTT(30)
<1>5. MsgNames(b)[m] = VecAddrs(b)[p]
  BY <1>1, <1>3, SMTT(30) DEF MsgNames
<1> HIDE DEF p
<1>6. b[p] # NoAddr
  BY <1>1, <1>3, <1>4, <1>5, SMTT(30) DEF VecAddrs
<1>7. \A q \in 1 .. p - 1 : b[q] # NoAddr
  BY SMTT(30), <1>1, <1>2, <1>3, <1>4, <1>6 DEF Bad
<1>8. addr_idx(b, p) = p - 1
  BY <1>4, <1>7, AddrIdxBounds, ZenonT(30)
<1>9. addr_idx(b, p) < addr_idx(b, m)
  BY <1>3, <1>4, <1>6, AddrIdxGrows, SMTT(30)
<1> QED BY <1>4, <1>8, <1>9, SMTT(30)

(* The message headers of an aligned batch are right. *)
LEMMA NamesAligned ==
  ASSUME NEW b \in Seq(Addrs \cup {NoAddr}), Aligned(b), NEW j \in 1 .. Len(b)
  PROVE  MsgNames(b)[j] = b[j]
<1>1. DOMAIN b = 1 .. Len(b) /\ Len(b) \in Nat
  BY SMTT(30)
<1>2. CASE OnStack(b)
  BY <1>2, StackNames, ZenonT(30)
<1>3. CASE ~ OnStack(b) /\ b[j] = NoAddr
  BY <1>1, <1>3, ZenonT(30) DEF MsgNames
<1>4. CASE ~ OnStack(b) /\ b[j] # NoAddr
  <2>1. \A q \in 1 .. j - 1 : q \in DOMAIN b /\ q < j
    BY <1>1, SMTT(30)
  <2>2. \A q \in 1 .. j - 1 : b[q] # NoAddr
    BY SMTT(30), <1>1, <1>4, <2>1 DEF Aligned
  <2> QED BY <1>4, <2>2, VecNames, SMTT(30)
<1> QED BY <1>2, <1>3, <1>4, ZenonT(30)

(* A prefix that the kernel accepts has the right headers, on every path,  *)
(* when the batch is aligned or a zeroed address is refused.               *)
LEMMA DeliverableNames ==
  ASSUME NEW b \in Seq(Addrs \cup {NoAddr}), NEW n \in 0 .. Len(b), Refusable(b),
         \A j \in 1 .. n : Deliverable(MsgNames(b)[j])
  PROVE  \A j \in 1 .. n : MsgNames(b)[j] = b[j]
<1>1. Len(b) \in Nat /\ DOMAIN b = 1 .. Len(b) /\ n \in Nat
  BY SMTT(30)
<1>2. CASE Aligned(b)
  <2>1. \A j \in 1 .. n : j \in 1 .. Len(b)
    BY <1>1, SMTT(30)
  <2> QED BY <1>2, <2>1, NamesAligned, ZenonT(30)
<1>3. CASE ~ Aligned(b)
  <2>0. ~ OnStack(b) /\ ~ ZeroedIsNoAddr
    BY <1>3, ZenonT(30) DEF Aligned, Refusable
  <2>1. \A j \in 1 .. n : MsgNames(b)[j] # Zeroed
    BY <2>0, SendAssumption, ZenonT(30) DEF Deliverable, Destination
  <2>2. \A j \in 1 .. n : b[j] # NoAddr => \A q \in 1 .. j - 1 : b[q] # NoAddr
    BY <2>0, <2>1, FirstMisaligned, SMTT(30)
  <2>3. ASSUME NEW j \in 1 .. n PROVE MsgNames(b)[j] = b[j]
    <3>1. j \in 1 .. Len(b)
      BY <1>1, SMTT(30)
    <3>2. CASE b[j] = NoAddr
      BY <1>1, <3>1, <3>2, SMTT(30) DEF MsgNames
    <3>3. CASE b[j] # NoAddr
      BY SMTT(30), <2>0, <2>2, <3>1, <3>3, VecNames
    <3> QED BY <3>2, <3>3, ZenonT(30)
  <2> QED BY <2>3, ZenonT(30)
<1> QED BY <1>2, <1>3, ZenonT(30)

(* A datagram goes to the destination its entry was pushed with, whatever  *)
(* thread connects the socket meanwhile and however the headers are built: *)
(* a batch whose headers are wrong is cut off before the first wrong one,  *)
(* unless the kernel takes a zeroed address for none.                      *)
THEOREM SendDestination == Spec => []DestinationHonoured
<1> DEFINE AllDest == \A t \in Tasks : DestInv(t)
<1>1. Init => AllDest
  BY DEF Init, DestInv
<1>2. SendInv /\ AllDest /\ [Next]_vars => AllDest'
  <2>1. DeliverableLaw
    BY ZenonT(30), DeliverableNames DEF DeliverableLaw
  <2> QED BY <2>1, DestStep, ZenonT(30)
<1>3. SendInv /\ AllDest => DestinationHonoured
  <2>1. SendInv => \A t \in Tasks : \A j \in 1 .. Len(accepted[t]) : accepted[t][j].idx = j
    BY ZenonT(30) DEF SendInv, TaskInv
  <2>2. SendInv => \A t \in Tasks : (DestInv(t) /\ Safe(t)) => OwnDestinations(t)
    BY <2>1, SMTT(30) DEF DestInv, OwnDestinations
  <2> QED BY <2>2, ZenonT(30) DEF DestinationHonoured, Safe, Refusable
<1> HIDE DEF AllDest
<1> QED BY <1>1, <1>2, <1>3, SendInvariant, PTL DEF Spec
=============================================================================
