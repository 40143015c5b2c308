------------------------------ MODULE RecvLemmas ------------------------------
(***************************************************************************)
(* The invariant of RecvPath behind RecvProofs, the types of what its      *)
(* operators return, and the steps that move a task or take a datagram.    *)
(***************************************************************************)
EXTENDS RecvPath, TLAPS

Bufs     == [1 .. BufSize -> Nat]
Received == [msg : Messages, meta : BOOLEAN]
Returns  == [kind : Kinds, n : Nat]

-----------------------------------------------------------------------------
(* Messages and the datagrams in them, apart from the program. *)
(* The p-th datagram of the messages T, of which only the last may be      *)
(* coalesced: the message it is in, its number, and how many there are.    *)
In(T, p) == IF p < Len(T) THEN p ELSE Len(T)
At(T, p) == T[In(T, p)].first + (p - In(T, p))
Count(T) == (Len(T) - 1) + T[Len(T)].n
Fit(T, c) == IF Count(T) <= c THEN Count(T) ELSE c

(* Slots 1 .. n hold the first n datagrams; the buffer of slot k holds the *)
(* whole message k.                                                        *)
Handed(ss, T, n) ==
  \A p \in 1 .. n : /\ ss[p].recv_len = 1 /\ ss[p].buf[1] = At(T, p)
                    /\ ss[p].addr = T[In(T, p)].first

Buffered(ss, T, k) == \A j \in 1 .. T[k].n : ss[k].buf[j] = T[k].first + (j - 1)

(* Of the messages T those below k are handed over, to the slots below o.  *)
Halfway(ss, T, k, o) ==
  /\ Handed(ss, T, o - 1) /\ \A q \in k .. Len(T) : Buffered(ss, T, q)
  /\ k > Len(T) => o - 1 = Fit(T, Len(ss))

(* The messages of q end before x; each ends before the next begins.       *)
Below(q, x) == \A j \in 1 .. Len(q) : q[j].first + q[j].n <= x
Sorted(q)   == \A k \in 1 .. Len(q) : \A j \in 1 .. k - 1 : q[j].first + q[j].n <= q[k].first

(* The datagrams of every message are numbered from 1. *)
Numbered(T) == \A q \in 1 .. Len(T) : T[q].first \in Nat \ {0} /\ T[q].n \in Nat \ {0}

(* Nothing is in order, and below everything. *)
LEMMA Empty == Len(<< >>) = 0 /\ Sorted(<< >>) /\ \A x : Below(<< >>, x)
BY DEF Sorted, Below

(* A sequence that is not empty has an element. *)
LEMMA NonEmpty ==
  ASSUME NEW S, NEW q \in Seq(S), q # << >>
  PROVE  Len(q) \in Nat /\ Len(q) > 0
OBVIOUS

(* The length and the domain of a sequence. *)
LEMMA Lengthy ==
  ASSUME NEW S, NEW q \in Seq(S)
  PROVE  Len(q) \in Nat /\ DOMAIN q = 1 .. Len(q)
OBVIOUS

(* Where an index that is still 1 stands to a length n. *)
LEMMA AtStart ==
  ASSUME NEW n \in Nat
  PROVE  /\ 1 <= n + 1 /\ 1 <= 1 /\ 1 - 1 = 0 /\ ~ (0 > 0)
         /\ n > 0 => ~ (1 > n) /\ n # 0
         /\ n <= 0 => n = 0
         /\ n \in Nat \ {0} /\ n <= 0 + 1 => n - 1 = 0
OBVIOUS

(* An index k, one ahead of the n elements so far, moves on below c. *)
LEMMA IndexUp ==
  ASSUME NEW k \in Nat \ {0}, NEW c \in Nat, NEW n \in Nat, k <= c, n = k - 1
  PROVE  k + 1 \in Nat \ {0} /\ k + 1 <= c + 1 /\ n + 1 = (k + 1) - 1
OBVIOUS

(* What Append leaves in place and what it adds. *)
LEMMA AppendActs ==
  ASSUME NEW S, NEW q \in Seq(S), NEW m \in S
  PROVE  /\ Len(q) \in Nat /\ Len(Append(q, m)) = Len(q) + 1 /\ Append(q, m)[Len(q) + 1] = m
         /\ \A k \in 1 .. Len(q) : Append(q, m)[k] = q[k] /\ q[k] \in S
OBVIOUS

(* What replacing the element after the first n changes. *)
LEMMA PutActs ==
  ASSUME NEW S, NEW q \in Seq(S), NEW n \in Nat, n + 1 <= Len(q), NEW x
  PROVE  /\ n + 1 \in 1 .. Len(q) /\ q[n + 1] \in S /\ [q EXCEPT ![n + 1] = x][n + 1] = x
         /\ \A k \in 1 .. n : [q EXCEPT ![n + 1] = x][k] = q[k]
OBVIOUS

(* Counting what was taken: n numbers in increasing order are n. *)
CountLaw ==
  \A n \in Nat : \A f \in [1 .. n -> Nat] :
    (\A p, q \in 1 .. n : p < q => f[p] < f[q]) => Cardinality({f[p] : p \in 1 .. n}) = n

Of(T) == UNION {Datagrams(T[k]) : k \in DOMAIN T}

(* Where the p-th datagram is. *)
LEMMA Position ==
  ASSUME NEW T, NEW L \in Nat \ {0}, Len(T) = L, Numbered(T),
         \A k \in 1 .. L - 1 : T[k].n = 1, NEW p \in 1 .. Count(T)
  PROVE  /\ In(T, p) \in 1 .. L /\ At(T, p) \in Nat
         /\ p < L => In(T, p) = p /\ At(T, p) = T[p].first /\ T[p].n = 1
         /\ p >= L => In(T, p) = L /\ At(T, p) = T[L].first + (p - L)
         /\ T[In(T, p)].first <= At(T, p) /\ At(T, p) \in Datagrams(T[In(T, p)])
<1>1. /\ T[L].n \in Nat \ {0} /\ T[L].first \in Nat \ {0} /\ Count(T) = (L - 1) + T[L].n
      /\ p \in Nat \ {0} /\ p <= (L - 1) + T[L].n
  BY DEF Count, Numbered
<1>2. CASE p < L
  <2>1. In(T, p) = p /\ p \in 1 .. L /\ p \in 1 .. L - 1 /\ T[p].n = 1 /\ T[p].first \in Nat
    BY <1>1, <1>2 DEF In, Numbered
  <2>2. At(T, p) = T[p].first
    BY <1>1, <2>1 DEF At
  <2> QED BY <1>1, <1>2, <2>1, <2>2 DEF Datagrams
<1>3. CASE p >= L
  <2>1. In(T, p) = L /\ L \in 1 .. L /\ ~ (p < L)
    BY <1>1, <1>3 DEF In
  <2>2. At(T, p) = T[L].first + (p - L)
    BY <2>1, ZenonT(30) DEF At
  <2>3. At(T, p) \in Nat /\ T[L].first <= At(T, p) /\ At(T, p) <= T[L].first + (T[L].n - 1)
    BY <1>1, <1>3, <2>2, SMTT(30)
  <2>4. At(T, p) \in Datagrams(T[L])
    BY <1>1, <2>3 DEF Datagrams
  <2> QED BY <2>1, <2>2, <2>3, <2>4, ZenonT(30)
<1> QED BY <1>1, <1>2, <1>3

(* The datagrams of T are At(T, 1), At(T, 2), ..., in this order. *)
LEMMA Numbering ==
  ASSUME NEW T, NEW L \in Nat \ {0}, Len(T) = L, DOMAIN T = 1 .. L, Numbered(T), Sorted(T),
         \A k \in 1 .. L - 1 : T[k].n = 1
  PROVE  /\ Count(T) \in Nat
         /\ \A p \in 1 .. Count(T) : At(T, p) \in Nat
         /\ \A p, q \in 1 .. Count(T) : p < q => At(T, p) < At(T, q)
         /\ \A k \in 1 .. L : \A d \in Datagrams(T[k]) :
              \E p \in 1 .. Count(T) : At(T, p) = d /\ In(T, p) = k
         /\ Of(T) = {At(T, p) : p \in 1 .. Count(T)}
<1> DEFINE N == Count(T)
           a == T[L].first
           b == T[L].n
<1>0. a \in Nat \ {0} /\ b \in Nat \ {0} /\ N = (L - 1) + b /\ L \in 1 .. L
  BY DEF Count, Numbered
<1>1. /\ a \in Nat \ {0} /\ b \in Nat \ {0} /\ N = (L - 1) + b /\ N \in Nat /\ L \in 1 .. L
      /\ Datagrams(T[L]) = a .. a + (b - 1)
  BY <1>0 DEF Datagrams
<1>2. ASSUME NEW p \in 1 .. N
      PROVE  /\ In(T, p) \in 1 .. L /\ At(T, p) \in Nat
             /\ p < L => In(T, p) = p /\ At(T, p) = T[p].first /\ T[p].n = 1
             /\ p >= L => In(T, p) = L /\ At(T, p) = a + (p - L)
             /\ T[In(T, p)].first <= At(T, p) /\ At(T, p) \in Datagrams(T[In(T, p)])
  BY Position, SMTT(30)
<1> HIDE DEF N, a, b
<1>3. ASSUME NEW p \in 1 .. N, NEW q \in 1 .. N, p < q PROVE At(T, p) < At(T, q)
  <2>1. CASE p < L
    <3>0. In(T, q) \in 1 .. L /\ (q < L => In(T, q) = q) /\ (q >= L => In(T, q) = L)
      BY <1>2, ZenonT(30)
    <3>1. In(T, q) \in 1 .. L /\ p < In(T, q)
      BY <1>1, <1>3, <2>1, <3>0
    <3>2. p \in 1 .. L /\ p \in 1 .. In(T, q) - 1
      BY <1>1, <2>1, <3>1, SMTT(30)
    <3>3. T[p].first + T[p].n <= T[In(T, q)].first /\ T[In(T, q)].first \in Nat /\ T[p].first \in Nat
      BY <3>1, <3>2, ZenonT(30) DEF Sorted, Numbered
    <3>4. At(T, p) = T[p].first /\ T[p].n = 1 /\ T[In(T, q)].first <= At(T, q) /\ At(T, q) \in Nat
      BY <1>2, <2>1, ZenonT(30)
    <3> QED BY <3>3, <3>4, SMTT(30)
  <2>2. CASE p >= L
    <3>0. p \in Nat /\ q \in Nat /\ q >= L
      BY <1>1, <1>3, <2>2
    <3>1. /\ p \in Nat /\ q \in Nat /\ q >= L
          /\ At(T, p) = a + (p - L) /\ At(T, q) = a + (q - L)
      BY <1>2, <2>2, <3>0, ZenonT(30)
    <3> QED BY <1>1, <1>3, <3>1
  <2> QED BY <1>1, <2>1, <2>2
<1>4. ASSUME NEW k \in 1 .. L, NEW d \in Datagrams(T[k])
      PROVE  \E p \in 1 .. N : At(T, p) = d /\ In(T, p) = k
  <2>1. CASE k < L
    <3>1. T[k].n = 1 /\ T[k].first \in Nat /\ k \in 1 .. N
      <4>1. k \in 1 .. L - 1 /\ k \in 1 .. N
        BY <1>1, <2>1
      <4> QED BY <4>1, ZenonT(30) DEF Numbered
    <3>2. d = T[k].first
      BY <3>1 DEF Datagrams
    <3> QED BY <1>2, <2>1, <3>1, <3>2, ZenonT(30)
  <2>2. CASE k = L
    <3> DEFINE p == L + (d - a)
    <3>0. d \in Int /\ d >= a /\ d <= a + (b - 1)
      BY <1>1, <2>2
    <3>1. p \in 1 .. N /\ p >= L /\ a + (p - L) = d
      BY <1>1, <3>0
    <3> HIDE DEF p
    <3>2. At(T, p) = d /\ In(T, p) = k
      BY <1>1, <1>2, <2>2, <3>1, ZenonT(30)
    <3> QED BY <3>1, <3>2, ZenonT(30)
  <2> QED BY <2>1, <2>2
<1>5. Of(T) = {At(T, p) : p \in 1 .. N}
  BY <1>2, <1>4 DEF Of
<1> QED BY <1>1, <1>2, <1>3, <1>4, <1>5, ZenonT(30) DEF N

(* Cardinalities of datagrams are positions among them. *)
LEMMA Counting ==
  ASSUME CountLaw, NEW T, NEW L \in Nat \ {0}, Len(T) = L, DOMAIN T = 1 .. L, Numbered(T), Sorted(T),
         \A k \in 1 .. L - 1 : T[k].n = 1
  PROVE  /\ Cardinality(Of(T)) = Count(T)
         /\ \A p \in 1 .. Count(T) : Cardinality({e \in Of(T) : e <= At(T, p)}) = p
<1> DEFINE N == Count(T)
<1>1. /\ N \in Nat /\ \A p \in 1 .. N : At(T, p) \in Nat
      /\ \A p, q \in 1 .. N : p < q => At(T, p) < At(T, q)
      /\ Of(T) = {At(T, p) : p \in 1 .. N}
  BY Numbering, ZenonT(30)
<1> HIDE DEF N
<1>2. ASSUME NEW p \in 0 .. N PROVE Cardinality({At(T, q) : q \in 1 .. p}) = p
  <2> DEFINE f == [q \in 1 .. p |-> At(T, q)]
  <2>1. f \in [1 .. p -> Nat] /\ p \in Nat /\ \A q, s \in 1 .. p : q < s => f[q] < f[s]
    BY <1>1
  <2>2. {f[q] : q \in 1 .. p} = {At(T, q) : q \in 1 .. p}
    BY ZenonT(30)
  <2> HIDE DEF f
  <2>3. Cardinality({f[q] : q \in 1 .. p}) = p
    BY <2>1, ZenonT(30) DEF CountLaw
  <2> QED BY <2>2, <2>3, ZenonT(30)
<1>3. ASSUME NEW p \in 1 .. N PROVE {e \in Of(T) : e <= At(T, p)} = {At(T, q) : q \in 1 .. p}
  BY <1>1, SMTT(30)
<1>4. N \in 0 .. N /\ \A p \in 1 .. N : p \in 0 .. N
  BY <1>1
<1> QED BY <1>1, <1>2, <1>3, <1>4, ZenonT(30) DEF N

-----------------------------------------------------------------------------
(* The kernel's copy and the split. *)
LEMMA FunctionIsSeq ==
  ASSUME NEW S, NEW n \in Nat, NEW f \in [1 .. n -> S]
  PROVE  f \in Seq(S) /\ Len(f) = n
OBVIOUS

LEMMA MessagesTyped ==
  ASSUME TypeOK, NEW m \in Messages
  PROVE  m.first \in Nat \ {0} /\ m.n \in Nat \ {0} /\ MaxGro \in Nat \ {0} /\ m.n <= MaxGro
BY RecvAssumption DEF TypeOK, Messages, MaxGro

LEMMA SegmentsTyped ==
  ASSUME TypeOK, NEW m \in Messages
  PROVE  /\ Segments(m) \in Seq(Nat) /\ Len(Segments(m)) \in 1 .. BufSize
         /\ Segments(m)[1] = m.first /\ (m.n = 1 => Len(Segments(m)) = 1)
<1> DEFINE k == IF m.n <= BufSize THEN m.n ELSE BufSize
<1>1. m.first \in Nat \ {0} /\ m.n \in Nat \ {0} /\ k \in 1 .. BufSize /\ (m.n = 1 => k = 1)
  BY MessagesTyped, RecvAssumption
<1>2. Segments(m) = [p \in 1 .. k |-> m.first + p - 1]
  BY ZenonT(30) DEF Segments
<1> HIDE DEF k
<1>3. Segments(m) \in [1 .. k -> Nat] /\ Segments(m)[1] = m.first
  BY <1>1, <1>2
<1> QED BY <1>1, <1>3, FunctionIsSeq

LEMMA WriteTyped ==
  ASSUME NEW buf \in Bufs, NEW bytes \in Seq(Nat)
  PROVE  /\ Write(buf, bytes) \in Bufs
         /\ Len(bytes) >= 1 => Write(buf, bytes)[1] = bytes[1]
BY RecvAssumption, SMTT(30) DEF Write, Bufs

LEMMA FilledTyped ==
  ASSUME TypeOK, NEW slot \in Slots, NEW r \in Received, NEW total \in 1 .. BufSize
  PROVE  Filled(slot, r, total) \in Slots /\ Filled(slot, r, total).buf = slot.buf
<1>1. r.msg \in Messages /\ r.msg.first \in Nat
  BY MessagesTyped, ZenonT(30) DEF Received
<1>2. total \in 0 .. BufSize
  BY RecvAssumption
<1> QED BY <1>1, <1>2, ZenonT(30) DEF Filled, Slots

LEMMA SplitRange ==
  ASSUME NEW c \in Nat, NEW first \in 1 .. c, NEW total \in Nat \ {0}
  PROVE  Split(c, first, total) \in 1 .. c - first + 1 /\ Split(c, first, total) <= total
BY DEF Split

LEMMA SplitSlotsTyped ==
  ASSUME TypeOK, NEW ss \in Seq(Slots), NEW r \in Received, NEW first \in 1 .. Len(ss),
         NEW total \in 1 .. BufSize
  PROVE  SplitSlots(ss, r, first, total) \in Seq(Slots)
         /\ Len(SplitSlots(ss, r, first, total)) = Len(ss)
<1> DEFINE head == Filled(ss[first], r, total)
           last == first + Split(Len(ss), first, total) - 1
           out  == SplitSlots(ss, r, first, total)
<1>1. Len(ss) \in Nat /\ DOMAIN ss = 1 .. Len(ss) /\ \A s \in 1 .. Len(ss) : ss[s] \in Slots
  OBVIOUS
<1>2. BufSize \in Nat \ {0}
  BY RecvAssumption, ZenonT(30)
<1>3. head \in Slots /\ last \in Nat /\ last <= first + total - 1
  <2>1. ss[first] \in Slots /\ total \in Nat \ {0}
    BY <1>1, <1>2
  <2>2. head \in Slots
    BY <2>1, FilledTyped, ZenonT(30)
  <2>3. /\ Split(Len(ss), first, total) \in 1 .. Len(ss) - first + 1
        /\ Split(Len(ss), first, total) <= total
    BY <1>1, <2>1, SplitRange, ZenonT(30)
  <2> HIDE DEF head
  <2> QED BY <1>1, <1>2, <2>2, <2>3
<1>4. r.msg.first \in Nat
  BY MessagesTyped, ZenonT(30) DEF Received
<1>5. out = [s \in DOMAIN ss |->
        IF s = first THEN [head EXCEPT !.recv_len = 1]
        ELSE IF s \in first + 1 .. last
        THEN [buf      |-> Write(ss[s].buf, <<head.buf[s - first + 1]>>),
              recv_len |-> 1, addr |-> r.msg.first, meta |-> head.meta]
        ELSE ss[s]]
  BY ZenonT(30) DEF SplitSlots
<1> HIDE DEF head, last, out
<1>6. [head EXCEPT !.recv_len = 1] \in Slots
  <2>1. 1 \in 0 .. BufSize
    BY <1>2
  <2> QED BY <1>3, <2>1, ZenonT(30) DEF Slots
<1>7. ASSUME NEW s \in 1 .. Len(ss), s \in first + 1 .. last
      PROVE  [buf      |-> Write(ss[s].buf, <<head.buf[s - first + 1]>>),
              recv_len |-> 1, addr |-> r.msg.first, meta |-> head.meta] \in Slots
  <2>1. s - first + 1 \in 1 .. BufSize
    BY <1>1, <1>2, <1>3, <1>7
  <2>2. head.buf[s - first + 1] \in Nat /\ head.meta \in Nat /\ ss[s].buf \in Bufs
    BY <1>1, <1>3, <2>1, ZenonT(30) DEF Slots, Bufs
  <2>3. <<head.buf[s - first + 1]>> \in Seq(Nat)
    BY <2>2
  <2>4. Write(ss[s].buf, <<head.buf[s - first + 1]>>) \in Bufs
    BY <2>2, <2>3, WriteTyped, ZenonT(30)
  <2>5. 1 \in 0 .. BufSize
    BY <1>2
  <2>6. \A b \in Bufs : [buf |-> b, recv_len |-> 1, addr |-> r.msg.first, meta |-> head.meta] \in Slots
    BY <1>4, <2>2, <2>5, ZenonT(30) DEF Slots, Bufs
  <2> QED BY <2>4, <2>6, ZenonT(30)
<1>8. out \in [1 .. Len(ss) -> Slots]
  BY <1>1, <1>5, <1>6, <1>7, ZenonT(30)
<1>9. out \in Seq(Slots) /\ Len(out) = Len(ss)
  BY <1>1, <1>8, FunctionIsSeq, ZenonT(30)
<1> QED BY <1>9, ZenonT(30) DEF out

(* out is ss after a split that has given a segment each to the d slots    *)
(* from first on.                                                          *)
IsSplit(out, ss, r, first, d) ==
  /\ Len(out) = Len(ss)
  /\ \A s \in 1 .. Len(ss) :
       IF s \in first .. first + (d - 1)
       THEN /\ out[s].recv_len = 1 /\ out[s].addr = r.msg.first
            /\ out[s].buf[1] = ss[first].buf[(s - first) + 1]
            /\ out[s].meta = IF r.meta THEN r.msg.first ELSE ss[first].meta
       ELSE out[s] = ss[s]

(* SplitSlots does what IsSplit says. *)
LEMMA SplitActs ==
  ASSUME NEW ss \in Seq(Slots), NEW r, NEW first \in 1 .. Len(ss), NEW total \in Nat \ {0}
  PROVE  IsSplit(SplitSlots(ss, r, first, total), ss, r, first, Split(Len(ss), first, total))
<1> DEFINE head == Filled(ss[first], r, total)
           d    == Split(Len(ss), first, total)
           out  == SplitSlots(ss, r, first, total)
<1>1. Len(ss) \in Nat /\ DOMAIN ss = 1 .. Len(ss) /\ ss[first] \in Slots /\ BufSize \in Nat \ {0}
  BY RecvAssumption
<1>2. d \in 1 .. Len(ss) - first + 1
  BY <1>1, SplitRange, ZenonT(30)
<1>3. /\ head.addr = r.msg.first /\ head.buf = ss[first].buf
      /\ head.meta = IF r.meta THEN r.msg.first ELSE ss[first].meta
      /\ [head EXCEPT !.recv_len = 1].recv_len = 1
      /\ [head EXCEPT !.recv_len = 1].addr = head.addr
      /\ [head EXCEPT !.recv_len = 1].buf = head.buf
      /\ [head EXCEPT !.recv_len = 1].meta = head.meta
  BY <1>1, ZenonT(30) DEF Filled, Slots
<1>4. out = [s \in DOMAIN ss |->
        IF s = first THEN [head EXCEPT !.recv_len = 1]
        ELSE IF s \in first + 1 .. first + (d - 1)
        THEN [buf      |-> Write(ss[s].buf, <<head.buf[s - first + 1]>>),
              recv_len |-> 1, addr |-> r.msg.first, meta |-> head.meta]
        ELSE ss[s]]
  BY ZenonT(30) DEF SplitSlots
<1>5. \A buf, x : Write(buf, <<x>>)[1] = x
  BY <1>1 DEF Write
<1> HIDE DEF head, d, out
<1>6. ASSUME NEW s \in 1 .. Len(ss)
      PROVE  IF s \in first .. first + (d - 1)
             THEN /\ out[s].recv_len = 1 /\ out[s].addr = r.msg.first
                  /\ out[s].buf[1] = ss[first].buf[s - first + 1]
                  /\ out[s].meta = IF r.meta THEN r.msg.first ELSE ss[first].meta
             ELSE out[s] = ss[s]
  <2>1. CASE s = first
    <3>1. out[s] = [head EXCEPT !.recv_len = 1] /\ s - first + 1 = 1 /\ s \in first .. first + (d - 1)
      BY <1>1, <1>2, <1>4, <2>1
    <3> QED BY <1>3, <3>1, ZenonT(30)
  <2>2. CASE s \in first + 1 .. first + (d - 1)
    <3>1. /\ s # first /\ s \in first .. first + (d - 1)
          /\ out[s] = [buf      |-> Write(ss[s].buf, <<head.buf[s - first + 1]>>),
                       recv_len |-> 1, addr |-> r.msg.first, meta |-> head.meta]
      BY <1>1, <1>2, <1>4, <2>2, SMTT(30)
    <3> QED BY <1>3, <1>5, <3>1
  <2>3. CASE s # first /\ s \notin first + 1 .. first + (d - 1)
    BY <1>1, <1>2, <1>4, <2>3, SMTT(30)
  <2> QED BY <2>1, <2>2, <2>3, ZenonT(30)
<1>7. Len(out) = Len(ss)
  BY <1>1, <1>4
<1>8. IsSplit(out, ss, r, first, d)
  BY <1>6, <1>7, ZenonT(30) DEF IsSplit
<1> QED BY <1>8, ZenonT(30) DEF d, out

(* A turn of the loop: message k of T, whose buffer is slot k's, goes to   *)
(* the d slots from k on; new is what ss becomes.                          *)
Spread(ss, new, T, k, d) ==
  /\ d \in 1 .. T[k].n /\ Len(new) = Len(ss)
  /\ k < Len(T) => d = 1
  /\ k = Len(T) => (k + d) - 1 = Fit(T, Len(ss))
  /\ \A s \in 1 .. Len(ss) :
       IF s \in k .. k + (d - 1)
       THEN /\ new[s].recv_len = 1 /\ new[s].addr = T[k].first
            /\ new[s].buf[1] = ss[k].buf[(s - k) + 1]
       ELSE new[s] = ss[s]

(* The turn of an uncoalesced message. *)
LEMMA SpreadOne ==
  ASSUME NEW ss \in Seq(Slots), NEW T, Len(T) \in Nat, NEW k \in 1 .. Len(ss), k \in 1 .. Len(T),
         T[k].n = 1, NEW r, r.msg = T[k]
  PROVE  Spread(ss, [ss EXCEPT ![k] = Filled(ss[k], r, 1)], T, k, 1)
<1> DEFINE x   == Filled(ss[k], r, 1)
           new == [ss EXCEPT ![k] = x]
<1>1. Len(ss) \in Nat /\ ss[k] \in Slots
  OBVIOUS
<1>2. x.recv_len = 1 /\ x.addr = T[k].first /\ x.buf = ss[k].buf
  BY <1>1, ZenonT(30) DEF Filled, Slots
<1> HIDE DEF x
<1>3. Len(new) = Len(ss) /\ new[k] = x /\ \A s \in 1 .. Len(ss) : s # k => new[s] = ss[s]
  BY <1>1
<1> HIDE DEF new
<1>4. \A s \in 1 .. Len(ss) : IF s \in k .. k + (1 - 1)
                              THEN s = k /\ (s - k) + 1 = 1 ELSE s # k
  BY <1>1
<1>5. k = Len(T) => (k + 1) - 1 = Fit(T, Len(ss))
  BY <1>1 DEF Fit, Count
<1>6. ASSUME NEW s \in 1 .. Len(ss)
      PROVE  IF s \in k .. k + (1 - 1)
             THEN /\ new[s].recv_len = 1 /\ new[s].addr = T[k].first
                  /\ new[s].buf[1] = ss[k].buf[(s - k) + 1]
             ELSE new[s] = ss[s]
  BY <1>2, <1>3, <1>4, ZenonT(30)
<1>7. 1 \in 1 .. T[k].n
  OBVIOUS
<1>8. Spread(ss, new, T, k, 1)
  BY <1>3, <1>5, <1>6, <1>7, ZenonT(30) DEF Spread
<1> QED BY <1>8, ZenonT(30) DEF new, x

(* The turn of a coalesced message, which is the last. *)
LEMMA SpreadSplit ==
  ASSUME NEW ss \in Seq(Slots), NEW T, Len(T) \in Nat, NEW k \in 1 .. Len(ss), k = Len(T),
         NEW n \in Nat \ {0}, T[k].n = n, NEW r, r.msg = T[k]
  PROVE  Spread(ss, SplitSlots(ss, r, k, n), T, k, Split(Len(ss), k, n))
<1> DEFINE d   == Split(Len(ss), k, n)
           new == SplitSlots(ss, r, k, n)
<1>1. Len(ss) \in Nat
  OBVIOUS
<1>2. d \in 1 .. n /\ (k + d) - 1 = Fit(T, Len(ss))
  <2>1. d = IF n <= (Len(ss) - k) + 1 THEN n ELSE (Len(ss) - k) + 1
    BY <1>1, ZenonT(30) DEF Split
  <2>2. Fit(T, Len(ss)) = IF (k - 1) + n <= Len(ss) THEN (k - 1) + n ELSE Len(ss)
    BY ZenonT(30) DEF Fit, Count
  <2> HIDE DEF d
  <2> QED BY <1>1, <2>1, <2>2
<1>3. IsSplit(new, ss, r, k, d)
  BY SplitActs, ZenonT(30)
<1> HIDE DEF d, new
<1>4. Spread(ss, new, T, k, d)
  BY <1>2, <1>3 DEF Spread, IsSplit
<1> QED BY <1>4, ZenonT(30) DEF d, new

(* A turn adds its datagrams to those handed over and leaves the later     *)
(* messages in their buffers.                                              *)
LEMMA SpreadHands ==
  ASSUME NEW ss, NEW new, NEW T, NEW k, NEW d, Spread(ss, new, T, k, d), Numbered(T),
         Len(ss) \in Nat, Len(T) \in Nat, k \in 1 .. Len(ss), k \in 1 .. Len(T), Len(T) <= Len(ss),
         Halfway(ss, T, k, k)
  PROVE  Halfway(new, T, k + 1, k + d)
<1>0. Handed(ss, T, k - 1) /\ \A q \in k .. Len(T) : Buffered(ss, T, q)
  BY ZenonT(30) DEF Halfway
<1>1. /\ d \in 1 .. T[k].n /\ Len(new) = Len(ss) /\ T[k].first \in Nat /\ T[k].n \in Nat
      /\ k < Len(T) => d = 1
      /\ k = Len(T) => (k + d) - 1 = Fit(T, Len(ss))
  BY ZenonT(30) DEF Spread, Numbered
<1>2. \A s \in 1 .. Len(ss) : s \notin k .. k + (d - 1) => new[s] = ss[s]
  BY ZenonT(30) DEF Spread
<1>3. \A s \in 1 .. Len(ss) : s \in k .. k + (d - 1) =>
        /\ new[s].recv_len = 1 /\ new[s].addr = T[k].first
        /\ new[s].buf[1] = ss[k].buf[(s - k) + 1]
  BY ZenonT(30) DEF Spread
<1>4. (k + d) - 1 <= Len(ss)
  BY <1>1, SMTT(90) DEF Fit, Count
<1>5. ASSUME NEW p \in 1 .. k - 1
      PROVE  /\ new[p].recv_len = 1 /\ new[p].buf[1] = At(T, p) /\ new[p].addr = T[In(T, p)].first
  BY <1>0, <1>1, <1>2, SMTT(30) DEF Handed
<1>6. ASSUME NEW p \in k .. (k + d) - 1
      PROVE  /\ new[p].recv_len = 1 /\ new[p].buf[1] = At(T, p) /\ new[p].addr = T[In(T, p)].first
  <2>0. k \in Nat \ {0} /\ d \in Nat \ {0} /\ d <= T[k].n /\ p \in Int /\ p >= k /\ p <= (k + d) - 1
    BY <1>1, SMTT(30)
  <2>1. /\ p \in 1 .. Len(ss) /\ p \in k .. k + (d - 1) /\ (p - k) + 1 \in 1 .. T[k].n
        /\ p \in Int /\ p >= k /\ (k < Len(T) => p = k)
    BY <1>1, <1>4, <2>0, SMTT(30)
  <2>4. In(T, p) = k
    BY <2>1 DEF In
  <2>2. ss[k].buf[(p - k) + 1] = T[k].first + (((p - k) + 1) - 1)
    <3>1. k \in k .. Len(T)
      OBVIOUS
    <3>2. Buffered(ss, T, k)
      BY <1>0, <3>1, ZenonT(30)
    <3> QED BY <2>1, <3>2, ZenonT(30) DEF Buffered
  <2>3. At(T, p) = T[k].first + (((p - k) + 1) - 1)
    BY <1>1, <2>1, <2>4 DEF At
  <2> QED BY <1>3, <2>1, <2>2, <2>3, <2>4, ZenonT(30)
<1>7. Handed(new, T, (k + d) - 1)
  <2>1. \A p \in 1 .. (k + d) - 1 : p \in 1 .. k - 1 \/ p \in k .. (k + d) - 1
    BY <1>1
  <2> QED BY <1>5, <1>6, <2>1, ZenonT(30) DEF Handed
<1>8. ASSUME NEW q \in k + 1 .. Len(T) PROVE Buffered(new, T, q)
  <2>1. q \in 1 .. Len(ss) /\ q \notin k .. k + (d - 1) /\ q \in k .. Len(T)
    BY <1>1
  <2>2. new[q] = ss[q] /\ Buffered(ss, T, q)
    BY <1>0, <1>2, <2>1, ZenonT(30)
  <2> QED BY <2>2, ZenonT(30) DEF Buffered
<1>9. k + 1 > Len(T) => (k + d) - 1 = Fit(T, Len(new))
  BY <1>1, SMTT(30)
<1> QED BY <1>7, <1>8, <1>9, ZenonT(30) DEF Halfway

(* The bytes of a slot that one datagram was received into. *)
LEMMA FirstOnly ==
  ASSUME NEW slot \in Slots, slot.recv_len = 1
  PROVE  data(slot) = <<slot.buf[1]>>
<1>1. slot.buf \in [1 .. BufSize -> Nat] /\ BufSize \in Nat \ {0}
  BY RecvAssumption, ZenonT(30) DEF Slots
<1>2. slot.buf \in Seq(Nat) /\ Len(slot.buf) = BufSize
  BY <1>1, FunctionIsSeq, ZenonT(30)
<1>3. SubSeq(slot.buf, 1, 1) \in Seq(Nat) /\ Len(SubSeq(slot.buf, 1, 1)) = 1
      /\ SubSeq(slot.buf, 1, 1)[1] = slot.buf[1]
  BY <1>1, <1>2
<1>4. \A u \in Seq(Nat) : Len(u) = 1 => u = <<u[1]>>
  OBVIOUS
<1> QED BY <1>3, <1>4, ZenonT(30) DEF data

-----------------------------------------------------------------------------
Places == {"idle", "attempt", "process", "returned", "waiting", "panicked"}

(* What holds of one task between any two steps.  A call that has taken    *)
(* nothing returns WouldBlock or Ok(0), and nothing else does: in a        *)
(* recvmmsg there are as many messages as were taken, in a loop i counts   *)
(* them, and out_idx never falls behind i.                                 *)
TaskInv(t) ==
  /\ pc[t] \in {"idle", "returned", "waiting"} => msgs[t] = << >> /\ i[t] = 1 /\ out_idx[t] = 1
  /\ pc[t] = "attempt" =>
       /\ out_idx[t] = 1 /\ i[t] <= capacity(t) + 1
       /\ BatchSyscall => i[t] = 1 /\ Len(taken[t]) = Len(msgs[t])
       /\ ~ BatchSyscall => msgs[t] = << >> /\ Len(taken[t]) = i[t] - 1
  /\ pc[t] = "process" =>
       /\ Len(taken[t]) = Len(msgs[t]) /\ Len(msgs[t]) > 0
       /\ i[t] <= Len(msgs[t]) + 1 /\ i[t] <= out_idx[t] /\ out_idx[t] <= capacity(t) + 1
  /\ pc[t] = "waiting" => Len(taken[t]) = 0
  /\ pc[t] = "returned" =>
       /\ ret[t].kind \in {"Ok", "WouldBlock", "Error"}
       /\ (ret[t].kind = "WouldBlock" \/ ret[t] = Ok(0)) => Len(taken[t]) = 0
  /\ pc[t] = "idle" =>
       /\ ret[t].kind \in {"Cancelled", "WouldBlock"} => Len(taken[t]) = 0
       /\ op[t] \in AsyncOps => ret[t].kind # "WouldBlock" /\ ret[t] # Ok(0)

(* TypeOK, with its record sets named. *)
Types ==
  /\ build \in Builds
  /\ arrived \in Nat /\ queue \in Seq(Messages)
  /\ metaOn \in BOOLEAN /\ edge \in BOOLEAN /\ ready \in BOOLEAN
  /\ pc \in [Tasks -> Places]
  /\ op \in [Tasks -> Ops \cup {"none"}]
  /\ slots \in [Tasks -> Seq(Slots)]
  /\ msgs \in [Tasks -> Seq(Received)]
  /\ i \in [Tasks -> Nat \ {0}] /\ out_idx \in [Tasks -> Nat \ {0}]
  /\ ret \in [Tasks -> Returns]
  /\ taken \in [Tasks -> Seq(Messages)] /\ clean \in [Tasks -> BOOLEAN]
  /\ len \in [Tasks -> Nat]
  /\ \A t \in Tasks : len[t] <= capacity(t) /\ Len(msgs[t]) <= capacity(t)

LEMMA TypesOK == Types => TypeOK
BY ZenonT(30) DEF Types, TypeOK, Places, Received, Returns

(* What task t does itself. *)
TaskStep(t) ==
  \/ \E o \in Ops, reuse \in BOOLEAN : Call(t, o, reuse)
  \/ Clear(t) \/ Progress(t)
  \/ \E kind \in {"Error", "Cancelled"} : WaitEnds(t, kind)

(* What is known of each call is known of every task. *)
LEMMA CallsTyped ==
  ASSUME Types
  PROVE  /\ DOMAIN pc = Tasks /\ DOMAIN ret = Tasks /\ DOMAIN op = Tasks
         /\ DOMAIN slots = Tasks /\ DOMAIN msgs = Tasks /\ DOMAIN taken = Tasks
         /\ DOMAIN i = Tasks /\ DOMAIN out_idx = Tasks /\ DOMAIN clean = Tasks
         /\ DOMAIN len = Tasks
BY ZenonT(30) DEF Types

(* The data of a call. *)
LEMMA CallTyped ==
  ASSUME Types, NEW t \in Tasks
  PROVE  /\ msgs[t] \in Seq(Received) /\ taken[t] \in Seq(Messages) /\ slots[t] \in Seq(Slots)
         /\ Len(msgs[t]) \in Nat /\ Len(taken[t]) \in Nat
         /\ capacity(t) \in Nat /\ capacity(t) = Len(slots[t]) /\ Len(msgs[t]) <= capacity(t)
         /\ i[t] \in Nat \ {0} /\ out_idx[t] \in Nat \ {0} /\ ret[t] \in Returns
         /\ len[t] \in Nat /\ len[t] <= capacity(t)
BY SMTT(30) DEF Types, capacity

(* The step of a task leaves the calls and the batches of the others alone *)
(* and the build as it is.                                                 *)
LEMMA OtherTasks ==
  ASSUME Types, NEW t \in Tasks, NEW u \in Tasks, u # t, TaskStep(t)
  PROVE  /\ pc'[u] = pc[u] /\ ret'[u] = ret[u] /\ msgs'[u] = msgs[u] /\ taken'[u] = taken[u]
         /\ i'[u] = i[u] /\ out_idx'[u] = out_idx[u] /\ slots'[u] = slots[u]
         /\ clean'[u] = clean[u] /\ len'[u] = len[u] /\ build' = build
<1> USE DEF kernel, batch
<1>1. CASE NoSlots(t) \/ SyscallBlocks(t) \/ SyscallFails(t) \/ ProcessEnds(t)
           \/ LoopEnds(t) \/ LoopFails(t)
  BY <1>1, CallsTyped, ZenonT(30)
    DEF NoSlots, SyscallBlocks, SyscallFails, ProcessEnds, LoopEnds, LoopFails, PlatformReturns
<1>2. CASE SyscallTakes(t) \/ LoopTakes(t)
  BY <1>2, CallsTyped, ZenonT(30) DEF SyscallTakes, LoopTakes
<1>3. CASE SyscallEnds(t) \/ ProcessPanics(t) \/ Finish(t) \/ Block(t) \/ Resume(t)
  BY <1>3, CallsTyped, ZenonT(30) DEF SyscallEnds, ProcessPanics, Finish, Block, Resume
<1>4. CASE ProcessMessage(t)
  BY <1>4, CallsTyped, ZenonT(30) DEF ProcessMessage
<1>5. ASSUME NEW o \in Ops, NEW reuse \in BOOLEAN, Call(t, o, reuse)
      PROVE  /\ pc'[u] = pc[u] /\ ret'[u] = ret[u] /\ msgs'[u] = msgs[u] /\ taken'[u] = taken[u]
             /\ i'[u] = i[u] /\ out_idx'[u] = out_idx[u] /\ slots'[u] = slots[u]
             /\ clean'[u] = clean[u] /\ len'[u] = len[u] /\ build' = build
  <2>1. slots'[u] = slots[u] /\ len'[u] = len[u]
    BY <1>5, CallsTyped, ZenonT(30) DEF Call
  <2>2. clean'[u] = clean[u]
    BY <1>5, CallsTyped, ZenonT(30) DEF Call
  <2>3. /\ pc'[u] = pc[u] /\ ret'[u] = ret[u] /\ msgs'[u] = msgs[u] /\ taken'[u] = taken[u]
        /\ i'[u] = i[u] /\ out_idx'[u] = out_idx[u] /\ build' = build
    BY <1>5, CallsTyped, ZenonT(30) DEF Call
  <2> QED BY <2>1, <2>2, <2>3, ZenonT(30)
<1>6. CASE Clear(t)
  BY <1>6, CallsTyped, ZenonT(30) DEF Clear
<1>7. CASE \E kind \in {"Error", "Cancelled"} : WaitEnds(t, kind)
  BY <1>7, CallsTyped, ZenonT(30) DEF WaitEnds
<1> QED BY <1>1, <1>2, <1>3, <1>4, <1>5, <1>6, <1>7, ZenonT(30) DEF TaskStep, Progress

(* A platform call that returns before, or without, a loop over messages. *)
LEMMA EndActs ==
  ASSUME Types, NEW t \in Tasks,
         NoSlots(t) \/ SyscallBlocks(t) \/ SyscallFails(t) \/ LoopEnds(t) \/ LoopFails(t)
  PROVE  /\ pc[t] = "attempt" /\ pc'[t] = "returned"
         /\ ret'[t] \in {Ok(0), Ok(i[t] - 1), Failed("WouldBlock"), Failed("Error")}
         /\ UNCHANGED <<slots, len, taken, queue, clean>>
BY CallsTyped, SMTT(30) DEF NoSlots, SyscallBlocks, SyscallFails, LoopEnds, LoopFails,
   PlatformReturns, InSyscall, InLoop, batch, kernel

(* The loop over the messages begins, and ends in one of two ways. *)
LEMMA ProcessActs ==
  ASSUME Types, NEW t \in Tasks
  PROVE  /\ SyscallEnds(t) =>
              /\ pc[t] = "attempt" /\ BatchSyscall /\ pc'[t] = "process"
              /\ UNCHANGED <<build, slots, msgs, i, out_idx, ret, taken, clean>>
         /\ ProcessPanics(t) =>
              /\ pc[t] = "process" /\ i[t] <= Len(msgs[t]) /\ out_idx[t] > capacity(t)
              /\ pc'[t] = "panicked" /\ UNCHANGED taken
         /\ ProcessEnds(t) =>
              /\ pc[t] = "process" /\ i[t] > Len(msgs[t])
              /\ pc'[t] = "returned" /\ ret'[t] = Ok(out_idx[t] - 1)
              /\ UNCHANGED <<slots, taken, clean>>
BY CallsTyped DEF SyscallEnds, InSyscall, batch, kernel, ProcessPanics, AtMessage, ProcessEnds,
   PlatformReturns

(* The wrappers of src/socket.rs. *)
LEMMA WrapperActs ==
  ASSUME Types, NEW t \in Tasks
  PROVE  /\ Finish(t) => pc[t] = "returned" /\ pc'[t] = "idle" /\ UNCHANGED <<ret, slots, clean>>
         /\ Block(t) =>
              /\ pc[t] = "returned" /\ (ret[t].kind = "WouldBlock" \/ ret[t] = Ok(0))
              /\ \/ pc'[t] = "waiting" /\ ret' = ret
                 \/ pc'[t] = "idle" /\ ret'[t] = Failed("Error")
              /\ UNCHANGED <<slots, clean>>
         /\ Resume(t) =>
              pc[t] = "waiting" /\ pc'[t] = "attempt" /\ UNCHANGED <<ret, slots, clean, msgs>>
         /\ (\E kind \in {"Error", "Cancelled"} : WaitEnds(t, kind)) =>
              pc'[t] = "idle" /\ ret'[t].kind \in {"Error", "Cancelled"}
BY CallsTyped DEF Finish, batch, Block, MustWait, Resume, WaitEnds, Failed

(* A call begins with the batch of the last one, or a new one. *)
LEMMA CallActs ==
  ASSUME Types, NEW t \in Tasks, NEW o \in Ops, NEW reuse \in BOOLEAN, Call(t, o, reuse)
  PROVE  /\ pc[t] = "idle" /\ pc'[t] = "attempt" /\ ret'[t] = Failed("None")
         /\ taken'[t] = << >> /\ msgs' = msgs
         /\ \/ /\ slots' = slots
               /\ clean'[t] => \/ ret[t] = Failed("None")
                               \/ \A s \in DOMAIN slots[t] : slots[t][s].meta = 0
            \/ \E c \in Nat : slots'[t] = with_capacity(c)
<1>1. /\ pc[t] = "idle" /\ pc'[t] = "attempt" /\ ret'[t] = Failed("None")
      /\ taken'[t] = << >> /\ msgs' = msgs
  BY CallsTyped, ZenonT(30) DEF Call
<1>2. CASE reuse
  BY <1>1, <1>2, CallsTyped, ZenonT(30) DEF Call, batch
<1>3. CASE ~ reuse
  <2>1. PICK c \in Nat : slots' = [slots EXCEPT ![t] = with_capacity(c)]
    BY <1>3, RecvAssumption, ZenonT(30) DEF Call
  <2> QED BY <1>1, <2>1, CallsTyped, ZenonT(30)
<1> QED BY <1>2, <1>3, ZenonT(30)

LEMMA ClearActs ==
  ASSUME Types, NEW t \in Tasks, Clear(t)
  PROVE  /\ pc'[t] = "idle" /\ ret'[t] = Failed("None")
         /\ slots'[t] = [s \in DOMAIN slots[t] |-> [slots[t][s] EXCEPT !.recv_len = 0, !.meta = 0]]
<1>1. /\ pc' = pc /\ pc[t] = "idle" /\ ret' = [ret EXCEPT ![t] = Failed("None")]
      /\ slots' = [slots EXCEPT ![t] =
                    [s \in DOMAIN slots[t] |-> [slots[t][s] EXCEPT !.recv_len = 0, !.meta = 0]]]
  BY ZenonT(30) DEF Clear
<1> QED BY <1>1, CallsTyped, ZenonT(30)

(* The kernel, the driver, an option call and stuttering leave every call  *)
(* and every batch alone.                                                  *)
LEMMA NoTask ==
  ASSUME (\E n \in 1 .. MaxGro : Arrive(n)) \/ DriverPolls \/ SetMeta \/ UNCHANGED vars
  PROVE  UNCHANGED <<build, pc, op, slots, len, msgs, i, out_idx, ret, taken, clean>>
BY ZenonT(30) DEF Arrive, DriverPolls, SetMeta, vars, batch

(* Every step is the step of a task, or one of those. *)
LEMMA StepCases ==
  ASSUME [Next]_vars
  PROVE  \/ \E t \in Tasks : TaskStep(t)
         \/ (\E n \in 1 .. MaxGro : Arrive(n)) \/ DriverPolls \/ SetMeta \/ UNCHANGED vars
BY ZenonT(30) DEF Next, TaskStep

RecvInv == Types /\ \A t \in Tasks : TaskInv(t)

LEMMA ReturnsTyped ==
  /\ \A k \in Nat : Ok(k) \in Returns /\ Ok(k).kind = "Ok" /\ Ok(k).n = k
  /\ \A k \in Kinds : Failed(k) \in Returns /\ Failed(k).kind = k
BY ZenonT(30) DEF Ok, Failed, Kinds, Returns

LEMMA EmptySlots ==
  ASSUME NEW c \in Nat
  PROVE  with_capacity(c) \in Seq(Slots) /\ Len(with_capacity(c)) = c
BY RecvAssumption, FunctionIsSeq DEF EmptySlot, Slots, with_capacity

LEMMA RecvInit == Init => RecvInv
<1> SUFFICES ASSUME Init PROVE RecvInv BY ZenonT(30)
<1> USE DEF Init
<1>1. \A t \in Tasks : slots[t] \in Seq(Slots) /\ Len(slots[t]) \in Nat
  BY EmptySlots, RecvAssumption
<1>2. slots \in [Tasks -> Seq(Slots)]
  BY <1>1, ZenonT(30)
<1>3. /\ << >> \in Seq(Messages) /\ << >> \in Seq(Received) /\ Len(<< >>) = 0
      /\ Failed("None") \in Returns
  BY ReturnsTyped DEF Kinds
<1>4. /\ msgs \in [Tasks -> Seq(Received)] /\ taken \in [Tasks -> Seq(Messages)]
      /\ ret \in [Tasks -> Returns]
  BY <1>3, ZenonT(30)
<1>5. \A t \in Tasks : len[t] <= capacity(t) /\ Len(msgs[t]) <= capacity(t)
  BY <1>1, <1>3 DEF capacity
<1>6. Types
  <2>1. /\ pc \in [Tasks -> Places] /\ op \in [Tasks -> Ops \cup {"none"}] /\ len \in [Tasks -> Nat]
        /\ i \in [Tasks -> Nat \ {0}] /\ out_idx \in [Tasks -> Nat \ {0}]
        /\ clean \in [Tasks -> BOOLEAN]
    BY DEF Places
  <2> QED BY <2>1, <1>2, <1>3, <1>4, <1>5, ZenonT(30) DEF Types
<1>7. ASSUME NEW t \in Tasks PROVE TaskInv(t)
  BY <1>3, ReturnsTyped, ZenonT(30) DEF TaskInv, AsyncOps, Kinds
<1> QED BY <1>6, <1>7, ZenonT(30) DEF RecvInv

-----------------------------------------------------------------------------
LEMMA ReturnStep ==
  ASSUME RecvInv, NEW t \in Tasks, NEW r \in Returns, PlatformReturns(t, r),
         r.kind \in {"Ok", "WouldBlock", "Error"},
         (r.kind = "WouldBlock" \/ r = Ok(0)) => Len(taken[t]) = 0,
         UNCHANGED <<kernel, clean, op, slots, taken>>,
         NEW l \in Nat, l <= capacity(t), len' = [len EXCEPT ![t] = l]
  PROVE  RecvInv'
<1> USE DEF PlatformReturns, kernel
<1>1. Messages' = Messages /\ Received' = Received /\ BatchSyscall' = BatchSyscall
  BY ZenonT(30) DEF Messages, Received, MaxGro, BatchSyscall
<1>2. Len(<< >>) = 0 /\ << >> \in Seq(Received)
  OBVIOUS
<1>3. \A u \in Tasks : slots[u] \in Seq(Slots) /\ Len(slots[u]) \in Nat
  BY DEF RecvInv, Types
<1>4. Types'
  BY <1>1, <1>2, <1>3, SMTT(30) DEF RecvInv, Types, Places, capacity
<1>5. ASSUME NEW u \in Tasks PROVE TaskInv(u)'
  BY <1>1, ZenonT(30) DEF RecvInv, Types, TaskInv, capacity
<1> QED BY <1>4, <1>5, ZenonT(30) DEF RecvInv

(* The ways a platform call ends without, or after, a loop. *)
LEMMA EndSteps ==
  ASSUME RecvInv, NEW t \in Tasks,
         \/ NoSlots(t) \/ SyscallBlocks(t) \/ SyscallFails(t) \/ ProcessEnds(t)
         \/ LoopEnds(t) \/ LoopFails(t)
  PROVE  RecvInv'
<1>0. /\ TaskInv(t) /\ len[t] \in Nat /\ len[t] <= capacity(t) /\ len = [len EXCEPT ![t] = len[t]]
      /\ Len(msgs[t]) <= capacity(t) /\ Len(msgs[t]) \in Nat /\ capacity(t) \in Nat
      /\ Len(taken[t]) \in Nat /\ i[t] \in Nat \ {0} /\ out_idx[t] \in Nat \ {0}
  BY CallTyped, ZenonT(30) DEF RecvInv, Types
<1>1. CASE NoSlots(t)
  BY <1>0, <1>1, ReturnsTyped, ReturnStep DEF NoSlots, TaskInv, batch
<1>2. CASE SyscallBlocks(t)
  BY <1>0, <1>2, ReturnsTyped, ReturnStep, ZenonT(30) DEF SyscallBlocks, InSyscall, TaskInv, batch,
     Kinds
<1>3. CASE SyscallFails(t) \/ LoopFails(t)
  BY <1>0, <1>3, ReturnsTyped, ReturnStep, ZenonT(30) DEF Kinds, SyscallFails, LoopFails, batch
<1>4. CASE LoopEnds(t)
  BY <1>0, <1>4, ReturnsTyped, ReturnStep, SMTT(30) DEF LoopEnds, InLoop, TaskInv, batch
<1>5. CASE ProcessEnds(t)
  <2>1. out_idx[t] - 1 \in Nat \ {0} /\ out_idx[t] - 1 <= capacity(t)
    <3>1. i[t] > Len(msgs[t]) /\ Len(msgs[t]) > 0 /\ i[t] <= out_idx[t] /\ out_idx[t] <= capacity(t) + 1
      BY <1>0, <1>5, ZenonT(30) DEF ProcessEnds, TaskInv
    <3> QED BY <1>0, <3>1, SMTT(30)
  <2>2. /\ Ok(out_idx[t] - 1) \in Returns /\ Ok(out_idx[t] - 1).kind = "Ok"
        /\ Ok(out_idx[t] - 1) # Ok(0)
    BY <2>1, ReturnsTyped, ZenonT(30)
  <2> QED BY <1>0, <1>5, <2>1, <2>2, ReturnStep, ZenonT(30) DEF ProcessEnds
<1> QED BY <1>1, <1>2, <1>3, <1>4, <1>5, ZenonT(30)

-----------------------------------------------------------------------------
(* A step of t leaves what the other tasks own alone. *)
LEMMA OneTask ==
  ASSUME RecvInv, NEW t \in Tasks, build' = build, Types', TaskInv(t)',
         \A u \in Tasks \ {t} :
           /\ pc'[u] = pc[u] /\ op'[u] = op[u] /\ slots'[u] = slots[u] /\ msgs'[u] = msgs[u]
           /\ i'[u] = i[u] /\ out_idx'[u] = out_idx[u] /\ ret'[u] = ret[u] /\ taken'[u] = taken[u]
  PROVE  RecvInv'
<1>1. ASSUME NEW u \in Tasks \ {t} PROVE TaskInv(u)'
  <2>1. TaskInv(u) /\ BatchSyscall' = BatchSyscall /\ capacity(u)' = capacity(u)
    BY <1>1, ZenonT(30) DEF RecvInv, BatchSyscall, capacity
  <2> QED BY <1>1, <2>1, ZenonT(30) DEF TaskInv
<1> QED BY <1>1, ZenonT(30) DEF RecvInv

(* Steps that move t from one place to another, and may set its result. *)
LEMMA MoveSteps ==
  ASSUME RecvInv, NEW t \in Tasks,
         \/ SyscallEnds(t) \/ ProcessPanics(t) \/ Finish(t) \/ Block(t) \/ Resume(t)
         \/ \E kind \in {"Error", "Cancelled"} : WaitEnds(t, kind)
  PROVE  RecvInv'
<1> DEFINE Same == UNCHANGED <<build, arrived, queue, metaOn, edge, ready, op, slots, len, msgs,
                               i, out_idx, taken, clean>>
           Moves(q, r) == pc' = [pc EXCEPT ![t] = q] /\ ret' = [ret EXCEPT ![t] = r] /\ Same
<1>0. /\ TaskInv(t) /\ Types /\ ret = [ret EXCEPT ![t] = ret[t]] /\ ret[t] \in Returns
      /\ Len(msgs[t]) \in Nat /\ Len(taken[t]) \in Nat /\ capacity(t) \in Nat
      /\ i[t] \in Nat \ {0} /\ out_idx[t] \in Nat \ {0} /\ Len(msgs[t]) <= capacity(t)
  BY CallTyped, ZenonT(30) DEF RecvInv, Types
<1>1. ASSUME NEW q \in Places, NEW r \in Returns, Moves(q, r), TaskInv(t)'
      PROVE  RecvInv'
  <2>1. Messages' = Messages /\ Received' = Received
    BY <1>1, ZenonT(30) DEF Messages, Received, MaxGro
  <2>2. pc' \in [Tasks -> Places] /\ ret' \in [Tasks -> Returns]
    BY <1>0, <1>1, ZenonT(30) DEF Types
  <2>3. \A u \in Tasks : capacity(u)' = capacity(u)
    BY <1>1, ZenonT(30) DEF capacity
  <2>4. Types'
    BY <1>0, <1>1, <2>1, <2>2, <2>3, SMTT(30) DEF Types
  <2> QED BY <1>0, <1>1, <2>4, OneTask, ZenonT(30) DEF Types
<1>a. ASSUME NEW q, NEW r, Moves(q, r)
      PROVE  /\ pc'[t] = q /\ ret'[t] = r /\ capacity(t)' = capacity(t)
             /\ BatchSyscall' = BatchSyscall /\ UNCHANGED <<op, msgs, i, out_idx, taken>>
  BY <1>0, <1>a, ZenonT(30) DEF Types, capacity, BatchSyscall
<1>b. ASSUME NEW r, Moves("idle", r), msgs[t] = << >> /\ i[t] = 1 /\ out_idx[t] = 1,
             r.kind \in {"Cancelled", "WouldBlock"} => Len(taken[t]) = 0,
             op[t] \in AsyncOps => r.kind # "WouldBlock" /\ r # Ok(0)
      PROVE  TaskInv(t)'
  <2>1. /\ pc'[t] = "idle" /\ ret'[t] = r /\ msgs'[t] = << >> /\ i'[t] = 1 /\ out_idx'[t] = 1
        /\ taken' = taken /\ op' = op
    BY <1>a, <1>b, ZenonT(30)
  <2> QED BY <1>b, <2>1, ZenonT(30) DEF TaskInv
<1>2. CASE SyscallEnds(t)
  <2>1. Moves("process", ret[t])
    BY <1>0, <1>2, ZenonT(30) DEF SyscallEnds, kernel, batch
  <2>2. Len(msgs[t]) > 0
    <3>1. msgs[t] \in Seq(Received) /\ msgs[t] # << >>
      BY <1>0, <1>2, CallTyped, ZenonT(30) DEF SyscallEnds
    <3> QED BY <3>1, NonEmpty, ZenonT(30)
  <2>3. i[t] = 1 /\ out_idx[t] = 1 /\ Len(taken[t]) = Len(msgs[t])
    BY <1>0, <1>2, ZenonT(30) DEF SyscallEnds, InSyscall, TaskInv
  <2>4. 1 <= Len(msgs[t]) + 1 /\ 1 <= 1 /\ 1 <= capacity(t) + 1
    BY <1>0, AtStart, ZenonT(30)
  <2>5. TaskInv(t)'
    BY <1>a, <2>1, <2>2, <2>3, <2>4, ZenonT(30) DEF TaskInv
  <2> QED BY <1>0, <1>1, <2>1, <2>5, ZenonT(30) DEF Places
<1>3. CASE ProcessPanics(t)
  <2>1. Moves("panicked", ret[t])
    BY <1>0, <1>3, ZenonT(30) DEF ProcessPanics, kernel, batch
  <2>2. TaskInv(t)'
    BY <1>a, <2>1, ZenonT(90) DEF TaskInv
  <2> QED BY <1>0, <1>1, <2>1, <2>2, ZenonT(30) DEF Places
<1>4. CASE Finish(t)
  <2>1. Moves("idle", ret[t])
    BY <1>0, <1>4, ZenonT(30) DEF Finish, kernel, batch
  <2>2. pc[t] = "returned" /\ ~ MustWait(t)
    BY <1>4, ZenonT(30) DEF Finish
  <2>3. /\ msgs[t] = << >> /\ i[t] = 1 /\ out_idx[t] = 1
        /\ ret[t].kind \in {"Cancelled", "WouldBlock"} => Len(taken[t]) = 0
        /\ op[t] \in AsyncOps => ret[t].kind # "WouldBlock" /\ ret[t] # Ok(0)
    BY <1>0, <2>2, ZenonT(30) DEF TaskInv, MustWait
  <2>4. TaskInv(t)'
    BY <1>b, <2>1, <2>3, ZenonT(30)
  <2> QED BY <1>0, <1>1, <2>1, <2>4, ZenonT(30) DEF Places
<1>5. CASE Block(t)
  <2>1. /\ Failed("Error") \in Returns /\ Failed("Error").kind = "Error"
        /\ Failed("Error") # Ok(0)
    BY ReturnsTyped, ZenonT(30) DEF Kinds, Ok, Failed
  <2>2. Moves("waiting", ret[t]) \/ Moves("idle", Failed("Error"))
    BY <1>0, <1>5, ZenonT(30) DEF Block, kernel, batch
  <2>3. pc[t] = "returned" /\ MustWait(t)
    BY <1>5, ZenonT(30) DEF Block
  <2>4. CASE Moves("waiting", ret[t])
    <3>1. TaskInv(t)'
      BY <1>0, <1>a, <2>3, <2>4, ZenonT(30) DEF TaskInv, MustWait
    <3> QED BY <1>0, <1>1, <2>4, <3>1, ZenonT(30) DEF Places
  <2>5. CASE Moves("idle", Failed("Error"))
    <3>1. TaskInv(t)'
      <4>1. msgs[t] = << >> /\ i[t] = 1 /\ out_idx[t] = 1
        BY <1>0, <2>3, ZenonT(30) DEF TaskInv
      <4> QED BY <1>b, <2>1, <2>5, <4>1, ZenonT(30)
    <3> QED BY <1>0, <1>1, <2>1, <2>5, <3>1, ZenonT(30) DEF Places
  <2> QED BY <2>2, <2>4, <2>5, ZenonT(30)
<1>6. CASE Resume(t)
  <2>1. Moves("attempt", ret[t])
    BY <1>0, <1>6, ZenonT(30) DEF Resume, kernel, batch
  <2>2. Len(<< >>) = 0 /\ 1 <= capacity(t) + 1 /\ 1 - 1 = 0
    BY <1>0, Empty, AtStart, ZenonT(30)
  <2>a. pc[t] = "waiting"
    BY <1>6, ZenonT(30) DEF Resume
  <2>3. TaskInv(t)'
    BY <1>0, <1>a, <2>a, <2>1, <2>2, ZenonT(30) DEF TaskInv
  <2> QED BY <1>0, <1>1, <2>1, <2>3, ZenonT(30) DEF Places
<1>7. ASSUME NEW kind \in {"Error", "Cancelled"}, WaitEnds(t, kind) PROVE RecvInv'
  <2>1. Moves("idle", Failed(kind))
    BY <1>0, <1>7, ZenonT(30) DEF WaitEnds, kernel, batch
  <2>2. Failed(kind) \in Returns /\ Failed(kind).kind = kind /\ Failed(kind) # Ok(0)
    BY ReturnsTyped, ZenonT(30) DEF Kinds, Ok, Failed
  <2>a. pc[t] = "waiting"
    BY <1>7, ZenonT(30) DEF WaitEnds
  <2>b. msgs[t] = << >> /\ i[t] = 1 /\ out_idx[t] = 1 /\ Len(taken[t]) = 0
    BY <1>0, <2>a, ZenonT(30) DEF TaskInv
  <2>c. Failed(kind).kind # "WouldBlock"
    BY <2>2, ZenonT(30)
  <2>3. TaskInv(t)'
    BY <1>b, <2>b, <2>c, <2>1, <2>2, ZenonT(30)
  <2> QED BY <1>0, <1>1, <2>1, <2>2, <2>3, ZenonT(30) DEF Places
<1> QED BY <1>2, <1>3, <1>4, <1>5, <1>6, <1>7, ZenonT(30)

-----------------------------------------------------------------------------
LEMMA SlotsReplaced ==
  ASSUME RecvInv, NEW t \in Tasks, NEW ss \in Seq(Slots), Len(ss) = capacity(t),
         slots' = [slots EXCEPT ![t] = ss]
  PROVE  slots' \in [Tasks -> Seq(Slots)] /\ \A u \in Tasks : capacity(u)' = capacity(u)
BY ZenonT(30) DEF RecvInv, Types, capacity

LEMMA SlotReplaced ==
  ASSUME RecvInv, NEW t \in Tasks, NEW s \in 1 .. capacity(t), NEW x \in Slots
  PROVE  /\ [slots[t] EXCEPT ![s] = x] \in Seq(Slots)
         /\ Len([slots[t] EXCEPT ![s] = x]) = capacity(t)
BY DEF RecvInv, Types, capacity

LEMMA SlotFilled ==
  ASSUME RecvInv, NEW t \in Tasks, NEW s \in 1 .. capacity(t), NEW m \in Messages
  PROVE  /\ slots[t][s] \in Slots
         /\ [slots[t][s] EXCEPT !.buf = Write(@, Segments(m))] \in Slots
         /\ Recvfrom(slots[t][s], m) \in Slots
<1>1. slots[t][s] \in Slots
  BY SMTT(30) DEF RecvInv, Types, capacity
<1>2. TypeOK
  BY TypesOK, ZenonT(30) DEF RecvInv
<1>3. /\ Write(slots[t][s].buf, Segments(m)) \in Bufs
      /\ Len(Segments(m)) \in 0 .. BufSize /\ m.first \in Nat
  <2>1. slots[t][s].buf \in Bufs
    BY <1>1, ZenonT(30) DEF Slots, Bufs
  <2>2. Segments(m) \in Seq(Nat) /\ Len(Segments(m)) \in 1 .. BufSize
    BY <1>2, SegmentsTyped, ZenonT(30)
  <2>3. Write(slots[t][s].buf, Segments(m)) \in Bufs
    BY <2>1, <2>2, WriteTyped, ZenonT(30)
  <2>4. m.first \in Nat
    BY <1>2, MessagesTyped, ZenonT(30)
  <2> QED BY <2>2, <2>3, <2>4, RecvAssumption
<1> QED BY <1>1, <1>3, ZenonT(30) DEF Slots, Bufs, Recvfrom

LEMMA MessageTaken ==
  ASSUME RecvInv, NEW t \in Tasks, queue # << >>
  PROVE  /\ Head(queue) \in Messages /\ Tail(queue) \in Seq(Messages)
         /\ Append(taken[t], Head(queue)) \in Seq(Messages)
         /\ Len(Append(taken[t], Head(queue))) = Len(taken[t]) + 1
BY DEF RecvInv, Types

LEMMA SyscallTakesStep ==
  ASSUME RecvInv, NEW t \in Tasks, SyscallTakes(t)
  PROVE  RecvInv'
<1> DEFINE m  == Head(queue)
           s  == Len(msgs[t]) + 1
           x  == [slots[t][s] EXCEPT !.buf = Write(@, Segments(m))]
           ss == [slots[t] EXCEPT ![s] = x]
           r  == [msg |-> m, meta |-> Cmsgs /\ metaOn]
           ms == Append(msgs[t], r)
           tk == Append(taken[t], m)
<1>0. /\ TaskInv(t) /\ Types /\ queue # << >> /\ s <= capacity(t) /\ pc[t] = "attempt"
      /\ BatchSyscall /\ msgs[t] \in Seq(Received) /\ Len(msgs[t]) \in Nat
      /\ Len(taken[t]) \in Nat /\ capacity(t) \in Nat
  <2>1. TaskInv(t) /\ Types
    BY ZenonT(30) DEF RecvInv
  <2>2. queue # << >> /\ s <= capacity(t) /\ pc[t] = "attempt" /\ BatchSyscall
    BY ZenonT(30) DEF SyscallTakes, InSyscall
  <2> QED BY <2>1, <2>2, CallTyped, ZenonT(30)
<1>1. m \in Messages /\ Tail(queue) \in Seq(Messages) /\ tk \in Seq(Messages)
      /\ Len(tk) = Len(taken[t]) + 1
  BY <1>0, MessageTaken, ZenonT(30)
<1>2. ss \in Seq(Slots) /\ Len(ss) = capacity(t)
  <2>1. s \in 1 .. capacity(t)
    BY <1>0
  <2>2. x \in Slots
    BY <1>1, <2>1, SlotFilled, ZenonT(30)
  <2> HIDE DEF x, s
  <2> QED BY <2>1, <2>2, SlotReplaced, ZenonT(30)
<1>3. ms \in Seq(Received) /\ Len(ms) = Len(msgs[t]) + 1
  BY <1>0, <1>1 DEF Received
<1>4. slots' = [slots EXCEPT ![t] = ss]
  BY ZenonT(30) DEF SyscallTakes
<1>5. /\ msgs' = [msgs EXCEPT ![t] = ms] /\ taken' = [taken EXCEPT ![t] = tk] /\ queue' = Tail(queue)
      /\ UNCHANGED <<build, clean, arrived, metaOn, edge, ready, pc, op, len, i, out_idx, ret>>
  BY ZenonT(30) DEF SyscallTakes
<1> HIDE DEF ss, ms, tk, m
<1>6. Messages' = Messages /\ Received' = Received
  BY <1>5, ZenonT(30) DEF Messages, Received, MaxGro
<1>7. slots' \in [Tasks -> Seq(Slots)] /\ \A u \in Tasks : capacity(u)' = capacity(u)
  BY <1>2, <1>4, SlotsReplaced, ZenonT(30)
<1>8. msgs' \in [Tasks -> Seq(Received)] /\ taken' \in [Tasks -> Seq(Messages)]
  BY <1>0, <1>1, <1>3, <1>5, ZenonT(30) DEF Types
<1>9. \A u \in Tasks : Len(msgs'[u]) <= capacity(u)
  BY <1>0, <1>3, <1>5, ZenonT(30) DEF Types
<1>10. Types'
  BY SMTT(90), <1>0, <1>1, <1>5, <1>6, <1>7, <1>8, <1>9 DEF Types
<1>11. msgs'[t] = ms /\ taken'[t] = tk
  BY <1>0, <1>5, ZenonT(30) DEF Types
<1>12. TaskInv(t)'
  BY <1>0, <1>1, <1>3, <1>5, <1>7, <1>11, ZenonT(30) DEF TaskInv, BatchSyscall
<1> QED BY <1>0, <1>4, <1>5, <1>10, <1>12, OneTask, ZenonT(30) DEF Types

LEMMA LoopTakesStep ==
  ASSUME RecvInv, NEW t \in Tasks, LoopTakes(t)
  PROVE  RecvInv'
<1> DEFINE m  == Head(queue)
           x  == Recvfrom(slots[t][i[t]], m)
           ss == [slots[t] EXCEPT ![i[t]] = x]
           tk == Append(taken[t], m)
<1>0. /\ TaskInv(t) /\ Types /\ queue # << >> /\ i[t] <= capacity(t) /\ pc[t] = "attempt"
      /\ ~ BatchSyscall /\ i[t] \in Nat \ {0}
      /\ Len(taken[t]) \in Nat /\ capacity(t) \in Nat
  BY CallTyped, ZenonT(30) DEF RecvInv, LoopTakes, InLoop
<1>1. m \in Messages /\ Tail(queue) \in Seq(Messages) /\ tk \in Seq(Messages)
      /\ Len(tk) = Len(taken[t]) + 1
  BY <1>0, MessageTaken, ZenonT(30)
<1>2. ss \in Seq(Slots) /\ Len(ss) = capacity(t)
  <2>1. i[t] \in 1 .. capacity(t)
    BY <1>0
  <2>2. x \in Slots
    BY <1>1, <2>1, SlotFilled, ZenonT(30)
  <2> HIDE DEF x
  <2> QED BY <2>1, <2>2, SlotReplaced, ZenonT(30)
<1>4. slots' = [slots EXCEPT ![t] = ss]
  BY ZenonT(30) DEF LoopTakes
<1>5. /\ len' = [len EXCEPT ![t] = i[t]] /\ i' = [i EXCEPT ![t] = i[t] + 1]
      /\ taken' = [taken EXCEPT ![t] = tk] /\ queue' = Tail(queue)
      /\ UNCHANGED <<build, clean, arrived, metaOn, edge, ready, pc, op, msgs, out_idx, ret>>
  BY <1>0, ZenonT(30) DEF LoopTakes, Types
<1> HIDE DEF ss, tk, m
<1>6. Messages' = Messages /\ Received' = Received
  BY <1>5, ZenonT(30) DEF Messages, Received, MaxGro
<1>7. slots' \in [Tasks -> Seq(Slots)] /\ \A u \in Tasks : capacity(u)' = capacity(u)
  BY <1>2, <1>4, SlotsReplaced, ZenonT(30)
<1>8. /\ len' \in [Tasks -> Nat] /\ i' \in [Tasks -> Nat \ {0}]
      /\ taken' \in [Tasks -> Seq(Messages)]
  BY SMTT(90), <1>0, <1>1, <1>5 DEF Types
<1>9. \A u \in Tasks : len'[u] <= capacity(u)
  BY <1>0, <1>5, ZenonT(30) DEF Types
<1>10. Types'
  BY SMTT(90), <1>0, <1>1, <1>5, <1>6, <1>7, <1>8, <1>9 DEF Types
<1>11. /\ i'[t] = i[t] + 1 /\ taken'[t] = tk /\ pc'[t] = "attempt" /\ ~ BatchSyscall'
       /\ UNCHANGED <<msgs, out_idx>> /\ capacity(t)' = capacity(t)
  BY <1>0, <1>5, <1>7, ZenonT(30) DEF Types, BatchSyscall
<1>12. out_idx[t] = 1 /\ msgs[t] = << >> /\ Len(taken[t]) = i[t] - 1
  BY <1>0, ZenonT(30) DEF TaskInv
<1>13. i[t] + 1 <= capacity(t) + 1 /\ Len(tk) = (i[t] + 1) - 1
  BY <1>0, <1>1, <1>12, IndexUp, ZenonT(30)
<1>14. TaskInv(t)'
  BY <1>11, <1>12, <1>13, ZenonT(30) DEF TaskInv
<1> QED BY <1>0, <1>4, <1>5, <1>10, <1>14, OneTask, ZenonT(30) DEF Types
=============================================================================
