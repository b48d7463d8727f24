-------------------------- MODULE UsbInput_proofs --------------------------
(***************************************************************************)
(* Proofs about UsbInput. Its drain, for any limits, any sizes of packets  *)
(* and reads of any length: what it answers is right and comes in time.    *)
(* Its records, for any mixture of them and any size of packets: each is   *)
(* cut out of the packets where it was put in.                             *)
(***************************************************************************)
EXTENDS UsbInput, WellFoundedInduction, SequenceTheorems, TLAPS

\* The clock of silence runs from the last thing that came, until the drain has
\* its answer.
QuietClock == status = "running" => quietSince = lastData

DrainInv == TypeOK /\ QuietClock /\ DrainIsSound

LEMMA LimitsArePositive ==
    /\ MaxReads \in Nat \ {0} /\ MaxBytes \in Nat \ {0} /\ Deadline \in Nat \ {0}
    /\ QuietTime \in Nat \ {0} /\ ReadTime \in Nat \ {0}
    /\ \A n \in PacketSizes : n \in Nat
  BY DrainAssumption

\* The counter of bytes stops at its limit.
LEMMA SumIsBounded ==
    ASSUME bytes \in 0 .. MaxBytes, NEW n \in Nat
    PROVE  Sum(n) \in 0 .. MaxBytes
  BY LimitsArePositive DEF Sum

LEMMA DrainInit == Init => DrainInv
  BY LimitsArePositive
  DEF Init, DrainInv, TypeOK, Statuses, QuietClock, DrainIsSound, QuietIsProved, WorkIsBounded

LEMMA DrainInvStep == DrainInv /\ [Next]_vars => DrainInv'
<1> SUFFICES ASSUME DrainInv, [Next]_vars PROVE DrainInv'
  OBVIOUS
<1> USE LimitsArePositive DEF DrainInv
<1>1. CASE UNCHANGED vars
  BY <1>1 DEF vars, TypeOK, QuietClock, DrainIsSound, QuietIsProved, WorkIsBounded
<1>2. CASE Stop
  BY <1>2 DEF Stop, TypeOK, Statuses, QuietClock, DrainIsSound, QuietIsProved, WorkIsBounded
<1>3. CASE Read
  <2> PICK time \in now .. now + ReadTime :
            \/ \E n \in PacketSizes : ReadData(n, time)
            \/ ReadTimesOut(time)
            \/ ReadFails(time)
    BY <1>3 DEF Read
  <2>1. /\ time \in Nat
        /\ GoesOn => time < Deadline + ReadTime
    BY DEF TypeOK, GoesOn
  <2>2. ASSUME NEW n \in PacketSizes, ReadData(n, time) PROVE DrainInv'
    <3>1. bytes' \in 0 .. MaxBytes
      BY <2>2, SumIsBounded DEF ReadData, TypeOK
    <3>2. TypeOK'
      BY <2>1, <2>2, <3>1 DEF ReadData, TypeOK, Statuses, QuietSince
    <3>3. QuietClock'
      BY <2>2 DEF ReadData, QuietClock, QuietSince
    <3>4. DrainIsSound'
      BY <2>1, <2>2 DEF ReadData, TypeOK, GoesOn, DrainIsSound, QuietIsProved, WorkIsBounded
    <3> QED
      BY <3>2, <3>3, <3>4
  <2>3. CASE ReadTimesOut(time)
    <3>1. TypeOK'
      BY <2>1, <2>3 DEF ReadTimesOut, TypeOK, Statuses
    <3>2. QuietClock'
      BY <2>3 DEF ReadTimesOut, QuietClock
    <3>3. QuietIsProved'
      BY <2>1, <2>3 DEF ReadTimesOut, TypeOK, QuietClock, QuietIsProved
    <3>4. WorkIsBounded'
      BY <2>1, <2>3 DEF ReadTimesOut, TypeOK, GoesOn, WorkIsBounded, DrainIsSound
    <3> QED
      BY <3>1, <3>2, <3>3, <3>4 DEF DrainIsSound
  <2>4. CASE ReadFails(time)
    BY <2>1, <2>4
    DEF ReadFails, TypeOK, Statuses, QuietClock, GoesOn, DrainIsSound, QuietIsProved,
        WorkIsBounded
  <2> QED
    BY <2>2, <2>3, <2>4
<1> QED
  BY <1>1, <1>2, <1>3 DEF Next

\* Type correctness of the drain.
THEOREM DrainTypeCorrect == Spec => []TypeOK
<1>1. DrainInv => TypeOK
  BY DEF DrainInv
<1> QED
  BY DrainInit, DrainInvStep, <1>1, PTL DEF Spec

\* The drain says "Quiet" only after QuietTime of silence, ends within its limits
\* of reads and passes its deadline by one read at most, however the adapter and
\* the scheduler behave (drain_stopped_rx).
THEOREM DrainIsSoundCorrect == Spec => []DrainIsSound
<1>1. DrainInv => DrainIsSound
  BY DEF DrainInv
<1> QED
  BY DrainInit, DrainInvStep, <1>1, PTL DEF Spec

-----------------------------------------------------------------------------
(* Arithmetic the provers need help with.                                   *)

\* Every set of natural numbers has a least one.
LEMMA LeastExists ==
    ASSUME NEW T \in SUBSET Nat, T # {}
    PROVE  \E x \in T : \A y \in T : x <= y
<1> DEFINE R == OpToRel(<, Nat)
<1>1. IsWellFoundedOn(R, Nat)
  BY NatLessThanWellFounded, Zenon
<1>2. PICK x \in T : \A y \in T : <<y, x>> \notin R
  BY <1>1, WFMin, Zenon
<1>3. \A y \in T : ~(y < x)
  BY <1>2, Zenon DEF OpToRel
<1> QED
  BY <1>3

LEMMA Division ==
    ASSUME NEW a \in Nat, NEW b \in Nat \ {0}
    PROVE  a \div b \in Nat /\ a % b \in 0 .. b - 1 /\ a = b * (a \div b) + (a % b)
OBVIOUS

LEMMA NextMultiple ==
    ASSUME NEW b \in Nat \ {0}, NEW q \in Int, NEW p \in Int, q < p
    PROVE  b * p >= b * q + b
<1>1. p - q - 1 \in Nat
  OBVIOUS
<1>2. b * (p - q - 1) >= 0
  BY <1>1
<1>3. b * (p - q - 1) = b * p - b * q - b
  OBVIOUS
<1> QED
  BY <1>2, <1>3

\* Taking off one packet does not change what is left over of whole packets.
LEMMA RemainderStays ==
    ASSUME NEW a \in Nat, NEW b \in Nat \ {0}, a >= b
    PROVE  (a - b) % b = a % b
<1> DEFINE q == a \div b
           p == (a - b) \div b
           r == a % b
           s == (a - b) % b
<1>1. /\ q \in Int /\ p \in Int /\ r \in 0 .. b - 1 /\ s \in 0 .. b - 1
      /\ a = b * q + r /\ a - b = b * p + s
  <2>1. a - b \in Nat
    OBVIOUS
  <2> QED
    BY <2>1, Division
<1> HIDE DEF q, p, r, s
<1>2. b * (p + 1) = b * p + b
  BY <1>1
<1>3. b * q + r = b * (p + 1) + s
  BY <1>1, <1>2
<1>4. ~(q < p + 1) /\ ~(p + 1 < q)
  BY <1>1, <1>3, NextMultiple
<1>5. q = p + 1
  BY <1>1, <1>4
<1>6. r = s
  BY <1>1, <1>3, <1>5
<1> QED
  BY <1>6 DEF r, s

LEMMA SmallRemainder ==
    ASSUME NEW a \in Nat, NEW b \in Nat \ {0}, a < b
    PROVE  a % b = a
OBVIOUS

-----------------------------------------------------------------------------
(* Bytes of a sequence of records: that the recursive function exists, and  *)
(* what it adds up to.                                                      *)

LEMMA RecordSizes ==
    \A r \in Records : /\ r.full \in 13 .. 76 /\ r.used \in 12 .. r.full
                       /\ r.size \in 1 .. r.full
BY RecordsAssumption DEF Input!Header, Input!LongestRecord

\* The sizes of a record, compared.
LEMMA RecordOrder ==
    ASSUME NEW r \in Records
    PROVE  /\ r.full \in Nat /\ r.used \in Nat /\ r.size \in Nat
           /\ 12 < r.full /\ r.full <= 76 /\ 12 <= r.used /\ r.used <= r.full
           /\ 0 < r.size /\ r.size <= r.full
BY RecordSizes

\* f adds up the first k records of s.
IsSum(f, s, k) ==
    /\ f \in [0 .. k -> Nat]
    /\ f[0] = 0
    /\ \A n \in 1 .. k : f[n] = f[n - 1] + s[n].size

LEMMA SumExists ==
    ASSUME NEW s \in Seq(Records)
    PROVE  \E f : IsSum(f, s, Len(s))
<1> DEFINE T == {k \in 0 .. Len(s) : ~\E f : IsSum(f, s, k)}
<1>1. SUFFICES ASSUME T # {} PROVE FALSE
  BY Len(s) \in Nat
<1>2. T \in SUBSET Nat
  OBVIOUS
<1>3. PICK k \in T : \A j \in T : k <= j
  BY <1>1, <1>2, LeastExists
<1>4. k # 0
  <2>1. IsSum([n \in 0 .. 0 |-> 0], s, 0)
    BY DEF IsSum
  <2> QED
    BY <2>1
<1>5. PICK f : IsSum(f, s, k - 1)
  <2>1. k - 1 \in 0 .. Len(s)
    BY <1>4
  <2> QED
    BY <1>3, <2>1
<1> DEFINE g == [n \in 0 .. k |-> IF n = k THEN f[k - 1] + s[k].size ELSE f[n]]
<1>6. IsSum(g, s, k)
  <2>1. k \in 1 .. Len(s) /\ s[k] \in Records
    BY <1>4
  <2>2. s[k].size \in Nat
    BY <2>1, RecordSizes
  <2>3. f \in [0 .. k - 1 -> Nat] /\ f[0] = 0
    BY <1>5 DEF IsSum
  <2>4. g \in [0 .. k -> Nat] /\ g[0] = 0
    BY <2>1, <2>2, <2>3
  <2>5. \A n \in 1 .. k : g[n] = g[n - 1] + s[n].size
    BY <1>5, <2>1 DEF IsSum
  <2> QED
    BY <2>4, <2>5 DEF IsSum
<1> QED
  BY <1>6

\* Whatever adds up the records gives their bytes.
LEMMA BytesIsSum ==
    ASSUME NEW s \in Seq(Records), NEW f, IsSum(f, s, Len(s))
    PROVE  Input!Bytes(s) = f[Len(s)]
<1> DEFINE Def(h) == h = [n \in 0 .. Len(s) |-> IF n = 0 THEN 0 ELSE h[n - 1] + s[n].size]
<1>1. Def(f)
  <2>1. f = [n \in 0 .. Len(s) |-> f[n]]
    BY DEF IsSum
  <2>2. \A n \in 0 .. Len(s) : f[n] = IF n = 0 THEN 0 ELSE f[n - 1] + s[n].size
    BY DEF IsSum
  <2> QED
    BY <2>1, <2>2
<1>2. ASSUME NEW h, Def(h) PROVE h = f
  <2> DEFINE T == {n \in 0 .. Len(s) : h[n] # f[n]}
  <2>1. T = {}
    <3>1. SUFFICES ASSUME T # {} PROVE FALSE
      OBVIOUS
    <3>2. PICK k \in T : \A j \in T : k <= j
      <4>1. T \in SUBSET Nat
        OBVIOUS
      <4> QED
        BY <3>1, <4>1, LeastExists
    <3>3. k \in 0 .. Len(s) /\ h[k] # f[k]
      OBVIOUS
    <3>4. h[k] = IF k = 0 THEN 0 ELSE h[k - 1] + s[k].size
      BY <1>2, <3>3
    <3>5. f[k] = IF k = 0 THEN 0 ELSE f[k - 1] + s[k].size
      BY <1>1, <3>3
    <3>6. k # 0 => h[k - 1] = f[k - 1]
      BY <3>2, <3>3
    <3> QED
      BY <3>3, <3>4, <3>5, <3>6
  <2>2. \A n \in 0 .. Len(s) : h[n] = f[n]
    BY <2>1
  <2>3. h = [n \in 0 .. Len(s) |-> h[n]]
    BY <1>2
  <2>4. f = [n \in 0 .. Len(s) |-> f[n]]
    BY <1>1
  <2> QED
    BY <2>2, <2>3, <2>4
<1>3. (CHOOSE h : Def(h)) = f
  BY <1>1, <1>2
<1> QED
  BY <1>3 DEF Input!Bytes

LEMMA BytesOfNone == Input!Bytes(<<>>) = 0
<1>1. <<>> \in Seq(Records) /\ Len(<<>>) = 0
  BY EmptySeq
<1>2. IsSum([n \in 0 .. 0 |-> 0], <<>>, 0)
  BY DEF IsSum
<1> QED
  BY <1>1, <1>2, BytesIsSum

LEMMA BytesOfOne ==
    ASSUME NEW r \in Records
    PROVE  Input!Bytes(<<r>>) = r.size
<1>1. <<r>> \in Seq(Records) /\ Len(<<r>>) = 1 /\ <<r>>[1] = r
  OBVIOUS
<1> DEFINE f == [n \in 0 .. 1 |-> IF n = 0 THEN 0 ELSE r.size]
<1>2. f[0] = 0 /\ f[1] = r.size /\ f \in [0 .. 1 -> Nat]
  BY RecordSizes
<1>3. IsSum(f, <<r>>, 1)
  <2>1. \A n \in 1 .. 1 : n = 1
    OBVIOUS
  <2>2. f[1] = f[1 - 1] + <<r>>[1].size
    BY <1>1, <1>2, RecordSizes
  <2> QED
    BY <1>2, <2>1, <2>2 DEF IsSum
<1> QED
  BY <1>1, <1>2, <1>3, BytesIsSum

LEMMA BytesNatural ==
    ASSUME NEW s \in Seq(Records)
    PROVE  Input!Bytes(s) \in Nat
<1>1. PICK f : IsSum(f, s, Len(s))
  BY SumExists
<1> QED
  BY <1>1, BytesIsSum DEF IsSum

\* The bytes of two sequences, one after the other.
LEMMA BytesAdd ==
    ASSUME NEW s \in Seq(Records), NEW t \in Seq(Records)
    PROVE  Input!Bytes(s \o t) = Input!Bytes(s) + Input!Bytes(t)
<1>1. PICK f : IsSum(f, s, Len(s))
  BY SumExists
<1>2. PICK g : IsSum(g, t, Len(t))
  BY SumExists
<1> DEFINE m == Len(s)
           k == Len(t)
           h == [n \in 0 .. m + k |-> IF n <= m THEN f[n] ELSE f[m] + g[n - m]]
<1>3. /\ m \in Nat /\ k \in Nat
      /\ s \o t \in Seq(Records) /\ Len(s \o t) = m + k
      /\ \A i \in 1 .. m + k : (s \o t)[i] = IF i <= m THEN s[i] ELSE t[i - m]
  BY ConcatProperties
<1>4. /\ f \in [0 .. m -> Nat] /\ f[0] = 0 /\ \A n \in 1 .. m : f[n] = f[n - 1] + s[n].size
      /\ g \in [0 .. k -> Nat] /\ g[0] = 0 /\ \A n \in 1 .. k : g[n] = g[n - 1] + t[n].size
  BY <1>1, <1>2 DEF IsSum
<1>5. f[m] \in Nat /\ \A n \in 1 .. k : t[n].size \in Nat
  BY <1>3, <1>4, RecordSizes
<1> HIDE DEF m, k
<1>6. h \in [0 .. m + k -> Nat] /\ h[0] = 0
  <2>1. ASSUME NEW n \in 0 .. m + k PROVE h[n] \in Nat
    <3>1. CASE n <= m
      <4>1. n \in 0 .. m
        BY <1>3, <3>1, SMT
      <4>2. f[n] \in Nat
        BY <1>4, <4>1, Zenon
      <4> QED
        BY <3>1, <4>2, SMT
    <3>2. CASE ~(n <= m)
      <4>1. n - m \in 0 .. k
        BY <1>3, <3>2, SMT
      <4>2. g[n - m] \in Nat
        BY <1>4, <4>1, Zenon
      <4>3. f[m] + g[n - m] \in Nat
        BY <1>5, <4>2, SMT
      <4> QED
        BY <3>2, <4>3, SMT
    <3> QED
      BY <3>1, <3>2
  <2>2. h[0] = 0
    BY <1>3, <1>4, SMT
  <2> QED
    BY <2>1, <2>2, Zenon DEF h
<1>7. ASSUME NEW n \in 1 .. m + k
      PROVE  h[n] = h[n - 1] + (s \o t)[n].size
  <2>1. CASE n <= m
    BY <1>3, <1>4, <2>1
  <2>2. CASE n > m
    <3>1. PICK j \in 1 .. k : n = m + j
      <4>1. n - m \in 1 .. k /\ n = m + (n - m)
        BY <1>3, <2>2
      <4> QED
        BY <4>1
    <3>2. (s \o t)[n] = t[j]
      <4>1. n - m = j
        BY <1>3, <3>1
      <4> QED
        BY <1>3, <2>2, <4>1
    <3>3. h[n] = f[m] + g[j]
      <4>1. n - m = j
        BY <1>3, <3>1
      <4> QED
        BY <1>3, <2>2, <4>1
    <3>4. h[n - 1] = f[m] + g[j - 1]
      <4>1. n - 1 \in 0 .. m + k /\ (n - 1) - m = j - 1
        BY <1>3, <3>1
      <4>2. CASE j = 1
        BY <1>3, <1>4, <1>5, <3>1, <4>1, <4>2
      <4>3. CASE j # 1
        <5>1. ~(n - 1 <= m)
          BY <1>3, <3>1, <4>3
        <5> QED
          BY <4>1, <5>1
      <4> QED
        BY <4>2, <4>3
    <3>5. g[j] = g[j - 1] + t[j].size /\ g[j - 1] \in Nat /\ t[j].size \in Nat
      <4>1. j - 1 \in 0 .. k
        BY <1>3
      <4> QED
        BY <1>4, <1>5, <4>1
    <3> QED
      BY <1>5, <3>2, <3>3, <3>4, <3>5
  <2> QED
    BY <1>3, <2>1, <2>2
<1>8. IsSum(h, s \o t, m + k)
  BY <1>6, <1>7 DEF IsSum
<1>9. Input!Bytes(s \o t) = h[m + k]
  BY <1>3, <1>8, BytesIsSum
<1>10. Input!Bytes(s) = f[m] /\ Input!Bytes(t) = g[k]
  BY <1>1, <1>2, BytesIsSum DEF m, k
<1>11. h[m + k] = f[m] + g[k]
  <2>1. m + k \in 0 .. m + k /\ (m + k) - m = k
    BY <1>3
  <2>2. CASE k = 0
    BY <1>3, <1>4, <1>5, <2>1, <2>2
  <2>3. CASE k # 0
    <3>1. ~(m + k <= m)
      BY <1>3, <2>3
    <3> QED
      BY <2>1, <3>1
  <2> QED
    BY <2>2, <2>3
<1> QED
  BY <1>9, <1>10, <1>11

\* The bytes of the first record and of the others.
LEMMA BytesFirst ==
    ASSUME NEW s \in Seq(Records), s # <<>>
    PROVE  /\ s[1] \in Records /\ Tail(s) \in Seq(Records)
           /\ Input!Bytes(Tail(s)) \in Nat
           /\ Input!Bytes(s) = s[1].size + Input!Bytes(Tail(s))
           /\ Len(s) < 2 <=> Tail(s) = <<>>
           /\ Tail(s) # <<>> => Len(Tail(s)) = Len(s) - 1 /\ Len(s) > 1
           /\ \A i \in 1 .. Len(s) - 1 : Tail(s)[i] = s[i + 1]
<1>1. /\ s[1] \in Records /\ Tail(s) \in Seq(Records) /\ Len(Tail(s)) = Len(s) - 1
      /\ Len(s) \in Nat \ {0}
      /\ \A i \in 1 .. Len(s) - 1 : Tail(s)[i] = s[i + 1]
  BY HeadTailProperties, EmptySeq
<1>2. <<s[1]>> \in Seq(Records) /\ s = <<s[1]>> \o Tail(s)
  <2>1. <<s[1]>> \in Seq(Records) /\ Len(<<s[1]>>) = 1 /\ <<s[1]>>[1] = s[1]
    BY <1>1
  <2>2. /\ <<s[1]>> \o Tail(s) \in Seq(Records)
        /\ Len(<<s[1]>> \o Tail(s)) = 1 + Len(Tail(s))
        /\ \A i \in 1 .. 1 + Len(Tail(s)) :
             (<<s[1]>> \o Tail(s))[i] = IF i <= 1 THEN <<s[1]>>[i] ELSE Tail(s)[i - 1]
    BY <1>1, <2>1, ConcatProperties
  <2>3. \A i \in 1 .. Len(s) : s[i] = (<<s[1]>> \o Tail(s))[i]
    BY <1>1, <2>1, <2>2
  <2>4. Len(s) = Len(<<s[1]>> \o Tail(s))
    BY <1>1, <2>2
  <2> QED
    BY <2>1, <2>2, <2>3, <2>4, SeqEqual
<1>3. Input!Bytes(s) = s[1].size + Input!Bytes(Tail(s))
  BY <1>1, <1>2, BytesAdd, BytesOfOne
<1>4. Tail(s) = <<>> <=> Len(Tail(s)) = 0
  BY <1>1, EmptySeq
<1>5. /\ Len(s) < 2 <=> Tail(s) = <<>>
      /\ Tail(s) # <<>> => Len(Tail(s)) = Len(s) - 1 /\ Len(s) > 1
  BY <1>1, <1>4
<1>6. Input!Bytes(Tail(s)) \in Nat
  BY <1>1, BytesNatural
<1> QED
  BY <1>1, <1>3, <1>5, <1>6

-----------------------------------------------------------------------------
(* The records on their way.                                                *)

FullButLast(s) == \A i \in 1 .. Len(s) - 1 : s[i].size = s[i].full

LastIsCut(s) == s # <<>> /\ s[Len(s)].size < s[Len(s)].full

\* So many bytes fill their packets.
FillsPackets(n) == n % PacketSize = 0

\* The records sent are what is left of a transfer that was read to its end, and
\* those of one that was not. While there are some of an ended one the buffer
\* holds them and nothing else; only the last record of a transfer is cut, and
\* then the code is told where it ends.
Split(ended, current) ==
    /\ ended \in Seq(Records) /\ current \in Seq(Records)
    /\ sent = ended \o current
    /\ FullButLast(ended) /\ FullButLast(current)
    /\ held + unread = Input!Bytes(ended) + Input!Bytes(current)
    /\ ended # <<>> => held = Input!Bytes(ended) /\ (LastIsCut(ended) => transferEnd)
    /\ ended = <<>> /\ held > 0 => ~transferEnd
    /\ unread = 0 /\ ~endsEmpty => current = <<>>
    /\ endsEmpty => FillsPackets(unread)
    /\ LastIsCut(current) /\ FillsPackets(unread) => endsEmpty

Cut == \E ended, current : Split(ended, current)

\* A failure is about the oldest record.
FailureInv ==
    /\ outcome \notin {"Misplaced", "Overflow"}
    /\ outcome = "Failure" => sent # <<>> /\ ~Input!Whole(sent[1])

ReceiveTypes ==
    /\ sent \in Seq(Records)
    /\ unread \in Nat
    /\ held \in 0 .. MaxPacket + 76

InputInv == ReceiveTypes /\ FailureInv /\ Cut

LEMMA PacketSizeNatural == PacketSize \in Nat \ {0} /\ MaxPacket \in Nat /\ PacketSize <= MaxPacket
BY PacketAssumption

LEMMA FillingPackets ==
    /\ FillsPackets(0)
    /\ FillsPackets(PacketSize)
    /\ \A n \in Nat : n >= PacketSize => (FillsPackets(n - PacketSize) <=> FillsPackets(n))
    /\ \A n \in Nat : 0 < n /\ n < PacketSize => ~FillsPackets(n)
<1>1. FillsPackets(0)
  BY PacketSizeNatural, SmallRemainder DEF FillsPackets
<1>2. ASSUME NEW n \in Nat, n >= PacketSize
      PROVE  FillsPackets(n - PacketSize) <=> FillsPackets(n)
  <2>1. (n - PacketSize) % PacketSize = n % PacketSize
    BY <1>2, PacketSizeNatural, RemainderStays
  <2> QED
    BY <2>1, Zenon DEF FillsPackets
<1>3. FillsPackets(PacketSize)
  <2>1. PacketSize - PacketSize = 0 /\ PacketSize >= PacketSize /\ PacketSize \in Nat
    BY PacketSizeNatural
  <2> QED
    BY <1>1, <1>2, <2>1, Zenon
<1>4. ASSUME NEW n \in Nat, 0 < n, n < PacketSize PROVE ~FillsPackets(n)
  <2>1. n % PacketSize = n
    BY <1>4, PacketSizeNatural, SmallRemainder
  <2>2. n # 0
    BY <1>4
  <2> QED
    BY <2>1, <2>2, Zenon DEF FillsPackets
<1> QED
  BY <1>1, <1>2, <1>3, <1>4

\* Facts about the sequences a transfer goes through.
LEMMA OfNone == FullButLast(<<>>) /\ ~LastIsCut(<<>>)
BY DEF FullButLast, LastIsCut

LEMMA OfTail ==
    ASSUME NEW s \in Seq(Records), s # <<>>
    PROVE  /\ FullButLast(s) => FullButLast(Tail(s))
           /\ LastIsCut(Tail(s)) => LastIsCut(s)
<1> DEFINE n == Len(s)
<1>1. /\ n \in Nat /\ n >= 1
      /\ Tail(s) \in Seq(Records) /\ Len(Tail(s)) = n - 1
      /\ \A i \in 1 .. n - 1 : Tail(s)[i] = s[i + 1]
      /\ Tail(s) # <<>> => n - 1 # 0
  <2>1. /\ n \in Nat /\ n >= 1
        /\ Tail(s) \in Seq(Records) /\ Len(Tail(s)) = n - 1
        /\ \A i \in 1 .. n - 1 : Tail(s)[i] = s[i + 1]
    BY HeadTailProperties, EmptySeq
  <2>2. Tail(s) # <<>> => Len(Tail(s)) # 0
    BY <2>1, EmptySeq
  <2> QED
    BY <2>1, <2>2, Zenon
<1> HIDE DEF n
<1>2. ASSUME FullButLast(s) PROVE FullButLast(Tail(s))
  <2>1. \A i \in 1 .. n - 1 : s[i].size = s[i].full
    BY <1>2 DEF FullButLast, n
  <2>2. ASSUME NEW i \in 1 .. (n - 1) - 1 PROVE Tail(s)[i].size = Tail(s)[i].full
    <3>1. i \in 1 .. n - 1 /\ i + 1 \in 1 .. n - 1
      BY <1>1
    <3> QED
      BY <1>1, <2>1, <3>1
  <2> QED
    BY <1>1, <2>2 DEF FullButLast
<1>3. ASSUME LastIsCut(Tail(s)) PROVE LastIsCut(s)
  <2>1. n - 1 # 0 /\ Tail(s)[n - 1].size < Tail(s)[n - 1].full
    BY <1>1, <1>3 DEF LastIsCut
  <2>2. n - 1 \in 1 .. n - 1 /\ (n - 1) + 1 = n
    BY <1>1, <2>1
  <2>3. Tail(s)[n - 1] = s[n]
    BY <1>1, <2>2
  <2> QED
    BY <2>1, <2>3 DEF LastIsCut, n
<1> QED
  BY <1>2, <1>3

LEMMA OfTransfer ==
    ASSUME NEW t \in Input!Transfers
    PROVE  t \in Seq(Records) /\ t # <<>> /\ FullButLast(t) /\ Input!Bytes(t) > 0
<1>1. PICK n \in 1 .. MaxRecords : t \in [1 .. n -> Records]
  BY DEF Input!Transfers
<1>2. n \in Nat /\ n >= 1
  BY <1>1, PacketAssumption
<1>3. t \in Seq(Records)
  BY <1>1, <1>2, SeqDef
<1>4. t # <<>>
  <2>1. 1 \in DOMAIN t
    BY <1>1, <1>2
  <2> QED
    BY <2>1
<1>5. FullButLast(t)
  BY DEF Input!Transfers, FullButLast
<1>6. Input!Bytes(t) > 0
  <2>1. /\ t[1].size \in Nat /\ 0 < t[1].size /\ Input!Bytes(Tail(t)) \in Nat
        /\ Input!Bytes(t) = t[1].size + Input!Bytes(Tail(t))
    BY <1>3, <1>4, BytesFirst, RecordOrder
  <2> QED
    BY <2>1
<1> QED
  BY <1>3, <1>4, <1>5, <1>6

\* One sequence behind another: the first element, and all but the first.
LEMMA FirstOfTwo ==
    ASSUME NEW s \in Seq(Records), NEW t \in Seq(Records), s # <<>>
    PROVE  /\ s \o t # <<>> /\ (s \o t)[1] = s[1]
           /\ Tail(s \o t) = Tail(s) \o t
<1> DEFINE m == Len(s)
           k == Len(t)
<1>1. /\ m \in Nat /\ m >= 1 /\ k \in Nat
      /\ s \o t \in Seq(Records) /\ Len(s \o t) = m + k
      /\ \A i \in 1 .. m + k : (s \o t)[i] = IF i <= m THEN s[i] ELSE t[i - m]
  BY ConcatProperties, EmptySeq
<1>2. /\ Tail(s) \in Seq(Records) /\ Len(Tail(s)) = m - 1
      /\ \A i \in 1 .. m - 1 : Tail(s)[i] = s[i + 1]
  BY HeadTailProperties
<1> HIDE DEF m, k
<1>3. s \o t # <<>>
  BY <1>1, EmptySeq
<1>4. (s \o t)[1] = s[1]
  BY <1>1
<1>5. /\ Tail(s \o t) \in Seq(Records) /\ Len(Tail(s \o t)) = (m + k) - 1
      /\ \A i \in 1 .. (m + k) - 1 : Tail(s \o t)[i] = (s \o t)[i + 1]
  BY <1>1, <1>3, HeadTailProperties
<1>6. /\ Tail(s) \o t \in Seq(Records) /\ Len(Tail(s) \o t) = (m - 1) + k
      /\ \A i \in 1 .. (m - 1) + k :
            (Tail(s) \o t)[i] = IF i <= m - 1 THEN Tail(s)[i] ELSE t[i - (m - 1)]
  BY <1>2, ConcatProperties DEF k
<1>7. ASSUME NEW i \in 1 .. (m + k) - 1 PROVE Tail(s \o t)[i] = (Tail(s) \o t)[i]
  <2>1. i \in 1 .. (m - 1) + k /\ i + 1 \in 1 .. m + k /\ i \in Nat
    BY <1>1
  <2>2. Tail(s \o t)[i] = IF i + 1 <= m THEN s[i + 1] ELSE t[(i + 1) - m]
    BY <1>1, <1>5, <2>1
  <2>3. CASE i <= m - 1
    <3>1. i \in 1 .. m - 1 /\ i + 1 <= m
      BY <1>1, <2>3
    <3> QED
      BY <1>2, <1>6, <2>1, <2>2, <2>3, <3>1
  <2>4. CASE ~(i <= m - 1)
    <3>1. ~(i + 1 <= m) /\ (i + 1) - m = i - (m - 1)
      BY <1>1, <2>1, <2>4
    <3> QED
      BY <1>6, <2>1, <2>2, <2>4, <3>1
  <2> QED
    BY <2>3, <2>4
<1>8. Tail(s \o t) = Tail(s) \o t
  <2>1. Len(Tail(s \o t)) = Len(Tail(s) \o t)
    BY <1>1, <1>5, <1>6
  <2> QED
    BY <1>5, <1>6, <1>7, <2>1, SeqEqual
<1> QED
  BY <1>3, <1>4, <1>8

\* What next() says of the oldest record is right, and it asks for a packet only
\* when nothing of an earlier transfer is left and less than a record is held.
LEMMA VerdictIsRight ==
    ASSUME ReceiveTypes, NEW ended, NEW current, Split(ended, current)
    PROVE  /\ Input!Verdict = "Incomplete" => ended = <<>> /\ held < 76
           /\ Input!Verdict = "Record" =>
                 /\ sent # <<>>
                 /\ Input!Whole(sent[1])
                 /\ Input!RecordSize(sent[1]) = sent[1].size
                 /\ sent[1].size <= held
           /\ Input!Verdict = "Failure" => sent # <<>> /\ ~Input!Whole(sent[1])
<1> DEFINE r == sent[1]
<1>seq. ended \in Seq(Records) /\ current \in Seq(Records)
  BY Zenon DEF Split
<1>0. /\ sent = ended \o current
      /\ FullButLast(ended) /\ FullButLast(current)
      /\ held + unread = Input!Bytes(ended) + Input!Bytes(current)
      /\ ended # <<>> => held = Input!Bytes(ended) /\ (LastIsCut(ended) => transferEnd)
      /\ ended = <<>> /\ held > 0 => ~transferEnd
  BY Zenon DEF Split
<1>nat. held \in Nat /\ unread \in Nat
  BY PacketSizeNatural DEF ReceiveTypes
<1>header. Input!Header = 12
  BY DEF Input!Header
<1>verdict. Input!Verdict =
         IF held = 0 THEN "Incomplete"
         ELSE IF held >= r.full \/ (transferEnd /\ held >= 12 /\ Input!CompleteRest(r)) THEN "Record"
         ELSE IF transferEnd THEN "Failure" ELSE "Incomplete"
  BY <1>header DEF Input!Verdict
<1> HIDE DEF r
<1>1. CASE held = 0
  <2>1. Input!Verdict = "Incomplete"
    BY <1>1, <1>verdict
  <2>2. ended = <<>>
    <3>1. SUFFICES ASSUME ended # <<>> PROVE FALSE
      OBVIOUS
    <3>2. Input!Bytes(ended) = 0
      BY <1>0, <1>1, <3>1
    <3>3. /\ ended[1].size \in Nat /\ 0 < ended[1].size
          /\ Input!Bytes(Tail(ended)) \in Nat
          /\ Input!Bytes(ended) = ended[1].size + Input!Bytes(Tail(ended))
      BY <3>1, <1>seq, BytesFirst, RecordOrder
    <3> QED
      BY <3>2, <3>3
  <2> QED
    BY <1>1, <2>1, <2>2
<1>2. CASE held # 0 /\ ended = <<>>
  <2>1. sent = current /\ ~transferEnd
    BY <1>2, <1>seq, ConcatEmptySeq, <1>0, <1>nat
  <2>2. held + unread = Input!Bytes(current)
    BY <1>2, BytesOfNone, <1>seq, BytesNatural, <1>0, <1>nat
  <2>3. current # <<>>
    BY <1>2, <2>2, BytesOfNone, <1>nat
  <2>4. /\ r \in Records /\ Input!Bytes(Tail(current)) \in Nat
        /\ Input!Bytes(current) = r.size + Input!Bytes(Tail(current))
        /\ Len(current) < 2 => Tail(current) = <<>>
    BY <2>1, <2>3, <1>seq, BytesFirst DEF r
  <2>5. /\ r.full \in Nat /\ r.used \in Nat /\ r.size \in Nat
        /\ 12 < r.full /\ r.full <= 76 /\ 12 <= r.used /\ r.used <= r.full
        /\ 0 < r.size /\ r.size <= r.full
    BY <2>4, RecordOrder
  <2>6. held >= r.full => r.size = r.full
    <3>1. CASE Len(current) < 2
      <4>1. Input!Bytes(Tail(current)) = 0
        BY <2>4, <3>1, BytesOfNone
      <4> QED
        BY <2>2, <2>4, <2>5, <4>1, <1>nat
    <3>2. CASE ~(Len(current) < 2)
      <4>1. 1 \in 1 .. Len(current) - 1
        <5>1. Len(current) \in Nat
          BY <2>3, <1>seq, EmptySeq
        <5> QED
          BY <3>2, <5>1
      <4> QED
        BY <2>1, <2>4, <4>1, <1>0 DEF FullButLast, r
    <3> QED
      BY <3>1, <3>2
  <2>7. Input!Verdict = IF held >= r.full THEN "Record" ELSE "Incomplete"
    BY <1>2, <2>1, <2>5, <1>nat, <1>verdict
  <2>8. held >= r.full => Input!RecordSize(r) = r.size /\ Input!Whole(r)
    BY <2>5, <2>6, <1>nat DEF Input!RecordSize, Input!Whole
  <2> QED
    BY <1>2, <2>1, <2>3, <2>5, <2>6, <2>7, <2>8, <1>seq, ConcatEmptySeq, <1>nat DEF r
<1>3. CASE held # 0 /\ ended # <<>>
  <2>1. held = Input!Bytes(ended) /\ (LastIsCut(ended) => transferEnd)
    BY <1>0, <1>3
  <2>2. sent # <<>> /\ r = ended[1]
    <3>1. /\ Len(sent) = Len(ended) + Len(current) /\ Len(ended) \in Nat \ {0} /\ Len(current) \in Nat
          /\ \A i \in 1 .. Len(ended) + Len(current) :
                sent[i] = IF i <= Len(ended) THEN ended[i] ELSE current[i - Len(ended)]
      BY <1>3, <1>seq, ConcatProperties, <1>seq, EmptySeq, <1>0
    <3> QED
      BY <3>1, <1>seq, EmptySeq DEF r
  <2>3. /\ r \in Records /\ Input!Bytes(Tail(ended)) \in Nat
        /\ held = r.size + Input!Bytes(Tail(ended))
        /\ Len(ended) < 2 => Tail(ended) = <<>>
    BY <1>3, <2>1, <2>2, <1>seq, BytesFirst
  <2>4. /\ r.full \in Nat /\ r.used \in Nat /\ r.size \in Nat
        /\ 12 < r.full /\ r.full <= 76 /\ 12 <= r.used /\ r.used <= r.full
        /\ 0 < r.size /\ r.size <= r.full
    BY <2>3, RecordOrder
  <2>5. CASE r.size = r.full
    <3>1. held >= r.full
      BY <2>3, <2>4, <2>5
    <3>2. Input!Verdict = "Record" /\ Input!RecordSize(r) = r.size /\ Input!Whole(r)
      BY <1>3, <2>4, <2>5, <3>1, <1>nat, <1>verdict DEF Input!RecordSize, Input!Whole
    <3> QED
      BY <1>3, <2>2, <2>4, <2>5, <3>1, <3>2 DEF r
  <2>6. CASE r.size # r.full
    <3>1. Len(ended) < 2
      <4>1. SUFFICES ASSUME ~(Len(ended) < 2) PROVE FALSE
        OBVIOUS
      <4>2. 1 \in 1 .. Len(ended) - 1
        <5>1. Len(ended) \in Nat
          BY <1>3, <1>seq, EmptySeq
        <5> QED
          BY <4>1, <5>1
      <4> QED
        BY <2>2, <2>6, <4>2, <1>0 DEF FullButLast
    <3>2. held = r.size /\ held < r.full
      <4>1. Input!Bytes(Tail(ended)) = 0
        BY <2>3, <3>1, BytesOfNone
      <4> QED
        BY <2>3, <2>4, <2>6, <4>1
    <3>3. transferEnd
      <4>1. LastIsCut(ended)
        <5>1. ended[Len(ended)] = r
          <6>1. Len(ended) \in Nat /\ Len(ended) # 0
            BY <1>3, <1>seq, EmptySeq
          <6>2. \A n \in Nat : n # 0 /\ n < 2 => n = 1
            OBVIOUS
          <6> QED
            BY <2>2, <3>1, <6>1, <6>2, Zenon
        <5>2. r.size < r.full
          BY <2>4, <2>6
        <5> QED
          BY <1>3, <5>1, <5>2 DEF LastIsCut
      <4> QED
        BY <2>1, <4>1
    <3>4. Input!Verdict = IF held >= 12 /\ Input!CompleteRest(r) THEN "Record" ELSE "Failure"
      BY <1>3, <2>4, <3>2, <3>3, <1>nat, <1>verdict
    <3>5. Input!RecordSize(r) = r.size
      BY <3>2 DEF Input!RecordSize
    <3>6. held >= 12 /\ Input!CompleteRest(r) <=> Input!Whole(r)
      BY <2>4, <3>2 DEF Input!CompleteRest, Input!Whole, Input!Header
    <3> QED
      BY <1>3, <2>2, <2>4, <3>2, <3>4, <3>5, <3>6 DEF r
  <2> QED
    BY <2>5, <2>6
<1> QED
  BY <1>1, <1>2, <1>3

-----------------------------------------------------------------------------
(* The receive buffer, one step at a time.                                  *)

LEMMA SplitParts ==
    ASSUME NEW ended, NEW current, Split(ended, current)
    PROVE  /\ ended \in Seq(Records) /\ current \in Seq(Records)
           /\ Input!Bytes(ended) \in Nat /\ Input!Bytes(current) \in Nat
           /\ ended = <<>> => sent = current /\ held + unread = Input!Bytes(current)
           /\ current = <<>> => sent = ended /\ held + unread = Input!Bytes(ended)
<1>1. /\ ended \in Seq(Records) /\ current \in Seq(Records)
      /\ sent = ended \o current
      /\ held + unread = Input!Bytes(ended) + Input!Bytes(current)
  BY Zenon DEF Split
<1>2. Input!Bytes(ended) \in Nat /\ Input!Bytes(current) \in Nat
  BY <1>1, BytesNatural
<1>3. ended = <<>> => sent = current /\ Input!Bytes(ended) = 0
  BY <1>1, ConcatEmptySeq, BytesOfNone
<1>4. current = <<>> => sent = ended /\ Input!Bytes(current) = 0
  BY <1>1, ConcatEmptySeq, BytesOfNone
<1> QED
  BY <1>1, <1>2, <1>3, <1>4

LEMMA TransferStep ==
    ASSUME InputInv, NEW t \in Input!Transfers, Input!Transfer(t)
    PROVE  InputInv'
<1>1. PICK ended, current : Split(ended, current)
  BY DEF InputInv, Cut
<1>2. ReceiveTypes /\ FailureInv
  BY DEF InputInv
<1>3. /\ t \in Seq(Records) /\ t # <<>> /\ FullButLast(t)
      /\ Input!Bytes(t) \in Nat /\ Input!Bytes(t) > 0
  BY OfTransfer, BytesNatural
<1>4. /\ unread = 0 /\ endsEmpty = FALSE /\ sent' = sent \o t /\ unread' = Input!Bytes(t)
      /\ held' = held /\ transferEnd' = transferEnd /\ outcome' = outcome
  <2>1. unread = 0 /\ sent' = sent \o t /\ unread' = Input!Bytes(t)
        /\ UNCHANGED <<held, transferEnd, outcome>>
    BY Zenon DEF Input!Transfer
  <2>2. ~endsEmpty
    BY Zenon DEF Input!Transfer
  <2> QED
    BY <2>1, <2>2
<1>5. /\ endsEmpty' => FillsPackets(Input!Bytes(t))
      /\ LastIsCut(t) /\ FillsPackets(Input!Bytes(t)) => endsEmpty'
  <2>1. PICK empty \in BOOLEAN :
           /\ empty => Input!Bytes(t) % PacketSize = 0
           /\ Input!Bytes(t) % PacketSize = 0 /\ t[Len(t)].size < t[Len(t)].full => empty
           /\ endsEmpty' = empty
    BY Zenon DEF Input!Transfer
  <2> QED
    BY <2>1, Zenon DEF FillsPackets, LastIsCut
<1>6. /\ FullButLast(ended)
      /\ ended # <<>> => held = Input!Bytes(ended) /\ (LastIsCut(ended) => transferEnd)
      /\ ended = <<>> /\ held > 0 => ~transferEnd
      /\ current = <<>>
  BY <1>1, <1>4, Zenon DEF Split
<1>7. /\ ended = sent /\ sent \in Seq(Records) /\ held = Input!Bytes(sent) /\ held \in Nat
  <2>1. ended = sent /\ ended \in Seq(Records) /\ held + 0 = Input!Bytes(ended)
    BY <1>1, <1>4, <1>6, SplitParts
  <2>2. held \in Nat
    BY <1>2, PacketSizeNatural DEF ReceiveTypes
  <2> QED
    BY <2>1, <2>2
<1>8. Split(ended, t)'
  <2>1. held' + unread' = Input!Bytes(ended) + Input!Bytes(t)
    BY <1>3, <1>4, <1>7
  <2>2. unread' # 0
    BY <1>3, <1>4
  <2>3. unread' = Input!Bytes(t) /\ sent' = ended \o t /\ held' = held /\ transferEnd' = transferEnd
    BY <1>4, <1>7
  <2>4. (endsEmpty' => FillsPackets(unread')) /\ (LastIsCut(t) /\ FillsPackets(unread') => endsEmpty')
    BY <1>5, <2>3, Zenon
  <2> QED
    BY <1>3, <1>6, <1>7, <2>1, <2>2, <2>3, <2>4, Zenon DEF Split
<1>9. Cut'
  BY <1>8, Zenon DEF Cut
<1>10. ReceiveTypes'
  <2>1. sent' \in Seq(Records)
    BY <1>3, <1>4, <1>7, ConcatProperties
  <2> QED
    BY <1>2, <1>3, <1>4, <2>1 DEF ReceiveTypes
<1>11. FailureInv'
  <2>1. sent # <<>> => sent' # <<>> /\ sent'[1] = sent[1]
    BY <1>3, <1>4, <1>7, FirstOfTwo
  <2>2. outcome' \notin {"Misplaced", "Overflow"}
    BY <1>2, <1>4 DEF FailureInv
  <2>3. outcome' = "Failure" => sent' # <<>> /\ ~Input!Whole(sent'[1])
    BY <1>2, <1>4, <2>1, Zenon DEF FailureInv
  <2> QED
    BY <2>2, <2>3, Zenon DEF FailureInv, Input!Whole
<1> QED
  BY <1>9, <1>10, <1>11 DEF InputInv

LEMMA ReturnStep ==
    ASSUME InputInv, Input!Return
    PROVE  InputInv'
<1>1. PICK ended, current : Split(ended, current)
  BY DEF InputInv, Cut
<1>2. ReceiveTypes /\ FailureInv
  BY DEF InputInv
<1>3. Input!Verdict = "Record"
  BY DEF Input!Return
<1>4. /\ sent # <<>> /\ Input!RecordSize(sent[1]) = sent[1].size /\ sent[1].size <= held
  BY <1>1, <1>2, <1>3, VerdictIsRight
<1>5. /\ held' = held - sent[1].size /\ outcome' = "Record" /\ sent' = Tail(sent)
      /\ unread' = unread /\ endsEmpty' = endsEmpty /\ transferEnd' = transferEnd
  BY <1>4 DEF Input!Return
<1>6. held \in Nat /\ unread \in Nat /\ sent \in Seq(Records)
  BY <1>2, PacketSizeNatural DEF ReceiveTypes
<1>7. /\ sent[1] \in Records /\ sent' \in Seq(Records)
      /\ sent[1].size \in Nat /\ 0 < sent[1].size
  BY <1>4, <1>5, <1>6, BytesFirst, RecordOrder
<1>8. held' \in Nat /\ held' <= held
  BY <1>4, <1>5, <1>6, <1>7
<1>split. /\ sent = ended \o current
          /\ FullButLast(ended) /\ FullButLast(current)
          /\ held + unread = Input!Bytes(ended) + Input!Bytes(current)
          /\ ended # <<>> => held = Input!Bytes(ended) /\ (LastIsCut(ended) => transferEnd)
          /\ ended = <<>> /\ held > 0 => ~transferEnd
          /\ unread = 0 /\ ~endsEmpty => current = <<>>
          /\ endsEmpty => FillsPackets(unread)
          /\ LastIsCut(current) /\ FillsPackets(unread) => endsEmpty
  BY <1>1, Zenon DEF Split
<1>parts. /\ ended \in Seq(Records) /\ current \in Seq(Records)
          /\ Input!Bytes(ended) \in Nat /\ Input!Bytes(current) \in Nat
          /\ ended = <<>> => sent = current /\ held + unread = Input!Bytes(current)
  BY <1>1, SplitParts
<1>9. ReceiveTypes'
  BY <1>2, <1>5, <1>6, <1>7, <1>8, PacketSizeNatural DEF ReceiveTypes
<1>10. FailureInv'
  BY <1>5 DEF FailureInv
<1>11. CASE ended # <<>>
  <2>1. sent[1] = ended[1] /\ sent' = Tail(ended) \o current
    BY <1>5, <1>11, <1>parts, <1>split, FirstOfTwo
  <2>2. /\ Tail(ended) \in Seq(Records) /\ Input!Bytes(Tail(ended)) \in Nat
        /\ Input!Bytes(ended) = sent[1].size + Input!Bytes(Tail(ended))
    BY <1>11, <1>parts, <2>1, BytesFirst
  <2>3. held = Input!Bytes(ended)
    BY <1>11, <1>split
  <2>4. held' = Input!Bytes(Tail(ended))
    BY <1>5, <1>7, <2>2, <2>3
  <2>5. held' + unread' = Input!Bytes(Tail(ended)) + Input!Bytes(current)
    BY <1>5, <1>6, <1>parts, <1>split, <2>2, <2>3, <2>4
  <2>6. Tail(ended) = <<>> => ~(held' > 0)
    <3>1. Tail(ended) = <<>> => held' = 0
      BY <2>4, BytesOfNone
    <3> QED
      BY <3>1
  <2>7. FullButLast(Tail(ended)) /\ (LastIsCut(Tail(ended)) => transferEnd)
    BY <1>11, <1>parts, <1>split, OfTail
  <2>8. Split(Tail(ended), current)'
    <3>1. /\ FullButLast(current)
          /\ unread' = 0 /\ ~endsEmpty' => current = <<>>
          /\ endsEmpty' => FillsPackets(unread')
          /\ LastIsCut(current) /\ FillsPackets(unread') => endsEmpty'
          /\ LastIsCut(Tail(ended)) => transferEnd'
      BY <1>5, <1>split, <2>7, Zenon
    <3> QED
      BY <1>parts, <2>1, <2>2, <2>4, <2>5, <2>6, <2>7, <3>1, Zenon DEF Split
  <2> QED
    BY <1>9, <1>10, <2>8, Zenon DEF InputInv, Cut
<1>12. CASE ended = <<>>
  <2>1. sent = current /\ held + unread = Input!Bytes(current)
    BY <1>12, <1>parts
  <2>2. /\ Input!Bytes(Tail(current)) \in Nat /\ Tail(current) \in Seq(Records)
        /\ Input!Bytes(current) = sent[1].size + Input!Bytes(Tail(current))
    BY <1>4, <1>parts, <2>1, BytesFirst
  <2>3. held' + unread' = Input!Bytes(<<>>) + Input!Bytes(Tail(current))
    BY <1>5, <1>6, <1>7, <2>1, <2>2, BytesOfNone
  <2>4. ~transferEnd
    BY <1>4, <1>6, <1>7, <1>12, <1>split
  <2>5. ~(unread = 0 /\ ~endsEmpty)
    BY <1>4, <1>split, <2>1, Zenon
  <2>6. FullButLast(Tail(current)) /\ (LastIsCut(Tail(current)) => LastIsCut(current))
    BY <1>4, <1>parts, <1>split, <2>1, OfTail
  <2>7. sent' = <<>> \o Tail(current) /\ <<>> \in Seq(Records)
    BY <1>5, <2>1, <2>2, ConcatEmptySeq
  <2>8. Split(<<>>, Tail(current))'
    <3>1. /\ ~transferEnd'
          /\ ~(unread' = 0 /\ ~endsEmpty')
          /\ endsEmpty' => FillsPackets(unread')
          /\ LastIsCut(Tail(current)) /\ FillsPackets(unread') => endsEmpty'
      BY <1>5, <1>split, <2>4, <2>5, <2>6, Zenon
    <3> QED
      BY <2>2, <2>3, <2>6, <2>7, <3>1, OfNone, Zenon DEF Split
  <2> QED
    BY <1>9, <1>10, <2>8, Zenon DEF InputInv, Cut
<1> QED
  BY <1>11, <1>12

LEMMA RejectStep ==
    ASSUME InputInv, Input!Reject
    PROVE  InputInv'
<1>1. PICK ended, current : Split(ended, current)
  BY DEF InputInv, Cut
<1>2. ReceiveTypes
  BY DEF InputInv
<1>3. Input!Verdict = "Failure" /\ outcome' = "Failure"
      /\ UNCHANGED <<sent, unread, endsEmpty, held, transferEnd>>
  BY DEF Input!Reject
<1>4. sent # <<>> /\ ~Input!Whole(sent[1])
  BY <1>1, <1>2, <1>3, VerdictIsRight
<1>5. Split(ended, current)'
  BY <1>1, <1>3, Zenon DEF Split
<1>6. FailureInv'
  <2>1. sent' # <<>> /\ ~Input!Whole(sent'[1])
    BY <1>3, <1>4, Zenon
  <2> QED
    BY <1>3, <2>1 DEF FailureInv, Input!Whole
<1>7. ReceiveTypes'
  BY <1>2, <1>3 DEF ReceiveTypes
<1> QED
  BY <1>5, <1>6, <1>7, Zenon DEF InputInv, Cut

\* A packet read: the transfer goes on.
LEMMA ReadFullPacket ==
    ASSUME NEW current, Split(<<>>, current), ReceiveTypes, unread >= PacketSize,
           sent' = sent, held' = held + PacketSize, unread' = unread - PacketSize,
           endsEmpty' <=> endsEmpty, ~transferEnd'
    PROVE  Cut'
<1>1. /\ FullButLast(current)
      /\ LastIsCut(current) /\ FillsPackets(unread) => endsEmpty
      /\ endsEmpty => FillsPackets(unread)
  BY Zenon DEF Split
<1>2. /\ current \in Seq(Records) /\ <<>> \in Seq(Records) /\ Input!Bytes(current) \in Nat
      /\ sent = current /\ held + unread = Input!Bytes(current)
      /\ current = <<>> \o current /\ current = current \o <<>>
  BY SplitParts, ConcatEmptySeq
<1>3. held \in Nat /\ unread \in Nat /\ PacketSize \in Nat \ {0}
  BY PacketSizeNatural DEF ReceiveTypes
<1>4. held' + unread' = Input!Bytes(current)
  BY <1>2, <1>3
<1>5. FillsPackets(unread') <=> FillsPackets(unread)
  <2>1. FillsPackets(unread - PacketSize) <=> FillsPackets(unread)
    BY <1>3, FillingPackets
  <2> QED
    BY <2>1, Zenon
<1>6. unread' = 0 => FillsPackets(unread)
  <2>1. unread' = 0 => unread = PacketSize
    BY <1>3
  <2> QED
    BY <2>1, FillingPackets, Zenon
<1>7. Input!Bytes(current) = 0 + Input!Bytes(current) /\ Input!Bytes(current) = Input!Bytes(current) + 0
  BY <1>2
<1>8. CASE unread' = 0 /\ ~endsEmpty'
  <2>1. held' = Input!Bytes(current)
    BY <1>3, <1>4, <1>8
  <2>2. ~LastIsCut(current) /\ ~endsEmpty
    BY <1>1, <1>6, <1>8, Zenon
  <2>3. held' + unread' = Input!Bytes(current) + Input!Bytes(<<>>)
    BY <1>4, <1>7, BytesOfNone
  <2>4. Split(current, <<>>)'
    BY <1>1, <1>2, <1>8, <2>1, <2>2, <2>3, OfNone, Zenon DEF Split
  <2> QED
    BY <2>4, Zenon DEF Cut
<1>9. CASE ~(unread' = 0 /\ ~endsEmpty')
  <2>1. held' + unread' = Input!Bytes(<<>>) + Input!Bytes(current)
    BY <1>4, <1>7, BytesOfNone
  <2>2. /\ endsEmpty' => FillsPackets(unread')
        /\ LastIsCut(current) /\ FillsPackets(unread') => endsEmpty'
    BY <1>1, <1>5, Zenon
  <2>3. Split(<<>>, current)'
    BY <1>1, <1>2, <1>9, <2>1, <2>2, OfNone, Zenon DEF Split
  <2> QED
    BY <2>3, Zenon DEF Cut
<1> QED
  BY <1>8, <1>9

\* A short packet read, an empty one perhaps: the transfer ends.
LEMMA ReadShortPacket ==
    ASSUME NEW current, Split(<<>>, current), ReceiveTypes,
           sent' = sent, held' = held + unread, unread' = 0, ~endsEmpty', transferEnd'
    PROVE  Cut'
<1>2. FullButLast(current)
  BY Zenon DEF Split
<1>3. /\ current \in Seq(Records) /\ <<>> \in Seq(Records) /\ Input!Bytes(current) \in Nat
      /\ sent = current /\ held + unread = Input!Bytes(current)
      /\ current = current \o <<>>
  BY SplitParts, ConcatEmptySeq
<1>4. held' = Input!Bytes(current) /\ held' + unread' = Input!Bytes(current) + Input!Bytes(<<>>)
  <2>1. held' = Input!Bytes(current)
    BY <1>3
  <2>2. Input!Bytes(current) + 0 = Input!Bytes(current) + 0
    OBVIOUS
  <2> QED
    BY <2>1, BytesOfNone
<1>5. current = <<>> => ~(held' > 0)
  <2>1. current = <<>> => held' = 0
    BY <1>4, BytesOfNone
  <2> QED
    BY <2>1
<1>6. Split(current, <<>>)'
  BY <1>2, <1>3, <1>4, <1>5, OfNone, Zenon DEF Split
<1> QED
  BY <1>6, Zenon DEF Cut

LEMMA ReadStep ==
    ASSUME InputInv, Input!Read
    PROVE  InputInv'
<1>1. PICK ended, current : Split(ended, current)
  BY DEF InputInv, Cut
<1>2. ReceiveTypes
  BY DEF InputInv
<1>3. Input!Verdict = "Incomplete" /\ sent' = sent /\ (unread > 0 \/ endsEmpty)
  BY Zenon DEF Input!Read, Input!NeedsPacket
<1>4. ended = <<>> /\ held < 76
  BY <1>1, <1>2, <1>3, VerdictIsRight
<1>5. /\ held \in Nat /\ unread \in Nat /\ sent \in Seq(Records)
      /\ PacketSize \in Nat /\ 0 < PacketSize /\ PacketSize <= MaxPacket /\ MaxPacket \in Nat
  BY <1>2, PacketSizeNatural DEF ReceiveTypes
<1>6. Split(<<>>, current)
  BY <1>1, <1>4, Zenon
<1>7. endsEmpty => FillsPackets(unread)
  BY <1>6, Zenon DEF Split
<1>8. CASE unread < PacketSize
  <2>1. ~(unread > MaxPacket \/ held + unread > MaxPacket + 76)
    BY <1>4, <1>5, <1>8
  <2>2. /\ outcome' = "Incomplete" /\ unread' = unread - unread
        /\ endsEmpty' = (endsEmpty /\ unread > 0) /\ held' = held + unread
        /\ transferEnd' = (unread < PacketSize)
    BY <1>8, <2>1, Zenon DEF Input!Read, Input!EndsTransfer, Input!LongestRecord
  <2>3. unread' = 0 /\ transferEnd'
    <3>1. unread' = 0
      BY <1>5, <2>2
    <3> QED
      BY <1>8, <2>2, <3>1, Zenon
  <2>4. ~endsEmpty'
    <3>1. unread > 0 => ~FillsPackets(unread)
      BY <1>5, <1>8, FillingPackets
    <3>2. ~(endsEmpty /\ unread > 0)
      BY <1>7, <3>1, Zenon
    <3> QED
      BY <2>2, <3>2, Zenon
  <2>5. Cut'
    BY <1>2, <1>3, <1>6, <2>2, <2>3, <2>4, ReadShortPacket
  <2>6. ReceiveTypes'
    BY <1>3, <1>4, <1>5, <1>8, <2>2, <2>3 DEF ReceiveTypes
  <2>7. FailureInv'
    BY <2>2 DEF FailureInv
  <2> QED
    BY <2>5, <2>6, <2>7 DEF InputInv
<1>9. CASE ~(unread < PacketSize)
  <2>1. ~(PacketSize > MaxPacket \/ held + PacketSize > MaxPacket + 76)
    BY <1>4, <1>5, <1>9
  <2>2. /\ outcome' = "Incomplete" /\ unread' = unread - PacketSize
        /\ endsEmpty' = (endsEmpty /\ unread > 0) /\ held' = held + PacketSize
        /\ transferEnd' = (PacketSize < PacketSize)
    BY <1>9, <2>1, Zenon DEF Input!Read, Input!EndsTransfer, Input!LongestRecord
  <2>3. unread >= PacketSize /\ unread > 0 /\ ~(PacketSize < PacketSize)
    BY <1>5, <1>9
  <2>4. ~transferEnd' /\ (endsEmpty' <=> endsEmpty)
    BY <2>2, <2>3, Zenon
  <2>5. Cut'
    BY <1>2, <1>3, <1>6, <2>2, <2>3, <2>4, ReadFullPacket
  <2>6. ReceiveTypes'
    BY <1>3, <1>4, <1>5, <2>2, <2>3 DEF ReceiveTypes
  <2>7. FailureInv'
    BY <2>2 DEF FailureInv
  <2> QED
    BY <2>5, <2>6, <2>7 DEF InputInv
<1> QED
  BY <1>8, <1>9

LEMMA InputInvInit == InputInit => InputInv
<1> SUFFICES ASSUME InputInit PROVE InputInv
  OBVIOUS
<1>1. /\ sent = <<>> /\ unread = 0 /\ held = 0 /\ outcome = "Incomplete"
      /\ endsEmpty = FALSE /\ transferEnd = FALSE
  BY DEF InputInit, Input!Init
<1>2. <<>> \in Seq(Records) /\ sent = <<>> \o <<>>
  BY <1>1, ConcatEmptySeq, EmptySeq
<1>3. Split(<<>>, <<>>)
  <2>1. held + unread = Input!Bytes(<<>>) + Input!Bytes(<<>>)
    BY <1>1, BytesOfNone
  <2> QED
    BY <1>1, <1>2, <2>1, OfNone, Zenon DEF Split
<1>4. ReceiveTypes
  BY <1>1, <1>2, PacketSizeNatural DEF ReceiveTypes
<1>5. FailureInv
  BY <1>1 DEF FailureInv
<1> QED
  BY <1>3, <1>4, <1>5, Zenon DEF InputInv, Cut

LEMMA InputInvStep == InputInv /\ [InputNext]_<<vars, inputVars>> => InputInv'
<1> SUFFICES ASSUME InputInv, [InputNext]_<<vars, inputVars>> PROVE InputInv'
  OBVIOUS
<1>1. CASE UNCHANGED inputVars
  <2>1. UNCHANGED <<sent, unread, endsEmpty, held, transferEnd, outcome>>
    BY <1>1 DEF inputVars
  <2>2. PICK ended, current : Split(ended, current)
    BY DEF InputInv, Cut
  <2>3. Split(ended, current)'
    BY <2>1, <2>2, Zenon DEF Split
  <2>4. ReceiveTypes'
    BY <2>1 DEF InputInv, ReceiveTypes
  <2>5. FailureInv'
    BY <2>1, Zenon DEF InputInv, FailureInv, Input!Whole
  <2> QED
    BY <2>3, <2>4, <2>5, Zenon DEF InputInv, Cut
<1>2. CASE Input!Next
  <2>1. ASSUME NEW t \in Input!Transfers, Input!Transfer(t) PROVE InputInv'
    BY <2>1, TransferStep
  <2> QED
    BY <1>2, <2>1, ReturnStep, RejectStep, ReadStep DEF Input!Next
<1> QED
  BY <1>1, <1>2 DEF InputNext, DrainStep, ReceiveStep

LEMMA InputInvariance == InputSpec => []InputInv
BY InputInvInit, InputInvStep, PTL DEF InputSpec

\* next() finds every record where it begins and returns all of it, and no byte is
\* lost or read twice, for any records, any size of packets and any way the
\* transfers are cut (ReceiveBuffer::append, next).
THEOREM RecordBoundaryCorrect == InputSpec => []RecordBoundary
<1>1. InputInv => RecordBoundary
  <2> SUFFICES ASSUME InputInv PROVE RecordBoundary
    OBVIOUS
  <2>1. PICK ended, current : Split(ended, current)
    BY DEF InputInv, Cut
  <2>2. /\ ended \in Seq(Records) /\ current \in Seq(Records) /\ sent = ended \o current
        /\ held + unread = Input!Bytes(ended) + Input!Bytes(current)
    BY <2>1, Zenon DEF Split
  <2>3. held + unread = Input!Bytes(sent)
    BY <2>2, BytesAdd
  <2>4. outcome # "Misplaced"
    BY DEF InputInv, FailureInv
  <2> QED
    BY <2>3, <2>4 DEF RecordBoundary, Input!RecordBoundary
<1> QED
  BY <1>1, InputInvariance, PTL

\* next() rejects a record only if it was cut off, and returns none that was
\* (ReceiveBuffer::next).
THEOREM OnlyFragmentsRejectedCorrect == InputSpec => []OnlyFragmentsRejected
<1>1. InputInv => OnlyFragmentsRejected
  <2> SUFFICES ASSUME InputInv PROVE OnlyFragmentsRejected
    OBVIOUS
  <2>1. PICK ended, current : Split(ended, current)
    BY DEF InputInv, Cut
  <2>2. Input!Verdict = "Record" => Input!Whole(sent[1])
    BY <2>1, VerdictIsRight DEF InputInv
  <2>3. outcome = "Failure" => ~Input!Whole(sent[1])
    BY DEF InputInv, FailureInv
  <2> QED
    BY <2>2, <2>3 DEF OnlyFragmentsRejected, Input!OnlyFragmentsRejected
<1> QED
  BY <1>1, InputInvariance, PTL

\* The drain of open() is as sound when receiving follows it: receiving begins
\* only after silence and leaves the answer alone (drain_stopped_rx, receive).
THEOREM DrainStaysSound == InputSpec => []DrainIsSound
<1>1. InputInit => DrainInv
  BY DrainInit DEF InputInit
<1>2. DrainInv /\ [InputNext]_<<vars, inputVars>> => DrainInv'
  <2>1. [InputNext]_<<vars, inputVars>> => [Next]_vars
    BY Zenon DEF InputNext, DrainStep, ReceiveStep
  <2> QED
    BY <2>1, DrainInvStep
<1>3. DrainInv => DrainIsSound
  BY DEF DrainInv
<1> QED
  BY <1>1, <1>2, <1>3, PTL DEF InputSpec
=============================================================================
