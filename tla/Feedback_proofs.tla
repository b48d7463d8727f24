--------------------------- MODULE Feedback_proofs ---------------------------
(***************************************************************************)
(* Proofs about what is concluded from frames of the device: the snapshot  *)
(* (Feedback), for every value of a word or byte and every kind of frame,  *)
(* and home(), which decides from status frames (Homing), for any number   *)
(* of axes, attempts and commands.                                         *)
(*                                                                         *)
(* The two parts are independent.                                          *)
(***************************************************************************)
EXTENDS Feedback, Homing, TLAPS

-----------------------------------------------------------------------------
(* Numbers.                                                                 *)

LEMMA WordBounds ==
    ASSUME NEW w \in Words
    PROVE  w \in Int /\ w >= 0 /\ w < 65536
BY SMTT(60) DEF Words

LEMMA ByteBounds ==
    ASSUME NEW b \in Bytes
    PROVE  b \in Int /\ b >= 0 /\ b < 256
BY SMTT(60) DEF Bytes

LEMMA WordBytes ==
    ASSUME NEW w \in Words
    PROVE  Low(w) + 256 * High(w) = w
BY WordBounds, SMT DEF Low, High

\* What the device says of one of the six axes it says in the slot of that axis.
LEMMA ReportsAre ==
    ASSUME NEW f \in Frames, NEW k \in 0 .. 7
    PROVE  /\ Report(f, k) = f.profile[k]
           /\ f.profile[k] \in [position : Words, velocity : Words, current : Words,
                                status : Bytes, alarm : Bytes]
<1>1. f.profile \in [0 .. 7 -> [position : Words, velocity : Words, current : Words,
                                status : Bytes, alarm : Bytes]]
  BY ProfilesAssumption, Zenon DEF Frames
<1>2. k % 8 = k
  OBVIOUS
<1>3. QED
  BY <1>1, <1>2, Zenon DEF Report

\* Where the words and the status of an axis are in a motion frame ...
LEMMA MotionBytes ==
    ASSUME NEW f \in Frames, f.type % 128 = 80, NEW a \in AxisNumbers
    PROVE  /\ \A j \in 0 .. 5 :
                Byte(f, 2 + a * 6 + j) =
                    LET w == Word(f.profile[a], j \div 2)
                    IN  IF j % 2 = 0 THEN Low(w) ELSE High(w)
           /\ Byte(f, 50 + a) = f.profile[a].status
<1>0. a \in 0 .. 7 /\ a \in Nat
  BY DEF AxisNumbers
<1>r. Report(f, a) = f.profile[a]
  BY <1>0, ReportsAre, SMT
<1>1. ASSUME NEW j \in 0 .. 5
      PROVE  Byte(f, 2 + a * 6 + j) =
                    LET w == Word(f.profile[a], j \div 2)
                    IN  IF j % 2 = 0 THEN Low(w) ELSE High(w)
  <2> DEFINE i == 6 * a + j
  <2>1. (2 + a * 6 + j) - 2 = i /\ ~(i >= 48)
    BY DEF AxisNumbers
  <2>d. i = 6 * a + j
    OBVIOUS
  <2> HIDE DEF i
  <2>2. i \div 6 = a /\ i % 6 = j /\ i % 2 = j % 2
    BY <2>d, SMT DEF AxisNumbers
  <2>3. Byte(f, 2 + a * 6 + j) = MotionByte(f, i)
    BY <2>1, Zenon DEF Byte
  <2>4. Report(f, i \div 6) = f.profile[a]
    BY <1>r, <2>2, Zenon
  <2>5. Word(Report(f, i \div 6), (i % 6) \div 2) = Word(f.profile[a], j \div 2)
    BY <2>2, <2>4, Zenon
  <2>6. MotionByte(f, i) = IF i % 2 = 0 THEN Low(Word(f.profile[a], j \div 2))
                                        ELSE High(Word(f.profile[a], j \div 2))
    BY <2>1, <2>5, Zenon DEF MotionByte
  <2>7. QED
    BY <2>2, <2>3, <2>6, Zenon
<1>2. Byte(f, 50 + a) = f.profile[a].status
  <2>1. (50 + a) - 2 = 48 + a /\ 48 + a >= 48 /\ (48 + a) - 48 = a
    BY <1>0
  <2>2. Byte(f, 50 + a) = MotionByte(f, 48 + a)
    BY <2>1, Zenon DEF Byte
  <2>3. MotionByte(f, 48 + a) = Report(f, a).status
    BY <2>1, Zenon DEF MotionByte
  <2>4. QED
    BY <1>0, <2>2, <2>3, ReportsAre, SMT
<1>3. QED
  BY <1>1, <1>2, Zenon

\* ... and its two bytes in a status frame.
LEMMA StatusBytes ==
    ASSUME NEW f \in Frames, f.type % 128 # 80, NEW a \in AxisNumbers
    PROVE  /\ Byte(f, 2 + a * 2) = f.profile[a].status
           /\ Byte(f, 2 + a * 2 + 1) = f.profile[a].alarm
<1>0. a \in 0 .. 7 /\ a \in Nat
  BY DEF AxisNumbers
<1>1. /\ (2 + a * 2) - 2 = 2 * a /\ (2 + a * 2 + 1) - 2 = 2 * a + 1
      /\ (2 * a) % 2 = 0 /\ (2 * a + 1) % 2 # 0
      /\ (2 * a) \div 2 = a /\ (2 * a + 1) \div 2 = a
  BY <1>0
<1>2. Byte(f, 2 + a * 2) = StatusByte(f, 2 * a) /\ Byte(f, 2 + a * 2 + 1) = StatusByte(f, 2 * a + 1)
  BY <1>1, Zenon DEF Byte
<1>3. Report(f, a) = f.profile[a]
  BY <1>0, ReportsAre, Zenon
<1>4. QED
  BY <1>1, <1>2, <1>3, Zenon DEF StatusByte

\* The decoder reads the words that were sent.
LEMMA WordsRead ==
    ASSUME NEW f \in Frames, f.type % 128 = 80, NEW a \in AxisNumbers
    PROVE  /\ Read16(f, 2 + a * 6) = f.profile[a].position
           /\ Read16(f, 2 + a * 6 + 2) = f.profile[a].velocity
           /\ Read16(f, 2 + a * 6 + 4) = f.profile[a].current
<1> DEFINE r == f.profile[a]
<1>0. a \in 0 .. 7 /\ a \in Nat
  BY DEF AxisNumbers
<1>1. r.position \in Words /\ r.velocity \in Words /\ r.current \in Words
  BY <1>0, ReportsAre
<1>2. /\ Word(r, 0 \div 2) = r.position /\ Word(r, 1 \div 2) = r.position
      /\ Word(r, 2 \div 2) = r.velocity /\ Word(r, 3 \div 2) = r.velocity
      /\ Word(r, 4 \div 2) = r.current /\ Word(r, 5 \div 2) = r.current
  BY DEF Word
<1>3. /\ 0 % 2 = 0 /\ 1 % 2 # 0 /\ 2 % 2 = 0 /\ 3 % 2 # 0 /\ 4 % 2 = 0 /\ 5 % 2 # 0
      /\ {0, 1, 2, 3, 4, 5} \subseteq 0 .. 5
  OBVIOUS
<1> HIDE DEF r
<1>4. \A j \in 0 .. 5 : Byte(f, 2 + a * 6 + j) =
          IF j % 2 = 0 THEN Low(Word(r, j \div 2)) ELSE High(Word(r, j \div 2))
  BY MotionBytes, ZenonT(60) DEF r
<1>5. /\ Byte(f, 2 + a * 6 + 0) = Low(r.position) /\ Byte(f, 2 + a * 6 + 1) = High(r.position)
      /\ Byte(f, 2 + a * 6 + 2) = Low(r.velocity) /\ Byte(f, 2 + a * 6 + 3) = High(r.velocity)
      /\ Byte(f, 2 + a * 6 + 4) = Low(r.current) /\ Byte(f, 2 + a * 6 + 5) = High(r.current)
  BY <1>2, <1>3, <1>4, SMT
<1>6. 2 + a * 6 + 0 = 2 + a * 6 /\ (2 + a * 6 + 2) + 1 = 2 + a * 6 + 3
      /\ (2 + a * 6 + 4) + 1 = 2 + a * 6 + 5
  BY <1>0
<1>7. /\ Low(r.position) + 256 * High(r.position) = r.position
      /\ Low(r.velocity) + 256 * High(r.velocity) = r.velocity
      /\ Low(r.current) + 256 * High(r.current) = r.current
  BY <1>1, WordBytes, Zenon
<1>8. /\ Read16(f, 2 + a * 6) = Low(r.position) + 256 * High(r.position)
      /\ Read16(f, 2 + a * 6 + 2) = Low(r.velocity) + 256 * High(r.velocity)
      /\ Read16(f, 2 + a * 6 + 4) = Low(r.current) + 256 * High(r.current)
  BY <1>5, <1>6, SMT DEF Read16
<1>9. QED
  BY <1>7, <1>8, Zenon DEF r

-----------------------------------------------------------------------------

\* Position shows what is within the stroke, and otherwise the end it lies beyond.
LEMMA PositionRight ==
    ASSUME NEW p \in Words
    PROVE  /\ p <= 10000 => Position(p) = p
           /\ p > 10000 /\ p < 20000 => Position(p) = 10000
           /\ p > 20000 => Position(p) = 0
           /\ p = 20000 => Position(p) = 20000
           /\ Position(p) \in Int
BY WordBounds, SMT DEF Position

\* A conversion to 16 bits wraps around once.
LEMMA Wraps ==
    ASSUME NEW x \in Int
    PROVE  /\ x >= 0 /\ x < 65536 => x % 65536 = x
           /\ x < 0 /\ x >= -65536 => x % 65536 = 65536 + x
           /\ x % 65536 \in Words
<1>1. x >= 0 /\ x < 65536 => x % 65536 = x
  BY SMT
<1>2. x < 0 /\ x >= -65536 => x % 65536 = 65536 + x
  BY SMT
<1>3. x % 65536 \in Words
  BY SMTT(60) DEF Words
<1>4. QED
  BY <1>1, <1>2, <1>3, SMT

LEMMA SignedIs ==
    ASSUME NEW w \in Words
    PROVE  /\ Signed16(w) \in Int /\ Signed16(w) >= -32768 /\ Signed16(w) < 32768
           /\ w < 32768 => Signed16(w) = w
           /\ w >= 32768 => Signed16(w) = w - 65536
BY WordBounds, SMT DEF Signed16

\* A word that stands for a small number becomes ten times that number.
LEMMA VelocityRight ==
    ASSUME NEW v \in Words
    PROVE  /\ v <= 3276 => Signed16((Signed16(v) * 10) % 65536) = 10 * v
           /\ v >= 65536 - 3276 =>
                 Signed16((Signed16(v) * 10) % 65536) = 10 * (v - 65536)
           /\ Signed16((Signed16(v) * 10) % 65536) \in Int
<1> DEFINE x == Signed16(v) * 10
<1>1. x \in Int
  BY SignedIs, SMT
<1>s. /\ v < 32768 => Signed16(v) = v
      /\ v >= 32768 => Signed16(v) = v - 65536
  BY SignedIs, SMT
<1>v. v \in Int /\ v >= 0 /\ v < 65536
  BY WordBounds, SMT
<1>2. ASSUME v <= 3276
      PROVE  Signed16(x % 65536) = 10 * v
  <2>1. x = 10 * v /\ x >= 0 /\ x < 32768
    BY <1>2, <1>s, <1>v, SMT
  <2> HIDE DEF x
  <2>2. x % 65536 = x
    BY <1>1, <2>1, Wraps, SMT
  <2>3. QED
    BY <1>1, <2>1, <2>2, SMT DEF Signed16
<1>3. ASSUME v >= 65536 - 3276
      PROVE  Signed16(x % 65536) = 10 * (v - 65536)
  <2>1. x = 10 * (v - 65536) /\ x < 0 /\ x >= -32768
    BY <1>3, <1>s, <1>v, SMT
  <2> HIDE DEF x
  <2>2. x % 65536 = 65536 + x
    BY <1>1, <2>1, Wraps, SMT
  <2>3. QED
    BY <1>1, <2>1, <2>2, SMT DEF Signed16
<1>4. Signed16(x % 65536) \in Int
  <2> HIDE DEF x
  <2>1. x % 65536 \in Words
    BY <1>1, Wraps, SMT
  <2>2. QED
    BY <2>1, SignedIs, SMT
<1>5. QED
  BY <1>2, <1>3, <1>4, SMT

LEMMA CurrentRight ==
    ASSUME NEW c \in Words
    PROVE  /\ Signed16(c) \in Int /\ Signed16(c) >= -32768 /\ Signed16(c) < 32768
           /\ Signed16(c) % 65536 = c
<1>1. /\ Signed16(c) \in Int /\ Signed16(c) >= -32768 /\ Signed16(c) < 32768
      /\ c < 32768 => Signed16(c) = c
      /\ c >= 32768 => Signed16(c) = c - 65536
  BY SignedIs, SMT
<1>c. c \in Int /\ c >= 0 /\ c < 65536
  BY WordBounds, SMT
<1>2. CASE c < 32768
  <2>1. c % 65536 = c
    BY <1>1, <1>c, Wraps, SMT
  <2>2. QED
    BY <1>1, <1>c, <1>2, <2>1, SMT
<1>3. CASE c >= 32768
  <2>1. (c - 65536) % 65536 = c
    BY <1>1, <1>c, <1>3, SMT
  <2>2. QED
    BY <1>1, <1>c, <1>3, <2>1, SMT
<1>4. QED
  BY <1>1, <1>c, <1>2, <1>3, SMT

-----------------------------------------------------------------------------
(* What a decoded axis shows.                                               *)

AxisTypes == [raw : Int, velocity : Int, current : Int, status : Int, alarm : Int, position : Int]

MotionAxis(x, p, v, c, s, q) ==
    [x EXCEPT !.raw = p, !.velocity = v, !.current = c, !.status = s, !.position = q]

StatusAxis(x, s, c) == [x EXCEPT !.status = s, !.alarm = c]

\* What an update of an axis with a motion or a status report leaves in it.
LEMMA MotionUpdate ==
    ASSUME NEW x \in AxisTypes, NEW p \in Int, NEW v \in Int, NEW c \in Int, NEW s \in Int,
           NEW q \in Int
    PROVE  LET d == MotionAxis(x, p, v, c, s, q)
           IN  d \in AxisTypes /\ d.position = q /\ d.velocity = v /\ d.current = c
<1> DEFINE d == MotionAxis(x, p, v, c, s, q)
<1>1. d \in AxisTypes
  BY Zenon DEF AxisTypes, MotionAxis
<1>2. d.position = q
  BY SMT DEF AxisTypes, MotionAxis
<1>3. d.velocity = v
  BY SMT DEF AxisTypes, MotionAxis
<1>4. d.current = c
  BY SMT DEF AxisTypes, MotionAxis
<1> HIDE DEF d
<1>5. QED
  BY <1>1, <1>2, <1>3, <1>4, Zenon DEF d

LEMMA StatusUpdate ==
    ASSUME NEW x \in AxisTypes, NEW s \in Int, NEW c \in Int
    PROVE  LET d == StatusAxis(x, s, c)
           IN  d \in AxisTypes /\ d.status = s /\ d.alarm = c
<1> DEFINE d == StatusAxis(x, s, c)
<1>1. d \in AxisTypes
  BY Zenon DEF AxisTypes, StatusAxis
<1>2. d.status = s
  BY SMT DEF AxisTypes, StatusAxis
<1>3. d.alarm = c
  BY SMT DEF AxisTypes, StatusAxis
<1> HIDE DEF d
<1>4. QED
  BY <1>1, <1>2, <1>3, Zenon DEF d

\* A decoded axis is the old one with what the frame reports of it.
LEMMA MotionDecoded ==
    ASSUME NEW f \in Frames, f.type % 128 = 80, NEW a \in AxisNumbers
    PROVE  Decoded(f, a) =
               MotionAxis(axes[a], f.profile[a].position, Tenfold(f.profile[a].velocity),
                          Signed16(f.profile[a].current), f.profile[a].status,
                          Position(f.profile[a].position))
<1> DEFINE c == Config(f.type)
<1>1. c = [max |-> 8, stride |-> 6, status |-> FALSE]
  BY Zenon DEF Config
<1> HIDE DEF c
<1>2. c.stride = 6
  BY <1>1, SMT
<1>3. ~c.status
  BY <1>1, Zenon
<1>4. 2 + 48 + a = 50 + a
  BY SMT DEF AxisNumbers
<1>5. Decoded(f, a) =
          MotionAxis(axes[a], Read16(f, 2 + a * c.stride),
                     Tenfold(Read16(f, 2 + a * c.stride + 2)),
                     Signed16(Read16(f, 2 + a * c.stride + 4)), Byte(f, 2 + 48 + a),
                     Position(Read16(f, 2 + a * c.stride)))
  BY <1>3, Zenon DEF Decoded, MotionAxis, c
<1>6. /\ Read16(f, 2 + a * 6) = f.profile[a].position
      /\ Read16(f, 2 + a * 6 + 2) = f.profile[a].velocity
      /\ Read16(f, 2 + a * 6 + 4) = f.profile[a].current
  BY WordsRead, SMT
<1>7. Byte(f, 50 + a) = f.profile[a].status
  BY MotionBytes, SMT
<1>8. QED
  BY <1>2, <1>4, <1>5, <1>6, <1>7, SMT

LEMMA StatusDecoded ==
    ASSUME NEW f \in Frames, f.type % 128 # 80, NEW a \in AxisNumbers
    PROVE  Decoded(f, a) = StatusAxis(axes[a], f.profile[a].status, f.profile[a].alarm % 16)
<1> DEFINE c == Config(f.type)
<1>1. c = [max |-> 30, stride |-> 2, status |-> TRUE]
  BY Zenon DEF Config
<1> HIDE DEF c
<1>2. c.stride = 2
  BY <1>1, SMT
<1>3. c.status
  BY <1>1, Zenon
<1>4. Decoded(f, a) = StatusAxis(axes[a], Byte(f, 2 + a * c.stride),
                                 Byte(f, 2 + a * c.stride + 1) % 16)
  BY <1>3, Zenon DEF Decoded, StatusAxis, c
<1>5. /\ Byte(f, 2 + a * 2) = f.profile[a].status
      /\ Byte(f, 2 + a * 2 + 1) = f.profile[a].alarm
  BY StatusBytes, SMT
<1>6. QED
  BY <1>2, <1>4, <1>5, SMT

\* The snapshot taken from a decoded axis shows the report.
LEMMA MotionShown ==
    ASSUME NEW f \in Frames, f.type % 128 = 80, NEW a \in AxisNumbers, NEW m,
           axes \in [AxisNumbers -> AxisTypes],
           m = [position |-> Decoded(f, a).position, velocity |-> Decoded(f, a).velocity,
                current |-> Decoded(f, a).current]
    PROVE  ShowsMotion(m, f.profile[a]) /\ Decoded(f, a) \in AxisTypes
<1> DEFINE r == f.profile[a]
           d == Decoded(f, a)
<1>1. /\ r.position \in Words /\ r.velocity \in Words /\ r.current \in Words
      /\ r.status \in Bytes
  <2>1. a \in 0 .. 7
    BY SMT DEF AxisNumbers
  <2>2. QED
    BY <2>1, ReportsAre, SMT
<1> HIDE DEF r
<1>2. r.position \in Int /\ r.status \in Int
  BY <1>1, WordBounds, ByteBounds, SMT
<1>3. /\ Position(r.position) \in Int
      /\ Tenfold(r.velocity) \in Int
      /\ Signed16(r.current) \in Int
  BY <1>1, PositionRight, VelocityRight, CurrentRight, SMT DEF Tenfold
<1>4. /\ d \in AxisTypes
      /\ d.position = Position(r.position)
      /\ d.velocity = Tenfold(r.velocity)
      /\ d.current = Signed16(r.current)
  <2>1. axes[a] \in AxisTypes
    BY Zenon
  <2>2. d = MotionAxis(axes[a], r.position, Tenfold(r.velocity), Signed16(r.current),
                       r.status, Position(r.position))
    BY MotionDecoded, SMT DEF d, r
  <2> HIDE DEF d
  <2>3. QED
    BY <1>2, <1>3, <2>1, <2>2, MotionUpdate, SMT
<1> HIDE DEF d
<1>5. /\ m.position = Position(r.position)
      /\ m.velocity = Tenfold(r.velocity)
      /\ m.current = Signed16(r.current)
  BY <1>4, Zenon DEF d
<1>6. /\ r.position <= 10000 => m.position = r.position
      /\ r.position > 10000 /\ r.position < 20000 => m.position = 10000
      /\ r.position > 20000 => m.position = 0
      /\ r.position = 20000 => m.position = 20000
  BY <1>1, <1>5, PositionRight, SMT
<1>7. /\ r.velocity <= 3276 => m.velocity = 10 * r.velocity
      /\ r.velocity >= 65536 - 3276 => m.velocity = 10 * (r.velocity - 65536)
  BY <1>1, <1>5, VelocityRight, SMT DEF Tenfold
<1>8. m.current % 65536 = r.current /\ m.current >= -32768 /\ m.current <= 32767
  BY <1>1, <1>5, CurrentRight, SMT
<1>9. ShowsMotion(m, r)
  BY <1>6, <1>7, <1>8, SMT DEF ShowsMotion
<1>10. QED
  BY <1>4, <1>9, Zenon DEF d, r

LEMMA StatusShown ==
    ASSUME NEW f \in Frames, f.type % 128 # 80, NEW a \in AxisNumbers, NEW s, NEW b,
           axes \in [AxisNumbers -> AxisTypes],
           b = Decoded(f, a).status,
           s = [enabled |-> Bit(b, 1), homed |-> Bit(b, 16), torque |-> Bit(b, 8),
                fault |-> Decoded(f, a).alarm,
                stopped |-> Bit(b, 4) /\ Running(b) \notin {1, 7},
                emergency |-> Running(b) = 6]
    PROVE  ShowsStatus(s, f.profile[a]) /\ Decoded(f, a) \in AxisTypes
<1> DEFINE r == f.profile[a]
           d == Decoded(f, a)
           alarm == r.alarm % 16
<1>1. r.status \in Bytes /\ r.alarm \in Bytes
  <2>1. a \in 0 .. 7
    BY SMT DEF AxisNumbers
  <2>2. QED
    BY <2>1, ReportsAre, SMT
<1> HIDE DEF r
<1>2. r.status \in Int /\ alarm \in Int
  BY <1>1, ByteBounds, SMT
<1>3. alarm \in 0 .. 15 /\ (r.alarm - alarm) % 16 = 0
  BY <1>1, ByteBounds, SMT
<1>4. d \in AxisTypes /\ d.status = r.status /\ d.alarm = alarm
  <2>1. axes[a] \in AxisTypes
    BY Zenon
  <2>2. d = StatusAxis(axes[a], r.status, alarm)
    BY StatusDecoded, SMT DEF d, r
  <2> HIDE DEF alarm, d
  <2>3. QED
    BY <1>2, <2>1, <2>2, StatusUpdate, SMT
<1> HIDE DEF d, alarm
<1>5. b = r.status
  BY <1>4, Zenon DEF d
<1>6. /\ s.enabled <=> Bit(r.status, 1)
      /\ s.torque <=> Bit(r.status, 8)
      /\ s.homed <=> Bit(r.status, 16)
      /\ s.stopped <=> Bit(r.status, 4) /\ Running(r.status) \notin {1, 7}
      /\ s.emergency <=> Running(r.status) = 6
  BY <1>5, Zenon
<1>7. s.fault = alarm
  BY <1>4, Zenon DEF d
<1>8. s.fault \in 0 .. 15 /\ (r.alarm - s.fault) % 16 = 0
  BY <1>3, <1>7, SMT
<1>9. ASSUME NEW n \in {1, 4, 8, 16}
      PROVE  n \in {k \in {1, 4, 8, 16} : (r.status \div k) % 2 = 1} <=> Bit(r.status, n)
  BY Zenon DEF Bit
<1>10. ShowsStatus(s, r)
  BY <1>6, <1>8, <1>9, Zenon DEF ShowsStatus, Running
<1>11. QED
  BY <1>4, <1>10, Zenon DEF d, r

-----------------------------------------------------------------------------
(* Which frames count.                                                      *)

\* A report differs from no report.
LEMMA NoProfileIsEmpty == \A p \in Profiles : p # <<>>
<1> SUFFICES ASSUME NEW p \in Profiles, p = <<>> PROVE FALSE
  OBVIOUS
<1>1. DOMAIN p = 0 .. 7
  BY ProfilesAssumption, Zenon
<1>2. DOMAIN p = {}
  BY SMT
<1>3. 0 \in 0 .. 7
  BY SMT
<1>4. QED
  BY <1>1, <1>2, <1>3, Zenon

LEMMA FrameTypes ==
    ASSUME NEW f \in Frames
    PROVE  /\ f.type \in Int /\ f.type >= 0 /\ f.type < 256
           /\ f.slots \in Int /\ f.slots >= 0
           /\ f.length \in Int /\ f.length <= 64
           /\ f.toUs \in BOOLEAN
           /\ f.profile \in Profiles
<1>1. f.type \in Types /\ f.slots \in Slots /\ f.length \in Lengths
  BY SMT DEF Frames
<1>2. f.type \in Bytes /\ f.slots \in Bytes /\ f.length \in 0 .. 64
  BY <1>1, FramesAssumption, Zenon
<1>3. f.toUs \in BOOLEAN
  BY Zenon DEF Frames
<1>4. f.profile \in Profiles
  BY SMT DEF Frames
<1>5. QED
  BY <1>2, <1>3, <1>4, ByteBounds, SMT

LEMMA MotionType ==
    ASSUME NEW t \in Int, t >= 0, t < 256
    PROVE  /\ t % 128 = 80 <=> t \in {80, 208}
           /\ t % 128 = 90 <=> t \in {90, 218}
BY SMT

\* The checks of the decoder let through the complete frames and no others.
LEMMA AcceptedIsComplete ==
    ASSUME NEW f \in Frames
    PROVE  /\ f.toUs /\ f.length >= 2 /\ Accepted(f) <=> Complete(f)
           /\ Accepted(f) => Count(f) = 6
           /\ f.type \in {80, 208} <=> f.type % 128 = 80
<1>1. /\ f.type % 128 = 80 <=> f.type \in {80, 208}
      /\ f.type % 128 = 90 <=> f.type \in {90, 218}
  BY FrameTypes, MotionType, SMT
<1>2. Config(f.type) = IF f.type % 128 = 80 THEN [max |-> 8, stride |-> 6, status |-> FALSE]
                                            ELSE [max |-> 30, stride |-> 2, status |-> TRUE]
  BY Zenon DEF Config
<1> DEFINE c == Config(f.type)
<1>3. CASE f.type % 128 = 80
  <2>1. c = [max |-> 8, stride |-> 6, status |-> FALSE]
    BY <1>2, <1>3, Zenon
  <2> HIDE DEF c
  <2>2. c.max = 8 /\ c.stride = 6
    BY <2>1, SMT
  <2>3. ~c.status
    BY <2>1, Zenon
  <2>4. f.slots >= 6 => Count(f) = 6
    BY <2>2, FrameTypes, SMT DEF Count, Lesser, c
  <2>5. Needed(c, 6) = 56
    BY <2>2, <2>3, SMT DEF Needed
  <2>6. Accepted(f) <=> f.length >= 3 /\ f.slots >= 6 /\ f.slots <= 8 /\ f.length >= 50 + f.slots
    BY <1>1, <1>3, <2>4, <2>5, FrameTypes, SMT DEF Accepted, ValidFeedback, c
  <2>7. Complete(f) <=> f.toUs /\ f.slots \in 6 .. 8 /\ f.length >= 2 + 48 + f.slots
    BY <1>1, <1>3, FrameTypes, SMT DEF Complete
  <2>8. f.slots \in 6 .. 8 <=> f.slots >= 6 /\ f.slots <= 8
    BY FrameTypes, SMT
  <2>9. QED
    BY <1>1, <2>4, <2>6, <2>7, <2>8, FrameTypes, SMT
<1>4. CASE f.type % 128 # 80
  <2>1. c = [max |-> 30, stride |-> 2, status |-> TRUE]
    BY <1>2, <1>4, Zenon
  <2> HIDE DEF c
  <2>2. c.max = 30 /\ c.stride = 2
    BY <2>1, SMT
  <2>3. c.status
    BY <2>1, Zenon
  <2>4. f.slots >= 6 => Count(f) = 6
    BY <2>2, FrameTypes, SMT DEF Count, Lesser, c
  <2>5. Needed(c, 6) = 14
    BY <2>2, <2>3, SMT DEF Needed
  <2>6. Accepted(f) <=> /\ f.type \in {90, 218} /\ f.length >= 3 /\ f.slots >= 6
                        /\ f.slots <= 31 /\ f.length >= 2 + 2 * f.slots
    BY <1>1, <1>4, <2>4, <2>5, FrameTypes, SMT DEF Accepted, ValidFeedback, c
  <2>7. Complete(f) <=> /\ f.toUs /\ f.type \in {90, 218} /\ f.slots \in 6 .. 31
                        /\ f.length >= 2 + 2 * f.slots
    BY <1>1, <1>4, FrameTypes, SMT DEF Complete
  <2>8. f.slots \in 6 .. 31 <=> f.slots >= 6 /\ f.slots <= 31
    BY FrameTypes, SMT
  <2>9. QED
    BY <1>1, <2>4, <2>6, <2>7, <2>8, FrameTypes, SMT
<1>5. QED
  BY <1>3, <1>4

-----------------------------------------------------------------------------
(* The snapshot is what the last frames said.                               *)

Kept == axes \in [AxisNumbers -> AxisTypes]

Ages ==
    /\ said \in [Groups -> [report : Profiles \cup {<<>>}, age : Int]]
    /\ age \in [Groups -> Int]
    /\ \A g \in Groups : age[g] = said[g].age

SeenIsSaid == \A g \in Groups : g \in seen <=> said[g].report # <<>>

MotionIsShown ==
    "motion" \in seen => \A a \in AxisNumbers : ShowsMotion(motion[a], said["motion"].report[a])

StatusIsShown ==
    "status" \in seen => \A a \in AxisNumbers : ShowsStatus(status[a], said["status"].report[a])

FeedbackInv == Kept /\ Ages /\ SeenIsSaid /\ MotionIsShown /\ StatusIsShown

LEMMA SilenceIs == Silence \in [report : Profiles \cup {<<>>}, age : Int] /\ Silence.age = Expiry
                   /\ Silence.report = <<>>
BY ExpiryAssumption, SMT DEF Silence

LEMMA NoAxisIs == NoAxis \in AxisTypes
BY SMT DEF NoAxis, AxisTypes

LEMMA FeedbackInit ==
    ASSUME axes = [a \in AxisNumbers |-> NoAxis],
           seen = {},
           age = [g \in Groups |-> Expiry],
           said = [g \in Groups |-> Silence]
    PROVE  FeedbackInv
<1>1. Kept
  BY NoAxisIs, Zenon DEF Kept
<1>2. Ages
  BY SilenceIs, ExpiryAssumption, SMT DEF Ages
<1>3. SeenIsSaid
  BY SilenceIs, SMT DEF SeenIsSaid
<1>4. MotionIsShown /\ StatusIsShown
  BY Zenon DEF MotionIsShown, StatusIsShown
<1>5. QED
  BY <1>1, <1>2, <1>3, <1>4, Zenon DEF FeedbackInv

\* All of the invariant is about these variables.
LEMMA FeedbackKept ==
    ASSUME FeedbackInv, UNCHANGED <<axes, motion, status, seen, age, said>>
    PROVE  FeedbackInv'
BY SMT DEF FeedbackInv, Kept, Ages, SeenIsSaid, MotionIsShown, StatusIsShown

\* A frame that counts: its group is what it says, the other group stays.
LEMMA FrameCounts ==
    ASSUME FeedbackInv, NEW f \in Frames, Receive(f), ~closed, Complete(f)
    PROVE  FeedbackInv'
<1> DEFINE g == GroupOf(f.type)
           decoded == [a \in AxisNumbers |-> IF a < Count(f) THEN Decoded(f, a) ELSE axes[a]]
           news == [report |-> f.profile, age |-> 0]
<1>1. /\ f.toUs /\ f.length >= 2 /\ Accepted(f) /\ Count(f) = 6
      /\ f.type \in {80, 208} <=> f.type % 128 = 80
  BY AcceptedIsComplete, SMT
<1>2. ~(f.length < 2)
  BY <1>1, FrameTypes, SMT
<1>3. (IF f.type \in {80, 208} THEN "motion" ELSE "status") = g
  BY <1>1, Zenon DEF GroupOf
<1>4. g \in Groups
  BY Zenon DEF GroupOf, Groups
<1> HIDE DEF g, decoded, news
<1>5. /\ said' = [said EXCEPT ![g] = news]
      /\ axes' = decoded
      /\ seen' = seen \cup {g}
      /\ age' = [age EXCEPT ![g] = 0]
  BY <1>1, <1>2, <1>3, Zenon DEF Receive, g, decoded, news
<1>6. \A a \in AxisNumbers : decoded[a] = Decoded(f, a)
  <2>1. \A a \in AxisNumbers : a < Count(f)
    BY <1>1, SMT DEF AxisNumbers
  <2>2. QED
    BY <2>1, Zenon DEF decoded
<1>7. decoded = [a \in AxisNumbers |-> decoded[a]]
  BY Zenon DEF decoded
<1>8. /\ said'[g] = news
      /\ \A h \in Groups : h # g => said'[h] = said[h]
      /\ said' \in [Groups -> [report : Profiles \cup {<<>>}, age : Int]]
  <2>1. news \in [report : Profiles \cup {<<>>}, age : Int]
    BY FrameTypes, SMT DEF news
  <2>2. said \in [Groups -> [report : Profiles \cup {<<>>}, age : Int]]
    BY Zenon DEF FeedbackInv, Ages
  <2>3. QED
    BY <1>4, <1>5, <2>1, <2>2, SMT
<1>9. news.report = f.profile /\ news.age = 0 /\ f.profile # <<>>
  <2>1. news.report = f.profile /\ news.age = 0
    BY SMT DEF news
  <2>2. QED
    BY <2>1, FrameTypes, NoProfileIsEmpty, Zenon
<1>10. Ages'
  <2>1. /\ age \in [Groups -> Int]
        /\ \A h \in Groups : age[h] = said[h].age
    BY Zenon DEF FeedbackInv, Ages
  <2>2. /\ age' \in [Groups -> Int] /\ age'[g] = 0
        /\ \A h \in Groups : h # g => age'[h] = age[h]
    BY <1>4, <1>5, <2>1, SMT
  <2>3. ASSUME NEW h \in Groups
        PROVE  age'[h] = said'[h].age
    <3>1. CASE h = g
      BY <1>8, <1>9, <2>2, <3>1, Zenon
    <3>2. CASE h # g
      BY <1>8, <2>1, <2>2, <3>2, Zenon
    <3>3. QED
      BY <3>1, <3>2
  <2>4. QED
    BY <1>8, <2>2, <2>3, Zenon DEF Ages
<1>11. SeenIsSaid'
  <2>1. \A h \in Groups : h \in seen <=> said[h].report # <<>>
    BY Zenon DEF FeedbackInv, SeenIsSaid
  <2>2. \A h \in Groups : h \in seen' <=> said'[h].report # <<>>
    BY <1>5, <1>8, <1>9, <2>1, SMT
  <2>3. QED
    BY <2>2, Zenon DEF SeenIsSaid
<1>12. CASE f.type % 128 = 80
  <2>1. g = "motion"
    BY <1>12, Zenon DEF g, GroupOf
  <2>2. /\ motion' = [a \in AxisNumbers |->
                         [position |-> decoded[a].position, velocity |-> decoded[a].velocity,
                          current |-> decoded[a].current]]
        /\ status' = status
    BY <1>1, <1>2, <2>1, Zenon DEF Receive, g, decoded
  <2>3. ASSUME NEW a \in AxisNumbers
        PROVE  ShowsMotion(motion'[a], f.profile[a]) /\ Decoded(f, a) \in AxisTypes
    <3>1. motion'[a] = [position |-> Decoded(f, a).position, velocity |-> Decoded(f, a).velocity,
                        current |-> Decoded(f, a).current]
      BY <1>6, <2>2, Zenon
    <3>2. axes \in [AxisNumbers -> AxisTypes]
      BY Zenon DEF FeedbackInv, Kept
    <3>3. QED
      BY <1>12, <3>1, <3>2, MotionShown, SMT
  <2>4. Kept'
    BY <1>5, <1>6, <1>7, <2>3, Zenon DEF Kept
  <2>5. MotionIsShown'
    BY <1>8, <1>9, <2>1, <2>3, Zenon DEF MotionIsShown
  <2>6. StatusIsShown'
    <3>1. "status" \in Groups /\ "status" # g
      BY <2>1, SMT DEF Groups
    <3>2. said'["status"] = said["status"] /\ ("status" \in seen' => "status" \in seen)
      BY <1>5, <1>8, <3>1, SMT
    <3>3. StatusIsShown
      BY Zenon DEF FeedbackInv
    <3>4. QED
      BY <2>2, <3>2, <3>3, Zenon DEF StatusIsShown
  <2>7. QED
    BY <1>10, <1>11, <2>4, <2>5, <2>6, Zenon DEF FeedbackInv
<1>13. CASE f.type % 128 # 80
  <2>1. g = "status" /\ g # "motion"
    BY <1>13, Zenon DEF g, GroupOf
  <2>2. /\ status' = [a \in AxisNumbers |->
                         LET b == decoded[a].status IN
                         [enabled |-> Bit(b, 1), homed |-> Bit(b, 16), torque |-> Bit(b, 8),
                          fault |-> decoded[a].alarm,
                          stopped |-> Bit(b, 4) /\ Running(b) \notin {1, 7},
                          emergency |-> Running(b) = 6]]
        /\ motion' = motion
    BY <1>1, <1>2, <2>1, Zenon DEF Receive, g, decoded
  <2>3. ASSUME NEW a \in AxisNumbers
        PROVE  ShowsStatus(status'[a], f.profile[a]) /\ Decoded(f, a) \in AxisTypes
    <3> DEFINE b == Decoded(f, a).status
    <3>1. status'[a] = [enabled |-> Bit(b, 1), homed |-> Bit(b, 16), torque |-> Bit(b, 8),
                        fault |-> Decoded(f, a).alarm,
                        stopped |-> Bit(b, 4) /\ Running(b) \notin {1, 7},
                        emergency |-> Running(b) = 6]
      BY <1>6, <2>2, Zenon
    <3>2. axes \in [AxisNumbers -> AxisTypes]
      BY Zenon DEF FeedbackInv, Kept
    <3>3. QED
      BY <1>13, <3>1, <3>2, StatusShown, Zenon
  <2>4. Kept'
    BY <1>5, <1>6, <1>7, <2>3, Zenon DEF Kept
  <2>5. StatusIsShown'
    BY <1>8, <1>9, <2>1, <2>3, Zenon DEF StatusIsShown
  <2>6. MotionIsShown'
    <3>1. "motion" \in Groups /\ "motion" # g
      BY <2>1, Zenon DEF Groups
    <3>2. said'["motion"] = said["motion"] /\ ("motion" \in seen' => "motion" \in seen)
      BY <1>5, <1>8, <3>1, SMT
    <3>3. MotionIsShown
      BY Zenon DEF FeedbackInv
    <3>4. QED
      BY <2>2, <3>2, <3>3, Zenon DEF MotionIsShown
  <2>7. QED
    BY <1>10, <1>11, <2>4, <2>5, <2>6, Zenon DEF FeedbackInv
<1>14. QED
  BY <1>12, <1>13

LEMMA FeedbackStep == FeedbackInv /\ [Next]_vars => FeedbackInv'
<1> SUFFICES ASSUME FeedbackInv, [Next]_vars PROVE FeedbackInv'
  OBVIOUS
<1>1. ASSUME NEW f \in Frames, Receive(f) PROVE FeedbackInv'
  <2>1. CASE ~closed /\ Complete(f)
    BY <1>1, <2>1, FrameCounts, Zenon
  <2>2. CASE ~(~closed /\ Complete(f))
    <3>1. closed \/ ~f.toUs \/ f.length < 2 \/ ~Accepted(f)
      <4>1. f.length < 2 <=> ~(f.length >= 2)
        BY FrameTypes, SMT
      <4>2. QED
        BY <2>2, <4>1, AcceptedIsComplete, Zenon
    <3>2. UNCHANGED <<axes, motion, status, seen, age>> /\ said' = said
      BY <1>1, <2>2, <3>1, Zenon DEF Receive
    <3>3. QED
      BY <3>2, FeedbackKept, SMT
  <2>3. QED
    BY <2>1, <2>2, Zenon
<1>2. CASE OpenTransport \/ Initial
  <2>1. /\ axes' = [a \in AxisNumbers |-> NoAxis] /\ seen' = {}
        /\ age' = [g \in Groups |-> Expiry] /\ said' = [g \in Groups |-> Silence]
    BY <1>2, Zenon DEF OpenTransport, Initial, Forget
  <2>2. Kept'
    BY <2>1, NoAxisIs, Zenon DEF Kept
  <2>3. Ages'
    BY <2>1, SilenceIs, ExpiryAssumption, SMT DEF Ages
  <2>4. SeenIsSaid'
    BY <2>1, SilenceIs, SMT DEF SeenIsSaid
  <2>5. MotionIsShown' /\ StatusIsShown'
    BY <2>1, Zenon DEF MotionIsShown, StatusIsShown
  <2>6. QED
    BY <2>2, <2>3, <2>4, <2>5, Zenon DEF FeedbackInv
<1>3. CASE ReceiveFails
  BY <1>3, FeedbackKept, SMT DEF ReceiveFails
<1>4. CASE Close
  BY <1>4, FeedbackKept, SMT DEF Close
<1>5. CASE Tick
  <2>1. /\ age' = [g \in Groups |-> Lesser(age[g] + 1, Expiry)]
        /\ said' = [g \in Groups |-> [said[g] EXCEPT !.age = Lesser(@ + 1, Expiry)]]
        /\ UNCHANGED <<axes, motion, status, seen>>
    BY <1>5, Zenon DEF Tick
  <2>2. FeedbackInv /\ Ages /\ SeenIsSaid
    BY Zenon DEF FeedbackInv
  <2>3. ASSUME NEW g \in Groups
        PROVE  /\ said'[g] \in [report : Profiles \cup {<<>>}, age : Int]
               /\ said'[g].report = said[g].report
               /\ said'[g].age = Lesser(said[g].age + 1, Expiry)
    <3>1. said[g] \in [report : Profiles \cup {<<>>}, age : Int]
      BY <2>2, Zenon DEF Ages
    <3>2. Lesser(said[g].age + 1, Expiry) \in Int
      BY <3>1, ExpiryAssumption, SMT DEF Lesser
    <3>3. said'[g] = [said[g] EXCEPT !.age = Lesser(said[g].age + 1, Expiry)]
      BY <2>1, SMT
    <3>4. QED
      BY <3>1, <3>2, <3>3, SMT
  <2>4. Ages'
    <3>1. said' \in [Groups -> [report : Profiles \cup {<<>>}, age : Int]]
      BY <2>1, <2>3, SMT
    <3>2. ASSUME NEW g \in Groups
          PROVE  age'[g] = said'[g].age /\ said'[g].age \in Int
      <4>1. age[g] = said[g].age
        BY <2>2, Zenon DEF Ages
      <4>2. age'[g] = Lesser(age[g] + 1, Expiry)
        BY <2>1, Zenon
      <4>3. said'[g].age \in Int
        BY <2>3, SMT
      <4>4. QED
        BY <2>3, <4>1, <4>2, <4>3, Zenon
    <3>3. age' \in [Groups -> Int]
      BY <2>1, <3>2, SMT
    <3>4. QED
      BY <3>1, <3>2, <3>3, Zenon DEF Ages
  <2>5. SeenIsSaid'
    BY <2>1, <2>2, <2>3, SMT DEF SeenIsSaid
  <2>6. "motion" \in Groups /\ "status" \in Groups
    BY SMT DEF Groups
  <2>7. /\ said'["motion"].report = said["motion"].report
        /\ said'["status"].report = said["status"].report
    BY <2>3, <2>6, SMT
  <2>8. Kept' /\ MotionIsShown' /\ StatusIsShown'
    <3>1. Kept /\ MotionIsShown /\ StatusIsShown
      BY Zenon DEF FeedbackInv
    <3>2. axes' = axes /\ motion' = motion /\ status' = status /\ seen' = seen
      BY <2>1, Zenon
    <3>3. QED
      BY <2>7, <3>1, <3>2, Zenon DEF Kept, MotionIsShown, StatusIsShown
  <2>9. QED
    BY <2>4, <2>5, <2>8, Zenon DEF FeedbackInv
<1>6. CASE UNCHANGED vars
  BY <1>6, FeedbackKept, SMT DEF vars
<1>7. QED
  BY <1>1, <1>2, <1>3, <1>4, <1>5, <1>6, Zenon DEF Next

\* What decoding, counting and expiring of frames keep between the snapshot and
\* what the device said (set_canfd_data_decode, decode_motor_feedback, snapshot).
THEOREM FeedbackInvariance == Spec => []FeedbackInv
<1>1. Init => FeedbackInv
  BY FeedbackInit, Zenon DEF Init
<1>2. QED
  BY <1>1, FeedbackStep, PTL DEF Spec

\* The snapshot is that of the last complete frames, and valid only with frames
\* of the last 100 ms: for every word, byte, length, type and number of slots a
\* frame may have (set_canfd_data_decode, decode_motor_feedback, snapshot).
THEOREM SnapshotIsLastFramesCorrect == Spec => []SnapshotIsLastFrames
<1>1. FeedbackInv => SnapshotIsLastFrames
  <2> SUFFICES ASSUME FeedbackInv PROVE SnapshotIsLastFrames
    OBVIOUS
  <2>1. Valid => ~failed /\ \A g \in Groups : said[g].age < Expiry
    BY SMT DEF FeedbackInv, Ages, Valid
  <2>2. QED
    BY <2>1, Zenon DEF FeedbackInv, SeenIsSaid, MotionIsShown, StatusIsShown,
       SnapshotIsLastFrames
<1>2. QED
  BY <1>1, FeedbackInvariance, PTL

-----------------------------------------------------------------------------
(* home(): a hand that it reports as homed is homed, and position mode      *)
(* never ends a run, although the worker sees nothing but old frames.       *)

\* Nothing is decided before the call begins to count.
FreshWindow == pc = "begin" => window = "quiet"

\* The call knows of every run it counts.
SeenRuns ==
    /\ pc # "idle" => homing \cup frame.homing \subseteq ran
    /\ pc \notin {"idle", "begin"} => observed \subseteq ran

\* What was seen when a start is due: either some axis is still missing, or the
\* last of them came with the one frame since the decision, which shows it on its
\* run, and no other frame is on its way.
BeforeStart ==
    Deciding /\ window # "late" /\ Axes # {} =>
        /\ window = "quiet" => observed # Axes
        /\ observed = Axes => frame = NoFrame /\ view.homing # {}
        /\ window = "arrived" => frame = NoFrame

\* Once all axes have been seen, a status without runs is younger than the
\* last start, wherever that status is, and still true.
AfterStart ==
    pc \in {"wait", "restore", "pause"} /\ observed = Axes /\ window # "late"
        => /\ view.homing = {} => homing = {} /\ homed = view.homed
           /\ frame # NoFrame /\ frame.homing = {} => homing = {} /\ homed = frame.homed

AllDone ==
    pc \in {"restore", "pause"} => observed = Axes /\ (window # "late" => homing = {} /\ homed = Axes)

RestoresLeft ==
    /\ pc \notin {"restore", "pause"} => restores = 0
    /\ pc = "restore" => restores < Restores

HomingInv ==
    /\ TypeOK
    /\ FreshWindow
    /\ SeenRuns
    /\ BeforeStart
    /\ AfterStart
    /\ AllDone
    /\ RestoresLeft

-----------------------------------------------------------------------------

LEMMA FramesAre ==
    /\ NoFrame.homing = {}
    /\ \A f \in StatusFrames : f.homing \subseteq Axes /\ f.homed \subseteq Axes
BY DEF StatusFrames, NoFrame

LEMMA BooleansAre ==
    TypeOK => {tracking, sentAll, cancelled, result} \subseteq BOOLEAN
BY DEF TypeOK

LEMMA StatusIsFrame ==
    TypeOK => Status \in StatusFrames /\ Status.homing = homing /\ Status.homed = homed
BY DEF TypeOK, Status, StatusFrames

LEMMA HomingBegins ==
    ASSUME HomingInit
    PROVE  HomingInv
<1>1. view \in StatusFrames
  BY DEF HomingInit, Status, StatusFrames
<1>2. {tracking, sentAll, cancelled, result} \subseteq BOOLEAN
  BY Zenon DEF HomingInit
<1>3. TypeOK
  BY <1>1, <1>2, HomingAssumption DEF HomingInit, TypeOK
<1>4. QED
  BY <1>3, HomingAssumption DEF HomingInit, HomingInv, Deciding, FreshWindow, SeenRuns,
     BeforeStart, AfterStart, AllDone, RestoresLeft

\* Each action of the worker, the session and the device.
LEMMA HomingStep ==
    ASSUME HomingInv, [HomingNext]_homingVars
    PROVE  HomingInv'
<1> USE HomingAssumption, FramesAre
<1> USE DEF Deciding, HomingInv, FreshWindow, SeenRuns, BeforeStart, AfterStart, AllDone,
            RestoresLeft
<1>1. CASE Begin
  BY <1>1 DEF Begin, TypeOK, deviceVars, viewVars
<1>2. CASE TrackHome
  BY <1>2 DEF TrackHome, TypeOK, deviceVars, NothingObserved
<1>3. CASE Finish
  BY <1>3 DEF Finish, Done, TypeOK, deviceVars, viewVars
<1>4. CASE Retry
  BY <1>4 DEF Retry, AttemptsLeft, TypeOK, deviceVars, viewVars
<1>5. CASE GiveUp
  <2>1. {tracking', sentAll', cancelled', result'} \subseteq BOOLEAN
    BY <1>5, BooleansAre, Zenon DEF GiveUp, Leave
  <2>2. QED
    BY <1>5, <2>1 DEF GiveUp, Leave, TypeOK, deviceVars
<1>6. CASE NextRestore
  BY <1>6 DEF NextRestore, TypeOK, deviceVars, viewVars, callVars
<1>7. CASE Succeed
  <2>1. {tracking', sentAll', cancelled', result'} \subseteq BOOLEAN
    BY <1>7, BooleansAre, Zenon DEF Succeed, Leave
  <2>2. QED
    BY <1>7, <2>1 DEF Succeed, Leave, TypeOK, deviceVars
<1>8. ASSUME NEW begun \in SUBSET Axes, NEW kept \in SUBSET begun, Start(begun, kept)
      PROVE  HomingInv'
  BY <1>8 DEF Start, TypeOK, viewVars, callVars
<1>9. ASSUME NEW sent \in BOOLEAN, Restore(sent)
      PROVE  HomingInv'
  <2>1. {tracking', sentAll', cancelled', result'} \subseteq BOOLEAN
    BY <1>9, BooleansAre, Zenon DEF Restore, viewVars
  <2>2. pc = "restore" /\ pc' = "pause" /\ restores' = restores + 1 /\ window' = window
    BY <1>9 DEF Restore
  <2>3. window # "late" => homing' = homing /\ homed' = homed
    BY <1>9, <2>2 DEF Restore
  <2>4. TypeOK'
    BY <1>9, <2>1, <2>2 DEF Restore, TypeOK, viewVars
  <2>5. QED
    BY <1>9, <2>2, <2>3, <2>4 DEF Restore, TypeOK, viewVars
<1>10. CASE Cancel
  BY <1>10 DEF Cancel, TypeOK, deviceVars, viewVars
<1>11. CASE ReceiveStatus
  BY <1>11 DEF ReceiveStatus, TypeOK, deviceVars, callVars
<1>12. CASE SendStatus
  BY <1>12, StatusIsFrame DEF SendStatus, TypeOK, deviceVars, callVars
<1>13. ASSUME NEW a \in Axes, EndRun(a)
       PROVE  HomingInv'
  BY <1>13 DEF EndRun, TypeOK, viewVars, callVars
<1>14. CASE UNCHANGED homingVars
  BY <1>14 DEF homingVars, deviceVars, viewVars, callVars, TypeOK
<1>15. QED
  BY <1>1, <1>2, <1>3, <1>4, <1>5, <1>6, <1>7, <1>8, <1>9, <1>10, <1>11, <1>12, <1>13,
     <1>14 DEF HomingNext, Worker, Environment

\* The invariant of home(): what the worker knows, what is on its way to it and
\* what the device does agree (home, set_canfd_data_decode).
THEOREM HomingInvariance ==
    HomingSpec => []HomingInv
<1>1. HomingInit => HomingInv
  BY HomingBegins, Zenon
<1>2. HomingInv /\ [HomingNext]_homingVars => HomingInv'
  BY HomingStep, Zenon
<1>3. QED
  BY <1>1, <1>2, PTL DEF HomingSpec

\* Type correctness of homing, for any bounds (home).
THEOREM HomingTypeCorrect ==
    HomingSpec => []TypeOK
<1>1. HomingInv => TypeOK
  BY DEF HomingInv
<1>2. QED
  BY <1>1, HomingInvariance, PTL

-----------------------------------------------------------------------------

LEMMA SuccessIsHomed ==
    HomingInv /\ [HomingNext]_homingVars =>
        [result' /\ ~result /\ window # "late" =>
             homing = {} /\ homed = Axes /\ ran = Axes]_homingVars
<1> SUFFICES ASSUME HomingInv, HomingNext, result', ~result, window # "late"
             PROVE  homing = {} /\ homed = Axes /\ ran = Axes
  OBVIOUS
<1>1. Succeed
  BY DEF HomingNext, Worker, Environment, Begin, TrackHome, Finish,
     Retry, GiveUp, Leave, NextRestore, Start, Restore,
     Cancel, ReceiveStatus, SendStatus, EndRun, callVars
<1>2. homing = {} /\ observed = Axes /\ homed = Axes /\ observed \subseteq ran
  BY <1>1 DEF Succeed, HomingInv, AllDone, SeenRuns
<1>3. QED
  BY <1>2 DEF HomingInv, TypeOK

\* A home() that reports success leaves every axis at rest with a reference and
\* has seen a run of each, for any number of axes (home).
THEOREM HomeMeansHomedCorrect ==
    HomingSpec => HomeMeansHomed
BY SuccessIsHomed, HomingInvariance, PTL DEF HomingSpec, HomeMeansHomed

LEMMA RestoreFindsRest ==
    HomingInv /\ [HomingNext]_homingVars =>
        [pc = "restore" /\ pc' = "pause" /\ window # "late" => homing = {}]_homingVars
BY DEF HomingInv, AllDone

\* Position mode is restored only when no axis is on its run (home).
THEOREM RestoreSparesRunsCorrect ==
    HomingSpec => RestoreSparesRuns
BY RestoreFindsRest, HomingInvariance, PTL DEF HomingSpec, RestoreSparesRuns
=============================================================================
