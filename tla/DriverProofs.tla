---------------------------- MODULE DriverProofs ----------------------------
(***************************************************************************)
(* Theorems about two drivers.                                             *)
(*                                                                         *)
(* The touch driver and its calibration, for every oversampling, size of   *)
(* the panel, set of places and number of touches.                         *)
(*                                                                         *)
(* The dataflash driver on its bus, for every number of requests, every    *)
(* set of ranges and every interleaving of the master's interrupts with    *)
(* the clients' calls: that the owner of the bus finds the chip idle for   *)
(* any size of page, that blocks are read and programmed as they were      *)
(* asked for where a page is two blocks.                                   *)
(***************************************************************************)
EXTENDS Touch, Dataflash, SequenceTheorems, TLAPS

States == {"NOT_TOUCHED", "READING_X", "READING_Y", "PROCESSING", "TOUCHED"}

\* What the variables of the driver's control hold.
ControlType ==
    /\ touch_state \in States
    /\ port \in [enabled : BOOLEAN, flag : BOOLEAN]
    /\ adc \in [enabled : BOOLEAN, busy : BOOLEAN]
    /\ softirq \in BOOLEAN

HandlerInv == ControlType /\ HandlersAgree

LEMMA InitEstablishes == TouchInit => HandlerInv
<1> SUFFICES ASSUME TouchInit PROVE HandlerInv
    OBVIOUS
<1>1. /\ touch_state = "NOT_TOUCHED"
      /\ port = [enabled |-> FALSE, flag |-> FALSE]
      /\ adc = [enabled |-> FALSE, busy |-> FALSE]
      /\ softirq = FALSE
    BY DEF TouchInit
<1>2. ControlType
    BY <1>1 DEF ControlType, States
<1>3. HandlersAgree
    BY <1>1 DEF HandlersAgree, Resting
<1> QED BY <1>2, <1>3 DEF HandlerInv

LEMMA StepPreserves == HandlerInv /\ [TouchNext]_touchVars => HandlerInv'
<1> SUFFICES ASSUME HandlerInv, [TouchNext]_touchVars PROVE HandlerInv'
    OBVIOUS
<1> USE DEF HandlerInv, ControlType, HandlersAgree, States, Resting
<1>1. CASE touch_enable
    BY <1>1 DEF touch_enable, Detecting
<1>2. CASE touch_disable
    BY <1>2 DEF touch_disable
<1>3. CASE touch_priv_port_handler
    BY <1>3 DEF touch_priv_port_handler
<1>4. CASE ReadX
  <2>1. CASE sample_count + 1 < Samples
      BY <1>4, <2>1 DEF ReadX, Sampled
  <2>2. CASE ~(sample_count + 1 < Samples)
      BY <1>4, <2>2 DEF ReadX, Sampled
  <2> QED BY <2>1, <2>2
<1>5. CASE ReadY
  <2>1. CASE sample_count + 1 < Samples
      BY <1>5, <2>1 DEF ReadY, Sampled
  <2>2. CASE ~(sample_count + 1 < Samples)
      BY <1>5, <2>2 DEF ReadY, Sampled, Detecting
  <2> QED BY <2>1, <2>2
<1>6. CASE touch_priv_process_samples
  <2>1. touch_state' \in Resting
      BY <1>6 DEF touch_priv_process_samples, ProcessReleased, ProcessTouched
  <2> QED BY <1>6, <2>1 DEF touch_priv_process_samples
<1>7. CASE win_init
    BY <1>7 DEF win_init, driver
<1>8. CASE app_touch_calibrate_setup
    BY <1>8 DEF app_touch_calibrate_setup, driver
<1>9. CASE TakePoint
    BY <1>9 DEF TakePoint, driver
<1>10. CASE CalibrationDone
    BY <1>10 DEF CalibrationDone, driver
<1>11. CASE PenDown
    BY <1>11 DEF PenDown
<1>12. CASE PenSlides \/ PenUp
    BY <1>12 DEF PenSlides, PenUp, driver
<1>13. CASE UNCHANGED touchVars
    BY <1>13 DEF touchVars, driver
<1> QED
    BY <1>1, <1>2, <1>3, <1>4, <1>5, <1>6, <1>7, <1>8, <1>9, <1>10, <1>11,
       <1>12, <1>13 DEF TouchNext, Pen, touch_priv_adc_handler

\* Whatever the pen does, and however often the driver is disabled and enabled,
\* the interrupt handlers and the softirq find the driver in a state they may
\* run in: the assertions in touch_priv_port_handler and touch_priv_adc_handler
\* hold.
THEOREM HandlersStayInStep == TouchSpec => []HandlersAgree
<1>1. HandlerInv => HandlersAgree
    BY DEF HandlerInv
<1> QED BY InitEstablishes, StepPreserves, <1>1, PTL DEF TouchSpec

(***************************************************************************)
(* Places and the matrix.                                                  *)
(***************************************************************************)
LEMMA PlaceParts ==
    ASSUME NEW r \in Raw
    PROVE  r[1] \in Int /\ r[2] \in Int /\ r = <<r[1], r[2]>>
BY DEF Raw

LEMMA QuotientIsInteger ==
    ASSUME NEW n \in Int, NEW d \in Int, d # 0
    PROVE  Quotient(n, d) \in Int
BY DEF Quotient

\* Rounding loses nothing of a multiple.
LEMMA QuotientOfMultiple ==
    ASSUME NEW n \in Int, NEW d \in Int, d # 0
    PROVE  Quotient(d * n, d) = n
BY DEF Quotient

LEMMA SamplesPositive == Samples \in Nat \ {0}
BY TouchAssumption DEF Samples

LEMMA AverageIsPlace ==
    ASSUME raw \in Raw
    PROVE  Average \in Raw
BY SamplesPositive DEF Average, Raw

LEMMA AverageOfSame ==
    ASSUME NEW s \in Raw, raw = <<Samples * s[1], Samples * s[2]>>
    PROVE  Average = s
BY SamplesPositive DEF Average, Raw

Row == Int \X Int \X Int
Matrices == [rows : Row \X Row, k : Int]

\* A row of the matrix and its denominator, from the x and y of three places on the
\* surface and one coordinate of the places on the panel.
CoefficientX(x1, y1, x2, y2, x3, y3, p1, p2, p3) ==
    (p1 - p3) * (y2 - y3) - (p2 - p3) * (y1 - y3)
CoefficientY(x1, y1, x2, y2, x3, y3, p1, p2, p3) ==
    (x1 - x3) * (p2 - p3) - (p1 - p3) * (x2 - x3)
Constant(x1, y1, x2, y2, x3, y3, p1, p2, p3) ==
    y1 * (x3 * p2 - x2 * p3) + y2 * (x1 * p3 - x3 * p1) + y3 * (x2 * p1 - x1 * p2)
Denominator(x1, y1, x2, y2, x3, y3) ==
    (x1 - x3) * (y2 - y3) - (x2 - x3) * (y1 - y3)

RowMaps(x1, y1, x2, y2, x3, y3, p1, p2, p3) ==
    LET a == CoefficientX(x1, y1, x2, y2, x3, y3, p1, p2, p3)
        b == CoefficientY(x1, y1, x2, y2, x3, y3, p1, p2, p3)
        c == Constant(x1, y1, x2, y2, x3, y3, p1, p2, p3)
        k == Denominator(x1, y1, x2, y2, x3, y3)
    IN  /\ a \in Int /\ b \in Int /\ c \in Int /\ k \in Int
        /\ a * x1 + b * y1 + c = k * p1
        /\ a * x2 + b * y2 + c = k * p2
        /\ a * x3 + b * y3 + c = k * p3

LEMMA RowSolves ==
    ASSUME NEW x1 \in Int, NEW y1 \in Int, NEW x2 \in Int, NEW y2 \in Int,
           NEW x3 \in Int, NEW y3 \in Int,
           NEW p1 \in Int, NEW p2 \in Int, NEW p3 \in Int
    PROVE  RowMaps(x1, y1, x2, y2, x3, y3, p1, p2, p3)
BY DEF RowMaps, CoefficientX, CoefficientY, Constant, Denominator

Triples == {t \in Seq(Raw) : Len(t) = 3}

LEMMA TripleParts ==
    ASSUME NEW t \in Triples
    PROVE  \A i \in 1 .. 3 : t[i] \in Raw /\ t[i][1] \in Int /\ t[i][2] \in Int
<1>1. t \in Seq(Raw) /\ Len(t) = 3
    BY DEF Triples
<1>2. \A i \in 1 .. 3 : t[i] \in Raw
    BY SMTT(60), <1>1
<1> QED
    BY <1>2, PlaceParts

\* The row that the calibration computes for a coordinate of the panel.
RowFor(r, p, d) ==
    <<CoefficientX(r[1][1], r[1][2], r[2][1], r[2][2], r[3][1], r[3][2],
                   p[1][d], p[2][d], p[3][d]),
      CoefficientY(r[1][1], r[1][2], r[2][1], r[2][2], r[3][1], r[3][2],
                   p[1][d], p[2][d], p[3][d]),
      Constant(r[1][1], r[1][2], r[2][1], r[2][2], r[3][1], r[3][2],
               p[1][d], p[2][d], p[3][d])>>
DenominatorFor(r) ==
    Denominator(r[1][1], r[1][2], r[2][1], r[2][2], r[3][1], r[3][2])

LEMMA RowForSolves ==
    ASSUME NEW r \in Triples, NEW p \in Triples, NEW d \in 1 .. 2
    PROVE  /\ RowFor(r, p, d) \in Row
           /\ DenominatorFor(r) \in Int
           /\ \A i \in 1 .. 3 :
                 RowFor(r, p, d)[1] * r[i][1] + RowFor(r, p, d)[2] * r[i][2]
                    + RowFor(r, p, d)[3] = DenominatorFor(r) * p[i][d]
<1> DEFINE x(i) == r[i][1]  y(i) == r[i][2]  q(i) == p[i][d]
           a == CoefficientX(x(1), y(1), x(2), y(2), x(3), y(3), q(1), q(2), q(3))
           b == CoefficientY(x(1), y(1), x(2), y(2), x(3), y(3), q(1), q(2), q(3))
           c == Constant(x(1), y(1), x(2), y(2), x(3), y(3), q(1), q(2), q(3))
           k == Denominator(x(1), y(1), x(2), y(2), x(3), y(3))
<1>1. \A i \in 1 .. 3 : x(i) \in Int /\ y(i) \in Int /\ q(i) \in Int
    BY TripleParts
<1>2. RowFor(r, p, d) = <<a, b, c>> /\ DenominatorFor(r) = k
    BY DEF RowFor, DenominatorFor
<1>3. \A i \in 1 .. 3 : r[i][1] = x(i) /\ r[i][2] = y(i) /\ p[i][d] = q(i)
    OBVIOUS
<1> HIDE DEF x, y, q
<1>4. /\ a \in Int /\ b \in Int /\ c \in Int /\ k \in Int
      /\ a * x(1) + b * y(1) + c = k * q(1)
      /\ a * x(2) + b * y(2) + c = k * q(2)
      /\ a * x(3) + b * y(3) + c = k * q(3)
  <2>1. /\ x(1) \in Int /\ x(2) \in Int /\ x(3) \in Int
        /\ y(1) \in Int /\ y(2) \in Int /\ y(3) \in Int
        /\ q(1) \in Int /\ q(2) \in Int /\ q(3) \in Int
      BY <1>1
  <2>2. RowMaps(x(1), y(1), x(2), y(2), x(3), y(3), q(1), q(2), q(3))
      BY ONLY <2>1, RowSolves
  <2> QED
      BY ONLY <2>2 DEF RowMaps
<1> HIDE DEF a, b, c, k
<1>5. \A i \in 1 .. 3 : a * x(i) + b * y(i) + c = k * q(i)
    BY <1>4
<1> QED
    BY <1>2, <1>3, <1>4, <1>5 DEF Row

(***************************************************************************)
(* Numbers that wrap around.                                               *)
(***************************************************************************)
LEMMA WrapFits ==
    ASSUME NEW n \in Int, NEW limit \in Nat \ {0}
    PROVE  /\ Wrap(n, limit) \in -limit .. limit - 1
           /\ \E q \in Int : n = Wrap(n, limit) + 2 * limit * q
<1> DEFINE m == 2 * limit
<1>1. m \in Nat \ {0} /\ n + limit \in Int
    OBVIOUS
<1>2. Wrap(n, limit) = ((n + limit) % m) - limit
    BY DEF Wrap
<1> HIDE DEF m
<1>3. /\ (n + limit) % m \in 0 .. m - 1 /\ (n + limit) \div m \in Int
      /\ n + limit = m * ((n + limit) \div m) + ((n + limit) % m)
    BY <1>1
<1>4. n = Wrap(n, limit) + m * ((n + limit) \div m)
    BY <1>1, <1>2, <1>3
<1> QED
    BY <1>2, <1>3, <1>4 DEF m

\* Two ints that differ by a multiple of the numbers there are are the same.
LEMMA WrapUnique ==
    ASSUME NEW limit \in Nat \ {0}, NEW n \in -limit .. limit - 1,
           NEW w \in -limit .. limit - 1, NEW q \in Int, n = w + 2 * limit * q
    PROVE  n = w
<1>1. CASE q = 0
    BY <1>1
<1>2. CASE q >= 1
  <2>1. limit * q >= limit
      BY <1>2
  <2> QED
      BY <2>1, <1>2
<1>3. CASE q <= -1
  <2>1. limit * q <= -limit
      BY <1>3
  <2> QED
      BY <2>1, <1>3
<1> QED
    BY <1>1, <1>2, <1>3

Ints == -IntLimit .. IntLimit - 1
Shorts == -ShortLimit .. ShortLimit - 1

LEMMA Limits == IntLimit \in Nat \ {0} /\ ShortLimit \in Nat \ {0} /\ Shorts \subseteq Ints
<1>1. IntLimit \in Nat \ {0} /\ ShortLimit \in 1 .. IntLimit
    BY TouchAssumption
<1>2. ShortLimit \in Nat \ {0} /\ -IntLimit <= -ShortLimit /\ ShortLimit <= IntLimit
    BY <1>1
<1>3. Shorts \subseteq Ints
    BY <1>1, <1>2 DEF Ints, Shorts
<1> QED
    BY <1>1, <1>2, <1>3

LEMMA Int32Fits ==
    ASSUME NEW n \in Int
    PROVE  /\ Int32(n) \in Ints /\ Int32(n) \in Int
           /\ \E q \in Int : n = Int32(n) + 2 * IntLimit * q
<1>1. IntLimit \in Nat \ {0}
    BY Limits
<1>2. /\ Wrap(n, IntLimit) \in -IntLimit .. IntLimit - 1
      /\ \E q \in Int : n = Wrap(n, IntLimit) + 2 * IntLimit * q
    BY ONLY n \in Int, <1>1, WrapFits
<1>3. -IntLimit .. IntLimit - 1 \subseteq Int
    BY <1>1
<1> QED
    BY ONLY <1>2, <1>3 DEF Int32, Ints

LEMMA Int16Fits ==
    ASSUME NEW n \in Int
    PROVE  Int16(n) \in Int
BY Limits, WrapFits DEF Int16

LEMMA Int32Keeps ==
    ASSUME NEW n \in Ints
    PROVE  Int32(n) = n
<1>1. n \in Int
    BY Limits DEF Ints
<1>2. PICK q \in Int : n = Int32(n) + 2 * IntLimit * q
    BY <1>1, Int32Fits
<1>3. Int32(n) \in Ints /\ IntLimit \in Nat \ {0}
    BY <1>1, Int32Fits, Limits
<1> DEFINE w == Int32(n)
<1>4. w \in Ints /\ n = w + 2 * IntLimit * q
    BY <1>2, <1>3
<1> HIDE DEF w
<1>5. n = w
  <2>1. /\ w \in -IntLimit .. IntLimit - 1 /\ n \in -IntLimit .. IntLimit - 1
        /\ IntLimit \in Nat \ {0} /\ q \in Int /\ n = w + 2 * IntLimit * q
      BY <1>3, <1>4 DEF Ints
  <2> QED
      BY ONLY <2>1, WrapUnique
<1> QED
    BY <1>5 DEF w

\* A product or a sum whose parts have wrapped is off by a multiple of the numbers
\* there are, and is right when it fits.
LEMMA OverflowUndone ==
    ASSUME NEW a \in Int, NEW b \in Int, NEW c \in Int, NEW x \in Int, NEW y \in Int,
           a * x + b * y + c \in Ints
    PROVE  Int32(Int32(a) * x + Int32(b) * y + Int32(c)) = a * x + b * y + c
<1> DEFINE n == a * x + b * y + c
           w == Int32(a) * x + Int32(b) * y + Int32(c)
<1>1. PICK q1 \in Int : a = Int32(a) + 2 * IntLimit * q1
    BY Int32Fits
<1>2. PICK q2 \in Int : b = Int32(b) + 2 * IntLimit * q2
    BY Int32Fits
<1>3. PICK q3 \in Int : c = Int32(c) + 2 * IntLimit * q3
    BY Int32Fits
<1>4. Int32(a) \in Int /\ Int32(b) \in Int /\ Int32(c) \in Int /\ IntLimit \in Int
    BY Int32Fits, Limits
<1>5. w \in Int /\ n \in Ints
    BY <1>4
<1>6. PICK q4 \in Int : w = Int32(w) + 2 * IntLimit * q4
    BY <1>5, Int32Fits
<1> DEFINE q == q1 * x + q2 * y + q3 + q4
<1>7. n = w + 2 * IntLimit * (q1 * x + q2 * y + q3)
  <2> DEFINE u == Int32(a)  v == Int32(b)  t == Int32(c)  m == 2 * IntLimit
  <2>1. /\ u \in Int /\ v \in Int /\ t \in Int /\ m \in Int
        /\ a = u + m * q1 /\ b = v + m * q2 /\ c = t + m * q3
      BY <1>1, <1>2, <1>3, <1>4
  <2>2. n = a * x + b * y + c /\ w = u * x + v * y + t
      OBVIOUS
  <2> HIDE DEF u, v, t, m, n, w
  <2>3. n = (u + m * q1) * x + (v + m * q2) * y + (t + m * q3)
      BY <2>1, <2>2
  <2>4. n = u * x + v * y + t + m * (q1 * x + q2 * y + q3)
      BY <2>1, <2>3
  <2>5. n = w + m * (q1 * x + q2 * y + q3)
      BY <2>2, <2>4
  <2> QED
      BY <2>5 DEF m
<1> HIDE DEF n, w
<1>8. n = Int32(w) + 2 * IntLimit * q /\ q \in Int
  <2> DEFINE e == q1 * x + q2 * y + q3
  <2>1. e \in Int /\ n = w + 2 * IntLimit * e /\ q = e + q4
      BY <1>7
  <2> HIDE DEF e, q
  <2>2. Int32(w) \in Int
      BY <1>5, Int32Fits
  <2> QED
      BY <2>1, <2>2, <1>4, <1>6
<1> HIDE DEF q
<1>9. n = Int32(w)
  <2> DEFINE v == Int32(w)
  <2>1. /\ v \in -IntLimit .. IntLimit - 1 /\ n \in -IntLimit .. IntLimit - 1
        /\ IntLimit \in Nat \ {0}
      BY <1>5, Limits, Int32Fits DEF Ints
  <2>2. n = v + 2 * IntLimit * q /\ q \in Int
      BY <1>8
  <2> HIDE DEF v
  <2>3. n = v
      BY ONLY <2>1, <2>2, WrapUnique
  <2> QED
      BY <2>3 DEF v
<1> QED
    BY <1>9 DEF n, w

LEMMA MatrixRows ==
    ASSUME NEW r, NEW p
    PROVE  /\ DenominatorFor(r) = Determinant(r)
           /\ touch_compute_calibration_matrix(r, p) =
                 [rows |-> << <<Int32(RowFor(r, p, 1)[1]), Int32(RowFor(r, p, 1)[2]),
                                Int32(RowFor(r, p, 1)[3])>>,
                              <<Int32(RowFor(r, p, 2)[1]), Int32(RowFor(r, p, 2)[2]),
                                Int32(RowFor(r, p, 2)[3])>> >>,
                  k |-> Int32(Determinant(r))]
BY DEF touch_compute_calibration_matrix, RowFor, Determinant, DenominatorFor, CoefficientX,
       CoefficientY, Constant, Denominator

\* What PanelPlace divides, by a row as it would be without overflows and one coordinate.
Mapped(row, r) == Int32(Int32(row[1]) * r[1] + Int32(row[2]) * r[2] + Int32(row[3]))

LEMMA MappedFits ==
    ASSUME NEW row \in Row, NEW s \in Raw, row[1] * s[1] + row[2] * s[2] + row[3] \in Ints
    PROVE  Mapped(row, s) = row[1] * s[1] + row[2] * s[2] + row[3]
<1>1. /\ row[1] \in Int /\ row[2] \in Int /\ row[3] \in Int
      /\ s[1] \in Int /\ s[2] \in Int
    BY PlaceParts DEF Row
<1> DEFINE a == row[1]  b == row[2]  c == row[3]  x == s[1]  y == s[2]
<1>2. /\ a \in Int /\ b \in Int /\ c \in Int /\ x \in Int /\ y \in Int
      /\ a * x + b * y + c \in Ints
      /\ Mapped(row, s) = Int32(Int32(a) * x + Int32(b) * y + Int32(c))
    BY <1>1 DEF Mapped
<1> HIDE DEF a, b, c, x, y
<1>3. Int32(Int32(a) * x + Int32(b) * y + Int32(c)) = a * x + b * y + c
    BY ONLY <1>2, OverflowUndone
<1> QED
    BY <1>2, <1>3 DEF a, b, c, x, y

\* The matrix takes the three places on the surface to the three on the panel, if the
\* denominator and its multiples are ints.
LEMMA MatrixSolves ==
    ASSUME NEW r \in Triples, NEW p \in Triples, NEW m,
           m = touch_compute_calibration_matrix(r, p),
           Determinant(r) # 0, Determinant(r) \in Ints,
           \A i \in 1 .. 3, d \in 1 .. 2 :
               p[i][d] \in Ints /\ Determinant(r) * p[i][d] \in Ints
    PROVE  \A i \in 1 .. 3 : PanelPlace(r[i], m) = p[i]
<1> DEFINE a == RowFor(r, p, 1)  b == RowFor(r, p, 2)  k == Determinant(r)
<1>1. /\ m.rows[1] = <<Int32(a[1]), Int32(a[2]), Int32(a[3])>>
      /\ m.rows[2] = <<Int32(b[1]), Int32(b[2]), Int32(b[3])>>
      /\ m.k = k
    BY MatrixRows, Int32Keeps
<1>2. /\ a \in Row /\ b \in Row /\ k \in Int
      /\ \A i \in 1 .. 3 : /\ a[1] * r[i][1] + a[2] * r[i][2] + a[3] = k * p[i][1]
                           /\ b[1] * r[i][1] + b[2] * r[i][2] + b[3] = k * p[i][2]
  <2>1. DenominatorFor(r) = k
      BY MatrixRows
  <2> QED
      BY <2>1, RowForSolves
<1>3. k # 0 /\ \A i \in 1 .. 3, d \in 1 .. 2 : p[i][d] \in Ints /\ k * p[i][d] \in Ints
    OBVIOUS
<1> HIDE DEF a, b, k
<1> SUFFICES ASSUME NEW i \in 1 .. 3 PROVE PanelPlace(r[i], m) = p[i]
    OBVIOUS
<1>4. /\ p[i][1] \in Int /\ p[i][2] \in Int /\ p[i] = <<p[i][1], p[i][2]>> /\ r[i] \in Raw
    BY TripleParts, PlaceParts
<1>5. Mapped(a, r[i]) = k * p[i][1] /\ Mapped(b, r[i]) = k * p[i][2]
    BY <1>2, <1>3, <1>4, MappedFits
<1>6. PanelPlace(r[i], m) =
          <<Int32(Quotient(Mapped(a, r[i]), k)), Int32(Quotient(Mapped(b, r[i]), k))>>
    BY <1>1, <1>3 DEF PanelPlace, Mapped
<1>7. /\ Quotient(k * p[i][1], k) = p[i][1] /\ Quotient(k * p[i][2], k) = p[i][2]
    BY <1>2, <1>3, <1>4, QuotientOfMultiple
<1>8. Int32(p[i][1]) = p[i][1] /\ Int32(p[i][2]) = p[i][2]
    BY <1>3, Int32Keeps
<1> QED
    BY <1>4, <1>5, <1>6, <1>7, <1>8

LEMMA PanelPlaceIsPlace ==
    ASSUME NEW r \in Raw, NEW m \in Matrices
    PROVE  PanelPlace(r, m) \in Raw
<1>1. /\ m.k \in Int
      /\ \A j \in 1 .. 2 : /\ m.rows[j][1] \in Int /\ m.rows[j][2] \in Int
                           /\ m.rows[j][3] \in Int
    BY DEF Matrices, Row
<1>2. r[1] \in Int /\ r[2] \in Int
    BY PlaceParts
<1> DEFINE k == IF m.k = 0 THEN 1 ELSE m.k
           n(j) == m.rows[j][1] * r[1] + m.rows[j][2] * r[2] + m.rows[j][3]
<1>3. k \in Int /\ k # 0 /\ n(1) \in Int /\ n(2) \in Int
    BY <1>1, <1>2
<1>4. PanelPlace(r, m) = <<Int32(Quotient(Int32(n(1)), k)), Int32(Quotient(Int32(n(2)), k))>>
    BY DEF PanelPlace
<1> HIDE DEF n, k
<1>5. Int32(n(1)) \in Int /\ Int32(n(2)) \in Int
    BY <1>3, Int32Fits
<1>6. /\ Int32(Quotient(Int32(n(1)), k)) \in Int
      /\ Int32(Quotient(Int32(n(2)), k)) \in Int
    BY <1>3, <1>5, QuotientIsInteger, Int32Fits
<1> QED
    BY <1>4, <1>6 DEF Raw

LEMMA CirclesAreThree ==
    /\ Circle \in Triples
    /\ \A i \in 1 .. 3, d \in 1 .. 2 : Circle[i][d] \in Ints
<1>1. \A i \in 1 .. 3, d \in 1 .. 2 : Circle[i][d] \in Shorts
    BY SMTT(60), TouchAssumption DEF Circle, Shorts
<1>2. Circle \in Triples
    BY TouchAssumption DEF Circle, Triples, Raw
<1> QED
    BY <1>1, <1>2, Limits

(***************************************************************************)
(* What is measured, told and calibrated.                                  *)
(***************************************************************************)
Events == [type : EventTypes, raw : Raw, panel : Raw]

DataType ==
    /\ sample_count \in Nat /\ raw \in Raw
    /\ last \in Events
    /\ matrix \in Matrices
    /\ calibration \in [phase : {"off", "running", "done"}, points : Seq(Raw),
                        event : Events]
    /\ pen \in Places \cup {None} /\ steady \in {None, pen}

\* Samples are counted while they are taken only.
SamplesCounted ==
    IF touch_state \in {"READING_X", "READING_Y"}
    THEN sample_count < Samples ELSE sample_count = 0

\* What has been summed up of a pen that lies still.
Summed ==
    steady # None =>
        /\ touch_state = "READING_X" => raw = <<sample_count * steady[1], 0>>
        /\ touch_state = "READING_Y" =>
              raw = <<Samples * steady[1], sample_count * steady[2]>>
        /\ touch_state = "PROCESSING" =>
              raw = <<Samples * steady[1], Samples * steady[2]>>

\* The matrix is the one of the points that the calibration took.
MatrixOfPoints ==
    calibration.phase = "done" =>
        /\ calibration.points \in Triples
        /\ matrix = touch_compute_calibration_matrix(calibration.points, Circle)

MeasuredInv == HandlerInv /\ DataType /\ SamplesCounted /\ Summed /\ MatrixOfPoints

\* What a step that reports a place may report.
StillStep ==
    last'.type \in {"PRESS", "MOVE"} /\ last' # last /\ steady # None
        => last'.raw = steady

LEMMA InitMeasured == TouchInit => MeasuredInv
<1> SUFFICES ASSUME TouchInit PROVE MeasuredInv
    OBVIOUS
<1>1. touch_state = "NOT_TOUCHED" /\ sample_count = 0 /\ raw = <<0, 0>>
    BY DEF TouchInit
<1>2. last \in Events
    BY DEF TouchInit, Events, EventTypes, Raw
<1>3. matrix \in Matrices
    BY DEF TouchInit, Uncalibrated, Matrices, Row
<1>4. calibration = [phase |-> "off", points |-> <<>>, event |-> last]
    BY DEF TouchInit
<1>5. DataType
    BY <1>1, <1>2, <1>3, <1>4 DEF TouchInit, DataType, Raw
<1>6. SamplesCounted /\ Summed
    BY <1>1 DEF TouchInit, SamplesCounted, Summed
<1>7. MatrixOfPoints
    BY <1>4 DEF MatrixOfPoints
<1> QED
    BY <1>5, <1>6, <1>7, InitEstablishes DEF MeasuredInv

\* A sample is where the pen is, or what the converter reads without one.
LEMMA SampleIsInteger ==
    ASSUME MeasuredInv, NEW d \in 1 .. 2,
           NEW v \in IF pen = None THEN Floating ELSE {pen[d]}
    PROVE  /\ v \in Int
           /\ steady # None => steady \in Raw /\ v = steady[d]
BY SMTT(60), TouchAssumption, PlaceParts DEF MeasuredInv, DataType

\* The state that the steps of a measurement leave alone.
Elsewhere == <<last, matrix, calibration, pen, steady>>

LEMMA ElsewhereTyped ==
    ASSUME MeasuredInv, UNCHANGED Elsewhere, sample_count' \in Nat, raw' \in Raw
    PROVE  DataType' /\ MatrixOfPoints' /\ StillStep
BY DEF MeasuredInv, DataType, MatrixOfPoints, Elsewhere, StillStep

LEMMA ReadXMeasures ==
    ASSUME MeasuredInv, ReadX
    PROVE  DataType' /\ SamplesCounted' /\ Summed' /\ MatrixOfPoints' /\ StillStep
<1>1. PICK v \in IF pen = None THEN Floating ELSE {pen[1]} :
         raw' = [raw EXCEPT ![1] = @ + v]
    BY DEF ReadX, Sampled
<1>2. v \in Int /\ (steady # None => steady \in Raw /\ v = steady[1])
    BY <1>1, SampleIsInteger
<1>3. raw \in Raw /\ sample_count \in Nat /\ sample_count < Samples
    BY DEF MeasuredInv, DataType, SamplesCounted, ReadX
<1>4. raw' \in Raw
    BY <1>1, <1>2, <1>3 DEF Raw
<1>5. UNCHANGED Elsewhere /\ sample_count' \in Nat
    BY <1>3 DEF ReadX, Sampled, Elsewhere, world
<1>6. CASE sample_count + 1 < Samples
  <2>1. touch_state' = "READING_X" /\ sample_count' = sample_count + 1
      BY <1>6 DEF ReadX, Sampled
  <2>2. SamplesCounted'
      BY <1>6, <2>1 DEF SamplesCounted, Samples
  <2>3. ASSUME steady # None
        PROVE  raw' = <<sample_count' * steady[1], 0>>
    <3>1. raw = <<sample_count * steady[1], 0>> /\ steady[1] \in Int
        BY <1>2, <2>3, PlaceParts DEF MeasuredInv, Summed, ReadX
    <3>2. raw' = <<sample_count * steady[1] + steady[1], 0>>
        BY <1>1, <1>2, <1>3, <2>3, <3>1
    <3> QED
        BY <1>3, <2>1, <3>1, <3>2
  <2>4. Summed'
      BY <2>1, <2>3, <1>5 DEF Summed, Elsewhere
  <2> QED
      BY <1>4, <1>5, <2>2, <2>4, ElsewhereTyped
<1>7. CASE ~(sample_count + 1 < Samples)
  <2>1. touch_state' = "READING_Y" /\ sample_count' = 0
      BY <1>7 DEF ReadX, Sampled
  <2>2. SamplesCounted'
      BY <2>1, SamplesPositive DEF SamplesCounted, Samples
  <2>3. ASSUME steady # None
        PROVE  raw' = <<Samples * steady[1], 0 * steady[2]>>
    <3>1. raw = <<sample_count * steady[1], 0>> /\ steady[1] \in Int /\ steady[2] \in Int
        BY <1>2, <2>3, PlaceParts DEF MeasuredInv, Summed, ReadX
    <3>2. raw' = <<sample_count * steady[1] + steady[1], 0>>
        BY <1>1, <1>2, <1>3, <2>3, <3>1
    <3>3. Samples = sample_count + 1
        BY <1>3, <1>7, SamplesPositive
    <3> QED
        BY <1>3, <3>1, <3>2, <3>3
  <2>4. Summed'
      BY <2>1, <2>3, <1>5 DEF Summed, Elsewhere, Samples
  <2> QED
      BY <1>4, <1>5, <2>2, <2>4, ElsewhereTyped
<1> QED
    BY <1>6, <1>7

LEMMA ReadYMeasures ==
    ASSUME MeasuredInv, ReadY
    PROVE  DataType' /\ SamplesCounted' /\ Summed' /\ MatrixOfPoints' /\ StillStep
<1>1. PICK v \in IF pen = None THEN Floating ELSE {pen[2]} :
         raw' = [raw EXCEPT ![2] = @ + v]
    BY DEF ReadY, Sampled
<1>2. v \in Int /\ (steady # None => steady \in Raw /\ v = steady[2])
    BY <1>1, SampleIsInteger
<1>3. raw \in Raw /\ sample_count \in Nat /\ sample_count < Samples
    BY DEF MeasuredInv, DataType, SamplesCounted, ReadY
<1>4. raw' \in Raw
    BY <1>1, <1>2, <1>3 DEF Raw
<1>5. UNCHANGED Elsewhere /\ sample_count' \in Nat
    BY <1>3 DEF ReadY, Sampled, Elsewhere, world
<1>8. ASSUME steady # None
      PROVE  /\ steady[1] \in Int /\ steady[2] \in Int
             /\ raw' = <<Samples * steady[1], sample_count * steady[2] + steady[2]>>
  <2>1. /\ raw = <<Samples * steady[1], sample_count * steady[2]>>
        /\ steady[1] \in Int /\ steady[2] \in Int
      BY <1>2, <1>8, PlaceParts DEF MeasuredInv, Summed, ReadY
  <2> QED
      BY <1>1, <1>2, <1>3, <1>8, <2>1, SamplesPositive
<1>6. CASE sample_count + 1 < Samples
  <2>1. touch_state' = "READING_Y" /\ sample_count' = sample_count + 1
      BY <1>6 DEF ReadY, Sampled
  <2>2. SamplesCounted'
      BY <1>6, <2>1 DEF SamplesCounted, Samples
  <2>3. steady # None => raw' = <<Samples * steady[1], sample_count' * steady[2]>>
      BY <1>3, <1>8, <2>1
  <2>4. Summed'
      BY <2>1, <2>3, <1>5 DEF Summed, Elsewhere, Samples
  <2> QED
      BY <1>4, <1>5, <2>2, <2>4, ElsewhereTyped
<1>7. CASE ~(sample_count + 1 < Samples)
  <2>1. touch_state' = "PROCESSING" /\ sample_count' = 0
      BY <1>7 DEF ReadY, Sampled
  <2>2. SamplesCounted'
      BY <2>1 DEF SamplesCounted
  <2>3. Samples = sample_count + 1
      BY <1>3, <1>7, SamplesPositive
  <2>4. steady # None => raw' = <<Samples * steady[1], Samples * steady[2]>>
      BY <1>3, <1>8, <2>3
  <2>5. Summed'
      BY <2>1, <2>4, <1>5 DEF Summed, Elsewhere, Samples
  <2> QED
      BY <1>4, <1>5, <2>2, <2>5, ElsewhereTyped
<1> QED
    BY <1>6, <1>7

LEMMA ProcessingMeasures ==
    ASSUME MeasuredInv, touch_priv_process_samples
    PROVE  DataType' /\ SamplesCounted' /\ Summed' /\ MatrixOfPoints' /\ StillStep
<1>1. /\ touch_state = "PROCESSING" /\ sample_count = 0 /\ raw \in Raw
      /\ last \in Events /\ matrix \in Matrices
    BY DEF MeasuredInv, HandlerInv, HandlersAgree, SamplesCounted, DataType, touch_priv_process_samples
<1>2. /\ touch_state' \in Resting /\ raw' = Average /\ sample_count' = sample_count
      /\ UNCHANGED <<matrix, pen, steady>>
    BY DEF touch_priv_process_samples, ProcessReleased, ProcessTouched, Resting, world
<1>3. Average \in Raw
    BY <1>1, AverageIsPlace
<1>4. PICK event \in Events :
         /\ last' \in {last, event}
         /\ calibration' \in {calibration, [calibration EXCEPT !.event = event]}
         /\ event.type \in {"PRESS", "MOVE"} => event.raw = Average /\ pen # None
  <2>1. CASE ProcessReleased
    <3> DEFINE event == [last EXCEPT !.type = "RELEASE"]
    <3>1. event \in Events /\ event.type = "RELEASE"
        BY <1>1 DEF Events, EventTypes
    <3>2. last' \in {last, event}
        BY <2>1 DEF ProcessReleased
    <3>3. calibration' \in {calibration, [calibration EXCEPT !.event = event]}
        BY <2>1 DEF ProcessReleased, Tell
    <3> QED
        BY <3>1, <3>2, <3>3
  <2>2. CASE ProcessTouched
    <3> DEFINE panel == PanelPlace(Average, matrix)
               type == CASE last.type \in {"NO_EVENT", "RELEASE"} -> "PRESS"
                         [] touch_is_touched /\ last.panel # panel -> "MOVE"
                         [] OTHER -> "NO_EVENT"
               kept == <<Int16(panel[1]), Int16(panel[2])>>
               event == [type |-> type, raw |-> Average, panel |-> kept]
    <3>1. kept \in Raw
      <4>1. panel \in Raw
          BY <1>1, <1>3, PanelPlaceIsPlace
      <4> HIDE DEF panel
      <4> QED
          BY <4>1, PlaceParts, Int16Fits DEF Raw
    <3>2. /\ pen # None
          /\ last' \in {last, event}
          /\ calibration' \in {calibration, [calibration EXCEPT !.event = event]}
        BY <2>2 DEF ProcessTouched, Tell
    <3>3. type \in EventTypes
        BY DEF EventTypes
    <3>4. event \in Events /\ event.raw = Average
        BY <1>3, <3>1, <3>3 DEF Events
    <3> QED
        BY <3>2, <3>4
  <2> QED
      BY <2>1, <2>2 DEF touch_priv_process_samples
<1>5. DataType'
  <2>1. last' \in Events
      BY <1>1, <1>4
  <2>2. calibration' \in [phase : {"off", "running", "done"}, points : Seq(Raw),
                          event : Events]
      BY <1>4 DEF MeasuredInv, DataType
  <2> QED
      BY <1>1, <1>2, <1>3, <2>1, <2>2 DEF MeasuredInv, DataType
<1>6. SamplesCounted' /\ Summed'
    BY <1>1, <1>2 DEF SamplesCounted, Summed, Resting, Samples
<1>7. MatrixOfPoints'
  <2>1. calibration'.phase = calibration.phase /\ calibration'.points = calibration.points
      BY <1>4 DEF MeasuredInv, DataType
  <2> QED
      BY <1>2, <2>1 DEF MeasuredInv, MatrixOfPoints
<1>8. StillStep
  <2> SUFFICES ASSUME last'.type \in {"PRESS", "MOVE"}, last' # last, steady # None
               PROVE  last'.raw = steady
      BY DEF StillStep
  <2>1. last'.raw = Average /\ steady = pen /\ pen \in Raw
      BY <1>4, TouchAssumption DEF MeasuredInv, DataType
  <2>2. raw = <<Samples * steady[1], Samples * steady[2]>>
      BY <1>1 DEF MeasuredInv, Summed
  <2> QED
      BY <2>1, <2>2, AverageOfSame
<1> QED
    BY <1>5, <1>6, <1>7, <1>8

\* The calibration's own steps: no measurement, no event of the driver.
Measuring == <<touch_state, sample_count, raw, last, pen, steady>>

LEMMA CalibrationSteps ==
    ASSUME MeasuredInv, UNCHANGED Measuring,
           matrix' \in Matrices,
           calibration' \in [phase : {"off", "running", "done"}, points : Seq(Raw),
                             event : Events]
    PROVE  DataType' /\ SamplesCounted' /\ Summed' /\ StillStep
BY DEF MeasuredInv, DataType, SamplesCounted, Summed, StillStep, Measuring, Samples

LEMMA MatrixIsMatrix ==
    ASSUME NEW r \in Triples, NEW p \in Triples
    PROVE  touch_compute_calibration_matrix(r, p) \in Matrices
<1>1. RowFor(r, p, 1) \in Row /\ RowFor(r, p, 2) \in Row /\ Determinant(r) \in Int
    BY RowForSolves, MatrixRows
<1>2. \A d \in 1 .. 2, j \in 1 .. 3 : Int32(RowFor(r, p, d)[j]) \in Int
  <2>1. ASSUME NEW d \in 1 .. 2, NEW j \in 1 .. 3 PROVE RowFor(r, p, d)[j] \in Int
      BY <1>1 DEF Row
  <2> QED
      BY <2>1, Int32Fits
<1>3. Int32(Determinant(r)) \in Int
    BY <1>1, Int32Fits
<1> QED
    BY <1>2, <1>3, MatrixRows DEF Matrices, Row

LEMMA StepMeasures == MeasuredInv /\ [TouchNext]_touchVars => MeasuredInv' /\ StillStep
<1> SUFFICES ASSUME MeasuredInv, [TouchNext]_touchVars
             PROVE  DataType' /\ SamplesCounted' /\ Summed' /\ MatrixOfPoints' /\ StillStep
    BY StepPreserves DEF MeasuredInv
<1> DEFINE Contexts == [phase : {"off", "running", "done"}, points : Seq(Raw),
                           event : Events]
<1>0. /\ HandlerInv /\ HandlerInv' /\ calibration \in Contexts
      /\ matrix \in Matrices /\ last \in Events
    BY StepPreserves DEF MeasuredInv, DataType
<1>1. CASE touch_enable
  <2>1. touch_state \in Resting \cup {"PROCESSING"} /\ touch_state' = "NOT_TOUCHED"
      BY <1>0, <1>1 DEF touch_enable, HandlerInv, ControlType, HandlersAgree, States, Resting
  <2>2. last' \in Events /\ last'.type = "NO_EVENT"
      BY <1>0, <1>1 DEF touch_enable, Events, EventTypes
  <2>3. UNCHANGED <<sample_count, raw, matrix, calibration, pen, steady>>
      BY <1>1 DEF touch_enable, world
  <2> QED
      BY <2>1, <2>2, <2>3 DEF MeasuredInv, DataType, SamplesCounted, Summed, MatrixOfPoints, StillStep,
                              Resting, Samples
<1>2. CASE touch_disable \/ PenSlides \/ PenUp \/ PenDown \/ UNCHANGED touchVars
  <2>1. UNCHANGED <<touch_state, sample_count, raw, last, matrix, calibration>>
      BY <1>2 DEF touch_disable, PenSlides, PenUp, PenDown, touchVars, driver
  <2>2. /\ pen' \in Places \cup {None}
        /\ steady' = None \/ UNCHANGED <<pen, steady>>
      BY <1>2 DEF touch_disable, PenSlides, PenUp, PenDown, touchVars, world, MeasuredInv, DataType
  <2> QED
      BY <2>1, <2>2 DEF MeasuredInv, DataType, SamplesCounted, Summed, MatrixOfPoints, StillStep, Samples
<1>3. CASE touch_priv_port_handler
  <2>1. /\ sample_count = 0 /\ touch_state' = "READING_X"
        /\ raw' = <<0, 0>> /\ steady' = pen
        /\ UNCHANGED <<sample_count, last, matrix, calibration, pen>>
      BY <1>0, <1>3 DEF touch_priv_port_handler, MeasuredInv, SamplesCounted, HandlerInv, HandlersAgree,
                        Resting
  <2>2. DataType' /\ MatrixOfPoints' /\ StillStep
      BY <2>1 DEF MeasuredInv, DataType, MatrixOfPoints, StillStep, Raw
  <2>3. SamplesCounted'
      BY <2>1, SamplesPositive DEF SamplesCounted, Samples
  <2>4. steady' # None => steady' \in Raw
      BY <2>1, TouchAssumption DEF MeasuredInv, DataType
  <2>5. Summed'
      BY <2>1, <2>4, PlaceParts DEF Summed
  <2> QED
      BY <2>2, <2>3, <2>5
<1>4. CASE touch_priv_adc_handler
    BY <1>4, ReadXMeasures, ReadYMeasures DEF touch_priv_adc_handler
<1>5. CASE touch_priv_process_samples
    BY <1>5, ProcessingMeasures
<1>6. CASE win_init
  <2>1. UNCHANGED Measuring /\ UNCHANGED <<matrix, calibration>>
      BY <1>6 DEF win_init, Measuring, driver, world
  <2>2. MatrixOfPoints'
      BY <2>1 DEF MeasuredInv, MatrixOfPoints
  <2> QED
      BY <2>1, <2>2, <1>0, CalibrationSteps
<1>7. CASE app_touch_calibrate_setup
  <2>1. PICK type \in EventTypes, v \in Floating :
           calibration' = [phase |-> "running", points |-> <<>>,
                           event |-> [type |-> type, raw |-> <<v, v>>, panel |-> <<v, v>>]]
      BY <1>7 DEF app_touch_calibrate_setup
  <2>2. [type |-> type, raw |-> <<v, v>>, panel |-> <<v, v>>] \in Events
      BY TouchAssumption DEF Events, Raw
  <2>3. calibration' \in Contexts
      BY <2>1, <2>2
  <2>4. UNCHANGED Measuring /\ UNCHANGED matrix
      BY <1>7 DEF app_touch_calibrate_setup, Measuring, driver, world
  <2>5. MatrixOfPoints'
      BY <2>1 DEF MatrixOfPoints
  <2> QED
      BY <2>3, <2>4, <2>5, <1>0, CalibrationSteps
<1>8. CASE TakePoint
  <2>1. calibration.phase = "running" /\ UNCHANGED Measuring /\ UNCHANGED matrix
      BY <1>8 DEF TakePoint, Measuring, driver, world
  <2>2. PICK points \in {calibration.points,
                         Append(calibration.points, calibration.event.raw)} :
           calibration' = [calibration EXCEPT !.event.type = "NO_EVENT",
                                              !.points = points]
      BY <1>8 DEF TakePoint
  <2>3. [calibration.event EXCEPT !.type = "NO_EVENT"] \in Events
        /\ points \in Seq(Raw)
      BY <1>0 DEF Events, EventTypes
  <2>4. calibration' = [calibration EXCEPT
                           !.event = [calibration.event EXCEPT !.type = "NO_EVENT"],
                           !.points = points]
      BY <2>2
  <2>5. calibration' \in Contexts /\ calibration'.phase = "running"
      BY <2>1, <2>3, <2>4, <1>0
  <2>6. MatrixOfPoints'
      BY <2>5 DEF MatrixOfPoints
  <2> QED
      BY <2>1, <2>5, <2>6, <1>0, CalibrationSteps
<1>9. CASE CalibrationDone
  <2>1. /\ calibration.points \in Triples /\ UNCHANGED Measuring
        /\ matrix' = touch_compute_calibration_matrix(calibration.points, Circle)
        /\ calibration' = [calibration EXCEPT !.phase = "done"]
      BY <1>0, <1>9 DEF CalibrationDone, Measuring, driver, world, Triples
  <2>2. matrix' \in Matrices
      BY <2>1, CirclesAreThree, MatrixIsMatrix
  <2>3. calibration' \in Contexts /\ calibration'.points = calibration.points
      BY <2>1, <1>0
  <2>4. MatrixOfPoints'
      BY <2>1, <2>3 DEF MatrixOfPoints, Circle
  <2> QED
      BY <2>1, <2>2, <2>3, <2>4, CalibrationSteps
<1> QED
    BY <1>1, <1>2, <1>3, <1>4, <1>5, <1>6, <1>7, <1>8, <1>9 DEF TouchNext, Pen

\* A pen that lies still from the interrupt of the port on is reported where it lies:
\* the sums that touch_priv_adc_handler adds up hold nothing of an earlier measurement
\* and as many samples of each coordinate as touch_priv_process_samples divides by.
THEOREM StillPenIsReported == TouchSpec => StillPenIsMeasured
<1>1. MeasuredInv /\ [TouchNext]_touchVars => MeasuredInv'
    BY StepMeasures
<1>2. MeasuredInv /\ [TouchNext]_touchVars => [StillStep]_touchVars
    BY StepMeasures
<1> QED
    BY <1>1, <1>2, InitMeasured, PTL DEF TouchSpec, StillPenIsMeasured, StillStep

\* The matrix of touch_compute_calibration_matrix maps the three points that
\* app_touch_calibrate took to the circles it had drawn, unless they lie on a line, for
\* ints of any width and all points for which the denominator and its product with a
\* circle's coordinate are ints.  The coefficients and the sums on the way may overflow.
THEOREM CalibrationIsExact == TouchSpec => []TouchesMapToCircles
<1>1. MeasuredInv => TouchesMapToCircles
  <2> SUFFICES ASSUME MeasuredInv, calibration.phase = "done",
                      Determinant(calibration.points) # 0, Fits(calibration.points)
               PROVE  \A i \in 1 .. 3 : PanelPlace(calibration.points[i], matrix) = Circle[i]
      BY DEF TouchesMapToCircles
  <2> DEFINE r == calibration.points
  <2>1. r \in Triples /\ matrix = touch_compute_calibration_matrix(r, Circle)
      BY DEF MeasuredInv, MatrixOfPoints
  <2>2. /\ Determinant(r) # 0 /\ Determinant(r) \in Ints
        /\ \A i \in 1 .. 3, d \in 1 .. 2 : Determinant(r) * Circle[i][d] \in Ints
      BY DEF Fits, Ints
  <2> HIDE DEF r
  <2>3. \A i \in 1 .. 3 : PanelPlace(r[i], matrix) = Circle[i]
      BY <2>1, <2>2, CirclesAreThree, MatrixSolves
  <2> QED
      BY <2>3 DEF r
<1>2. MeasuredInv /\ [TouchNext]_touchVars => MeasuredInv'
    BY StepMeasures
<1> QED
    BY <1>1, <1>2, InitMeasured, PTL DEF TouchSpec

-----------------------------------------------------------------------------
(* The dataflash driver.  Types, whose turn it is, and what the chip and   *)
(* the bus are doing in each state of the request that has the bus.        *)

Func == {"start", "transfer", "read_done", "write_buffered", "write_buffered_wait",
         "write_done", "write_wait_begin", "write_wait"}

BlockRequest == [func : Func, lba : Nat, remaining_blocks : Int, operation : {"read", "write"},
                 sleeping : BOOLEAN, buf_list : Seq(Buffer),
                 status : {"ok", "in_progress"}, bytes_xfered : Nat]

DfTypeOK ==
    /\ breq \in [Req -> BlockRequest]
    /\ transfer_pos \in Nat /\ current_buf_list \in Seq(Buffer)
    /\ given \in [Req -> [first : Nat, count : 0 .. MaxLen, bufs : Nat]] /\ lent \in SUBSET Buffer
    /\ queues \in [{Main, Bus} -> Seq(Task)] /\ current \in Client \cup {NULL}
    /\ cmdrsp \in BOOLEAN /\ data \in [Buffer -> Value] /\ chip \in Chip

OnMain == Range(queues[Main])
OnBus == Range(queues[Bus])

Lists == {"write_list", "read_list"}

Asleep(t) == t \in Req /\ breq[t].sleeping

\* Whose turn it is: the master's, while a transfer is in progress, or the owner's.
Turns ==
    /\ IsInjective(queues[Main]) /\ IsInjective(queues[Bus])
    /\ OnBus \subseteq Req \ {current}
    /\ OnMain \subseteq {current, EVENT} \cup MasterTask
    /\ current = NULL => queues[Bus] = << >> /\ ~ Busy
    /\ OnMain \cap MasterTask # {} <=> Busy
    /\ ~ MasterTask \subseteq OnMain
    /\ "poll_next_buffer" \in OnMain => spi.op \in Lists
    /\ current # NULL => (current \in OnMain <=> ~ Busy /\ ~ Asleep(current))
    /\ \A r \in Req :
        /\ ~ Done(r) <=> r = current \/ r \in OnBus
        /\ r \in OnBus => breq[r].func = "start"
        /\ breq[r].sleeping => r = current /\ breq[r].func = "transfer" /\ ~ Busy

Rests(nx, s, c) == nx = NULL /\ s = NoTransfer /\ ~ c.selected /\ Ready(c)

Status == [op |-> "status", page |-> 0, pos |-> 0]

\* Command k is on its way, or the chip has taken it.
Ordered(s, c, k) ==
    /\ c.selected
    /\ \/ s = Write(k) /\ c.cmd = "none"
       \/ s = NoTransfer /\ c.cmd = k.op /\ c.page = k.page /\ c.pos = k.pos

\* The response is on its way, or has come and is true.
Answered(s, rdy, c) == s = Read \/ (s = NoTransfer /\ (rdy => Ready(c)))

Identifying(nx, s, rdy, c) ==
    \/ nx = NULL /\ s = NoTransfer /\ ~ c.selected /\ c.cmd = "none"
    \/ nx = "identify_fetch_status" /\ Ordered(s, c, Status)
    \/ /\ nx = "identify_got_status"
       /\ c.selected /\ c.cmd = "status" /\ Answered(s, rdy, c)
    \/ /\ nx = "identify_fetch_id" /\ Ready(c)
       /\ Ordered(s, c, [op |-> "id", page |-> 0, pos |-> 0])
    \/ nx = "identify_got_id" /\ Ready(c) /\ c.selected /\ c.cmd = "id" /\ s \in {Read, NoTransfer}

Polling(nx, s, rdy, c) ==
    \/ nx = "wait_poll_cmd_done" /\ Ordered(s, c, Status)
    \/ nx = "wait_poll_done" /\ c.selected /\ c.cmd = "status" /\ Answered(s, rdy, c)

\* Blocks are moved, or nothing is.
Moving(b, s, c) ==
    /\ c.selected /\ c.cmd = (IF b.operation = "read" THEN "read" ELSE "buffer_write")
    /\ \/ s = NoTransfer
       \/ s.op \in Lists /\ s = (IF b.operation = "read" THEN ReadList(s.left) ELSE WriteList(s.left))

end_pos(b) == dataflash_get_remaining_page_size(b)

Phase(b, nx, s, rdy, c, tp) ==
    \/ b.func = "start" /\ Rests(nx, s, c)
    \/ /\ b.func = "transfer" /\ nx = NULL /\ Ready(c) /\ tp < end_pos(b)
       /\ \/ Moving(b, s, c)
          \/ /\ tp = 0
             /\ Ordered(s, c, IF b.operation = "read"
                              THEN [op |-> "read", page |-> PageOf(b), pos |-> PosOf(b)]
                              ELSE [op |-> "buffer_write", page |-> 0, pos |-> PosOf(b)])
    \/ /\ b.func \in {"read_done", "write_done"} /\ nx = NULL /\ Ready(c) /\ tp = end_pos(b)
       /\ Moving(b, s, c) /\ (b.func = "read_done" <=> b.operation = "read")
    \/ /\ b.func = "write_buffered" /\ nx = NULL /\ Ready(c) /\ tp = 0 /\ b.operation = "write"
       /\ Ordered(s, c, [op |-> "load", page |-> PageOf(b), pos |-> 0])
    \/ /\ b.func = "write_buffered_wait" /\ Polling(nx, s, rdy, c) /\ tp = 0 /\ b.operation = "write"
       /\ c.work \in {Idle, [op |-> "load", page |-> PageOf(b)]}
    \/ /\ b.func = "write_wait_begin" /\ nx = NULL /\ Ready(c) /\ tp = end_pos(b) /\ b.operation = "write"
       /\ Ordered(s, c, [op |-> "program", page |-> PageOf(b), pos |-> 0])
    \/ /\ b.func = "write_wait" /\ Polling(nx, s, rdy, c) /\ tp = end_pos(b) /\ b.operation = "write"
       /\ c.work \in {Idle, [op |-> "program", page |-> PageOf(b)]}

Phases ==
    /\ current = NULL => Rests(next, spi, chip)
    /\ current = DETECT => Identifying(next, spi, cmdrsp, chip) /\ chip.work \in {Idle, [op |-> "load", page |-> 0]}
    /\ \A r \in Req : current = r => Phase(breq[r], next, spi, cmdrsp, chip, transfer_pos)

\* A list in progress is one of buffers, and not at its end.
ListFits == spi.op \in Lists => spi.left \in Seq(Buffer) /\ spi.left # << >>

CInv == DfTypeOK /\ Turns /\ Phases /\ ListFits

-----------------------------------------------------------------------------
Taken(r) == breq[r].bytes_xfered + (IF breq[r].func = "start" THEN 0 ELSE transfer_pos)

\* Every block is counted, and every buffer is where its block is.
Counted(r) ==
    LET b == breq[r]  g == given[r]
    IN  /\ g.count \in 1 .. MaxLen /\ g.first + g.count - 1 \in Block
        /\ b.lba = g.first + b.bytes_xfered
        /\ b.remaining_blocks = g.count - b.bytes_xfered /\ b.remaining_blocks > 0
        /\ Taken(r) <= g.bufs /\ g.bufs <= g.count
        /\ b.buf_list = Bufs(r, Taken(r), g.bufs)
        /\ b.func = "start" => b.bytes_xfered = 0
        /\ b.operation = "write" => \A i \in 1 .. g.bufs : data[<<r, i>>] = <<r, i>>

Lent ==
    \A buf \in lent :
        /\ ~ Done(buf[1]) /\ buf[2] <= given[buf[1]].bufs
        /\ buf[2] > Taken(buf[1]) \/ buf \in Range(current_buf_list)

\* Buffers of the list that is being transferred which the master has not dealt with.
Left == IF spi.op \in Lists
        THEN Len(spi.left) - (IF "poll_next_buffer" \in OnMain THEN 1 ELSE 0) ELSE 0

Moved == transfer_pos - Left

\* What is in the chip's buffer: the blocks moved, and the rest of the page if it
\* is to be kept.
PageBuffered(r) ==
    LET b == breq[r]
    IN  /\ \A i \in 0 .. Moved - 1 : chip.buffer[PosOf(b) + i] = <<r, b.bytes_xfered + i + 1>>
        /\ ~ dataflash_is_page_aligned(b) =>
            \A o \in {0, 1} \ (PosOf(b) .. PosOf(b) + Moved - 1) :
                chip.buffer[o] = chip.flash[2 * PageOf(b) + o]

\* The list in progress holds the buffers of the blocks last taken.
ListTaken(r) ==
    spi.op \in Lists =>
        /\ Len(spi.left) \in 1 .. transfer_pos
        /\ spi.left = Bufs(r, Taken(r) - Len(spi.left), Taken(r))

Transferred(r, n) == \A i \in 1 .. n : data[<<r, i>>] = chip.flash[given[r].first + i - 1]

\* How many of r's blocks are the same in their buffer and in the flash.
Sure(r) ==
    LET b == breq[r]
    IN  IF b.operation = "read" THEN (IF b.func = "start" THEN 0 ELSE b.bytes_xfered + Moved)
        ELSE IF b.func = "write_wait" /\ Ready(chip) THEN b.bytes_xfered + transfer_pos
        ELSE b.bytes_xfered

\* Blocks are moved from and to the place that is next.
AddressFits(r) ==
    breq[r].func \in {"transfer", "read_done", "write_done"} /\ spi.op # "write" =>
        /\ chip.pos = PosOf(breq[r]) + Moved
        /\ breq[r].operation = "read" => chip.page = PageOf(breq[r])

\* The page is being put together in the chip's buffer, or programmed from it.
InBuffer(r) ==
    \/ breq[r].operation = "write" /\ breq[r].func \in {"transfer", "write_done", "write_wait_begin"}
    \/ breq[r].func = "write_buffered_wait" /\ Ready(chip)
    \/ breq[r].func = "write_wait" /\ ~ Ready(chip)

Owned(r) ==
    /\ breq[r].func = "start" => current_buf_list = << >>
    /\ ListTaken(r) /\ AddressFits(r) /\ Transferred(r, Sure(r))
    /\ InBuffer(r) => PageBuffered(r)

DInv ==
    /\ \A r \in Req : given[r] = NoAsk => Done(r) /\ breq[r].buf_list = << >>
    /\ \A r \in Req : ~ Done(r) => Counted(r)
    /\ Lent
    /\ current \notin Req => current_buf_list = << >>
    /\ \A r \in Req : r = current => Owned(r)

-----------------------------------------------------------------------------
LEMMA Names ==
    /\ NULL \notin Task /\ Client \subseteq Task /\ MasterTask \subseteq Task /\ EVENT \in Task
    /\ Client = Req \cup {DETECT} /\ DETECT \notin Req /\ EVENT \notin Client
    /\ Client \cap MasterTask = {} /\ EVENT \notin MasterTask
    /\ MasterTask = {"poll", "poll_next_buffer"} /\ Main # Bus
    /\ NULL # "identify_fetch_status" /\ NULL # "identify_got_status" /\ NULL # "identify_fetch_id"
    /\ NULL # "identify_got_id" /\ NULL # "wait_poll_cmd_done" /\ NULL # "wait_poll_done"
BY DataflashAssumption DEF At45Step, Task, MasterTask, DETECT, EVENT, Main, Bus

-----------------------------------------------------------------------------
(* Queues without repetitions.                                             *)

LEMMA RangeOfAppend ==
    ASSUME NEW S, NEW s \in Seq(S), NEW x \in S
    PROVE  /\ Append(s, x) \in Seq(S)
           /\ Range(Append(s, x)) = Range(s) \cup {x}
           /\ IsInjective(s) /\ x \notin Range(s) => IsInjective(Append(s, x))
<1>1. /\ Append(s, x) \in Seq(S) /\ Len(Append(s, x)) = Len(s) + 1
      /\ \A i \in 1 .. Len(s) : Append(s, x)[i] = s[i]
      /\ Append(s, x)[Len(s) + 1] = x
  BY AppendProperties
<1>2. /\ DOMAIN s = 1 .. Len(s) /\ DOMAIN Append(s, x) = 1 .. Len(s) + 1 /\ Len(s) \in Nat
  BY <1>1, LenProperties
<1>3. DOMAIN Append(s, x) = DOMAIN s \cup {Len(s) + 1}
  BY <1>2
<1>4. Range(Append(s, x)) = Range(s) \cup {x}
  BY <1>1, <1>2, <1>3 DEF Range
<1>5. ASSUME IsInjective(s), x \notin Range(s) PROVE IsInjective(Append(s, x))
  BY <1>1, <1>2, <1>3, <1>5 DEF Range, IsInjective
<1>6. QED
  BY <1>1, <1>4, <1>5

LEMMA RangeOfTail ==
    ASSUME NEW S, NEW s \in Seq(S), s # << >>, IsInjective(s)
    PROVE  /\ Tail(s) \in Seq(S) /\ Head(s) \in S /\ Head(s) \in Range(s)
           /\ Range(Tail(s)) = Range(s) \ {Head(s)} /\ IsInjective(Tail(s))
<1>1. /\ Tail(s) \in Seq(S) /\ Head(s) \in S /\ Len(Tail(s)) = Len(s) - 1 /\ Head(s) = s[1]
      /\ \A i \in 1 .. Len(Tail(s)) : Tail(s)[i] = s[i + 1]
  BY HeadTailProperties
<1>2. /\ DOMAIN s = 1 .. Len(s) /\ DOMAIN Tail(s) = 1 .. Len(s) - 1 /\ Len(s) \in Nat /\ Len(s) > 0
  BY <1>1, LenProperties, EmptySeq
<1>3. Range(s) = {s[i] : i \in 1 .. Len(s)} /\ Range(Tail(s)) = {s[i + 1] : i \in 1 .. Len(s) - 1}
  BY <1>1, <1>2 DEF Range
<1>4. \A i, j \in 1 .. Len(s) : s[i] = s[j] => i = j
  BY <1>2 DEF IsInjective
<1>5. IsInjective(Tail(s))
  BY <1>1, <1>2, <1>4 DEF IsInjective
<1>6. Range(Tail(s)) \subseteq Range(s) \ {Head(s)}
  BY <1>1, <1>2, <1>3, <1>4
<1>7. ASSUME NEW i \in 1 .. Len(s), s[i] # s[1] PROVE s[i] \in Range(Tail(s))
  <2>1. i - 1 \in 1 .. Len(s) - 1 /\ s[i] = s[(i - 1) + 1]
    BY <1>2, <1>7
  <2>2. QED
    BY <1>3, <2>1
<1>8. QED
  BY <1>1, <1>2, <1>3, <1>5, <1>6, <1>7

Queues == [{Main, Bus} -> Seq(Task)]

Proper(qs) == qs \in Queues /\ IsInjective(qs[Main]) /\ IsInjective(qs[Bus])

LEMMA AddedTask ==
    ASSUME NEW qs, Proper(qs), NEW t \in Task, t \notin Range(qs[Main]), t \notin Range(qs[Bus])
    PROVE  /\ Proper(Added(qs, t)) /\ Added(qs, t)[Bus] = qs[Bus]
           /\ Range(Added(qs, t)[Main]) = Range(qs[Main]) \cup {t}
<1>1. Added(qs, t) = [qs EXCEPT ![Main] = Append(@, t)]
  BY Names DEF Added, TQ!Enqueued, TQ!Queued, TQ!Range, Range
<1>2. /\ Append(qs[Main], t) \in Seq(Task) /\ IsInjective(Append(qs[Main], t))
      /\ Range(Append(qs[Main], t)) = Range(qs[Main]) \cup {t}
  BY RangeOfAppend DEF Proper, Queues
<1>3. QED
  BY <1>1, <1>2, Names DEF Proper, Queues

LEMMA PoppedTask ==
    ASSUME Proper(queues), NEW t, Runs(t)
    PROVE  /\ t \in OnMain /\ Proper(Popped) /\ Popped[Bus] = queues[Bus]
           /\ Range(Popped[Main]) = OnMain \ {t}
<1>1. /\ Tail(queues[Main]) \in Seq(Task) /\ IsInjective(Tail(queues[Main])) /\ t \in Range(queues[Main])
      /\ Range(Tail(queues[Main])) = Range(queues[Main]) \ {t}
  BY RangeOfTail DEF Proper, Queues, Runs
<1>2. QED
  BY <1>1, Names DEF Proper, Queues, Popped, OnMain

LEMMA ReleasedTask ==
    ASSUME NEW qs, Proper(qs), qs[Bus] # << >>, Head(qs[Bus]) \notin Range(qs[Main])
    PROVE  /\ Head(qs[Bus]) \in Range(qs[Bus])
           /\ Proper(Released(qs)) /\ Range(Released(qs)[Bus]) = Range(qs[Bus]) \ {Head(qs[Bus])}
           /\ Range(Released(qs)[Main]) = Range(qs[Main]) \cup {Head(qs[Bus])}
<1> DEFINE t == Head(qs[Bus])
           ps == [qs EXCEPT ![Bus] = Tail(@)]
<1>1. /\ Tail(qs[Bus]) \in Seq(Task) /\ IsInjective(Tail(qs[Bus])) /\ t \in Range(qs[Bus]) /\ t \in Task
      /\ Range(Tail(qs[Bus])) = Range(qs[Bus]) \ {t}
  BY RangeOfTail DEF Proper, Queues
<1>2. /\ Proper(ps) /\ ps[Main] = qs[Main] /\ ps[Bus] = Tail(qs[Bus])
      /\ t \notin Range(ps[Main]) /\ t \notin Range(ps[Bus])
  BY <1>1, Names DEF Proper, Queues
<1>3. Released(qs) = Added(ps, t)
  BY DEF Released, NextOwner
<1> HIDE DEF ps, t
<1>4. /\ Proper(Added(ps, t)) /\ Added(ps, t)[Bus] = ps[Bus]
      /\ Range(Added(ps, t)[Main]) = Range(ps[Main]) \cup {t}
  BY <1>1, <1>2, AddedTask
<1>5. QED
  BY <1>1, <1>2, <1>3, <1>4 DEF t

-----------------------------------------------------------------------------
(* Turns.                                                                  *)

LEMMA ItsTurn ==
    ASSUME DfTypeOK, Turns, NEW t \in Client, Runs(t)
    PROVE  /\ current = t /\ ~ Busy /\ ~ Asleep(t) /\ Proper(queues) /\ Proper(Popped)
           /\ Popped[Bus] = queues[Bus] /\ Range(Popped[Main]) = OnMain \ {t}
           /\ OnMain \cap MasterTask = {}
<1>1. Proper(queues)
  BY DEF DfTypeOK, Turns, Proper, Queues
<1>2. /\ t \in OnMain /\ Proper(Popped) /\ Popped[Bus] = queues[Bus]
      /\ Range(Popped[Main]) = OnMain \ {t}
  BY <1>1, PoppedTask
<1>3. current = t /\ current # NULL
  BY <1>2, Names DEF Turns
<1>4. QED
  BY <1>1, <1>2, <1>3 DEF Turns

LEMMA MastersTurn ==
    ASSUME DfTypeOK, Turns, NEW t \in MasterTask, Runs(t)
    PROVE  /\ current \in Client /\ Busy /\ Proper(queues) /\ Proper(Popped) /\ current \notin OnMain
           /\ current \notin OnBus /\ ~ Asleep(current)
           /\ Popped[Bus] = queues[Bus] /\ Range(Popped[Main]) = OnMain \ {t}
           /\ OnMain \cap MasterTask = {t} /\ (t = "poll_next_buffer" => spi.op \in Lists)
<1>1. Proper(queues)
  BY DEF DfTypeOK, Turns, Proper, Queues
<1>2. /\ t \in OnMain /\ Proper(Popped) /\ Popped[Bus] = queues[Bus]
      /\ Range(Popped[Main]) = OnMain \ {t}
  BY <1>1, PoppedTask
<1>3. /\ t \in OnMain \cap MasterTask /\ Busy /\ current # NULL
      /\ (t = "poll_next_buffer" => spi.op \in Lists) /\ ~ MasterTask \subseteq OnMain
  BY <1>2, Names DEF Turns
<1>31. OnMain \cap MasterTask = {t}
  BY <1>3, Names
<1>4. current \in Client
  BY <1>3 DEF DfTypeOK
<1>5. QED
  BY <1>1, <1>2, <1>3, <1>31, <1>4 DEF Turns, Asleep

\* Nothing that Turns says of requests changes, except for the owner's.
OnlyOwner(t) ==
    /\ breq' \in [Req -> BlockRequest]
    /\ \A r \in Req : r # t => breq'[r] = breq[r]

LEMMA OwnerStarts ==
    ASSUME DfTypeOK, Turns, NEW t \in Client, Runs(t), OnlyOwner(t),
           t \in Req => breq'[t].status = breq[t].status /\ ~ breq'[t].sleeping,
           queues' = Added(Popped, "poll"), current' = current, spi'.op # "none"
    PROVE  Turns' /\ current = t /\ queues' \in Queues
<1>1. /\ current = t /\ ~ Busy /\ ~ Asleep(t) /\ Proper(queues) /\ Proper(Popped)
      /\ Popped[Bus] = queues[Bus] /\ Range(Popped[Main]) = OnMain \ {t}
      /\ OnMain \cap MasterTask = {}
  BY ItsTurn
<1>2. "poll" \in Task /\ "poll" \notin Range(Popped[Main]) /\ "poll" \notin Range(Popped[Bus])
  BY <1>1, Names DEF Turns, OnBus
<1>3. /\ Proper(queues') /\ queues'[Bus] = queues[Bus] /\ OnMain' = (OnMain \ {t}) \cup {"poll"}
  BY <1>1, <1>2, AddedTask DEF OnMain
<1>4. OnBus' = OnBus
  BY <1>3 DEF OnBus
<1>5. OnMain' \cap MasterTask = {"poll"} /\ t \notin OnMain'
  BY <1>1, <1>3, Names
<1>6. \A r \in Req :
        /\ ~ Done(r)' <=> r = current' \/ r \in OnBus'
        /\ r \in OnBus' => breq'[r].func = "start"
        /\ ~ breq'[r].sleeping
  <2> TAKE r \in Req
  <2>1. CASE r = t
    BY <1>1, <1>4, <2>1 DEF Turns, OnlyOwner, Done
  <2>2. CASE r # t
    BY <1>1, <1>4, <2>2 DEF Turns, OnlyOwner, Done
  <2>3. QED
    BY <2>1, <2>2
<1>7. Busy' /\ current # NULL
  BY <1>1, Names DEF Busy
<1>8. OnBus' \subseteq Req \ {current'} /\ OnMain' \subseteq {current', EVENT} \cup MasterTask
  BY <1>3, <1>4, Names DEF Turns
<1>9. ~ MasterTask \subseteq OnMain' /\ ~ ("poll_next_buffer" \in OnMain')
  BY <1>5, Names
<1>10. IsInjective(queues'[Main]) /\ IsInjective(queues'[Bus]) /\ queues' \in Queues
  BY <1>3 DEF Proper
<1>11. Turns'
  BY <1>1, <1>5, <1>6, <1>7, <1>8, <1>9, <1>10 DEF Turns
<1>12. QED
  BY <1>1, <1>10, <1>11


LEMMA OwnerSleeps ==
    ASSUME DfTypeOK, Turns, NEW t \in Req, Runs(t), OnlyOwner(t),
           breq'[t].status = breq[t].status, breq'[t].func = "transfer", breq'[t].sleeping,
           queues' = Popped, current' = current, spi' = spi
    PROVE  Turns' /\ queues' \in Queues
<1>1. /\ current = t /\ ~ Busy /\ Proper(queues) /\ Proper(Popped)
      /\ Popped[Bus] = queues[Bus] /\ Range(Popped[Main]) = OnMain \ {t}
      /\ OnMain \cap MasterTask = {}
  BY ItsTurn, Names
<1>2. /\ Proper(queues') /\ queues'[Bus] = queues[Bus] /\ OnMain' = OnMain \ {t} /\ OnBus' = OnBus
  BY <1>1 DEF OnMain, OnBus
<1>3. OnMain' \cap MasterTask = {} /\ t \notin OnMain'
  BY <1>1, <1>2
<1>4. \A r \in Req :
        /\ ~ Done(r)' <=> r = current' \/ r \in OnBus'
        /\ r \in OnBus' => breq'[r].func = "start"
        /\ breq'[r].sleeping => r = current' /\ breq'[r].func = "transfer"
  <2> TAKE r \in Req
  <2>1. CASE r = t
    BY <1>1, <1>2, <2>1 DEF Turns, OnlyOwner, Done
  <2>2. CASE r # t
    BY <1>1, <1>2, <2>2 DEF Turns, OnlyOwner, Done
  <2>3. QED
    BY <2>1, <2>2
<1>5. ~ Busy' /\ current # NULL /\ Asleep(current)'
  BY <1>1, Names DEF Busy, Asleep
<1>6. OnBus' \subseteq Req \ {current'} /\ OnMain' \subseteq {current', EVENT} \cup MasterTask
  BY <1>2 DEF Turns
<1>7. ~ MasterTask \subseteq OnMain' /\ ~ ("poll_next_buffer" \in OnMain')
  BY <1>3, Names
<1>8. IsInjective(queues'[Main]) /\ IsInjective(queues'[Bus]) /\ queues' \in Queues
  BY <1>2 DEF Proper
<1>9. Turns'
  BY <1>1, <1>3, <1>4, <1>5, <1>6, <1>7, <1>8 DEF Turns
<1>10. QED
  BY <1>8, <1>9

LEMMA OnBusEmpty ==
    ASSUME NEW s \in Seq(Task)
    PROVE  s = << >> <=> Range(s) = {}
<1>1. CASE s = << >>
  <2>1. DOMAIN s = {}
    BY <1>1, EmptySeq
  <2>2. QED
    BY <1>1, <2>1 DEF Range
<1>2. CASE s # << >>
  <2>1. 1 \in DOMAIN s
    BY <1>2, EmptySeq, LenProperties
  <2>2. QED
    BY <1>2, <2>1 DEF Range
<1>3. QED
  BY <1>1, <1>2

LEMMA EventAdded ==
    ASSUME NEW qs, Proper(qs), EVENT \notin Range(qs[Bus]), NEW qt, qt \in {qs, Added(qs, EVENT)}
    PROVE  /\ Proper(qt) /\ qt[Bus] = qs[Bus]
           /\ Range(qs[Main]) \subseteq Range(qt[Main]) /\ Range(qt[Main]) \subseteq Range(qs[Main]) \cup {EVENT}
<1>1. CASE EVENT \in Range(qs[Main])
  <2>1. Added(qs, EVENT) = qs
    BY <1>1, Names DEF Added, TQ!Enqueued, TQ!Queued, TQ!Range, Range
  <2>2. QED
    BY <2>1
<1>2. CASE EVENT \notin Range(qs[Main])
  <2>1. /\ Proper(Added(qs, EVENT)) /\ Added(qs, EVENT)[Bus] = qs[Bus]
        /\ Range(Added(qs, EVENT)[Main]) = Range(qs[Main]) \cup {EVENT}
    BY <1>2, Names, AddedTask
  <2>2. QED
    BY <2>1
<1>3. QED
  BY <1>1, <1>2

LEMMA OwnerReleases ==
    ASSUME DfTypeOK, Turns, NEW t \in Client, Runs(t), OnlyOwner(t),
           t \in Req => breq'[t].status = "ok" /\ ~ breq'[t].sleeping,
           queues' \in {Released(Popped), Added(Released(Popped), EVENT)}, current' = NextOwner, spi' = spi
    PROVE  /\ Turns' /\ queues' \in Queues /\ current' \in Req \cup {NULL}
           /\ \A r \in Req : current' = r => breq'[r] = breq[r] /\ breq[r].func = "start"
<1>1. /\ current = t /\ ~ Busy /\ Proper(queues) /\ Proper(Popped)
      /\ Popped[Bus] = queues[Bus] /\ Range(Popped[Main]) = OnMain \ {t}
      /\ OnMain \cap MasterTask = {}
  BY ItsTurn
<1> DEFINE qs == Released(Popped)
<1>2. queues[Bus] \in Seq(Task) /\ (queues[Bus] = << >> <=> OnBus = {})
  BY <1>1, Names, OnBusEmpty DEF Proper, Queues, OnBus
<1>3. /\ Proper(qs) /\ EVENT \notin Range(qs[Bus])
      /\ \/ OnBus = {} /\ current' = NULL /\ Range(qs[Bus]) = {} /\ Range(qs[Main]) = OnMain \ {t}
         \/ /\ current' \in OnBus /\ Range(qs[Bus]) = OnBus \ {current'}
            /\ Range(qs[Main]) = (OnMain \ {t}) \cup {current'}
  <2>1. CASE OnBus = {}
    <3>1. Released(Popped) = Popped /\ current' = NULL
      BY <1>1, <1>2, <2>1 DEF Released, NextOwner
    <3>2. QED
      BY <1>1, <2>1, <3>1 DEF OnBus
  <2>2. CASE OnBus # {}
    <3> DEFINE h == Head(queues[Bus])
    <3>1. h \in OnBus /\ h = current'
      BY <1>1, <1>2, <2>2, RangeOfTail DEF Proper, NextOwner, OnBus
    <3>2. h \in Req /\ h # t
      BY <1>1, <3>1 DEF Turns
    <3>3. h \notin Range(Popped[Main])
      BY <1>1, <3>2, Names DEF Turns
    <3>4. /\ Proper(Released(Popped)) /\ Range(Released(Popped)[Bus]) = Range(Popped[Bus]) \ {h}
          /\ Range(Released(Popped)[Main]) = Range(Popped[Main]) \cup {h}
      BY <1>1, <1>2, <2>2, <3>3, ReleasedTask
    <3>5. EVENT \notin OnBus
      BY Names DEF Turns
    <3>6. QED
      BY <1>1, <3>1, <3>4, <3>5 DEF OnBus
  <2>3. QED
    BY <2>1, <2>2
<1>4. /\ Proper(queues') /\ queues'[Bus] = qs[Bus]
      /\ Range(qs[Main]) \subseteq OnMain' /\ OnMain' \subseteq Range(qs[Main]) \cup {EVENT}
  <2> HIDE DEF qs
  <2>1. queues' \in {qs, Added(qs, EVENT)}
    BY DEF qs
  <2>2. QED
    BY <1>3, <2>1, EventAdded DEF OnMain
<1> HIDE DEF qs
<1>5. OnBus' = OnBus \ {current'} /\ OnBus \subseteq Req \ {t} /\ OnMain \subseteq {t, EVENT}
  BY <1>1, <1>3, <1>4 DEF Turns, OnBus
<1>6. /\ current' \in Req \cup {NULL} /\ current' # t /\ current' \notin MasterTask
      /\ (current' # NULL => current' \in OnBus /\ current' \in OnMain')
  BY <1>3, <1>4, <1>5, Names
<1>7. OnMain' \subseteq {current', EVENT}
  BY <1>3, <1>4, <1>5
<1>8. \A r \in Req :
        /\ ~ Done(r)' <=> r = current' \/ r \in OnBus'
        /\ r \in OnBus' => breq'[r].func = "start"
        /\ ~ breq'[r].sleeping
        /\ r = current' => breq'[r] = breq[r] /\ breq[r].func = "start"
  <2> TAKE r \in Req
  <2>1. CASE r = t
    BY <1>1, <1>5, <1>6, <2>1 DEF Done
  <2>2. CASE r # t
    <3>1. /\ breq'[r] = breq[r] /\ (~ Done(r)' <=> ~ Done(r)) /\ (~ Done(r) <=> r \in OnBus)
          /\ ~ breq[r].sleeping /\ (r \in OnBus => breq[r].func = "start")
      BY <1>1, <2>2 DEF Turns, OnlyOwner, Done
    <3>2. r # NULL
      BY Names
    <3>3. QED
      BY <1>5, <1>6, <3>1, <3>2
  <2>3. QED
    BY <2>1, <2>2
<1>9. ~ Busy'
  BY <1>1 DEF Busy
<1>10. OnMain' \cap MasterTask = {} /\ "poll_next_buffer" \notin OnMain' /\ ~ MasterTask \subseteq OnMain'
  BY <1>6, <1>7, Names
<1>11. IsInjective(queues'[Main]) /\ IsInjective(queues'[Bus]) /\ queues' \in Queues
  BY <1>4 DEF Proper
<1>12. current' = NULL => queues'[Bus] = << >>
  <2>1. queues'[Bus] \in Seq(Task)
    BY <1>11, Names DEF Queues
  <2>2. SUFFICES ASSUME current' = NULL PROVE OnBus' = {}
    BY <2>1, OnBusEmpty DEF OnBus
  <2>3. QED
    BY <1>3, <1>5, <2>2, Names
<1>13. ~ Asleep(current)'
  BY <1>6, <1>8 DEF Asleep
<1>14. Turns'
  BY <1>5, <1>6, <1>7, <1>8, <1>9, <1>10, <1>11, <1>12, <1>13 DEF Turns
<1>15. QED
  BY <1>6, <1>8, <1>11, <1>14


LEMMA MasterEnds ==
    ASSUME DfTypeOK, Turns, NEW t \in MasterTask, Runs(t), breq' = breq,
           queues' = Added(Popped, current), current' = current, spi'.op = "none"
    PROVE  Turns' /\ queues' \in Queues
<1>1. /\ current \in Client /\ Busy /\ Proper(Popped) /\ current \notin OnMain
      /\ current \notin OnBus /\ ~ Asleep(current)
      /\ Popped[Bus] = queues[Bus] /\ Range(Popped[Main]) = OnMain \ {t}
      /\ OnMain \cap MasterTask = {t}
  BY MastersTurn
<1>2. current \notin Range(Popped[Main]) /\ current \notin Range(Popped[Bus]) /\ current \in Task
  BY <1>1, Names DEF OnBus
<1>3. Proper(queues') /\ queues'[Bus] = queues[Bus] /\ OnMain' = (OnMain \ {t}) \cup {current}
  BY <1>1, <1>2, AddedTask DEF OnMain
<1>4. OnBus' = OnBus /\ ~ Busy' /\ ~ Asleep(current)' /\ current # NULL
  BY <1>1, <1>3, Names DEF OnBus, Busy, Asleep
<1>5. OnMain' \cap MasterTask = {} /\ "poll_next_buffer" \notin OnMain' /\ ~ MasterTask \subseteq OnMain'
  BY <1>1, <1>3, Names
<1>6. /\ OnBus' \subseteq Req \ {current'} /\ OnMain' \subseteq {current', EVENT} \cup MasterTask
      /\ current' \in OnMain'
  BY <1>3, <1>4 DEF Turns
<1>7. \A r \in Req :
        /\ ~ Done(r)' <=> r = current' \/ r \in OnBus'
        /\ r \in OnBus' => breq'[r].func = "start"
        /\ breq'[r].sleeping => r = current' /\ breq'[r].func = "transfer"
  BY <1>4 DEF Turns, Done
<1>8. IsInjective(queues'[Main]) /\ IsInjective(queues'[Bus]) /\ queues' \in Queues
  BY <1>3 DEF Proper
<1>9. Turns'
  BY <1>4, <1>5, <1>6, <1>7, <1>8 DEF Turns
<1>10. QED
  BY <1>8, <1>9

LEMMA MasterGoesOn ==
    ASSUME DfTypeOK, Turns, NEW t \in MasterTask, Runs(t), breq' = breq,
           NEW u \in MasterTask, queues' = Added(Popped, u), current' = current, spi'.op \in Lists
    PROVE  Turns' /\ queues' \in Queues /\ ("poll_next_buffer" \in OnMain' <=> u = "poll_next_buffer")
<1>1. /\ current \in Client /\ Busy /\ Proper(Popped) /\ current \notin OnMain
      /\ current \notin OnBus /\ ~ Asleep(current)
      /\ Popped[Bus] = queues[Bus] /\ Range(Popped[Main]) = OnMain \ {t}
      /\ OnMain \cap MasterTask = {t}
  BY MastersTurn
<1>2. u \notin Range(Popped[Main]) /\ u \notin Range(Popped[Bus]) /\ u \in Task
  BY <1>1, Names DEF OnBus, Turns
<1>3. Proper(queues') /\ queues'[Bus] = queues[Bus] /\ OnMain' = (OnMain \ {t}) \cup {u}
  BY <1>1, <1>2, AddedTask DEF OnMain
<1>4. OnBus' = OnBus /\ Busy' /\ current # NULL
  BY <1>1, <1>3, Names DEF OnBus, Busy, Lists
<1>5. OnMain' \cap MasterTask = {u} /\ ~ MasterTask \subseteq OnMain' /\ current' \notin OnMain'
  BY <1>1, <1>3, Names
<1>6. /\ OnBus' \subseteq Req \ {current'} /\ OnMain' \subseteq {current', EVENT} \cup MasterTask
  BY <1>3, <1>4 DEF Turns
<1>7. \A r \in Req :
        /\ ~ Done(r)' <=> r = current' \/ r \in OnBus'
        /\ r \in OnBus' => breq'[r].func = "start"
        /\ ~ breq'[r].sleeping
  BY <1>1, <1>4 DEF Turns, Done
<1>8. IsInjective(queues'[Main]) /\ IsInjective(queues'[Bus]) /\ queues' \in Queues
  BY <1>3 DEF Proper
<1>9. Turns'
  BY <1>4, <1>5, <1>6, <1>7, <1>8 DEF Turns
<1>10. QED
  BY <1>5, <1>8, <1>9, Names

LEMMA EventTurns ==
    ASSUME DfTypeOK, Turns, Runs(EVENT), breq' = breq, queues' = Popped, current' = current, spi' = spi
    PROVE  Turns' /\ queues' \in Queues /\ ("poll_next_buffer" \in OnMain' <=> "poll_next_buffer" \in OnMain)
<1>1. Proper(queues)
  BY DEF DfTypeOK, Turns, Proper, Queues
<1>2. /\ Proper(Popped) /\ Popped[Bus] = queues[Bus] /\ Range(Popped[Main]) = OnMain \ {EVENT}
  BY <1>1, PoppedTask
<1>3. Proper(queues') /\ queues'[Bus] = queues[Bus] /\ OnMain' = OnMain \ {EVENT} /\ OnBus' = OnBus
  BY <1>2 DEF OnMain, OnBus
<1>4. /\ OnMain' \cap MasterTask = OnMain \cap MasterTask /\ (MasterTask \subseteq OnMain' => MasterTask \subseteq OnMain)
      /\ ("poll_next_buffer" \in OnMain' <=> "poll_next_buffer" \in OnMain)
      /\ (current # NULL => (current \in OnMain' <=> current \in OnMain))
  BY <1>3, Names DEF DfTypeOK
<1>5. /\ Busy' = Busy /\ Asleep(current)' = Asleep(current)
      /\ \A r \in Req : Done(r)' = Done(r)
  BY DEF Busy, Asleep, Done
<1>6. IsInjective(queues'[Main]) /\ IsInjective(queues'[Bus]) /\ queues' \in Queues
  BY <1>3 DEF Proper
<1>7. Turns'
  BY <1>3, <1>4, <1>5, <1>6 DEF Turns
<1>8. QED
  BY <1>4, <1>6, <1>7

LEMMA RequestTurns ==
    ASSUME DfTypeOK, Turns, NEW r \in Req, Done(r), RequestBus(r), OnlyOwner(r), spi' = spi,
           breq'[r].status = "in_progress", breq'[r].func = "start", ~ breq'[r].sleeping
    PROVE  /\ Turns' /\ queues' \in Queues /\ ("poll_next_buffer" \in OnMain' <=> "poll_next_buffer" \in OnMain)
           /\ current' = (IF current = NULL THEN r ELSE current)
<1>1. Proper(queues) /\ r \in Task /\ r # NULL /\ r \notin MasterTask \cup {EVENT} /\ r # current /\ r \notin OnBus
  BY Names DEF DfTypeOK, Turns, Proper, Queues
<1>2. r \notin OnMain
  BY <1>1 DEF Turns
<1>3. \A t \in Req : t # r => breq'[t] = breq[t]
  BY DEF OnlyOwner
<1>4. CASE current = NULL
  <2>1. queues' = Added(queues, r) /\ current' = r
    BY <1>4 DEF RequestBus
  <2>2. /\ Proper(queues') /\ queues'[Bus] = queues[Bus] /\ OnMain' = OnMain \cup {r} /\ OnBus' = OnBus
    BY <1>1, <1>2, <2>1, AddedTask DEF OnMain, OnBus
  <2>3. OnBus = {} /\ queues[Bus] = << >> /\ ~ Busy /\ OnMain \subseteq {EVENT}
    <3>1. queues[Bus] = << >> /\ queues[Bus] \in Seq(Task) /\ ~ Busy
      BY <1>1, <1>4, Names DEF Turns, Proper, Queues
    <3>2. OnBus = {}
      BY <3>1, OnBusEmpty DEF OnBus
    <3>3. NULL \notin OnMain
      BY <1>1, Names DEF Proper, Queues, OnMain, Range
    <3>4. QED
      BY <1>4, <3>1, <3>2, <3>3 DEF Turns
  <2>4. \A t \in Req :
          /\ ~ Done(t)' <=> t = current' \/ t \in OnBus'
          /\ ~ breq'[t].sleeping
    BY <1>3, <1>4, <2>1, <2>2, <2>3, Names DEF Turns, Done
  <2>5. /\ OnMain' \cap MasterTask = {} /\ "poll_next_buffer" \notin OnMain' /\ ~ MasterTask \subseteq OnMain'
        /\ OnMain' \subseteq {current', EVENT} /\ r \in OnMain' /\ ~ Busy' /\ ~ Asleep(current)'
    BY <1>1, <2>1, <2>2, <2>3, <2>4, Names DEF Busy, Asleep
  <2>6. IsInjective(queues'[Main]) /\ IsInjective(queues'[Bus]) /\ queues' \in Queues
    BY <2>2 DEF Proper
  <2>7. Turns'
    BY <1>1, <2>1, <2>2, <2>3, <2>4, <2>5, <2>6 DEF Turns
  <2>8. QED
    BY <1>4, <2>1, <2>3, <2>5, <2>6, <2>7, Names
<1>5. CASE current # NULL
  <2>1. queues' = [queues EXCEPT ![Bus] = Append(@, r)] /\ current' = current
    BY <1>1, <1>2, <1>5, Names DEF RequestBus, TQ!Enqueued, TQ!Queued, TQ!Range, Range, OnMain, OnBus
  <2>2. /\ Proper(queues') /\ queues'[Main] = queues[Main] /\ OnMain' = OnMain /\ OnBus' = OnBus \cup {r}
    <3>1. /\ Append(queues[Bus], r) \in Seq(Task) /\ IsInjective(Append(queues[Bus], r))
          /\ Range(Append(queues[Bus], r)) = OnBus \cup {r}
      BY <1>1, RangeOfAppend DEF Proper, Queues, OnBus
    <3>2. QED
      BY <1>1, <2>1, <3>1, Names DEF Proper, Queues, OnMain, OnBus
  <2>3. /\ Busy' = Busy /\ Asleep(current)' = Asleep(current)
    BY <1>1, <1>3, <2>1 DEF Busy, Asleep
  <2>4. \A t \in Req :
          /\ ~ Done(t)' <=> t = current' \/ t \in OnBus'
          /\ t \in OnBus' => breq'[t].func = "start"
          /\ breq'[t].sleeping => t = current' /\ breq'[t].func = "transfer" /\ ~ Busy
    <3> TAKE t \in Req
    <3>1. CASE t = r
      BY <2>2, <3>1 DEF Done
    <3>2. CASE t # r
      BY <1>3, <2>1, <2>2, <3>2 DEF Turns, Done
    <3>3. QED
      BY <3>1, <3>2
  <2>5. IsInjective(queues'[Main]) /\ IsInjective(queues'[Bus]) /\ queues' \in Queues
    BY <2>2 DEF Proper
  <2>6. OnBus' \subseteq Req \ {current'}
    BY <1>1, <2>1, <2>2 DEF Turns
  <2>7. Turns'
    BY <1>5, <2>1, <2>2, <2>3, <2>4, <2>5, <2>6 DEF Turns
  <2>8. QED
    BY <1>5, <2>1, <2>2, <2>5, <2>7
<1>6. QED
  BY <1>4, <1>5

LEMMA SupplyTurns ==
    ASSUME DfTypeOK, Turns, NEW r \in Req, ~ Done(r), OnlyOwner(r), spi' = spi, current' = current,
           breq'[r].status = breq[r].status, breq'[r].func = breq[r].func, ~ breq'[r].sleeping,
           queues' = IF breq[r].sleeping THEN Added(queues, r) ELSE queues
    PROVE  /\ Turns' /\ queues' \in Queues /\ ("poll_next_buffer" \in OnMain' <=> "poll_next_buffer" \in OnMain)
<1>1. Proper(queues) /\ r \in Task /\ r # NULL /\ r \notin MasterTask \cup {EVENT}
  BY Names DEF DfTypeOK, Turns, Proper, Queues
<1>2. /\ Proper(queues') /\ queues'[Bus] = queues[Bus] /\ OnBus' = OnBus
      /\ OnMain' = IF breq[r].sleeping THEN OnMain \cup {r} ELSE OnMain
  <2>1. CASE breq[r].sleeping
    <3>1. r = current /\ r \notin OnMain /\ r \notin OnBus
      BY <1>1, <2>1 DEF Turns, Asleep
    <3>2. QED
      BY <1>1, <2>1, <3>1, AddedTask DEF OnMain, OnBus
  <2>2. CASE ~ breq[r].sleeping
    BY <1>1, <2>2 DEF OnMain, OnBus
  <2>3. QED
    BY <2>1, <2>2
<1>3. \A t \in Req :
        /\ ~ Done(t)' <=> t = current' \/ t \in OnBus'
        /\ t \in OnBus' => breq'[t].func = "start"
        /\ breq'[t].sleeping => t # r /\ breq[t].sleeping /\ t = current' /\ breq'[t].func = "transfer" /\ ~ Busy
  <2> TAKE t \in Req
  <2>1. CASE t = r
    BY <1>2, <2>1 DEF Turns, Done
  <2>2. CASE t # r
    BY <1>2, <2>2 DEF Turns, OnlyOwner, Done
  <2>3. QED
    BY <2>1, <2>2
<1>4. /\ Busy' = Busy /\ OnMain' \cap MasterTask = OnMain \cap MasterTask
      /\ ("poll_next_buffer" \in OnMain' <=> "poll_next_buffer" \in OnMain)
      /\ (MasterTask \subseteq OnMain' => MasterTask \subseteq OnMain)
      /\ OnBus' \subseteq Req \ {current'} /\ OnMain' \subseteq {current', EVENT} \cup MasterTask
      /\ (current = NULL => queues'[Bus] = << >> /\ ~ Busy)
  BY <1>1, <1>2, Names DEF Turns, Busy
<1>5. current # NULL => (current' \in OnMain' <=> ~ Busy' /\ ~ Asleep(current)')
  <2>1. CASE breq[r].sleeping
    <3>1. r = current /\ ~ Busy /\ r \in OnMain'
      BY <1>2, <2>1 DEF Turns
    <3>2. QED
      BY <1>4, <3>1 DEF Asleep
  <2>2. CASE ~ breq[r].sleeping
    <3>1. Asleep(current)' = Asleep(current)
      BY <2>2 DEF Asleep, OnlyOwner
    <3>2. QED
      BY <1>2, <1>4, <2>2, <3>1 DEF Turns
  <2>3. QED
    BY <2>1, <2>2
<1>6. IsInjective(queues'[Main]) /\ IsInjective(queues'[Bus]) /\ queues' \in Queues
  BY <1>2 DEF Proper
<1>7. Turns'
  BY <1>3, <1>4, <1>5, <1>6 DEF Turns
<1>8. QED
  BY <1>4, <1>6, <1>7


-----------------------------------------------------------------------------
(* The chip.                                                               *)

Commands == {"status", "id", "read", "buffer_write", "load", "program"}

SameMemory(c, d) == d.work = c.work /\ d.buffer = c.buffer /\ d.flash = c.flash

LEMMA ChipSelected ==
    ASSUME NEW c \in Chip, ~ c.selected
    PROVE  /\ Selected(c) \in Chip /\ Selected(c).selected /\ Selected(c).cmd = "none"
           /\ SameMemory(c, Selected(c))
BY DEF Chip, Selected, SameMemory

LEMMA ChipDeselected ==
    ASSUME NEW c \in Chip
    PROVE  /\ Deselected(c) \in Chip /\ ~ Deselected(c).selected /\ Deselected(c).cmd = "none"
           /\ Deselected(c).buffer = c.buffer /\ Deselected(c).flash = c.flash
           /\ c.cmd \notin {"load", "program"} => Deselected(c).work = c.work
           /\ c.cmd \in {"load", "program"} => Deselected(c).work = [op |-> c.cmd, page |-> c.page]
<1> DEFINE w == IF c.cmd \in {"load", "program"} THEN [op |-> c.cmd, page |-> c.page] ELSE c.work
<1>1. w \in [op : {"none", "load", "program"}, page : Nat]
  BY DEF Chip
<1>2. Deselected(c) = [c EXCEPT !.selected = FALSE, !.cmd = "none", !.work = w]
  BY DEF Deselected, Chip
<1> HIDE DEF w
<1>3. /\ Deselected(c) \in Chip /\ ~ Deselected(c).selected /\ Deselected(c).cmd = "none"
      /\ Deselected(c).buffer = c.buffer /\ Deselected(c).flash = c.flash /\ Deselected(c).work = w
  BY <1>1, <1>2 DEF Chip
<1>4. QED
  BY <1>3 DEF w

Order == [op : Commands, page : Nat, pos : Nat]

LEMMA CommandTaken ==
    ASSUME NEW c \in Chip, NEW k \in Order, Ordered(Write(k), c, k), Ready(c) \/ k.op = "status"
    PROVE  /\ Commanded(c, k) \in Chip /\ Ordered(NoTransfer, Commanded(c, k), k)
           /\ SameMemory(c, Commanded(c, k))
<1>1. c.selected /\ c.cmd = "none"
  <2>1. Write(k) # NoTransfer
    BY DEF Write, NoTransfer
  <2>2. QED
    BY <2>1 DEF Ordered
<1>2. Commanded(c, k) = [c EXCEPT !.cmd = k.op, !.page = k.page, !.pos = k.pos]
  BY <1>1 DEF Commanded, Ready
<1>3. QED
  BY <1>1, <1>2 DEF Chip, Order, Commands, Ordered, SameMemory

LEMMA Remainder ==
    ASSUME NEW a \in Nat, NEW n \in Nat \ {0}
    PROVE  a % n \in 0 .. n - 1
OBVIOUS

LEMMA Sizes ==
    /\ Pages \in Nat \ {0} /\ PageBlocks \in Nat \ {0} /\ Pages * PageBlocks \in Nat \ {0}
    /\ \A p \in 0 .. Pages - 1, o \in 0 .. PageBlocks - 1 : p * PageBlocks + o \in Block
<1>1. Pages \in Nat \ {0} /\ PageBlocks \in Nat \ {0}
  BY ChipAssumption
<1>2. Pages * PageBlocks \in Nat \ {0}
  BY <1>1
<1>3. ASSUME NEW p \in 0 .. Pages - 1, NEW o \in 0 .. PageBlocks - 1
      PROVE  p * PageBlocks + o \in Block
  <2>1. (Pages - 1 - p) * PageBlocks >= 0
    BY <1>1
  <2>2. (Pages - 1 - p) * PageBlocks = Pages * PageBlocks - PageBlocks - p * PageBlocks
    BY <1>1
  <2>3. p * PageBlocks \in Nat
    BY <1>1
  <2>4. QED
    BY <1>1, <1>2, <2>1, <2>2, <2>3 DEF Block
<1>4. QED
  BY <1>1, <1>2, <1>3

LEMMA BlockMoved ==
    ASSUME NEW c \in Chip, NEW v \in Value
    PROVE  /\ Written(c, v) \in Chip /\ Written(c, v).selected = c.selected /\ Written(c, v).cmd = c.cmd
           /\ Written(c, v).work = c.work /\ Written(c, v).flash = c.flash
           /\ c.cmd = "buffer_write" => /\ Written(c, v).pos = c.pos + 1
                                        /\ Written(c, v).buffer = [c.buffer EXCEPT ![c.pos % PageBlocks] = v]
           /\ BlockRead(c) \in Chip /\ SameMemory(c, BlockRead(c))
           /\ BlockRead(c).selected = c.selected /\ BlockRead(c).cmd = c.cmd
           /\ BlockRead(c).pos = c.pos + 1 /\ BlockRead(c).page = c.page
           /\ BlockOut(c, v) \in Value
<1>2. /\ BlockRead(c) \in Chip /\ SameMemory(c, BlockRead(c))
      /\ BlockRead(c).selected = c.selected /\ BlockRead(c).cmd = c.cmd
      /\ BlockRead(c).pos = c.pos + 1 /\ BlockRead(c).page = c.page
  BY DEF BlockRead, Chip, SameMemory
<1>3. BlockOut(c, v) \in Value
  <2>1. c.page * PageBlocks + c.pos \in Nat
    BY Sizes DEF Chip
  <2>2. (c.page * PageBlocks + c.pos) % (Pages * PageBlocks) \in Block
    BY <2>1, Sizes, Remainder DEF Block
  <2>3. QED
    BY <2>2 DEF BlockOut, Chip
<1>1. CASE c.cmd = "buffer_write"
  <2> DEFINE u == [c.buffer EXCEPT ![c.pos % PageBlocks] = v]
  <2>1. Written(c, v) = [c EXCEPT !.buffer = u, !.pos = c.pos + 1]
    BY <1>1 DEF Written, Chip
  <2>2. u \in [0 .. PageBlocks - 1 -> Value]
    BY DEF Chip
  <2> HIDE DEF u
  <2> DEFINE x == [c EXCEPT !.buffer = u]
  <2>21. /\ x \in Chip /\ x.selected = c.selected /\ x.cmd = c.cmd /\ x.pos = c.pos
         /\ x.work = c.work /\ x.flash = c.flash /\ x.buffer = u
    BY <2>2 DEF Chip
  <2>22. Written(c, v) = [x EXCEPT !.pos = c.pos + 1]
    BY <2>1, <2>2 DEF Chip
  <2> HIDE DEF x
  <2>23. c.pos + 1 \in Nat
    BY DEF Chip
  <2>3. /\ Written(c, v) \in Chip /\ Written(c, v).selected = c.selected /\ Written(c, v).cmd = c.cmd
        /\ Written(c, v).work = c.work /\ Written(c, v).flash = c.flash
        /\ Written(c, v).pos = c.pos + 1 /\ Written(c, v).buffer = u
    BY <2>21, <2>22, <2>23 DEF Chip
  <2>4. QED
    BY <2>3, <1>2, <1>3 DEF u
<1>4. CASE c.cmd # "buffer_write"
  BY <1>2, <1>3, <1>4 DEF Written
<1>5. QED
  BY <1>1, <1>4

LEMMA ChipFinished ==
    ASSUME NEW c \in Chip, ~ Ready(c)
    PROVE  /\ Finished(c) \in Chip /\ Finished(c).selected = c.selected /\ Finished(c).cmd = c.cmd
           /\ Finished(c).page = c.page /\ Finished(c).pos = c.pos /\ Ready(Finished(c))
           /\ c.work.op = "load" => /\ Finished(c).flash = c.flash
                                    /\ Finished(c).buffer = [i \in 0 .. PageBlocks - 1 |->
                                            c.flash[(c.work.page % Pages) * PageBlocks + i]]
           /\ c.work.op # "load" => /\ Finished(c).buffer = c.buffer
                                    /\ Finished(c).flash = [b \in Block |->
                                            IF b \div PageBlocks = c.work.page % Pages
                                            THEN c.buffer[b % PageBlocks] ELSE c.flash[b]]
<1> DEFINE base == (c.work.page % Pages) * PageBlocks
           u == [i \in 0 .. PageBlocks - 1 |-> c.flash[base + i]]
           f == [b \in Block |-> IF b \div PageBlocks = c.work.page % Pages
                                 THEN c.buffer[b % PageBlocks] ELSE c.flash[b]]
<1>1. Idle \in [op : {"none", "load", "program"}, page : Nat]
  BY DEF Idle
<1>2. CASE c.work.op = "load"
  <2>1. c.work.page % Pages \in 0 .. Pages - 1
    BY Sizes, Remainder DEF Chip
  <2>2. \A i \in 0 .. PageBlocks - 1 : base + i \in Block
    BY <2>1, Sizes
  <2>3. u \in [0 .. PageBlocks - 1 -> Value]
    BY <2>2 DEF Chip
  <2>4. Finished(c) = [c EXCEPT !.work = Idle, !.buffer = u]
    BY <1>2 DEF Finished, Chip
  <2>5. u = [i \in 0 .. PageBlocks - 1 |-> c.flash[(c.work.page % Pages) * PageBlocks + i]]
    OBVIOUS
  <2> HIDE DEF u
  <2>6. /\ Finished(c) \in Chip /\ Finished(c).selected = c.selected /\ Finished(c).cmd = c.cmd
        /\ Finished(c).page = c.page /\ Finished(c).pos = c.pos /\ Finished(c).work = Idle
        /\ Finished(c).flash = c.flash /\ Finished(c).buffer = u
    BY <1>1, <2>3, <2>4 DEF Chip
  <2>7. QED
    BY <1>2, <2>5, <2>6 DEF Ready
<1>3. CASE c.work.op # "load"
  <2>1. \A b \in Block : b % PageBlocks \in 0 .. PageBlocks - 1
    BY Sizes, Remainder DEF Block
  <2>2. f \in [Block -> Value]
    BY <2>1 DEF Chip
  <2>3. Finished(c) = [c EXCEPT !.work = Idle, !.flash = f]
    BY <1>3 DEF Finished, Chip
  <2>4. f = [b \in Block |-> IF b \div PageBlocks = c.work.page % Pages
                             THEN c.buffer[b % PageBlocks] ELSE c.flash[b]]
    OBVIOUS
  <2> HIDE DEF f
  <2>6. /\ Finished(c) \in Chip /\ Finished(c).selected = c.selected /\ Finished(c).cmd = c.cmd
        /\ Finished(c).page = c.page /\ Finished(c).pos = c.pos /\ Finished(c).work = Idle
        /\ Finished(c).buffer = c.buffer /\ Finished(c).flash = f
    BY <1>1, <2>2, <2>3 DEF Chip
  <2>7. QED
    BY <1>3, <2>4, <2>6 DEF Ready
<1>4. QED
  BY <1>2, <1>3


-----------------------------------------------------------------------------
(* What the master and the chip do to the phases.                          *)

LEMMA Transfers ==
    /\ \A k : Write(k).op = "write" /\ Write(k).cmd = k /\ Write(k) # NoTransfer /\ Write(k) # Read
    /\ Read.op = "read" /\ Read # NoTransfer /\ NoTransfer.op = "none"
    /\ \A l : /\ ReadList(l).op = "read_list" /\ ReadList(l).left = l
              /\ WriteList(l).op = "write_list" /\ WriteList(l).left = l
    /\ "write" \notin Lists /\ "read" \notin Lists /\ "none" \notin Lists
    /\ Lists = {"write_list", "read_list"}
BY DEF Write, Read, NoTransfer, ReadList, WriteList, Lists

LEMMA Positions ==
    ASSUME NEW b \in BlockRequest
    PROVE  /\ PageOf(b) \in Nat /\ PosOf(b) \in {0, 1} /\ b.lba = 2 * PageOf(b) + PosOf(b)
           /\ end_pos(b) \in {1, 2}
BY DEF BlockRequest, PageOf, PosOf, end_pos, dataflash_get_remaining_page_size

\* The commands that are given.
LEMMA Orders ==
    ASSUME NEW b \in BlockRequest
    PROVE  /\ Status \in Order /\ Status.op = "status"
           /\ [op |-> "id", page |-> 0, pos |-> 0] \in Order
           /\ [op |-> "read", page |-> PageOf(b), pos |-> PosOf(b)] \in Order
           /\ [op |-> "buffer_write", page |-> 0, pos |-> PosOf(b)] \in Order
           /\ [op |-> "load", page |-> PageOf(b), pos |-> 0] \in Order
           /\ [op |-> "program", page |-> PageOf(b), pos |-> 0] \in Order
BY Positions DEF Status, Order, Commands


LEMMA DueOrder ==
    ASSUME NEW c \in Chip, NEW s, s.op = "write", NEW k \in Order, Ordered(s, c, k),
           Ready(c) \/ k.op = "status"
    PROVE  /\ s = Write(k) /\ s.cmd = k /\ Commanded(c, k) \in Chip
           /\ Ordered(NoTransfer, Commanded(c, k), k) /\ SameMemory(c, Commanded(c, k))
<1>1. s = Write(k)
  BY Transfers DEF Ordered
<1>2. QED
  BY <1>1, CommandTaken, Transfers

LEMMA PollingCommanded ==
    ASSUME NEW c \in Chip, NEW s, s.op = "write", NEW nx, NEW rdy, Polling(nx, s, rdy, c)
    PROVE  /\ Polling(nx, NoTransfer, rdy, Commanded(c, s.cmd)) /\ Commanded(c, s.cmd) \in Chip
           /\ SameMemory(c, Commanded(c, s.cmd))
<1>1. nx = "wait_poll_cmd_done" /\ Ordered(s, c, Status)
  BY Transfers DEF Polling, Answered
<1>2. Status \in Order /\ Status.op = "status"
  BY DEF Status, Order, Commands
<1>3. QED
  BY <1>1, <1>2, DueOrder DEF Polling

PhaseFits(b, nx, s, rdy, c, tp) == b \in BlockRequest /\ c \in Chip /\ Phase(b, nx, s, rdy, c, tp)

LEMMA PhaseCommanded ==
    ASSUME NEW b, NEW nx, NEW s, NEW rdy, NEW c, NEW tp,
           PhaseFits(b, nx, s, rdy, c, tp), s.op = "write"
    PROVE  PhaseFits(b, nx, NoTransfer, rdy, Commanded(c, s.cmd), tp) /\ SameMemory(c, Commanded(c, s.cmd))
<1>0. b \in BlockRequest /\ c \in Chip /\ Phase(b, nx, s, rdy, c, tp)
  BY DEF PhaseFits
<1>1. s # NoTransfer /\ s.op \notin Lists
  BY Transfers
<1>2. CASE /\ b.func = "transfer" /\ nx = NULL /\ Ready(c) /\ tp < end_pos(b)
           /\ \/ Moving(b, s, c)
              \/ /\ tp = 0
                 /\ Ordered(s, c, IF b.operation = "read"
                                  THEN [op |-> "read", page |-> PageOf(b), pos |-> PosOf(b)]
                                  ELSE [op |-> "buffer_write", page |-> 0, pos |-> PosOf(b)])
  <2> DEFINE k == IF b.operation = "read"
                  THEN [op |-> "read", page |-> PageOf(b), pos |-> PosOf(b)]
                  ELSE [op |-> "buffer_write", page |-> 0, pos |-> PosOf(b)]
  <2>1. tp = 0 /\ Ordered(s, c, k)
    BY <1>1, <1>2 DEF Moving
  <2>2. k \in Order
    BY <1>0, Orders
  <2> HIDE DEF k
  <2>3. /\ s.cmd = k /\ Commanded(c, k) \in Chip
        /\ Ordered(NoTransfer, Commanded(c, k), k) /\ SameMemory(c, Commanded(c, k))
    BY <1>0, <1>2, <2>1, <2>2, DueOrder
  <2>4. Phase(b, nx, NoTransfer, rdy, Commanded(c, k), tp)
    BY <1>2, <2>1, <2>3 DEF Phase, Ready, SameMemory, k
  <2>5. QED
    BY <1>0, <2>3, <2>4 DEF PhaseFits
<1>3. CASE /\ b.func = "write_buffered" /\ nx = NULL /\ Ready(c) /\ tp = 0 /\ b.operation = "write"
           /\ Ordered(s, c, [op |-> "load", page |-> PageOf(b), pos |-> 0])
  <2> DEFINE k == [op |-> "load", page |-> PageOf(b), pos |-> 0]
  <2>1. k \in Order
    BY <1>0, Orders
  <2>2. Ordered(s, c, k)
    BY <1>3
  <2> HIDE DEF k
  <2>3. /\ s.cmd = k /\ Commanded(c, k) \in Chip
        /\ Ordered(NoTransfer, Commanded(c, k), k) /\ SameMemory(c, Commanded(c, k))
    BY <1>0, <1>3, <2>1, <2>2, DueOrder
  <2>4. Phase(b, nx, NoTransfer, rdy, Commanded(c, k), tp)
    BY <1>3, <2>3 DEF Phase, Ready, SameMemory, k
  <2>5. QED
    BY <1>0, <2>3, <2>4 DEF PhaseFits
<1>4. CASE /\ b.func = "write_wait_begin" /\ nx = NULL /\ Ready(c) /\ tp = end_pos(b) /\ b.operation = "write"
           /\ Ordered(s, c, [op |-> "program", page |-> PageOf(b), pos |-> 0])
  <2> DEFINE k == [op |-> "program", page |-> PageOf(b), pos |-> 0]
  <2>1. k \in Order
    BY <1>0, Orders
  <2>2. Ordered(s, c, k)
    BY <1>4
  <2> HIDE DEF k
  <2>3. /\ s.cmd = k /\ Commanded(c, k) \in Chip
        /\ Ordered(NoTransfer, Commanded(c, k), k) /\ SameMemory(c, Commanded(c, k))
    BY <1>0, <1>4, <2>1, <2>2, DueOrder
  <2>4. Phase(b, nx, NoTransfer, rdy, Commanded(c, k), tp)
    BY <1>4, <2>3 DEF Phase, Ready, SameMemory, k
  <2>5. QED
    BY <1>0, <2>3, <2>4 DEF PhaseFits
<1>5. CASE Polling(nx, s, rdy, c) /\ b.func \in {"write_buffered_wait", "write_wait"}
  <2>1. /\ Polling(nx, NoTransfer, rdy, Commanded(c, s.cmd)) /\ Commanded(c, s.cmd) \in Chip
        /\ SameMemory(c, Commanded(c, s.cmd))
    BY <1>0, <1>5, PollingCommanded
  <2>2. Phase(b, nx, NoTransfer, rdy, Commanded(c, s.cmd), tp)
    BY <1>0, <1>5, <2>1 DEF Phase, SameMemory
  <2>3. QED
    BY <1>0, <2>1, <2>2 DEF PhaseFits
<1>6. QED
  BY <1>0, <1>1, <1>2, <1>3, <1>4, <1>5 DEF Phase, Moving, Rests

LEMMA PhaseAnswered ==
    ASSUME NEW b, NEW nx, NEW s, NEW rdy, NEW c, NEW tp,
           PhaseFits(b, nx, s, rdy, c, tp), s.op = "read"
    PROVE  PhaseFits(b, nx, NoTransfer, Ready(c), c, tp)
<1>1. b \in BlockRequest /\ c \in Chip /\ Phase(b, nx, s, rdy, c, tp)
  BY DEF PhaseFits
<1>2. s # NoTransfer /\ s.op \notin Lists /\ \A k : s # Write(k)
  BY Transfers
<1>3. \A k : ~ Ordered(s, c, k)
  BY <1>2 DEF Ordered
<1>4. b.func \in {"write_buffered_wait", "write_wait"} /\ Polling(nx, s, rdy, c)
  BY <1>1, <1>2, <1>3 DEF Phase, Rests, Moving
<1>5. Polling(nx, NoTransfer, Ready(c), c)
  BY <1>3, <1>4 DEF Polling, Answered
<1>6. QED
  BY <1>1, <1>4, <1>5 DEF Phase, PhaseFits

LEMMA PhaseOfList ==
    ASSUME NEW b, NEW nx, NEW s, NEW rdy, NEW c, NEW tp,
           PhaseFits(b, nx, s, rdy, c, tp), s.op \in Lists
    PROVE  /\ b.func \in {"transfer", "read_done", "write_done"} /\ nx = NULL /\ Ready(c) /\ Moving(b, s, c)
           /\ c.cmd = (IF s.op = "write_list" THEN "buffer_write" ELSE "read")
           /\ b.operation = (IF s.op = "write_list" THEN "write" ELSE "read")
           /\ \A k : ~ Ordered(s, c, k)
<1>1. b \in BlockRequest /\ c \in Chip /\ Phase(b, nx, s, rdy, c, tp)
  BY DEF PhaseFits
<1>2. s # NoTransfer /\ s # Read /\ \A k : s # Write(k)
  BY Transfers
<1>3. \A k : ~ Ordered(s, c, k)
  BY <1>2 DEF Ordered
<1>4. /\ b.func \in {"transfer", "read_done", "write_done"} /\ nx = NULL /\ Ready(c) /\ Moving(b, s, c)
  BY <1>1, <1>2, <1>3 DEF Phase, Rests, Polling, Answered
<1>5. /\ c.cmd = (IF s.op = "write_list" THEN "buffer_write" ELSE "read")
      /\ b.operation = (IF s.op = "write_list" THEN "write" ELSE "read")
  BY <1>1, <1>2, <1>4, Transfers DEF Moving, BlockRequest
<1>6. QED
  BY <1>3, <1>4, <1>5

LEMMA PhaseMoved ==
    ASSUME NEW b, NEW nx, NEW s, NEW rdy, NEW c, NEW tp,
           PhaseFits(b, nx, s, rdy, c, tp), s.op \in Lists,
           NEW s2, s2 = NoTransfer \/ (s2.op = s.op /\ s2 \in {ReadList(s2.left), WriteList(s2.left)}),
           NEW c2 \in Chip, c2.selected = c.selected, c2.cmd = c.cmd, c2.work = c.work
    PROVE  /\ PhaseFits(b, nx, s2, rdy, c2, tp) /\ c.cmd = (IF s.op = "write_list" THEN "buffer_write" ELSE "read")
           /\ b.operation = (IF s.op = "write_list" THEN "write" ELSE "read")
           /\ b.func \in {"transfer", "read_done", "write_done"} /\ Ready(c)
<1>1. b \in BlockRequest /\ c \in Chip /\ Phase(b, nx, s, rdy, c, tp)
  BY DEF PhaseFits
<1>3. \A k : ~ Ordered(s, c, k)
  BY PhaseOfList
<1>4. /\ b.func \in {"transfer", "read_done", "write_done"} /\ nx = NULL /\ Ready(c) /\ Moving(b, s, c)
      /\ c.cmd = (IF s.op = "write_list" THEN "buffer_write" ELSE "read")
      /\ b.operation = (IF s.op = "write_list" THEN "write" ELSE "read")
  BY PhaseOfList
<1>6. Moving(b, s2, c2)
  BY <1>1, <1>4, Transfers DEF Moving, BlockRequest
<1>7. Phase(b, nx, s2, rdy, c2, tp)
  BY <1>1, <1>4, <1>6, <1>3 DEF Phase, Ready, Rests, Polling, Answered
<1>8. QED
  BY <1>1, <1>4, <1>7 DEF PhaseFits

LEMMA PollingFinished ==
    ASSUME NEW c \in Chip, ~ Ready(c), NEW nx, NEW s, NEW rdy, Polling(nx, s, rdy, c)
    PROVE  Polling(nx, s, rdy, Finished(c))
BY ChipFinished DEF Polling, Ordered, Answered

LEMMA PhaseFinished ==
    ASSUME NEW b, NEW nx, NEW s, NEW rdy, NEW c, NEW tp,
           PhaseFits(b, nx, s, rdy, c, tp), ~ Ready(c)
    PROVE  /\ PhaseFits(b, nx, s, rdy, Finished(c), tp)
           /\ \/ b.func = "write_buffered_wait" /\ c.work = [op |-> "load", page |-> PageOf(b)]
              \/ b.func = "write_wait" /\ c.work = [op |-> "program", page |-> PageOf(b)]
<1>1. b \in BlockRequest /\ c \in Chip /\ Phase(b, nx, s, rdy, c, tp)
  BY DEF PhaseFits
<1>2. /\ b.func \in {"write_buffered_wait", "write_wait"} /\ Polling(nx, s, rdy, c)
      /\ \/ b.func = "write_buffered_wait" /\ c.work = [op |-> "load", page |-> PageOf(b)]
         \/ b.func = "write_wait" /\ c.work = [op |-> "program", page |-> PageOf(b)]
  BY <1>1 DEF Phase, Rests, Ready
<1>3. Finished(c) \in Chip /\ Finished(c).work = Idle
  BY <1>1, ChipFinished DEF Ready
<1>4. Polling(nx, s, rdy, Finished(c))
  BY <1>1, <1>2, PollingFinished
<1>5. Phase(b, nx, s, rdy, Finished(c), tp)
  BY <1>1, <1>2, <1>3, <1>4 DEF Phase
<1>6. QED
  BY <1>1, <1>2, <1>3, <1>5 DEF PhaseFits


IdentFits(nx, s, rdy, c) == c \in Chip /\ Identifying(nx, s, rdy, c) /\ c.work \in {Idle, [op |-> "load", page |-> 0]}

LEMMA IdentCommanded ==
    ASSUME NEW nx, NEW s, NEW rdy, NEW c, IdentFits(nx, s, rdy, c), s.op = "write"
    PROVE  IdentFits(nx, NoTransfer, rdy, Commanded(c, s.cmd)) /\ SameMemory(c, Commanded(c, s.cmd))
<1> DEFINE id == [op |-> "id", page |-> 0, pos |-> 0]
<1>1. s # NoTransfer /\ s # Read
  BY Transfers
<1>2. /\ Status \in Order /\ Status.op = "status" /\ id \in Order
  BY DEF Status, Order, Commands
<1>3. CASE nx = "identify_fetch_status" /\ Ordered(s, c, Status)
  <2>1. /\ s.cmd = Status /\ Commanded(c, Status) \in Chip
        /\ Ordered(NoTransfer, Commanded(c, Status), Status) /\ SameMemory(c, Commanded(c, Status))
    BY <1>2, <1>3, DueOrder DEF IdentFits
  <2>2. QED
    BY <1>3, <2>1 DEF IdentFits, Identifying, SameMemory
<1>4. CASE nx = "identify_fetch_id" /\ Ready(c) /\ Ordered(s, c, id)
  <2> HIDE DEF id
  <2>1. /\ s.cmd = id /\ Commanded(c, id) \in Chip
        /\ Ordered(NoTransfer, Commanded(c, id), id) /\ SameMemory(c, Commanded(c, id))
    BY <1>2, <1>4, DueOrder DEF IdentFits
  <2>2. QED
    BY <1>4, <2>1 DEF IdentFits, Identifying, SameMemory, Ready, id
<1>5. QED
  BY <1>1, <1>3, <1>4 DEF IdentFits, Identifying, Answered

LEMMA IdentAnswered ==
    ASSUME NEW nx, NEW s, NEW rdy, NEW c, IdentFits(nx, s, rdy, c), s.op = "read"
    PROVE  IdentFits(nx, NoTransfer, Ready(c), c)
<1>1. s # NoTransfer /\ \A k : ~ Ordered(s, c, k)
  BY Transfers DEF Ordered
<1>2. QED
  BY <1>1 DEF IdentFits, Identifying, Answered

LEMMA IdentNoList ==
    ASSUME NEW nx, NEW s, NEW rdy, NEW c, IdentFits(nx, s, rdy, c)
    PROVE  s.op \notin Lists
BY Transfers DEF IdentFits, Identifying, Answered, Ordered

LEMMA IdentFinished ==
    ASSUME NEW nx, NEW s, NEW rdy, NEW c, IdentFits(nx, s, rdy, c), ~ Ready(c)
    PROVE  IdentFits(nx, s, rdy, Finished(c)) /\ Finished(c).flash = c.flash
<1>1. c \in Chip /\ c.work.op = "load" /\ Identifying(nx, s, rdy, c)
  BY DEF IdentFits, Ready
<1>2. /\ Finished(c) \in Chip /\ Finished(c).selected = c.selected /\ Finished(c).cmd = c.cmd
      /\ Finished(c).page = c.page /\ Finished(c).pos = c.pos /\ Ready(Finished(c))
      /\ Finished(c).flash = c.flash
  BY <1>1, ChipFinished
<1>3. Identifying(nx, s, rdy, Finished(c))
  BY <1>1, <1>2 DEF Identifying, Ordered, Answered
<1>4. QED
  BY <1>2, <1>3 DEF IdentFits, Ready

-----------------------------------------------------------------------------
(* The steps of the owner of the bus.                                      *)

\* The owner has started a transfer, and runs again when it has ended.
GoesOn == queues' = Added(Popped, "poll") /\ current' = current /\ spi'.op # "none" /\ cmdrsp' \in BOOLEAN

LEMMA CommandGiven ==
    ASSUME NEW d \in Chip, NEW op \in Commands, NEW p \in Nat, NEW i \in Nat, ~ d.selected,
           Command(Selected(d), op, p, i)
    PROVE  /\ GoesOn /\ chip' \in Chip /\ SameMemory(d, chip') /\ spi' = Write([op |-> op, page |-> p, pos |-> i])
           /\ Ordered(spi', chip', [op |-> op, page |-> p, pos |-> i])
<1>1. /\ chip' = Selected(d) /\ spi' = Write([op |-> op, page |-> p, pos |-> i])
      /\ queues' = Added(Popped, "poll") /\ current' = current /\ cmdrsp' = ReadyBitOfOpcode[op]
  BY DEF Command, StartTransfer
<1>2. ReadyBitOfOpcode[op] \in BOOLEAN
  <2>1. CASE op = "status" BY <2>1 DEF ReadyBitOfOpcode
  <2>2. CASE op = "id" BY <2>2 DEF ReadyBitOfOpcode
  <2>3. CASE op = "read" BY <2>3 DEF ReadyBitOfOpcode
  <2>4. CASE op = "load" BY <2>4 DEF ReadyBitOfOpcode
  <2>5. CASE op = "program" BY <2>5 DEF ReadyBitOfOpcode
  <2>6. CASE op = "buffer_write" BY <2>6 DEF ReadyBitOfOpcode
  <2>7. QED BY <2>1, <2>2, <2>3, <2>4, <2>5, <2>6 DEF Commands
<1>3. /\ Selected(d) \in Chip /\ Selected(d).selected /\ Selected(d).cmd = "none"
      /\ SameMemory(d, Selected(d))
  BY ChipSelected
<1>4. QED
  BY <1>1, <1>2, <1>3, Transfers DEF GoesOn, Ordered

LEMMA ResponseRead ==
    ASSUME NEW d \in Chip, ReadResponse(d), cmdrsp \in BOOLEAN
    PROVE  GoesOn /\ chip' = d /\ spi' = Read
BY Transfers DEF ReadResponse, StartTransfer, GoesOn

LEMMA IdentifySteps ==
    ASSUME IdentFits(next, NoTransfer, cmdrsp, chip), IdentifyStep, cmdrsp \in BOOLEAN
    PROVE  GoesOn /\ IdentFits(next', spi', cmdrsp', chip') /\ SameMemory(chip, chip')
<1>0. chip \in Chip /\ Identifying(next, NoTransfer, cmdrsp, chip) /\ chip.work \in {Idle, [op |-> "load", page |-> 0]}
  BY DEF IdentFits
<1>01. \A k : NoTransfer # Write(k) /\ NoTransfer # Read
  BY Transfers
<1>1. CASE /\ next = NULL
           /\ next' = "identify_fetch_status"
           /\ Command(Selected(chip), "status", 0, 0)
  <2>1. ~ chip.selected
    BY <1>0, <1>1, Names DEF Identifying
  <2>2. /\ GoesOn /\ chip' \in Chip /\ SameMemory(chip, chip') /\ Ordered(spi', chip', Status)
    BY <1>0, <1>1, <2>1, CommandGiven DEF Commands, Status
  <2>3. QED
    BY <1>0, <1>1, <2>2 DEF IdentFits, Identifying, SameMemory
<1>2. CASE /\ next \in {"identify_fetch_status", "identify_got_status"}
           /\ next = "identify_got_status" => ~ cmdrsp
           /\ next' = "identify_got_status"
           /\ ReadResponse(chip)
  <2>1. chip.selected /\ chip.cmd = "status"
    BY <1>0, <1>01, Names, <1>2 DEF Identifying, Ordered, Status
  <2>2. GoesOn /\ chip' = chip /\ spi' = Read
    BY <1>0, <1>2, ResponseRead
  <2>3. QED
    BY <1>0, <1>2, <2>1, <2>2 DEF IdentFits, Identifying, Answered, SameMemory
<1>3. CASE /\ next = "identify_got_status" /\ cmdrsp
           /\ next' = "identify_fetch_id"
           /\ Command(Selected(Deselected(chip)), "id", 0, 0)
  <2>1. Ready(chip) /\ chip.cmd = "status"
    BY <1>0, <1>01, Names, <1>3 DEF Identifying, Answered
  <2>2. Deselected(chip) \in Chip /\ ~ Deselected(chip).selected /\ SameMemory(chip, Deselected(chip))
    BY <1>0, <2>1, ChipDeselected DEF SameMemory
  <2>3. /\ GoesOn /\ chip' \in Chip /\ SameMemory(Deselected(chip), chip')
        /\ Ordered(spi', chip', [op |-> "id", page |-> 0, pos |-> 0])
    BY <1>3, <2>2, CommandGiven DEF Commands
  <2>4. QED
    BY <1>0, <1>3, <2>1, <2>2, <2>3 DEF IdentFits, Identifying, SameMemory, Ready
<1>4. CASE /\ next = "identify_fetch_id"
           /\ next' = "identify_got_id"
           /\ ReadResponse(chip)
  <2>1. chip.selected /\ chip.cmd = "id" /\ Ready(chip)
    BY <1>0, <1>01, Names, <1>4 DEF Identifying, Ordered
  <2>2. GoesOn /\ chip' = chip /\ spi' = Read
    BY <1>0, <1>4, ResponseRead
  <2>3. QED
    BY <1>0, <1>4, <2>1, <2>2 DEF IdentFits, Identifying, SameMemory
<1>5. QED
  BY <1>1, <1>2, <1>3, <1>4 DEF IdentifyStep

LEMMA IdentifiedRests ==
    ASSUME IdentFits(next, NoTransfer, cmdrsp, chip), next = "identify_got_id",
           next' = NULL, chip' = Deselected(chip), spi' = NoTransfer
    PROVE  chip' \in Chip /\ Rests(next', spi', chip') /\ chip'.flash = chip.flash
<1>1. chip \in Chip /\ Ready(chip) /\ chip.cmd = "id"
  BY Names DEF IdentFits, Identifying
<1>2. QED
  BY <1>1, ChipDeselected DEF Rests, Ready


\* b is a state of r in the course of a step that does not end it.
InStep(r, b) ==
    /\ DfTypeOK /\ r \in Req /\ b \in BlockRequest
    /\ b.status = breq[r].status /\ ~ b.sleeping

Deselect(d) == d \in Chip /\ ~ d.selected /\ Ready(d)

\* What a request is for, without its work function.
SameBlocks(b, c) ==
    /\ c.lba = b.lba /\ c.remaining_blocks = b.remaining_blocks /\ c.operation = b.operation
    /\ c.sleeping = b.sleeping /\ c.status = b.status /\ c.bytes_xfered = b.bytes_xfered

Going(r) ==
    /\ GoesOn /\ OnlyOwner(r) /\ breq'[r].status = breq[r].status /\ ~ breq'[r].sleeping
    /\ PhaseFits(breq'[r], next', spi', cmdrsp', chip', transfer_pos') /\ transfer_pos' \in Nat

Ending(r) ==
    /\ OnlyOwner(r) /\ breq'[r].status = "ok" /\ ~ breq'[r].sleeping
    /\ queues' = Released(Popped) /\ current' = NextOwner /\ cmdrsp' = cmdrsp
    /\ chip' \in Chip /\ Rests(next', spi', chip') /\ transfer_pos' = transfer_pos

LEMMA BecomesIt ==
    ASSUME NEW r, NEW b, InStep(r, b), NEW func \in Func, Becomes(r, b, func)
    PROVE  /\ OnlyOwner(r) /\ breq'[r] \in BlockRequest /\ SameBlocks(b, breq'[r])
           /\ breq'[r].buf_list = b.buf_list /\ breq'[r].func = func
           /\ breq'[r].status = breq[r].status /\ ~ breq'[r].sleeping
           /\ PageOf(breq'[r]) = PageOf(b) /\ PosOf(breq'[r]) = PosOf(b) /\ end_pos(breq'[r]) = end_pos(b)
<1> DEFINE c == [b EXCEPT !.func = func]
<1>1. breq \in [Req -> BlockRequest] /\ r \in Req /\ b \in BlockRequest
  BY DEF InStep, DfTypeOK
<1>2. c \in BlockRequest /\ SameBlocks(b, c) /\ c.buf_list = b.buf_list /\ c.func = func
  BY <1>1 DEF BlockRequest, SameBlocks
<1>3. breq' = [breq EXCEPT ![r] = c]
  BY DEF Becomes
<1> HIDE DEF c
<1>4. breq'[r] = c /\ OnlyOwner(r)
  BY <1>1, <1>2, <1>3 DEF OnlyOwner
<1>5. PageOf(c) = PageOf(b) /\ PosOf(c) = PosOf(b) /\ end_pos(c) = end_pos(b)
  BY <1>2 DEF SameBlocks, PageOf, PosOf, end_pos, dataflash_get_remaining_page_size
<1>6. QED
  BY <1>2, <1>4, <1>5 DEF SameBlocks, InStep

LEMMA ReadIsSetUp ==
    ASSUME NEW r, NEW b, InStep(r, b), b.operation = "read", NEW d, Deselect(d),
           ReadSetup(r, b, d), next' = NULL
    PROVE  /\ Going(r) /\ SameBlocks(b, breq'[r]) /\ breq'[r].buf_list = b.buf_list
           /\ breq'[r].func = "transfer" /\ SameMemory(d, chip') /\ transfer_pos' = 0 /\ spi'.op = "write"
<1>0. b \in BlockRequest /\ d \in Chip /\ ~ d.selected /\ Ready(d)
  BY DEF InStep, Deselect
<1>1. /\ OnlyOwner(r) /\ breq'[r] \in BlockRequest /\ SameBlocks(b, breq'[r])
      /\ breq'[r].buf_list = b.buf_list /\ breq'[r].func = "transfer"
      /\ breq'[r].status = breq[r].status /\ ~ breq'[r].sleeping
      /\ PageOf(breq'[r]) = PageOf(b) /\ PosOf(breq'[r]) = PosOf(b) /\ end_pos(breq'[r]) = end_pos(b)
  BY BecomesIt DEF ReadSetup, Func
<1>2. PageOf(b) \in Nat /\ PosOf(b) \in Nat /\ end_pos(b) \in {1, 2}
  BY <1>0, Positions
<1>3. Command(Selected(d), "read", PageOf(b), PosOf(b)) /\ transfer_pos' = 0
  BY DEF ReadSetup
<1>4. /\ GoesOn /\ chip' \in Chip /\ SameMemory(d, chip')
      /\ spi' = Write([op |-> "read", page |-> PageOf(b), pos |-> PosOf(b)])
      /\ Ordered(spi', chip', [op |-> "read", page |-> PageOf(b), pos |-> PosOf(b)])
  BY <1>0, <1>2, <1>3, CommandGiven DEF Commands
<1>5. breq'[r].operation = "read" /\ Ready(chip') /\ transfer_pos' < end_pos(breq'[r])
  BY <1>0, <1>1, <1>2, <1>3, <1>4 DEF SameBlocks, Ready, SameMemory
<1>6. Phase(breq'[r], next', spi', cmdrsp', chip', transfer_pos')
  BY <1>1, <1>3, <1>4, <1>5 DEF Phase
<1>7. QED
  BY <1>1, <1>3, <1>4, <1>6, Transfers DEF Going, PhaseFits

LEMMA WriteIsReady ==
    ASSUME NEW r, NEW b, InStep(r, b), b.operation = "write", NEW d, Deselect(d),
           WriteReady(r, b, d), next' = NULL, transfer_pos' = 0
    PROVE  /\ Going(r) /\ SameBlocks(b, breq'[r]) /\ breq'[r].buf_list = b.buf_list
           /\ breq'[r].func = "transfer" /\ SameMemory(d, chip') /\ spi'.op = "write"
<1>0. b \in BlockRequest /\ d \in Chip /\ ~ d.selected /\ Ready(d)
  BY DEF InStep, Deselect
<1>1. /\ OnlyOwner(r) /\ breq'[r] \in BlockRequest /\ SameBlocks(b, breq'[r])
      /\ breq'[r].buf_list = b.buf_list /\ breq'[r].func = "transfer"
      /\ breq'[r].status = breq[r].status /\ ~ breq'[r].sleeping
      /\ PageOf(breq'[r]) = PageOf(b) /\ PosOf(breq'[r]) = PosOf(b) /\ end_pos(breq'[r]) = end_pos(b)
  BY BecomesIt DEF WriteReady, Func
<1>2. PosOf(b) \in Nat /\ end_pos(b) \in {1, 2}
  BY <1>0, Positions
<1>3. Command(Selected(d), "buffer_write", 0, PosOf(b))
  BY DEF WriteReady
<1>4. /\ GoesOn /\ chip' \in Chip /\ SameMemory(d, chip')
      /\ spi' = Write([op |-> "buffer_write", page |-> 0, pos |-> PosOf(b)])
      /\ Ordered(spi', chip', [op |-> "buffer_write", page |-> 0, pos |-> PosOf(b)])
  BY <1>0, <1>2, <1>3, CommandGiven DEF Commands
<1>5. breq'[r].operation = "write" /\ Ready(chip') /\ transfer_pos' < end_pos(breq'[r])
  BY <1>0, <1>1, <1>2, <1>4 DEF SameBlocks, Ready, SameMemory
<1>6. Phase(breq'[r], next', spi', cmdrsp', chip', transfer_pos')
  BY <1>1, <1>4, <1>5 DEF Phase
<1>7. QED
  BY <1>1, <1>4, <1>6, Transfers DEF Going, PhaseFits

LEMMA WriteIsSetUp ==
    ASSUME NEW r, NEW b, InStep(r, b), b.operation = "write", NEW d, Deselect(d),
           WriteSetup(r, b, d), next' = NULL
    PROVE  /\ Going(r) /\ SameBlocks(b, breq'[r]) /\ breq'[r].buf_list = b.buf_list
           /\ breq'[r].func = (IF dataflash_is_page_aligned(b) THEN "transfer" ELSE "write_buffered")
           /\ SameMemory(d, chip') /\ transfer_pos' = 0 /\ spi'.op = "write"
<1>0. b \in BlockRequest /\ d \in Chip /\ ~ d.selected /\ Ready(d) /\ transfer_pos' = 0
  BY DEF InStep, Deselect, WriteSetup
<1>1. CASE dataflash_is_page_aligned(b)
  <2>1. WriteReady(r, b, d)
    BY <1>1 DEF WriteSetup
  <2>2. QED
    BY <1>0, <1>1, <2>1, WriteIsReady
<1>2. CASE ~ dataflash_is_page_aligned(b)
  <2>0. Becomes(r, b, "write_buffered") /\ Command(Selected(d), "load", PageOf(b), 0)
    BY <1>2 DEF WriteSetup
  <2>1. /\ OnlyOwner(r) /\ breq'[r] \in BlockRequest /\ SameBlocks(b, breq'[r])
        /\ breq'[r].buf_list = b.buf_list /\ breq'[r].func = "write_buffered"
        /\ breq'[r].status = breq[r].status /\ ~ breq'[r].sleeping
        /\ PageOf(breq'[r]) = PageOf(b) /\ PosOf(breq'[r]) = PosOf(b) /\ end_pos(breq'[r]) = end_pos(b)
    BY <2>0, BecomesIt DEF Func
  <2>2. PageOf(b) \in Nat
    BY <1>0, Positions
  <2>4. /\ GoesOn /\ chip' \in Chip /\ SameMemory(d, chip')
        /\ spi' = Write([op |-> "load", page |-> PageOf(b), pos |-> 0])
        /\ Ordered(spi', chip', [op |-> "load", page |-> PageOf(b), pos |-> 0])
    BY <1>0, <2>0, <2>2, CommandGiven DEF Commands
  <2>5. breq'[r].operation = "write" /\ Ready(chip')
    BY <1>0, <2>1, <2>4 DEF SameBlocks, Ready, SameMemory
  <2>6. Phase(breq'[r], next', spi', cmdrsp', chip', transfer_pos')
    BY <1>0, <2>1, <2>4, <2>5 DEF Phase
  <2>7. QED
    BY <1>0, <1>2, <2>1, <2>4, <2>6, Transfers DEF Going, PhaseFits
<1>3. QED
  BY <1>1, <1>2

\* What is left of a request whose page is done.
Rest(b) == [b EXCEPT !.bytes_xfered = @ + transfer_pos,
                     !.remaining_blocks = @ - transfer_pos,
                     !.lba = @ + transfer_pos]

LEMMA RestOfRequest ==
    ASSUME NEW b \in BlockRequest, transfer_pos \in Nat
    PROVE  /\ Rest(b) \in BlockRequest /\ Rest(b).func = b.func
           /\ Rest(b).bytes_xfered = b.bytes_xfered + transfer_pos
           /\ Rest(b).remaining_blocks = b.remaining_blocks - transfer_pos
           /\ Rest(b).lba = b.lba + transfer_pos
           /\ Rest(b).operation = b.operation /\ Rest(b).sleeping = b.sleeping
           /\ Rest(b).status = b.status /\ Rest(b).buf_list = b.buf_list
<1> DEFINE x == b.bytes_xfered + transfer_pos
           y == b.remaining_blocks - transfer_pos
           z == b.lba + transfer_pos
<1>1. x \in Nat /\ y \in Int /\ z \in Nat
  BY DEF BlockRequest
<1>2. Rest(b) = [b EXCEPT !.bytes_xfered = x, !.remaining_blocks = y, !.lba = z]
  BY DEF Rest, BlockRequest
<1> HIDE DEF x, y, z
<1>3. /\ Rest(b) \in BlockRequest /\ Rest(b).func = b.func
      /\ Rest(b).bytes_xfered = x /\ Rest(b).remaining_blocks = y /\ Rest(b).lba = z
      /\ Rest(b).operation = b.operation /\ Rest(b).sleeping = b.sleeping
      /\ Rest(b).status = b.status /\ Rest(b).buf_list = b.buf_list
  BY <1>1, <1>2 DEF BlockRequest
<1>4. QED
  BY <1>3 DEF x, y, z

LEMMA PageIsDone ==
    ASSUME NEW r, NEW b, InStep(r, b), NEW d, Deselect(d), PageDone(r, b, d), next' = NULL,
           spi = NoTransfer
    PROVE  /\ lent' = lent \ Range(current_buf_list) /\ current_buf_list' = << >>
           /\ SameMemory(d, chip')
           /\ \/ /\ Rest(b).remaining_blocks # 0 /\ Going(r) /\ transfer_pos' = 0 /\ spi'.op = "write"
                 /\ SameBlocks(Rest(b), breq'[r]) /\ breq'[r].buf_list = b.buf_list
                 /\ breq'[r].func = (IF b.operation = "read" \/ dataflash_is_page_aligned(Rest(b))
                                     THEN "transfer" ELSE "write_buffered")
              \/ /\ Rest(b).remaining_blocks = 0 /\ Ending(r)
                 /\ breq'[r].bytes_xfered = b.bytes_xfered + transfer_pos
<1>0. b \in BlockRequest /\ transfer_pos \in Nat /\ breq \in [Req -> BlockRequest] /\ r \in Req /\ d \in Chip
      /\ b.operation \in {"read", "write"}
  BY DEF InStep, DfTypeOK, Deselect, BlockRequest
<1>1. /\ Rest(b) \in BlockRequest /\ Rest(b).func = b.func
      /\ Rest(b).bytes_xfered = b.bytes_xfered + transfer_pos
      /\ Rest(b).operation = b.operation /\ Rest(b).sleeping = b.sleeping
      /\ Rest(b).status = b.status /\ Rest(b).buf_list = b.buf_list
  BY <1>0, RestOfRequest
<1>2. InStep(r, Rest(b))
  BY <1>1 DEF InStep
<1>3. /\ lent' = lent \ Range(current_buf_list) /\ current_buf_list' = << >>
      /\ IF Rest(b).remaining_blocks # 0
         THEN IF b.operation = "read" THEN ReadSetup(r, Rest(b), d) ELSE WriteSetup(r, Rest(b), d)
         ELSE /\ current' = NextOwner
              /\ queues' = Released(Popped)
              /\ breq' = [breq EXCEPT ![r] = [Rest(b) EXCEPT !.status = "ok"]]
              /\ chip' = d
              /\ UNCHANGED <<transfer_pos, spi, cmdrsp>>
  BY DEF PageDone, HandBack, Rest
<1>4. CASE Rest(b).remaining_blocks # 0 /\ b.operation = "read"
  <2>1. ReadSetup(r, Rest(b), d)
    BY <1>3, <1>4
  <2>2. /\ Going(r) /\ SameBlocks(Rest(b), breq'[r]) /\ breq'[r].buf_list = Rest(b).buf_list
        /\ breq'[r].func = "transfer" /\ SameMemory(d, chip') /\ transfer_pos' = 0 /\ spi'.op = "write"
    BY <1>1, <1>2, <1>4, <2>1, ReadIsSetUp
  <2>3. QED
    BY <1>1, <1>3, <1>4, <2>2
<1>5. CASE Rest(b).remaining_blocks # 0 /\ b.operation = "write"
  <2>1. WriteSetup(r, Rest(b), d)
    BY <1>3, <1>5
  <2>2. /\ Going(r) /\ SameBlocks(Rest(b), breq'[r]) /\ breq'[r].buf_list = Rest(b).buf_list
        /\ breq'[r].func = (IF dataflash_is_page_aligned(Rest(b)) THEN "transfer" ELSE "write_buffered")
        /\ SameMemory(d, chip') /\ transfer_pos' = 0 /\ spi'.op = "write"
    BY <1>1, <1>2, <1>5, <2>1, WriteIsSetUp
  <2>3. QED
    BY <1>1, <1>3, <1>5, <2>2
<1>6. CASE Rest(b).remaining_blocks = 0
  <2> DEFINE e == [Rest(b) EXCEPT !.status = "ok"]
  <2>1. e \in BlockRequest /\ e.status = "ok" /\ e.sleeping = b.sleeping /\ e.bytes_xfered = Rest(b).bytes_xfered
    BY <1>1 DEF BlockRequest
  <2>2. /\ current' = NextOwner /\ queues' = Released(Popped) /\ breq' = [breq EXCEPT ![r] = e]
        /\ chip' = d /\ UNCHANGED <<transfer_pos, spi, cmdrsp>>
    BY <1>3, <1>6
  <2> HIDE DEF e
  <2>3. OnlyOwner(r) /\ breq'[r] = e /\ ~ e.sleeping
    BY <1>0, <2>1, <2>2 DEF OnlyOwner, InStep
  <2>4. Rests(next', spi', chip')
    BY <2>2 DEF Deselect, Rests
  <2>5. Ending(r)
    BY <1>0, <2>1, <2>2, <2>3, <2>4 DEF Ending
  <2>6. QED
    BY <1>1, <1>3, <1>6, <2>1, <2>2, <2>3, <2>5 DEF SameMemory
<1>7. QED
  BY <1>0, <1>4, <1>5, <1>6


LEMMA WaitStarts ==
    ASSUME next = NULL, NEW d \in Chip, ~ d.selected, WaitOn(d)
    PROVE  GoesOn /\ chip' \in Chip /\ Polling(next', spi', cmdrsp', chip') /\ SameMemory(d, chip')
<1>1. next' = "wait_poll_cmd_done" /\ Command(Selected(d), "status", 0, 0)
  BY Names DEF WaitOn, PollStatus
<1>2. /\ GoesOn /\ chip' \in Chip /\ SameMemory(d, chip') /\ Ordered(spi', chip', Status)
  BY <1>1, CommandGiven DEF Commands, Status
<1>3. QED
  BY <1>1, <1>2 DEF Polling

LEMMA WaitGoesOn ==
    ASSUME chip \in Chip, cmdrsp \in BOOLEAN, Polling(next, NoTransfer, cmdrsp, chip), WaitOn(chip)
    PROVE  GoesOn /\ chip' \in Chip /\ Polling(next', spi', cmdrsp', chip') /\ SameMemory(chip, chip')
<1>1. \A k : NoTransfer # Write(k) /\ NoTransfer # Read
  BY Transfers
<1>2. next # NULL /\ chip.selected /\ chip.cmd = "status"
  BY <1>1, Names DEF Polling, Ordered, Status
<1>3. CASE next = "wait_poll_cmd_done" /\ next' = "wait_poll_done" /\ ReadResponse(chip)
  <2>1. GoesOn /\ chip' = chip /\ spi' = Read
    BY <1>3, ResponseRead
  <2>2. QED
    BY <1>2, <1>3, <2>1 DEF Polling, Answered, SameMemory
<1>4. CASE next = "wait_poll_done" /\ ~ cmdrsp /\ PollStatus(Deselected(chip))
  <2>1. Deselected(chip) \in Chip /\ ~ Deselected(chip).selected /\ SameMemory(chip, Deselected(chip))
    BY <1>2, ChipDeselected DEF SameMemory
  <2>2. next' = "wait_poll_cmd_done" /\ Command(Selected(Deselected(chip)), "status", 0, 0)
    BY <1>4 DEF PollStatus
  <2>3. /\ GoesOn /\ chip' \in Chip /\ SameMemory(Deselected(chip), chip') /\ Ordered(spi', chip', Status)
    BY <2>1, <2>2, CommandGiven DEF Commands, Status
  <2>4. QED
    BY <2>1, <2>2, <2>3 DEF Polling, SameMemory
<1>5. QED
  BY <1>2, <1>3, <1>4 DEF WaitOn

LEMMA WaitEnds ==
    ASSUME chip \in Chip, Polling(next, NoTransfer, cmdrsp, chip), WaitIsOver
    PROVE  Deselect(Deselected(chip)) /\ SameMemory(chip, Deselected(chip)) /\ Ready(chip)
<1>1. chip.cmd = "status" /\ Ready(chip)
  BY Transfers DEF Polling, Answered, WaitIsOver
<1>2. QED
  BY <1>1, ChipDeselected DEF SameMemory, Deselect, Ready

OwnersTurn(r) ==
    /\ InStep(r, breq[r]) /\ spi = NoTransfer
    /\ PhaseFits(breq[r], next, spi, cmdrsp, chip, transfer_pos)

LEMMA TurnFacts ==
    ASSUME NEW r, OwnersTurn(r)
    PROVE  /\ InStep(r, breq[r]) /\ spi = NoTransfer /\ breq[r] \in BlockRequest /\ chip \in Chip
           /\ breq[r].operation \in {"read", "write"} /\ cmdrsp \in BOOLEAN /\ transfer_pos \in Nat
           /\ breq[r].func = "start" => Deselect(chip) /\ next = NULL
           /\ breq[r].func \in {"transfer", "read_done", "write_done"} =>
                /\ next = NULL /\ Ready(chip) /\ chip.selected
                /\ chip.cmd = (IF breq[r].operation = "read" THEN "read" ELSE "buffer_write")
           /\ breq[r].func = "transfer" => transfer_pos < end_pos(breq[r])
           /\ breq[r].func = "read_done" => breq[r].operation = "read"
           /\ breq[r].func = "write_done" => breq[r].operation = "write"
           /\ breq[r].func \in {"read_done", "write_done", "write_wait_begin", "write_wait"} =>
                transfer_pos = end_pos(breq[r])
           /\ breq[r].func \in {"write_buffered", "write_buffered_wait"} => transfer_pos = 0
           /\ breq[r].func \in {"write_buffered", "write_buffered_wait", "write_wait_begin", "write_wait"} =>
                breq[r].operation = "write"
           /\ breq[r].func = "write_buffered" =>
                next = NULL /\ Ready(chip) /\ chip.cmd = "load" /\ chip.page = PageOf(breq[r])
           /\ breq[r].func = "write_wait_begin" =>
                next = NULL /\ Ready(chip) /\ chip.cmd = "program" /\ chip.page = PageOf(breq[r])
           /\ breq[r].func \in {"write_buffered_wait", "write_wait"} => Polling(next, NoTransfer, cmdrsp, chip)
           /\ breq[r].func = "write_buffered_wait" => chip.work \in {Idle, [op |-> "load", page |-> PageOf(breq[r])]}
           /\ breq[r].func = "write_wait" => chip.work \in {Idle, [op |-> "program", page |-> PageOf(breq[r])]}
<1>1. /\ InStep(r, breq[r]) /\ spi = NoTransfer /\ breq[r] \in BlockRequest /\ chip \in Chip
      /\ breq[r].operation \in {"read", "write"} /\ cmdrsp \in BOOLEAN /\ transfer_pos \in Nat
      /\ Phase(breq[r], next, NoTransfer, cmdrsp, chip, transfer_pos)
  BY DEF OwnersTurn, InStep, DfTypeOK, BlockRequest, PhaseFits
<1>2. \A k : NoTransfer # Write(k)
  BY Transfers
<1>3. Rests(next, NoTransfer, chip) => Deselect(chip) /\ next = NULL
  BY <1>1 DEF Rests, Deselect
<1>4. \A k : Ordered(NoTransfer, chip, k) => chip.selected /\ chip.cmd = k.op /\ chip.page = k.page
  BY <1>2 DEF Ordered
<1> DEFINE c1 == [op |-> "read", page |-> PageOf(breq[r]), pos |-> PosOf(breq[r])]
           c2 == [op |-> "buffer_write", page |-> 0, pos |-> PosOf(breq[r])]
           c3 == [op |-> "load", page |-> PageOf(breq[r]), pos |-> 0]
           c4 == [op |-> "program", page |-> PageOf(breq[r]), pos |-> 0]
<1>5. /\ Ordered(NoTransfer, chip, c1) => chip.selected /\ chip.cmd = "read"
      /\ Ordered(NoTransfer, chip, c2) => chip.selected /\ chip.cmd = "buffer_write"
      /\ Ordered(NoTransfer, chip, c3) => chip.cmd = "load" /\ chip.page = PageOf(breq[r])
      /\ Ordered(NoTransfer, chip, c4) => chip.cmd = "program" /\ chip.page = PageOf(breq[r])
  BY <1>4
<1>6. Moving(breq[r], NoTransfer, chip) => /\ chip.selected
                                           /\ chip.cmd = (IF breq[r].operation = "read" THEN "read" ELSE "buffer_write")
  BY DEF Moving
<1>7. QED
  BY <1>1, <1>3, <1>5, <1>6 DEF Phase

LEMMA StartStep ==
    ASSUME NEW r, OwnersTurn(r), breq[r].func = "start", next' = next,
           IF breq[r].operation = "read" THEN ReadSetup(r, breq[r], chip) ELSE WriteSetup(r, breq[r], chip)
    PROVE  /\ Going(r) /\ SameBlocks(breq[r], breq'[r]) /\ breq'[r].buf_list = breq[r].buf_list
           /\ breq'[r].func = (IF breq[r].operation = "read" \/ dataflash_is_page_aligned(breq[r])
                               THEN "transfer" ELSE "write_buffered")
           /\ SameMemory(chip, chip') /\ transfer_pos' = 0 /\ spi'.op = "write"
BY TurnFacts, ReadIsSetUp, WriteIsSetUp

LEMMA Smaller ==
    ASSUME NEW m \in Nat, NEW n \in Nat
    PROVE  Min({m, n}) = IF m <= n THEN m ELSE n
BY SMTT(60) DEF Min

\* The buffers that the rest of the page needs, as many as there are.
TakenNow(r) ==
    LET there == Len(breq[r].buf_list)  wanted == end_pos(breq[r]) - transfer_pos
    IN  IF there <= wanted THEN there ELSE wanted

LEMMA BuffersStep ==
    ASSUME NEW r, OwnersTurn(r), breq[r].func = "transfer", next' = next, StartBuffers(r, breq[r])
    PROVE  /\ Going(r) /\ SameBlocks(breq[r], breq'[r]) /\ chip' = chip
           /\ TakenNow(r) \in 1 .. 2 /\ TakenNow(r) <= Len(breq[r].buf_list) /\ Len(breq[r].buf_list) \in Nat
           /\ transfer_pos' = transfer_pos + TakenNow(r)
           /\ breq'[r].buf_list = SubSeq(breq[r].buf_list, TakenNow(r) + 1, Len(breq[r].buf_list))
           /\ current_buf_list' = SubSeq(breq[r].buf_list, 1, TakenNow(r)) /\ current_buf_list' \in Seq(Buffer)
           /\ spi' = (IF breq[r].operation = "read" THEN ReadList(current_buf_list') ELSE WriteList(current_buf_list'))
<1> DEFINE b == breq[r]
           taken == TakenNow(r)
           bufs == SubSeq(b.buf_list, 1, taken)
           left == SubSeq(b.buf_list, taken + 1, Len(b.buf_list))
           func == IF transfer_pos + taken = end_pos(b)
                   THEN (IF b.operation = "read" THEN "read_done" ELSE "write_done") ELSE "transfer"
<1>1. /\ InStep(r, b) /\ spi = NoTransfer /\ b \in BlockRequest /\ chip \in Chip
      /\ b.operation \in {"read", "write"} /\ cmdrsp \in BOOLEAN /\ transfer_pos \in Nat
      /\ next = NULL /\ Ready(chip) /\ chip.selected
      /\ chip.cmd = (IF b.operation = "read" THEN "read" ELSE "buffer_write")
      /\ transfer_pos < end_pos(b)
  BY TurnFacts
<1>2. end_pos(b) \in {1, 2}
  BY <1>1, Positions
<1>3. b.buf_list \in Seq(Buffer) /\ b.buf_list # << >> /\ Len(b.buf_list) \in Nat /\ Len(b.buf_list) > 0
  <2>1. b.buf_list \in Seq(Buffer) /\ b.buf_list # << >>
    BY <1>1 DEF BlockRequest, StartBuffers
  <2>2. QED
    BY <2>1, LenProperties, EmptySeq
<1>4. taken = Min({Len(b.buf_list), end_pos(b) - transfer_pos}) /\ taken \in 1 .. 2 /\ taken <= Len(b.buf_list)
      /\ transfer_pos + taken <= end_pos(b) /\ transfer_pos + taken \in Nat
  <2>1. end_pos(b) - transfer_pos \in Nat /\ end_pos(b) - transfer_pos > 0
    BY <1>1, <1>2
  <2>2. Min({Len(b.buf_list), end_pos(b) - transfer_pos}) =
            IF Len(b.buf_list) <= end_pos(b) - transfer_pos THEN Len(b.buf_list) ELSE end_pos(b) - transfer_pos
    BY <1>3, <2>1, Smaller
  <2>3. taken = IF Len(b.buf_list) <= end_pos(b) - transfer_pos THEN Len(b.buf_list)
                ELSE end_pos(b) - transfer_pos
    BY DEF TakenNow
  <2> DEFINE there == Len(b.buf_list)
             wanted == end_pos(b) - transfer_pos
  <2>4. there \in Nat /\ there > 0 /\ wanted \in 1 .. 2 /\ transfer_pos + wanted = end_pos(b)
    BY <1>1, <1>2, <1>3, <2>1
  <2>5. taken = Min({there, wanted}) /\ taken = IF there <= wanted THEN there ELSE wanted
    BY <2>2, <2>3
  <2> HIDE DEF b, taken, there, wanted
  <2>6. taken \in 1 .. 2 /\ taken <= there /\ taken <= wanted
    BY <2>4, <2>5
  <2>7. transfer_pos + taken <= transfer_pos + wanted /\ transfer_pos + taken \in Nat
    BY <1>1, <2>4, <2>6
  <2>8. QED
    BY <2>4, <2>5, <2>6, <2>7 DEF there, wanted
<1>5. bufs \in Seq(Buffer) /\ left \in Seq(Buffer)
  <2> HIDE DEF b, taken
  <2>1. taken \in 0 .. Len(b.buf_list) /\ taken + 1 \in 1 .. Len(b.buf_list) + 1
    BY <1>3, <1>4
  <2>2. QED
    BY <1>3, <2>1, SubSeqProperties
<1> DEFINE c == [b EXCEPT !.buf_list = left]
<1>6. /\ transfer_pos' = transfer_pos + taken /\ current_buf_list' = bufs
      /\ Becomes(r, c, func)
      /\ StartTransfer(IF b.operation = "read" THEN ReadList(bufs) ELSE WriteList(bufs))
      /\ UNCHANGED <<cmdrsp, chip>>
  <2> HIDE DEF taken
  <2>1. [b EXCEPT !.buf_list = SubSeq(@, taken + 1, Len(@))] = c
    BY <1>1 DEF BlockRequest
  <2>2. QED
    BY <1>4, <2>1 DEF StartBuffers, end_pos
<1>7. /\ c \in BlockRequest /\ SameBlocks(b, c) /\ c.buf_list = left
  <2> HIDE DEF left
  <2>1. QED
    BY <1>1, <1>5 DEF BlockRequest, SameBlocks
<1>8. InStep(r, c) /\ func \in Func /\ end_pos(c) = end_pos(b)
  BY <1>1, <1>7 DEF InStep, SameBlocks, Func, end_pos, dataflash_get_remaining_page_size
<1> HIDE DEF c, bufs, left, taken, func
<1>9. /\ OnlyOwner(r) /\ breq'[r] \in BlockRequest /\ SameBlocks(c, breq'[r])
      /\ breq'[r].buf_list = c.buf_list /\ breq'[r].func = func
      /\ breq'[r].status = breq[r].status /\ ~ breq'[r].sleeping /\ end_pos(breq'[r]) = end_pos(c)
  BY <1>6, <1>8, BecomesIt
<1>10. /\ GoesOn /\ spi' = (IF b.operation = "read" THEN ReadList(bufs) ELSE WriteList(bufs))
       /\ spi'.op \in Lists /\ spi'.left = bufs
  BY <1>1, <1>6, Transfers DEF StartTransfer, GoesOn
<1>11. SameBlocks(b, breq'[r])
  BY <1>7, <1>9 DEF SameBlocks
<1>12. Moving(breq'[r], spi', chip')
  BY <1>1, <1>6, <1>10, <1>11 DEF Moving, SameBlocks
<1>13. Phase(breq'[r], next', spi', cmdrsp', chip', transfer_pos')
  <2>1. CASE transfer_pos' = end_pos(b)
    <3>1. func = (IF b.operation = "read" THEN "read_done" ELSE "write_done")
      BY <1>6, <2>1 DEF func
    <3>2. func \in {"read_done", "write_done"} /\ (func = "read_done" <=> b.operation = "read")
      BY <3>1
    <3>3. breq'[r].operation = b.operation
      BY <1>11 DEF SameBlocks
    <3>4. QED
      BY <1>1, <1>6, <1>8, <1>9, <1>12, <2>1, <3>2, <3>3 DEF Phase
  <2>2. CASE transfer_pos' # end_pos(b)
    <3>1. func = "transfer" /\ transfer_pos' < end_pos(b)
      BY <1>2, <1>4, <1>6, <2>2 DEF func
    <3>2. QED
      BY <1>1, <1>6, <1>8, <1>9, <1>12, <3>1 DEF Phase
  <2>3. QED
    BY <2>1, <2>2
<1>14. Going(r)
  BY <1>1, <1>4, <1>6, <1>9, <1>10, <1>13 DEF Going, PhaseFits
<1>15. QED
  BY <1>1, <1>3, <1>4, <1>5, <1>6, <1>7, <1>9, <1>10, <1>11, <1>14 DEF bufs, left, taken


SameButSleep(b, c) ==
    /\ c.lba = b.lba /\ c.remaining_blocks = b.remaining_blocks /\ c.operation = b.operation
    /\ c.status = b.status /\ c.bytes_xfered = b.bytes_xfered

Sleeping(r) ==
    /\ OnlyOwner(r) /\ breq'[r].sleeping /\ breq'[r].func = "transfer"
    /\ SameButSleep(breq[r], breq'[r]) /\ breq'[r].buf_list = breq[r].buf_list /\ breq[r].buf_list = << >>
    /\ queues' = Popped /\ current_buf_list' = << >>
    /\ UNCHANGED <<current, spi, cmdrsp, chip, transfer_pos, next>>
    /\ PhaseFits(breq'[r], next', spi', cmdrsp', chip', transfer_pos')

LEMMA SleepStep ==
    ASSUME NEW r, OwnersTurn(r), breq[r].func = "transfer", next' = next, Sleep(r, breq[r])
    PROVE  Sleeping(r)
<1> DEFINE b == breq[r]
           c == [b EXCEPT !.sleeping = TRUE]
<1>1. /\ b \in BlockRequest /\ r \in Req /\ breq \in [Req -> BlockRequest]
      /\ PhaseFits(b, next, spi, cmdrsp, chip, transfer_pos)
  BY DEF OwnersTurn, InStep, DfTypeOK
<1>2. /\ c \in BlockRequest /\ c.sleeping /\ c.func = b.func /\ c.buf_list = b.buf_list /\ SameButSleep(b, c)
  BY <1>1 DEF BlockRequest, SameButSleep
<1>3. /\ breq' = [breq EXCEPT ![r] = c] /\ b.buf_list = << >> /\ queues' = Popped /\ current_buf_list' = << >>
      /\ UNCHANGED <<current, spi, cmdrsp, chip, transfer_pos, next>>
  BY <1>1 DEF Sleep
<1>4. PageOf(c) = PageOf(b) /\ PosOf(c) = PosOf(b) /\ end_pos(c) = end_pos(b)
  BY <1>2 DEF SameButSleep, PageOf, PosOf, end_pos, dataflash_get_remaining_page_size
<1>5. Phase(c, next, spi, cmdrsp, chip, transfer_pos)
  <2> HIDE DEF c
  <2>1. /\ b.func = "transfer" /\ next = NULL /\ Ready(chip) /\ transfer_pos < end_pos(b)
        /\ \/ Moving(b, spi, chip)
           \/ /\ transfer_pos = 0
              /\ Ordered(spi, chip, IF b.operation = "read"
                               THEN [op |-> "read", page |-> PageOf(b), pos |-> PosOf(b)]
                               ELSE [op |-> "buffer_write", page |-> 0, pos |-> PosOf(b)])
    BY <1>1 DEF PhaseFits, Phase
  <2>2. c.operation = b.operation
    BY <1>2 DEF SameButSleep
  <2>3. Moving(b, spi, chip) => Moving(c, spi, chip)
    BY <2>2 DEF Moving
  <2>4. QED
    BY <1>2, <1>4, <2>1, <2>2, <2>3 DEF Phase
<1> HIDE DEF c
<1>6. breq'[r] = c /\ OnlyOwner(r)
  BY <1>1, <1>2, <1>3 DEF OnlyOwner
<1>7. QED
  BY <1>1, <1>2, <1>3, <1>5, <1>6 DEF Sleeping, PhaseFits

\* The outcome of a page that is done.
PageOver(r, b) ==
    /\ lent' = lent \ Range(current_buf_list) /\ current_buf_list' = << >>
    /\ \/ /\ Rest(b).remaining_blocks # 0 /\ Going(r) /\ transfer_pos' = 0 /\ spi'.op = "write"
          /\ SameBlocks(Rest(b), breq'[r]) /\ breq'[r].buf_list = b.buf_list
          /\ breq'[r].func = (IF b.operation = "read" \/ dataflash_is_page_aligned(Rest(b))
                              THEN "transfer" ELSE "write_buffered")
       \/ /\ Rest(b).remaining_blocks = 0 /\ Ending(r)
          /\ breq'[r].bytes_xfered = b.bytes_xfered + transfer_pos

LEMMA ReadDoneStep ==
    ASSUME NEW r, OwnersTurn(r), breq[r].func = "read_done", ReadDone(r, breq[r])
    PROVE  PageOver(r, breq[r]) /\ SameMemory(chip, chip') /\ next' = next
<1>1. /\ InStep(r, breq[r]) /\ spi = NoTransfer /\ chip \in Chip /\ next = NULL /\ Ready(chip) /\ chip.cmd = "read"
  BY TurnFacts
<1>2. Deselect(Deselected(chip)) /\ SameMemory(chip, Deselected(chip))
  BY <1>1, ChipDeselected DEF Deselect, SameMemory, Ready
<1>3. PageDone(r, breq[r], Deselected(chip)) /\ next' = NULL /\ next' = next
  BY <1>1 DEF ReadDone
<1>4. /\ PageOver(r, breq[r]) /\ SameMemory(Deselected(chip), chip')
  BY <1>1, <1>2, <1>3, PageIsDone DEF PageOver
<1>5. QED
  BY <1>2, <1>3, <1>4 DEF SameMemory

\* A state with another work function.
With(b, func) == [b EXCEPT !.func = func]

LEMMA StepWith ==
    ASSUME NEW r, InStep(r, breq[r]), NEW func \in Func
    PROVE  /\ InStep(r, With(breq[r], func)) /\ SameBlocks(breq[r], With(breq[r], func))
           /\ With(breq[r], func).buf_list = breq[r].buf_list /\ With(breq[r], func).func = func
           /\ PageOf(With(breq[r], func)) = PageOf(breq[r]) /\ PosOf(With(breq[r], func)) = PosOf(breq[r])
           /\ end_pos(With(breq[r], func)) = end_pos(breq[r])
<1>1. /\ With(breq[r], func) \in BlockRequest /\ SameBlocks(breq[r], With(breq[r], func))
      /\ With(breq[r], func).buf_list = breq[r].buf_list /\ With(breq[r], func).func = func
  BY DEF InStep, BlockRequest, SameBlocks, With
<1>2. QED
  BY <1>1 DEF SameBlocks, InStep, PageOf, PosOf, end_pos, dataflash_get_remaining_page_size

\* The request waits on, and its work function is func.
WaitingOn(r, func) ==
    /\ Going(r) /\ SameBlocks(breq[r], breq'[r]) /\ breq'[r].buf_list = breq[r].buf_list
    /\ breq'[r].func = func /\ UNCHANGED <<transfer_pos, current_buf_list, lent>>
    /\ spi'.op \notin Lists

LEMMA WaitKept ==
    ASSUME NEW r, InStep(r, breq[r]), NEW func \in {"write_buffered_wait", "write_wait"},
           GoesOn, chip' \in Chip, Polling(next', spi', cmdrsp', chip'),
           breq' = [breq EXCEPT ![r] = With(breq[r], func)],
           UNCHANGED <<transfer_pos, current_buf_list, lent>>, breq[r].operation = "write",
           IF func = "write_wait"
           THEN transfer_pos = end_pos(breq[r]) /\ chip'.work \in {Idle, [op |-> "program", page |-> PageOf(breq[r])]}
           ELSE transfer_pos = 0 /\ chip'.work \in {Idle, [op |-> "load", page |-> PageOf(breq[r])]}
    PROVE  WaitingOn(r, func)
<1>1. /\ breq \in [Req -> BlockRequest] /\ r \in Req /\ transfer_pos \in Nat
  BY DEF InStep, DfTypeOK
<1>2. /\ InStep(r, With(breq[r], func)) /\ SameBlocks(breq[r], With(breq[r], func))
      /\ With(breq[r], func).buf_list = breq[r].buf_list /\ With(breq[r], func).func = func
      /\ PageOf(With(breq[r], func)) = PageOf(breq[r])
      /\ end_pos(With(breq[r], func)) = end_pos(breq[r])
  BY StepWith DEF Func
<1> DEFINE c == With(breq[r], func)
<1>3. c \in BlockRequest
  BY <1>2 DEF InStep
<1> HIDE DEF c
<1>4. breq'[r] = c /\ OnlyOwner(r)
  BY <1>1, <1>3 DEF OnlyOwner, c
<1>5. Phase(c, next', spi', cmdrsp', chip', transfer_pos')
  <2>1. c.func = func /\ c.operation = "write" /\ PageOf(c) = PageOf(breq[r]) /\ end_pos(c) = end_pos(breq[r])
    BY <1>2 DEF c, SameBlocks
  <2>2. CASE func = "write_wait"
    BY <2>1, <2>2 DEF Phase
  <2>3. CASE func = "write_buffered_wait"
    BY <2>1, <2>3 DEF Phase
  <2>4. QED
    BY <2>2, <2>3
<1>6. spi'.op \notin Lists
  BY Transfers DEF Polling, Ordered, Answered
<1>7. /\ SameBlocks(breq[r], c) /\ c.buf_list = breq[r].buf_list /\ c.func = func
      /\ c.status = breq[r].status /\ ~ c.sleeping
  BY <1>2 DEF c, InStep
<1>8. QED
  BY <1>1, <1>3, <1>4, <1>5, <1>6, <1>7 DEF WaitingOn, Going, PhaseFits

LEMMA WriteBufferedStep ==
    ASSUME NEW r, OwnersTurn(r), breq[r].func = "write_buffered",
           WriteBufferedWait(r, With(breq[r], "write_buffered_wait"), Deselected(chip))
    PROVE  /\ WaitingOn(r, "write_buffered_wait")
           /\ chip'.work = [op |-> "load", page |-> PageOf(breq[r])] /\ chip'.flash = chip.flash
<1>1. /\ InStep(r, breq[r]) /\ chip \in Chip /\ next = NULL /\ Ready(chip) /\ chip.cmd = "load"
      /\ chip.page = PageOf(breq[r]) /\ transfer_pos = 0 /\ breq[r].operation = "write"
  BY TurnFacts
<1>2. /\ Deselected(chip) \in Chip /\ ~ Deselected(chip).selected /\ Deselected(chip).flash = chip.flash
      /\ Deselected(chip).work = [op |-> "load", page |-> PageOf(breq[r])]
  BY <1>1, ChipDeselected
<1>3. ~ WaitIsOver
  BY <1>1, Names DEF WaitIsOver
<1>4. /\ WaitOn(Deselected(chip)) /\ breq' = [breq EXCEPT ![r] = With(breq[r], "write_buffered_wait")]
      /\ UNCHANGED <<transfer_pos, current_buf_list, lent>>
  BY <1>3 DEF WriteBufferedWait
<1>5. GoesOn /\ chip' \in Chip /\ Polling(next', spi', cmdrsp', chip') /\ SameMemory(Deselected(chip), chip')
  BY <1>1, <1>2, <1>4, WaitStarts
<1>6. chip'.work = [op |-> "load", page |-> PageOf(breq[r])] /\ chip'.flash = chip.flash
  BY <1>2, <1>5 DEF SameMemory
<1>7. WaitingOn(r, "write_buffered_wait")
  BY <1>1, <1>4, <1>5, <1>6, WaitKept
<1>8. QED
  BY <1>6, <1>7

LEMMA WriteBufferedWaitStep ==
    ASSUME NEW r, OwnersTurn(r), breq[r].func = "write_buffered_wait",
           WriteBufferedWait(r, breq[r], chip)
    PROVE  /\ SameMemory(chip, chip') /\ UNCHANGED <<current_buf_list, lent>>
           /\ \/ WaitingOn(r, "write_buffered_wait")
              \/ /\ Ready(chip) /\ Going(r) /\ SameBlocks(breq[r], breq'[r]) /\ breq'[r].buf_list = breq[r].buf_list
                 /\ breq'[r].func = "transfer" /\ transfer_pos' = 0 /\ spi'.op = "write"
<1>1. /\ InStep(r, breq[r]) /\ chip \in Chip /\ Polling(next, NoTransfer, cmdrsp, chip) /\ cmdrsp \in BOOLEAN
      /\ chip.work \in {Idle, [op |-> "load", page |-> PageOf(breq[r])]}
      /\ transfer_pos = 0 /\ breq[r].operation = "write"
  BY TurnFacts
<1>2. UNCHANGED <<transfer_pos, current_buf_list, lent>>
  BY DEF WriteBufferedWait
<1>3. CASE WaitIsOver
  <2>1. Deselect(Deselected(chip)) /\ SameMemory(chip, Deselected(chip)) /\ Ready(chip)
    BY <1>1, <1>3, WaitEnds
  <2>2. next' = NULL /\ WriteReady(r, breq[r], Deselected(chip))
    BY <1>3 DEF WriteBufferedWait
  <2>3. /\ Going(r) /\ SameBlocks(breq[r], breq'[r]) /\ breq'[r].buf_list = breq[r].buf_list
        /\ breq'[r].func = "transfer" /\ SameMemory(Deselected(chip), chip') /\ spi'.op = "write"
    BY <1>1, <1>2, <2>1, <2>2, WriteIsReady
  <2>4. QED
    BY <1>1, <1>2, <2>1, <2>3 DEF SameMemory
<1>4. CASE ~ WaitIsOver
  <2>1. WaitOn(chip) /\ breq' = [breq EXCEPT ![r] = breq[r]]
    BY <1>4 DEF WriteBufferedWait
  <2>2. GoesOn /\ chip' \in Chip /\ Polling(next', spi', cmdrsp', chip') /\ SameMemory(chip, chip')
    BY <1>1, <2>1, WaitGoesOn
  <2>3. With(breq[r], "write_buffered_wait") = breq[r]
    BY <1>1 DEF With, InStep, BlockRequest
  <2>4. WaitingOn(r, "write_buffered_wait")
    BY <1>1, <1>2, <2>1, <2>2, <2>3, WaitKept DEF SameMemory
  <2>5. QED
    BY <1>2, <2>2, <2>4
<1>5. QED
  BY <1>3, <1>4

LEMMA WriteDoneStep ==
    ASSUME NEW r, OwnersTurn(r), breq[r].func = "write_done", WriteDone(r, breq[r])
    PROVE  /\ Going(r) /\ SameBlocks(breq[r], breq'[r]) /\ breq'[r].buf_list = breq[r].buf_list
           /\ breq'[r].func = "write_wait_begin" /\ SameMemory(chip, chip') /\ spi'.op = "write"
           /\ UNCHANGED <<next, transfer_pos, current_buf_list, lent>>
<1> DEFINE k == [op |-> "program", page |-> PageOf(breq[r]), pos |-> 0]
<1>1. /\ InStep(r, breq[r]) /\ chip \in Chip /\ next = NULL /\ Ready(chip) /\ chip.cmd = "buffer_write"
      /\ transfer_pos = end_pos(breq[r]) /\ breq[r].operation = "write" /\ breq[r] \in BlockRequest
      /\ transfer_pos \in Nat
  BY TurnFacts
<1>2. Deselected(chip) \in Chip /\ ~ Deselected(chip).selected /\ SameMemory(chip, Deselected(chip))
  BY <1>1, ChipDeselected DEF SameMemory
<1>3. PageOf(breq[r]) \in Nat
  BY <1>1, Positions
<1>4. /\ Becomes(r, breq[r], "write_wait_begin") /\ UNCHANGED <<next, transfer_pos, current_buf_list, lent>>
      /\ Command(Selected(Deselected(chip)), "program", PageOf(breq[r]), 0)
  BY DEF WriteDone
<1>5. /\ GoesOn /\ chip' \in Chip /\ SameMemory(Deselected(chip), chip') /\ spi' = Write(k) /\ Ordered(spi', chip', k)
  BY <1>2, <1>3, <1>4, CommandGiven DEF Commands
<1>6. /\ OnlyOwner(r) /\ breq'[r] \in BlockRequest /\ SameBlocks(breq[r], breq'[r])
      /\ breq'[r].buf_list = breq[r].buf_list /\ breq'[r].func = "write_wait_begin"
      /\ breq'[r].status = breq[r].status /\ ~ breq'[r].sleeping
      /\ PageOf(breq'[r]) = PageOf(breq[r]) /\ end_pos(breq'[r]) = end_pos(breq[r])
  BY <1>1, <1>4, BecomesIt DEF Func
<1>7. SameMemory(chip, chip') /\ Ready(chip')
  BY <1>1, <1>2, <1>5 DEF SameMemory, Ready
<1>8. Phase(breq'[r], next', spi', cmdrsp', chip', transfer_pos')
  BY <1>1, <1>4, <1>5, <1>6, <1>7 DEF Phase, SameBlocks
<1>9. QED
  BY <1>1, <1>4, <1>5, <1>6, <1>7, <1>8, Transfers DEF Going, PhaseFits

LEMMA WriteWaitBeginStep ==
    ASSUME NEW r, OwnersTurn(r), breq[r].func = "write_wait_begin",
           WriteWait(r, With(breq[r], "write_wait"), Deselected(chip))
    PROVE  /\ WaitingOn(r, "write_wait")
           /\ chip'.work = [op |-> "program", page |-> PageOf(breq[r])]
           /\ chip'.flash = chip.flash /\ chip'.buffer = chip.buffer
<1>1. /\ InStep(r, breq[r]) /\ chip \in Chip /\ next = NULL /\ Ready(chip) /\ chip.cmd = "program"
      /\ chip.page = PageOf(breq[r]) /\ transfer_pos = end_pos(breq[r]) /\ breq[r].operation = "write"
  BY TurnFacts
<1>2. /\ Deselected(chip) \in Chip /\ ~ Deselected(chip).selected
      /\ Deselected(chip).flash = chip.flash /\ Deselected(chip).buffer = chip.buffer
      /\ Deselected(chip).work = [op |-> "program", page |-> PageOf(breq[r])]
  BY <1>1, ChipDeselected
<1>3. ~ WaitIsOver
  BY <1>1, Names DEF WaitIsOver
<1>4. /\ WaitOn(Deselected(chip)) /\ breq' = [breq EXCEPT ![r] = With(breq[r], "write_wait")]
      /\ UNCHANGED <<transfer_pos, current_buf_list, lent>>
  BY <1>3 DEF WriteWait
<1>5. GoesOn /\ chip' \in Chip /\ Polling(next', spi', cmdrsp', chip') /\ SameMemory(Deselected(chip), chip')
  BY <1>1, <1>2, <1>4, WaitStarts
<1>6. /\ chip'.work = [op |-> "program", page |-> PageOf(breq[r])]
      /\ chip'.flash = chip.flash /\ chip'.buffer = chip.buffer
  BY <1>2, <1>5 DEF SameMemory
<1>7. WaitingOn(r, "write_wait")
  BY <1>1, <1>4, <1>5, <1>6, WaitKept
<1>8. QED
  BY <1>6, <1>7

LEMMA WriteWaitStep ==
    ASSUME NEW r, OwnersTurn(r), breq[r].func = "write_wait", WriteWait(r, breq[r], chip)
    PROVE  /\ SameMemory(chip, chip')
           /\ \/ WaitingOn(r, "write_wait")
              \/ Ready(chip) /\ PageOver(r, breq[r])
<1>1. /\ InStep(r, breq[r]) /\ chip \in Chip /\ Polling(next, NoTransfer, cmdrsp, chip) /\ cmdrsp \in BOOLEAN
      /\ chip.work \in {Idle, [op |-> "program", page |-> PageOf(breq[r])]} /\ spi = NoTransfer
      /\ transfer_pos = end_pos(breq[r]) /\ breq[r].operation = "write"
  BY TurnFacts
<1>3. CASE WaitIsOver
  <2>1. Deselect(Deselected(chip)) /\ SameMemory(chip, Deselected(chip)) /\ Ready(chip)
    BY <1>1, <1>3, WaitEnds
  <2>2. next' = NULL /\ PageDone(r, breq[r], Deselected(chip))
    BY <1>3 DEF WriteWait
  <2>3. PageOver(r, breq[r]) /\ SameMemory(Deselected(chip), chip')
    BY <1>1, <2>1, <2>2, PageIsDone DEF PageOver
  <2>4. QED
    BY <2>1, <2>3 DEF SameMemory
<1>4. CASE ~ WaitIsOver
  <2>1. /\ WaitOn(chip) /\ breq' = [breq EXCEPT ![r] = breq[r]]
        /\ UNCHANGED <<transfer_pos, current_buf_list, lent>>
    BY <1>4 DEF WriteWait
  <2>2. GoesOn /\ chip' \in Chip /\ Polling(next', spi', cmdrsp', chip') /\ SameMemory(chip, chip')
    BY <1>1, <2>1, WaitGoesOn
  <2>3. With(breq[r], "write_wait") = breq[r]
    BY <1>1 DEF With, InStep, BlockRequest
  <2>4. WaitingOn(r, "write_wait")
    BY <1>1, <2>1, <2>2, <2>3, WaitKept DEF SameMemory
  <2>5. QED
    BY <2>2, <2>4
<1>5. QED
  BY <1>3, <1>4


-----------------------------------------------------------------------------
(* The invariant of control.                                               *)

LEMMA ControlStarts == Init => CInv
<1> SUFFICES ASSUME Init PROVE CInv
  OBVIOUS
<1>1. /\ queues[Main] = <<DETECT>> /\ queues[Bus] = << >> /\ current = DETECT
      /\ queues = [q \in {Main, Bus} |-> IF q = Main THEN <<DETECT>> ELSE << >>]
  BY Names DEF Init
<1>2. DETECT \in Task /\ DETECT \in Client /\ DETECT # NULL /\ DETECT # EVENT /\ DETECT \notin MasterTask
  BY Names
<1>3. /\ <<DETECT>> \in Seq(Task) /\ << >> \in Seq(Task) /\ IsInjective(<<DETECT>>) /\ IsInjective(<< >>)
      /\ Range(<<DETECT>>) = {DETECT} /\ Range(<< >>) = {}
  BY <1>2 DEF IsInjective, Range
<1>4. OnMain = {DETECT} /\ OnBus = {}
  BY <1>1, <1>3 DEF OnMain, OnBus
<1>5. chip \in Chip /\ chip.cmd = "none" /\ ~ chip.selected /\ chip.work \in {Idle, [op |-> "load", page |-> 0]}
  <2>1. \A b \in Block \cup {0} : <<NULL, b>> \in Value
    BY DataflashAssumption
  <2>2. /\ [i \in 0 .. PageBlocks - 1 |-> <<NULL, 0>>] \in [0 .. PageBlocks - 1 -> Value]
        /\ [b \in Block |-> <<NULL, b>>] \in [Block -> Value]
    BY <2>1
  <2>3. {Idle, [op |-> "load", page |-> 0]} \subseteq [op : {"none", "load", "program"}, page : Nat]
    BY DEF Idle
  <2>4. QED
    BY <2>2, <2>3 DEF Init, Chip
<1>6. /\ spi = NoTransfer /\ spi.op = "none" /\ ~ Busy /\ next = NULL
  BY Transfers DEF Init, Busy
<1>7. breq \in [Req -> BlockRequest] /\ \A r \in Req : breq[r].status = "ok" /\ ~ breq[r].sleeping
  BY DEF Init, BlockRequest, Func
<1>8. DfTypeOK
  <2>1. given \in [Req -> [first : Nat, count : 0 .. MaxLen, bufs : Nat]] /\ lent \in SUBSET Buffer
    BY DataflashAssumption DEF Init, NoAsk
  <2>2. data \in [Buffer -> Value]
    BY DataflashAssumption DEF Init
  <2>3. queues \in [{Main, Bus} -> Seq(Task)]
    BY <1>1, <1>3
  <2>31. current \in Client \cup {NULL} /\ cmdrsp \in BOOLEAN
    BY <1>1, <1>2 DEF Init
  <2>4. transfer_pos \in Nat /\ current_buf_list \in Seq(Buffer)
    BY DEF Init
  <2>5. QED
    BY <1>5, <1>7, <2>1, <2>2, <2>3, <2>31, <2>4 DEF DfTypeOK
<1>9. Turns
  <2>1. ~ Asleep(current)
    BY <1>7 DEF Asleep
  <2>2. \A r \in Req : Done(r) /\ r # current
    BY <1>1, <1>7, Names DEF Done
  <2>3. "poll_next_buffer" \notin OnMain /\ ~ MasterTask \subseteq OnMain /\ OnMain \cap MasterTask = {}
    BY <1>2, <1>4, Names
  <2>4. QED
    BY <1>1, <1>2, <1>3, <1>4, <1>6, <1>7, <2>1, <2>2, <2>3 DEF Turns
<1>10. Phases
  <2>1. Identifying(next, spi, cmdrsp, chip)
    BY <1>5, <1>6 DEF Identifying
  <2>2. QED
    BY <1>1, <1>5, <2>1, Names DEF Phases
<1>11. ListFits
  BY <1>6, Transfers DEF ListFits
<1>12. QED
  BY <1>8, <1>9, <1>10, <1>11 DEF CInv

\* What a step of the owner leaves of the clients' buffers.
HandsOver == /\ current_buf_list' \in Seq(Buffer) /\ lent' \in SUBSET Buffer
             /\ data' = data /\ given' = given

LEMMA RequestsTurn ==
    ASSUME CInv, NEW r \in Req, Runs(r)
    PROVE  OwnersTurn(r) /\ current = r
<1>1. DfTypeOK /\ Turns /\ Phases /\ r \in Client
  BY Names DEF CInv
<1>2. current = r /\ ~ Busy /\ ~ Asleep(r)
  BY <1>1, ItsTurn
<1>3. /\ breq[r] \in BlockRequest /\ ~ breq[r].sleeping /\ chip \in Chip
      /\ Phase(breq[r], next, spi, cmdrsp, chip, transfer_pos)
  BY <1>1, <1>2 DEF DfTypeOK, Asleep, Phases
<1>4. spi = NoTransfer
  <2>1. /\ spi.op = "none" /\ spi.op \notin Lists /\ spi # Read /\ \A k : spi # Write(k)
    BY <1>2, Transfers DEF Busy
  <2>2. QED
    BY <1>3, <2>1 DEF Phase, Rests, Moving, Ordered, Polling, Answered
<1>5. QED
  BY <1>1, <1>2, <1>3, <1>4 DEF OwnersTurn, InStep, PhaseFits

LEMMA RequestGoesOn ==
    ASSUME CInv, NEW r \in Req, Runs(r), Going(r), HandsOver, ListFits'
    PROVE  CInv'
<1>1. DfTypeOK /\ Turns /\ r \in Client
  BY Names DEF CInv
<1>2. /\ OnlyOwner(r) /\ breq'[r].status = breq[r].status /\ ~ breq'[r].sleeping
      /\ queues' = Added(Popped, "poll") /\ current' = current /\ spi'.op # "none"
      /\ cmdrsp' \in BOOLEAN /\ chip' \in Chip /\ transfer_pos' \in Nat
      /\ Phase(breq'[r], next', spi', cmdrsp', chip', transfer_pos')
  BY DEF Going, GoesOn, PhaseFits
<1>3. Turns' /\ current = r /\ queues' \in Queues
  BY <1>1, <1>2, OwnerStarts
<1>4. DfTypeOK'
  BY <1>1, <1>2, <1>3 DEF DfTypeOK, HandsOver, OnlyOwner, Queues
<1>5. Phases'
  BY <1>2, <1>3, Names DEF Phases
<1>6. QED
  BY <1>3, <1>4, <1>5 DEF CInv

LEMMA RequestSleeps ==
    ASSUME CInv, NEW r \in Req, Runs(r), Sleeping(r), HandsOver
    PROVE  CInv'
<1>1. DfTypeOK /\ Turns /\ r \in Client
  BY Names DEF CInv
<1>2. /\ OnlyOwner(r) /\ breq'[r].status = breq[r].status /\ breq'[r].sleeping /\ breq'[r].func = "transfer"
      /\ queues' = Popped /\ current' = current /\ spi' = spi
      /\ cmdrsp' = cmdrsp /\ chip' = chip /\ transfer_pos' = transfer_pos
      /\ Phase(breq'[r], next', spi', cmdrsp', chip', transfer_pos')
  BY DEF Sleeping, SameButSleep, PhaseFits
<1>3. Turns' /\ queues' \in Queues
  BY <1>1, <1>2, OwnerSleeps
<1>4. DfTypeOK'
  BY <1>1, <1>2, <1>3 DEF DfTypeOK, HandsOver, OnlyOwner, Queues
<1>5. current = r
  BY <1>1, ItsTurn
<1>6. Phases'
  BY <1>2, <1>5, Names DEF Phases
<1>7. QED
  BY <1>1, <1>2, <1>3, <1>4, <1>6 DEF CInv, ListFits

LEMMA NextOwnerRests ==
    ASSUME Rests(next', spi', chip'), current' \in Req \cup {NULL},
           \A t \in Req : current' = t => breq'[t] = breq[t] /\ breq[t].func = "start"
    PROVE  Phases'
BY Names DEF Phases, Phase

LEMMA RequestEnds ==
    ASSUME CInv, NEW r \in Req, Runs(r), Ending(r), HandsOver
    PROVE  CInv'
<1>1. DfTypeOK /\ Turns /\ r \in Client /\ spi = NoTransfer
  BY Names, RequestsTurn DEF CInv, OwnersTurn
<1>2. /\ OnlyOwner(r) /\ breq'[r].status = "ok" /\ ~ breq'[r].sleeping
      /\ queues' = Released(Popped) /\ current' = NextOwner /\ cmdrsp' = cmdrsp
      /\ chip' \in Chip /\ Rests(next', spi', chip') /\ transfer_pos' = transfer_pos
  BY DEF Ending
<1>3. spi' = spi
  BY <1>1, <1>2 DEF Rests
<1>4. /\ Turns' /\ queues' \in Queues /\ current' \in Req \cup {NULL}
      /\ \A t \in Req : current' = t => breq'[t] = breq[t] /\ breq[t].func = "start"
  BY <1>1, <1>2, <1>3, OwnerReleases
<1>5. DfTypeOK'
  BY <1>1, <1>2, <1>4, Names DEF DfTypeOK, HandsOver, OnlyOwner, Queues
<1>6. Phases'
  BY <1>2, <1>4, NextOwnerRests
<1>7. ListFits'
  BY <1>1, <1>3, Transfers DEF ListFits
<1>8. QED
  BY <1>4, <1>5, <1>6, <1>7 DEF CInv


\* What the work function of r's task comes to.
Outcome(r) ==
    /\ (Going(r) /\ ListFits') \/ Sleeping(r) \/ Ending(r)
    /\ current_buf_list' \in Seq(Buffer) /\ lent' \in SUBSET Buffer

LEMMA HandedBack ==
    ASSUME NEW r, OwnersTurn(r), lent' = lent \ Range(current_buf_list) \/ lent' = lent
    PROVE  lent' \in SUBSET Buffer /\ << >> \in Seq(Buffer) /\ current_buf_list \in Seq(Buffer)
BY DEF OwnersTurn, InStep, DfTypeOK

LEMMA FirstBuffers ==
    ASSUME NEW r, OwnersTurn(r), breq[r].func = "transfer", next' = next, StartBuffers(r, breq[r])
    PROVE  ListFits' /\ Len(current_buf_list') = TakenNow(r) /\ spi'.left = current_buf_list' /\ spi'.op \in Lists
<1>1. /\ TakenNow(r) \in 1 .. 2 /\ TakenNow(r) <= Len(breq[r].buf_list) /\ Len(breq[r].buf_list) \in Nat
      /\ current_buf_list' = SubSeq(breq[r].buf_list, 1, TakenNow(r)) /\ current_buf_list' \in Seq(Buffer)
      /\ spi' = (IF breq[r].operation = "read" THEN ReadList(current_buf_list') ELSE WriteList(current_buf_list'))
  BY BuffersStep
<1>2. breq[r].buf_list \in Seq(Buffer)
  BY DEF OwnersTurn, InStep, BlockRequest
<1>3. Len(current_buf_list') = TakenNow(r)
  <2> DEFINE n == TakenNow(r)
  <2>1. n \in 0 .. Len(breq[r].buf_list) /\ n + 1 - 1 = n
    BY <1>1
  <2> HIDE DEF n
  <2>2. Len(SubSeq(breq[r].buf_list, 1, n)) = n
    BY <1>2, <2>1, SubSeqProperties
  <2>3. QED
    BY <1>1, <2>2 DEF n
<1>4. current_buf_list' # << >>
  BY <1>1, <1>3, EmptySeq
<1>5. spi'.left = current_buf_list' /\ spi'.op \in Lists
  BY <1>1, Transfers
<1>6. QED
  BY <1>1, <1>3, <1>4, <1>5 DEF ListFits

LEMMA WorkSteps ==
    ASSUME NEW r, OwnersTurn(r), Work(r, breq[r])
    PROVE  Outcome(r)
<1>0. /\ PageOver(r, breq[r]) => Outcome(r)
      /\ \A func : WaitingOn(r, func) => Going(r) /\ ListFits'
      /\ spi'.op = "write" => ListFits'
  BY HandedBack, Transfers DEF PageOver, Outcome, ListFits, WaitingOn
<1>1. CASE /\ breq[r].func = "start"
           /\ IF breq[r].operation = "read" THEN ReadSetup(r, breq[r], chip) ELSE WriteSetup(r, breq[r], chip)
           /\ UNCHANGED <<next, current_buf_list, lent>>
  BY <1>0, <1>1, StartStep, HandedBack DEF Outcome
<1>2. CASE breq[r].func = "transfer" /\ Transfer(r, breq[r])
  <2>1. lent' = lent \ Range(current_buf_list) /\ next' = next
    BY <1>2 DEF Transfer, HandBack
  <2>2. CASE Sleep(r, breq[r])
    <3>1. Sleeping(r)
      BY <1>2, <2>1, <2>2, SleepStep
    <3>2. QED
      BY <2>1, <3>1, HandedBack DEF Outcome, Sleeping
  <2>3. CASE StartBuffers(r, breq[r])
    <3>1. Going(r) /\ current_buf_list' \in Seq(Buffer) /\ ListFits'
      BY <1>2, <2>1, <2>3, BuffersStep, FirstBuffers
    <3>2. QED
      BY <2>1, <3>1, HandedBack DEF Outcome
  <2>4. QED
    BY <1>2, <2>2, <2>3 DEF Transfer
<1>3. CASE breq[r].func = "read_done" /\ ReadDone(r, breq[r])
  BY <1>0, <1>3, ReadDoneStep
<1>4. CASE /\ breq[r].func = "write_buffered"
           /\ WriteBufferedWait(r, With(breq[r], "write_buffered_wait"), Deselected(chip))
  BY <1>0, <1>4, WriteBufferedStep, HandedBack DEF WaitingOn, Outcome
<1>5. CASE breq[r].func = "write_buffered_wait" /\ WriteBufferedWait(r, breq[r], chip)
  BY <1>0, <1>5, WriteBufferedWaitStep, HandedBack DEF WaitingOn, Outcome
<1>6. CASE breq[r].func = "write_done" /\ WriteDone(r, breq[r])
  BY <1>0, <1>6, WriteDoneStep, HandedBack DEF Outcome
<1>7. CASE breq[r].func = "write_wait_begin" /\ WriteWait(r, With(breq[r], "write_wait"), Deselected(chip))
  BY <1>0, <1>7, WriteWaitBeginStep, HandedBack DEF WaitingOn, Outcome
<1>8. CASE breq[r].func = "write_wait" /\ WriteWait(r, breq[r], chip)
  BY <1>0, <1>8, WriteWaitStep, HandedBack DEF WaitingOn, Outcome
<1>9. QED
  BY <1>1, <1>2, <1>3, <1>4, <1>5, <1>6, <1>7, <1>8 DEF Work, With

LEMMA RequestKeepsControl ==
    ASSUME CInv, NEW r \in Req, Request(r)
    PROVE  CInv'
<1>1. Runs(r) /\ Work(r, breq[r]) /\ data' = data /\ given' = given
  BY DEF Request
<1>2. OwnersTurn(r)
  BY <1>1, RequestsTurn
<1>3. Outcome(r)
  BY <1>1, <1>2, WorkSteps
<1>4. HandsOver
  BY <1>1, <1>3 DEF Outcome, HandsOver
<1>5. QED
  BY <1>1, <1>3, <1>4, RequestGoesOn, RequestSleeps, RequestEnds DEF Outcome

LEMMA DetectionsTurn ==
    ASSUME CInv, Runs(DETECT)
    PROVE  /\ current = DETECT /\ spi = NoTransfer /\ IdentFits(next, NoTransfer, cmdrsp, chip)
           /\ cmdrsp \in BOOLEAN /\ breq \in [Req -> BlockRequest] /\ DETECT \in Client /\ DETECT \notin Req
<1>1. DfTypeOK /\ Turns /\ Phases /\ DETECT \in Client
  BY Names DEF CInv
<1>2. current = DETECT /\ ~ Busy
  BY <1>1, ItsTurn
<1>3. Identifying(next, spi, cmdrsp, chip) /\ chip.work \in {Idle, [op |-> "load", page |-> 0]} /\ chip \in Chip
  BY <1>1, <1>2 DEF Phases, DfTypeOK
<1>4. spi = NoTransfer
  <2>1. /\ spi.op = "none" /\ spi # Read /\ \A k : spi # Write(k)
    BY <1>2, Transfers DEF Busy
  <2>2. QED
    BY <1>3, <2>1 DEF Identifying, Ordered, Answered
<1>5. QED
  BY <1>1, <1>2, <1>3, <1>4, Names DEF IdentFits, DfTypeOK

LEMMA IdentifyKeepsControl ==
    ASSUME CInv, Identify
    PROVE  CInv' /\ chip'.flash = chip.flash
<1>1. Runs(DETECT) /\ IdentifyStep /\ UNCHANGED <<breq, transfer_pos, current_buf_list, data, given, lent>>
  BY DEF Identify, detectOnly, clientVars
<1>2. /\ current = DETECT /\ spi = NoTransfer /\ IdentFits(next, NoTransfer, cmdrsp, chip)
      /\ cmdrsp \in BOOLEAN /\ breq \in [Req -> BlockRequest] /\ DETECT \in Client /\ DETECT \notin Req
  BY <1>1, DetectionsTurn
<1>3. GoesOn /\ IdentFits(next', spi', cmdrsp', chip') /\ SameMemory(chip, chip')
  BY <1>1, <1>2, IdentifySteps
<1>4. DfTypeOK /\ Turns
  BY DEF CInv
<1>5. Turns' /\ queues' \in Queues
  BY <1>1, <1>2, <1>3, <1>4, OwnerStarts DEF GoesOn, OnlyOwner
<1>6. DfTypeOK'
  BY <1>1, <1>3, <1>4, <1>5 DEF DfTypeOK, Queues, GoesOn, IdentFits
<1>7. Phases'
  BY <1>2, <1>3, Names DEF Phases, GoesOn, IdentFits
<1>8. ListFits'
  BY <1>3, IdentNoList DEF ListFits
<1>9. QED
  BY <1>3, <1>5, <1>6, <1>7, <1>8 DEF CInv, SameMemory

LEMMA IdentifiedKeepsControl ==
    ASSUME CInv, Identified
    PROVE  /\ CInv' /\ chip'.flash = chip.flash
           /\ \A t \in Req : current' = t => breq[t].func = "start"
           /\ spi' = NoTransfer
<1>1. /\ Runs(DETECT) /\ UNCHANGED <<breq, transfer_pos, current_buf_list, data, given, lent, spi, cmdrsp>>
      /\ next = "identify_got_id" /\ next' = NULL /\ chip' = Deselected(chip) /\ current' = NextOwner
      /\ queues' = Added(Released(Popped), EVENT)
  BY DEF Identified, detectOnly, clientVars
<1>2. /\ current = DETECT /\ spi = NoTransfer /\ IdentFits(next, NoTransfer, cmdrsp, chip)
      /\ cmdrsp \in BOOLEAN /\ breq \in [Req -> BlockRequest] /\ DETECT \in Client /\ DETECT \notin Req
  BY <1>1, DetectionsTurn
<1>3. chip' \in Chip /\ Rests(next', spi', chip') /\ chip'.flash = chip.flash
  BY <1>1, <1>2, IdentifiedRests
<1>4. DfTypeOK /\ Turns
  BY DEF CInv
<1>5. /\ Turns' /\ queues' \in Queues /\ current' \in Req \cup {NULL}
      /\ \A t \in Req : current' = t => breq'[t] = breq[t] /\ breq[t].func = "start"
  BY <1>1, <1>2, <1>4, OwnerReleases DEF OnlyOwner
<1>6. DfTypeOK'
  BY <1>1, <1>3, <1>4, <1>5, Names DEF DfTypeOK, Queues
<1>7. Phases'
  BY <1>3, <1>5, NextOwnerRests
<1>8. ListFits'
  BY <1>1, <1>2, Transfers DEF ListFits
<1>9. QED
  BY <1>1, <1>2, <1>3, <1>5, <1>6, <1>7, <1>8 DEF CInv

LEMMA EventKeepsControl ==
    ASSUME CInv, Event
    PROVE  CInv' /\ ("poll_next_buffer" \in OnMain' <=> "poll_next_buffer" \in OnMain)
<1>1. /\ Runs(EVENT) /\ queues' = Popped
      /\ UNCHANGED <<breq, next, transfer_pos, current_buf_list, given, lent, current, spi, cmdrsp, data, chip>>
  BY DEF Event, clientVars
<1>2. DfTypeOK /\ Turns /\ Phases
  BY DEF CInv
<1>3. Turns' /\ queues' \in Queues /\ ("poll_next_buffer" \in OnMain' <=> "poll_next_buffer" \in OnMain)
  BY <1>1, <1>2, EventTurns
<1>4. DfTypeOK'
  BY <1>1, <1>2, <1>3 DEF DfTypeOK, Queues
<1>5. Phases'
  BY <1>1, <1>2 DEF Phases
<1>6. ListFits'
  BY <1>1 DEF CInv, ListFits
<1>7. QED
  BY <1>3, <1>4, <1>5, <1>6 DEF CInv


LEMMA ChipKeepsControl ==
    ASSUME CInv, ChipFinishes
    PROVE  /\ CInv' /\ chip' = Finished(chip)
           /\ \/ current = DETECT /\ chip'.flash = chip.flash
              \/ \E r \in Req : /\ current = r
                                /\ \/ breq[r].func = "write_buffered_wait" /\ chip.work = [op |-> "load", page |-> PageOf(breq[r])]
                                   \/ breq[r].func = "write_wait" /\ chip.work = [op |-> "program", page |-> PageOf(breq[r])]
<1>1. /\ ~ Ready(chip) /\ chip' = Finished(chip)
      /\ UNCHANGED <<breq, next, transfer_pos, current_buf_list, given, lent, queues, current, spi, cmdrsp, data>>
  BY DEF ChipFinishes, driverVars, clientVars
<1>2. DfTypeOK /\ Turns /\ Phases /\ ListFits /\ chip \in Chip /\ current \in Client \cup {NULL}
  BY DEF CInv, DfTypeOK
<1>3. Finished(chip) \in Chip
  BY <1>1, <1>2, ChipFinished
<1>4. DfTypeOK' /\ ListFits'
  BY <1>1, <1>2, <1>3 DEF DfTypeOK, ListFits
<1>5. Turns'
  BY <1>1, <1>2 DEF Turns, OnMain, OnBus, Busy, Asleep, Done
<1>6. current # NULL
  BY <1>1, <1>2 DEF Phases, Rests
<1>7. CASE current = DETECT
  <2>1. IdentFits(next, spi, cmdrsp, chip)
    BY <1>2, <1>7 DEF Phases, IdentFits
  <2>2. IdentFits(next, spi, cmdrsp, Finished(chip)) /\ Finished(chip).flash = chip.flash
    BY <1>1, <2>1, IdentFinished
  <2>3. Phases'
    BY <1>1, <1>7, <2>2, Names DEF Phases, IdentFits
  <2>4. QED
    BY <1>1, <1>4, <1>5, <1>7, <2>2, <2>3 DEF CInv
<1>8. CASE current \in Req
  <2> DEFINE r == current
  <2>1. PhaseFits(breq[r], next, spi, cmdrsp, chip, transfer_pos)
    BY <1>2, <1>8 DEF Phases, PhaseFits, DfTypeOK
  <2>2. /\ PhaseFits(breq[r], next, spi, cmdrsp, Finished(chip), transfer_pos)
        /\ \/ breq[r].func = "write_buffered_wait" /\ chip.work = [op |-> "load", page |-> PageOf(breq[r])]
           \/ breq[r].func = "write_wait" /\ chip.work = [op |-> "program", page |-> PageOf(breq[r])]
    BY <1>1, <2>1, PhaseFinished
  <2>3. Phases'
    BY <1>1, <1>8, <2>2, Names DEF Phases, PhaseFits
  <2>4. QED
    BY <1>1, <1>4, <1>5, <1>8, <2>2, <2>3 DEF CInv
<1>9. QED
  BY <1>2, <1>6, <1>7, <1>8, Names

\* What the master leaves alone.
MasterAlone == UNCHANGED <<breq, next, transfer_pos, current_buf_list, given, lent, current>>

LEMMA MastersPhase ==
    ASSUME CInv, NEW t \in MasterTask, Runs(t)
    PROVE  /\ DfTypeOK /\ Turns /\ chip \in Chip /\ cmdrsp \in BOOLEAN /\ Busy
           /\ \/ current = DETECT /\ IdentFits(next, spi, cmdrsp, chip)
              \/ current \in Req /\ PhaseFits(breq[current], next, spi, cmdrsp, chip, transfer_pos)
<1>1. DfTypeOK /\ Turns /\ Phases
  BY DEF CInv
<1>2. current \in Client /\ Busy
  BY <1>1, MastersTurn
<1>3. QED
  BY <1>1, <1>2, Names DEF DfTypeOK, Phases, IdentFits, PhaseFits

LEMMA MasterFits ==
    ASSUME MasterAlone,
           \/ current = DETECT /\ IdentFits(next', spi', cmdrsp', chip')
           \/ current \in Req /\ PhaseFits(breq[current], next', spi', cmdrsp', chip', transfer_pos')
    PROVE  Phases'
BY Names DEF MasterAlone, Phases, IdentFits, PhaseFits

LEMMA PollKeepsControl ==
    ASSUME CInv, PollEnds, MasterAlone
    PROVE  /\ CInv' /\ SameMemory(chip, chip') /\ spi' = NoTransfer /\ data' = data /\ spi.op \in {"write", "read"}
           /\ spi.op = "read" => chip' = chip
<1>1. /\ Runs("poll") /\ spi.op \in {"write", "read"} /\ spi' = NoTransfer /\ queues' = Added(Popped, current)
      /\ data' = data /\ "poll" \in MasterTask /\ next' = next /\ transfer_pos' = transfer_pos /\ breq' = breq
      /\ current' = current
  BY DEF PollEnds, MasterTask, MasterAlone
<1>2. /\ DfTypeOK /\ Turns /\ chip \in Chip /\ cmdrsp \in BOOLEAN
      /\ \/ current = DETECT /\ IdentFits(next, spi, cmdrsp, chip)
         \/ current \in Req /\ PhaseFits(breq[current], next, spi, cmdrsp, chip, transfer_pos)
  BY <1>1, MastersPhase
<1>3. /\ \/ current = DETECT /\ IdentFits(next', spi', cmdrsp', chip')
         \/ current \in Req /\ PhaseFits(breq[current], next', spi', cmdrsp', chip', transfer_pos')
      /\ SameMemory(chip, chip') /\ cmdrsp' \in BOOLEAN /\ chip' \in Chip
      /\ spi.op = "read" => chip' = chip
  <2>1. CASE spi.op = "write"
    <3>1. chip' = Commanded(chip, spi.cmd) /\ cmdrsp' = cmdrsp
      BY <2>1 DEF PollEnds
    <3>2. CASE current = DETECT /\ IdentFits(next, spi, cmdrsp, chip)
      <4>1. IdentFits(next, NoTransfer, cmdrsp, Commanded(chip, spi.cmd)) /\ SameMemory(chip, Commanded(chip, spi.cmd))
        BY <2>1, <3>2, IdentCommanded
      <4>2. QED
        BY <1>1, <1>2, <2>1, <3>1, <3>2, <4>1 DEF IdentFits
    <3>3. CASE current \in Req /\ PhaseFits(breq[current], next, spi, cmdrsp, chip, transfer_pos)
      <4>1. /\ PhaseFits(breq[current], next, NoTransfer, cmdrsp, Commanded(chip, spi.cmd), transfer_pos)
            /\ SameMemory(chip, Commanded(chip, spi.cmd))
        BY <2>1, <3>3, PhaseCommanded
      <4>2. QED
        BY <1>1, <1>2, <2>1, <3>1, <3>3, <4>1 DEF PhaseFits
    <3>4. QED
      BY <1>2, <3>2, <3>3
  <2>2. CASE spi.op = "read"
    <3>1. chip' = chip /\ cmdrsp' = Ready(chip) /\ SameMemory(chip, chip')
      BY <2>2 DEF PollEnds, SameMemory
    <3>2. CASE current = DETECT /\ IdentFits(next, spi, cmdrsp, chip)
      BY <1>1, <1>2, <2>2, <3>1, <3>2, IdentAnswered DEF Ready
    <3>3. CASE current \in Req /\ PhaseFits(breq[current], next, spi, cmdrsp, chip, transfer_pos)
      BY <1>1, <1>2, <2>2, <3>1, <3>3, PhaseAnswered DEF Ready
    <3>4. QED
      BY <1>2, <3>2, <3>3
  <2>3. QED
    BY <1>1, <2>1, <2>2
<1>4. Phases'
  BY <1>3, MasterFits
<1>5. Turns' /\ queues' \in Queues
  BY <1>1, <1>2, Transfers, MasterEnds
<1>6. DfTypeOK' /\ ListFits'
  BY <1>1, <1>2, <1>3, <1>5, Transfers DEF DfTypeOK, Queues, MasterAlone, ListFits
<1>7. QED
  BY <1>1, <1>3, <1>4, <1>5, <1>6 DEF CInv

\* The transfer of a list is its owner's.
ListsTurn ==
    /\ current \in Req /\ PhaseFits(breq[current], next, spi, cmdrsp, chip, transfer_pos)
    /\ breq[current].operation = (IF spi.op = "write_list" THEN "write" ELSE "read")
    /\ chip.cmd = (IF spi.op = "write_list" THEN "buffer_write" ELSE "read") /\ Ready(chip)
    /\ breq[current].func \in {"transfer", "read_done", "write_done"}
    /\ spi.left \in Seq(Buffer) /\ spi.left # << >>
    /\ spi = (IF spi.op = "write_list" THEN WriteList(spi.left) ELSE ReadList(spi.left))

LEMMA ListsOwner ==
    ASSUME CInv, NEW t \in MasterTask, Runs(t), spi.op \in Lists
    PROVE  ListsTurn
<1>1. /\ chip \in Chip
      /\ \/ current = DETECT /\ IdentFits(next, spi, cmdrsp, chip)
         \/ current \in Req /\ PhaseFits(breq[current], next, spi, cmdrsp, chip, transfer_pos)
  BY MastersPhase
<1>2. current \in Req /\ PhaseFits(breq[current], next, spi, cmdrsp, chip, transfer_pos)
  BY <1>1, IdentNoList
<1>3. /\ chip.cmd = (IF spi.op = "write_list" THEN "buffer_write" ELSE "read")
      /\ breq[current].operation = (IF spi.op = "write_list" THEN "write" ELSE "read")
      /\ breq[current].func \in {"transfer", "read_done", "write_done"} /\ Ready(chip)
  BY <1>1, <1>2, PhaseOfList
<1>4. spi = (IF spi.op = "write_list" THEN WriteList(spi.left) ELSE ReadList(spi.left))
  <2>1. /\ spi # NoTransfer /\ spi # Read /\ \A k : spi # Write(k)
    BY Transfers
  <2>2. Phase(breq[current], next, spi, cmdrsp, chip, transfer_pos)
    BY <1>2 DEF PhaseFits
  <2>3. Moving(breq[current], spi, chip)
    BY <1>3, <2>1, <2>2 DEF Phase, Ordered, Polling, Rests, Answered
  <2>4. QED
    BY <1>3, <2>1, <2>3, Transfers DEF Moving
<1>5. QED
  BY <1>2, <1>3, <1>4 DEF ListsTurn, CInv, ListFits

LEMMA PollBufferKeepsControl ==
    ASSUME CInv, PollEndsBuffer, MasterAlone
    PROVE  /\ CInv' /\ ListsTurn /\ spi.op \in Lists /\ "poll_next_buffer" \in OnMain' /\ "poll_next_buffer" \notin OnMain
           /\ spi' = spi /\ cmdrsp' = cmdrsp /\ Head(spi.left) \in Buffer
           /\ IF spi.op = "write_list"
              THEN chip' = Written(chip, data[Head(spi.left)]) /\ data' = data
              ELSE /\ data' = [data EXCEPT ![Head(spi.left)] = BlockOut(chip, @)]
                   /\ chip' = BlockRead(chip)
<1>1. /\ Runs("poll") /\ spi.op \in Lists /\ queues' = Added(Popped, "poll_next_buffer")
      /\ "poll" \in MasterTask /\ "poll_next_buffer" \in MasterTask /\ spi' = spi /\ cmdrsp' = cmdrsp
      /\ IF spi.op = "write_list"
         THEN chip' = Written(chip, data[Head(spi.left)]) /\ data' = data
         ELSE /\ data' = [data EXCEPT ![Head(spi.left)] = BlockOut(chip, @)]
              /\ chip' = BlockRead(chip)
      /\ current' = current /\ breq' = breq /\ next' = next /\ transfer_pos' = transfer_pos
  BY DEF PollEndsBuffer, MasterTask, MasterAlone, Lists
<1>2. DfTypeOK /\ Turns /\ chip \in Chip /\ cmdrsp \in BOOLEAN
  BY <1>1, MastersPhase
<1>3. ListsTurn
  BY <1>1, ListsOwner
<1>4. Head(spi.left) \in Buffer /\ data[Head(spi.left)] \in Value
  <2>1. Head(spi.left) \in Buffer
    BY <1>3, HeadTailProperties DEF ListsTurn
  <2>2. QED
    BY <1>2, <2>1 DEF DfTypeOK
<1>5. chip' \in Chip /\ chip'.selected = chip.selected /\ chip'.cmd = chip.cmd /\ chip'.work = chip.work
      /\ data' \in [Buffer -> Value]
  <2> DEFINE v == data[Head(spi.left)]
  <2>1. /\ Written(chip, v) \in Chip /\ Written(chip, v).selected = chip.selected /\ Written(chip, v).cmd = chip.cmd
        /\ Written(chip, v).work = chip.work
        /\ BlockRead(chip) \in Chip /\ SameMemory(chip, BlockRead(chip))
        /\ BlockRead(chip).selected = chip.selected /\ BlockRead(chip).cmd = chip.cmd
        /\ BlockOut(chip, v) \in Value
    BY <1>2, <1>4, BlockMoved
  <2>2. CASE spi.op = "write_list"
    BY <1>1, <1>2, <2>1, <2>2 DEF DfTypeOK
  <2>3. CASE spi.op # "write_list"
    <3>1. data' = [data EXCEPT ![Head(spi.left)] = BlockOut(chip, v)] /\ chip' = BlockRead(chip)
      BY <1>1, <1>2, <1>4, <2>3 DEF DfTypeOK
    <3>2. QED
      BY <1>2, <1>4, <2>1, <3>1 DEF DfTypeOK, SameMemory
  <2>4. QED
    BY <2>2, <2>3
<1>6. /\ current \in Req /\ PhaseFits(breq[current], next, spi, cmdrsp, chip, transfer_pos)
      /\ spi' \in {ReadList(spi'.left), WriteList(spi'.left)}
  BY <1>1, <1>3 DEF ListsTurn
<1>7. PhaseFits(breq[current], next, spi', cmdrsp, chip', transfer_pos)
  BY <1>1, <1>5, <1>6, PhaseMoved
<1>8. Phases'
  BY <1>1, <1>6, <1>7, MasterFits
<1>9. Turns' /\ queues' \in Queues /\ ("poll_next_buffer" \in OnMain')
  BY <1>1, <1>2, MasterGoesOn
<1>10. "poll_next_buffer" \notin OnMain
  <2>1. OnMain \cap MasterTask = {"poll"}
    BY <1>1, <1>2, MastersTurn
  <2>2. QED
    BY <1>1, <2>1
<1>11. DfTypeOK' /\ ListFits'
  BY <1>1, <1>2, <1>5, <1>9 DEF DfTypeOK, Queues, MasterAlone, ListFits, CInv
<1>12. QED
  BY <1>1, <1>3, <1>4, <1>8, <1>9, <1>10, <1>11 DEF CInv

\* The list of s without the buffer at its head.
Shortened(s) == [s EXCEPT !.left = Tail(@)]

LEMMA ListShortened ==
    ASSUME NEW l, NEW s, s = ReadList(l) \/ s = WriteList(l)
    PROVE  /\ Shortened(s).op = s.op /\ Shortened(s).left = Tail(l)
           /\ Shortened(s) \in {ReadList(Tail(l)), WriteList(Tail(l))}
<1>1. CASE s = ReadList(l)
  <2> DEFINE m == Tail(l)
  <2>0. s.left = l /\ s = [op |-> s.op, left |-> l] /\ ReadList(m) = [op |-> s.op, left |-> m]
    BY <1>1 DEF ReadList
  <2> HIDE DEF m
  <2>01. Shortened(s) = [s EXCEPT !.left = m]
    BY <2>0 DEF Shortened, m
  <2>1. Shortened(s) = ReadList(m)
    BY <2>0, <2>01
  <2>2. QED
    BY ZenonT(60), <1>1, <2>1, Transfers DEF m
<1>2. CASE s = WriteList(l)
  <2> DEFINE m == Tail(l)
  <2>0. s.left = l /\ s = [op |-> s.op, left |-> l] /\ WriteList(m) = [op |-> s.op, left |-> m]
    BY <1>2 DEF WriteList
  <2> HIDE DEF m
  <2>01. Shortened(s) = [s EXCEPT !.left = m]
    BY <2>0 DEF Shortened, m
  <2>1. Shortened(s) = WriteList(m)
    BY <2>0, <2>01
  <2>2. QED
    BY ZenonT(60), <1>2, <2>1, Transfers DEF m
<1>3. QED
  BY <1>1, <1>2

LEMMA LongTail ==
    ASSUME NEW l \in Seq(Buffer), l # << >>
    PROVE  /\ Len(l) \in Nat /\ Len(l) >= 1
           /\ Len(l) # 1 => Tail(l) \in Seq(Buffer) /\ Tail(l) # << >>
           /\ Tail(l) \in Seq(Buffer) /\ Len(Tail(l)) = Len(l) - 1
<1>1. /\ Tail(l) \in Seq(Buffer) /\ Len(Tail(l)) = Len(l) - 1
  BY HeadTailProperties
<1>2. Len(l) \in Nat /\ Len(l) >= 1
  BY LenProperties, EmptySeq
<1>3. ASSUME Tail(l) = << >>, Len(l) # 1 PROVE FALSE
  <2>1. Len(Tail(l)) = 0
    BY <1>3, EmptySeq, Zenon
  <2>2. Len(l) = 1
    BY ONLY <2>1, <1>1, <1>2
  <2>3. QED
    BY <1>3, <2>2
<1>4. QED
  BY <1>1, <1>2, <1>3

LEMMA NextBufferKeepsControl ==
    ASSUME CInv, NextBuffer, MasterAlone
    PROVE  /\ CInv' /\ ListsTurn /\ spi.op \in Lists /\ "poll_next_buffer" \in OnMain /\ "poll_next_buffer" \notin OnMain'
           /\ UNCHANGED <<cmdrsp, data, chip>>
           /\ \/ Len(spi.left) = 1 /\ spi' = NoTransfer
              \/ Len(spi.left) > 1 /\ spi'.op = spi.op /\ spi'.left = Tail(spi.left)
<1>1. /\ Runs("poll_next_buffer") /\ "poll" \in MasterTask /\ "poll_next_buffer" \in MasterTask
      /\ UNCHANGED <<cmdrsp, data, chip>>
      /\ current' = current /\ breq' = breq /\ next' = next /\ transfer_pos' = transfer_pos
      /\ IF Len(spi.left) = 1
         THEN spi' = NoTransfer /\ queues' = Added(Popped, current)
         ELSE /\ spi' = Shortened(spi)
              /\ queues' = Added(Popped, "poll")
  BY DEF NextBuffer, MasterTask, MasterAlone, Shortened
<1>2. DfTypeOK /\ Turns /\ chip \in Chip /\ cmdrsp \in BOOLEAN
  BY <1>1, MastersPhase
<1>3. spi.op \in Lists /\ OnMain \cap MasterTask = {"poll_next_buffer"}
  BY <1>1, <1>2, MastersTurn
<1>4. ListsTurn
  BY <1>1, <1>3, ListsOwner
<1>5. spi.left \in Seq(Buffer) /\ spi.left # << >>
  BY <1>4 DEF ListsTurn
<1>6. /\ Len(spi.left) \in Nat /\ Len(spi.left) >= 1
      /\ Len(spi.left) # 1 => Tail(spi.left) \in Seq(Buffer) /\ Tail(spi.left) # << >>
  BY <1>5, LongTail
<1>7. \/ Len(spi.left) = 1 /\ spi' = NoTransfer /\ queues' = Added(Popped, current)
      \/ /\ Len(spi.left) # 1 /\ Len(spi.left) > 1 /\ spi'.op = spi.op /\ spi'.left = Tail(spi.left)
         /\ spi' \in {ReadList(spi'.left), WriteList(spi'.left)} /\ queues' = Added(Popped, "poll")
  <2>1. CASE Len(spi.left) = 1
    BY <1>1, <2>1
  <2>2. CASE Len(spi.left) # 1
    <3>1. spi = ReadList(spi.left) \/ spi = WriteList(spi.left)
      BY <1>4 DEF ListsTurn
    <3>2. spi' = Shortened(spi) /\ queues' = Added(Popped, "poll") /\ Len(spi.left) > 1
      BY <1>1, <1>6, <2>2
    <3>3. /\ Shortened(spi).op = spi.op /\ Shortened(spi).left = Tail(spi.left)
          /\ Shortened(spi) \in {ReadList(Tail(spi.left)), WriteList(Tail(spi.left))}
      BY <3>1, ListShortened
    <3>4. QED
      BY <2>2, <3>2, <3>3
  <2>3. QED
    BY <2>1, <2>2
<1>8. ListFits'
  <2>1. CASE spi' = NoTransfer
    BY <2>1, Transfers DEF ListFits
  <2>2. CASE Len(spi.left) # 1 /\ spi'.left = Tail(spi.left)
    <3>1. Tail(spi.left) \in Seq(Buffer) /\ Tail(spi.left) # << >>
      BY <1>6, <2>2
    <3>2. QED
      BY <2>2, <3>1 DEF ListFits
  <2>3. QED
    BY <1>7, <2>1, <2>2
<1>9. PhaseFits(breq[current], next, spi', cmdrsp, chip, transfer_pos) /\ current \in Req
  <2>1. spi' = NoTransfer \/ (spi'.op = spi.op /\ spi' \in {ReadList(spi'.left), WriteList(spi'.left)})
    BY <1>7
  <2>11. current \in Req /\ PhaseFits(breq[current], next, spi, cmdrsp, chip, transfer_pos)
    BY <1>4 DEF ListsTurn
  <2>2. QED
    BY <1>2, <1>3, <2>1, <2>11, PhaseMoved
<1>10. Phases'
  BY <1>1, <1>9, MasterFits
<1>11. Turns' /\ queues' \in Queues /\ "poll_next_buffer" \notin OnMain'
  <2>1. CASE spi' = NoTransfer /\ queues' = Added(Popped, current)
    <3>1. Turns' /\ queues' \in Queues
      BY <1>1, <1>2, <2>1, Transfers, MasterEnds
    <3>2. spi'.op \notin Lists
      BY <2>1, Transfers
    <3>3. QED
      BY <3>1, <3>2 DEF Turns
  <2>2. CASE spi'.op = spi.op /\ queues' = Added(Popped, "poll")
    BY <1>1, <1>2, <1>3, <2>2, MasterGoesOn
  <2>3. QED
    BY <1>7, <2>1, <2>2
<1>12. DfTypeOK'
  BY <1>1, <1>2, <1>11 DEF DfTypeOK, Queues, MasterAlone
<1>13. QED
  BY <1>1, <1>3, <1>4, <1>7, <1>8, <1>10, <1>11, <1>12 DEF CInv


-----------------------------------------------------------------------------
(* The clients.                                                            *)

LEMMA BufferNumbers ==
    ASSUME NEW r \in Req, NEW i \in Nat, NEW j \in Nat, i <= j, j <= MaxLen
    PROVE  /\ Bufs(r, i, j) \in Seq(Buffer) /\ Len(Bufs(r, i, j)) = j - i
           /\ \A k \in 1 .. j - i : Bufs(r, i, j)[k] = <<r, i + k>>
           /\ Range(Bufs(r, i, j)) = {<<r, k>> : k \in i + 1 .. j} /\ Range(Bufs(r, i, j)) \subseteq Buffer
<1>1. MaxLen \in Nat /\ Buffer = Req \X (1 .. MaxLen)
  BY DataflashAssumption
<1>2. \A k \in 1 .. j - i : i + k \in i + 1 .. j /\ i + k \in 1 .. MaxLen /\ <<r, i + k>> \in Buffer
  BY <1>1
<1>3. j - i \in Nat /\ Bufs(r, i, j) = [k \in 1 .. j - i |-> <<r, i + k>>]
  BY DEF Bufs
<1>4. Bufs(r, i, j) \in [1 .. j - i -> Buffer]
  BY <1>2, <1>3
<1>5. Bufs(r, i, j) \in Seq(Buffer) /\ DOMAIN Bufs(r, i, j) = 1 .. j - i
  BY <1>3, <1>4, SeqDef
<1>6. Len(Bufs(r, i, j)) = j - i
  BY <1>3, <1>5, LenProperties
<1>7. \A k \in 1 .. j - i : Bufs(r, i, j)[k] = <<r, i + k>>
  BY <1>3
<1>8. Range(Bufs(r, i, j)) = {<<r, k>> : k \in i + 1 .. j}
  <2> DEFINE l == Bufs(r, i, j)
  <2>1. \A k \in i + 1 .. j : k - i \in 1 .. j - i /\ i + (k - i) = k
    OBVIOUS
  <2>2. Range(l) = {l[k] : k \in 1 .. j - i} /\ \A k \in 1 .. j - i : l[k] = <<r, i + k>>
    BY <1>5, <1>7 DEF Range
  <2> HIDE DEF l
  <2>3. ASSUME NEW k \in 1 .. j - i PROVE l[k] \in {<<r, m>> : m \in i + 1 .. j}
    BY <1>2, <2>2
  <2>4. ASSUME NEW k \in i + 1 .. j PROVE <<r, k>> \in Range(l)
    <3>1. k - i \in 1 .. j - i /\ l[k - i] = <<r, k>>
      BY <2>1, <2>2
    <3>2. QED
      BY <2>2, <3>1
  <2>5. Range(l) = {<<r, k>> : k \in i + 1 .. j}
    BY <2>2, <2>3, <2>4
  <2>6. QED
    BY <2>5 DEF l
<1>9. Range(Bufs(r, i, j)) \subseteq Buffer
  BY <1>2, <1>5, <1>7 DEF Range
<1>10. QED
  BY <1>5, <1>6, <1>7, <1>8, <1>9

LEMMA DataFilled ==
    ASSUME data \in [Buffer -> Value], NEW r, NEW i, NEW j, NEW op
    PROVE  Filled(r, i, j, op) \in [Buffer -> Value]
BY DataflashAssumption DEF Filled

LEMMA PhaseSame ==
    ASSUME NEW b, NEW c \in BlockRequest, SameButSleep(b, c), c.func = b.func,
           NEW nx, NEW s, NEW rdy, NEW d, NEW tp, Phase(b, nx, s, rdy, d, tp)
    PROVE  Phase(c, nx, s, rdy, d, tp)
<1>1. PageOf(c) = PageOf(b) /\ PosOf(c) = PosOf(b) /\ end_pos(c) = end_pos(b) /\ c.operation = b.operation
  BY DEF SameButSleep, PageOf, PosOf, end_pos, dataflash_get_remaining_page_size
<1>2. Moving(b, s, d) => Moving(c, s, d)
  BY <1>1 DEF Moving
<1>3. QED
  BY <1>1, <1>2 DEF Phase

\* r's request as its client submits it.
Asked(r, a, op, n) ==
    [func |-> "start", lba |-> a[1], remaining_blocks |-> a[2],
     operation |-> op, sleeping |-> FALSE,
     buf_list |-> breq[r].buf_list \o Bufs(r, 0, n),
     status |-> "in_progress", bytes_xfered |-> 0]

LEMMA AskedFor ==
    ASSUME DfTypeOK, NEW r \in Req, NEW op \in {"read", "write"}, NEW a \in Ranges[r], NEW n \in {0, a[2]}
    PROVE  /\ a[1] \in Nat /\ a[2] \in 1 .. MaxLen /\ n \in Nat /\ n <= MaxLen /\ n <= a[2] /\ MaxLen \in Nat
           /\ a[1] + a[2] - 1 \in Block /\ a[1] \in Block
           /\ Asked(r, a, op, n) \in BlockRequest
<1>1. /\ a[1] \in Block /\ a[2] \in 1 .. MaxLen /\ MaxLen \in Nat /\ a[1] + a[2] - 1 \in Block
  BY DataflashAssumption
<1>2. a[1] \in Nat /\ n \in Nat /\ n <= MaxLen /\ n <= a[2]
  BY <1>1, Sizes DEF Block
<1>3. Bufs(r, 0, n) \in Seq(Buffer) /\ breq[r].buf_list \in Seq(Buffer)
  <2>1. breq[r].buf_list \in Seq(Buffer)
    BY DEF DfTypeOK, BlockRequest
  <2>2. 0 \in Nat /\ 0 <= n
    BY <1>2
  <2>3. QED
    BY <1>2, <2>1, <2>2, BufferNumbers
<1>4. breq[r].buf_list \o Bufs(r, 0, n) \in Seq(Buffer)
  BY <1>3, ConcatProperties
<1>5. QED
  BY <1>1, <1>2, <1>4 DEF BlockRequest, Func, Asked

LEMMA SubmitKeepsControl ==
    ASSUME CInv, NEW r \in Req, NEW op \in {"read", "write"}, NEW a \in Ranges[r], NEW n \in {0, a[2]},
           Submit(r, a[1], a[2], op, n)
    PROVE  /\ CInv' /\ current' = (IF current = NULL THEN r ELSE current) /\ r # current
           /\ ("poll_next_buffer" \in OnMain' <=> "poll_next_buffer" \in OnMain)
<1>1. /\ breq' = [breq EXCEPT ![r] = Asked(r, a, op, n)] /\ RequestBus(r) /\ Done(r)
      /\ given' = [given EXCEPT ![r] = [first |-> a[1], count |-> a[2], bufs |-> n]]
      /\ lent' = lent \cup Range(Bufs(r, 0, n)) /\ data' = Filled(r, 0, n, op)
      /\ UNCHANGED <<next, transfer_pos, current_buf_list, spi, cmdrsp, chip>>
  BY DEF Submit, Asked
<1>2. DfTypeOK /\ Turns /\ Phases /\ ListFits
  BY DEF CInv
<1>3. /\ a[1] \in Nat /\ a[2] \in 1 .. MaxLen /\ n \in Nat /\ n <= MaxLen /\ n <= a[2] /\ MaxLen \in Nat
      /\ Asked(r, a, op, n) \in BlockRequest
  BY <1>2, AskedFor
<1>4. Range(Bufs(r, 0, n)) \subseteq Buffer
  BY <1>3, BufferNumbers
<1>5. /\ breq'[r] = Asked(r, a, op, n) /\ OnlyOwner(r)
  BY <1>1, <1>2, <1>3 DEF DfTypeOK, OnlyOwner
<1>6. breq'[r].status = "in_progress" /\ breq'[r].func = "start" /\ ~ breq'[r].sleeping
  BY <1>5 DEF Asked
<1>7. /\ Turns' /\ queues' \in Queues /\ ("poll_next_buffer" \in OnMain' <=> "poll_next_buffer" \in OnMain)
      /\ current' = (IF current = NULL THEN r ELSE current)
  BY <1>1, <1>2, <1>5, <1>6, RequestTurns
<1>8. DfTypeOK'
  <2>1. given' \in [Req -> [first : Nat, count : 0 .. MaxLen, bufs : Nat]]
    <3>1. [first |-> a[1], count |-> a[2], bufs |-> n] \in [first : Nat, count : 0 .. MaxLen, bufs : Nat]
      BY <1>3
    <3>2. QED
      BY <1>1, <1>2, <3>1 DEF DfTypeOK
  <2>2. lent' \in SUBSET Buffer
    BY <1>1, <1>2, <1>4 DEF DfTypeOK
  <2>3. data' \in [Buffer -> Value]
    BY <1>1, <1>2, DataFilled DEF DfTypeOK
  <2>4. breq' \in [Req -> BlockRequest] /\ current' \in Client \cup {NULL}
    BY <1>2, <1>5, <1>7, Names DEF OnlyOwner, DfTypeOK
  <2>5. QED
    BY <1>1, <1>2, <1>7, <2>1, <2>2, <2>3, <2>4 DEF DfTypeOK, Queues
<1>9. r # current
  BY <1>1, <1>2 DEF Turns
<1>10. Phases'
  <2>1. CASE current = NULL
    <3>1. Rests(next', spi', chip')
      BY <1>1, <1>2, <2>1 DEF Phases
    <3>2. QED
      BY <1>6, <1>7, <2>1, <3>1, Names DEF Phases, Phase
  <2>2. CASE current # NULL
    BY <1>1, <1>2, <1>5, <1>7, <1>9, <2>2 DEF Phases, OnlyOwner
  <2>3. QED
    BY <2>1, <2>2
<1>11. ListFits'
  BY <1>1, <1>2 DEF ListFits
<1>12. QED
  BY <1>7, <1>8, <1>9, <1>10, <1>11 DEF CInv

\* r's request with the buffers up to number g.bufs + n.
Provided(r, n) ==
    [breq[r] EXCEPT !.buf_list = @ \o Bufs(r, given[r].bufs, given[r].bufs + n), !.sleeping = FALSE]

LEMMA ProvidedWith ==
    ASSUME DfTypeOK, NEW r \in Req, NEW n \in 1 .. MaxLen, given[r].bufs + n <= given[r].count
    PROVE  /\ given[r].bufs \in Nat /\ given[r].bufs + n \in Nat /\ given[r].bufs + n <= MaxLen /\ MaxLen \in Nat
           /\ Provided(r, n) \in BlockRequest /\ SameButSleep(breq[r], Provided(r, n))
           /\ Provided(r, n).func = breq[r].func /\ ~ Provided(r, n).sleeping
           /\ Provided(r, n).buf_list = breq[r].buf_list \o Bufs(r, given[r].bufs, given[r].bufs + n)
<1> DEFINE g == given[r]
           l == breq[r].buf_list \o Bufs(r, g.bufs, g.bufs + n)
<1>1. /\ g.bufs \in Nat /\ g.count \in 0 .. MaxLen /\ MaxLen \in Nat /\ n \in Nat /\ breq[r] \in BlockRequest
  BY DataflashAssumption DEF DfTypeOK
<1>2. g.bufs + n \in Nat /\ g.bufs + n <= MaxLen /\ g.bufs <= g.bufs + n
  BY <1>1
<1>3. Bufs(r, g.bufs, g.bufs + n) \in Seq(Buffer) /\ breq[r].buf_list \in Seq(Buffer)
  BY <1>1, <1>2, BufferNumbers DEF BlockRequest
<1>4. l \in Seq(Buffer)
  BY <1>3, ConcatProperties
<1>5. Provided(r, n) = [breq[r] EXCEPT !.buf_list = l, !.sleeping = FALSE]
  BY <1>1 DEF Provided, BlockRequest
<1> HIDE DEF l
<1>6. /\ Provided(r, n) \in BlockRequest /\ SameButSleep(breq[r], Provided(r, n))
      /\ Provided(r, n).func = breq[r].func /\ ~ Provided(r, n).sleeping /\ Provided(r, n).buf_list = l
  BY <1>1, <1>4, <1>5 DEF BlockRequest, SameButSleep
<1>7. QED
  BY <1>1, <1>2, <1>6 DEF l

LEMMA SupplyKeepsControl ==
    ASSUME CInv, NEW r \in Req, NEW n \in 1 .. MaxLen, SubmitBufList(r, n)
    PROVE  /\ CInv' /\ ("poll_next_buffer" \in OnMain' <=> "poll_next_buffer" \in OnMain)
           /\ breq' = [breq EXCEPT ![r] = Provided(r, n)] /\ ~ Done(r)
<1>1. DfTypeOK /\ Turns /\ Phases /\ ListFits
  BY DEF CInv
<1>2. /\ ~ Done(r) /\ given[r].bufs + n <= given[r].count
      /\ given' = [given EXCEPT ![r].bufs = @ + n]
      /\ lent' = lent \cup Range(Bufs(r, given[r].bufs, given[r].bufs + n))
      /\ data' = Filled(r, given[r].bufs, given[r].bufs + n, breq[r].operation)
      /\ queues' = IF breq[r].sleeping THEN Added(queues, r) ELSE queues
      /\ UNCHANGED <<next, transfer_pos, current_buf_list, current, spi, cmdrsp, chip>>
  BY DEF SubmitBufList, Supplied
<1>3. /\ given[r].bufs \in Nat /\ given[r].bufs + n \in Nat /\ given[r].bufs + n <= MaxLen /\ MaxLen \in Nat
      /\ Provided(r, n) \in BlockRequest /\ SameButSleep(breq[r], Provided(r, n))
      /\ Provided(r, n).func = breq[r].func /\ ~ Provided(r, n).sleeping
  BY <1>1, <1>2, ProvidedWith
<1>4. breq' = [breq EXCEPT ![r] = Provided(r, n)]
  <2>1. breq' = [breq EXCEPT ![r].buf_list = @ \o Bufs(r, given[r].bufs, given[r].bufs + n),
                             ![r].sleeping = FALSE]
    BY DEF SubmitBufList
  <2>2. breq \in [Req -> BlockRequest]
    BY <1>1 DEF DfTypeOK
  <2>3. QED
    BY <2>1, <2>2 DEF Provided
<1>5. breq'[r] = Provided(r, n) /\ OnlyOwner(r)
  BY <1>1, <1>3, <1>4 DEF OnlyOwner, DfTypeOK
<1>6. Turns' /\ queues' \in Queues /\ ("poll_next_buffer" \in OnMain' <=> "poll_next_buffer" \in OnMain)
  <2>1. breq'[r].status = breq[r].status /\ breq'[r].func = breq[r].func /\ ~ breq'[r].sleeping
    BY <1>3, <1>5 DEF SameButSleep
  <2>2. QED
    BY <1>1, <1>2, <1>5, <2>1, SupplyTurns
<1>7. DfTypeOK'
  <2>1. given' \in [Req -> [first : Nat, count : 0 .. MaxLen, bufs : Nat]]
    <3>1. given[r] \in [first : Nat, count : 0 .. MaxLen, bufs : Nat]
      BY <1>1 DEF DfTypeOK
    <3>2. [given[r] EXCEPT !.bufs = given[r].bufs + n] \in [first : Nat, count : 0 .. MaxLen, bufs : Nat]
      BY <1>3, <3>1
    <3>3. given' = [given EXCEPT ![r] = [given[r] EXCEPT !.bufs = given[r].bufs + n]]
      BY <1>1, <1>2 DEF DfTypeOK
    <3>4. QED
      BY <1>1, <3>2, <3>3 DEF DfTypeOK
  <2>2. lent' \in SUBSET Buffer
    <3>1. given[r].bufs <= given[r].bufs + n
      BY <1>3
    <3>2. Range(Bufs(r, given[r].bufs, given[r].bufs + n)) \subseteq Buffer
      BY <1>3, <3>1, BufferNumbers
    <3>3. QED
      BY <1>1, <1>2, <3>2 DEF DfTypeOK
  <2>3. data' \in [Buffer -> Value]
    BY <1>1, <1>2, DataFilled DEF DfTypeOK
  <2>4. QED
    BY <1>1, <1>2, <1>5, <1>6, <2>1, <2>2, <2>3 DEF DfTypeOK, Queues, OnlyOwner
<1>8. Phases'
  <2>1. \A t \in Req : current = t => Phase(breq'[t], next, spi, cmdrsp, chip, transfer_pos)
    <3> TAKE t \in Req
    <3>1. CASE t = r
      BY <1>1, <1>3, <1>5, <3>1, PhaseSame DEF Phases
    <3>2. CASE t # r
      BY <1>1, <1>5, <3>2 DEF Phases, OnlyOwner
    <3>3. QED
      BY <3>1, <3>2
  <2>2. QED
    BY <1>1, <1>2, <2>1 DEF Phases
<1>9. ListFits'
  BY <1>1, <1>2 DEF ListFits
<1>10. QED
  BY <1>2, <1>4, <1>6, <1>7, <1>8, <1>9 DEF CInv

LEMMA StutterKeepsControl ==
    ASSUME CInv, UNCHANGED vars
    PROVE  CInv'
<1>1. UNCHANGED <<breq, next, transfer_pos, current_buf_list, given, lent, queues, current, spi, cmdrsp, data, chip>>
  BY DEF vars, driverVars, spiVars, clientVars
<1>2. QED
  BY <1>1 DEF CInv, DfTypeOK, Turns, Phases, ListFits, OnMain, OnBus, Busy, Asleep, Done

LEMMA MasterKeepsControl ==
    ASSUME CInv, Master
    PROVE  CInv'
<1>1. MasterAlone /\ (PollEnds \/ PollEndsBuffer \/ NextBuffer)
  BY DEF Master, MasterStep, PollEnds, PollEndsBuffer, NextBuffer, MasterAlone, driverVars, clientVars
<1>2. QED
  BY <1>1, PollKeepsControl, PollBufferKeepsControl, NextBufferKeepsControl

LEMMA ControlKept ==
    ASSUME CInv, [Next]_vars
    PROVE  CInv'
<1>1. CASE Master
  BY <1>1, MasterKeepsControl
<1>2. CASE Identify
  BY <1>2, IdentifyKeepsControl
<1>3. CASE Identified
  BY <1>3, IdentifiedKeepsControl
<1>4. CASE Event
  BY <1>4, EventKeepsControl
<1>5. CASE \E r \in Req : Request(r)
  BY <1>5, RequestKeepsControl
<1>6. CASE ChipFinishes
  BY <1>6, ChipKeepsControl
<1>7. CASE \E r \in Req, op \in {"read", "write"} : \E a \in Ranges[r] : \E n \in {0, a[2]} :
            Submit(r, a[1], a[2], op, n)
  <2>1. PICK r \in Req, op \in {"read", "write"} : \E a \in Ranges[r] : \E n \in {0, a[2]} :
            Submit(r, a[1], a[2], op, n)
    BY <1>7
  <2>2. PICK a \in Ranges[r] : \E n \in {0, a[2]} : Submit(r, a[1], a[2], op, n)
    BY <2>1
  <2>3. PICK n \in {0, a[2]} : Submit(r, a[1], a[2], op, n)
    BY <2>2
  <2>4. QED
    BY <2>3, SubmitKeepsControl
<1>8. CASE \E r \in Req : Supply(r)
  BY <1>8, SupplyKeepsControl DEF Supply
<1>9. CASE UNCHANGED vars
  BY <1>9, StutterKeepsControl
<1>10. QED
  BY <1>1, <1>2, <1>3, <1>4, <1>5, <1>6, <1>7, <1>8, <1>9 DEF Next, MainLoopStep

LEMMA ControlHolds == Spec => []CInv
<1>1. Init => CInv
  BY ControlStarts
<1>2. CInv /\ [Next]_vars => CInv'
  BY ControlKept
<1>3. QED
  BY <1>1, <1>2, PTL DEF Spec

\* When the bus is handed on, dataflash_request_done and identification have left
\* the chip deselected and idle, and no AT45 operation or transfer under way.
THEOREM NextOwnerStartsFresh == Spec => []NextOwnerFindsChipIdle
<1>1. CInv => NextOwnerFindsChipIdle
  <2> SUFFICES ASSUME CInv, current = NULL \/ \E r \in Req : current = r /\ breq[r].func = "start"
               PROVE  ~ chip.selected /\ Ready(chip) /\ next = NULL /\ ~ Busy
    BY DEF NextOwnerFindsChipIdle
  <2>1. Rests(next, spi, chip)
    BY DEF CInv, Phases, Phase
  <2>2. QED
    BY <2>1, Transfers DEF Rests, Busy
<1>2. QED
  BY ControlHolds, <1>1, PTL


-----------------------------------------------------------------------------
(* The invariant of data, for pages of two blocks.                         *)

PagesOfTwo == PageBlocks = 2

LEMMA DataStarts == Init => DInv
<1> SUFFICES ASSUME Init PROVE DInv
  OBVIOUS
<1>1. /\ current = DETECT /\ current_buf_list = << >> /\ lent = {} /\ DETECT \notin Req
      /\ \A r \in Req : breq[r].status = "ok" /\ breq[r].buf_list = << >>
  BY Names DEF Init
<1>2. QED
  BY <1>1 DEF DInv, Lent, Done

LEMMA CountedFacts ==
    ASSUME CInv, DInv, NEW r \in Req, ~ Done(r)
    PROVE  /\ breq[r] \in BlockRequest /\ breq[r].operation \in {"read", "write"} /\ breq[r].bytes_xfered \in Nat
           /\ given[r] # NoAsk /\ given[r].count \in 1 .. MaxLen /\ given[r].first \in Nat /\ given[r].bufs \in Nat
           /\ MaxLen \in Nat /\ given[r].first + given[r].count - 1 \in Block
           /\ breq[r].lba = given[r].first + breq[r].bytes_xfered
           /\ breq[r].remaining_blocks = given[r].count - breq[r].bytes_xfered /\ breq[r].remaining_blocks > 0
           /\ Taken(r) \in Nat /\ Taken(r) <= given[r].bufs /\ given[r].bufs <= given[r].count
           /\ breq[r].buf_list = Bufs(r, Taken(r), given[r].bufs)
           /\ breq[r].operation = "write" => \A i \in 1 .. given[r].bufs : data[<<r, i>>] = <<r, i>>
<1>1. /\ breq[r] \in BlockRequest /\ given[r] \in [first : Nat, count : 0 .. MaxLen, bufs : Nat] /\ transfer_pos \in Nat
      /\ Counted(r) /\ MaxLen \in Nat
  BY DataflashAssumption DEF CInv, DfTypeOK, DInv
<1>2. breq[r].operation \in {"read", "write"} /\ breq[r].bytes_xfered \in Nat
  BY <1>1 DEF BlockRequest
<1>3. given[r] # NoAsk
  BY DEF DInv
<1>4. Taken(r) \in Nat
  BY <1>1, <1>2 DEF Taken
<1>5. QED
  BY <1>1, <1>2, <1>3, <1>4 DEF Counted

LEMMA PageFacts ==
    ASSUME NEW b \in BlockRequest, b.remaining_blocks > 0
    PROVE  /\ PageOf(b) \in Nat /\ PosOf(b) \in {0, 1} /\ b.lba = 2 * PageOf(b) + PosOf(b)
           /\ end_pos(b) \in {1, 2} /\ PosOf(b) + end_pos(b) <= 2 /\ end_pos(b) <= b.remaining_blocks
           /\ PagesOfTwo => (dataflash_is_page_aligned(b) <=> end_pos(b) = 2)
<1>1. b.remaining_blocks \in Int /\ b.lba \in Nat
  BY DEF BlockRequest
<1>2. PageOf(b) \in Nat /\ PosOf(b) \in {0, 1} /\ b.lba = 2 * PageOf(b) + PosOf(b) /\ end_pos(b) \in {1, 2}
  BY Positions
<1>3. PosOf(b) + end_pos(b) <= 2 /\ end_pos(b) <= b.remaining_blocks
  BY <1>1, <1>2 DEF end_pos, dataflash_get_remaining_page_size, PosOf
<1>4. PagesOfTwo => (dataflash_is_page_aligned(b) <=> end_pos(b) = 2)
  BY DEF PagesOfTwo, end_pos, dataflash_get_remaining_page_size, dataflash_is_page_aligned
<1>5. QED
  BY <1>2, <1>3, <1>4

\* The owner of the bus.
LEMMA OwnersFacts ==
    ASSUME CInv, DInv, NEW r \in Req, current = r
    PROVE  /\ ~ Done(r) /\ Owned(r) /\ chip \in Chip /\ transfer_pos \in Nat
           /\ PhaseFits(breq[r], next, spi, cmdrsp, chip, transfer_pos)
           /\ breq[r].func # "start" => transfer_pos <= end_pos(breq[r])
           /\ Left \in Nat /\ Left <= transfer_pos /\ Moved \in Nat /\ Moved + Left = transfer_pos
           /\ spi.op \notin Lists => Left = 0 /\ Moved = transfer_pos
           /\ spi.op \in Lists => breq[r].func # "start" /\ Len(spi.left) \in Nat \ {0}
<1>1. ~ Done(r)
  BY DEF CInv, Turns
<1>2. Owned(r) /\ chip \in Chip /\ transfer_pos \in Nat
  BY DEF DInv, CInv, DfTypeOK
<1>3. breq[r] \in BlockRequest /\ Phase(breq[r], next, spi, cmdrsp, chip, transfer_pos)
  BY DEF CInv, DfTypeOK, Phases
<1>4. end_pos(breq[r]) \in {1, 2}
  BY <1>3, Positions
<1>5. breq[r].func # "start" => transfer_pos <= end_pos(breq[r])
  BY <1>2, <1>3, <1>4 DEF Phase
<1>6. CASE spi.op \in Lists
  <2>1. /\ Len(spi.left) \in 1 .. transfer_pos
        /\ Left = Len(spi.left) - (IF "poll_next_buffer" \in OnMain THEN 1 ELSE 0)
    BY <1>2, <1>6 DEF Owned, ListTaken, Left
  <2> DEFINE l == Len(spi.left)
  <2>2. l \in 1 .. transfer_pos /\ Left = l - (IF "poll_next_buffer" \in OnMain THEN 1 ELSE 0)
    BY <2>1
  <2> HIDE DEF l
  <2>3. Left \in Nat /\ Left <= transfer_pos /\ l \in Nat \ {0}
    BY <1>2, <2>2
  <2>4. Moved \in Nat /\ Moved + Left = transfer_pos
    BY <1>2, <2>3 DEF Moved
  <2>5. PhaseFits(breq[r], next, spi, cmdrsp, chip, transfer_pos)
    BY <1>2, <1>3 DEF PhaseFits
  <2>6. breq[r].func # "start"
    BY <1>6, <2>5, PhaseOfList
  <2>7. QED
    BY <1>1, <1>2, <1>5, <1>6, <2>3, <2>4, <2>5, <2>6 DEF l
<1>7. CASE spi.op \notin Lists
  <2>1. Left = 0 /\ Moved = transfer_pos
    BY <1>2, <1>7 DEF Left, Moved
  <2>2. QED
    BY <1>1, <1>2, <1>3, <1>5, <1>7, <2>1 DEF PhaseFits
<1>8. QED
  BY <1>6, <1>7

LEMMA OthersCounted ==
    ASSUME CInv, DInv, NEW r \in Req, r # current, ~ Done(r), breq'[r] = breq[r], given'[r] = given[r],
           \A i \in 1 .. given[r].bufs : data'[<<r, i>>] = data[<<r, i>>]
    PROVE  Counted(r)' /\ Taken(r)' = Taken(r) /\ ~ Done(r)' /\ breq[r].func = "start" /\ breq[r].bytes_xfered = 0
<1>1. breq[r].func = "start"
  BY DEF CInv, Turns
<1>2. Taken(r)' = Taken(r)
  BY <1>1 DEF Taken
<1>3. Counted(r)
  BY DEF DInv
<1>4. QED
  BY <1>1, <1>2, <1>3 DEF Counted, Done

\* The callback takes the buffers of the last transfer, and others follow.
HandedOver == lent' = lent \ Range(current_buf_list) \/ (lent' = lent /\ current_buf_list' = current_buf_list)

\* A new owner has not begun.
LEMMA NewOwner ==
    ASSUME NEW r \in Req, breq'[r].func = "start", breq'[r].bytes_xfered = 0,
           current_buf_list' = << >>, spi'.op \notin Lists
    PROVE  Owned(r)'
<1>1. /\ ~ InBuffer(r)' /\ AddressFits(r)' /\ ListTaken(r)'
  BY DEF InBuffer, AddressFits, ListTaken
<1>2. Sure(r)' = 0
  BY DEF Sure
<1>3. Transferred(r, Sure(r))'
  BY <1>2 DEF Transferred
<1>4. QED
  BY <1>1, <1>3 DEF Owned

LEMMA OwnersStep ==
    ASSUME CInv, DInv, NEW r \in Req, current = r, OnlyOwner(r), given' = given, data' = data, HandedOver,
           ~ Done(r)' => Counted(r)',
           \A buf \in lent' : buf[1] = r =>
              /\ ~ Done(r)' /\ buf[2] <= given[r].bufs
              /\ buf[2] > Taken(r)' \/ buf \in Range(current_buf_list'),
           \/ current' = r /\ Owned(r)'
           \/ /\ current' # r /\ current_buf_list' = << >> /\ spi'.op \notin Lists
              /\ \A t \in Req : current' = t => breq[t].func = "start" /\ ~ Done(t)
    PROVE  DInv'
<1>1. given[r] # NoAsk
  BY DEF CInv, Turns, DInv
<1>2. \A t \in Req : t # r /\ ~ Done(t) =>
        Counted(t)' /\ Taken(t)' = Taken(t) /\ ~ Done(t)' /\ breq[t].func = "start" /\ breq[t].bytes_xfered = 0
  BY OthersCounted DEF OnlyOwner
<1>3. \A t \in Req : t # r => breq'[t] = breq[t] /\ Done(t)' = Done(t)
  BY DEF OnlyOwner, Done
<1>4. \A t \in Req : given'[t] = NoAsk => Done(t)' /\ breq'[t].buf_list = << >>
  BY <1>1, <1>3 DEF DInv
<1>5. \A t \in Req : ~ Done(t)' => Counted(t)'
  BY <1>2, <1>3
<1>6. Lent'
  <2>1. Buffer = Req \X (1 .. MaxLen) /\ lent \in SUBSET Buffer
    BY DataflashAssumption DEF CInv, DfTypeOK
  <2>2. SUFFICES ASSUME NEW buf \in lent'
                 PROVE  /\ ~ Done(buf[1])' /\ buf[2] <= given[buf[1]].bufs
                        /\ buf[2] > Taken(buf[1])' \/ buf \in Range(current_buf_list')
    BY DEF Lent
  <2>3. buf \in lent /\ (buf \notin Range(current_buf_list) \/ current_buf_list' = current_buf_list)
    BY DEF HandedOver
  <2>4. buf[1] \in Req
    BY <2>1, <2>3
  <2>5. CASE buf[1] = r
    BY <2>5
  <2>6. CASE buf[1] # r
    <3>1. /\ ~ Done(buf[1]) /\ buf[2] <= given[buf[1]].bufs
          /\ buf[2] > Taken(buf[1]) \/ buf \in Range(current_buf_list)
      BY <2>3 DEF DInv, Lent
    <3>2. Taken(buf[1])' = Taken(buf[1]) /\ ~ Done(buf[1])'
      BY <1>2, <2>4, <2>6, <3>1
    <3>3. QED
      BY <2>3, <3>1, <3>2
  <2>7. QED
    BY <2>5, <2>6
<1>7. current' \notin Req => current_buf_list' = << >>
  OBVIOUS
<1>8. \A t \in Req : t = current' => Owned(t)'
  <2> TAKE t \in Req
  <2>1. CASE t = r
    BY <2>1
  <2>2. CASE t # r /\ t = current'
    <3>1. breq'[t].func = "start" /\ breq'[t].bytes_xfered = 0
      BY <1>2, <1>3, <2>2
    <3>2. QED
      BY <2>2, <3>1, NewOwner
  <2>3. QED
    BY <2>1, <2>2
<1>9. QED
  BY <1>4, <1>5, <1>6, <1>7, <1>8 DEF DInv


LEMMA StillCounted ==
    ASSUME CInv, DInv, NEW r \in Req, ~ Done(r), given' = given, data' = data, NEW k \in Nat,
           breq'[r].lba = breq[r].lba + k, breq'[r].bytes_xfered = breq[r].bytes_xfered + k,
           breq'[r].remaining_blocks = breq[r].remaining_blocks - k, breq'[r].remaining_blocks > 0,
           breq'[r].operation = breq[r].operation, breq'[r].func # "start",
           Taken(r)' <= given[r].bufs, breq'[r].buf_list = Bufs(r, Taken(r)', given[r].bufs)
    PROVE  Counted(r)'
<1>1. /\ breq[r] \in BlockRequest /\ breq[r].bytes_xfered \in Nat
      /\ given[r].count \in 1 .. MaxLen /\ given[r].first \in Nat /\ given[r].bufs \in Nat /\ MaxLen \in Nat
      /\ given[r].first + given[r].count - 1 \in Block
      /\ breq[r].lba = given[r].first + breq[r].bytes_xfered
      /\ breq[r].remaining_blocks = given[r].count - breq[r].bytes_xfered
      /\ given[r].bufs <= given[r].count
      /\ breq[r].operation = "write" => \A i \in 1 .. given[r].bufs : data[<<r, i>>] = <<r, i>>
  BY CountedFacts
<1>2. given'[r] = given[r]
  OBVIOUS
<1>3. Bufs(r, Taken(r), given[r].bufs)' = Bufs(r, Taken(r)', given[r].bufs)
  BY DEF Bufs
<1>4. /\ breq'[r].lba = given[r].first + breq'[r].bytes_xfered
      /\ breq'[r].remaining_blocks = given[r].count - breq'[r].bytes_xfered
  BY <1>1
<1>5. QED
  BY <1>1, <1>2, <1>3, <1>4 DEF Counted

\* A page is begun: nothing of it has been moved.
LEMMA NewPage ==
    ASSUME NEW r \in Req, PagesOfTwo, spi'.op = "write", transfer_pos' = 0,
           breq'[r].operation \in {"read", "write"},
           breq'[r].func = (IF breq'[r].operation = "read" \/ dataflash_is_page_aligned(breq'[r])
                            THEN "transfer" ELSE "write_buffered"),
           Transferred(r, breq[r].bytes_xfered)', breq'[r].bytes_xfered \in Nat
    PROVE  Owned(r)'
<1>1. Left' = 0 /\ Moved' = 0
  <2>1. Left' = 0
    BY Transfers DEF Left
  <2>2. QED
    BY <2>1 DEF Moved
<1>2. breq'[r].func \in {"transfer", "write_buffered"} /\ breq'[r].func # "start"
  OBVIOUS
<1>3. AddressFits(r)' /\ ListTaken(r)'
  BY Transfers DEF AddressFits, ListTaken
<1>4. Sure(r)' = breq'[r].bytes_xfered
  BY <1>1, <1>2 DEF Sure
<1>5. InBuffer(r)' => PageBuffered(r)'
  <2>1. SUFFICES ASSUME InBuffer(r)' PROVE PageBuffered(r)'
    OBVIOUS
  <2>2. dataflash_is_page_aligned(breq'[r])
    BY <1>2, <2>1 DEF InBuffer
  <2>3. dataflash_is_page_aligned(breq[r])'
    BY <2>2 DEF dataflash_is_page_aligned
  <2>4. QED
    BY <1>1, <2>3 DEF PageBuffered
<1>6. QED
  BY <1>2, <1>3, <1>4, <1>5 DEF Owned

\* What a request that completes leaves.
Completed(r) ==
    /\ \A i \in 1 .. given[r].count : data'[<<r, i>>] = chip'.flash[given[r].first + i - 1]
    /\ \A buf \in lent' : buf[1] # r
    /\ breq'[r].bytes_xfered = given[r].count

LEMMA OthersBegin ==
    ASSUME CInv, CInv', NEW r \in Req, current = r, OnlyOwner(r), Done(r)'
    PROVE  current' # r /\ \A t \in Req : current' = t => breq[t].func = "start" /\ ~ Done(t)
<1>1. current' # r
  BY DEF CInv, Turns
<1>2. ASSUME NEW t \in Req, current' = t PROVE breq[t].func = "start" /\ ~ Done(t)
  <2>1. ~ Done(t)' /\ t # r
    BY <1>1, <1>2 DEF CInv, Turns
  <2>2. ~ Done(t)
    BY <2>1 DEF Done, OnlyOwner
  <2>3. QED
    BY <2>1, <2>2 DEF CInv, Turns
<1>3. QED
  BY <1>1, <1>2

LEMMA PageKeepsData ==
    ASSUME CInv, CInv', DInv, PagesOfTwo, NEW r \in Req, current = r, PageOver(r, breq[r]),
           chip'.flash = chip.flash, data' = data, given' = given,
           transfer_pos = end_pos(breq[r]), breq[r].func # "start",
           Transferred(r, breq[r].bytes_xfered + transfer_pos)
    PROVE  DInv' /\ (Done(r)' => Completed(r))
<1> DEFINE b == breq[r]
<1>1. ~ Done(r) /\ transfer_pos \in Nat
  BY OwnersFacts
<1>2. /\ b \in BlockRequest /\ b.operation \in {"read", "write"} /\ b.bytes_xfered \in Nat
      /\ given[r].count \in 1 .. MaxLen /\ given[r].bufs \in Nat
      /\ b.remaining_blocks = given[r].count - b.bytes_xfered /\ b.remaining_blocks > 0
      /\ Taken(r) \in Nat /\ Taken(r) <= given[r].bufs /\ given[r].bufs <= given[r].count
      /\ b.buf_list = Bufs(r, Taken(r), given[r].bufs)
  BY <1>1, CountedFacts
<1>3. end_pos(b) \in {1, 2} /\ end_pos(b) <= b.remaining_blocks /\ b.remaining_blocks \in Int
  BY <1>2, PageFacts DEF BlockRequest
<1>4. Taken(r) = b.bytes_xfered + transfer_pos
  BY DEF Taken
<1>5. /\ Rest(b).bytes_xfered = b.bytes_xfered + transfer_pos
      /\ Rest(b).remaining_blocks = b.remaining_blocks - transfer_pos
      /\ Rest(b).lba = b.lba + transfer_pos /\ Rest(b).operation = b.operation
  BY <1>1, <1>2, RestOfRequest
<1>6. lent' = lent \ Range(current_buf_list) /\ current_buf_list' = << >> /\ HandedOver
  BY DEF PageOver, HandedOver
<1>7. \A buf \in lent' : buf[1] = r => buf[2] <= given[r].bufs /\ buf[2] > Taken(r)
  BY <1>6 DEF DInv, Lent
<1>8. \A i \in 1 .. b.bytes_xfered + transfer_pos : data'[<<r, i>>] = chip'.flash[given'[r].first + i - 1]
  BY DEF Transferred
<1>9. CASE /\ Rest(b).remaining_blocks # 0 /\ Going(r) /\ transfer_pos' = 0 /\ spi'.op = "write"
           /\ SameBlocks(Rest(b), breq'[r]) /\ breq'[r].buf_list = b.buf_list
           /\ breq'[r].func = (IF b.operation = "read" \/ dataflash_is_page_aligned(Rest(b))
                               THEN "transfer" ELSE "write_buffered")
  <2>1. /\ breq'[r].lba = b.lba + transfer_pos /\ breq'[r].bytes_xfered = b.bytes_xfered + transfer_pos
        /\ breq'[r].remaining_blocks = b.remaining_blocks - transfer_pos /\ breq'[r].operation = b.operation
        /\ dataflash_is_page_aligned(breq'[r]) = dataflash_is_page_aligned(Rest(b))
    BY <1>5, <1>9 DEF SameBlocks, dataflash_is_page_aligned
  <2>2. breq'[r].remaining_blocks > 0
    BY <1>1, <1>2, <1>3, <1>5, <1>9, <2>1
  <2>3. breq'[r].func # "start"
    BY <1>9
  <2>4. Taken(r)' = Taken(r)
    BY <1>1, <1>2, <1>4, <1>9, <2>1, <2>3 DEF Taken
  <2>5. Counted(r)'
    BY <1>1, <1>2, <1>9, <2>1, <2>2, <2>3, <2>4, StillCounted
  <2>6. Transferred(r, breq[r].bytes_xfered)'
    BY <1>8, <2>1 DEF Transferred
  <2>7. breq'[r].bytes_xfered \in Nat
    BY <1>1, <1>2, <2>1
  <2>8. Owned(r)'
    BY <1>2, <1>9, <2>1, <2>6, <2>7, NewPage
  <2>9. current' = r /\ OnlyOwner(r) /\ ~ Done(r)'
    BY <1>1, <1>9 DEF Going, GoesOn, Done
  <2>10. DInv'
    BY <1>6, <1>7, <2>4, <2>5, <2>8, <2>9, OwnersStep
  <2>11. QED
    BY <2>9, <2>10
<1>10. CASE Rest(b).remaining_blocks = 0 /\ Ending(r) /\ breq'[r].bytes_xfered = b.bytes_xfered + transfer_pos
  <2>1. Done(r)' /\ OnlyOwner(r) /\ spi' = NoTransfer
    BY <1>10 DEF Ending, Done, Rests
  <2>2. given[r].count = b.bytes_xfered + transfer_pos
    BY <1>1, <1>2, <1>5, <1>10
  <2>3. \A buf \in lent' : buf[1] # r
    <3>1. SUFFICES ASSUME NEW buf \in lent', buf[1] = r PROVE FALSE
      OBVIOUS
    <3>2. buf \in Req \X (1 .. MaxLen)
      BY <1>6, DataflashAssumption DEF CInv, DfTypeOK
    <3>3. buf[2] \in Nat
      BY <3>2
    <3>4. buf[2] <= given[r].bufs /\ buf[2] > Taken(r)
      BY <1>7, <3>1
    <3>5. QED
      BY <1>2, <1>4, <2>2, <3>3, <3>4
  <2>4. current' # r /\ \A t \in Req : current' = t => breq[t].func = "start" /\ ~ Done(t)
    BY <2>1, OthersBegin
  <2>5. DInv'
    BY <1>6, <2>1, <2>3, <2>4, Transfers, OwnersStep
  <2>6. Completed(r)
    BY <1>8, <1>10, <2>2, <2>3 DEF Completed
  <2>7. QED
    BY <2>5, <2>6
<1>11. QED
  BY <1>9, <1>10 DEF PageOver


LEMMA StaysOnPage ==
    ASSUME CInv, DInv, NEW r \in Req, current = r, current' = r, OnlyOwner(r), given' = given, data' = data,
           HandedOver, SameButSleep(breq[r], breq'[r]), breq'[r].buf_list = breq[r].buf_list,
           breq'[r].func # "start", Taken(r)' = Taken(r), Owned(r)'
    PROVE  DInv'
<1>1. ~ Done(r) /\ ~ Done(r)'
  BY OwnersFacts DEF SameButSleep, Done
<1>2. /\ breq[r].lba \in Nat /\ breq[r].bytes_xfered \in Nat /\ breq[r].remaining_blocks \in Int /\ breq[r].remaining_blocks > 0
      /\ Taken(r) <= given[r].bufs /\ breq[r].buf_list = Bufs(r, Taken(r), given[r].bufs)
  BY <1>1, CountedFacts DEF BlockRequest
<1>3. /\ breq'[r].lba = breq[r].lba + 0 /\ breq'[r].bytes_xfered = breq[r].bytes_xfered + 0
      /\ breq'[r].remaining_blocks = breq[r].remaining_blocks - 0 /\ breq'[r].remaining_blocks > 0
      /\ breq'[r].operation = breq[r].operation
  BY <1>2 DEF SameButSleep
<1>4. Counted(r)'
  BY <1>1, <1>2, <1>3, StillCounted
<1>5. \A buf \in lent' : buf[1] = r =>
              /\ ~ Done(r)' /\ buf[2] <= given[r].bufs
              /\ buf[2] > Taken(r)' \/ buf \in Range(current_buf_list')
  BY <1>1 DEF DInv, Lent, HandedOver
<1>6. QED
  BY <1>4, <1>5, OwnersStep

LEMMA OwnedAlong ==
    ASSUME CInv, DInv, NEW r \in Req, current = r, given' = given, data' = data,
           SameButSleep(breq[r], breq'[r]), transfer_pos' = transfer_pos, chip'.flash = chip.flash,
           spi.op \notin Lists, spi'.op \notin Lists, breq[r].func # "start", breq'[r].func # "start",
           \/ breq'[r].func \in {"write_buffered_wait", "write_wait_begin", "write_wait"}
           \/ spi'.op = "write"
           \/ chip' = chip /\ breq'[r].func = breq[r].func /\ spi' = spi,
           (breq'[r].func = "write_wait" /\ Ready(chip')) <=> (breq[r].func = "write_wait" /\ Ready(chip)),
           InBuffer(r)' => InBuffer(r) /\ chip'.buffer = chip.buffer
    PROVE  Owned(r)' /\ Taken(r)' = Taken(r)
<1>1. Owned(r) /\ Left = 0 /\ Moved = transfer_pos /\ transfer_pos \in Nat
  BY OwnersFacts
<1>2. Left' = 0 /\ Moved' = Moved
  <2>1. Left' = 0
    BY DEF Left
  <2>2. QED
    BY <1>1, <2>1 DEF Moved
<1>3. /\ breq'[r].operation = breq[r].operation /\ breq'[r].bytes_xfered = breq[r].bytes_xfered
      /\ PageOf(breq[r])' = PageOf(breq[r]) /\ PosOf(breq[r])' = PosOf(breq[r])
      /\ dataflash_is_page_aligned(breq[r])' = dataflash_is_page_aligned(breq[r])
  BY DEF SameButSleep, PageOf, PosOf, dataflash_is_page_aligned
<1>4. AddressFits(r)'
  <2>1. SUFFICES ASSUME breq'[r].func \in {"transfer", "read_done", "write_done"}, spi'.op # "write"
                 PROVE  /\ chip'.pos = PosOf(breq[r])' + Moved'
                        /\ breq'[r].operation = "read" => chip'.page = PageOf(breq[r])'
    BY DEF AddressFits
  <2>2. chip' = chip /\ breq'[r].func = breq[r].func /\ spi' = spi
    BY <2>1
  <2>3. AddressFits(r)
    BY <1>1 DEF Owned
  <2>4. QED
    BY <1>2, <1>3, <2>1, <2>2, <2>3 DEF AddressFits
<1>5. Sure(r)' = Sure(r)
  BY <1>2, <1>3 DEF Sure
<1>6. Transferred(r, Sure(r))'
  BY <1>1, <1>5 DEF Owned, Transferred
<1>7. InBuffer(r)' => PageBuffered(r)'
  <2>1. SUFFICES ASSUME InBuffer(r)' PROVE PageBuffered(r)'
    OBVIOUS
  <2>2. PageBuffered(r) /\ chip'.buffer = chip.buffer
    BY <1>1, <2>1 DEF Owned
  <2>3. QED
    BY <1>2, <1>3, <2>2 DEF PageBuffered
<1>8. ListTaken(r)'
  BY DEF ListTaken
<1>9. Taken(r)' = Taken(r)
  BY <1>3 DEF Taken
<1>10. QED
  BY <1>4, <1>6, <1>7, <1>8, <1>9 DEF Owned

LEMMA SameOrSleep ==
    ASSUME NEW b, NEW c, SameBlocks(b, c)
    PROVE  SameButSleep(b, c)
BY DEF SameBlocks, SameButSleep

LEMMA GoesOnOwner ==
    ASSUME NEW r \in Req, current = r, Going(r)
    PROVE  current' = r /\ OnlyOwner(r)
BY DEF Going, GoesOn

LEMMA StartKeepsData ==
    ASSUME CInv, DInv, PagesOfTwo, NEW r \in Req, current = r, OwnersTurn(r), given' = given, data' = data,
           breq[r].func = "start", UNCHANGED <<next, current_buf_list, lent>>,
           IF breq[r].operation = "read" THEN ReadSetup(r, breq[r], chip) ELSE WriteSetup(r, breq[r], chip)
    PROVE  DInv'
<1>1. /\ Going(r) /\ SameBlocks(breq[r], breq'[r]) /\ breq'[r].buf_list = breq[r].buf_list
      /\ breq'[r].func = (IF breq[r].operation = "read" \/ dataflash_is_page_aligned(breq[r])
                          THEN "transfer" ELSE "write_buffered")
      /\ SameMemory(chip, chip') /\ transfer_pos' = 0 /\ spi'.op = "write"
  BY StartStep
<1>2. ~ Done(r) /\ breq[r].bytes_xfered \in Nat /\ breq[r].operation \in {"read", "write"} /\ breq[r].bytes_xfered = 0
  BY OwnersFacts, CountedFacts DEF DInv, Counted
<1>3. breq'[r].operation = breq[r].operation /\ breq'[r].bytes_xfered = 0
      /\ dataflash_is_page_aligned(breq'[r]) = dataflash_is_page_aligned(breq[r])
  BY <1>1, <1>2 DEF SameBlocks, dataflash_is_page_aligned
<1>4. Transferred(r, breq[r].bytes_xfered)'
  BY <1>3 DEF Transferred
<1>5. Owned(r)'
  BY <1>1, <1>2, <1>3, <1>4, NewPage
<1>6. Taken(r)' = Taken(r) /\ breq'[r].func # "start"
  BY <1>1, <1>2, <1>3 DEF Taken
<1>7. QED
  BY <1>1, <1>5, <1>6, SameOrSleep, GoesOnOwner, StaysOnPage DEF HandedOver

LEMMA ReadDoneKeepsData ==
    ASSUME CInv, CInv', DInv, PagesOfTwo, NEW r \in Req, current = r, OwnersTurn(r), given' = given, data' = data,
           breq[r].func = "read_done", ReadDone(r, breq[r])
    PROVE  DInv' /\ (Done(r)' => Completed(r))
<1>1. PageOver(r, breq[r]) /\ SameMemory(chip, chip')
  BY ReadDoneStep
<1>2. /\ transfer_pos = end_pos(breq[r]) /\ breq[r].operation = "read" /\ spi = NoTransfer
  BY TurnFacts
<1>3. Owned(r) /\ Moved = transfer_pos
  BY <1>2, OwnersFacts, Transfers
<1>4. Transferred(r, breq[r].bytes_xfered + transfer_pos)
  BY <1>2, <1>3 DEF Owned, Sure
<1>5. QED
  BY <1>1, <1>2, <1>4, PageKeepsData DEF SameMemory

\* A step of the owner in which its page stays as it is.
LEMMA StepOnPage ==
    ASSUME CInv, DInv, NEW r \in Req, current = r, given' = given, data' = data,
           Going(r), SameBlocks(breq[r], breq'[r]), breq'[r].buf_list = breq[r].buf_list, HandedOver,
           transfer_pos' = transfer_pos, chip'.flash = chip.flash,
           spi = NoTransfer, spi'.op \notin Lists, breq[r].func # "start", breq'[r].func # "start",
           \/ breq'[r].func \in {"write_buffered_wait", "write_wait_begin", "write_wait"}
           \/ spi'.op = "write",
           (breq'[r].func = "write_wait" /\ Ready(chip')) <=> (breq[r].func = "write_wait" /\ Ready(chip)),
           InBuffer(r)' => InBuffer(r) /\ chip'.buffer = chip.buffer
    PROVE  DInv'
<1>1. SameButSleep(breq[r], breq'[r]) /\ current' = r /\ OnlyOwner(r) /\ spi.op \notin Lists
  BY SameOrSleep, GoesOnOwner, Transfers
<1>2. Owned(r)' /\ Taken(r)' = Taken(r)
  BY <1>1, OwnedAlong
<1>3. QED
  BY <1>1, <1>2, StaysOnPage

LEMMA WriteBufferedKeepsData ==
    ASSUME CInv, DInv, NEW r \in Req, current = r, OwnersTurn(r), given' = given, data' = data,
           breq[r].func = "write_buffered",
           WriteBufferedWait(r, With(breq[r], "write_buffered_wait"), Deselected(chip))
    PROVE  DInv'
<1>1. /\ WaitingOn(r, "write_buffered_wait")
      /\ chip'.work = [op |-> "load", page |-> PageOf(breq[r])] /\ chip'.flash = chip.flash
  BY WriteBufferedStep
<1>2. ~ Ready(chip') /\ spi = NoTransfer
  BY <1>1, TurnFacts DEF Ready, Idle
<1>3. ~ InBuffer(r)' /\ HandedOver /\ breq'[r].func = "write_buffered_wait"
  BY <1>1, <1>2 DEF InBuffer, WaitingOn, HandedOver
<1>4. QED
  BY <1>1, <1>2, <1>3, StepOnPage DEF WaitingOn

LEMMA WriteBufferedWaitKeepsData ==
    ASSUME CInv, DInv, NEW r \in Req, current = r, OwnersTurn(r), given' = given, data' = data,
           breq[r].func = "write_buffered_wait", WriteBufferedWait(r, breq[r], chip)
    PROVE  DInv'
<1>1. /\ SameMemory(chip, chip') /\ UNCHANGED <<current_buf_list, lent>>
      /\ \/ WaitingOn(r, "write_buffered_wait")
         \/ /\ Ready(chip) /\ Going(r) /\ SameBlocks(breq[r], breq'[r]) /\ breq'[r].buf_list = breq[r].buf_list
            /\ breq'[r].func = "transfer" /\ transfer_pos' = 0 /\ spi'.op = "write"
  BY WriteBufferedWaitStep
<1>2. /\ spi = NoTransfer /\ transfer_pos = 0 /\ breq[r].operation = "write"
      /\ chip'.flash = chip.flash /\ chip'.buffer = chip.buffer /\ Ready(chip') = Ready(chip) /\ HandedOver
  BY <1>1, TurnFacts DEF SameMemory, Ready, HandedOver
<1>3. CASE WaitingOn(r, "write_buffered_wait")
  <2>1. InBuffer(r)' => InBuffer(r)
    BY <1>2, <1>3 DEF InBuffer, WaitingOn
  <2>2. QED
    BY <1>2, <1>3, <2>1, StepOnPage DEF WaitingOn
<1>4. CASE /\ Ready(chip) /\ Going(r) /\ SameBlocks(breq[r], breq'[r]) /\ breq'[r].buf_list = breq[r].buf_list
           /\ breq'[r].func = "transfer" /\ transfer_pos' = 0 /\ spi'.op = "write"
  <2>1. InBuffer(r)
    BY <1>4 DEF InBuffer
  <2>2. spi'.op \notin Lists
    BY <1>4, Transfers
  <2>3. QED
    BY <1>2, <1>4, <2>1, <2>2, StepOnPage
<1>5. QED
  BY <1>1, <1>3, <1>4

LEMMA WriteDoneKeepsData ==
    ASSUME CInv, DInv, NEW r \in Req, current = r, OwnersTurn(r), given' = given, data' = data,
           breq[r].func = "write_done", WriteDone(r, breq[r])
    PROVE  DInv'
<1>1. /\ Going(r) /\ SameBlocks(breq[r], breq'[r]) /\ breq'[r].buf_list = breq[r].buf_list
      /\ breq'[r].func = "write_wait_begin" /\ SameMemory(chip, chip') /\ spi'.op = "write"
      /\ UNCHANGED <<next, transfer_pos, current_buf_list, lent>>
  BY WriteDoneStep
<1>2. /\ spi = NoTransfer /\ breq[r].operation = "write" /\ HandedOver /\ spi'.op \notin Lists
      /\ chip'.flash = chip.flash /\ chip'.buffer = chip.buffer
  BY <1>1, TurnFacts, Transfers DEF SameMemory, HandedOver
<1>3. InBuffer(r)
  BY <1>2 DEF InBuffer
<1>4. QED
  BY <1>1, <1>2, <1>3, StepOnPage

LEMMA WriteWaitBeginKeepsData ==
    ASSUME CInv, DInv, NEW r \in Req, current = r, OwnersTurn(r), given' = given, data' = data,
           breq[r].func = "write_wait_begin", WriteWait(r, With(breq[r], "write_wait"), Deselected(chip))
    PROVE  DInv'
<1>1. /\ WaitingOn(r, "write_wait")
      /\ chip'.work = [op |-> "program", page |-> PageOf(breq[r])]
      /\ chip'.flash = chip.flash /\ chip'.buffer = chip.buffer
  BY WriteWaitBeginStep
<1>2. /\ ~ Ready(chip') /\ spi = NoTransfer /\ breq[r].operation = "write"
  BY <1>1, TurnFacts DEF Ready, Idle
<1>3. InBuffer(r) /\ HandedOver /\ breq'[r].func = "write_wait"
  BY <1>1, <1>2 DEF InBuffer, WaitingOn, HandedOver
<1>4. QED
  BY <1>1, <1>2, <1>3, StepOnPage DEF WaitingOn

LEMMA WriteWaitKeepsData ==
    ASSUME CInv, CInv', DInv, PagesOfTwo, NEW r \in Req, current = r, OwnersTurn(r), given' = given, data' = data,
           breq[r].func = "write_wait", WriteWait(r, breq[r], chip)
    PROVE  DInv' /\ (Done(r)' => Completed(r))
<1>1. /\ SameMemory(chip, chip')
      /\ \/ WaitingOn(r, "write_wait")
         \/ Ready(chip) /\ PageOver(r, breq[r])
  BY WriteWaitStep
<1>2. /\ spi = NoTransfer /\ transfer_pos = end_pos(breq[r]) /\ breq[r].operation = "write"
      /\ chip'.flash = chip.flash /\ chip'.buffer = chip.buffer /\ Ready(chip') = Ready(chip)
  BY <1>1, TurnFacts DEF SameMemory, Ready
<1>3. CASE WaitingOn(r, "write_wait")
  <2>1. InBuffer(r)' => InBuffer(r)
    BY <1>2, <1>3 DEF InBuffer, WaitingOn
  <2>2. HandedOver /\ ~ Done(r)'
    BY <1>3, OwnersFacts DEF WaitingOn, HandedOver, SameBlocks, Done
  <2>3. DInv'
    BY <1>2, <1>3, <2>1, <2>2, StepOnPage DEF WaitingOn
  <2>4. QED
    BY <2>2, <2>3
<1>4. CASE Ready(chip) /\ PageOver(r, breq[r])
  <2>1. Owned(r)
    BY OwnersFacts
  <2>2. Transferred(r, breq[r].bytes_xfered + transfer_pos)
    BY <1>2, <1>4, <2>1 DEF Owned, Sure
  <2>3. QED
    BY <1>2, <1>4, <2>2, PageKeepsData
<1>5. QED
  BY <1>1, <1>3, <1>4


LEMMA SleepKeepsData ==
    ASSUME CInv, DInv, NEW r \in Req, current = r, OwnersTurn(r), given' = given, data' = data,
           breq[r].func = "transfer", HandBack, Sleeping(r)
    PROVE  DInv' /\ ~ Done(r)' /\ chip'.flash = chip.flash
<1>1. /\ OnlyOwner(r) /\ breq'[r].func = "transfer" /\ SameButSleep(breq[r], breq'[r])
      /\ breq'[r].buf_list = breq[r].buf_list
      /\ UNCHANGED <<current, spi, chip, transfer_pos>>
  BY DEF Sleeping
<1>2. spi.op \notin Lists /\ ~ Done(r) /\ HandedOver
  BY TurnFacts, OwnersFacts, Transfers DEF HandBack, HandedOver
<1>3. (breq'[r].func = "write_wait" /\ Ready(chip')) <=> (breq[r].func = "write_wait" /\ Ready(chip))
  BY <1>1
<1>4. InBuffer(r)' => InBuffer(r) /\ chip'.buffer = chip.buffer
  BY <1>1 DEF InBuffer, SameButSleep
<1>5. Owned(r)' /\ Taken(r)' = Taken(r)
  BY <1>1, <1>2, <1>3, <1>4, OwnedAlong
<1>6. DInv'
  BY <1>1, <1>2, <1>5, StaysOnPage
<1>7. QED
  BY <1>1, <1>2, <1>6 DEF SameButSleep, Done

\* What is left of buffers from which the first are taken.
LEMMA PartsOfBuffers ==
    ASSUME NEW r \in Req, NEW i \in Nat, NEW j \in Nat, NEW n \in Nat, i + n <= j, j <= MaxLen
    PROVE  /\ SubSeq(Bufs(r, i, j), 1, n) = Bufs(r, i, i + n)
           /\ SubSeq(Bufs(r, i, j), n + 1, j - i) = Bufs(r, i + n, j)
<1> DEFINE s == Bufs(r, i, j)
<1>0. i <= j
  OBVIOUS
<1>1. /\ s \in Seq(Buffer) /\ Len(s) = j - i /\ \A k \in 1 .. j - i : s[k] = <<r, i + k>>
  BY <1>0, BufferNumbers
<1> HIDE DEF s
<1>2. SubSeq(s, 1, n) = [k \in 1 .. n |-> s[k]]
  BY <1>1
<1>3. SubSeq(s, n + 1, j - i) = [k \in 1 .. j - (i + n) |-> s[k + n]]
  BY <1>1
<1>4. \A k \in 1 .. n : s[k] = <<r, i + k>>
  BY <1>1
<1>5. \A k \in 1 .. j - (i + n) : s[k + n] = <<r, i + n + k>>
  BY <1>1
<1>6. Bufs(r, i, i + n) = [k \in 1 .. n |-> <<r, i + k>>]
  BY DEF Bufs
<1>7. Bufs(r, i + n, j) = [k \in 1 .. j - (i + n) |-> <<r, i + n + k>>]
  BY DEF Bufs
<1>8. QED
  BY <1>2, <1>3, <1>4, <1>5, <1>6, <1>7 DEF s

LEMMA RestOfBuffers ==
    ASSUME NEW r \in Req, NEW i \in Nat, NEW j \in Nat, i < j, j <= MaxLen
    PROVE  Head(Bufs(r, i, j)) = <<r, i + 1>> /\ Tail(Bufs(r, i, j)) = Bufs(r, i + 1, j)
<1>0. i <= j /\ 1 \in Nat /\ i + 1 <= j /\ 1 + 1 = 2
  OBVIOUS
<1> DEFINE s == Bufs(r, i, j)
<1>1. /\ s \in Seq(Buffer) /\ Len(s) = j - i /\ \A k \in 1 .. j - i : s[k] = <<r, i + k>>
  BY <1>0, BufferNumbers
<1>2. SubSeq(s, 2, j - i) = Bufs(r, i + 1, j)
  BY <1>0, PartsOfBuffers
<1> HIDE DEF s
<1>3. Head(s) = s[1] /\ Tail(s) = SubSeq(s, 2, Len(s))
  BY <1>1
<1>4. QED
  BY SMTT(60), <1>1, <1>2, <1>3 DEF s


LEMMA PollQueued ==
    ASSUME CInv, NEW r \in Req, Runs(r), queues' = Added(Popped, "poll")
    PROVE  "poll_next_buffer" \notin OnMain'
<1>1. r \in Client /\ "poll" \in Task /\ "poll" \in MasterTask /\ MasterTask \cap Client = {}
      /\ "poll_next_buffer" \in MasterTask
  BY Names
<1>2. /\ Proper(Popped) /\ Popped[Bus] = queues[Bus] /\ Range(Popped[Main]) = OnMain \ {r}
      /\ OnMain \cap MasterTask = {} /\ OnBus \subseteq Req
  BY <1>1, ItsTurn DEF CInv, Turns
<1>3. "poll" \notin Range(Popped[Main]) /\ "poll" \notin Range(Popped[Bus])
  BY <1>1, <1>2, Names DEF OnBus
<1>4. Range(queues'[Main]) = Range(Popped[Main]) \cup {"poll"}
  BY <1>1, <1>2, <1>3, AddedTask
<1>5. QED
  BY <1>1, <1>2, <1>4 DEF OnMain

LEMMA BuffersKeepData ==
    ASSUME CInv, DInv, NEW r \in Req, current = r, Runs(r), OwnersTurn(r), given' = given, data' = data,
           breq[r].func = "transfer", HandBack, next' = next, StartBuffers(r, breq[r])
    PROVE  DInv' /\ ~ Done(r)' /\ chip'.flash = chip.flash
<1> DEFINE b == breq[r]  n == TakenNow(r)  T == Taken(r)  g == given[r].bufs
<1>1. ~ Done(r) /\ Owned(r) /\ transfer_pos \in Nat /\ Moved = transfer_pos
  BY TurnFacts, OwnersFacts, Transfers
<1>2. /\ b.bytes_xfered \in Nat /\ b.lba \in Nat /\ b.remaining_blocks \in Int /\ b.remaining_blocks > 0
      /\ g \in Nat /\ T \in Nat /\ T <= g /\ g <= MaxLen /\ MaxLen \in Nat
      /\ b.buf_list = Bufs(r, T, g) /\ b.operation \in {"read", "write"}
  BY SMTT(60), <1>1, CountedFacts DEF BlockRequest
<1>3. /\ Going(r) /\ SameBlocks(b, breq'[r]) /\ chip' = chip
      /\ n \in 1 .. 2 /\ n <= Len(b.buf_list) /\ transfer_pos' = transfer_pos + n
      /\ breq'[r].buf_list = SubSeq(b.buf_list, n + 1, Len(b.buf_list))
      /\ current_buf_list' = SubSeq(b.buf_list, 1, n)
  BY BuffersStep
<1>4. /\ Len(current_buf_list') = n /\ spi'.left = current_buf_list' /\ spi'.op \in Lists
  BY FirstBuffers
<1>5. /\ queues' = Added(Popped, "poll") /\ current' = r /\ OnlyOwner(r)
      /\ PhaseFits(breq'[r], next', spi', cmdrsp', chip', transfer_pos')
  BY <1>3 DEF Going, GoesOn
<1>6. breq'[r].func \in {"transfer", "read_done", "write_done"}
  BY <1>4, <1>5, PhaseOfList
<1>7. /\ breq'[r].operation = b.operation /\ breq'[r].bytes_xfered = b.bytes_xfered /\ breq'[r].lba = b.lba
      /\ breq'[r].remaining_blocks = b.remaining_blocks /\ ~ Done(r)'
      /\ PageOf(breq[r])' = PageOf(breq[r]) /\ PosOf(breq[r])' = PosOf(breq[r])
      /\ dataflash_is_page_aligned(breq[r])' = dataflash_is_page_aligned(breq[r])
  BY <1>1, <1>3 DEF SameBlocks, Done, PageOf, PosOf, dataflash_is_page_aligned
<1>8. T = b.bytes_xfered + transfer_pos
  BY DEF Taken
<1> HIDE DEF n, T, g
<1>9. n \in Nat /\ Len(b.buf_list) = g - T /\ T + n <= g /\ T + n \in Nat /\ T <= T + n /\ T + n <= MaxLen
  <2>1. Len(Bufs(r, T, g)) = g - T
    BY <1>2, BufferNumbers
  <2>2. QED
    BY <1>2, <1>3, <2>1
<1>10. Taken(r)' = T + n
  <2>1. Taken(r)' = b.bytes_xfered + transfer_pos'
    BY <1>6, <1>7 DEF Taken
  <2>2. transfer_pos' = transfer_pos + n /\ b.bytes_xfered \in Nat
    BY <1>2, <1>3
  <2>3. QED
    BY <1>1, <1>8, <1>9, <2>1, <2>2
<1>11. breq'[r].buf_list = Bufs(r, T + n, g) /\ current_buf_list' = Bufs(r, T, T + n)
  <2>1. /\ SubSeq(Bufs(r, T, g), 1, n) = Bufs(r, T, T + n)
        /\ SubSeq(Bufs(r, T, g), n + 1, g - T) = Bufs(r, T + n, g)
    <3>1. T \in Nat /\ g \in Nat /\ n \in Nat /\ T + n <= g /\ g <= MaxLen
      BY <1>2, <1>9
    <3>2. QED
      BY ZenonT(60), <3>1, PartsOfBuffers
  <2>2. b.buf_list = Bufs(r, T, g) /\ Len(b.buf_list) = g - T
    BY <1>2, <1>9
  <2>3. QED
    BY <1>3, <2>1, <2>2
<1>12. Left' = n /\ Moved' = Moved
  <2>1. "poll_next_buffer" \notin OnMain'
    BY <1>5, PollQueued
  <2>2. Left' = n
    BY <1>4, <1>9, <2>1 DEF Left
  <2>3. Moved' = transfer_pos' - n
    BY <2>2 DEF Moved
  <2>4. transfer_pos' = transfer_pos + n
    BY <1>3
  <2>5. QED
    BY <1>1, <1>9, <2>2, <2>3, <2>4
<1>13. Counted(r)'
  <2>1. /\ breq'[r].lba = b.lba + 0 /\ breq'[r].bytes_xfered = b.bytes_xfered + 0
        /\ breq'[r].remaining_blocks = b.remaining_blocks - 0 /\ breq'[r].remaining_blocks > 0
        /\ breq'[r].func # "start" /\ Taken(r)' <= given[r].bufs
        /\ breq'[r].buf_list = Bufs(r, Taken(r)', given[r].bufs)
    BY SMTT(60), <1>2, <1>6, <1>7, <1>9, <1>10, <1>11 DEF g
  <2>2. QED
    BY <1>1, <1>7, <2>1, StillCounted
<1>14. ASSUME NEW buf \in lent', buf[1] = r
       PROVE  buf[2] <= given[r].bufs /\ (buf[2] > Taken(r)' \/ buf \in Range(current_buf_list'))
  <2>1. buf \in lent /\ buf \notin Range(current_buf_list) /\ buf \in Req \X (1 .. MaxLen)
    BY DataflashAssumption DEF HandBack, CInv, DfTypeOK
  <2>2. buf[2] <= given[r].bufs /\ buf[2] > T
    BY <1>14, <2>1 DEF DInv, Lent, T
  <2>3. buf = <<r, buf[2]>> /\ buf[2] \in Nat
    BY <1>14, <2>1
  <2>4. Range(current_buf_list') = {<<r, k>> : k \in T + 1 .. T + n}
    BY ZenonT(60), <1>2, <1>9, <1>11, BufferNumbers
  <2>5. CASE buf[2] > T + n
    BY <1>10, <2>2, <2>5
  <2>6. CASE buf[2] <= T + n
    <3>1. buf[2] \in T + 1 .. T + n
      BY <1>2, <1>9, <2>2, <2>3, <2>6
    <3>2. QED
      BY <2>2, <2>3, <2>4, <3>1
  <2>7. QED
    BY <1>2, <1>9, <2>3, <2>5, <2>6
<1>15. ListTaken(r)'
  <2>1. Len(spi'.left) = n /\ n \in 1 .. transfer_pos'
    BY <1>1, <1>3, <1>4, <1>9
  <2>2. Bufs(r, Taken(r) - Len(spi.left), Taken(r))' = Bufs(r, Taken(r)' - n, Taken(r)')
    BY <2>1 DEF Bufs
  <2>3. Taken(r)' - n = T
    BY <1>2, <1>9, <1>10
  <2>4. QED
    BY <1>4, <1>10, <1>11, <2>1, <2>2, <2>3 DEF ListTaken
<1>16. AddressFits(r)'
  <2>1. spi.op # "write"
    BY TurnFacts, Transfers
  <2>2. AddressFits(r)
    BY <1>1 DEF Owned
  <2>3. QED
    BY <1>3, <1>7, <1>12, <2>1, <2>2 DEF AddressFits
<1>17. Transferred(r, Sure(r))'
  <2>1. Sure(r)' = Sure(r)
    BY <1>6, <1>7, <1>12 DEF Sure
  <2>2. Transferred(r, Sure(r))
    BY <1>1 DEF Owned
  <2>3. QED
    BY <1>3, <2>1, <2>2 DEF Transferred
<1>18. InBuffer(r)' => PageBuffered(r)'
  <2>1. SUFFICES ASSUME InBuffer(r)' PROVE PageBuffered(r)'
    OBVIOUS
  <2>2. InBuffer(r)
    BY <1>6, <1>7, <2>1 DEF InBuffer
  <2>3. PageBuffered(r)
    BY <1>1, <2>2 DEF Owned
  <2>4. QED
    BY <1>3, <1>7, <1>12, <2>3 DEF PageBuffered
<1>19. Owned(r)'
  BY <1>6, <1>15, <1>16, <1>17, <1>18 DEF Owned
<1>20. HandedOver
  BY DEF HandBack, HandedOver
<1>21. DInv'
  BY <1>5, <1>7, <1>13, <1>14, <1>19, <1>20, OwnersStep
<1>22. QED
  BY <1>3, <1>7, <1>21


\* What a step of the owner does to data.
Stored(r) == DInv' /\ (Done(r)' => Completed(r)) /\ chip'.flash = chip.flash

LEMMA OwnerGoesOn ==
    ASSUME NEW r \in Req, Going(r), ~ Done(r)
    PROVE  ~ Done(r)'
BY DEF Going, Done

LEMMA NotCompleted ==
    ASSUME NEW r \in Req, ~ Done(r)', DInv', chip'.flash = chip.flash
    PROVE  Stored(r)
BY DEF Stored, Done

LEMMA RequestKeepsData ==
    ASSUME CInv, DInv, PagesOfTwo, NEW r \in Req, Request(r)
    PROVE  CInv' /\ Stored(r) /\ current = r
<1>1. Runs(r) /\ Work(r, breq[r]) /\ data' = data /\ given' = given
  BY DEF Request
<1>2. OwnersTurn(r) /\ current = r
  BY <1>1, RequestsTurn
<1>3. CInv'
  BY RequestKeepsControl
<1>4. ~ Done(r)
  BY <1>2, OwnersFacts
<1> SUFFICES Stored(r)
  BY <1>2, <1>3
<1>5. CASE /\ breq[r].func = "start"
           /\ IF breq[r].operation = "read" THEN ReadSetup(r, breq[r], chip) ELSE WriteSetup(r, breq[r], chip)
           /\ UNCHANGED <<next, current_buf_list, lent>>
  <2>1. Going(r) /\ SameMemory(chip, chip')
    BY <1>2, <1>5, StartStep
  <2>2. DInv'
    BY <1>1, <1>2, <1>5, StartKeepsData
  <2>3. QED
    BY <1>4, <2>1, <2>2, OwnerGoesOn, NotCompleted DEF SameMemory
<1>6. CASE breq[r].func = "transfer" /\ Transfer(r, breq[r])
  <2>1. HandBack /\ next' = next
    BY <1>6 DEF Transfer
  <2>2. CASE Sleep(r, breq[r])
    <3>1. Sleeping(r)
      BY <1>2, <1>6, <2>1, <2>2, SleepStep
    <3>2. DInv' /\ ~ Done(r)' /\ chip'.flash = chip.flash
      BY <1>1, <1>2, <1>6, <2>1, <3>1, SleepKeepsData
    <3>3. QED
      BY <3>2, NotCompleted
  <2>3. CASE StartBuffers(r, breq[r])
    BY <1>1, <1>2, <1>6, <2>1, <2>3, BuffersKeepData, NotCompleted
  <2>4. QED
    BY <1>6, <2>2, <2>3 DEF Transfer
<1>7. CASE breq[r].func = "read_done" /\ ReadDone(r, breq[r])
  <2>1. SameMemory(chip, chip')
    BY <1>2, <1>7, ReadDoneStep
  <2>2. QED
    BY <1>1, <1>2, <1>3, <1>7, <2>1, ReadDoneKeepsData DEF Stored, SameMemory
<1>8. CASE /\ breq[r].func = "write_buffered"
           /\ WriteBufferedWait(r, With(breq[r], "write_buffered_wait"), Deselected(chip))
  <2>1. WaitingOn(r, "write_buffered_wait") /\ chip'.flash = chip.flash
    BY <1>2, <1>8, WriteBufferedStep
  <2>2. DInv'
    BY <1>1, <1>2, <1>8, WriteBufferedKeepsData
  <2>3. QED
    BY <1>4, <2>1, <2>2, OwnerGoesOn, NotCompleted DEF WaitingOn
<1>9. CASE breq[r].func = "write_buffered_wait" /\ WriteBufferedWait(r, breq[r], chip)
  <2>1. SameMemory(chip, chip') /\ Going(r)
    BY <1>2, <1>9, WriteBufferedWaitStep DEF WaitingOn
  <2>2. DInv'
    BY <1>1, <1>2, <1>9, WriteBufferedWaitKeepsData
  <2>3. QED
    BY <1>4, <2>1, <2>2, OwnerGoesOn, NotCompleted DEF SameMemory
<1>10. CASE breq[r].func = "write_done" /\ WriteDone(r, breq[r])
  <2>1. SameMemory(chip, chip') /\ Going(r)
    BY <1>2, <1>10, WriteDoneStep
  <2>2. DInv'
    BY <1>1, <1>2, <1>10, WriteDoneKeepsData
  <2>3. QED
    BY <1>4, <2>1, <2>2, OwnerGoesOn, NotCompleted DEF SameMemory
<1>11. CASE breq[r].func = "write_wait_begin" /\ WriteWait(r, With(breq[r], "write_wait"), Deselected(chip))
  <2>1. WaitingOn(r, "write_wait") /\ chip'.flash = chip.flash
    BY <1>2, <1>11, WriteWaitBeginStep
  <2>2. DInv'
    BY <1>1, <1>2, <1>11, WriteWaitBeginKeepsData
  <2>3. QED
    BY <1>4, <2>1, <2>2, OwnerGoesOn, NotCompleted DEF WaitingOn
<1>12. CASE breq[r].func = "write_wait" /\ WriteWait(r, breq[r], chip)
  <2>1. SameMemory(chip, chip')
    BY <1>2, <1>12, WriteWaitStep
  <2>2. QED
    BY <1>1, <1>2, <1>3, <1>12, <2>1, WriteWaitKeepsData DEF Stored, SameMemory
<1>13. QED
  BY <1>1, <1>5, <1>6, <1>7, <1>8, <1>9, <1>10, <1>11, <1>12 DEF Work, With


-----------------------------------------------------------------------------
(* The master and the chip.                                                *)

LEMMA MasterLeaves ==
    ASSUME DInv, MasterAlone,
           \A r \in Req : ~ Done(r) => Counted(r)',
           \A r \in Req : r = current => Owned(r)'
    PROVE  DInv'
<1>1. UNCHANGED <<breq, transfer_pos, current_buf_list, given, lent, current>>
  BY DEF MasterAlone
<1>2. \A r \in Req : (Done(r)' <=> Done(r)) /\ Taken(r)' = Taken(r)
  BY <1>1 DEF Done, Taken
<1>3. \A r : (Done(r)' <=> Done(r)) /\ Taken(r)' = Taken(r)
  BY <1>1 DEF Done, Taken
<1>4. \A r \in Req : given'[r] = NoAsk => Done(r)' /\ breq'[r].buf_list = << >>
  BY <1>1, <1>2 DEF DInv
<1>5. \A r \in Req : ~ Done(r)' => Counted(r)'
  BY <1>2
<1>6. Lent'
  BY <1>1, <1>3 DEF DInv, Lent
<1>7. current' \notin Req => current_buf_list' = << >>
  BY <1>1 DEF DInv
<1>8. \A r \in Req : r = current' => Owned(r)'
  BY <1>1
<1>9. QED
  BY <1>4, <1>5, <1>6, <1>7, <1>8 DEF DInv

LEMMA CountStays ==
    ASSUME CInv, DInv, MasterAlone, NEW r \in Req, ~ Done(r),
           breq[r].operation = "write" => \A i \in 1 .. given[r].bufs : data'[<<r, i>>] = data[<<r, i>>]
    PROVE  Counted(r)'
<1>1. Counted(r)
  BY DEF DInv
<1>2. UNCHANGED <<breq, transfer_pos, given>> /\ Taken(r)' = Taken(r)
  BY DEF MasterAlone, Taken
<1>3. Bufs(r, Taken(r), given[r].bufs)' = Bufs(r, Taken(r), given[r].bufs)
  BY <1>2 DEF Bufs
<1>4. QED
  BY <1>1, <1>2, <1>3 DEF Counted

LEMMA MemoryStays ==
    ASSUME CInv, DInv, MasterAlone, data' = data, SameMemory(chip, chip'),
           \A r \in Req : r = current => Moved' = Moved /\ ListTaken(r)' /\ AddressFits(r)'
    PROVE  DInv'
<1>1. \A r \in Req : ~ Done(r) => Counted(r)'
  BY CountStays
<1>2. ASSUME NEW r \in Req, r = current PROVE Owned(r)'
  <2>1. Owned(r) /\ Moved' = Moved /\ ListTaken(r)' /\ AddressFits(r)'
    BY <1>2 DEF DInv
  <2>2. /\ UNCHANGED <<breq, transfer_pos, given, current_buf_list>>
        /\ chip'.flash = chip.flash /\ chip'.buffer = chip.buffer /\ chip'.work = chip.work
    BY DEF MasterAlone, SameMemory
  <2>3. Sure(r)' = Sure(r) /\ (InBuffer(r)' <=> InBuffer(r))
    BY <2>1, <2>2 DEF Sure, InBuffer, Ready
  <2>4. Transferred(r, Sure(r))'
    BY <2>1, <2>2, <2>3 DEF Owned, Transferred
  <2>5. InBuffer(r)' => PageBuffered(r)'
    BY <2>1, <2>2, <2>3 DEF Owned, PageBuffered, PosOf, PageOf, dataflash_is_page_aligned
  <2>6. breq'[r].func = "start" => current_buf_list' = << >>
    BY <2>1, <2>2 DEF Owned
  <2>7. QED
    BY <2>1, <2>4, <2>5, <2>6 DEF Owned
<1>3. QED
  BY <1>1, <1>2, MasterLeaves

LEMMA AddressGiven ==
    ASSUME NEW b, NEW nx, NEW s, NEW rdy, NEW c, NEW tp,
           PhaseFits(b, nx, s, rdy, c, tp), s.op = "write", b.func \in {"transfer", "read_done", "write_done"}
    PROVE  /\ tp = 0 /\ Commanded(c, s.cmd).pos = PosOf(b)
           /\ b.operation = "read" => Commanded(c, s.cmd).page = PageOf(b)
<1>1. b \in BlockRequest /\ c \in Chip /\ Phase(b, nx, s, rdy, c, tp)
  BY DEF PhaseFits
<1>2. ~ Moving(b, s, c)
  BY Transfers DEF Moving
<1> DEFINE k == IF b.operation = "read"
                THEN [op |-> "read", page |-> PageOf(b), pos |-> PosOf(b)]
                ELSE [op |-> "buffer_write", page |-> 0, pos |-> PosOf(b)]
<1>3. Ready(c) /\ tp = 0 /\ Ordered(s, c, k)
  BY <1>1, <1>2 DEF Phase
<1>4. k \in Order /\ k.pos = PosOf(b) /\ (b.operation = "read" => k.page = PageOf(b))
  BY <1>1, Orders
<1> HIDE DEF k
<1>5. s.cmd = k /\ Ordered(NoTransfer, Commanded(c, k), k)
  BY <1>1, <1>3, <1>4, DueOrder
<1>6. Commanded(c, k).page = k.page /\ Commanded(c, k).pos = k.pos
  BY <1>5, Transfers DEF Ordered
<1>7. QED
  BY <1>3, <1>4, <1>5, <1>6

LEMMA PollKeepsData ==
    ASSUME CInv, DInv, PollEnds, MasterAlone
    PROVE  DInv' /\ chip'.flash = chip.flash
<1>1. /\ SameMemory(chip, chip') /\ spi' = NoTransfer /\ data' = data /\ spi.op \in {"write", "read"}
      /\ spi.op = "read" => chip' = chip
      /\ spi.op = "write" => chip' = Commanded(chip, spi.cmd)
  BY PollKeepsControl DEF PollEnds
<1>2. ASSUME NEW r \in Req, r = current PROVE Moved' = Moved /\ ListTaken(r)' /\ AddressFits(r)'
  <2>1. /\ Owned(r) /\ Moved = transfer_pos /\ transfer_pos \in Nat
        /\ PhaseFits(breq[r], next, spi, cmdrsp, chip, transfer_pos)
    BY <1>1, <1>2, OwnersFacts, Transfers
  <2>2. UNCHANGED <<breq, transfer_pos>>
    BY DEF MasterAlone
  <2>3. Left' = 0 /\ ListTaken(r)'
    BY <1>1, Transfers DEF Left, ListTaken
  <2>4. Moved' = Moved
    BY <2>1, <2>2, <2>3 DEF Moved
  <2>5. AddressFits(r)'
    <3>1. SUFFICES ASSUME breq[r].func \in {"transfer", "read_done", "write_done"}
                   PROVE  /\ chip'.pos = PosOf(breq[r]) + Moved
                          /\ breq[r].operation = "read" => chip'.page = PageOf(breq[r])
      BY <2>2, <2>4 DEF AddressFits, PosOf, PageOf
    <3>2. CASE spi.op = "write"
      <4>1. /\ transfer_pos = 0 /\ Commanded(chip, spi.cmd).pos = PosOf(breq[r])
            /\ breq[r].operation = "read" => Commanded(chip, spi.cmd).page = PageOf(breq[r])
        BY <2>1, <3>1, <3>2, AddressGiven
      <4>2. PosOf(breq[r]) \in Nat
        BY <2>1, Positions DEF PhaseFits
      <4>3. QED
        BY <1>1, <2>1, <3>2, <4>1, <4>2
    <3>3. CASE spi.op = "read"
      BY <1>1, <2>1, <3>1, <3>3 DEF Owned, AddressFits
    <3>4. QED
      BY <1>1, <3>2, <3>3
  <2>6. QED
    BY <2>3, <2>4, <2>5
<1>3. QED
  BY <1>1, <1>2, MemoryStays DEF SameMemory


\* The owner of the list in progress.
LEMMA ListFacts ==
    ASSUME CInv, DInv, ListsTurn, spi.op \in Lists, NEW r \in Req, r = current
    PROVE  /\ ~ Done(r) /\ Owned(r) /\ chip \in Chip /\ breq[r] \in BlockRequest
           /\ Len(spi.left) \in Nat \ {0} /\ Len(spi.left) <= transfer_pos /\ transfer_pos \in Nat
           /\ transfer_pos <= end_pos(breq[r]) /\ breq[r].func # "start"
           /\ Taken(r) = breq[r].bytes_xfered + transfer_pos /\ breq[r].bytes_xfered \in Nat
           /\ Taken(r) <= given[r].bufs /\ given[r].bufs \in Nat /\ given[r].bufs <= MaxLen /\ MaxLen \in Nat
           /\ given[r].bufs <= given[r].count
           /\ spi.left = Bufs(r, Taken(r) - Len(spi.left), Taken(r))
           /\ Head(spi.left) = <<r, Taken(r) - Len(spi.left) + 1>>
           /\ Tail(spi.left) = Bufs(r, Taken(r) - Len(spi.left) + 1, Taken(r))
           /\ Taken(r) - Len(spi.left) \in Nat /\ Taken(r) \in Nat /\ Taken(r) - Len(spi.left) < Taken(r)
<1>1. /\ ~ Done(r) /\ Owned(r) /\ chip \in Chip /\ transfer_pos \in Nat /\ transfer_pos <= end_pos(breq[r])
      /\ breq[r].func # "start"
  BY OwnersFacts DEF ListsTurn
<1>2. /\ breq[r] \in BlockRequest /\ breq[r].bytes_xfered \in Nat /\ given[r].bufs \in Nat /\ MaxLen \in Nat
      /\ given[r].count \in 1 .. MaxLen /\ Taken(r) <= given[r].bufs /\ given[r].bufs <= given[r].count
  BY <1>1, CountedFacts
<1>3. /\ Len(spi.left) \in 1 .. transfer_pos
      /\ spi.left = Bufs(r, Taken(r) - Len(spi.left), Taken(r))
  BY <1>1 DEF Owned, ListTaken
<1>4. Taken(r) = breq[r].bytes_xfered + transfer_pos
  BY <1>1 DEF Taken
<1> DEFINE l == Len(spi.left)  T == Taken(r)
<1>5. l \in 1 .. transfer_pos
  BY <1>3
<1>6. spi.left = Bufs(r, T - l, T)
  BY <1>3
<1>7. T = breq[r].bytes_xfered + transfer_pos /\ T <= given[r].bufs
  BY <1>2, <1>4
<1> HIDE DEF l, T
<1>8. l \in Nat \ {0} /\ l <= transfer_pos /\ T \in Nat /\ T - l \in Nat /\ T - l < T /\ T <= MaxLen
      /\ given[r].bufs <= MaxLen
  BY <1>1, <1>2, <1>5, <1>7
<1>9. Head(Bufs(r, T - l, T)) = <<r, T - l + 1>> /\ Tail(Bufs(r, T - l, T)) = Bufs(r, T - l + 1, T)
  BY <1>8, RestOfBuffers
<1>10. QED
  BY <1>1, <1>2, <1>6, <1>7, <1>8, <1>9 DEF l, T

LEMMA NextBufferKeepsData ==
    ASSUME CInv, DInv, NextBuffer, MasterAlone
    PROVE  DInv' /\ chip'.flash = chip.flash
<1>1. /\ ListsTurn /\ spi.op \in Lists /\ "poll_next_buffer" \in OnMain /\ "poll_next_buffer" \notin OnMain'
      /\ UNCHANGED <<data, chip>>
      /\ \/ Len(spi.left) = 1 /\ spi' = NoTransfer
         \/ Len(spi.left) > 1 /\ spi'.op = spi.op /\ spi'.left = Tail(spi.left)
  BY NextBufferKeepsControl
<1>2. ASSUME NEW r \in Req, r = current PROVE Moved' = Moved /\ ListTaken(r)' /\ AddressFits(r)'
  <2>1. /\ Owned(r) /\ Len(spi.left) \in Nat \ {0} /\ Len(spi.left) <= transfer_pos /\ transfer_pos \in Nat
        /\ Tail(spi.left) = Bufs(r, Taken(r) - Len(spi.left) + 1, Taken(r)) /\ Taken(r) \in Nat
    BY <1>1, <1>2, ListFacts
  <2>2. UNCHANGED <<breq, transfer_pos>> /\ Taken(r)' = Taken(r)
    BY DEF MasterAlone, Taken
  <2> DEFINE l == Len(spi.left)
  <2>3. Left = l - 1
    BY <1>1 DEF Left
  <2>4. Left' = l - 1 /\ ListTaken(r)'
    <3>1. CASE l = 1 /\ spi' = NoTransfer
      BY <2>1, <3>1, Transfers DEF Left, ListTaken
    <3>2. CASE l > 1 /\ spi'.op = spi.op /\ spi'.left = Tail(spi.left)
      <4>1. spi.left \in Seq(Buffer) /\ spi.left # << >>
        BY <1>1 DEF ListsTurn
      <4>2. Len(spi'.left) = l - 1
        BY <3>2, <4>1, LongTail
      <4>3. spi'.op \in Lists
        BY <1>1, <3>2
      <4>4. Left' = l - 1
        BY <1>1, <2>1, <4>2, <4>3 DEF Left
      <4>5. Taken(r) - l + 1 = Taken(r) - (l - 1) /\ l - 1 \in 1 .. transfer_pos
        BY <2>1, <3>2
      <4>6. spi'.left = Bufs(r, Taken(r) - (l - 1), Taken(r))
        BY <2>1, <3>2, <4>5
      <4>7. ListTaken(r)'
        <5>1. Bufs(r, Taken(r) - Len(spi.left), Taken(r))' = Bufs(r, Taken(r) - (l - 1), Taken(r))
          BY <2>2, <4>2 DEF Bufs
        <5>2. QED
          BY <2>2, <4>2, <4>5, <4>6, <5>1 DEF ListTaken
      <4>8. QED
        BY <4>4, <4>7
    <3>3. QED
      BY <1>1, <3>1, <3>2
  <2> HIDE DEF l
  <2>5. Moved' = Moved
    BY <2>2, <2>3, <2>4 DEF Moved
  <2>6. spi.op # "write"
    BY <1>1, Transfers
  <2>7. AddressFits(r)
    BY <2>1 DEF Owned
  <2>8. AddressFits(r)'
    BY <1>1, <2>2, <2>5, <2>6, <2>7 DEF AddressFits, PosOf, PageOf
  <2>9. QED
    BY <2>4, <2>5, <2>8
<1>3. QED
  BY <1>1, <1>2, MemoryStays DEF SameMemory


\* The place of the next block in the page and in the chip.
NextFits(r, x, p, n) ==
    /\ n = x + Moved /\ Head(spi.left) = <<r, n + 1>> /\ n \in Nat /\ n + 1 <= given[r].bufs /\ n + 1 <= MaxLen
    /\ MaxLen \in Nat /\ given[r].bufs \in Nat
    /\ Moved \in Nat /\ x \in Nat /\ p \in Nat /\ p + Moved \in {0, 1}
    /\ chip.pos = p + Moved /\ chip.pos % PageBlocks = p + Moved
    /\ breq[r].operation = "read" =>
            (chip.page * PageBlocks + chip.pos) % (Pages * PageBlocks) = given[r].first + n

LEMMA NextPlace ==
    ASSUME CInv, DInv, PagesOfTwo, ListsTurn, spi.op \in Lists, "poll_next_buffer" \notin OnMain,
           NEW r \in Req, r = current
    PROVE  NextFits(r, breq[r].bytes_xfered, PosOf(breq[r]), breq[r].bytes_xfered + Moved)
<1>1. /\ ~ Done(r) /\ Owned(r) /\ chip \in Chip /\ breq[r] \in BlockRequest
      /\ Len(spi.left) \in Nat \ {0} /\ Len(spi.left) <= transfer_pos /\ transfer_pos \in Nat
      /\ transfer_pos <= end_pos(breq[r]) /\ breq[r].bytes_xfered \in Nat
      /\ Taken(r) = breq[r].bytes_xfered + transfer_pos
      /\ Taken(r) <= given[r].bufs /\ given[r].bufs \in Nat /\ given[r].bufs <= MaxLen /\ MaxLen \in Nat
      /\ given[r].bufs <= given[r].count
      /\ Head(spi.left) = <<r, Taken(r) - Len(spi.left) + 1>>
  BY ListFacts
<1>2. /\ given[r].count \in Nat /\ given[r].first \in Nat /\ given[r].first + given[r].count - 1 \in Block
      /\ breq[r].lba = given[r].first + breq[r].bytes_xfered /\ breq[r].remaining_blocks > 0
  BY SMTT(60), <1>1, CountedFacts
<1> DEFINE l == Len(spi.left)  x == breq[r].bytes_xfered  p == PosOf(breq[r])  q == PageOf(breq[r])
           e == end_pos(breq[r])  g == given[r].bufs  T == Taken(r)
<1>3. /\ q \in Nat /\ p \in {0, 1} /\ breq[r].lba = 2 * q + p /\ e \in {1, 2} /\ p + e <= 2
  BY <1>1, <1>2, PageFacts
<1>4. Left = l
  BY DEF Left
<1>5. Moved = transfer_pos - l
  BY <1>4 DEF Moved
<1>6. /\ chip.pos = p + Moved /\ (breq[r].operation = "read" => chip.page = q)
  <2>1. spi.op # "write" /\ AddressFits(r)
    BY <1>1, Transfers DEF Owned
  <2>2. QED
    BY <2>1 DEF AddressFits, ListsTurn
<1>7. Head(spi.left) = <<r, T - l + 1>> /\ T = x + transfer_pos /\ T <= g
  BY <1>1
<1>8. l \in Nat \ {0} /\ l <= transfer_pos /\ transfer_pos <= e /\ x \in Nat /\ g \in Nat /\ g <= MaxLen
      /\ g <= given[r].count
  BY <1>1
<1>9. breq[r].lba = given[r].first + x
  BY <1>2
<1> HIDE DEF l, x, p, q, e, g, T
<1>10. Moved \in Nat /\ Moved < e /\ T - l + 1 = x + Moved + 1 /\ x + Moved + 1 <= g /\ x + Moved + 1 <= MaxLen
  BY <1>1, <1>5, <1>7, <1>8, <1>3
<1>11. p + Moved \in {0, 1} /\ p \in Nat
  BY <1>3, <1>10
<1>12. chip.pos % PageBlocks = p + Moved
  <2>1. \A i \in {0, 1} : i % 2 = i
    OBVIOUS
  <2>2. QED
    BY <1>6, <1>11, <2>1 DEF PagesOfTwo
<1>13. ASSUME breq[r].operation = "read"
       PROVE  (chip.page * PageBlocks + chip.pos) % (Pages * PageBlocks) = given[r].first + (x + Moved)
  <2>1. chip.page * PageBlocks + chip.pos = given[r].first + (x + Moved)
    <3>1. PageBlocks = 2 /\ chip.page = q /\ chip.pos = p + Moved
      BY <1>6, <1>13 DEF PagesOfTwo
    <3>2. given[r].first \in Nat /\ 2 * q + p = given[r].first + x
      BY <1>2, <1>3, <1>9
    <3>3. q * 2 + (p + Moved) = given[r].first + (x + Moved)
      BY <3>2, <1>3, <1>8, <1>10
    <3>4. QED
      BY <3>1, <3>3
  <2>2. given[r].first + (x + Moved) \in Nat /\ given[r].first + (x + Moved) <= given[r].first + given[r].count - 1
    BY <1>2, <1>8, <1>10
  <2> DEFINE a == given[r].first + (x + Moved)  m == Pages * PageBlocks
  <2>3. a \in Nat /\ m \in Nat \ {0} /\ a < m
    BY <1>2, <2>2, Sizes DEF Block
  <2> HIDE DEF a, m
  <2>4. a % m = a
    BY <2>3
  <2>5. QED
    BY <2>1, <2>4 DEF a, m
<1>14. MaxLen \in Nat /\ given[r].bufs \in Nat /\ given[r].bufs = g
  BY <1>1 DEF g
<1>15. Head(spi.left) = <<r, (x + Moved) + 1>> /\ x + Moved \in Nat
  BY <1>7, <1>8, <1>10
<1>16. NextFits(r, x, p, x + Moved)
  BY <1>6, <1>8, <1>10, <1>11, <1>12, <1>13, <1>14, <1>15 DEF NextFits
<1>17. QED
  BY <1>16 DEF x, p


LEMMA PollBufferKeepsData ==
    ASSUME CInv, DInv, PagesOfTwo, PollEndsBuffer, MasterAlone
    PROVE  DInv' /\ chip'.flash = chip.flash
<1>1. /\ ListsTurn /\ spi.op \in Lists /\ "poll_next_buffer" \in OnMain' /\ "poll_next_buffer" \notin OnMain
      /\ spi' = spi /\ Head(spi.left) \in Buffer /\ chip \in Chip /\ data \in [Buffer -> Value]
      /\ IF spi.op = "write_list"
         THEN chip' = Written(chip, data[Head(spi.left)]) /\ data' = data
         ELSE /\ data' = [data EXCEPT ![Head(spi.left)] = BlockOut(chip, @)]
              /\ chip' = BlockRead(chip)
  BY PollBufferKeepsControl DEF CInv, DfTypeOK
<1>2. PICK r \in Req : r = current
  BY <1>1 DEF ListsTurn
<1> DEFINE x == breq[r].bytes_xfered  p == PosOf(breq[r])  n == breq[r].bytes_xfered + Moved
<1>3. NextFits(r, x, p, n)
  BY <1>1, <1>2, NextPlace
<1>4. UNCHANGED <<breq, transfer_pos, given, current_buf_list, lent, current>>
  BY DEF MasterAlone
<1>5. /\ ~ Done(r) /\ Owned(r) /\ breq[r] \in BlockRequest /\ Len(spi.left) \in Nat \ {0}
      /\ transfer_pos \in Nat /\ breq[r].func # "start"
  BY <1>1, <1>2, ListFacts
<1>6. x' = x /\ p' = p /\ breq'[r] = breq[r] /\ PageOf(breq[r])' = PageOf(breq[r])
      /\ dataflash_is_page_aligned(breq[r])' = dataflash_is_page_aligned(breq[r])
      /\ Taken(r)' = Taken(r)
  BY <1>4 DEF PosOf, PageOf, dataflash_is_page_aligned, Taken
<1>7. Moved' = Moved + 1
  <2> DEFINE l == Len(spi.left)
  <2>1. Left = l
    BY <1>1 DEF Left
  <2>2. Left' = l - 1
    BY <1>1 DEF Left
  <2>3. l \in Nat
    BY <1>5
  <2> HIDE DEF l
  <2>4. QED
    BY <1>4, <1>5, <2>1, <2>2, <2>3 DEF Moved
<1>8. ListTaken(r)'
  <2>1. ListTaken(r)
    BY <1>5 DEF Owned
  <2>2. Bufs(r, Taken(r) - Len(spi.left), Taken(r))' = Bufs(r, Taken(r) - Len(spi.left), Taken(r))
    BY <1>1, <1>6 DEF Bufs
  <2>3. QED
    BY <1>1, <1>4, <1>6, <2>1, <2>2 DEF ListTaken
<1>9. /\ chip'.flash = chip.flash /\ chip'.work = chip.work /\ chip'.pos = chip.pos + 1
      /\ breq[r].operation = "read" => /\ chip'.page = chip.page /\ chip'.buffer = chip.buffer
                                       /\ spi.op = "read_list"
      /\ breq[r].operation = "write" =>
            /\ data' = data /\ spi.op = "write_list"
            /\ chip'.buffer = [chip.buffer EXCEPT ![chip.pos % PageBlocks] = data[<<r, n + 1>>]]
  <2>1. Head(spi.left) = <<r, n + 1>>
    BY <1>3 DEF NextFits
  <2>2. CASE spi.op = "write_list"
    <3>1. breq[r].operation = "write" /\ chip.cmd = "buffer_write"
      BY <1>1, <1>2, <2>2 DEF ListsTurn
    <3>2. data[<<r, n + 1>>] \in Value
      BY <1>1, <2>1
    <3>3. chip' = Written(chip, data[<<r, n + 1>>]) /\ data' = data
      BY <1>1, <2>1, <2>2
    <3> HIDE DEF n
    <3>4. QED
      BY <1>1, <2>2, <3>1, <3>2, <3>3, BlockMoved
  <2>3. CASE spi.op # "write_list"
    <3>1. breq[r].operation = "read" /\ spi.op = "read_list"
      BY <1>1, <1>2, <2>3 DEF ListsTurn, Lists
    <3>2. data[<<r, n + 1>>] \in Value /\ chip' = BlockRead(chip)
      BY <1>1, <2>1, <2>3
    <3> HIDE DEF n
    <3>3. QED
      BY <1>1, <3>1, <3>2, BlockMoved DEF SameMemory
  <2>4. QED
    BY <2>2, <2>3
<1>10. AddressFits(r)'
  <2>1. AddressFits(r) /\ spi.op # "write" /\ breq[r].func \in {"transfer", "read_done", "write_done"}
    BY <1>1, <1>2, <1>5, Transfers DEF Owned, ListsTurn
  <2>2. chip'.pos = p + Moved'
    BY <1>3, <1>7, <1>9 DEF NextFits
  <2>3. breq[r].operation = "read" => chip'.page = PageOf(breq[r])
    BY <1>9, <2>1 DEF AddressFits
  <2>4. QED
    BY <1>6, <2>2, <2>3 DEF AddressFits
<1>11. InBuffer(r)' <=> InBuffer(r)
  BY <1>6, <1>9 DEF InBuffer, Ready
<1>12. CASE breq[r].operation = "write"
  <2>1. \A t \in Req : ~ Done(t) => Counted(t)'
    BY <1>9, <1>12, CountStays
  <2>2. data[<<r, n + 1>>] = <<r, n + 1>>
    <3>1. \A i \in 1 .. given[r].bufs : data[<<r, i>>] = <<r, i>>
      BY <1>5, <1>12, CountedFacts
    <3>2. n + 1 \in 1 .. given[r].bufs
      <4>1. n \in Nat /\ n + 1 <= given[r].bufs /\ given[r].bufs \in Nat
        BY <1>3 DEF NextFits
      <4> HIDE DEF n
      <4>2. QED
        BY <4>1
    <3>3. QED
      BY <3>1, <3>2
  <2>3. chip'.buffer = [chip.buffer EXCEPT ![p + Moved] = <<r, n + 1>>]
    BY <1>3, <1>9, <1>12, <2>2 DEF NextFits
  <2>4. chip.buffer \in [{0, 1} -> Value]
    <3>1. 0 .. PageBlocks - 1 = {0, 1}
      BY DEF PagesOfTwo
    <3>2. QED
      BY <1>1, <3>1 DEF Chip
  <2>5. n = x + Moved /\ Moved \in Nat /\ x \in Nat /\ p \in Nat /\ p + Moved \in {0, 1}
    BY <1>3 DEF NextFits
  <2>6. ASSUME PageBuffered(r) PROVE PageBuffered(r)'
    <3>1. ASSUME NEW i \in 0 .. Moved' - 1
          PROVE  chip'.buffer[p + i] = <<r, x + i + 1>>
      <4>1. CASE i = Moved
        BY <2>3, <2>4, <2>5, <4>1
      <4>2. CASE i # Moved
        <5>1. i \in 0 .. Moved - 1
          BY <1>7, <2>5, <4>2
        <5>2. chip.buffer[p + i] = <<r, x + i + 1>>
          BY <2>6, <5>1 DEF PageBuffered
        <5>3. p + i \in {0, 1} /\ p + i # p + Moved
          BY <2>5, <5>1
        <5>4. QED
          BY <2>3, <2>4, <5>2, <5>3
      <4>3. QED
        BY <4>1, <4>2
    <3>2. ASSUME ~ dataflash_is_page_aligned(breq[r]), NEW o \in {0, 1} \ (p .. p + Moved' - 1)
          PROVE  chip'.buffer[o] = chip'.flash[2 * PageOf(breq[r]) + o]
      <4>1. o # p + Moved /\ o \in {0, 1} \ (p .. p + Moved - 1)
        <5>1. o \in {0, 1} /\ o \notin p .. p + Moved' - 1 /\ p \in Nat /\ Moved \in Nat /\ Moved' = Moved + 1
          BY <1>7, <2>5, <3>2
        <5> HIDE DEF p
        <5>2. p + Moved' - 1 = p + Moved
          BY <5>1
        <5>3. o \notin p .. p + Moved /\ o \in Nat
          BY <5>1, <5>2
        <5>4. o # p + Moved /\ o \notin p .. p + Moved - 1
          BY <5>1, <5>3
        <5>5. QED
          BY <5>1, <5>4
      <4>2. chip.buffer[o] = chip.flash[2 * PageOf(breq[r]) + o]
        BY <2>6, <3>2, <4>1 DEF PageBuffered
      <4>3. QED
        BY <1>9, <2>3, <2>4, <4>1, <4>2
    <3>3. QED
      BY <1>6, <3>1, <3>2 DEF PageBuffered
  <2>7. Transferred(r, Sure(r))'
    <3>1. Sure(r)' = Sure(r)
      BY <1>4, <1>6, <1>9, <1>12 DEF Sure, Ready
    <3>2. QED
      BY <1>4, <1>5, <1>9, <1>12, <3>1 DEF Owned, Transferred
  <2>8. Owned(r)'
    BY <1>5, <1>6, <1>8, <1>10, <1>11, <2>6, <2>7 DEF Owned
  <2>9. QED
    BY <1>2, <1>9, <2>1, <2>8, MasterLeaves
<1>13. CASE breq[r].operation = "read"
  <2>1. Head(spi.left) = <<r, n + 1>> /\ n = x + Moved /\ Moved \in Nat /\ x \in Nat /\ n + 1 <= MaxLen
        /\ MaxLen \in Nat /\ n \in Nat
    BY <1>3 DEF NextFits
  <2>2. data' = [data EXCEPT ![<<r, n + 1>>] = BlockOut(chip, @)] /\ chip.cmd = "read"
    BY <1>1, <1>2, <1>9, <1>13, <2>1 DEF ListsTurn
  <2>3. BlockOut(chip, data[<<r, n + 1>>]) = chip.flash[given[r].first + n]
    BY <1>3, <1>13, <2>2 DEF NextFits, BlockOut
  <2>4. Buffer = Req \X (1 .. MaxLen)
    BY DataflashAssumption
  <2>5. ASSUME NEW t \in Req, NEW i \in 1 .. MaxLen, t # r \/ i # n + 1
        PROVE  data'[<<t, i>>] = data[<<t, i>>]
    BY <1>1, <2>2, <2>4, <2>5
  <2>6. data'[<<r, n + 1>>] = chip.flash[given[r].first + n]
    BY <1>1, <2>1, <2>2, <2>3
  <2>7. ASSUME NEW t \in Req, ~ Done(t) PROVE Counted(t)'
    <3>1. given[t].bufs \in Nat /\ given[t].bufs <= given[t].count /\ given[t].count <= MaxLen /\ given[t].count \in Nat
      BY <2>7, CountedFacts
    <3>2. breq[t].operation = "write" => \A i \in 1 .. given[t].bufs : data'[<<t, i>>] = data[<<t, i>>]
      BY <1>13, <2>1, <2>5, <3>1
    <3>3. QED
      BY <2>7, <3>2, CountStays
  <2>8. Sure(r)' = n + 1
    <3>1. Sure(r)' = x + Moved'
      BY <1>5, <1>6, <1>13 DEF Sure
    <3>2. Moved' = Moved + 1 /\ n = x + Moved /\ Moved \in Nat /\ x \in Nat
      BY <1>7, <2>1
    <3> HIDE DEF x, n
    <3>3. QED
      BY <3>1, <3>2
  <2>9. Sure(r) = n
    BY <1>5, <1>13, <2>1 DEF Sure
  <2>10. ASSUME NEW i \in 1 .. n + 1
         PROVE  data'[<<r, i>>] = chip'.flash[given'[r].first + i - 1]
    <3>1. CASE i = n + 1
      <4>1. given[r].first \in Nat
        BY <1>5, CountedFacts
      <4>2. given[r].first + (n + 1) - 1 = given[r].first + n
        BY <2>1, <4>1
      <4>3. QED
        BY <1>4, <1>9, <2>6, <3>1, <4>2
    <3>2. CASE i # n + 1
      <4>1. i \in 1 .. n /\ i \in 1 .. MaxLen
        BY <2>1, <3>2
      <4>2. data[<<r, i>>] = chip.flash[given[r].first + i - 1]
        BY <1>5, <2>9, <4>1 DEF Owned, Transferred
      <4>3. QED
        BY <1>4, <1>9, <2>5, <3>2, <4>1, <4>2
    <3>3. QED
      BY <3>1, <3>2
  <2>11. Transferred(r, Sure(r))'
    BY <2>8, <2>10 DEF Transferred
  <2>12. ~ InBuffer(r)
    BY <1>1, <1>2, <1>13 DEF InBuffer, ListsTurn
  <2>13. Owned(r)'
    BY <1>5, <1>6, <1>8, <1>10, <1>11, <2>11, <2>12 DEF Owned
  <2>14. QED
    BY <1>2, <1>9, <2>7, <2>13, MasterLeaves
<1>14. QED
  BY <1>5, <1>12, <1>13 DEF BlockRequest


\* The request that owns the bus while the chip works.
LEMMA WorkFacts ==
    ASSUME CInv, DInv, PagesOfTwo, NEW r \in Req, r = current,
           breq[r].func \in {"write_buffered_wait", "write_wait"}
    PROVE  /\ ~ Done(r) /\ Owned(r) /\ breq[r].operation = "write" /\ spi.op \notin Lists
           /\ Left = 0 /\ Moved = transfer_pos /\ transfer_pos \in Nat
           /\ breq[r].func = "write_buffered_wait" => transfer_pos = 0
           /\ breq[r].func = "write_wait" => transfer_pos = end_pos(breq[r])
           /\ PageOf(breq[r]) % Pages = PageOf(breq[r])
<1>1. /\ ~ Done(r) /\ Owned(r) /\ PhaseFits(breq[r], next, spi, cmdrsp, chip, transfer_pos) /\ transfer_pos \in Nat
      /\ spi.op \notin Lists => Left = 0 /\ Moved = transfer_pos
  BY OwnersFacts
<1>2. spi.op \notin Lists
  BY <1>1, PhaseOfList
<1>3. /\ breq[r].operation = "write"
      /\ breq[r].func = "write_buffered_wait" => transfer_pos = 0
      /\ breq[r].func = "write_wait" => transfer_pos = end_pos(breq[r])
  BY <1>1 DEF PhaseFits, Phase
<1>4. PageOf(breq[r]) % Pages = PageOf(breq[r])
  <2> DEFINE q == PageOf(breq[r])  p == PosOf(breq[r])
  <2>1. /\ breq[r] \in BlockRequest /\ given[r].first + given[r].count - 1 \in Block
        /\ given[r].count \in Nat /\ given[r].first \in Nat /\ breq[r].bytes_xfered \in Nat
        /\ breq[r].lba = given[r].first + breq[r].bytes_xfered
        /\ breq[r].remaining_blocks = given[r].count - breq[r].bytes_xfered /\ breq[r].remaining_blocks > 0
    BY <1>1, CountedFacts
  <2>2. q \in Nat /\ p \in {0, 1} /\ breq[r].lba = 2 * q + p
    BY <2>1, Positions
  <2>3. Pages \in Nat \ {0} /\ given[r].first + given[r].count - 1 <= Pages * 2 - 1
    BY <2>1, Sizes DEF Block, PagesOfTwo
  <2> HIDE DEF q, p
  <2>4. breq[r].lba <= Pages * 2 - 1
    BY <2>1, <2>3
  <2>5. q < Pages
    BY <2>2, <2>3, <2>4
  <2>6. q % Pages = q
    BY <2>2, <2>3, <2>5
  <2>7. QED
    BY <2>6 DEF q
<1>5. QED
  BY <1>1, <1>2, <1>3, <1>4

\* What the flash holds when the page of r has been programmed.
OwnBlocks(r) ==
    \A b \in Block :
        LET mine == b \in breq[r].lba .. breq[r].lba + transfer_pos - 1
        IN  /\ mine => chip'.flash[b] = <<r, b - given[r].first + 1>>
            /\ ~ mine => chip'.flash[b] = chip.flash[b]

LEMMA PageProgrammed ==
    ASSUME CInv, DInv, PagesOfTwo, NEW r \in Req, r = current, breq[r].func = "write_wait",
           chip.work = [op |-> "program", page |-> PageOf(breq[r])], chip' = Finished(chip)
    PROVE  OwnBlocks(r)
<1> DEFINE q == PageOf(breq[r])  p == PosOf(breq[r])  x == breq[r].bytes_xfered  f == given[r].first
<1>1. /\ ~ Done(r) /\ Owned(r) /\ Moved = transfer_pos /\ transfer_pos \in Nat
      /\ transfer_pos = end_pos(breq[r]) /\ q % Pages = q
  BY WorkFacts
<1>2. /\ breq[r] \in BlockRequest /\ f \in Nat /\ x \in Nat /\ breq[r].lba = f + x /\ breq[r].remaining_blocks > 0
  BY <1>1, CountedFacts
<1>3. /\ q \in Nat /\ p \in {0, 1} /\ breq[r].lba = 2 * q + p
      /\ transfer_pos \in {1, 2} /\ p + transfer_pos <= 2
      /\ dataflash_is_page_aligned(breq[r]) <=> transfer_pos = 2
  BY <1>1, <1>2, PageFacts
<1>4. chip \in Chip /\ ~ Ready(chip) /\ chip.work.op # "load" /\ chip.work.page = q
  BY DEF CInv, DfTypeOK, Ready, Idle
<1>5. chip'.flash = [b \in Block |-> IF b \div PageBlocks = chip.work.page % Pages
                                     THEN chip.buffer[b % PageBlocks] ELSE chip.flash[b]]
  BY <1>4, ChipFinished
<1>6. \A b \in Block : chip'.flash[b] = IF b \div 2 = q THEN chip.buffer[b % 2] ELSE chip.flash[b]
  BY <1>1, <1>4, <1>5 DEF PagesOfTwo
<1>7. PageBuffered(r)
  BY <1>1, <1>4 DEF Owned, InBuffer
<1>8. \A i \in 0 .. transfer_pos - 1 : chip.buffer[p + i] = <<r, x + i + 1>>
  BY <1>1, <1>7 DEF PageBuffered
<1>9. transfer_pos = 1 => \A o \in {0, 1} \ (p .. p + transfer_pos - 1) : chip.buffer[o] = chip.flash[2 * q + o]
  BY <1>1, <1>3, <1>7 DEF PageBuffered
<1> HIDE DEF q, p, x, f
<1>10. SUFFICES ASSUME NEW b \in Block
                PROVE  /\ b \in breq[r].lba .. breq[r].lba + transfer_pos - 1 =>
                            chip'.flash[b] = <<r, b - f + 1>>
                       /\ b \notin breq[r].lba .. breq[r].lba + transfer_pos - 1 =>
                            chip'.flash[b] = chip.flash[b]
  BY DEF OwnBlocks, f
<1>11. b \in Nat
  BY Sizes DEF Block
<1> DEFINE o == b % 2  h == b \div 2
<1>12. h \in Nat /\ o \in {0, 1} /\ b = 2 * h + o
  BY <1>11
<1>13. chip'.flash[b] = IF h = q THEN chip.buffer[o] ELSE chip.flash[b]
  BY <1>6
<1> HIDE DEF o, h
<1>14. CASE b \in breq[r].lba .. breq[r].lba + transfer_pos - 1
  <2>1. h = q /\ o - p \in 0 .. transfer_pos - 1
    BY <1>3, <1>12, <1>14
  <2>2. chip.buffer[p + (o - p)] = <<r, x + (o - p) + 1>>
    BY <1>8, <2>1
  <2>3. p + (o - p) = o /\ x + (o - p) + 1 = b - f + 1
    BY <1>2, <1>3, <1>12, <2>1
  <2>4. chip'.flash[b] = <<r, b - f + 1>>
    BY <1>13, <2>1, <2>2, <2>3
  <2>5. QED
    BY <1>14, <2>4
<1>15. CASE b \notin breq[r].lba .. breq[r].lba + transfer_pos - 1
  <2>1. CASE h = q
    <3>1. o \notin p .. p + transfer_pos - 1
      BY <1>3, <1>12, <1>15, <2>1
    <3>2. transfer_pos = 1
      BY <1>3, <1>12, <3>1
    <3>3. chip.buffer[o] = chip.flash[2 * q + o]
      BY <1>9, <1>12, <3>1, <3>2
    <3>4. chip'.flash[b] = chip.flash[b]
      BY <1>12, <1>13, <2>1, <3>3
    <3>5. QED
      BY <1>15, <3>4
  <2>2. CASE h # q
    BY <1>13, <1>15, <2>2
  <2>3. QED
    BY <2>1, <2>2
<1>16. QED
  BY <1>14, <1>15


OwnChanges ==
    \A b \in Block : chip'.flash[b] # chip.flash[b] =>
        \E r \in Req : /\ current = r /\ breq[r].operation = "write"
                       /\ b - given[r].first \in 0 .. given[r].count - 1
                       /\ chip'.flash[b] = <<r, b - given[r].first + 1>>

LEMMA ChipKeepsData ==
    ASSUME CInv, DInv, PagesOfTwo, ChipFinishes
    PROVE  DInv' /\ OwnChanges
<1>1. /\ ~ Ready(chip) /\ chip' = Finished(chip) /\ chip \in Chip
      /\ UNCHANGED <<breq, next, transfer_pos, current_buf_list, given, lent, queues, current, spi, data>>
      /\ \/ current = DETECT /\ chip'.flash = chip.flash
         \/ \E r \in Req : /\ current = r
                           /\ \/ breq[r].func = "write_buffered_wait" /\ chip.work = [op |-> "load", page |-> PageOf(breq[r])]
                              \/ breq[r].func = "write_wait" /\ chip.work = [op |-> "program", page |-> PageOf(breq[r])]
  BY ChipKeepsControl DEF ChipFinishes, driverVars, clientVars, CInv, DfTypeOK
<1>2. MasterAlone
  BY <1>1 DEF MasterAlone
<1>3. \A r \in Req : ~ Done(r) => Counted(r)'
  BY <1>1, <1>2, CountStays
<1>4. CASE current = DETECT /\ chip'.flash = chip.flash
  BY <1>2, <1>3, <1>4, Names, MasterLeaves DEF OwnChanges
<1>5. ASSUME NEW r \in Req, current = r, breq[r].func \in {"write_buffered_wait", "write_wait"},
             chip.work = [op |-> (IF breq[r].func = "write_wait" THEN "program" ELSE "load"), page |-> PageOf(breq[r])]
      PROVE  DInv' /\ OwnChanges
  <2>1. /\ ~ Done(r) /\ Owned(r) /\ breq[r].operation = "write" /\ spi.op \notin Lists
        /\ Left = 0 /\ Moved = transfer_pos /\ transfer_pos \in Nat
        /\ breq[r].func = "write_buffered_wait" => transfer_pos = 0
        /\ breq[r].func = "write_wait" => transfer_pos = end_pos(breq[r])
        /\ PageOf(breq[r]) % Pages = PageOf(breq[r])
    BY <1>5, WorkFacts
  <2>2. Left' = 0 /\ Moved' = transfer_pos
    <3>1. Left' = 0
      BY <1>1, <2>1 DEF Left
    <3>2. QED
      BY <1>1, <2>1, <3>1 DEF Moved
  <2>3. ListTaken(r)' /\ AddressFits(r)' /\ (breq'[r].func = "start" => current_buf_list' = << >>)
    BY <1>1, <1>5, <2>1 DEF ListTaken, AddressFits
  <2>4. Ready(chip')
    BY <1>1, ChipFinished
  <2>5. CASE breq[r].func = "write_buffered_wait"
    <3>1. chip.work.op = "load" /\ chip.work.page = PageOf(breq[r])
      BY <1>5, <2>5
    <3>2. /\ chip'.flash = chip.flash
          /\ chip'.buffer = [i \in 0 .. PageBlocks - 1 |-> chip.flash[(chip.work.page % Pages) * PageBlocks + i]]
      BY <1>1, <3>1, ChipFinished
    <3>3. Sure(r)' = breq[r].bytes_xfered /\ Sure(r) = breq[r].bytes_xfered
      BY <1>1, <2>1, <2>5 DEF Sure
    <3>4. Transferred(r, Sure(r))'
      BY <1>1, <2>1, <3>2, <3>3 DEF Owned, Transferred
    <3>5. \A o \in {0, 1} : chip'.buffer[o] = chip'.flash[2 * PageOf(breq[r]) + o]
      <4> DEFINE q == PageOf(breq[r])
      <4>1. q \in Nat /\ q % Pages = q /\ chip.work.page = q
        <5>1. breq[r] \in BlockRequest
          BY DEF CInv, DfTypeOK
        <5>2. QED
          BY <2>1, <3>1, <5>1, Positions
      <4> HIDE DEF q
      <4>2. 0 .. PageBlocks - 1 = {0, 1} /\ \A o \in {0, 1} : q * PageBlocks + o = 2 * q + o
        BY SMTT(60), <4>1 DEF PagesOfTwo
      <4>3. QED
        BY <3>2, <4>1, <4>2 DEF q
    <3>6. PageBuffered(r)'
      BY <1>1, <2>1, <2>2, <2>5, <3>5 DEF PageBuffered, PosOf, PageOf
    <3>7. Owned(r)'
      BY <2>3, <3>4, <3>6 DEF Owned
    <3>8. QED
      BY <1>2, <1>3, <1>5, <3>2, <3>7, MasterLeaves DEF OwnChanges
  <2>6. CASE breq[r].func = "write_wait"
    <3>1. OwnBlocks(r)
      BY <1>1, <1>5, <2>6, PageProgrammed
    <3> DEFINE x == breq[r].bytes_xfered  f == given[r].first  c == given[r].count  a == breq[r].lba
               e == transfer_pos
    <3>2. /\ f \in Nat /\ c \in Nat /\ x \in Nat /\ a = f + x /\ x + e <= given[r].bufs /\ given[r].bufs \in Nat
          /\ given[r].bufs <= c /\ f + c - 1 \in Block
          /\ \A i \in 1 .. given[r].bufs : data[<<r, i>>] = <<r, i>>
      <4>1. Taken(r) = x + e
        BY <2>6 DEF Taken
      <4>2. QED
        BY <2>1, <4>1, CountedFacts
    <3>3. Sure(r) = x
      BY <1>1, <2>1, <2>6 DEF Sure
    <3>4. Sure(r)' = x + e
      BY <1>1, <2>1, <2>4, <2>6 DEF Sure
    <3>5. \A b \in Block : /\ b \in a .. a + e - 1 => chip'.flash[b] = <<r, b - f + 1>>
                           /\ b \notin a .. a + e - 1 => chip'.flash[b] = chip.flash[b]
      BY <3>1 DEF OwnBlocks
    <3>6. \A i \in 1 .. x : data[<<r, i>>] = chip.flash[f + i - 1]
      BY <2>1, <3>3 DEF Owned, Transferred
    <3> HIDE DEF x, f, c, a, e
    <3>7. e \in Nat
      BY <2>1 DEF e
    <3>8. ASSUME NEW i \in 1 .. x + e
          PROVE  data[<<r, i>>] = chip'.flash[f + i - 1]
      <4>1. f + i - 1 \in Block
        BY <3>2, <3>7, Sizes DEF Block
      <4>2. CASE i <= x
        <5>1. f + i - 1 \notin a .. a + e - 1 /\ i \in 1 .. x
          BY <3>2, <3>7, <4>2
        <5>2. QED
          BY <3>5, <3>6, <4>1, <5>1
      <4>3. CASE i > x
        <5>1. f + i - 1 \in a .. a + e - 1 /\ (f + i - 1) - f + 1 = i
          BY <3>2, <3>7, <4>3
        <5>2. i \in 1 .. given[r].bufs
          BY <3>2, <3>7
        <5>3. QED
          BY <3>2, <3>5, <4>1, <5>1, <5>2
      <4>4. QED
        BY <3>2, <4>2, <4>3
    <3>9. Transferred(r, Sure(r))'
      BY <1>1, <3>4, <3>8 DEF Transferred, f
    <3>10. ~ InBuffer(r)'
      BY <1>1, <2>4, <2>6 DEF InBuffer
    <3>11. Owned(r)'
      BY <2>3, <3>9, <3>10 DEF Owned
    <3>12. ASSUME NEW b \in Block, chip'.flash[b] # chip.flash[b]
           PROVE  b - f \in 0 .. c - 1 /\ chip'.flash[b] = <<r, b - f + 1>>
      <4>1. b \in a .. a + e - 1
        BY <3>5, <3>12
      <4>2. b - f \in 0 .. c - 1
        BY <3>2, <3>7, <4>1
      <4>3. QED
        BY <3>5, <4>1, <4>2
    <3>13. OwnChanges
      BY <1>5, <2>1, <3>12 DEF OwnChanges, f, c
    <3>14. QED
      BY <1>2, <1>3, <1>5, <3>11, <3>13, MasterLeaves
  <2>7. QED
    BY <1>5, <2>5, <2>6
<1>6. QED
  BY <1>1, <1>4, <1>5


-----------------------------------------------------------------------------
(* Detection and the clients.                                              *)

LEMMA DataSame ==
    ASSUME DInv, UNCHANGED <<breq, transfer_pos, current_buf_list, given, lent, data>>,
           current' \notin Req => current_buf_list = << >>,
           \A r \in Req : r = current' => Owned(r)'
    PROVE  DInv'
<1>1. \A r : (Done(r)' <=> Done(r)) /\ Taken(r)' = Taken(r)
  BY DEF Done, Taken
<1>2. ASSUME NEW r \in Req, ~ Done(r)' PROVE Counted(r)'
  <2>1. Bufs(r, Taken(r), given[r].bufs)' = Bufs(r, Taken(r), given[r].bufs)
    BY <1>1 DEF Bufs
  <2>2. QED
    BY <1>1, <1>2, <2>1 DEF DInv, Counted
<1>3. Lent'
  BY <1>1 DEF DInv, Lent
<1>4. \A r \in Req : given'[r] = NoAsk => Done(r)' /\ breq'[r].buf_list = << >>
  BY <1>1 DEF DInv
<1>5. QED
  BY <1>2, <1>3, <1>4 DEF DInv

LEMMA SureIsTaken ==
    ASSUME CInv, DInv, NEW r \in Req, r = current
    PROVE  Sure(r) \in Nat /\ Sure(r) <= given[r].bufs /\ given[r].bufs \in Nat
<1>1. /\ ~ Done(r) /\ transfer_pos \in Nat /\ Moved \in Nat /\ Left \in Nat /\ Moved + Left = transfer_pos
  BY OwnersFacts
<1>2. /\ breq[r].bytes_xfered \in Nat /\ breq[r].operation \in {"read", "write"}
      /\ Taken(r) <= given[r].bufs /\ given[r].bufs \in Nat
  BY <1>1, CountedFacts
<1>3. breq[r].func # "start" => Taken(r) = breq[r].bytes_xfered + transfer_pos
  BY DEF Taken
<1>4. breq[r].func = "start" => Taken(r) = breq[r].bytes_xfered
  BY <1>1, <1>2 DEF Taken
<1>5. breq[r].func = "write_wait" => breq[r].func # "start"
  OBVIOUS
<1>6. Sure(r) \in {0, breq[r].bytes_xfered}
        \/ (breq[r].func # "start" /\ Sure(r) \in {breq[r].bytes_xfered + Moved, breq[r].bytes_xfered + transfer_pos})
  BY <1>5 DEF Sure
<1> DEFINE S == Sure(r)  T == Taken(r)
<1>7. S \in {0, breq[r].bytes_xfered}
        \/ (breq[r].func # "start" /\ S \in {breq[r].bytes_xfered + Moved, breq[r].bytes_xfered + transfer_pos})
  BY <1>6
<1>8. /\ T <= given[r].bufs /\ (breq[r].func # "start" => T = breq[r].bytes_xfered + transfer_pos)
      /\ (breq[r].func = "start" => T = breq[r].bytes_xfered)
  BY <1>2, <1>3, <1>4
<1> HIDE DEF S, T
<1>9. S \in Nat /\ S <= given[r].bufs
  BY <1>1, <1>2, <1>7, <1>8
<1>10. QED
  BY <1>2, <1>9 DEF S

LEMMA OwnedSame ==
    ASSUME CInv, DInv, NEW r \in Req, r = current,
           UNCHANGED <<transfer_pos, current_buf_list, spi, chip>>,
           "poll_next_buffer" \in OnMain' <=> "poll_next_buffer" \in OnMain,
           SameButSleep(breq[r], breq'[r]), breq'[r].func = breq[r].func,
           given'[r].first = given[r].first,
           \A i \in 1 .. given[r].bufs : data'[<<r, i>>] = data[<<r, i>>]
    PROVE  Owned(r)'
<1>1. Owned(r)
  BY DEF DInv
<1>2. Left' = Left
  BY DEF Left
<1>3. Moved' = Moved
  BY <1>2 DEF Moved
<1>4. /\ breq'[r].operation = breq[r].operation /\ breq'[r].bytes_xfered = breq[r].bytes_xfered
      /\ PageOf(breq[r])' = PageOf(breq[r]) /\ PosOf(breq[r])' = PosOf(breq[r])
      /\ dataflash_is_page_aligned(breq[r])' = dataflash_is_page_aligned(breq[r])
      /\ Ready(chip') = Ready(chip)
  BY DEF SameButSleep, PageOf, PosOf, dataflash_is_page_aligned
<1>5. Sure(r)' = Sure(r) /\ (InBuffer(r)' <=> InBuffer(r)) /\ Taken(r)' = Taken(r)
  BY <1>3, <1>4 DEF Sure, InBuffer, Taken
<1>6. Transferred(r, Sure(r))'
  <2>1. \A i \in 1 .. Sure(r) : data[<<r, i>>] = chip.flash[given[r].first + i - 1]
    BY <1>1 DEF Owned, Transferred
  <2>2. \A i \in 1 .. Sure(r) : i \in 1 .. given[r].bufs
    BY SureIsTaken
  <2>3. QED
    BY <1>5, <2>1, <2>2 DEF Transferred
<1>7. ListTaken(r)'
  <2>1. Bufs(r, Taken(r) - Len(spi.left), Taken(r))' = Bufs(r, Taken(r) - Len(spi.left), Taken(r))
    BY <1>5 DEF Bufs
  <2>2. QED
    BY <1>1, <1>5, <2>1 DEF Owned, ListTaken
<1>8. AddressFits(r)'
  BY <1>1, <1>3, <1>4 DEF Owned, AddressFits
<1>9. InBuffer(r)' => PageBuffered(r)'
  BY <1>1, <1>3, <1>4, <1>5 DEF Owned, PageBuffered
<1>10. QED
  BY <1>1, <1>6, <1>7, <1>8, <1>9 DEF Owned

LEMMA SameButSleepItself ==
    ASSUME NEW b
    PROVE  SameButSleep(b, b)
BY DEF SameButSleep

LEMMA DetectionKeepsData ==
    ASSUME CInv, DInv, Identify \/ Identified
    PROVE  DInv' /\ chip'.flash = chip.flash
<1>1. /\ UNCHANGED <<breq, transfer_pos, current_buf_list, given, lent, data>> /\ Runs(DETECT)
  BY DEF Identify, Identified, detectOnly, clientVars
<1>2. CInv' /\ chip'.flash = chip.flash
  BY IdentifyKeepsControl, IdentifiedKeepsControl
<1>3. current = DETECT /\ DETECT \notin Req
  BY <1>1, DetectionsTurn
<1>4. current_buf_list = << >>
  BY <1>3 DEF DInv
<1>5. ASSUME NEW t \in Req, t = current' PROVE Owned(t)'
  <2>1. Identified
    <3>1. SUFFICES ASSUME Identify PROVE FALSE
      OBVIOUS
    <3>2. IdentFits(next, NoTransfer, cmdrsp, chip) /\ cmdrsp \in BOOLEAN
      BY <1>1, DetectionsTurn
    <3>3. current' = current
      BY <3>1, <3>2, IdentifySteps DEF Identify, GoesOn
    <3>4. QED
      BY <1>3, <1>5, <3>3
  <2>2. breq[t].func = "start" /\ spi' = NoTransfer
    BY <1>5, <2>1, IdentifiedKeepsControl
  <2>3. ~ Done(t)'
    BY <1>2, <1>5 DEF CInv, Turns
  <2>4. ~ Done(t)
    BY <1>1, <2>3 DEF Done
  <2>5. breq[t].bytes_xfered = 0
    BY <2>2, <2>4 DEF DInv, Counted
  <2>6. QED
    BY <1>1, <1>4, <2>2, <2>5, NewOwner, Transfers
<1>6. DInv'
  BY <1>1, <1>4, <1>5, DataSame
<1>7. QED
  BY <1>2, <1>6

LEMMA EventKeepsData ==
    ASSUME CInv, DInv, Event
    PROVE  DInv' /\ chip'.flash = chip.flash
<1>1. UNCHANGED <<breq, transfer_pos, current_buf_list, given, lent, data, spi, chip, current>>
  BY DEF Event, clientVars
<1>2. "poll_next_buffer" \in OnMain' <=> "poll_next_buffer" \in OnMain
  BY EventKeepsControl
<1>3. \A r \in Req : r = current' => Owned(r)'
  BY <1>1, <1>2, OwnedSame, SameButSleepItself
<1>4. current' \notin Req => current_buf_list = << >>
  BY <1>1 DEF DInv
<1>5. QED
  BY <1>1, <1>3, <1>4, DataSame

LEMMA StutterKeepsData ==
    ASSUME CInv, DInv, UNCHANGED vars
    PROVE  DInv' /\ chip'.flash = chip.flash
<1>1. UNCHANGED <<breq, transfer_pos, current_buf_list, given, lent, data, spi, chip, current, queues>>
  BY DEF vars, driverVars, spiVars, clientVars
<1>2. "poll_next_buffer" \in OnMain' <=> "poll_next_buffer" \in OnMain
  BY <1>1 DEF OnMain
<1>3. \A r \in Req : r = current' => Owned(r)'
  BY <1>1, <1>2, OwnedSame, SameButSleepItself
<1>4. current' \notin Req => current_buf_list = << >>
  BY <1>1 DEF DInv
<1>5. QED
  BY <1>1, <1>3, <1>4, DataSame


LEMMA FilledFacts ==
    ASSUME DfTypeOK, NEW r \in Req, NEW i \in Nat, NEW j \in Nat, i <= j, j <= MaxLen, NEW op,
           NEW t \in Req, NEW k \in 1 .. MaxLen
    PROVE  Filled(r, i, j, op)[<<t, k>>] =
               IF op = "write" /\ t = r /\ k \in i + 1 .. j THEN <<t, k>> ELSE data[<<t, k>>]
<1>1. <<t, k>> \in Buffer
  BY DataflashAssumption
<1>2. Range(Bufs(r, i, j)) = {<<r, m>> : m \in i + 1 .. j}
  BY BufferNumbers
<1>3. <<t, k>> \in Range(Bufs(r, i, j)) <=> t = r /\ k \in i + 1 .. j
  BY <1>2
<1>4. QED
  BY <1>1, <1>3 DEF Filled

\* A client submits or supplies: the buffers i + 1 .. j of r are added.
Adds(r, i, j, op) ==
    /\ i \in Nat /\ j \in Nat /\ i <= j /\ j <= given'[r].count
    /\ given'[r].bufs = j /\ given' = [given EXCEPT ![r] = given'[r]] /\ given'[r] # NoAsk
    /\ lent' = lent \cup Range(Bufs(r, i, j)) /\ data' = Filled(r, i, j, op)
    /\ UNCHANGED <<transfer_pos, current_buf_list, spi, chip>>
    /\ "poll_next_buffer" \in OnMain' <=> "poll_next_buffer" \in OnMain
    /\ breq' = [breq EXCEPT ![r] = breq'[r]] /\ ~ Done(r)'

LEMMA ClientKeepsData ==
    ASSUME CInv, DInv, NEW r \in Req, NEW i, NEW j, NEW op, Adds(r, i, j, op), j <= MaxLen,
           Counted(r)', Taken(r)' \in Nat, Taken(r)' <= i,
           \A buf \in lent : buf[1] = r => buf[2] <= i /\ (buf[2] > Taken(r)' \/ buf \in Range(current_buf_list)),
           given[r].bufs <= i \/ r # current,
           current' \notin Req => current_buf_list = << >>,
           \/ current' = current /\ (r = current => /\ SameButSleep(breq[r], breq'[r])
                                                    /\ breq'[r].func = breq[r].func /\ given'[r].first = given[r].first)
           \/ current' = r /\ Owned(r)'
    PROVE  DInv'
<1>1. /\ i \in Nat /\ j \in Nat /\ i <= j /\ given'[r].bufs = j /\ given'[r] # NoAsk
      /\ lent' = lent \cup Range(Bufs(r, i, j)) /\ data' = Filled(r, i, j, op)
      /\ UNCHANGED <<transfer_pos, current_buf_list, spi, chip>> /\ ~ Done(r)'
      /\ "poll_next_buffer" \in OnMain' <=> "poll_next_buffer" \in OnMain
  BY DEF Adds
<1>2. DfTypeOK /\ MaxLen \in Nat /\ Buffer = Req \X (1 .. MaxLen)
  BY DataflashAssumption DEF CInv
<1>3. \A t \in Req : t # r => breq'[t] = breq[t] /\ given'[t] = given[t]
  BY <1>2 DEF Adds, DfTypeOK
<1>4. \A t \in Req : t # r => (Done(t)' <=> Done(t)) /\ Taken(t)' = Taken(t)
  BY <1>1, <1>3 DEF Done, Taken
<1>5. ASSUME NEW t \in Req, ~ Done(t), t # r \/ given[r].bufs <= i, NEW k \in 1 .. given[t].bufs
      PROVE  data'[<<t, k>>] = data[<<t, k>>]
  <2>1. given[t].bufs \in Nat /\ given[t].bufs <= given[t].count /\ given[t].count \in 1 .. MaxLen
    BY <1>5, CountedFacts
  <2>2. k \in 1 .. MaxLen
    BY <1>2, <2>1
  <2>3. ~ (t = r /\ k \in i + 1 .. j)
    BY <1>1, <1>5, <2>1
  <2>4. QED
    BY <1>1, <1>2, <2>2, <2>3, FilledFacts
<1>6. ASSUME NEW t \in Req, ~ Done(t)' PROVE Counted(t)'
  <2>1. CASE t = r
    BY <2>1
  <2>2. CASE t # r
    <3>1. ~ Done(t) /\ Counted(t)
      BY <1>4, <1>6, <2>2 DEF DInv
    <3>2. Bufs(t, Taken(t), given[t].bufs)' = Bufs(t, Taken(t), given[t].bufs)
      BY <1>3, <1>4, <2>2 DEF Bufs
    <3>3. \A k \in 1 .. given[t].bufs : data'[<<t, k>>] = data[<<t, k>>]
      BY <1>5, <2>2, <3>1
    <3>4. QED
      BY <1>3, <1>4, <2>2, <3>1, <3>2, <3>3 DEF Counted
  <2>3. QED
    BY <2>1, <2>2
<1>7. Lent'
  <2>1. SUFFICES ASSUME NEW buf \in lent'
                 PROVE  /\ ~ Done(buf[1])' /\ buf[2] <= given'[buf[1]].bufs
                        /\ buf[2] > Taken(buf[1])' \/ buf \in Range(current_buf_list')
    BY DEF Lent
  <2>2. CASE buf \in lent
    <3>1. buf[1] \in Req /\ buf[2] \in Nat
      <4>1. buf \in Req \X (1 .. MaxLen)
        BY <1>2, <2>2 DEF DfTypeOK
      <4>2. QED
        BY <4>1
    <3>2. /\ ~ Done(buf[1]) /\ buf[2] <= given[buf[1]].bufs
          /\ buf[2] > Taken(buf[1]) \/ buf \in Range(current_buf_list)
      BY <2>2 DEF DInv, Lent
    <3>3. CASE buf[1] = r
      <4>1. buf[2] <= i /\ (buf[2] > Taken(r)' \/ buf \in Range(current_buf_list))
        BY <2>2, <3>3
      <4>2. buf[2] <= given'[r].bufs
        BY <1>1, <3>1, <4>1
      <4>3. QED
        BY <1>1, <3>3, <4>1, <4>2
    <3>4. CASE buf[1] # r
      BY <1>1, <1>3, <1>4, <3>1, <3>2, <3>4
    <3>5. QED
      BY <3>3, <3>4
  <2>3. CASE buf \notin lent
    <3>1. Range(Bufs(r, i, j)) = {<<r, m>> : m \in i + 1 .. j}
      BY <1>1, BufferNumbers
    <3>2. PICK m \in i + 1 .. j : buf = <<r, m>>
      BY <1>1, <2>3, <3>1
    <3>3. m <= j /\ m > Taken(r)'
      BY <1>1
    <3>4. QED
      BY <1>1, <3>2, <3>3
  <2>4. QED
    BY <2>2, <2>3
<1>8. \A t \in Req : given'[t] = NoAsk => Done(t)' /\ breq'[t].buf_list = << >>
  BY <1>1, <1>3, <1>4 DEF DInv
<1>9. ASSUME NEW t \in Req, t = current' PROVE Owned(t)'
  <2>1. CASE current' = r /\ Owned(r)'
    BY <1>9, <2>1
  <2>2. CASE current' = current /\ (r = current => /\ SameButSleep(breq[r], breq'[r])
                                                   /\ breq'[r].func = breq[r].func /\ given'[r].first = given[r].first)
    <3>1. /\ SameButSleep(breq[t], breq'[t]) /\ breq'[t].func = breq[t].func
          /\ given'[t].first = given[t].first
      BY <1>3, <1>9, <2>2, SameButSleepItself
    <3>2. ~ Done(t)
      BY <1>9, <2>2 DEF CInv, Turns
    <3>3. \A k \in 1 .. given[t].bufs : data'[<<t, k>>] = data[<<t, k>>]
      BY <1>5, <1>9, <2>2, <3>2
    <3>4. QED
      BY <1>1, <1>9, <2>2, <3>1, <3>3, OwnedSame
  <2>3. QED
    BY <2>1, <2>2
<1>10. QED
  BY <1>1, <1>6, <1>7, <1>8, <1>9 DEF DInv


LEMMA SubmitKeepsData ==
    ASSUME CInv, DInv, NEW r \in Req, NEW op \in {"read", "write"}, NEW a \in Ranges[r], NEW n \in {0, a[2]},
           Submit(r, a[1], a[2], op, n)
    PROVE  DInv' /\ chip'.flash = chip.flash /\ \A t \in Req : Done(t)' => Done(t)
<1>1. /\ breq' = [breq EXCEPT ![r] = Asked(r, a, op, n)] /\ Done(r) /\ given[r] = NoAsk
      /\ given' = [given EXCEPT ![r] = [first |-> a[1], count |-> a[2], bufs |-> n]]
      /\ lent' = lent \cup Range(Bufs(r, 0, n)) /\ data' = Filled(r, 0, n, op)
      /\ UNCHANGED <<transfer_pos, current_buf_list, spi, chip>>
  BY DEF Submit, Asked
<1>2. /\ DfTypeOK /\ Turns /\ current' = (IF current = NULL THEN r ELSE current) /\ r # current
      /\ ("poll_next_buffer" \in OnMain' <=> "poll_next_buffer" \in OnMain)
  BY SubmitKeepsControl DEF CInv
<1>3. /\ a[1] \in Nat /\ a[2] \in 1 .. MaxLen /\ n \in Nat /\ n <= MaxLen /\ n <= a[2] /\ MaxLen \in Nat
      /\ a[1] + a[2] - 1 \in Block /\ Asked(r, a, op, n) \in BlockRequest
  BY <1>2, AskedFor
<1>4. /\ breq'[r] = Asked(r, a, op, n) /\ given'[r] = [first |-> a[1], count |-> a[2], bufs |-> n]
  BY <1>1, <1>2 DEF DfTypeOK
<1>5. /\ breq'[r].func = "start" /\ breq'[r].lba = a[1] /\ breq'[r].remaining_blocks = a[2]
      /\ breq'[r].operation = op /\ breq'[r].status = "in_progress" /\ breq'[r].bytes_xfered = 0
      /\ given'[r].first = a[1] /\ given'[r].count = a[2] /\ given'[r].bufs = n
      /\ breq'[r].buf_list = breq[r].buf_list \o Bufs(r, 0, n)
  BY <1>4 DEF Asked
<1>6. breq'[r].buf_list = Bufs(r, 0, n)
  <2>1. breq[r].buf_list = << >>
    BY <1>1 DEF DInv
  <2>2. Bufs(r, 0, n) \in Seq(Buffer)
    BY <1>3, BufferNumbers
  <2>3. << >> \o Bufs(r, 0, n) = Bufs(r, 0, n)
    BY <2>2
  <2>4. QED
    BY <1>5, <2>1, <2>3
<1>7. Taken(r)' = 0
  BY <1>5 DEF Taken
<1>8. \A k \in 1 .. n : op = "write" => data'[<<r, k>>] = <<r, k>>
  <2> TAKE k \in 1 .. n
  <2>1. k \in 1 .. MaxLen /\ k \in 0 + 1 .. n
    BY <1>3
  <2>2. QED
    BY <1>1, <1>2, <1>3, <2>1, FilledFacts
<1>9. Counted(r)'
  <2>1. Bufs(r, Taken(r), given[r].bufs)' = Bufs(r, 0, n)
    BY <1>5, <1>7 DEF Bufs
  <2>2. a[1] + 0 = a[1] /\ a[2] - 0 = a[2] /\ a[2] > 0 /\ 0 <= n
    BY <1>3
  <2>3. QED
    BY <1>3, <1>5, <1>6, <1>7, <1>8, <2>1, <2>2 DEF Counted
<1>10. given'[r] # NoAsk /\ ~ Done(r)' /\ breq' = [breq EXCEPT ![r] = breq'[r]] /\ given' = [given EXCEPT ![r] = given'[r]]
  <2>1. given'[r] # NoAsk
    BY <1>3, <1>5 DEF NoAsk
  <2>2. QED
    BY <1>1, <1>4, <1>5, <2>1 DEF Done
<1>11. Adds(r, 0, n, op)
  BY <1>1, <1>2, <1>3, <1>5, <1>10 DEF Adds
<1>12. \A buf \in lent : buf[1] # r
  BY <1>1 DEF DInv, Lent
<1>13. current = NULL => current_buf_list = << >> /\ spi.op \notin Lists /\ NULL \notin Req
  BY <1>2, Transfers, Names DEF DInv, Turns, Busy
<1>14. current' \notin Req => current_buf_list = << >>
  BY <1>2 DEF DInv
<1>15. current' = current \/ (current' = r /\ Owned(r)')
  <2>1. CASE current = NULL
    <3>1. current' = r /\ current_buf_list' = << >> /\ spi'.op \notin Lists
      BY <1>1, <1>2, <1>13, <2>1
    <3>2. Owned(r)'
      BY <1>5, <3>1, NewOwner
    <3>3. QED
      BY <3>1, <3>2
  <2>2. CASE current # NULL
    BY <1>2, <2>2
  <2>3. QED
    BY <2>1, <2>2
<1>16. DInv'
  <2>1. 0 \in Nat /\ 0 <= 0
    OBVIOUS
  <2>2. QED
    BY <1>2, <1>3, <1>7, <1>9, <1>11, <1>12, <1>14, <1>15, <2>1, ClientKeepsData
<1>17. \A t \in Req : Done(t)' => Done(t)
  BY <1>1, <1>2, <1>10 DEF Done, DfTypeOK
<1>18. QED
  BY <1>1, <1>16, <1>17

LEMMA BuffersJoined ==
    ASSUME NEW r \in Req, NEW i \in Nat, NEW j \in Nat, NEW k \in Nat, i <= j, j <= k, k <= MaxLen
    PROVE  Bufs(r, i, j) \o Bufs(r, j, k) = Bufs(r, i, k)
<1> DEFINE s == Bufs(r, i, j)  t == Bufs(r, j, k)  u == Bufs(r, i, k)
<1>1. /\ MaxLen \in Nat /\ j <= MaxLen /\ i <= k
  BY DataflashAssumption
<1>2. /\ s \in Seq(Buffer) /\ Len(s) = j - i /\ \A m \in 1 .. j - i : s[m] = <<r, i + m>>
  BY <1>1, BufferNumbers
<1>3. /\ t \in Seq(Buffer) /\ Len(t) = k - j /\ \A m \in 1 .. k - j : t[m] = <<r, j + m>>
  BY <1>1, BufferNumbers
<1>4. /\ u \in Seq(Buffer) /\ Len(u) = k - i /\ \A m \in 1 .. k - i : u[m] = <<r, i + m>>
  BY <1>1, BufferNumbers
<1> HIDE DEF s, t, u
<1>5. /\ s \o t \in Seq(Buffer) /\ Len(s \o t) = Len(s) + Len(t)
      /\ \A m \in 1 .. Len(s) + Len(t) : (s \o t)[m] = IF m <= Len(s) THEN s[m] ELSE t[m - Len(s)]
  BY <1>2, <1>3, ConcatProperties
<1>6. Len(s \o t) = Len(u)
  BY <1>2, <1>3, <1>4, <1>5
<1>7. ASSUME NEW m \in 1 .. Len(s \o t) PROVE (s \o t)[m] = u[m]
  <2>1. m \in 1 .. k - i /\ m \in Nat /\ u[m] = <<r, i + m>>
    BY <1>4, <1>6
  <2>2. CASE m <= j - i
    <3>1. m \in 1 .. j - i
      BY <2>1, <2>2
    <3>2. (s \o t)[m] = s[m]
      BY <1>2, <1>5, <2>2
    <3>3. QED
      BY <1>2, <2>1, <3>1, <3>2
  <2>3. CASE ~ (m <= j - i)
    <3>1. m - (j - i) \in 1 .. k - j /\ j + (m - (j - i)) = i + m
      BY <2>1, <2>3
    <3>2. (s \o t)[m] = t[m - (j - i)]
      BY <1>2, <1>5, <2>3
    <3>3. QED
      BY <1>3, <2>1, <3>1, <3>2
  <2>4. QED
    BY <2>2, <2>3
<1>8. s \o t = u
  BY <1>4, <1>5, <1>6, <1>7, SeqEqual
<1>9. QED
  BY <1>8 DEF s, t, u


LEMMA SupplyKeepsData ==
    ASSUME CInv, DInv, NEW r \in Req, NEW n \in 1 .. MaxLen, SubmitBufList(r, n)
    PROVE  DInv' /\ chip'.flash = chip.flash /\ \A t \in Req : Done(t)' => Done(t)
<1> DEFINE b == breq[r]  g == given[r].bufs  T == Taken(r)
<1>1. /\ ~ Done(r) /\ g + n <= given[r].count
      /\ given' = [given EXCEPT ![r].bufs = @ + n]
      /\ lent' = lent \cup Range(Bufs(r, g, g + n))
      /\ data' = Filled(r, g, g + n, b.operation)
      /\ UNCHANGED <<transfer_pos, current_buf_list, current, spi, chip>>
  BY DEF SubmitBufList, Supplied
<1>2. /\ DfTypeOK /\ breq' = [breq EXCEPT ![r] = Provided(r, n)]
      /\ ("poll_next_buffer" \in OnMain' <=> "poll_next_buffer" \in OnMain)
  BY SupplyKeepsControl DEF CInv
<1>3. /\ SameButSleep(b, Provided(r, n)) /\ Provided(r, n).func = b.func
      /\ Provided(r, n).buf_list = b.buf_list \o Bufs(r, g, g + n)
  BY <1>1, <1>2, ProvidedWith
<1>4. breq'[r] = Provided(r, n)
  BY <1>2 DEF DfTypeOK
<1>5. /\ b.bytes_xfered \in Nat /\ b.operation \in {"read", "write"}
      /\ given[r].count \in 1 .. MaxLen /\ g \in Nat /\ MaxLen \in Nat
      /\ given[r].first + given[r].count - 1 \in Block
      /\ b.lba = given[r].first + b.bytes_xfered /\ b.remaining_blocks = given[r].count - b.bytes_xfered
      /\ b.remaining_blocks > 0
      /\ T \in Nat /\ T <= g /\ b.buf_list = Bufs(r, T, g)
      /\ b.operation = "write" => \A i \in 1 .. g : data[<<r, i>>] = <<r, i>>
  BY <1>1, CountedFacts
<1>6. /\ given'[r].bufs = g + n /\ given'[r].first = given[r].first /\ given'[r].count = given[r].count
      /\ given' = [given EXCEPT ![r] = given'[r]] /\ given'[r] # NoAsk
  <2>1. given'[r] = [given[r] EXCEPT !.bufs = g + n] /\ given[r] \in [first : Nat, count : 0 .. MaxLen, bufs : Nat]
    BY <1>1, <1>2 DEF DfTypeOK
  <2>2. given'[r].bufs = g + n /\ given'[r].first = given[r].first /\ given'[r].count = given[r].count
    BY <2>1
  <2>3. given' = [given EXCEPT ![r] = given'[r]]
    BY <1>1, <1>2 DEF DfTypeOK
  <2>4. given'[r].count # 0
    BY <1>5, <2>2
  <2>5. QED
    BY <2>2, <2>3, <2>4 DEF NoAsk
<1>7. Taken(r)' = T
  BY <1>1, <1>3, <1>4 DEF Taken, SameButSleep
<1> HIDE DEF g, T
<1>8. g + n \in Nat /\ g <= g + n /\ g + n <= MaxLen /\ T <= g + n
  BY <1>1, <1>5
<1>9. breq'[r].buf_list = Bufs(r, T, g + n)
  <2>1. T \in Nat /\ g \in Nat /\ T <= g /\ g + n \in Nat
    BY <1>5, <1>8
  <2>2. Bufs(r, T, g) \o Bufs(r, g, g + n) = Bufs(r, T, g + n)
    BY <1>8, <2>1, BuffersJoined
  <2>3. breq'[r].buf_list = b.buf_list \o Bufs(r, g, g + n) /\ b.buf_list = Bufs(r, T, g)
    BY <1>3, <1>4, <1>5
  <2>4. QED
    BY <2>2, <2>3
<1>10. ASSUME b.operation = "write", NEW k \in 1 .. g + n PROVE data'[<<r, k>>] = <<r, k>>
  <2>1. k \in 1 .. MaxLen
    BY <1>5, <1>8
  <2>2. data'[<<r, k>>] = IF k \in g + 1 .. g + n THEN <<r, k>> ELSE data[<<r, k>>]
    BY <1>1, <1>2, <1>5, <1>8, <1>10, <2>1, FilledFacts
  <2>3. k \in g + 1 .. g + n \/ k \in 1 .. g
    BY <1>5, <1>8
  <2>4. QED
    BY <1>5, <1>10, <2>2, <2>3
<1>11. Counted(r)'
  <2>1. Bufs(r, Taken(r), given[r].bufs)' = Bufs(r, T, g + n)
    BY <1>6, <1>7 DEF Bufs
  <2>2. /\ breq'[r].lba = b.lba /\ breq'[r].bytes_xfered = b.bytes_xfered /\ breq'[r].func = b.func
        /\ breq'[r].remaining_blocks = b.remaining_blocks /\ breq'[r].operation = b.operation
    BY <1>3, <1>4 DEF SameButSleep
  <2>3. b.func = "start" => b.bytes_xfered = 0
    BY <1>1 DEF DInv, Counted
  <2>4. g + n <= given[r].count
    BY <1>1
  <2>5. QED
    BY <1>5, <1>6, <1>7, <1>8, <1>9, <1>10, <2>1, <2>2, <2>3, <2>4 DEF Counted
<1>12. ~ Done(r)' /\ breq' = [breq EXCEPT ![r] = breq'[r]]
  BY <1>1, <1>2, <1>3, <1>4 DEF Done, SameButSleep
<1>13. Adds(r, g, g + n, b.operation)
  BY <1>1, <1>2, <1>5, <1>6, <1>8, <1>12 DEF Adds
<1>14. \A buf \in lent : buf[1] = r => buf[2] <= g /\ (buf[2] > Taken(r)' \/ buf \in Range(current_buf_list))
  BY <1>7 DEF DInv, Lent, g, T
<1>15. current' \notin Req => current_buf_list = << >>
  BY <1>1 DEF DInv
<1>16. SameButSleep(breq[r], breq'[r]) /\ breq'[r].func = breq[r].func /\ given'[r].first = given[r].first
  BY <1>3, <1>4, <1>6
<1>17. given[r].bufs <= g /\ Taken(r)' \in Nat /\ Taken(r)' <= g
  BY <1>5, <1>7 DEF g
<1>18. DInv'
  BY <1>1, <1>8, <1>11, <1>13, <1>14, <1>15, <1>16, <1>17, ClientKeepsData
<1>19. \A t \in Req : Done(t)' => Done(t)
  BY <1>2, <1>12 DEF Done, DfTypeOK
<1>20. QED
  BY <1>1, <1>18, <1>19


-----------------------------------------------------------------------------
(* Every step.                                                             *)

\* What a step may do to the flash, and the requests it may complete.
Keeps == DInv' /\ OwnChanges /\ \A r \in Req : ~ Done(r) /\ Done(r)' => Completed(r)

LEMMA FlashSame ==
    ASSUME DInv', chip'.flash = chip.flash, \A r \in Req : Done(r)' => Done(r)
    PROVE  Keeps
BY DEF Keeps, OwnChanges

LEMMA RequestOnlyOwner ==
    ASSUME CInv, NEW r \in Req, Request(r)
    PROVE  OnlyOwner(r)
<1>1. Runs(r) /\ Work(r, breq[r])
  BY DEF Request
<1>2. OwnersTurn(r)
  BY <1>1, RequestsTurn
<1>3. Outcome(r)
  BY <1>1, <1>2, WorkSteps
<1>4. QED
  BY <1>3 DEF Outcome, Going, Sleeping, Ending

LEMMA DataKept ==
    ASSUME CInv, DInv, PagesOfTwo, [Next]_vars
    PROVE  Keeps
<1>1. CASE Master
  <2>1. MasterAlone /\ (PollEnds \/ PollEndsBuffer \/ NextBuffer)
    BY <1>1 DEF Master, MasterStep, PollEnds, PollEndsBuffer, NextBuffer, MasterAlone, driverVars, clientVars
  <2>2. DInv' /\ chip'.flash = chip.flash
    BY <2>1, PollKeepsData, PollBufferKeepsData, NextBufferKeepsData
  <2>3. \A r \in Req : Done(r)' => Done(r)
    BY <2>1 DEF MasterAlone, Done
  <2>4. QED
    BY <2>2, <2>3, FlashSame
<1>2. CASE Identify \/ Identified
  <2>1. \A r \in Req : Done(r)' => Done(r)
    BY <1>2 DEF Identify, Identified, detectOnly, Done
  <2>2. QED
    BY <1>2, <2>1, DetectionKeepsData, FlashSame
<1>3. CASE Event
  <2>1. \A r \in Req : Done(r)' => Done(r)
    BY <1>3 DEF Event, Done
  <2>2. QED
    BY <1>3, <2>1, EventKeepsData, FlashSame
<1>4. CASE \E r \in Req : Request(r)
  <2>1. PICK r \in Req : Request(r)
    BY <1>4
  <2>2. Stored(r)
    BY <2>1, RequestKeepsData
  <2>3. \A t \in Req : t # r => (Done(t)' <=> Done(t))
    BY <2>1, RequestOnlyOwner DEF OnlyOwner, Done
  <2>4. ASSUME NEW t \in Req, ~ Done(t), Done(t)' PROVE Completed(t)
    <3>1. t = r
      BY <2>3, <2>4
    <3>2. QED
      BY <2>2, <2>4, <3>1 DEF Stored
  <2>5. QED
    BY <2>2, <2>4 DEF Keeps, Stored, OwnChanges
<1>5. CASE ChipFinishes
  <2>1. \A r \in Req : Done(r)' => Done(r)
    BY <1>5 DEF ChipFinishes, driverVars, Done
  <2>2. QED
    BY <1>5, <2>1, ChipKeepsData DEF Keeps
<1>6. CASE \E r \in Req, op \in {"read", "write"} : \E a \in Ranges[r] : \E n \in {0, a[2]} :
            Submit(r, a[1], a[2], op, n)
  <2>1. PICK r \in Req, op \in {"read", "write"} : \E a \in Ranges[r] : \E n \in {0, a[2]} :
            Submit(r, a[1], a[2], op, n)
    BY <1>6
  <2>2. PICK a \in Ranges[r] : \E n \in {0, a[2]} : Submit(r, a[1], a[2], op, n)
    BY <2>1
  <2>3. PICK n \in {0, a[2]} : Submit(r, a[1], a[2], op, n)
    BY <2>2
  <2>4. DInv' /\ chip'.flash = chip.flash /\ \A t \in Req : Done(t)' => Done(t)
    BY <2>3, SubmitKeepsData
  <2>5. QED
    BY <2>4, FlashSame
<1>7. CASE \E r \in Req : Supply(r)
  <2>1. PICK r \in Req : Supply(r)
    BY <1>7
  <2>2. PICK n \in 1 .. MaxLen : SubmitBufList(r, n)
    BY <2>1 DEF Supply
  <2>3. QED
    BY <2>2, SupplyKeepsData, FlashSame
<1>8. CASE UNCHANGED vars
  <2>1. \A r \in Req : Done(r)' => Done(r)
    BY <1>8 DEF vars, driverVars, Done
  <2>2. QED
    BY <1>8, <2>1, StutterKeepsData, FlashSame
<1>9. QED
  BY <1>1, <1>2, <1>3, <1>4, <1>5, <1>6, <1>7, <1>8 DEF Next, MainLoopStep

LEMMA DataHolds == PagesOfTwo => (Spec => [](CInv /\ DInv))
<1> SUFFICES ASSUME PagesOfTwo PROVE Spec => [](CInv /\ DInv)
  OBVIOUS
<1>1. Init => CInv /\ DInv
  BY ControlStarts, DataStarts
<1>2. CInv /\ DInv /\ [Next]_vars => (CInv /\ DInv)'
  BY ControlKept, DataKept DEF Keeps
<1>3. QED
  BY <1>1, <1>2, PTL DEF Spec

\* Programming a page changes no block but those that the request which owns the bus
\* has written: dataflash_write_setup has loaded what is to be kept of the page.
THEOREM RestOfPageIsKept ==
    ASSUME PagesOfTwo
    PROVE  Spec => OnlyOwnBlocksChange
<1>1. CInv /\ DInv /\ [Next]_vars => OwnChanges
  BY DataKept DEF Keeps
<1>2. CInv /\ DInv /\ [Next]_vars =>
        [\A b \in Block : chip'.flash[b] # chip.flash[b] =>
            \E r \in Req : /\ current = r /\ breq[r].operation = "write"
                           /\ b - given[r].first \in 0 .. given[r].count - 1
                           /\ chip'.flash[b] = <<r, b - given[r].first + 1>>]_vars
  BY <1>1 DEF OwnChanges
<1>3. Spec => [](CInv /\ DInv)
  BY DataHolds
<1>4. QED
  BY <1>2, <1>3, PTL DEF Spec, OnlyOwnBlocksChange

\* A request that dataflash_request_done completes has every block in its buffer or
\* in the flash, has counted each, and its client has all of its buffers back.
THEOREM RequestsCompleteWhole ==
    ASSUME PagesOfTwo
    PROVE  Spec => CompleteMeansTransferred
<1>1. CInv /\ DInv /\ [Next]_vars => \A r \in Req : ~ Done(r) /\ Done(r)' => Completed(r)
  BY DataKept DEF Keeps
<1>2. CInv /\ DInv /\ [Next]_vars =>
        [\A r \in Req : ~ Done(r) /\ Done(r)' =>
            /\ \A i \in 1 .. given[r].count :
                    data'[<<r, i>>] = chip'.flash[given[r].first + i - 1]
            /\ \A buf \in lent' : buf[1] # r
            /\ breq'[r].bytes_xfered = given[r].count]_vars
  BY <1>1 DEF Completed
<1>3. Spec => [](CInv /\ DInv)
  BY DataHolds
<1>4. QED
  BY <1>2, <1>3, PTL DEF Spec, CompleteMeansTransferred

=============================================================================
