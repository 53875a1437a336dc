------------------------------- MODULE Touch -------------------------------
(***************************************************************************)
(* The resistive touch driver, drivers/touch/resistive/touch.c, with the   *)
(* pins and the converter as its board header uses them, and the           *)
(* calibration of the display applications, which borrows the driver's     *)
(* event handler.                                                          *)
(*                                                                         *)
(* Two interrupt handlers and a softirq hand the driver's state on to each *)
(* other.  The softirq and the calibration's task both run from the main   *)
(* loop, so one never runs in the middle of the other.  A place is a pair  *)
(* <<x, y>>, on the surface (raw) or on the panel.                         *)
(***************************************************************************)
EXTENDS Integers, Sequences

CONSTANTS
    Oversampling,   \* CONFIG_TOUCH_OVERSAMPLING
    Size,           \* gfx_get_width() and gfx_get_height()
    Offset,         \* CAL_OFFSET
    Threshold,      \* CAL_TRESHOLD
    Places,         \* where the surface can be touched
    Floating,       \* what the converter reads when it is not touched
    None,           \* no place, and no handler
    IntLimit,       \* an int32_t is in -IntLimit .. IntLimit - 1
    ShortLimit,     \* an int16_t is in -ShortLimit .. ShortLimit - 1
    MaxPen          \* how often the pen is put down or moved

Raw == Int \X Int

\* The second conjunct is a theorem of arithmetic that the provers, to whom powers are
\* unknown, take from here.  The samples of a measurement fit in touch_raw_x: see the note
\* at CONFIG_TOUCH_OVERSAMPLING.
ASSUME TouchAssumption ==
    /\ Oversampling \in Nat
    /\ 2 ^ Oversampling \in Nat \ {0}
    /\ IntLimit \in Nat \ {0} /\ ShortLimit \in 1 .. IntLimit
    /\ Size \in (0 .. ShortLimit - 1) \X (0 .. ShortLimit - 1)
    /\ Offset \in 0 .. ShortLimit - 1 /\ Threshold \in Int
    /\ Places \subseteq Raw /\ Floating \subseteq Int
    /\ None \notin Raw
    /\ MaxPen \in Nat

VARIABLES
    touch_state,
    port,       \* the port interrupt: [enabled, flag]
    adc,        \* the converter: its interrupt is enabled, it is converting
    sample_count,
    raw,        \* touch_raw_x and touch_raw_y
    softirq,    \* SOFTIRQ_TOUCH_PROCESS is raised
    last,       \* touch_last_event
    matrix,     \* touch_matrix
    handler,    \* touch_event_handler: the window system's or the calibration's
    calibration,  \* the context, its task queued or not, how far it is
    pen,        \* where the pen is, or None
    steady,     \* where the pen has been since the measurement started, or None
    moved       \* how often the pen has been put down or moved

driver == <<touch_state, port, adc, sample_count, raw, softirq, last>>
world == <<pen, steady, moved>>
touchVars == <<driver, matrix, handler, calibration, world>>

Resting == {"NOT_TOUCHED", "TOUCHED"}
EventTypes == {"NO_EVENT", "PRESS", "MOVE", "RELEASE"}
touch_is_touched == last.type \in {"PRESS", "MOVE"}

Samples == 2 ^ Oversampling

(***************************************************************************)
(* Coordinates.                                                            *)
(***************************************************************************)
\* A number that does not fit wraps around.  Sums and products of ints wrap to the same
\* number whether each of them wraps or only the result does.
Wrap(n, limit) == ((n + limit) % (2 * limit)) - limit
Int32(n) == Wrap(n, IntLimit)
Int16(n) == Wrap(n, ShortLimit)

\* Division in C rounds towards zero.
Quotient(n, d) ==
    LET sign == IF (n < 0) = (d < 0) THEN 1 ELSE -1
        Size0(i) == IF i < 0 THEN -i ELSE i
    IN  sign * (Size0(n) \div Size0(d))

\* Of three places on the surface: 0 if they lie on a line.
Determinant(r) ==
    (r[1][1] - r[3][1]) * (r[2][2] - r[3][2]) - (r[2][1] - r[3][1]) * (r[1][2] - r[3][2])

\* Variant: a sign is wrong in one coefficient.
touch_compute_calibration_matrix_Sign(r, p) ==
    LET dr(i, d) == r[i][d] - r[3][d]
        dp(i, d) == p[i][d] - p[3][d]
        row(d) == <<Int32(dp(1, d) * dr(2, 2) - dp(2, d) * dr(1, 2)),
                    Int32(dr(1, 1) * dp(2, d) + dp(1, d) * dr(2, 1)),
                    Int32(r[1][2] * (r[3][1] * p[2][d] - r[2][1] * p[3][d])
                          + r[2][2] * (r[1][1] * p[3][d] - r[3][1] * p[1][d])
                          + r[3][2] * (r[2][1] * p[1][d] - r[1][1] * p[2][d]))>>
    IN  [rows |-> <<row(1), row(2)>>, k |-> Int32(Determinant(r))]

\* From three places on the surface and the places on the panel they stand for:
\* the rows <<a, b, c>> and <<d, e, f>>, and the denominator.
touch_compute_calibration_matrix(r, p) ==
    LET dr(i, d) == r[i][d] - r[3][d]
        dp(i, d) == p[i][d] - p[3][d]
        row(d) == <<Int32(dp(1, d) * dr(2, 2) - dp(2, d) * dr(1, 2)),
                    Int32(dr(1, 1) * dp(2, d) - dp(1, d) * dr(2, 1)),
                    Int32(r[1][2] * (r[3][1] * p[2][d] - r[2][1] * p[3][d])
                          + r[2][2] * (r[1][1] * p[3][d] - r[3][1] * p[1][d])
                          + r[3][2] * (r[2][1] * p[1][d] - r[1][1] * p[2][d]))>>
    IN  [rows |-> <<row(1), row(2)>>, k |-> Int32(Determinant(r))]

PanelPlace(r, by) ==
    LET k == IF by.k = 0 THEN 1 ELSE by.k
        along(row) == Int32(Quotient(Int32(row[1] * r[1] + row[2] * r[2] + row[3]), k))
    IN  <<along(by.rows[1]), along(by.rows[2])>>

Uncalibrated == [rows |-> <<<<0, 0, 0>>, <<0, 0, 0>>>>, k |-> 0]

(***************************************************************************)
(* The driver.                                                             *)
(***************************************************************************)
\* The pins detect touches again: a pen that is down sets the flag, which stays
\* set until it is cleared or the interrupt is taken.
Detecting(flag) == flag \/ pen # None

\* Reset, and clear the flags before the interrupts are enabled.
touch_enable ==
    /\ ~adc.enabled
    /\ touch_state' = "NOT_TOUCHED"
    /\ last' = [last EXCEPT !.type = "NO_EVENT"]
    /\ port' = [enabled |-> TRUE, flag |-> Detecting(FALSE)]
    /\ adc' = [adc EXCEPT !.enabled = TRUE]
    /\ UNCHANGED <<sample_count, raw, softirq, matrix, handler, calibration, world>>

\* Called while the driver waits for a touch.
touch_disable ==
    /\ adc.enabled /\ port.enabled
    /\ port' = [port EXCEPT !.enabled = FALSE]
    /\ adc' = [adc EXCEPT !.enabled = FALSE]
    /\ UNCHANGED <<touch_state, sample_count, raw, softirq, last>>
    /\ UNCHANGED <<matrix, handler, calibration, world>>

\* Variant: the sums of the last measurement are kept.
touch_priv_port_handler_KeepsSums ==
    /\ port.enabled /\ port.flag
    /\ port' = [enabled |-> FALSE, flag |-> FALSE]
    /\ touch_state' = "READING_X"
    /\ adc' = [adc EXCEPT !.busy = TRUE]
    /\ steady' = pen
    /\ UNCHANGED <<raw, sample_count, softirq, last, matrix, handler, calibration>>
    /\ UNCHANGED <<pen, moved>>

touch_priv_port_handler ==
    /\ port.enabled /\ port.flag
    /\ port' = [enabled |-> FALSE, flag |-> FALSE]
    /\ raw' = <<0, 0>>
    /\ touch_state' = "READING_X"
    /\ adc' = [adc EXCEPT !.busy = TRUE]
    /\ steady' = pen
    /\ UNCHANGED <<sample_count, softirq, last, matrix, handler, calibration>>
    /\ UNCHANGED <<pen, moved>>

\* One more conversion, or on to the next state when there are enough samples.
Sampled(d, Enough) ==
    /\ \E v \in IF pen = None THEN Floating ELSE {pen[d]} :
          raw' = [raw EXCEPT ![d] = @ + v]
    /\ IF sample_count + 1 < Samples
       THEN /\ sample_count' = sample_count + 1
            /\ UNCHANGED <<touch_state, port, adc, softirq>>
       ELSE /\ sample_count' = 0
            /\ Enough
    /\ UNCHANGED <<last, matrix, handler, calibration, world>>

ReadX ==
    /\ adc.busy /\ adc.enabled /\ touch_state = "READING_X"
    /\ Sampled(1, /\ touch_state' = "READING_Y"
                  /\ UNCHANGED <<port, adc, softirq>>)

\* Variant: the port interrupt is enabled with the detection.
ReadY_Enabled ==
    /\ adc.busy /\ adc.enabled /\ touch_state = "READING_Y"
    /\ Sampled(2, /\ touch_state' = "PROCESSING"
                  /\ port' = [enabled |-> TRUE, flag |-> Detecting(port.flag)]
                  /\ adc' = [adc EXCEPT !.busy = FALSE]
                  /\ softirq' = TRUE)

ReadY ==
    /\ adc.busy /\ adc.enabled /\ touch_state = "READING_Y"
    /\ Sampled(2, /\ touch_state' = "PROCESSING"
                  /\ port' = [port EXCEPT !.flag = Detecting(@)]
                  /\ adc' = [adc EXCEPT !.busy = FALSE]
                  /\ softirq' = TRUE)

touch_priv_adc_handler == ReadX \/ ReadY

\* The handler that is set is told of an event: the window system queues it,
\* the calibration keeps it.
Tell(event) ==
    calibration' = IF handler = "calibrate"
                   THEN [calibration EXCEPT !.event = event] ELSE calibration

Average == [d \in 1 .. 2 |-> raw[d] \div Samples]

\* Variant: a release ends only a press, not a move.
ProcessReleased_PressOnly ==
    LET event == [last EXCEPT !.type = "RELEASE"]
    IN  /\ pen = None
        /\ touch_state' = "NOT_TOUCHED"
        /\ IF last.type = "PRESS"
           THEN last' = event /\ Tell(event)
           ELSE UNCHANGED <<last, calibration>>

ProcessReleased ==
    LET event == [last EXCEPT !.type = "RELEASE"]
    IN  /\ pen = None
        /\ touch_state' = "NOT_TOUCHED"
        /\ IF touch_is_touched
           THEN last' = event /\ Tell(event)
           ELSE UNCHANGED <<last, calibration>>

\* The place is compared as it was computed, and kept in 16 bits for each coordinate.
ProcessTouched ==
    LET panel == PanelPlace(Average, matrix)
        type == CASE last.type \in {"NO_EVENT", "RELEASE"} -> "PRESS"
                  [] touch_is_touched /\ last.panel # panel -> "MOVE"
                  [] OTHER -> "NO_EVENT"
        event == [type |-> type, raw |-> Average,
                  panel |-> <<Int16(panel[1]), Int16(panel[2])>>]
    IN  /\ pen # None
        /\ touch_state' = "TOUCHED"
        /\ IF type # "NO_EVENT"
           THEN last' = event /\ Tell(event)
           ELSE UNCHANGED <<last, calibration>>

\* The flag is cleared, and read to see whether the pen is still down.  The
\* softirq runs from the main loop, which starts after the set-up.
touch_priv_process_samples ==
    /\ softirq /\ calibration.phase # "off"
    /\ softirq' = FALSE
    /\ raw' = Average
    /\ ProcessReleased \/ ProcessTouched
    /\ port' = [enabled |-> TRUE, flag |-> pen # None]
    /\ UNCHANGED <<adc, sample_count, matrix, handler, world>>

(***************************************************************************)
(* The calibration: apps/*/app_calibrate.c.                                *)
(***************************************************************************)
Circle ==
    <<<<Size[1] - Offset - 1, Size[2] - Offset - 1>>,
      <<Offset, Size[2] - Offset - 1>>,
      <<Offset, Offset>>>>

\* The window system hooks into the driver.
win_init ==
    /\ handler = None /\ adc.enabled
    /\ handler' = "window"
    /\ UNCHANGED <<driver, matrix, calibration, world>>

\* The memory the context is in is not cleared: the event in it is whatever was
\* there.
app_touch_calibrate_setup ==
    /\ handler = "window" /\ calibration.phase = "off"
    /\ \E type \in EventTypes, v \in Floating :
          calibration' = [phase |-> "running", points |-> <<>>,
                          event |-> [type |-> type, raw |-> <<v, v>>,
                                     panel |-> <<v, v>>]]
    /\ handler' = "calibrate"
    /\ UNCHANGED <<driver, matrix, world>>

\* The first point is compared with what lies in memory before the points.
TooClose(point, points) ==
    IF points = <<>> THEN BOOLEAN
    ELSE LET before == points[Len(points)]
             far(d) == \/ point[d] - before[d] >= Threshold
                       \/ before[d] - point[d] >= Threshold
         IN  {~far(1) /\ ~far(2)}

\* The task runs again and again until a touch is released.
TakePoint ==
    LET event == calibration.event
        points == calibration.points
    IN  /\ calibration.phase = "running" /\ Len(points) < 3
        /\ event.type = "RELEASE"
        /\ \E close \in TooClose(event.raw, points) :
              calibration' = [calibration EXCEPT
                 !.event.type = "NO_EVENT",
                 !.points = IF close THEN points ELSE Append(points, event.raw)]
        /\ UNCHANGED <<driver, matrix, handler, world>>

CalibrationDone ==
    /\ calibration.phase = "running" /\ Len(calibration.points) = 3
    /\ matrix' = touch_compute_calibration_matrix(calibration.points, Circle)
    /\ handler' = "window"
    /\ calibration' = [calibration EXCEPT !.phase = "done"]
    /\ UNCHANGED <<driver, world>>

(***************************************************************************)
(* The pen.                                                                *)
(***************************************************************************)
PenDown ==
    /\ pen = None /\ moved < MaxPen
    /\ pen' \in Places
    /\ moved' = moved + 1
    /\ steady' = None
    /\ port' = [port EXCEPT !.flag =
                  @ \/ touch_state \notin {"READING_X", "READING_Y"}]
    /\ UNCHANGED <<touch_state, adc, sample_count, raw, softirq, last>>
    /\ UNCHANGED <<matrix, handler, calibration>>

PenSlides ==
    /\ pen # None /\ moved < MaxPen
    /\ pen' \in Places \ {pen}
    /\ moved' = moved + 1
    /\ steady' = None
    /\ UNCHANGED <<driver, matrix, handler, calibration>>

PenUp ==
    /\ pen # None
    /\ pen' = None
    /\ steady' = None
    /\ UNCHANGED <<driver, matrix, handler, calibration, moved>>

(***************************************************************************)
(* The specification.                                                      *)
(***************************************************************************)
TouchInit ==
    /\ touch_state = "NOT_TOUCHED"
    /\ port = [enabled |-> FALSE, flag |-> FALSE]
    /\ adc = [enabled |-> FALSE, busy |-> FALSE]
    /\ sample_count = 0 /\ raw = <<0, 0>> /\ softirq = FALSE
    /\ last = [type |-> "NO_EVENT", raw |-> <<0, 0>>, panel |-> <<0, 0>>]
    /\ matrix = Uncalibrated
    /\ handler = None
    /\ calibration = [phase |-> "off", points |-> <<>>, event |-> last]
    /\ pen = None /\ steady = None /\ moved = 0

Pen == PenDown \/ PenSlides \/ PenUp

TouchNext ==
    \/ touch_enable
    \/ touch_disable
    \/ touch_priv_port_handler
    \/ touch_priv_adc_handler
    \/ touch_priv_process_samples
    \/ win_init
    \/ app_touch_calibrate_setup
    \/ TakePoint
    \/ CalibrationDone
    \/ Pen

\* Enabled interrupts are taken, the converter finishes, the main loop starts
\* and runs softirqs and tasks.
Fairness ==
    /\ WF_touchVars(touch_priv_port_handler)
    /\ WF_touchVars(touch_priv_adc_handler)
    /\ WF_touchVars(touch_priv_process_samples)
    /\ WF_touchVars(win_init)
    /\ WF_touchVars(app_touch_calibrate_setup)
    /\ WF_touchVars(TakePoint)
    /\ WF_touchVars(CalibrationDone)

TouchSpec == TouchInit /\ [][TouchNext]_touchVars /\ Fairness

(***************************************************************************)
(* Properties.                                                             *)
(***************************************************************************)
\* Exactly one of the port interrupt, the converter and the softirq moves the
\* driver on, and it is the one its state waits for; so the assertions in the
\* two handlers hold (touch_priv_port_handler, touch_priv_adc_handler).
HandlersAgree ==
    /\ port.enabled => touch_state \in Resting
    /\ adc.busy <=> touch_state \in {"READING_X", "READING_Y"}
    /\ softirq <=> touch_state = "PROCESSING"
    /\ adc.enabled <=> port.enabled \/ adc.busy \/ softirq

\* When the pen is lifted and stays up, the touch is reported as released: it is
\* never forgotten between the softirq and the next interrupt.
ReleaseIsReported == []<>(pen # None \/ ~adc.enabled \/ ~touch_is_touched)

\* A pen that lies still from the start of a measurement on is reported at the
\* place where it lies: samples of an earlier touch never mix in.
StillPenIsMeasured ==
    [][ last'.type \in {"PRESS", "MOVE"} /\ last' # last /\ steady # None
        => last'.raw = steady ]_touchVars

\* Whether the denominator and its multiples that are divided by it are ints.
Fits(r) ==
    LET int(n) == n \in -IntLimit .. IntLimit - 1
    IN  /\ int(Determinant(r))
        /\ \A i \in 1 .. 3, d \in 1 .. 2 : int(Determinant(r) * Circle[i][d])

\* The matrix that the calibration gives to the driver takes each of the three
\* touches to the circle that was shown, unless they lie on a line or so far apart that
\* what is divided in the end is no int: that what is computed on the way overflows does
\* no harm (touch_compute_calibration_matrix, touch_priv_process_samples).
TouchesMapToCircles ==
    LET points == calibration.points
    IN  calibration.phase = "done" /\ Determinant(points) # 0 /\ Fits(points) =>
            \A i \in 1 .. 3 : PanelPlace(points[i], matrix) = Circle[i]
=============================================================================
