-------------------------------- MODULE APIC --------------------------------
(***************************************************************************)
(* The local-APIC timer driver of src/kernel/src/APIC.cpp: activation, the *)
(* LVT timer register (mode and mask bits), the reload value for a timer   *)
(* frequency, and the calibration of the timer against the PIT.            *)
(*                                                                         *)
(* Calibration is a busy loop on one core: it arms the LAPIC count, and    *)
(* the LAPIC and PIT counters run (HwTick, one LAPIC tick per step, a PIT  *)
(* tick every `ratio` LAPIC ticks) until the LAPIC count reaches 0.  The   *)
(* PIT counts down from its reload value to 1 and reloads.  Widths and     *)
(* counts are scaled down: PitMax stands for UINT16_MAX, LapicTicksCount   *)
(* for 0xfffff and PitBaseFreq for PIT_BASE_FREQUENCY.                     *)
(***************************************************************************)
EXTENDS Naturals, Integers, Bitwise

CONSTANTS
    PitMax,           \* the PIT reload value written by PITSetReloadValue
    PitRestarts,      \* TRUE: writing the reload value restarts the PIT count
    LapicTicksCount,  \* LAPIC ticks counted during calibration
    PitBaseFreq,      \* PIT ticks per unit of time
    Ratios,           \* possible LAPIC ticks per PIT tick of the hardware
    Freqs             \* frequencies passed to SetLAPICTimerFrequency

\* LVT timer register: vector in bits 0-7, mask in bit 16, mode in 17-18.
MaskBit  == 2 ^ 16
ModeUnit == 2 ^ 17
AllOnes  == 2 ^ 20 - 1
Modes    == {0, 1, 2}            \* one-shot, periodic, TSC-deadline
LvtMode(x) == (x \div ModeUnit) % 4
LvtMasked(x) == (x \div MaskBit) % 2 = 1

VARIABLES
    active,          \* apicRegisterBase has been set by ActivateLAPIC
    lvt,             \* APIC_LVT_TIMER
    initialCount,    \* APIC_INITIAL_COUNT
    current,         \* APIC_CURRENT_COUNT
    pit,             \* the PIT's current tick
    initialPITTick,  \* initialPITTick of CalibrateLAPICTimer
    sub,             \* LAPIC ticks since the last PIT tick
    calibrating,     \* inside the wait loop of CalibrateLAPICTimer
    base,            \* lapicTimerBaseFrequency
    fault,           \* a divide error was raised
    ratio,           \* the hardware's LAPIC ticks per PIT tick
    pitTicks,        \* ghost: PIT ticks elapsed since the count was armed
    calibrated,      \* ghost: a calibration has completed
    armed            \* ghost: [f, from] of the last SetLAPICTimerFrequency

vars == <<active, lvt, initialCount, current, pit, initialPITTick, sub,
          calibrating, base, fault, ratio, pitTicks, calibrated, armed>>

NoArm == [f |-> 0, from |-> 0]

\* The PIT counts down to 1, then reloads.
PitNext(p) == IF p = 1 THEN PitMax ELSE p - 1

\* Registers are only written after ActivateLAPIC and outside the busy loop.
Idle == active /\ ~calibrating /\ ~fault

-----------------------------------------------------------------------------

\* ActivateLAPIC: the register base from the MSR; the spurious-vector and
\* divide-configuration writes are constants and not modelled.
ActivateLAPIC ==
    /\ ~active
    /\ active' = TRUE
    /\ UNCHANGED <<lvt, initialCount, current, pit, initialPITTick, sub,
                   calibrating, base, fault, ratio, pitTicks, calibrated, armed>>

\* Mutant: the mode bits are ORed in without clearing the old ones.
LvtWithModeNoClear(x, m) == x | (m * ModeUnit)

\* Lines 41-42: clear bits 17-18, then OR in mode << 17.
LvtWithMode(x, m) == (x & (AllOnes - 3 * ModeUnit)) | (m * ModeUnit)

SetLAPICTimerMode(m) ==
    /\ Idle
    /\ lvt' = LvtWithMode(lvt, m)
    /\ UNCHANGED <<active, initialCount, current, pit, initialPITTick, sub,
                   calibrating, base, fault, ratio, pitTicks, calibrated, armed>>

SetLAPICTimerMask(mask) ==
    /\ Idle
    /\ lvt' = IF mask THEN lvt | MaskBit ELSE lvt & (AllOnes - MaskBit)
    /\ UNCHANGED <<active, initialCount, current, pit, initialPITTick, sub,
                   calibrating, base, fault, ratio, pitTicks, calibrated, armed>>

\* Mutant: the quotient is not rounded.
ReloadFloor(b, f) == b \div f

\* Lines 47-49: base / frequency, rounded up when the remainder exceeds
\* frequency / 2.
Reload(b, f) == b \div f + (IF b % f > f \div 2 THEN 1 ELSE 0)

SetLAPICTimerFrequency(f) ==
    /\ Idle
    /\ initialCount' = Reload(base, f)
    /\ armed' = [f |-> f, from |-> base]
    /\ UNCHANGED <<active, lvt, current, pit, initialPITTick, sub,
                   calibrating, base, fault, ratio, pitTicks, calibrated>>

\* CalibrateLAPICTimer up to the wait loop: LVT = vector 48, masked,
\* one-shot; PITSetReloadValue(UINT16_MAX); read initialPITTick; arm the
\* count.  The first PIT tick comes after some part of a PIT period.
CalibrateStart ==
    /\ Idle
    /\ \E p \in (IF PitRestarts THEN {PitMax} ELSE 1 .. PitMax), s \in 0 .. ratio - 1 :
          /\ pit' = p
          /\ initialPITTick' = p
          /\ sub' = s
    /\ lvt' = 48 + MaskBit
    /\ initialCount' = LapicTicksCount
    /\ current' = LapicTicksCount
    /\ calibrating' = TRUE
    /\ pitTicks' = 0
    /\ armed' = NoArm
    /\ UNCHANGED <<active, base, fault, ratio, calibrated>>

\* One LAPIC tick while the calibration count runs; a PIT tick every
\* `ratio` LAPIC ticks.
HwTick ==
    /\ calibrating /\ current > 0
    /\ current' = current - 1
    /\ IF sub + 1 = ratio
       THEN /\ pit' = PitNext(pit) /\ sub' = 0 /\ pitTicks' = pitTicks + 1
       ELSE /\ sub' = sub + 1 /\ UNCHANGED <<pit, pitTicks>>
    /\ UNCHANGED <<active, lvt, initialCount, initialPITTick, calibrating,
                   base, fault, ratio, calibrated, armed>>

\* Mutant: the PIT ticks are subtracted in the wrong order.
ElapsedReversed(i, e) == e - i

\* initialPITTick - endPITTick: two uint16 promoted to int.
Elapsed(i, e) == i - e

\* uint64 / int: a negative divisor converts to 2^64 + d, which exceeds
\* any uint64 dividend, so the quotient is 0.
Quot(a, d) == IF d < 0 THEN 0 ELSE a \div d

\* The loop exits when the current count is 0: read endPITTick, stop the
\* LAPIC count, compute the base frequency; a zero difference is a divide
\* error.
CalibrateEnd ==
    /\ calibrating /\ current = 0
    /\ LET d == Elapsed(initialPITTick, pit)
       IN  IF d = 0
           THEN fault' = TRUE /\ UNCHANGED base
           ELSE base' = Quot(LapicTicksCount, d) * PitBaseFreq /\ UNCHANGED fault
    /\ initialCount' = 0
    /\ calibrating' = FALSE
    /\ calibrated' = TRUE
    /\ UNCHANGED <<active, lvt, current, pit, initialPITTick, sub, ratio,
                   pitTicks, armed>>

Init ==
    /\ active = FALSE
    /\ lvt = MaskBit
    /\ initialCount = 0
    /\ current = 0
    /\ pit \in 1 .. PitMax
    /\ initialPITTick = 0
    /\ sub = 0
    /\ calibrating = FALSE
    /\ base = 0
    /\ fault = FALSE
    /\ ratio \in Ratios
    /\ pitTicks = 0
    /\ calibrated = FALSE
    /\ armed = NoArm

Next ==
    \/ ActivateLAPIC
    \/ \E m \in Modes : SetLAPICTimerMode(m)
    \/ \E mask \in BOOLEAN : SetLAPICTimerMask(mask)
    \/ \E f \in Freqs : SetLAPICTimerFrequency(f)
    \/ CalibrateStart
    \/ HwTick
    \/ CalibrateEnd

Spec == Init /\ [][Next]_vars

-----------------------------------------------------------------------------
(* Properties.                                                             *)

\* Types; the LVT timer mode field only ever holds a mode the driver
\* writes (SetLAPICTimerMode clears the old bits before ORing in the new).
TypeOK ==
    /\ active \in BOOLEAN /\ calibrating \in BOOLEAN /\ fault \in BOOLEAN
    /\ lvt \in 0 .. AllOnes /\ LvtMode(lvt) \in Modes
    /\ current \in 0 .. LapicTicksCount
    /\ pit \in 1 .. PitMax
    /\ base \in Nat /\ initialCount \in Nat

\* A completed calibration measures the PIT ticks that really elapsed:
\* the difference of the two PIT readings equals the ghost tick count, so
\* lapicTimerBaseFrequency is LapicTicksCount over the elapsed PIT ticks,
\* times the PIT frequency, and non-zero (no divide error, no wrap).
CalibrationSound ==
    (calibrated /\ ~calibrating) =>
        /\ ~fault
        /\ base = (LapicTicksCount \div pitTicks) * PitBaseFreq
        /\ base > 0

\* The reload value SetLAPICTimerFrequency writes is the integer nearest
\* to lapicTimerBaseFrequency / frequency.
Dist(a, b) == IF a >= b THEN a - b ELSE b - a

ReloadNearest ==
    armed # NoArm =>
        \A k \in 0 .. armed.from \div armed.f + 1 :
            Dist(initialCount * armed.f, armed.from) <= Dist(k * armed.f, armed.from)

=============================================================================
