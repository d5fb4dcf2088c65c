------------------------------- MODULE Timer -------------------------------
(***************************************************************************)
(* devices/timer.c: timer_init calibrates the LAPIC timer and the time     *)
(* stamp counter (TSC) against the PIT, by reading the PIT until it has    *)
(* counted 10 ms.  Time is counted in ticks of the PIT.                    *)
(*                                                                         *)
(* Time passes between any two reads, so the loop sees the 10 ms too late, *)
(* the snapshots are not taken together, and the 16-bit counter of the PIT *)
(* wraps.  Interrupts are disabled: nothing else runs.                     *)
(***************************************************************************)
EXTENDS Integers, FiniteSetsExt

CONSTANTS
    PitWrap,        \* 2^16
    PitPerMs,       \* PIT_BASE_FREQ / 1000
    LapicWrap,      \* 2^32
    ticks_to_wait,  \* ticks of the PIT in 10 ms: 11931
    LapicRate,      \* what the LAPIC timer counts in a tick of the PIT
    TscRate,        \* what the TSC counts in a tick of the PIT
    ReadDelays,     \* how long two neighbouring reads may be apart
    PollDelays      \* how long two reads of the loop may be apart

TIMER_FREQUENCY_HZ == 100

\* What the calibration may measure at most, in ticks of the PIT.
Longest == ticks_to_wait - 1 + Max(PollDelays) + 4 * Max(ReadDelays)

ASSUME TimerAssumption ==
    /\ PitWrap \in Nat /\ PitPerMs \in Nat /\ LapicWrap \in Nat /\ ticks_to_wait \in Nat
    /\ LapicRate \in Nat \ {0} /\ TscRate \in Nat \ {0}
    /\ ReadDelays \subseteq Nat /\ PollDelays \subseteq Nat \ {0}
    /\ \E d \in ReadDelays : \A e \in ReadDelays : d >= e      \* nothing interrupts the reads
    /\ \E d \in PollDelays : \A e \in PollDelays : d >= e
    /\ ticks_to_wait + Max(PollDelays) < PitWrap              \* the loop does not miss a whole turn
    /\ LapicRate * Longest < LapicWrap                        \* the LAPIC timer does not reach zero
    /\ LapicRate * ticks_to_wait >= 10 /\ TscRate * ticks_to_wait >= 10

VARIABLES
    calibration,    \* "off", "poll", "end" or "done"
    now,            \* ticks of the PIT since its counter was loaded
    start,          \* start_lapic_timer, start_tsc_timer and start_pit
    lapic_ticks_per_ms, tsc_freq_hz, tsc_boot_time

timer_vars == <<calibration, now, start, lapic_ticks_per_ms, tsc_freq_hz, tsc_boot_time>>

NoStart == [lapic |-> 0, tsc |-> 0, pit |-> 0]

TimerInit ==
    /\ calibration = "off" /\ now = 0 /\ start = NoStart
    /\ lapic_ticks_per_ms = 0 /\ tsc_freq_hz = 0 /\ tsc_boot_time = 0

\* pit_prepare_sleep(0xFFFF): the number of ticks is cut to the counter.
pit_prepare_sleep == (PitPerMs * (PitWrap - 1)) % PitWrap

pit_read_count(t) == (pit_prepare_sleep - t) % PitWrap

\* The LAPIC timer counts down from its largest value and stops at zero.
lapic_current(t) == Max({0, LapicWrap - 1 - LapicRate * t})

rdtsc(t) == TscRate * t

\* The first snapshot.
timer_start ==
    /\ calibration = "off"
    /\ \E a, b, c \in ReadDelays :
          /\ start' = [lapic |-> lapic_current(a), tsc |-> rdtsc(a + b), pit |-> pit_read_count(a + b + c)]
          /\ now' = a + b + c
    /\ calibration' = "poll"
    /\ UNCHANGED <<lapic_ticks_per_ms, tsc_freq_hz, tsc_boot_time>>

\* Mutant: the difference is an int.
Delta_Int(current) == start.pit - current

\* delta is a uint16_t, so that the difference is right across a wrap.
Delta(current) == (start.pit - current) % PitWrap

timer_poll ==
    /\ calibration = "poll"
    /\ \E d \in PollDelays : now' = now + d
    /\ calibration' = IF Delta(pit_read_count(now')) >= ticks_to_wait THEN "end" ELSE "poll"
    /\ UNCHANGED <<start, lapic_ticks_per_ms, tsc_freq_hz, tsc_boot_time>>

\* The second snapshot, and the frequencies.
timer_end ==
    /\ calibration = "end"
    /\ \E a, b \in ReadDelays :
          LET end_tsc_timer == rdtsc(now + a + b) IN
          /\ lapic_ticks_per_ms' = ((start.lapic - lapic_current(now + a)) % LapicWrap) \div 10
          /\ tsc_freq_hz' = (end_tsc_timer - start.tsc) * 100
          /\ tsc_boot_time' = end_tsc_timer
    /\ calibration' = "done" /\ now' = 0 /\ start' = NoStart

timer_init == timer_start \/ timer_poll \/ timer_end

\* The period the LAPIC timer is programmed with.
LapicPeriod == (lapic_ticks_per_ms * (1000 \div TIMER_FREQUENCY_HZ)) % LapicWrap

timer_get_uptime_ms(tsc) == (tsc - tsc_boot_time) \div (tsc_freq_hz \div 1000)

\* After timer_init the timer interrupts about TIMER_FREQUENCY_HZ times a
\* second and the uptime is about the time that has passed.  Neither is too
\* fast by more than the rounding of a division by 10, nor too slow by more
\* than the reads of the calibration were late; and the divisor in
\* timer_get_uptime_ms, which the timer handler calls, is not zero.
ClockIsRight ==
    calibration = "done" =>
        /\ LapicPeriod > LapicRate * ticks_to_wait - 10
        /\ LapicPeriod <= LapicRate * Longest
        /\ tsc_freq_hz >= 1000
        /\ \A t \in 0..(4 * ticks_to_wait) :
              LET ms == timer_get_uptime_ms(tsc_boot_time + rdtsc(t)) IN
              /\ ms * (TscRate * ticks_to_wait - 9) <= 10 * TscRate * t
              /\ (ms + 1) * Longest > 10 * t

=============================================================================
