---------------------------- MODULE IdleReadings ----------------------------
(***************************************************************************)
(* What QCpuIdleDelegate (qcpuidledelegate.cpp) and QIoIdleDelegate        *)
(* (qioidledelegate.cpp) make of the kernel's counters.  IdleManager says  *)
(* when their timer runs and takes the measured load for a choice; here    *)
(* the load is computed, from counters that grow while the delegate is     *)
(* switched on and off, gets another device, and outgrow an int.           *)
(*                                                                         *)
(* Time and counters advance by units.  In each unit the processor is      *)
(* busy for users, busy otherwise or idle, and each device is busy or not. *)
(* A load is a fraction.                                                   *)
(*                                                                         *)
(* A function of QIdleDelegate that IdleManager has by its name begins     *)
(* with a capital here, so that one module can be about both.              *)
(***************************************************************************)
EXTENDS Integers

CONSTANTS
    Kinds,          \* which delegates: a subset of {"cpu", "io"}
    Devices,        \* names of block devices
    Counts,         \* values that the counters may begin with
    MaxInt,         \* the largest int
    Thresholds,     \* values of loadThreshold, in fifths
    Interval,       \* units between timeouts
    MaxLate,        \* bound: units that a timeout may be late
    MaxTime,        \* bound: units
    MaxCalls        \* bound: calls of the delegate's setters

ASSUME ReadingsAssumption ==
    /\ Kinds \subseteq {"cpu", "io"} /\ Counts \subseteq Nat
    /\ MaxInt \in Nat /\ Thresholds \subseteq Int
    /\ Interval \in Nat \ {0} /\ MaxLate \in Nat /\ MaxTime \in Nat /\ MaxCalls \in Nat

VARIABLES
    kind,
    m_enabled, m_requested,
    m_timer,            \* units since it was started or fired, or Off
    m_loadThreshold,    \* in fifths
    m_load,             \* <<numerator, denominator>>
    \* QCpuIdleDelegate
    m_total, m_idle,
    \* QIoIdleDelegate
    m_device,
    m_last_msecs,
    m_elapsed,          \* units since it was started, or Off: invalid
    \* the kernel
    user, other, idle,  \* what the processor did so far
    busyTime,           \* how long each device was busy so far
    \* observations
    time, calls,
    then,               \* the kernel's counters at the last reading
    basis,              \* what the next reading can be measured against, see Basis
    reading             \* the latest step was a timeout: what it measured and did, else None

delegate == <<m_enabled, m_requested, m_timer, m_loadThreshold>>
stats    == <<m_load, m_total, m_idle, m_last_msecs, m_elapsed>>
kernel   == <<user, other, idle, busyTime, time>>
observed == <<then, basis, reading>>
readingsVars == <<kind, delegate, stats, m_device, kernel, observed, calls>>

Off  == -1
NoReading == [announced |-> FALSE]

\* A definition marked 'mutant' is a plausible bug that takes the place of the
\* one that follows it.

---------------------------------------------------------------------------
(* Readings *)

\* toInt gives 0 for what is no int.
toInt(n) == IF n > MaxInt THEN 0 ELSE n

\* A sum of ints wraps.
Wrapped(n) == ((n + MaxInt + 1) % (2 * MaxInt + 2)) - MaxInt - 1

Unknown == <<1, 1>>

\* The difference of sums wraps as well; that of two counters cannot.
CpuLoad(reset, total, idl) ==
    LET all   == Wrapped(total - m_total)
        quiet == idl - m_idle
    IN  IF reset \/ total <= m_total THEN Unknown
        ELSE IF all > 0 THEN <<all - quiet, all>> ELSE <<quiet - all, -all>>

\* The sum begins behind the user time.
updateCpuStats(reset) ==
    LET idl   == toInt(idle)
        total == Wrapped(toInt(other) + idl)
    IN  /\ m_load' = CpuLoad(reset, total, idl)
        /\ m_total' = total /\ m_idle' = idl
        /\ UNCHANGED <<m_last_msecs, m_elapsed>>

Measured(reset) == ~reset /\ m_last_msecs > 0 /\ m_elapsed # Off

\* m_elapsed is restarted when it is used, or by handleStateChange.
updateIoStats(reset) ==
    LET msecs == toInt(busyTime[m_device])
        used  == Measured(reset)
    IN  /\ m_load' = IF used /\ m_elapsed > 0 THEN <<msecs - m_last_msecs, m_elapsed>> ELSE Unknown
        /\ m_elapsed' = IF reset \/ used THEN 0 ELSE m_elapsed
        /\ m_last_msecs' = msecs
        /\ UNCHANGED <<m_total, m_idle>>

updateStats(reset) == IF kind = "cpu" THEN updateCpuStats(reset) ELSE updateIoStats(reset)

---------------------------------------------------------------------------
(* The delegate *)

Counters == [user |-> user, other |-> other, idle |-> idle, busy |-> busyTime[m_device],
             time |-> time]

\* mutant: switched on, it goes on from the last reading
FirstReadingNone == UNCHANGED stats

FirstReading == updateStats(TRUE)

handleCpuStateChange(state) ==
    IF state THEN FirstReading /\ m_timer' = 0
             ELSE m_timer' = Off /\ UNCHANGED stats

handleIoStateChange(state) ==
    IF state
    THEN FirstReading /\ m_timer' = 0
    ELSE /\ m_elapsed' = Off /\ m_timer' = Off
         /\ UNCHANGED <<m_load, m_total, m_idle, m_last_msecs>>

\* What the next reading can be measured against: "exact", the last reading; "nothing";
\* "long", the last reading, but over a time that began before it.
Basis(first) ==
    IF toInt(busyTime[m_device]) = 0 THEN "nothing"
    ELSE IF first \/ basis # "nothing" THEN "exact" ELSE "long"

HandleStateChange(state) ==
    /\ IF kind = "cpu" THEN handleCpuStateChange(state) ELSE handleIoStateChange(state)
    /\ IF state THEN then' = Counters /\ basis' = Basis(TRUE) ELSE UNCHANGED <<then, basis>>

Call == calls < MaxCalls /\ calls' = calls + 1 /\ reading' = NoReading

RequestIdleCpu(request) ==
    /\ m_requested # request /\ Call
    /\ m_requested' = request
    /\ IF m_enabled THEN HandleStateChange(request)
       ELSE UNCHANGED <<stats, m_timer, then, basis>>
    /\ UNCHANGED <<kind, m_enabled, m_loadThreshold, m_device, kernel>>

SetEnabled(value) ==
    /\ m_enabled # value /\ Call
    /\ m_enabled' = value
    /\ IF m_requested THEN HandleStateChange(value)
       ELSE UNCHANGED <<stats, m_timer, then, basis>>
    /\ UNCHANGED <<kind, m_requested, m_loadThreshold, m_device, kernel>>

Restarted == IF m_enabled /\ m_requested THEN 0 ELSE Off

\* The timer starts again; nothing is read.
SetIdleInterval ==
    /\ Call
    /\ m_timer' = Restarted
    /\ UNCHANGED <<kind, m_enabled, m_requested, m_loadThreshold, stats, m_device, kernel, then,
                   basis>>

setLoadThreshold(threshold) ==
    /\ m_loadThreshold # threshold /\ Call
    /\ m_loadThreshold' = threshold
    /\ UNCHANGED <<kind, m_enabled, m_requested, m_timer, stats, m_device, kernel, then, basis>>

\* mutant: the last device's reading is kept
ForgottenNever == m_last_msecs

Forgotten == 0

setDevice(device) ==
    /\ kind = "io" /\ m_device # device /\ Call
    /\ m_device' = device
    /\ m_last_msecs' = Forgotten
    /\ then' = [then EXCEPT !.busy = busyTime[device]] /\ basis' = "nothing"
    /\ UNCHANGED <<kind, delegate, m_load, m_total, m_idle, m_elapsed, kernel>>

Low(load, threshold) == 5 * load[1] <= threshold * load[2]

timeout ==
    /\ m_timer # Off /\ m_timer >= Interval
    /\ m_timer' = 0
    /\ updateStats(FALSE)
    /\ reading' = [announced |-> Low(m_load', m_loadThreshold), threshold |-> m_loadThreshold,
                   basis |-> basis, from |-> then, to |-> Counters]
    /\ then' = Counters /\ basis' = Basis(FALSE)
    /\ UNCHANGED <<kind, m_enabled, m_requested, m_loadThreshold, m_device, kernel, calls>>

---------------------------------------------------------------------------
Advanced(clock) == IF clock = Off THEN Off ELSE clock + 1

\* A unit passes.  A timeout is not later than MaxLate.
Tick ==
    /\ time < MaxTime /\ m_timer < Interval + MaxLate
    /\ time' = time + 1
    /\ IF kind = "cpu"
       THEN /\ \/ user' = user + 1 /\ UNCHANGED <<other, idle>>
               \/ other' = other + 1 /\ UNCHANGED <<user, idle>>
               \/ idle' = idle + 1 /\ UNCHANGED <<user, other>>
            /\ UNCHANGED busyTime
       ELSE /\ \E at \in SUBSET Devices :
                  busyTime' = [d \in Devices |-> busyTime[d] + IF d \in at THEN 1 ELSE 0]
            /\ UNCHANGED <<user, other, idle>>
    /\ m_timer' = Advanced(m_timer) /\ m_elapsed' = Advanced(m_elapsed)
    /\ reading' = NoReading
    /\ UNCHANGED <<kind, m_enabled, m_requested, m_loadThreshold, m_load, m_total, m_idle,
                   m_last_msecs, m_device, then, basis, calls>>

NewCpuDelegate == m_load = Unknown /\ m_total = 0 /\ m_idle = 0
NewIoDelegate == m_device \in Devices /\ m_last_msecs = 0 /\ m_elapsed = Off

ReadingsInit ==
    /\ kind \in Kinds
    /\ m_enabled = TRUE /\ m_requested = FALSE /\ m_timer = Off
    /\ m_loadThreshold \in Thresholds
    /\ NewCpuDelegate /\ NewIoDelegate
    /\ user = 0 /\ time = 0 /\ calls = 0
    /\ IF kind = "cpu"
       THEN other \in Counts /\ idle \in Counts /\ busyTime = [d \in Devices |-> 0]
       ELSE other = 0 /\ idle = 0 /\ busyTime \in [Devices -> Counts]
    /\ then = Counters /\ basis = "nothing" /\ reading = NoReading

ReadingsNext ==
    \/ \E v \in BOOLEAN : RequestIdleCpu(v) \/ SetEnabled(v)
    \/ SetIdleInterval
    \/ \E t \in Thresholds : setLoadThreshold(t)
    \/ \E d \in Devices : setDevice(d)
    \/ timeout
    \/ Tick

ReadingsSpec == ReadingsInit /\ [][ReadingsNext]_readingsVars

---------------------------------------------------------------------------
(* Properties.  The interval of a reading goes from the last one, or from where the     *)
(* delegate was switched on or given its device.                                        *)

\* Type correctness, and the timer runs exactly when it is wanted.
ReadingsTypeOK ==
    /\ kind \in Kinds /\ m_enabled \in BOOLEAN /\ m_requested \in BOOLEAN
    /\ m_timer \in Off .. Interval + MaxLate /\ (m_timer # Off <=> m_enabled /\ m_requested)
    /\ m_loadThreshold \in Thresholds
    /\ m_load[1] \in Int /\ m_load[2] \in Nat \ {0}
    /\ m_idle \in 0 .. MaxInt /\ m_last_msecs \in 0 .. MaxInt
    /\ m_total \in -MaxInt - 1 .. MaxInt
    /\ m_elapsed \in Off .. MaxTime
    /\ m_device \in Devices /\ busyTime \in [Devices -> Nat]
    /\ time \in 0 .. MaxTime /\ calls \in 0 .. MaxCalls
    /\ basis \in {"exact", "nothing", "long"}

IsReading == reading # NoReading
Since(counter) == reading.to[counter] - reading.from[counter]

\* The share of the interval in which the processor, user time left out, or the device
\* was busy.
TrueLoad ==
    IF kind = "io" THEN <<Since("busy"), Since("time")>>
    ELSE IF Since("other") + Since("idle") = 0 THEN Unknown
    ELSE <<Since("other"), Since("other") + Since("idle")>>

\* The counters that the reading used are ints.
InRange ==
    IF kind = "io" THEN reading.to.busy <= MaxInt
    ELSE reading.to.other + reading.to.idle <= MaxInt

\* "The calculated IO load level is measured by looking at the percentage of time spent in
\* IO requests over the last time interval" (qioidledelegate.cpp:68-70): idle CPU is
\* announced exactly when the load of the interval was low.  Nothing from before the
\* delegate was switched on or from another interval is counted.  Two readings of a device
\* are excepted.  The first after setDevice, or after a counter that was 0, has nothing to
\* be measured against and takes the load for 1.  The second divides by a time that began
\* before the first, as that did not restart m_elapsed (qioidledelegate.cpp:175): it may
\* take the load for too low, and announces idle CPU whenever this is right, and more.
LoadIsMeasured ==
    IsReading /\ InRange =>
       IF kind = "io" /\ reading.basis = "nothing"
       THEN reading.announced = Low(Unknown, reading.threshold)
       ELSE /\ Low(TrueLoad, reading.threshold) => reading.announced
            /\ kind = "cpu" \/ reading.basis = "exact" =>
                  (reading.announced => Low(TrueLoad, reading.threshold))

\* The idle time outgrew an int in the interval.
Outgrown == reading.from.idle <= MaxInt /\ reading.to.idle > MaxInt

\* An idle time that does not fit an int only hides idle CPU: a busy processor is not
\* announced as idle, whatever the differences of wrapped sums are, as long as the other
\* counters fit (qcpuidledelegate.cpp:143-145, 168-170).  The one reading is excepted in
\* whose interval the idle time outgrew its int: when the sum had wrapped before, its
\* difference wraps too, and the quotient of two negative numbers is a load of 0 or less.
OverflowIsSafe ==
    /\ IsReading /\ kind = "cpu" /\ reading.to.other <= MaxInt /\ ~Outgrown
    /\ reading.threshold \in 0 .. 4 /\ reading.announced
    => Low(TrueLoad, reading.threshold)

\* "A value greater than or equal to 1.0 guarantees that idleCpuAvailable() signals will
\* always be emitted.  A value less than 0.0 blocks all" (qcpuidledelegate.cpp:82,
\* qioidledelegate.cpp:114), also when the device has just been set.
ThresholdsHold ==
    IsReading /\ InRange =>
       /\ reading.threshold >= 5 => reading.announced
       /\ reading.threshold < 0 => ~reading.announced

\* An overflow hides idle CPU but invents none, but for the reading in which it happens,
\* and thresholds beyond 0 and 1 mean never and always.
PromisesHold == OverflowIsSafe /\ ThresholdsHold

\* An announcement is a measurement, but for two readings of a new device, and the timer
\* behind it is the right one.
ReadingsHold == ReadingsTypeOK /\ LoadIsMeasured
=============================================================================
