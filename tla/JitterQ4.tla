------------------------------ MODULE JitterQ4 ------------------------------
(***************************************************************************)
(* The interarrival-jitter estimator of RTPReceiver                        *)
(* (src/modules/rtp_rtcp/source/rtp_receiver.cc): the Q4 fixed-point      *)
(* low-pass filter that UpdateStatistics applies to every in-order packet *)
(* with a new RTP timestamp, for both the RTP jitter and the RFC 5450     *)
(* transmission-time-offset jitter, the jitter outputs of                 *)
(* Statistics(reset=true), and the resets.                                 *)
(*                                                                         *)
(* A packet is given by the signed 32-bit differences the code computes,  *)
(* (arrival - last arrival) - (timestamp - last timestamp) in samples,    *)
(* with and without the transmission offset; the sequence-number side of  *)
(* UpdateStatistics is in RtpReceiver.  The module also gives the         *)
(* retransmit delay estimate RetransmitOfOldPacket derives from jitter_q4.*)
(***************************************************************************)
EXTENDS Integers

CONSTANTS
    TimeDiffs,      \* time_diff_samples values (signed 32-bit) a packet may carry
    ExtTimeDiffs,   \* time_diff_samples_ext values
    MaxPackets,     \* bound on in-order packets
    MaxCalls,       \* bound on Statistics and reset calls
    FrequenciesKhz, \* GetFrequencyHz() / 1000 of the media strategies
    MinRtts         \* min_rtt values RTT() may report

Int32Min == -2147483647 - 1
ASSUME TimeDiffs \cup ExtTimeDiffs \subseteq Int32Min..2147483647
ASSUME FrequenciesKhz \subseteq Nat \ {0} /\ MinRtts \subseteq 0..65535

VARIABLES
    jitter_q4,                            \* jitter_q4_
    jitter_q4_transmission_time_offset,   \* jitter_q4_transmission_time_offset_
    jitter_max_q4,                        \* jitter_max_q4_
    last_report_jitter,                   \* last_report_jitter_
    last_report_jitter_transmission_time_offset,
    started,   \* a first packet has been received (received_seq_max_ or wraps # 0)
    inorder,   \* received_inorder_packet_count_
    packets,   \* packets so far (bound)
    max_dev,   \* largest deviation the filter accepted since the last reset
    calls      \* Statistics and reset calls so far (bound)

vars == <<jitter_q4, jitter_q4_transmission_time_offset, jitter_max_q4,
          last_report_jitter, last_report_jitter_transmission_time_offset,
          started, inorder, packets, max_dev, calls>>

\* Deviations of 5 s of 90 kHz video or more are "crazy jumps" and ignored.
kMaxDeviation == 450000

\* x >> 4 on a signed 32-bit value: every supported compiler shifts
\* arithmetically, which is division rounding towards minus infinity.
Shr4(x) == x \div 16

\* abs() of a WebRtc_Word32: two's complement has no +2^31, so abs(INT32_MIN)
\* is INT32_MIN again.
AbsDropped(x) == x

Abs32(x) == IF x = Int32Min THEN Int32Min ELSE IF x < 0 THEN -x ELSE x

\* x << 4 on a WebRtc_Word32 below 450000: no overflow except for
\* INT32_MIN, whose bits all shift out (every supported compiler emits a
\* plain shift, so the result is 0).
Shl4(x) == IF x = Int32Min THEN 0 ELSE 16 * x

(***************************************************************************)
(* One step of the filter: jitter_diff_q4 = (d << 4) - J;                 *)
(* J += (jitter_diff_q4 + 8) >> 4, unless d is 450000 or more.             *)
(***************************************************************************)
JitterStepUnguarded(j, d) ==
    j + Shr4(Shl4(d) - j + 8)

JitterStepTruncating(j, d) ==
    IF d < kMaxDeviation THEN j + Shr4(Shl4(d) - j) ELSE j

JitterStep(j, d) ==
    IF d < kMaxDeviation THEN j + Shr4(Shl4(d) - j + 8) ELSE j

(***************************************************************************)
(* The retransmit delay estimate of RetransmitOfOldPacket: with no RTT    *)
(* measured, twice the square root of jitter_q4_ >> 4 over the frequency  *)
(* in kHz, truncated to an integer and floored at 1 ms; otherwise         *)
(* min_rtt / 3 + 1.  Both float operands are exact integers below 2^24,   *)
(* and the two float roundings (sqrt, division) cannot carry a quotient  *)
(* across an integer, so the truncation equals ISqrt(4 J) \div f.  The    *)
(* sqrt of a negative value is NaN, whose conversion to WebRtc_Word32 is  *)
(* undefined: INT32_MIN on x86 and 0 on ARM.                              *)
(***************************************************************************)
RECURSIVE SqrtIn(_, _, _)
SqrtIn(n, lo, hi) ==
    IF lo >= hi THEN lo
    ELSE LET mid == (lo + hi + 1) \div 2
         IN IF mid * mid <= n THEN SqrtIn(n, mid, hi) ELSE SqrtIn(n, lo, mid - 1)

\* Largest r with r * r <= n (46340 is the largest square root below 2^31).
ISqrt(n) == SqrtIn(n, 0, IF n < 46340 THEN n ELSE 46340)

\* The values max_delay_ms can take for jitter_q4_ = j.
MaxDelayMs(j, frequency_khz, min_rtt) ==
    IF min_rtt # 0 THEN {min_rtt \div 3 + 1}
    ELSE IF Shr4(j) < 0 THEN {Int32Min, 1}
    ELSE LET m == ISqrt(4 * Shr4(j)) \div frequency_khz
         IN {IF m = 0 THEN 1 ELSE m}

Init ==
    /\ jitter_q4 = 0
    /\ jitter_q4_transmission_time_offset = 0
    /\ jitter_max_q4 = 0
    /\ last_report_jitter = 0
    /\ last_report_jitter_transmission_time_offset = 0
    /\ started = FALSE
    /\ inorder = 0
    /\ packets = 0
    /\ max_dev = 0
    /\ calls = 0

\* A call of the RTCP thread or the host, within the bound.
Call == calls < MaxCalls /\ calls' = calls + 1

\* UpdateStatistics, first packet: count it and return before the filter.
FirstPacket ==
    /\ ~started /\ packets < MaxPackets
    /\ started' = TRUE
    /\ inorder' = 1
    /\ packets' = packets + 1
    /\ UNCHANGED <<jitter_q4, jitter_q4_transmission_time_offset, jitter_max_q4,
                   last_report_jitter, last_report_jitter_transmission_time_offset,
                   max_dev, calls>>

(***************************************************************************)
(* UpdateStatistics, an in-order packet: count it, and when its timestamp *)
(* differs from the last one and it is not the first in-order packet,     *)
(* feed abs() of the differences to the two filters.                      *)
(***************************************************************************)
InOrderPacket(new_timestamp, diff, diff_ext) ==
    LET update == new_timestamp /\ inorder + 1 > 1
        d == Abs32(diff)
        d_ext == Abs32(diff_ext)
    IN
    /\ started /\ packets < MaxPackets
    /\ inorder' = inorder + 1
    /\ packets' = packets + 1
    /\ IF update
       THEN /\ jitter_q4' = JitterStep(jitter_q4, d)
            /\ jitter_q4_transmission_time_offset' =
                   JitterStep(jitter_q4_transmission_time_offset, d_ext)
            /\ max_dev' = IF d < kMaxDeviation /\ d > max_dev THEN d ELSE max_dev
       ELSE UNCHANGED <<jitter_q4, jitter_q4_transmission_time_offset,
                        max_dev>>
    /\ UNCHANGED <<jitter_max_q4, last_report_jitter,
                   last_report_jitter_transmission_time_offset, started, calls>>

\* Statistics(reset = true), jitter part: raise the maximum to the current
\* estimate and store both estimates scaled by 1/16 in the report.
Statistics ==
    /\ started /\ Call
    /\ jitter_max_q4' = IF jitter_q4 > jitter_max_q4 THEN jitter_q4 ELSE jitter_max_q4
    /\ last_report_jitter' = Shr4(jitter_q4)
    /\ last_report_jitter_transmission_time_offset' =
           Shr4(jitter_q4_transmission_time_offset)
    /\ UNCHANGED <<jitter_q4, jitter_q4_transmission_time_offset, started,
                   inorder, packets, max_dev>>

\* ResetStatistics: every jitter value and the sequence state back to 0.
ResetStatistics ==
    /\ Call
    /\ jitter_q4' = 0
    /\ jitter_q4_transmission_time_offset' = 0
    /\ jitter_max_q4' = 0
    /\ last_report_jitter' = 0
    /\ last_report_jitter_transmission_time_offset' = 0
    /\ started' = FALSE
    /\ inorder' = 0
    /\ max_dev' = 0
    /\ UNCHANGED packets

\* ResetDataCounters clears the in-order count the filter's guard reads.
ResetDataCounters ==
    /\ Call
    /\ inorder' = 0
    /\ UNCHANGED <<jitter_q4, jitter_q4_transmission_time_offset, jitter_max_q4,
                   last_report_jitter, last_report_jitter_transmission_time_offset,
                   started, packets, max_dev>>

Next ==
    \/ FirstPacket
    \/ \E ts \in BOOLEAN, d \in TimeDiffs, dx \in ExtTimeDiffs : InOrderPacket(ts, d, dx)
    \/ Statistics
    \/ ResetStatistics
    \/ ResetDataCounters

Spec == Init /\ [][Next]_vars

-----------------------------------------------------------------------------
Abs(x) == IF x < 0 THEN -x ELSE x

(***************************************************************************)
(* From every estimate the receiver reaches, the fixed-point step for any  *)
(* accepted deviation d is the exact RFC 3550 filter J + (16 d - J) / 16  *)
(* rounded to the nearest Q4 value: the +8 and the arithmetic shift       *)
(* together also round the negative differences correctly.                *)
(***************************************************************************)
JitterStepRoundsToNearest ==
    \A d \in {Abs32(x) : x \in TimeDiffs} :
        0 <= d /\ d < kMaxDeviation =>
            Abs(16 * JitterStep(jitter_q4, d) - (15 * jitter_q4 + 16 * d)) <= 8

(***************************************************************************)
(* The RTP jitter estimate never exceeds 16 times the largest deviation   *)
(* UpdateStatistics accepted since the last ResetStatistics: rounding     *)
(* never overshoots the input and a deviation past the 450000-sample      *)
(* guard never reaches the filter.                                         *)
(***************************************************************************)
JitterBounded == jitter_q4 <= 16 * max_dev

(***************************************************************************)
(* Spec 4.6: for every jitter estimate the receiver reaches, including    *)
(* after the INT32_MIN time jump whose abs() stays negative, the delay    *)
(* RetransmitOfOldPacket allows a late packet is at least 1 ms and, with  *)
(* no RTT, the largest m with (m f)^2 <= 4 (jitter_q4 >> 4), floored at 1.*)
(***************************************************************************)
RetransmitDelayPerSpec ==
    \A f \in FrequenciesKhz, rtt \in MinRtts :
        \A m \in MaxDelayMs(jitter_q4, f, rtt) :
            /\ m >= 1
            /\ rtt # 0 \/ ((m + 1) * f) ^ 2 > 4 * Shr4(jitter_q4)
            /\ rtt # 0 \/ m = 1 \/ (m * f) ^ 2 <= 4 * Shr4(jitter_q4)

=============================================================================
