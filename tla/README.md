# TLA+ model of the RTP receiver (webrtc-core)

This directory models the receive side of the RTP stack in
`src/modules/rtp_rtcp/source/rtp_receiver.cc` (class `RTPReceiver`) and
checks it with TLC. The other source file,
`src/test/channel_transport/traffic_control_win.h`, declares a wrapper of
the Windows traffic-control API. It has no logic to model.

## Inventory

### Components and their state

| Component | State (members of `RTPReceiver`) | Operations that change state |
|---|---|---|
| Ingress path | `ssrc_`, `last_receive_time_`, `last_received_payload_length_`, `last_received_{timestamp,sequence_number,transmission_time_offset,frame_time_ms}_` | `IncomingRTPPacket` → `CheckSSRCChanged`, `CheckPayloadChanged`, `CheckCSRC`, media `ParseRtpPacket`, `UpdateStatistics` |
| Statistics | `received_seq_{first,max,wraps}_`, `received_{inorder,old}_packet_count_`, `received_byte_count_`, `received_packet_oh_`, `cumulative_loss_`, `jitter_q4_`, `jitter_max_q4_`, `jitter_q4_transmission_time_offset_`, `local_time_last_received_timestamp_`, `last_report_*` | `UpdateStatistics`, `Statistics(reset=true)`, `ResetStatistics`, `ResetDataCounters` |
| Liveness | `last_receive_time_`, `packet_timeout_ms_` | `PacketTimeout`, `SetPacketTimeout`; `ProcessDeadOrAlive` only reads and calls back |
| CSRC tracking | `current_remote_csrc_[15]`, `num_csrcs_`, `current_remote_energy_[15]`, `num_energy_` | `CheckCSRC`, destructor; `CSRCs`, `Energy` read |
| Configuration | `nack_method_`, `max_reordering_threshold_`, `rtx_`, `ssrc_rtx_`, `use_ssrc_filter_`, `ssrc_filter_` | `SetNACKStatus`, `SetRTXStatus`, `SetSSRCFilter` |
| Payload registry (not in src) | registered payload types, last received payload type, last media payload type | `RegisterReceivePayload`, `DeRegisterReceivePayload`, `ResetLastReceivedPayloadTypes`, `ReportMediaPayloadType` |
| Media strategy (not in src) | last media-specific payload | `CheckPayloadChanged`, `ParseRtpPacket`, `InvokeOnInitializeDecoder` |
| Header-extension map, bitrate meter (not in src) | extension ids, byte windows | register/deregister; `Bitrate::Update/Process` |

### How they interact

Three threads share one `RTPReceiver` behind one critical section:

* The receive thread runs `IncomingRTPPacket`. It is not one critical
  section. First it does unlocked reads of `rtx_`, `ssrc_`,
  `use_ssrc_filter_` and `last_receive_time_`, and calls `OnReceivedPacket`.
  Then come three separate lock sections: `CheckSSRCChanged`,
  `CheckPayloadChanged` and `CheckCSRC`. Each one is followed by host
  callbacks made outside the lock. The media strategy then parses the packet
  without the lock. A final lock section classifies the packet, updates the
  statistics and sets `last_receive_time_`.
* The timer thread runs `PacketTimeout`, `ProcessDeadOrAlive` and
  `ProcessBitrate`.
* The RTCP sender thread calls `Statistics(reset)` to build report blocks.
  The host calls the reset, configuration and registration API from any
  thread.

### What is hard

* Interleaving: the other threads can run between any two of the receive
  thread's lock sections. Some state is read with no lock at all (lines
  349–371, 177).
* Ordering: the network loses, duplicates and reorders packets. Sequence
  numbers wrap at 2^16, and the reordering threshold decides when a jump
  back counts as a restart.
* Partial failure: early returns can leave one part of a step done and
  another part skipped (line 706). A packet rejected half-way keeps the
  state changes made before the rejection.
* Timeouts: a late packet can race `PacketTimeout`.
* Arithmetic: unsigned 16- and 32-bit differences, the Q4 jitter filter and
  the `exp_since_last` clamp.

### What makes each component correct

* Statistics: loss is never overstated. With in-order arrival, loss is exact
  across the wrap. The packet count and the extended highest sequence number
  match the packets counted (spec 8.1, 8.4). `fraction_lost` stays in 0..255.
* Ingress: the statistics are those of the stream `ssrc_` names, and the
  RTCP sender and the host have been told that SSRC (spec 4.2).
* Liveness: `OnReceivedPacket` is called once per activity period, the
  host is not left believing the stream timed out while packets are
  counted, and a host told a stream started is told when it stops
  (spec 4.1, 4.7, 6).
* CSRC: for distinct CSRC lists, every add callback is matched by a
  remove (spec 8.6), and between packets the host's view is what
  `CSRCs()` returns.
* Jitter: the Q4 filter rounds to nearest and stays within the deviations
  it accepted, and the retransmit delay derived from it is the spec 4.6
  value of at least 1 ms.
* RTX: an RTX packet is counted as the media packet it repeats (spec 6).

## Modules

### `RtpReceiver.tla` (core)

Variables map to members as follows:

* `ssrc` → `ssrc_`.
* `st` → the `received_*` counters and `cumulative_loss_`.
* `last_report` → the `last_report_*` snapshot.
* `last_receive_time` → `last_receive_time_`.
* `nack_method`, `max_reordering_threshold` → the members of the same name.
* `registered`, `last_pt`, `last_media_pt` → the payload registry.
* `rx` → the receive thread's program counter: which stage of
  `IncomingRTPPacket` runs next, and the packet it is processing.
* `rtx`, `ssrc_rtx`, `use_ssrc_filter`, `ssrc_filter`, `packet_timeout_ms`
  → the members of the same names. `packet_timeout_ms` starts at
  `PacketTimeoutMs`, the value the host sets before the first packet.

Actions:

* `IncomingRTPPacket(p)`: lines 335–385, the unlocked prologue. A packet on
  the RTX SSRC takes `ssrc_` as its SSRC and the original sequence number
  from its first two payload bytes, or is dropped when it has no room for
  them. The SSRC filter then drops a packet of another SSRC. The first
  packet after idle calls `OnReceivedPacket`.
* `CheckSSRCChanged`, `CheckPayloadChanged(reset, discard, init_ok)`: the
  two lock sections with their callbacks. The media strategy's answers and
  the decoder callback's result are inputs.
* `UpdateOnPacket(parse_ok, late)`: `ParseRtpPacket` and the final lock
  section. It uses `RetransmitOfOldPacket`, `InOrderPacket` and
  `UpdateStatistics`.
* The RTCP, timer and host operations: `Statistics` (reset=true),
  `PacketTimeout`, `ResetStatistics`, `ResetDataCounters`, `SetNACKStatus`,
  `SetRTXStatus`, `SetSSRCFilter`, `SetPacketTimeout`,
  `RegisterReceivePayload`, `DeRegisterReceivePayload`.

A host callback made just after a lock section is merged into that section's
action. This loses no behaviour: the callbacks change only ghost variables
(`host_ssrc`, `notices`), which no other thread's action touches. The same
argument covers the unlocked `ParseRtpPacket`, which touches no receiver
state and is merged into the final section.

Environment:

* The remote side sends `MaxSent` packets per SSRC. Their payload types and
  lengths are chosen in `Init`. The packets after the first may follow a
  burst of `BurstLoss` packets that never arrive, so a stream can be 255 or
  more past the wrap without a run enumerating every packet in between. It also sends an RTX copy, on the stream's
  RTX SSRC `RtxOf[s]`, of the packets whose index is in `RtxSent`. A copy
  carries the original sequence number (`osn`) and is 2 bytes longer.
* The network hands any sent packet to the receive thread at any time, at
  most `MaxDeliveries` times in total. This covers loss, duplication and
  reordering.
* `Tick` advances a millisecond clock up to `MaxTime`.

Ghost variables:

* `host_ssrc`: the SSRC last passed to the callbacks.
* `notices`: `OnReceivedPacket` calls since the last `OnPacketTimeout`.
* `got`: packets counted since the last `ResetStatistics`.
* `got_reported`: the value of `got` at the last report.
* `mono`: whether the packets in `got` arrived in increasing order.

Each packet carries its extended sequence number `ext`. The wire sequence
number is `ext % 65536`.

Abstractions:

* Timestamps, jitter and the transmission offset are left out. Whether an
  out-of-order packet is a late retransmission depends on them and on the
  RTT. So that outcome (`late`) is an input of `RetransmitOfOldPacket`.
* `last_received_{timestamp,sequence_number,...}_` feed only the media
  strategy and the jitter, so they are left out.
* Unsigned 32-bit counters wrap at 2^30, because TLC's integers are 31-bit.
  The only 32-bit wrap reachable is the underflow of a difference of small
  counters (`ResetDataCounters`). That result lies far above any 16-bit
  expected count under either width, so every comparison the code makes
  comes out the same.

`MC_RtpReceiver.tla` gives the constants:

* SSRCs are model values under symmetry. The code only compares them for
  equality, and both SSRCs get their packets from the same sets. Both
  streams share the one RTX SSRC `r1`, so the permutations stay symmetries.
* Payload types: 0 is audio, 96 is video, 127 is RED.

### `CsrcTracking.tla`

This module models contributing-source (CSRC) tracking.

Variables:

* `num_csrcs`, `current_remote_csrc`, `num_energy` and
  `current_remote_energy` are the members of the same names.
* The arrays have a fixed size, so stale entries past the count are kept,
  as `memcpy` leaves them.
* An energy byte is represented by the packet number and position it came
  from. A byte that `Energy()` did not write is a distinct value.
* The host's `OnIncomingCSRCChanged` calls are two bags, `added` and
  `removed`.

Actions:

* `CheckCSRCLocked(h)`, lines 847–886: the lock section. It covers the
  early return when the media strategy does not report CSRC changes, the
  store of energies and CSRCs, the snapshot of the old list, and the return
  when both lists are empty.
* `CheckCSRCCallbacks`, lines 887–933: the two scans, and the CSRC 0
  sentinel when neither scan called back.
* `Energy`, lines 322–333.
* `Destroy`, lines 107–114.
* `CSRCs`, lines 307–319, is an operator, not an action: it only copies the
  stored list under the lock, so its result is defined in every state,
  including the window between `CheckCSRCLocked` and `CheckCSRCCallbacks`.

`CheckCSRC` runs on the receive thread after `CheckPayloadChanged` has
succeeded. It shares no state with the rest of `RtpReceiver`, so it is
checked on its own. A header is its CSRC list, its number of audio levels,
and the strategy's `ShouldReportCsrcChanges` answer.

### `JitterQ4.tla`

This module models the interarrival-jitter filter of `UpdateStatistics`
(lines 473–523), applied to both `jitter_q4_` and
`jitter_q4_transmission_time_offset_`. It also covers the first-packet
return and the in-order count, the jitter part of `Statistics(reset=true)`,
and both resets.

* A packet is given by the signed 32-bit differences `time_diff_samples`
  and `time_diff_samples_ext` the code computes. `Abs32` is `abs()` with
  its two's-complement edge: `abs(INT32_MIN)` is `INT32_MIN`.
* `<< 4` multiplies by 16, except for `INT32_MIN`, whose bits all shift out
  to 0. `>> 4` is floor division. Every supported compiler shifts signed
  values this way.
* `max_dev`, the largest deviation accepted since the last reset, is a
  ghost variable.
* `MaxDelayMs(j, f, min_rtt)` is the retransmit delay estimate of
  `RetransmitOfOldPacket` (lines 558–578), with the set of values it can
  take. With no RTT it is `ISqrt(4 (j >> 4)) \div f`, floored at 1.
  `ISqrt` is a RECURSIVE bisection. The float operands are exact integers
  below 2^24, and the two float roundings cannot carry the quotient across
  an integer, so the truncation is exact. The sqrt of a negative estimate
  is NaN, and its conversion to int32 is undefined: `INT32_MIN` on x86, 0
  (then floored to 1) on ARM. `RtpReceiver` takes the comparison this
  feeds as its `late` input.

### `ReceiverReport.tla` (abstract)

This module states what the reports promise. Between restarts, the extended
highest sequence number and the cumulative loss never decrease, and
`fraction_lost` is nonzero only when the cumulative loss grew. A restart
(`ResetStatistics`, or an SSRC change) returns to the empty report, and
until the next report there is no last report: the flag `reported` is what
`Statistics(reset=false)` tests (line 1006) before it returns the last
report. `RtpReceiver` instantiates the module with `INSTANCE ... WITH`. The
refinement mapping is `last_report.extended_high_seq_num`,
`last_report.cumulative_lost`, `last_report.fraction_lost`, and
`last_report.inorder_packets # 0` for `reported`. The abstract spec is
checked as the property `ReportRefinement`.

Because a report sets `reported` and only a restart clears it, an all-zero
report after a nonzero one cannot pass as a restart: it must be a `Report`
and so may not move the extended maximum backwards.

`core_stats` does not let the host call `ResetDataCounters`. That call
zeroes `last_report_inorder_packets_` and nothing else (line 966), so
`Statistics(reset=false)` answers "no report" while the last report is still
stored. The abstract spec has no such step. This is the root of the
`reset_counters` finding, seen from the read side.

### Runs

| Run | Expect | Checks | Bounds and why |
|---|---|---|---|
| `core_stats` (`MC_core.cfg`) | pass | `LossNeverOverstated`, `CountersExactOffZero`, `ExtHighNotInflated`, `ReportRefinement` | See below. About 1.3M states under symmetry, 75 s. |
| `host_view` (`MC_host.cfg`) | pass | `TypeOK` | Every host setter interleaved with ingress. Audio, video and RED(audio) payloads per packet, 2 packets per SSRC, 3 deliveries, `ResetDataCounters`, `SetRTXStatus`, `SetSSRCFilter` and `SetPacketTimeout` allowed. About 100 s. |
| `csrc_tracking` (`MC_csrc.cfg`) | pass | `HostViewExact`, `EnergyOfLastHeader` | See below. About 37k states. |
| `jitter_filter` (`MC_jitter.cfg`) | pass | `JitterStepRoundsToNearest`, `JitterBounded`, `RetransmitDelayPerSpec` | See below. About 20k states. |
| `seq_zero` | violation | `StreamCountersExact` | Stream starting at sequence number 0. |
| `reset_counters` | violation | `LossNeverOverstated` | `ResetDataCounters` between reports. |
| `wrap_loss` | violation | `LossExact` | Loss in a report interval that spans the wrap. |
| `ssrc_deregister` | violation | `SsrcConsistent` | Deregistering the bound payload type. |
| `timeout_race` | violation | `ActivityNotified` | Timeout between the unlocked read and the final section. |
| `notice_timeout` (`MC_notice_timeout.cfg`) | violation | `NoticeEventuallyTimedOut` | `FairSpec`; 2 packets per SSRC, 2 deliveries, 1 ms timeout, clock 1..3. |
| `rtx_remap` | violation | `CountedAsSent` | RTX enabled by one host call, 2 packets per SSRC with the second repeated over RTX, 3 deliveries. |
| `late_prewrap` (`MC_late_prewrap.cfg`) | violation | `ExtHighNotInflated` | 2 packets per SSRC, 65535 and, after a burst of 300, 300 past the wrap; 3 deliveries; default threshold 50. |

Bounds of the longer rows:

* `core_stats`:
  * 2 SSRCs × 3 packets starting at 65534, so the stream crosses the wrap.
  * 4 deliveries, enough for loss, duplicates and reordering.
  * 3 RTCP/API calls, enough for three reports, or a deregister, a
    re-register and a report.
  * Clock 1..3 with a 1 ms timeout, so `PacketTimeout` fires between
    ingress stages.
  * NACK may be switched on with the default threshold of 50, which covers
    every reorder distance the 4 deliveries make. With a threshold of 0, a
    reordered packet takes the remote-restart branch and
    `ExtHighNotInflated` fails by 65536 (line 589).
  * `BurstLoss` is 0: the packets are contiguous, so the 0xff window of
    line 598 is never left; `late_prewrap` leaves it.
  * Symmetry of the two SSRCs: they are only compared for equality.
* `csrc_tracking`:
  * CSRC ids {1, 2} in a 2-entry array, 4 headers.
  * The lists are distinct and nonzero, as RFC 3550 mixers send them.
  * Each header has at most one level per CSRC (RFC 6465).
  * The strategy may decline to report.
* `jitter_filter`:
  * Differences {0, 1, -20, 449999, -450000, INT32_MIN}, so both signs,
    both sides of the guard and the `abs()` edge occur. The extended
    differences are {0, 450000}.
  * 6 packets and 2 report/reset calls.
  * Frequencies of 8, 48 and 90 kHz, with no RTT or an RTT of 30 ms. The
    estimates reached range from 0 to about 16 × 449999, so the delay is
    both floored and above 1.

The findings these runs show are listed in `PROJECT.json`:

* Line 462: a stream that starts at sequence number 0 is bootstrapped twice.
* Line 965: `ResetDataCounters` makes the next report claim spurious loss.
* Line 1043: losses in a report interval that crosses the wrap are dropped.
* Line 706: after the bound payload type is deregistered, a new SSRC is
  never adopted.
* Line 371: a race between a late packet and `PacketTimeout` is never
  reported to the host.
* Line 598: once a stream is 255 or more past the wrap, a late packet from
  before it (65535 after 300) is taken as the new maximum with no wrap
  counted. The extended highest sequence number falls from 65836 to 65535,
  and the next report counts 65235 packets from `received_seq_first_` as
  lost. A retransmission or a deep reorder across the wrap is enough.
* Line 394: `OnReceivedPacket` is called before the packet is validated,
  but only the final lock section makes the stream active. In the trace the
  first packet's decoder initialisation fails and the second fails
  `ParseRtpPacket`: the host gets `OnReceivedPacket` twice (spec 6 says once
  per stream) and, since `PacketTimeout` returns while `last_receive_time_`
  is 0, never `OnPacketTimeout`.
* Line 355: an RTX packet takes whatever `ssrc_` holds. Before the first
  media packet that is 0, so the receiver adopts SSRC 0, calls
  `SetRemoteSSRC(0)` and counts the original sequence number under SSRC 0.
  After an SSRC change, a late RTX copy of the old stream is counted as a
  packet of the new one.

Fairness: `FairSpec` adds weak fairness of `Tick`, of `PacketTimeout` and
of the receive thread's stages (`ReceiveThreadFair`).

* The clock advances, and the module's periodic `Process` call runs
  `PacketTimeout` on the timer thread.
* `IncomingRTPPacket` has no suspension point (spec 5): a packet the
  receive thread has started is processed to its end, accepted or dropped.
* Nothing is assumed of the network or the host.
* Only `notice_timeout` uses it. `NoticeEventuallyTimedOut` lets the
  behaviour end with the stream active and its timeout not yet due when the
  clock reaches `MaxTime` (`ClockEndsBeforeTimeout`): that is the clock
  bound, not the code. No passing run checks a liveness property: with the
  receive thread fair, "a stream counted active is eventually timed out"
  follows from the guard and reset of `PacketTimeout` alone.

Deadlock checking is off in every run. Once the bounded network, host calls
and clock are used up, the receiver waits legitimately. `CsrcTracking` ends
for good after its destructor.

## Not modelled (yet)

* Torn reads of the RTX and filter configuration. The unlocked prologue
  reads `rtx_` and then `ssrc_rtx_`, and `use_ssrc_filter_` and then
  `ssrc_filter_`. The model reads each pair at once. By the code, a tear
  of the filter pair can only drop a packet that both configurations admit:
  `SetSSRCFilter(false)` clears `ssrc_filter_` to 0. That is one more lost
  packet of the kind the network already loses.
* RTX copies in a passing run. With `host_view`'s bounds they double the
  state space. So the remap runs only in `rtx_remap`.
* `ProcessDeadOrAlive`: it changes no state. It reads `last_receive_time_`
  without the lock and calls back. Read against spec 4.7 ("alive iff a
  packet arrived within the last 1000 ms"), it reports not alive after
  `PacketTimeout` has cleared `last_receive_time_` within that second (a
  timeout below 1000 ms). It reports alive before the clock reaches
  1000 ms when no packet has arrived. No run's clock comes near 1000 ms, so
  neither case is checked.
* `Energy()` with more audio levels than CSRCs (line 330). `Energy()`
  copies `num_csrcs_` bytes but returns `num_energy_`, so the caller reads
  bytes it never received. `csrc_tracking` keeps headers with no more
  levels than CSRCs, where `EnergyOfLastHeader` holds; no run keeps the
  others.
* The window in which `CSRCs()` already returns a list whose callbacks
  `CheckCSRCCallbacks` has still to make. The callbacks run outside the
  lock by design (spec 5); `HostViewExact` checks the host's view once they
  are done.
* Repeated CSRCs in one list. The code's own comment (lines 924–926) says
  it signals them with CSRC 0, which is not interop safe. `csrc_tracking`
  uses distinct lists, as RFC 3550 mixers send them.
* `Statistics(reset=false)`, `RTXStatus()`, `SSRCFilter()` and
  the other read-only accessors.
* A zero `frequency_khz`. It needs a payload registered below 1000 Hz by a
  media strategy outside src, and it divides by zero at line 556 before the
  delay estimate.
* The u32 subtraction of arrival and RTP times that yields a jitter
  difference. The model uses the int32 values it can take.
* Header-extension registration, which forwards to a map outside src.
* The bitrate meter, which is outside src.
* `src/test/channel_transport/traffic_control_win.h`, which only declares
  Windows API wrappers.

Not checked here: spec 8.3 says `jitter_q4` converges to 0 within 64
perfectly spaced packets. The filter step leaves any value in 1..8
unchanged for a zero deviation, so only the reported `jitter_q4 >> 4`
reaches 0.

## Plan

Done:

* `RtpReceiver`: ingress with RTX remapping and the SSRC filter,
  statistics, reports, timeout, API, and the liveness of the timeout callback.
* `CsrcTracking`.
* `JitterQ4`, with the retransmit delay estimate.
* `ReceiverReport` with its refinement.

Remaining:

1. `ProcessDeadOrAlive` against spec 4.7, in a run whose clock reaches
   1000 ms (see "Not modelled").
