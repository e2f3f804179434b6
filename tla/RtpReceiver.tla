---------------------------- MODULE RtpReceiver ----------------------------
(***************************************************************************)
(* The receive side of RTPReceiver (rtp_receiver.cc): the ingress path    *)
(* IncomingRTPPacket run by the receive thread as the sequence of         *)
(* critical sections it really takes, the RTCP thread's Statistics(reset) *)
(* report, the timer thread's PacketTimeout, and the host's API calls,    *)
(* all sharing one receiver state.  A remote sender and a network that    *)
(* loses, duplicates and reorders packets drive the receive thread.       *)
(*                                                                         *)
(* Data abstraction: timestamps, jitter and the transmission offset are   *)
(* left out (module JitterQ4 plans them); whether an out-of-order packet  *)
(* is a late retransmission depends on the clock, the RTT and the jitter, *)
(* so RetransmitOfOldPacket's timing comparison is an input.              *)
(***************************************************************************)
EXTENDS Integers, FiniteSets, FiniteSetsExt

CONSTANTS
  Ssrcs,            \* nonzero SSRCs the remote side may use
  StartExts,        \* extended sequence numbers a stream may start at
  MaxSent,          \* packets the sender sends per SSRC
  MaxDeliveries,    \* packets the network hands to the receive thread
  Payloads,         \* <<payload type, inner RED payload type>> the sender uses
  BodyLens,         \* payload body lengths the sender uses
  PayloadTypes,     \* payload types known to the registry
  RedPt,            \* the payload type registered as RED
  PayloadKind,      \* [PayloadTypes -> {"audio", "video", "fec"}]
  Thresholds,       \* max_reordering_threshold values the host may set
  PacketTimeoutMs,  \* the timeout the host sets with SetPacketTimeout (0 disables)
  MaxTime,          \* bound on the millisecond clock
  ApiCalls,         \* which host API calls the host makes
  MaxCalls,         \* Statistics and API calls the RTCP thread and host make
  RtxSsrcs,         \* SSRCs the sender uses for RTX retransmissions
  RtxOf,            \* [Ssrcs -> RtxSsrcs]: the RTX SSRC of each media SSRC
  RtxSent,          \* indexes of each stream's packets the sender repeats over RTX
  BurstLoss         \* packets of each stream lost in one burst after its first

ASSUME RedPt \in PayloadTypes /\ PacketTimeoutMs \in Nat /\ MaxTime \in Nat
ASSUME BurstLoss \in Nat
ASSUME \A pl \in Payloads : pl[1] \in PayloadTypes /\ pl[2] \in PayloadTypes

U16 == 65536
\* WebRtc_UWord32 arithmetic.  TLC's integers stop below 2^31, so unsigned
\* 32-bit counters wrap at 2^30 here: a wrapped difference of small
\* counters (the only wrap reachable) stays far above any 16-bit expected
\* count, so every comparison the code makes comes out as with 2^32.
U32 == 2^30
kDefaultMaxReorderingThreshold == 50
NoPayloadType == -1
Seq(p) == p.ext % U16   \* the 16-bit sequence number on the wire
NoOsn == -1             \* osn of a media packet (no RTX payload header)

VARIABLES
  ssrc,                 \* ssrc_
  registered,           \* payload types in the RTPPayloadRegistry
  last_pt,              \* registry last_received_payload_type
  last_media_pt,        \* registry last_received_media_payload_type
  st,                   \* received_* counters and cumulative_loss_
  last_report,          \* last_report_* snapshot
  last_receive_time,    \* last_receive_time_ (0: no packet since timeout)
  nack_method,          \* nack_method_
  max_reordering_threshold,
  now,                  \* clock_->TimeInMilliseconds()
  rx,                   \* receive thread: stage of IncomingRTPPacket
  sent, deliveries,     \* packets the remote side sent, and deliveries so far
  calls,                \* Statistics and API calls made so far
  host_ssrc,            \* SSRC last given to SetRemoteSSRC/OnIncomingSSRCChanged
  notices,              \* OnReceivedPacket calls since the last OnPacketTimeout
  got, got_reported,    \* packets counted since ResetStatistics / at the last report
  mono,                 \* counted packets arrived in increasing ext order
  rtx, ssrc_rtx,        \* rtx_, ssrc_rtx_
  use_ssrc_filter, ssrc_filter, \* use_ssrc_filter_, ssrc_filter_
  packet_timeout_ms             \* packet_timeout_ms_

vars == <<ssrc, registered, last_pt, last_media_pt, st, last_report,
          last_receive_time, nack_method, max_reordering_threshold, now, rx,
          sent, deliveries, calls, host_ssrc, notices, got, got_reported, mono,
          rtx, ssrc_rtx, use_ssrc_filter, ssrc_filter, packet_timeout_ms>>
config == <<rtx, ssrc_rtx, use_ssrc_filter, ssrc_filter, packet_timeout_ms>>

ZeroStats == [seq_first |-> 0, seq_max |-> 0, seq_wraps |-> 0, inorder |-> 0,
              old |-> 0, bytes |-> 0, cumulative_loss |-> 0]
ZeroReport == [inorder_packets |-> 0, old_packets |-> 0, seq_max |-> 0,
               fraction_lost |-> 0, cumulative_lost |-> 0, extended_high_seq_num |-> 0]

Packets == [ssrc : Ssrcs \cup RtxSsrcs \cup {0}, ext : Nat, pt : PayloadTypes,
            inner : PayloadTypes, len : Nat, osn : Nat \cup {NoOsn}]
Stages == {"idle", "ssrc", "payload", "stats"}

TypeOK ==
  /\ ssrc \in Ssrcs \cup RtxSsrcs \cup {0}
  /\ registered \subseteq PayloadTypes /\ RedPt \in registered
  /\ last_pt \in PayloadTypes \cup {NoPayloadType}
  /\ last_media_pt \in PayloadTypes \cup {NoPayloadType}
  /\ st.seq_first \in 0..U16-1 /\ st.seq_max \in 0..U16-1
  /\ {st.seq_wraps, st.inorder, st.old, st.bytes, st.cumulative_loss} \subseteq 0..U32-1
  /\ last_report.fraction_lost \in 0..255 /\ last_report.seq_max \in 0..U16-1
  /\ last_receive_time \in 0..MaxTime /\ now \in 1..MaxTime
  /\ nack_method \in {"off", "rtcp"}
  /\ rx.pc \in Stages /\ (rx.pc # "idle" => rx.pkt \in Packets)
  /\ sent \subseteq Packets /\ host_ssrc \in Ssrcs \cup RtxSsrcs \cup {0}
  /\ got \subseteq Packets /\ got_reported \subseteq got
  /\ rtx \in BOOLEAN /\ ssrc_rtx \in RtxSsrcs \cup {0}
  /\ use_ssrc_filter \in BOOLEAN /\ ssrc_filter \in Ssrcs \cup {0}
  /\ packet_timeout_ms \in {0, PacketTimeoutMs}

Init ==
  /\ ssrc = 0
  /\ registered = PayloadTypes
  /\ last_pt = NoPayloadType /\ last_media_pt = NoPayloadType
  /\ st = ZeroStats /\ last_report = ZeroReport
  /\ last_receive_time = 0
  /\ nack_method = "off" /\ max_reordering_threshold = kDefaultMaxReorderingThreshold
  /\ now = 1
  /\ rx = [pc |-> "idle", pkt |-> 0]
  /\ \E e0 \in [Ssrcs -> StartExts],
        pl \in [Ssrcs \X (0..MaxSent-1) -> Payloads],
        len \in [Ssrcs \X (0..MaxSent-1) -> BodyLens] :
        LET \* the i-th packet that gets through the burst
            ext(s, i) == e0[s] + i + (IF i > 0 THEN BurstLoss ELSE 0)
            media(s, i) == [ssrc |-> s, ext |-> ext(s, i), pt |-> pl[s, i][1],
                            inner |-> pl[s, i][2], len |-> len[s, i], osn |-> NoOsn]
            \* an RTX copy: the original sequence number in 2 payload bytes
            copy(s, i) == [media(s, i) EXCEPT !.ssrc = RtxOf[s],
                                              !.len = @ + 2, !.osn = ext(s, i)]
        IN sent = {media(s, i) : s \in Ssrcs, i \in 0..MaxSent-1}
                  \cup {copy(s, i) : s \in Ssrcs, i \in RtxSent}
  /\ deliveries = 0 /\ calls = 0
  /\ host_ssrc = 0 /\ notices = 0
  /\ got = {} /\ got_reported = {} /\ mono = TRUE
  /\ rtx = FALSE /\ ssrc_rtx = 0
  /\ use_ssrc_filter = FALSE /\ ssrc_filter = 0
  \* the host's SetPacketTimeout before the first packet
  /\ packet_timeout_ms = PacketTimeoutMs

-----------------------------------------------------------------------------
(* Remote sender, network and clock.  The sender's packets are fixed in   *)
(* Init: the network may deliver any of them at any time, any number of   *)
(* times, or never, so when each was sent adds no behaviour.              *)

Tick ==
  /\ now < MaxTime /\ now' = now + 1
  /\ UNCHANGED <<config, ssrc, registered, last_pt, last_media_pt, st, last_report,
                 last_receive_time, nack_method, max_reordering_threshold,
                 rx, sent, deliveries, calls, host_ssrc, notices, got, got_reported, mono>>

-----------------------------------------------------------------------------
(* Helpers of the receiver.                                                *)

\* Faulty variant for mutation runs: no wrap check for a sequence number
\* above received_seq_max_.
InOrderPacketNoBackWrap(seq) ==
  IF st.seq_max >= seq
  THEN \/ st.seq_max > 65280 /\ seq < 255
       \/ st.seq_max - max_reordering_threshold > seq
  ELSE TRUE

\* InOrderPacket: does sequence_number advance received_seq_max_?
InOrderPacket(seq) ==
  IF st.seq_max >= seq
  THEN \/ st.seq_max > 65280 /\ seq < 255
       \/ st.seq_max - max_reordering_threshold > seq
  ELSE \/ ~(seq > 65280 /\ st.seq_max < 255)
       \/ st.seq_max - max_reordering_threshold > seq

\* RetransmitOfOldPacket: an out-of-order packet is an old retransmission
\* when it arrives later than its timestamp and max_delay_ms allow; late
\* is the outcome of that timing comparison.
RetransmitOfOldPacket(seq, late) ==
  ~InOrderPacket(seq) /\ late

\* Faulty variant for mutation runs: seq_diff taken as an unsigned 16-bit
\* difference, so a wrap is never counted.
UpdateStatisticsUnsignedDiff(p, old_packet) ==
  LET s == [st EXCEPT !.bytes = (@ + p.len) % U32]
  IN IF st.seq_max = 0 /\ st.seq_wraps = 0
     THEN [s EXCEPT !.seq_first = Seq(p), !.seq_max = Seq(p), !.inorder = 1]
     ELSE IF InOrderPacket(Seq(p))
     THEN [s EXCEPT !.inorder = (@ + 1) % U32,
                    !.seq_wraps = IF (Seq(p) - st.seq_max) % U16 < 0 THEN (@ + 1) % U32 ELSE @,
                    !.seq_max = Seq(p)]
     ELSE IF old_packet THEN [s EXCEPT !.old = (@ + 1) % U32]
     ELSE [s EXCEPT !.inorder = (@ + 1) % U32]

\* UpdateStatistics, with old_packet the result of RetransmitOfOldPacket.
UpdateStatistics(p, old_packet) ==
  LET s == [st EXCEPT !.bytes = (@ + p.len) % U32]
  IN IF st.seq_max = 0 /\ st.seq_wraps = 0
     THEN [s EXCEPT !.seq_first = Seq(p), !.seq_max = Seq(p), !.inorder = 1]
     ELSE IF InOrderPacket(Seq(p))
     THEN [s EXCEPT !.inorder = (@ + 1) % U32,
                    !.seq_wraps = IF Seq(p) - st.seq_max < 0 THEN (@ + 1) % U32 ELSE @,
                    !.seq_max = Seq(p)]
     ELSE IF old_packet THEN [s EXCEPT !.old = (@ + 1) % U32]
     ELSE [s EXCEPT !.inorder = (@ + 1) % U32]

\* Faulty variants for mutation runs: the first report measured from
\* last_report_seq_max_ = 0 rather than received_seq_first_ - 1, and
\* missing left unclamped when more packets arrived than were expected.
ReportOfNoFirstBase(s, lr) ==
  LET exp_since_last == IF lr.seq_max > s.seq_max THEN 0 ELSE (s.seq_max - lr.seq_max) % U16
      rec_since_last ==
        IF nack_method = "off"
        THEN (((s.inorder - lr.inorder_packets) % U32) + ((s.old - lr.old_packets) % U32)) % U32
        ELSE (s.inorder - lr.inorder_packets) % U32
      missing == IF exp_since_last > rec_since_last THEN exp_since_last - rec_since_last ELSE 0
  IN [missing |-> missing,
      fraction_lost |-> IF exp_since_last # 0 THEN (255 * missing) \div exp_since_last ELSE 0]
ReportOfUnclamped(s, lr) ==
  LET lr_seq_max == IF lr.inorder_packets = 0 THEN (s.seq_first - 1) % U16 ELSE lr.seq_max
      exp_since_last == IF lr_seq_max > s.seq_max THEN 0 ELSE (s.seq_max - lr_seq_max) % U16
      rec_since_last ==
        IF nack_method = "off"
        THEN (((s.inorder - lr.inorder_packets) % U32) + ((s.old - lr.old_packets) % U32)) % U32
        ELSE (s.inorder - lr.inorder_packets) % U32
      missing == exp_since_last - rec_since_last
  IN [missing |-> missing,
      fraction_lost |-> IF exp_since_last # 0 THEN (255 * missing) \div exp_since_last ELSE 0]

\* Statistics(reset = true): the report computed from st and last_report.
ReportOf(s, lr) ==
  LET lr_seq_max == IF lr.inorder_packets = 0 THEN (s.seq_first - 1) % U16 ELSE lr.seq_max
      exp_since_last == IF lr_seq_max > s.seq_max THEN 0 ELSE (s.seq_max - lr_seq_max) % U16
      rec_since_last ==
        IF nack_method = "off"
        THEN (((s.inorder - lr.inorder_packets) % U32) + ((s.old - lr.old_packets) % U32)) % U32
        ELSE (s.inorder - lr.inorder_packets) % U32
      missing == IF exp_since_last > rec_since_last THEN exp_since_last - rec_since_last ELSE 0
  IN [missing |-> missing,
      fraction_lost |-> IF exp_since_last # 0 THEN (255 * missing) \div exp_since_last ELSE 0]

-----------------------------------------------------------------------------
(* Receive thread: IncomingRTPPacket.                                      *)

(***************************************************************************)
(* Lines before CheckSSRCChanged, all without the lock: a packet on the   *)
(* RTX SSRC gets ssrc_ as its SSRC and the sequence number from its first *)
(* two payload bytes (or is dropped when it has no room for them); the    *)
(* SSRC filter drops a packet of any other SSRC; the first packet after   *)
(* idle calls OnReceivedPacket.  Only the receive thread writes ssrc_,    *)
(* and the host's setters are actions of their own, so each read sees the *)
(* value of the last setter call.                                          *)
(***************************************************************************)
IncomingRTPPacket(p) ==
  LET remap == rtx /\ ssrc_rtx = p.ssrc
      h == IF remap THEN [p EXCEPT !.ssrc = ssrc, !.ext = p.osn,
                                   !.len = @ - 2, !.osn = NoOsn]
           ELSE p
      drop == \/ remap /\ p.len < 2
              \/ use_ssrc_filter /\ h.ssrc # ssrc_filter
  IN
  /\ rx.pc = "idle" /\ deliveries < MaxDeliveries
  /\ deliveries' = deliveries + 1
  /\ IF drop THEN UNCHANGED <<rx, notices>>
     ELSE /\ rx' = [pc |-> "ssrc", pkt |-> h]
          /\ notices' = IF last_receive_time = 0 THEN notices + 1 ELSE notices
  /\ UNCHANGED <<config, ssrc, registered, last_pt, last_media_pt, st, last_report,
                 last_receive_time, nack_method, max_reordering_threshold, now,
                 sent, calls, host_ssrc, got, got_reported, mono>>

\* CheckSSRCChanged: critical section, then SetRemoteSSRC and
\* OnIncomingSSRCChanged outside it.
CheckSSRCChanged ==
  LET p == rx.pkt
      new_ssrc == ssrc # p.ssrc \/ (last_pt = NoPayloadType /\ ssrc = 0)
      \* PayloadTypeToPayload fails: the early return skips ssrc_ = and callbacks
      bail == ssrc # 0 /\ p.pt = last_pt /\ p.pt \notin registered
  IN /\ rx.pc = "ssrc"
     /\ rx' = [rx EXCEPT !.pc = "payload"]
     /\ IF new_ssrc
        THEN /\ st' = ZeroStats /\ last_report' = ZeroReport
             /\ got' = {} /\ got_reported' = {} /\ mono' = TRUE
             /\ ssrc' = IF bail THEN ssrc ELSE p.ssrc
             /\ host_ssrc' = IF bail THEN host_ssrc ELSE p.ssrc
        ELSE UNCHANGED <<st, last_report, got, got_reported, mono, ssrc, host_ssrc>>
     /\ UNCHANGED <<config, registered, last_pt, last_media_pt, last_receive_time,
                    nack_method, max_reordering_threshold, now, sent,
                    deliveries, calls, notices>>

\* CheckPayloadChanged, with InvokeOnInitializeDecoder after the critical
\* section. reset/discard are the media strategy's CheckPayloadChanged
\* answers, init_ok the decoder callback's.  A result of -1 drops the packet.
CheckPayloadChanged(reset, discard, init_ok) ==
  LET p == rx.pkt
      changed == p.pt # last_pt
      red == changed /\ p.pt = RedPt
      pt == IF red THEN p.inner ELSE p.pt
      nested_red == red /\ pt = RedPt
      red_same == red /\ ~nested_red /\ pt = last_pt
      consult == changed /\ ~nested_red /\ ~red_same
      unknown == consult /\ ~discard /\ pt \notin registered
      bind == consult /\ ~discard /\ ~unknown
      media_unchanged == last_media_pt = pt
      reinit == /\ bind
                /\ \/ PayloadKind[pt] = "audio"
                   \/ PayloadKind[pt] = "video" /\ ~media_unchanged
      do_reset == (consult /\ reset) \/ reinit
      fail == nested_red \/ unknown \/ (reinit /\ ~init_ok)
  IN /\ rx.pc = "payload"
     /\ consult \/ (~reset /\ ~discard)
     /\ reinit \/ init_ok
     /\ rx' = [rx EXCEPT !.pc = IF fail THEN "idle" ELSE "stats"]
     /\ last_pt' = IF bind THEN pt ELSE last_pt
     /\ last_media_pt' = IF bind /\ PayloadKind[pt] = "video" THEN pt ELSE last_media_pt
     /\ IF do_reset
        THEN /\ st' = ZeroStats /\ last_report' = ZeroReport
             /\ got' = {} /\ got_reported' = {} /\ mono' = TRUE
        ELSE UNCHANGED <<st, last_report, got, got_reported, mono>>
     /\ UNCHANGED <<config, ssrc, registered, last_receive_time, nack_method,
                    max_reordering_threshold, now, sent, deliveries, calls,
                    host_ssrc, notices>>

\* ParseRtpPacket (unlocked; parse_ok is its result), then the final
\* critical section: RetransmitOfOldPacket, UpdateStatistics and
\* last_receive_time_.  late is RetransmitOfOldPacket's timing comparison.
UpdateOnPacket(parse_ok, late) ==
  LET p == rx.pkt
      old_packet == RetransmitOfOldPacket(Seq(p), late)
  IN /\ rx.pc = "stats"
     /\ (parse_ok \/ ~late)
     /\ rx' = [rx EXCEPT !.pc = "idle"]
     /\ IF parse_ok
        THEN /\ st' = UpdateStatistics(p, old_packet)
             /\ last_receive_time' = now
             /\ got' = got \cup {p}
             /\ mono' = (mono /\ \A q \in got : q.ext < p.ext)
        ELSE UNCHANGED <<st, last_receive_time, got, mono>>
     /\ UNCHANGED <<config, ssrc, registered, last_pt, last_media_pt, last_report,
                    nack_method, max_reordering_threshold, now, sent,
                    deliveries, calls, host_ssrc, notices, got_reported>>

-----------------------------------------------------------------------------
(* RTCP thread, timer thread and host API.                                 *)

StatisticsStaleCumulative ==
  LET r == ReportOf(st, last_report)
      cum == (st.cumulative_loss + r.missing) % U32
  IN /\ calls < MaxCalls /\ calls' = calls + 1
     /\ ~(st.seq_first = 0 /\ st.bytes = 0)
     /\ st' = [st EXCEPT !.cumulative_loss = cum]
     /\ last_report' = [inorder_packets |-> st.inorder, old_packets |-> st.old,
                        seq_max |-> st.seq_max, fraction_lost |-> r.fraction_lost,
                        cumulative_lost |-> st.cumulative_loss,
                        extended_high_seq_num |-> (st.seq_wraps * U16 + st.seq_max) % U32]
     /\ got_reported' = got
     /\ UNCHANGED <<config, ssrc, registered, last_pt, last_media_pt, last_receive_time,
                    nack_method, max_reordering_threshold, now, rx, sent,
                    deliveries, host_ssrc, notices, got, mono>>

\* Statistics(..., reset = true), called when an RTCP report is built.
Statistics ==
  LET r == ReportOf(st, last_report)
      cum == (st.cumulative_loss + r.missing) % U32
  IN /\ calls < MaxCalls /\ calls' = calls + 1
     /\ ~(st.seq_first = 0 /\ st.bytes = 0)
     /\ st' = [st EXCEPT !.cumulative_loss = cum]
     /\ last_report' = [inorder_packets |-> st.inorder, old_packets |-> st.old,
                        seq_max |-> st.seq_max, fraction_lost |-> r.fraction_lost,
                        cumulative_lost |-> cum,
                        extended_high_seq_num |-> (st.seq_wraps * U16 + st.seq_max) % U32]
     /\ got_reported' = got
     /\ UNCHANGED <<config, ssrc, registered, last_pt, last_media_pt, last_receive_time,
                    nack_method, max_reordering_threshold, now, rx, sent,
                    deliveries, host_ssrc, notices, got, mono>>

\* PacketTimeout, with OnPacketTimeout after the critical section.
PacketTimeout ==
  /\ packet_timeout_ms # 0 /\ last_receive_time # 0
  /\ now - last_receive_time > packet_timeout_ms
  /\ last_receive_time' = 0
  /\ last_pt' = NoPayloadType /\ last_media_pt' = NoPayloadType
  /\ notices' = 0
  /\ UNCHANGED <<config, ssrc, registered, st, last_report, nack_method,
                 max_reordering_threshold, now, rx, sent, deliveries, calls,
                 host_ssrc, got, got_reported, mono>>

ResetStatistics ==
  /\ calls < MaxCalls /\ calls' = calls + 1
  /\ "ResetStatistics" \in ApiCalls
  /\ st' = ZeroStats /\ last_report' = ZeroReport
  /\ got' = {} /\ got_reported' = {} /\ mono' = TRUE
  /\ UNCHANGED <<config, ssrc, registered, last_pt, last_media_pt, last_receive_time,
                 nack_method, max_reordering_threshold, now, rx, sent,
                 deliveries, host_ssrc, notices>>

ResetDataCounters ==
  /\ calls < MaxCalls /\ calls' = calls + 1
  /\ "ResetDataCounters" \in ApiCalls
  /\ st' = [st EXCEPT !.bytes = 0, !.old = 0, !.inorder = 0]
  /\ last_report' = [last_report EXCEPT !.inorder_packets = 0]
  /\ UNCHANGED <<config, ssrc, registered, last_pt, last_media_pt, last_receive_time,
                 nack_method, max_reordering_threshold, now, rx, sent,
                 deliveries, host_ssrc, notices, got, got_reported, mono>>

SetNACKStatus(method, threshold) ==
  /\ calls < MaxCalls /\ calls' = calls + 1
  /\ "SetNACKStatus" \in ApiCalls
  /\ nack_method' = method
  /\ max_reordering_threshold' =
       IF method = "rtcp" THEN threshold ELSE kDefaultMaxReorderingThreshold
  /\ UNCHANGED <<config, ssrc, registered, last_pt, last_media_pt, st, last_report,
                 last_receive_time, now, rx, sent, deliveries, host_ssrc,
                 notices, got, got_reported, mono>>

RegisterReceivePayload(pt) ==
  /\ calls < MaxCalls /\ calls' = calls + 1
  /\ "RegisterReceivePayload" \in ApiCalls /\ pt \notin registered
  /\ registered' = registered \cup {pt}
  /\ UNCHANGED <<config, ssrc, last_pt, last_media_pt, st, last_report,
                 last_receive_time, nack_method, max_reordering_threshold, now,
                 rx, sent, deliveries, host_ssrc, notices, got, got_reported, mono>>

DeRegisterReceivePayload(pt) ==
  /\ calls < MaxCalls /\ calls' = calls + 1
  /\ "DeRegisterReceivePayload" \in ApiCalls /\ pt \in registered /\ pt # RedPt
  /\ registered' = registered \ {pt}
  /\ UNCHANGED <<config, ssrc, last_pt, last_media_pt, st, last_report,
                 last_receive_time, nack_method, max_reordering_threshold, now,
                 rx, sent, deliveries, host_ssrc, notices, got, got_reported, mono>>

SetRTXStatus(enable, s) ==
  /\ calls < MaxCalls /\ calls' = calls + 1
  /\ "SetRTXStatus" \in ApiCalls
  /\ rtx' = enable /\ ssrc_rtx' = s
  /\ UNCHANGED <<ssrc, registered, last_pt, last_media_pt, st, last_report,
                 last_receive_time, nack_method, max_reordering_threshold, now,
                 rx, sent, deliveries, host_ssrc, notices, got, got_reported,
                 mono, use_ssrc_filter, ssrc_filter, packet_timeout_ms>>

SetSSRCFilter(enable, s) ==
  /\ calls < MaxCalls /\ calls' = calls + 1
  /\ "SetSSRCFilter" \in ApiCalls
  /\ use_ssrc_filter' = enable
  /\ ssrc_filter' = IF enable THEN s ELSE 0
  /\ UNCHANGED <<ssrc, registered, last_pt, last_media_pt, st, last_report,
                 last_receive_time, nack_method, max_reordering_threshold, now,
                 rx, sent, deliveries, host_ssrc, notices, got, got_reported,
                 mono, rtx, ssrc_rtx, packet_timeout_ms>>

SetPacketTimeout(timeout_ms) ==
  /\ calls < MaxCalls /\ calls' = calls + 1
  /\ "SetPacketTimeout" \in ApiCalls
  /\ packet_timeout_ms' = timeout_ms
  /\ UNCHANGED <<ssrc, registered, last_pt, last_media_pt, st, last_report,
                 last_receive_time, nack_method, max_reordering_threshold, now,
                 rx, sent, deliveries, host_ssrc, notices, got, got_reported,
                 mono, rtx, ssrc_rtx, use_ssrc_filter, ssrc_filter>>

-----------------------------------------------------------------------------

Next ==
  \/ Tick
  \/ \E p \in sent : IncomingRTPPacket(p)
  \/ CheckSSRCChanged
  \/ \E reset, discard, init_ok \in BOOLEAN : CheckPayloadChanged(reset, discard, init_ok)
  \/ \E parse_ok, late \in BOOLEAN : UpdateOnPacket(parse_ok, late)
  \/ Statistics
  \/ PacketTimeout
  \/ ResetStatistics
  \/ ResetDataCounters
  \/ \E m \in {"off", "rtcp"}, t \in Thresholds : SetNACKStatus(m, t)
  \/ \E pt \in PayloadTypes : RegisterReceivePayload(pt)
  \/ \E pt \in PayloadTypes : DeRegisterReceivePayload(pt)
  \/ \E e \in BOOLEAN, s \in RtxSsrcs : SetRTXStatus(e, s)
  \/ \E e \in BOOLEAN, s \in Ssrcs : SetSSRCFilter(e, s)
  \/ \E t \in {0, PacketTimeoutMs} : SetPacketTimeout(t)

Spec == Init /\ [][Next]_vars

(***************************************************************************)
(* The clock advances; the timer thread's periodic Process call runs      *)
(* PacketTimeout whenever it is enabled; and the receive thread, which    *)
(* runs IncomingRTPPacket to completion with no suspension point (spec 5),*)
(* finishes the packet it has started.  Neither the network nor the host  *)
(* is assumed to do anything.                                              *)
(***************************************************************************)
ReceiveThreadFair ==
  /\ WF_vars(CheckSSRCChanged)
  /\ WF_vars(\E reset, discard, init_ok \in BOOLEAN : CheckPayloadChanged(reset, discard, init_ok))
  /\ WF_vars(\E parse_ok, late \in BOOLEAN : UpdateOnPacket(parse_ok, late))

FairSpec == Spec /\ WF_vars(Tick) /\ WF_vars(PacketTimeout) /\ ReceiveThreadFair

-----------------------------------------------------------------------------
(* Properties.                                                             *)

\* Packets missing from the extended range of a set of counted packets.
Exts(S) == {q.ext : q \in S}
TrueLoss(S) ==
  IF S = {} THEN 0 ELSE Cardinality((Min(Exts(S))..Max(Exts(S))) \ Exts(S))

\* The extended highest sequence number the receiver reports.
ReceiverExtended == st.seq_wraps * U16 + st.seq_max

\* Statistics never reports more cumulative loss than packets really
\* missing, as long as the counted packets arrived in order: the per-report
\* expected/received differences of Statistics(reset) and the first-report
\* base seq_first - 1 add up to no more than the gaps in what was counted.
LossNeverOverstated ==
  mono => st.cumulative_loss <= TrueLoss(got_reported)

\* With in-order arrival, Statistics reports exactly the missing packets
\* (RFC 3550 cumulative loss), also when a report interval spans the
\* 16-bit wrap of the sequence number.
LossExact ==
  mono => st.cumulative_loss = TrueLoss(got_reported)

\* Spec 8.1: after in-order packets UpdateStatistics has counted each one
\* (received_inorder_packet_count_) and the extended highest sequence
\* number spans exactly the counted range from received_seq_first_.
StreamCountersExact ==
  mono /\ got # {} =>
    /\ st.inorder = Cardinality(got)
    /\ ReceiverExtended - st.seq_first = Max(Exts(got)) - Min(Exts(got))

\* StreamCountersExact for every epoch whose first counted packet does not
\* carry sequence number 0 (UpdateStatistics takes seq_max_ = 0 with no
\* wraps to mean "nothing received yet").
CountersExactOffZero ==
  mono /\ got # {} /\ Min(Exts(got)) % U16 # 0 =>
    /\ st.inorder = Cardinality(got)
    /\ ReceiverExtended - st.seq_first = Max(Exts(got)) - Min(Exts(got))

(***************************************************************************)
(* With duplicates and reordering, InOrderPacket's wrap windows keep the  *)
(* extended highest sequence number within the packets counted: a late    *)
(* packet from before the 16-bit wrap is never taken as a new maximum and *)
(* a packet after it never counts a second wrap (epochs starting at       *)
(* sequence number 0 excepted, as in CountersExactOffZero).               *)
(***************************************************************************)
ExtHighNotInflated ==
  got # {} /\ Min(Exts(got)) % U16 # 0 =>
    ReceiverExtended - st.seq_first <= Max(Exts(got)) - Min(Exts(got))

\* Between packets, the statistics the RTCP sender reports for ssrc_ are
\* of packets from ssrc_ only, and ssrc_ is the SSRC the RTCP sender and
\* the host were last told (SetRemoteSSRC, OnIncomingSSRCChanged) by
\* CheckSSRCChanged.
SsrcConsistent ==
  rx.pc = "idle" => /\ host_ssrc = ssrc
                    /\ \A q \in got : q.ssrc = ssrc

\* While the receiver counts itself active (last_receive_time_ # 0) the
\* host has had an OnReceivedPacket since the last OnPacketTimeout.
ActivityNotified ==
  rx.pc = "idle" /\ last_receive_time # 0 => notices >= 1

(***************************************************************************)
(* Spec 6: an RTX packet is demultiplexed to the packet it repeats, so    *)
(* every packet UpdateStatistics counts is one the sender sent on that   *)
(* media SSRC with that sequence number.                                  *)
(***************************************************************************)
CountedAsSent == got \subseteq sent

\* The clock bound, not the code, ends the behaviour while the receiver
\* counts the stream active but its timeout is not yet due.
ClockEndsBeforeTimeout ==
  /\ now = MaxTime /\ last_receive_time # 0
  /\ now - last_receive_time <= packet_timeout_ms

(***************************************************************************)
(* Spec 4.7 and 6: a host told by OnReceivedPacket that a stream started  *)
(* is, once the stream falls silent, told by OnPacketTimeout that it      *)
(* stopped, as long as a packet timeout is configured.  OnReceivedPacket  *)
(* is called before CheckSSRCChanged and CheckPayloadChanged validate the *)
(* packet, while only UpdateOnPacket's final lock section makes the       *)
(* stream active (last_receive_time_) for PacketTimeout.                  *)
(***************************************************************************)
NoticeEventuallyTimedOut ==
  packet_timeout_ms # 0 /\ notices >= 1
    ~> \/ notices = 0
       \/ packet_timeout_ms = 0
       \/ ClockEndsBeforeTimeout

(***************************************************************************)
(* The report snapshot Statistics(reset = true) stores implements the      *)
(* abstract ReceiverReport: every change of the reported extended highest *)
(* sequence number, cumulative loss and fraction lost is a report that    *)
(* moves neither number backwards, or a reset to the empty report by      *)
(* ResetStatistics or an SSRC change; and Statistics(reset = false) has a *)
(* last report to return exactly from a report to the next restart.      *)
(***************************************************************************)
Abstract == INSTANCE ReceiverReport WITH
    ext_high <- last_report.extended_high_seq_num,
    cum_lost <- last_report.cumulative_lost,
    fraction_lost <- last_report.fraction_lost,
    \* Statistics(reset = false) answers "no report" while this is 0
    reported <- last_report.inorder_packets # 0

ReportRefinement == Abstract!Spec

=============================================================================
