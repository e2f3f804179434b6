---------------------------- MODULE CsrcTracking ----------------------------
(***************************************************************************)
(* Contributing-source (CSRC) tracking of RTPReceiver                      *)
(* (src/modules/rtp_rtcp/source/rtp_receiver.cc): the lock section of     *)
(* CheckCSRC that snapshots the old CSRC list and stores the new one, the *)
(* unlocked symmetric-difference scan that calls OnIncomingCSRCChanged,   *)
(* the Energy() accessor and the destructor's removal callbacks.           *)
(*                                                                         *)
(* CheckCSRC runs on the receive thread only; Energy() may run on any     *)
(* thread under the lock, so it may fall between the lock section and the *)
(* callbacks.  The host's view of the callbacks is kept as two bags.      *)
(***************************************************************************)
EXTENDS Integers, Sequences, SequencesExt, Bags

CONSTANTS
    CsrcIds,       \* nonzero CSRC values a peer may send
    kRtpCsrcSize,  \* capacity of current_remote_csrc_ (15 in the code)
    Headers,       \* parsed headers: [csrcs, num_energy, report]
    MaxPackets     \* bound on packets handed to CheckCSRC

ASSUME kRtpCsrcSize \in Nat \ {0}

VARIABLES
    num_csrcs,              \* num_csrcs_
    current_remote_csrc,    \* current_remote_csrc_[kRtpCsrcSize]
    num_energy,             \* num_energy_
    current_remote_energy,  \* current_remote_energy_[kRtpCsrcSize]
    rx,         \* receive thread: pc, header and CheckCSRC's locals
    received,   \* packets handed to CheckCSRC so far (energies are tagged with it)
    destroyed,  \* the destructor has run
    added,      \* bag of csrc in OnIncomingCSRCChanged(csrc, true)
    removed,    \* bag of csrc in OnIncomingCSRCChanged(csrc, false)
    energy_pkt, \* packet whose header last set num_energy_
    energy_out  \* last Energy() call: count, buffer and energy_pkt then

vars == <<num_csrcs, current_remote_csrc, num_energy, current_remote_energy,
          rx, received, destroyed, added, removed, energy_pkt, energy_out>>

Slots == 1..kRtpCsrcSize

\* An energy byte is abstracted to the packet and position it came from;
\* <<0, 0>> is the memset of the constructor, Unwritten a caller's buffer
\* byte that Energy() did not copy into.
Unwritten == <<-1, -1>>
EnergyOf(k, i) == <<k, i>>

NoRead == [count |-> -1, buf |-> [i \in Slots |-> Unwritten], pkt |-> 0]

\* The first n stored entries of a fixed-size array.
Prefix(arr, n) == [i \in 1..n |-> arr[i]]

Init ==
    /\ num_csrcs = 0
    /\ current_remote_csrc = [i \in Slots |-> 0]
    /\ num_energy = 0
    /\ current_remote_energy = [i \in Slots |-> <<0, 0>>]
    /\ rx = [pc |-> "idle", hdr |-> <<>>, old |-> <<>>, diff |-> 0]
    /\ received = 0
    /\ destroyed = FALSE
    /\ added = EmptyBag
    /\ removed = EmptyBag
    /\ energy_pkt = 0
    /\ energy_out = NoRead

\* The energies of packet k overwrite the first ne stored ones when ne is
\* in 1..kRtpCsrcSize.
StoredEnergiesAboveOne(k, ne) ==
    IF ne > 1 /\ ne <= kRtpCsrcSize
    THEN [i \in Slots |-> IF i <= ne THEN EnergyOf(k, i) ELSE current_remote_energy[i]]
    ELSE current_remote_energy

StoredEnergies(k, ne) ==
    IF ne > 0 /\ ne <= kRtpCsrcSize
    THEN [i \in Slots |-> IF i <= ne THEN EnergyOf(k, i) ELSE current_remote_energy[i]]
    ELSE current_remote_energy

(***************************************************************************)
(* CheckCSRC, lock section: return if the media strategy does not report  *)
(* CSRC changes for this payload type; store num_energy_ and, when the    *)
(* count is in 1..kRtpCsrcSize, the energies; snapshot the old list; copy *)
(* in the new one when it is not empty; return when both are empty.       *)
(***************************************************************************)
CheckCSRCLocked(h) ==
    LET k   == received + 1
        n   == Len(h.csrcs)
        old == Prefix(current_remote_csrc, num_csrcs)
    IN
    /\ rx.pc = "idle" /\ ~destroyed /\ received < MaxPackets
    /\ received' = k
    /\ IF ~h.report
       THEN UNCHANGED <<num_csrcs, current_remote_csrc, num_energy,
                        current_remote_energy, rx, energy_pkt>>
       ELSE
         /\ num_energy' = h.num_energy
         /\ energy_pkt' = k
         /\ current_remote_energy' = StoredEnergies(k, h.num_energy)
         /\ current_remote_csrc' =
               IF n > 0 /\ n <= kRtpCsrcSize
               THEN [i \in Slots |-> IF i <= n THEN h.csrcs[i]
                                              ELSE current_remote_csrc[i]]
               ELSE current_remote_csrc
         /\ IF n > 0 \/ num_csrcs > 0
            THEN /\ num_csrcs' = n
                 /\ rx' = [pc |-> "callbacks", hdr |-> h, old |-> old,
                           diff |-> n - num_csrcs]
            ELSE UNCHANGED <<num_csrcs, rx>>
    /\ UNCHANGED <<destroyed, added, removed, energy_out>>

\* The CSRCs of list a, one per occurrence, that are nonzero and not in b.
Missing(a, b) == ToBag(SelectSeq(a, LAMBDA c : c # 0 /\ ~Contains(b, c)))

(***************************************************************************)
(* CheckCSRC, after the lock: report every new CSRC absent from the old   *)
(* list as added and every old CSRC absent from the new list as removed; *)
(* when neither scan called back, signal a change of count with CSRC 0.   *)
(***************************************************************************)
CheckCSRCCallbacks ==
    LET new == rx.hdr.csrcs
        add == Missing(new, rx.old)
        rem == Missing(rx.old, new)
        called == add # EmptyBag \/ rem # EmptyBag
    IN
    /\ rx.pc = "callbacks"
    /\ added' = added (+) add (+)
                  (IF ~called /\ rx.diff > 0 THEN SetToBag({0}) ELSE EmptyBag)
    /\ removed' = removed (+) rem (+)
                  (IF ~called /\ rx.diff < 0 THEN SetToBag({0}) ELSE EmptyBag)
    /\ rx' = [rx EXCEPT !.pc = "idle"]
    /\ UNCHANGED <<num_csrcs, current_remote_csrc, num_energy,
                   current_remote_energy, received, destroyed, energy_pkt,
                   energy_out>>

(***************************************************************************)
(* Energy(): under the lock, copy num_csrcs_ bytes when num_energy_ > 0   *)
(* and return num_energy_.  Bytes of the caller's buffer not copied keep  *)
(* whatever the caller had there.                                          *)
(***************************************************************************)
Energy ==
    /\ ~destroyed
    /\ energy_out' =
         [count |-> num_energy,
          buf |-> [i \in Slots |->
                     IF num_energy > 0 /\ i <= num_csrcs
                     THEN current_remote_energy[i] ELSE Unwritten],
          pkt |-> energy_pkt]
    /\ UNCHANGED <<num_csrcs, current_remote_csrc, num_energy,
                   current_remote_energy, rx, received, destroyed, added,
                   removed, energy_pkt>>

(***************************************************************************)
(* ~RTPReceiver: with no ingress in flight, report each of the first      *)
(* num_csrcs_ stored CSRCs as removed.                                    *)
(***************************************************************************)
DestroyOffByOne ==
    /\ rx.pc = "idle" /\ ~destroyed
    /\ destroyed' = TRUE
    /\ removed' = removed (+) ToBag(Prefix(current_remote_csrc, num_csrcs - 1))
    /\ UNCHANGED <<num_csrcs, current_remote_csrc, num_energy,
                   current_remote_energy, rx, received, added, energy_pkt,
                   energy_out>>

Destroy ==
    /\ rx.pc = "idle" /\ ~destroyed
    /\ destroyed' = TRUE
    /\ removed' = removed (+) ToBag(Prefix(current_remote_csrc, num_csrcs))
    /\ UNCHANGED <<num_csrcs, current_remote_csrc, num_energy,
                   current_remote_energy, rx, received, added, energy_pkt,
                   energy_out>>

Next ==
    \/ \E h \in Headers : CheckCSRCLocked(h)
    \/ CheckCSRCCallbacks
    \/ Energy
    \/ Destroy

Spec == Init /\ [][Next]_vars

\* CSRCs(): under the lock, the first num_csrcs_ stored CSRCs.
CSRCs == Prefix(current_remote_csrc, num_csrcs)

-----------------------------------------------------------------------------
\* Number of CSRC c the host has been told about and not told removed.
Live(c) == CopiesIn(c, added) - CopiesIn(c, removed)

Tracked == IF destroyed THEN {}
           ELSE ToSet(CSRCs) \ {0}

(***************************************************************************)
(* Whenever no CheckCSRC is in flight, the OnIncomingCSRCChanged calls     *)
(* the host has received describe exactly the CSRCs the receiver stores:  *)
(* each stored CSRC added once more than removed, every other CSRC (and   *)
(* the sentinel 0) added as often as removed; after the destructor, all   *)
(* are balanced (spec 4.3 and property 6).                                 *)
(***************************************************************************)
HostViewExact ==
    rx.pc = "idle" =>
        \A c \in CsrcIds \cup {0} : Live(c) = IF c \in Tracked THEN 1 ELSE 0

(***************************************************************************)
(* The first count bytes Energy() returns are the energies, in order, of  *)
(* the header that set that count: none is a byte Energy() left unwritten *)
(* or one of an earlier packet.                                            *)
(***************************************************************************)
EnergyOfLastHeader ==
    \A i \in 1..energy_out.count :
        energy_out.buf[i] = EnergyOf(energy_out.pkt, i)

=============================================================================
