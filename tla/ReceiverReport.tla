--------------------------- MODULE ReceiverReport ---------------------------
(***************************************************************************)
(* What the receiver reports of RTPReceiver promise the RTCP sender        *)
(* (spec section 4.5 and RFC 3550 6.4.1), independent of how the counters *)
(* are kept: between two restarts of the stream, each new report carries *)
(* an extended highest sequence number and a cumulative loss no smaller   *)
(* than the previous report's, and a nonzero fraction lost only when the  *)
(* cumulative loss grew.  A restart (a new SSRC or ResetStatistics)       *)
(* starts again from an empty report, and until the next report there is  *)
(* no last report for Statistics(reset = false) to return.                 *)
(***************************************************************************)
EXTENDS Naturals

VARIABLES
    ext_high,       \* extended highest sequence number of the last report
    cum_lost,       \* cumulative number of packets lost
    fraction_lost,  \* fraction lost of the last report, in 1/256
    reported        \* a report has been made since the last restart

vars == <<ext_high, cum_lost, fraction_lost, reported>>

Init == ext_high = 0 /\ cum_lost = 0 /\ fraction_lost = 0 /\ reported = FALSE

\* A new report block.
Report ==
    /\ ext_high' \in Nat /\ ext_high' >= ext_high
    /\ cum_lost' \in Nat /\ cum_lost' >= cum_lost
    /\ fraction_lost' \in 0..255
    /\ fraction_lost' > 0 => cum_lost' > cum_lost
    /\ reported' = TRUE

\* The stream restarts: nothing has been reported yet.
Restart ==
    /\ ext_high' = 0 /\ cum_lost' = 0 /\ fraction_lost' = 0
    /\ reported' = FALSE

Spec == Init /\ [][Report \/ Restart]_vars
=============================================================================
