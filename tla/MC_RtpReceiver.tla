--------------------------- MODULE MC_RtpReceiver ---------------------------
(* Constants of RtpReceiver for TLC. *)
EXTENDS RtpReceiver, TLC

MC_PayloadKind == (0 :> "audio") @@ (96 :> "video") @@ (127 :> "video")
MC_Payloads == {<<0, 0>>}
\* Plain audio, RED carrying audio, and video.
MC_MixedPayloads == {<<0, 0>>, <<127, 0>>, <<96, 96>>}
CONSTANTS s1, s2
MC_Ssrcs == {s1, s2}
CONSTANT r1
\* One RTX SSRC, the same for both streams, so the permutations of the
\* media SSRCs stay symmetries of the model.
MC_RtxOf == [s \in MC_Ssrcs |-> r1]
\* SSRCs are only compared for equality, and the packets of both are
\* chosen from the same sets.
MC_Symmetry == Permutations(MC_Ssrcs)
=============================================================================
