-------------------------- MODULE MC_CsrcTracking --------------------------
EXTENDS CsrcTracking, FiniteSets

\* Lists of at most kRtpCsrcSize CSRCs, and the headers built from them.
Lists(ids) == BoundedSeq(ids, kRtpCsrcSize)

\* CSRC lists as RFC 3550 mixers send them: distinct nonzero CSRCs, with at
\* most one audio level per CSRC (RFC 6465).
MC_WellFormed ==
    {h \in [csrcs : Lists(CsrcIds), num_energy : 0..kRtpCsrcSize,
            report : BOOLEAN] :
        /\ Cardinality(ToSet(h.csrcs)) = Len(h.csrcs)
        /\ h.num_energy <= Len(h.csrcs)}
=============================================================================
