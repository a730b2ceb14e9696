----------------------------- MODULE MCRtpSender -----------------------------
(***************************************************************************)
(* RtpSender alone.  The application offers any sequence number with an  *)
(* RTX-mapped payload type or not (SendRtp drops all but the successor);  *)
(* NACKs ask for any set of seqs around the cache window, including one    *)
(* just trimmed and the next not yet sent.  History variables record what *)
(* was accepted and which RTX seqs went out.                              *)
(***************************************************************************)
EXTENDS RtpSender, FiniteSets

CONSTANTS
    MaxSends,    \* packets the application sends
    MaxNacks     \* NACKs received

ASSUME MaxSends \in 1..(SeqModulus \div 2)

VARIABLES
    sent_log,    \* accepted packets, [seq, mapped], in order
    rtx_log,     \* rtx_seq of every RTX packet sent, in order
    nacks        \* NACKs handled so far

vars == <<sender_vars, sent_log, rtx_log, nacks>>

Init ==
    /\ SenderInit
    /\ sent_log = <<>>
    /\ rtx_log = <<>>
    /\ nacks = 0

AppSendRtp ==
    \E seq \in Seqs, mapped \in BOOLEAN :
        /\ Len(sent_log) < MaxSends
        /\ SendRtp(seq, mapped)
        /\ sent_log' = Append(sent_log, [seq |-> seq, mapped |-> mapped])
        /\ UNCHANGED <<rtx_log, nacks>>

\* Seqs a NACK may name: the cache window, one seq older and one newer.
NackCandidates ==
    {(last_seq + k) % SeqModulus : k \in -(MaxCacheSeqDifference + 1)..1}

\* The random start only matters for the first RTX packet.
RtxStarts == IF rtx_has_sent THEN {0} ELSE Seqs

ReceiveNack ==
    \E seqs \in SUBSET NackCandidates, start \in RtxStarts :
        LET out == RtxOut(seqs, start)
        IN  /\ has_sent
            /\ nacks < MaxNacks
            /\ SendRtx(seqs, start)
            /\ rtx_log' = rtx_log \o [i \in 1..Len(out) |-> out[i].rtx_seq]
            /\ nacks' = nacks + 1
            /\ UNCHANGED sent_log

Next == AppSendRtp \/ ReceiveNack

Spec == Init /\ [][Next]_vars

-----------------------------------------------------------------------------

TypeOK ==
    /\ rtx_cache \in Seq(Seqs)
    /\ {last_seq, rtx_last_seq} \subseteq Seqs
    /\ {has_sent, rtx_has_sent} \subseteq BOOLEAN
    /\ rtx_log \in Seq(Seqs)

\* The RTX cache holds exactly the RTX-mapped packets sent within
\* max_cache_seq_difference before the newest of them, oldest first: the
\* front-only trim of PutPacket, driven by SendRtp's continuity check,
\* keeps a contiguous window across the seq wrap.
CachedSeqs ==
    LET ms == [i \in 1..Len(SelectSeq(sent_log, LAMBDA p : p.mapped)) |->
                  SelectSeq(sent_log, LAMBDA p : p.mapped)[i].seq]
    IN  IF ms = <<>> THEN <<>>
        ELSE SelectSeq(ms, LAMBDA s :
                 (ms[Len(ms)] - s) % SeqModulus <= MaxCacheSeqDifference)

CacheIsWindow == rtx_cache = CachedSeqs

\* The RTX stream has consecutive sequence numbers modulo 2^16 from its
\* random start on, across SendRtx calls (rtx_context in ConstructRtx).
RtxSeqsConsecutive ==
    \A i \in 1..(Len(rtx_log) - 1) :
        rtx_log[i + 1] = (rtx_log[i] + 1) % SeqModulus
=============================================================================
