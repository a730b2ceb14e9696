--------------------------- MODULE ReceiverService ---------------------------
(***************************************************************************)
(* What the receiver of one media stream promises the application, with  *)
(* no cache, loss records or sequence-number arithmetic: packets are      *)
(* named by their sending order (0, 1, 2, ...).                           *)
(*   - A packet that arrives is kept exactly when it is newer than the    *)
(*     last one handed to the application.                                *)
(*   - Hand-over happens only while a packet arrives (the receive         *)
(*     callback runs inside the receive handler), and hands over, in      *)
(*     order, every kept packet from the last one handed over up to some  *)
(*     cut: a kept packet is never skipped.                               *)
(* RtpReceiverCache implements this service.                               *)
(***************************************************************************)
EXTENDS Integers, Sequences, SequencesExt

CONSTANTS MaxPackets     \* packets the remote sender sends

VARIABLES
    sent,       \* packets sent so far
    arrived,    \* packets the receiver kept
    out         \* packets handed to the application, in order

svc_vars == <<sent, arrived, out>>

\* The newest packet handed over, -1 before the first.
OutCursor == IF out = <<>> THEN -1 ELSE out[Len(out)]

\* The kept packets after the cursor up to and including cut m, in order.
HandOver(kept, m) ==
    SetToSortSeq({a \in kept : OutCursor < a /\ a <= m}, LAMBDA x, y : x < y)

SendPacket ==
    /\ sent < MaxPackets
    /\ sent' = sent + 1
    /\ UNCHANGED <<arrived, out>>

\* Packet e arrives: it is kept when it is after the cursor, then the kept
\* packets up to a cut at or after the cursor are handed over.
Arrive ==
    \E e \in 0..(sent - 1) :
        /\ arrived' = IF e > OutCursor THEN arrived \cup {e} ELSE arrived
        /\ \E m \in {OutCursor} \cup {a \in arrived' : a > OutCursor} :
              out' = out \o HandOver(arrived', m)
        /\ UNCHANGED sent

SvcInit ==
    /\ sent = 0
    /\ arrived = {}
    /\ out = <<>>

SvcNext == SendPacket \/ Arrive

SvcSpec == SvcInit /\ [][SvcNext]_svc_vars
=============================================================================
