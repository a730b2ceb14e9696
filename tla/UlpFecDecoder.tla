---------------------------- MODULE UlpFecDecoder ----------------------------
(***************************************************************************)
(* The ULP-FEC receiver: UlpFecDecoder (src/src/rtp_rtcp/ulp_fec.cc,      *)
(* Decode, Flush, RcoverPackets, FecRecoverPacket, CachePackets and        *)
(* CachedPacket::DecodeFecInfo).                                           *)
(*                                                                         *)
(* The sender's stream is the constant Stream: packet e (its ghost number, *)
(* 0-based) is a media packet or an FEC packet protecting the media        *)
(* packets Stream[e+1].prot; the FEC packets take the seqs after their     *)
(* group, as the sender test program numbers them.  The decoder is fed by  *)
(* RtpReceiver's in-order callbacks: each Decode gets the next chunk of    *)
(* the stream minus the packets the network lost.                          *)
(*                                                                         *)
(* Data abstraction: the payload, header bytes and length field of media  *)
(* packet e are XORed byte by byte, so they are abstracted to the one-hot  *)
(* set {e} and XOR to symmetric difference; an FEC packet carries the XOR  *)
(* of its group, the set prot.  A recovered packet is right exactly when   *)
(* its data is {e}.  The pointers CachedPacket::media_packets holds are    *)
(* object ids, so a read through one whose object was erased is seen.      *)
(***************************************************************************)
EXTENDS SeqArith, Integers, Sequences, SequencesExt, FiniteSets

CONSTANTS
    StartSeq,               \* seq of packet 0
    Stream,                 \* <<[fec |-> BOOLEAN, prot |-> SUBSET Exts], ...>>
    MaxCacheSeqDifference,  \* FecDecoderConfig max_cache_seq_difference
    MaxChunk,               \* packets one RtpReceiver callback may release
    MaxLoss                 \* packets the network may lose

N == Len(Stream)
Exts == 0..(N - 1)

\* The integers of the finite set S in ascending order, the order in which
\* a std::map iterates its keys.
Ascending(S) == [i \in 1..Cardinality(S) |->
                    CHOOSE x \in S : Cardinality({y \in S : y < x}) = i - 1]
Kind(e) == Stream[e + 1]

ASSUME /\ N <= SeqModulus
       /\ MaxCacheSeqDifference \in 1..(MaxSeq \div 2)

SeqNum(e) == (StartSeq + e) % SeqModulus

\* The ghost number of the packet of the stream with sequence number seq.
ExtOfSeq(seq) == (seq - StartSeq) % SeqModulus

\* What the XOR-combined bytes of packet e amount to.
Content(e) == IF Kind(e).fec THEN Kind(e).prot ELSE {e}

VARIABLES
    cached_packets,   \* cached_packets_: entries in seq order
    has_output,       \* has_output_
    seq_last_output,  \* seq_last_output_
    next_id,          \* identity of the next CachedPacket object
    fed,              \* ghost: packets of the stream handed to the network
    lost,             \* ghost: packets the network lost
    out,              \* ghost: packets Decode output, in order
    drained,          \* ghost: packets Flush output, in order
    flushed,          \* ghost: Flush was called (the receiver is torn down)
    freed_read,       \* ghost: FecRecoverPacket read an erased packet
    empty_back        \* ghost: back() was taken of an empty cached_packets_

vars == <<cached_packets, has_output, seq_last_output, next_id, fed, lost,
          out, drained, flushed, freed_read, empty_back>>

-----------------------------------------------------------------------------
(* Cache entries                                                           *)

\* A CachedPacket made from packet e by CachePackets: DecodeFecInfo marks
\* it FEC when its payload type is the FEC one and reads its mask into the
\* keys of map_protected_seq_received (seq_base + bit index, as uint16_t).
NewEntry(e, id) ==
    [id |-> id, seq |-> SeqNum(e), fec |-> Kind(e).fec, invalid |-> FALSE,
     prot |-> {SeqNum(p) : p \in Kind(e).prot}, got |-> {}, members |-> {},
     data |-> Content(e)]

\* The insertion loop of CachePackets and RcoverPackets: before the first
\* entry with the same seq (then nothing is inserted) or a later one.
InsertOrdered(c, x) ==
    LET pos == SelectInSeq(c, LAMBDA y : y.seq = x.seq \/ IsSeqBefore(x.seq, y.seq))
    IN  CASE pos = 0              -> Append(c, x)
          [] c[pos].seq = x.seq   -> c
          [] OTHER                -> InsertAt(c, pos, x)

\* UlpFecDecoder::CachePackets for one received packet e: dropped when
\* before the last output; otherwise a new object, inserted in order.
CacheOne(acc, e) ==
    IF has_output /\ IsSeqBefore(SeqNum(e), seq_last_output) THEN acc
    ELSE LET c == InsertOrdered(acc.c, NewEntry(e, acc.id))
         IN  [c |-> c, id |-> IF c = acc.c THEN acc.id ELSE acc.id + 1]

CachePackets(c, id, batch) == FoldLeft(CacheOne, [c |-> c, id |-> id], batch)
-----------------------------------------------------------------------------
(* RcoverPackets                                                           *)

\* The ids of the objects in cache c.
Alive(c) == {c[i].id : i \in 1..Len(c)}

\* Mutant: keys at or before the last output are not checked.
MutScanKey(c, last_seq, s, k) ==
    LET j == SelectInSeq(c, LAMBDA y : y.seq = k)
    IN  IF s.stop THEN s
        ELSE IF IsSeqAfter(last_seq, k) THEN [s EXCEPT !.stop = TRUE, !.valid = FALSE]
        ELSE IF k \in s.got THEN s
        ELSE IF j # 0 THEN [s EXCEPT !.got = @ \cup {k}, !.members = @ \cup {c[j].id}]
        ELSE [s EXCEPT !.missing = Append(@, k)]

\* One key k of map_protected_seq_received, visited in the map's numeric
\* order, with last_seq the newest cached seq: a key at or before the last
\* output marks the FEC invalid and stops; a key after the newest cached
\* seq stops (wait for more); a key not yet seen is looked up in the cache
\* and either recorded as received, with the pointer kept in
\* media_packets, or added to no_received_seqs.
ScanKey(c, last_seq, s, k) ==
    LET j == SelectInSeq(c, LAMBDA y : y.seq = k)
    IN  IF s.stop THEN s
        ELSE IF has_output /\ ~IsSeqAfter(seq_last_output, k)
             THEN [s EXCEPT !.stop = TRUE, !.valid = FALSE, !.invalid = TRUE]
        ELSE IF IsSeqAfter(last_seq, k) THEN [s EXCEPT !.stop = TRUE, !.valid = FALSE]
        ELSE IF k \in s.got THEN s
        ELSE IF j # 0 THEN [s EXCEPT !.got = @ \cup {k}, !.members = @ \cup {c[j].id}]
        ELSE [s EXCEPT !.missing = Append(@, k)]

\* UlpFecDecoder::FecRecoverPacket: the FEC payload XORed with every
\* packet media_packets points to.  Reading through a pointer whose object
\* was erased is undefined; the read is flagged and its bytes left out.
FecRecoverData(c, f, members) ==
    LET DataOf(id) == c[SelectInSeq(c, LAMBDA y : y.id = id)].data
    IN  FoldSet(LAMBDA id, d : SymDiff(DataOf(id), d), f.data,
                members \cap Alive(c))

\* Mutant: recovery from the first missing seq whatever the number missing.
MutCanRecover(s, c) ==
    /\ s.valid
    /\ Len(s.missing) >= 1
    /\ ~IsSeqBefore(s.missing[1], seq_last_output)
    /\ ~IsSeqAfter(Last(c).seq, s.missing[1])

\* The checks between the scan and FecRecoverPacket: the scan completed,
\* exactly one protected seq is missing, and it lies between the last
\* output (seq_last_output_ even before anything was output) and the
\* newest cached seq.
CanRecover(s, c) ==
    /\ s.valid
    /\ Len(s.missing) = 1
    /\ ~IsSeqBefore(s.missing[1], seq_last_output)
    /\ ~IsSeqAfter(Last(c).seq, s.missing[1])

\* The body of RcoverPackets' loop for the FEC packet whose object is fid,
\* with last_seq the newest seq when RcoverPackets started: skip an
\* invalid FEC packet; scan its keys; recover, insert the packet unless
\* its seq is cached already, and then mark the FEC packet invalid.
RecoverWith(last_seq, acc, fid) ==
    LET i == SelectInSeq(acc.c, LAMBDA y : y.id = fid)
        f == acc.c[i]
        s == FoldLeft(LAMBDA t, k : ScanKey(acc.c, last_seq, t, k),
                      [stop |-> FALSE, valid |-> TRUE, invalid |-> FALSE,
                       got |-> f.got, members |-> f.members, missing |-> <<>>],
                      Ascending(f.prot))
        c1 == [acc.c EXCEPT ![i] = [f EXCEPT !.got = s.got, !.members = s.members,
                                              !.invalid = @ \/ s.invalid]]
        rec == [id |-> acc.id, seq |-> s.missing[1], fec |-> FALSE,
                invalid |-> FALSE, prot |-> {}, got |-> {}, members |-> {},
                data |-> FecRecoverData(c1, f, s.members)]
        c2 == InsertOrdered(c1, rec)
        inserted == c2 # c1
    IN  IF f.invalid THEN acc
        ELSE IF ~CanRecover(s, c1) THEN [acc EXCEPT !.c = c1]
        ELSE [c |-> IF inserted
                    THEN [c2 EXCEPT ![SelectInSeq(c2, LAMBDA y : y.id = fid)].invalid = TRUE]
                    ELSE c1,
              id |-> IF inserted THEN acc.id + 1 ELSE acc.id,
              freed |-> acc.freed \/ ~(s.members \subseteq Alive(c1))]

\* UlpFecDecoder::RcoverPackets over cache c: every FEC packet cached when
\* it starts, in cache order; a packet one of them recovers is visible to
\* the later ones.
RcoverPackets(c, id) ==
    LET fs == SelectSeq(c, LAMBDA y : y.fec)
        fecs == [k \in DOMAIN fs |-> fs[k].id]
    IN  FoldLeft(LAMBDA acc, fid : RecoverWith(Last(c).seq, acc, fid),
                 [c |-> c, id |-> id, freed |-> FALSE], fecs)
-----------------------------------------------------------------------------
(* Decode and Flush                                                        *)

\* First loop of Decode: from the front, every entry not within
\* max_cache_seq_difference before the newest is erased (the newest is
\* never within range of itself), and output unless it is not after the
\* last output.  Gives the erased prefix.
Expired(c) ==
    LET k == SelectInSeq(c, LAMBDA y :
                 IsSeqBeforeInRange(y.seq, Last(c).seq, MaxCacheSeqDifference))
    IN  IF k = 0 THEN c ELSE SubSeq(c, 1, k - 1)

\* Mutant: the first loop outputs every entry it erases.
MutReleased(c) == Expired(c)

\* Mutant: nothing is output by the first loop before the first output.
MutReleasedBeforeOutput(c) ==
    SelectSeq(Expired(c), LAMBDA y : has_output /\ IsSeqAfter(seq_last_output, y.seq))

\* The entries the first loop outputs.
Released(c) ==
    SelectSeq(Expired(c), LAMBDA y : ~has_output \/ IsSeqAfter(seq_last_output, y.seq))

\* Second loop of Decode over the entries that stay: copies of the leading
\* run that continues the output (or, when the first loop output nothing,
\* starts after the last output), the entries staying cached.
Chained(kept, released) ==
    LET Starts(y) == IF released = <<>>
                     THEN ~(has_output /\ ~IsSeqAfter(seq_last_output, y.seq))
                     ELSE IsNextSeq(Last(released).seq, y.seq)
        Run(j) == \A i \in 1..j : IF i = 1 THEN Starts(kept[1])
                                   ELSE IsNextSeq(kept[i - 1].seq, kept[i].seq)
    IN  SubSeq(kept, 1, Max({j \in 0..Len(kept) : Run(j)}))

\* The output records: the packet's ghost number and its bytes.
Emitted(ps) == [i \in DOMAIN ps |-> [ext |-> ExtOfSeq(ps[i].seq), data |-> ps[i].data]]

\* UlpFecDecoder::Decode(batch): CachePackets, RcoverPackets, the two
\* output loops, and the new last output.  With nothing cached, the
\* back() of RcoverPackets is undefined: flagged, and the call ends.
Decode(batch) ==
    \E cached \in {CachePackets(cached_packets, next_id, batch)} :
    IF cached.c = <<>>
    THEN /\ empty_back' = TRUE
         /\ UNCHANGED <<cached_packets, has_output, seq_last_output,
                        next_id, out, freed_read>>
    ELSE \E rec \in {RcoverPackets(cached.c, cached.id)} :
         \E released \in {Released(rec.c)} :
         \E kept \in {SubSeq(rec.c, Len(Expired(rec.c)) + 1, Len(rec.c))} :
         \E outs \in {released \o Chained(kept, released)} :
             /\ cached_packets' = kept
             /\ next_id' = rec.id
             /\ freed_read' = (freed_read \/ rec.freed)
             /\ out' = out \o Emitted(outs)
             /\ has_output' = (has_output \/ outs # <<>>)
             /\ seq_last_output' = IF outs = <<>> THEN seq_last_output
                                   ELSE Last(outs).seq
             /\ UNCHANGED empty_back

Init ==
    /\ cached_packets = <<>>
    /\ has_output = FALSE
    /\ seq_last_output = 0
    /\ next_id = 0
    /\ fed = 0
    /\ lost = {}
    /\ out = <<>>
    /\ drained = <<>>
    /\ flushed = FALSE
    /\ freed_read = FALSE
    /\ empty_back = FALSE

\* RtpReceiver releases the next k packets of the stream that the network
\* did not lose (L), in order, and the application's OnRtpPacket hands
\* them to Decode.  RtpReceiver never calls back with an empty list.
Receive ==
    \E k \in 1..MaxChunk :
      \E L \in SUBSET (fed..(fed + k - 1)) :
        LET batch == Ascending((fed..(fed + k - 1)) \ L)
        IN  /\ ~flushed
            /\ fed + k <= N
            /\ Cardinality(lost \cup L) <= MaxLoss
            /\ batch # <<>>
            /\ Decode(batch)
            /\ fed' = fed + k
            /\ lost' = lost \cup L
            /\ UNCHANGED <<drained, flushed>>

\* UlpFecDecoder::Flush, called when the receiver is torn down: every
\* cached packet is output in cache order.
Flush ==
    /\ ~flushed
    /\ flushed' = TRUE
    /\ cached_packets' = <<>>
    /\ drained' = Emitted(cached_packets)
    /\ has_output' = (has_output \/ cached_packets # <<>>)
    /\ seq_last_output' = IF cached_packets = <<>> THEN seq_last_output
                          ELSE Last(cached_packets).seq
    /\ UNCHANGED <<next_id, fed, lost, out, freed_read, empty_back>>

Next == Receive \/ Flush

Spec == Init /\ [][Next]_vars
-----------------------------------------------------------------------------

\* Everything the decoder output, Decode calls first, then Flush.
Output == out \o drained

\* The ghost numbers of the packets output so far.
OutExts == {Output[i].ext : i \in DOMAIN Output}

\* spec 4.4.4, "Output order is ascending Seq": across all Decode calls no
\* packet is output twice and none after a later one, although the second
\* loop of Decode outputs copies that stay cached and the first loop later
\* erases them.
OutputAscending ==
    \A i, j \in DOMAIN out : i < j => out[i].ext < out[j].ext

\* spec 8: a packet FEC recovers is byte-for-byte the one the sender sent;
\* every packet the decoder outputs carries the bytes the sender put in it,
\* whichever media_packets RcoverPackets had collected across calls.
OutputIsOriginal ==
    \A i \in DOMAIN Output : Output[i].data = Content(Output[i].ext)

\* FecRecoverPacket never reads through a media_packets pointer whose
\* CachedPacket the first loop of Decode erased (the invalid_fec check of
\* RcoverPackets must come first), and Decode never takes back() of an
\* empty cache.
DecoderMemorySafe == ~freed_read /\ ~empty_back

\* spec 4.4.4: a cached packet leaves only by being output.  Every packet
\* RtpReceiver handed to Decode has been output once Flush ran.
NothingSwallowed ==
    flushed => {e \in 0..(fed - 1) : e \notin lost} \subseteq OutExts

\* spec 8 and Scenario D: with exactly one media packet of the stream lost
\* and every FEC packet received, the decoder recovers it.
SingleLossRecovered ==
    (flushed /\ fed = N /\ Cardinality(lost) = 1 /\ \A e \in lost : ~Kind(e).fec)
        => Exts \subseteq OutExts
\* spec 4.4.4: "flush drains all cached packets in ascending order", after
\* decode has output packets in ascending order: the application receives
\* each packet once.
NoPacketOutputTwice ==
    \A i, j \in DOMAIN Output : i < j => Output[i].ext # Output[j].ext
=============================================================================
