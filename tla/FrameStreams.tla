--------------------------- MODULE FrameStreams ---------------------------
(***************************************************************************)
(* The binary stream parsers: ltv_stream_feed, stream_parser_feed (TLV)    *)
(* and modbus_stream_feed, with the one-shot parsers and the builders they *)
(* rest on.  A caller splits the bytes of a wire into chunks as it likes,  *)
(* feeds them, drains with empty chunks, frees TLV frames and may reset.   *)
(*                                                                         *)
(* Fields no parser interprets (msg_id, version, unit_id, ...) are one     *)
(* unit or left out, multi-byte integers are one unit; the LTV varint      *)
(* keeps its digits, with Base for 128.  The buffer is memory: memmove     *)
(* leaves the bytes behind the moved ones as they are, and a view into it  *)
(* reads whatever is there.                                                *)
(***************************************************************************)
EXTENDS Integers, Sequences, FiniteSets, SequencesExt

CONSTANTS
  Wires,          \* [proto, cap, bytes, sent]: cap is the parser's buffer_size, sent
                  \* lists the frames the bytes were built from, if they were
  MaxChunk,       \* largest chunk a caller feeds (a bound of the model)
  MaxHeld,       \* TLV frames the caller holds at a time (a bound of the model)
  PoolSize,       \* capacity of the thread's parser context pool
  Checksum(_),    \* crc32_compute, modbus_rtu_crc16: some function of the bytes
  Base,           \* 128: a varint byte b has digit b % Base, and continues if b >= Base
  MaxVarint,      \* LTV_MAX_VARINT_BYTES
  LastLimit,      \* 16: bound of the last byte of a varint of that length
  MaxPayload,     \* LTV_MAX_PAYLOAD_SIZE, MAX_PAYLOAD_SIZE
  MaxPdu,         \* MODBUS_MAX_PDU_SIZE
  FrameHead,      \* FRAME_HEAD
  FrameTail       \* FRAME_TAIL

ASSUME FrameAssumption ==
  /\ {Base, MaxVarint, LastLimit, MaxPdu} \subseteq Nat \ {0}
  /\ {MaxChunk, MaxHeld, PoolSize, MaxPayload} \subseteq Nat
  /\ Base > 1 /\ LastLimit <= Base
  /\ \A w \in Wires : /\ w.proto \in {"LTV", "TLV", "TCP", "RTU"}
                       /\ w.cap \in Nat /\ w.bytes \in Seq(Nat)

VARIABLES
  conn,       \* the wire being read
  taken,      \* bytes of the wire the parser has accepted
  since,      \* value of taken at the last reset
  mem,        \* the parser's buffer
  buffered, expected, pending,   \* fields of the parser
  delivered,  \* frames returned since the last reset
  bounds,     \* RTU: value of taken at each frame boundary that parsed
  result,     \* answer of the last call
  view,       \* bytes of the buffer the returned zero-copy pointer covers
  held,       \* TLV payloads not freed yet, oldest first: [mark, size, owned, exposed];
              \* exposed is history: an older payload of the pool was freed meanwhile
  used        \* bytes in use of the thread's pool

parser == <<mem, buffered, expected, pending>>
frameVars == <<conn, taken, since, parser, delivered, bounds, result, view, held, used>>

BufferSize == conn.cap

(* Transport overhead, in units. *)
TlvHeader == 2      \* FRAME_HEADER_SIZE: head, payload_size
TlvMin    == 4      \* FRAME_MIN_SIZE: header, crc, tail
Mbap      == 4      \* MODBUS_TCP_MBAP_SIZE: transaction, protocol, length, unit
RtuMin    == 3      \* MODBUS_RTU_MIN_ADU_SIZE: address, function, crc
RtuMax    == MaxPdu + 2

---------------------------------------------------------------------------
(* LTV varints *)

(* Base to the power of n. *)
Power(n) ==
  LET power[i \in 0..n] == IF i = 0 THEN 1 ELSE Base * power[i - 1]
  IN  power[n]

(* ltv_varint_size *)
VarintSize(v) == Min({n \in 1..MaxVarint : n = MaxVarint \/ v < Power(n)})

(* ltv_encode_varint: all bytes but the last carry the continuation flag. *)
EncodeVarint(v) ==
  LET encode[x \in 0..v] ==
        IF x < Base THEN <<x>> ELSE <<(x % Base) + Base>> \o encode[x \div Base]
  IN  encode[v]

(* The number the bytes of a varint denote, least significant digit first; *)
(* value[n] is that of the last n bytes.                                   *)
Digits(s) ==
  LET value[n \in 0..Len(s)] ==
        IF n = 0 THEN 0 ELSE (s[Len(s) - n + 1] % Base) + Base * value[n - 1]
  IN  value[Len(s)]

NoVarint(size) == [size |-> size, value |-> 0]

(* Fault: an overlong encoding is accepted. *)
VarintOverlong(s) ==
  IF Len(s) = MaxVarint /\ Last(s) >= LastLimit THEN NoVarint(-1)
  ELSE [size |-> Len(s), value |-> Digits(s)]

(* The varint whose bytes are s: in range and canonical, or not. *)
Varint(s) ==
  IF (Len(s) = MaxVarint /\ Last(s) >= LastLimit) \/ VarintSize(Digits(s)) # Len(s)
  THEN NoVarint(-1)
  ELSE [size |-> Len(s), value |-> Digits(s)]

(* ltv_decode_varint: size 0 asks for more bytes, -1 is malformed. *)
DecodeVarint(d) ==
  LET n == SelectInSubSeq(d, 1, Min({Len(d), MaxVarint}), LAMBDA b : b < Base)
  IN  IF n # 0 THEN Varint(SubSeq(d, 1, n))
      ELSE NoVarint(IF Len(d) >= MaxVarint THEN -1 ELSE 0)

---------------------------------------------------------------------------
(* One-shot parsers: a code, and for OK the frame's total size and where   *)
(* its payload lies.                                                       *)

No(code) == [code |-> code, total |-> 0, off |-> 0, size |-> 0]
Yes(total, off, size) == [code |-> "OK", total |-> total, off |-> off, size |-> size]

(* ltv_peek_size, of a decoded length *)
LtvSize(v) ==
  CASE v.size = 0 -> No("NEED_MORE")
    [] v.size < 0 \/ (v.size > 0 /\ v.value = 0) -> No("INVALID_VARINT")
    [] v.size > 0 /\ v.value > MaxPayload + 1 -> No("SIZE_OVERFLOW")
    [] OTHER -> Yes(v.size + v.value, v.size + 2, v.value - 1)

LtvPeek(d) == LtvSize(DecodeVarint(d))

(* frame_peek_size *)
TlvPeek(d) ==
  CASE Len(d) < TlvHeader -> No("NEED_MORE")
    [] Len(d) >= TlvHeader /\ d[1] # FrameHead -> No("INVALID_HEAD")
    [] Len(d) >= TlvHeader /\ d[1] = FrameHead /\ d[2] > MaxPayload -> No("INVALID_SIZE")
    [] OTHER -> Yes(TlvMin + d[2], TlvHeader + 1, d[2])

(* modbus_tcp_peek_size *)
TcpPeek(d) ==
  CASE Len(d) < Mbap -> No("NEED_MORE")
    [] Len(d) >= Mbap /\ d[2] # 0 -> No("INVALID_PROTOCOL")
    [] Len(d) >= Mbap /\ d[2] = 0 /\ (d[3] < 2 \/ d[3] > MaxPdu + 1) -> No("INVALID_LENGTH")
    [] OTHER -> Yes(Mbap - 1 + d[3], Mbap + 2, d[3] - 2)

Peek(p, d) ==
  CASE p = "LTV" -> LtvPeek(d) [] p = "TLV" -> TlvPeek(d) [] p = "TCP" -> TcpPeek(d)

(* frame_parse: the tail marker, then the checksum over header and payload. *)
TlvCheck(d, m) ==
  CASE d[m.total] # FrameTail -> No("INVALID_TAIL")
    [] d[m.total] = FrameTail /\ d[m.total - 1] # Checksum(SubSeq(d, 1, m.total - 2)) ->
         No("CRC_MISMATCH")
    [] OTHER -> m

Complete(p, d, m) ==
  CASE m.code # "OK" -> m
    [] m.code = "OK" /\ Len(d) < m.total -> No("NEED_MORE")
    [] m.code = "OK" /\ Len(d) >= m.total /\ p = "TLV" -> TlvCheck(d, m)
    [] OTHER -> m

(* ltv_parse, frame_parse, modbus_tcp_parse *)
Parse(p, d) == Complete(p, d, Peek(p, d))

(* modbus_rtu_parse: the whole of d is one frame. *)
RtuParse(d) ==
  CASE Len(d) < RtuMin -> No("NEED_MORE")
    [] Len(d) > RtuMax -> No("INVALID_LENGTH")
    [] Len(d) \in RtuMin..RtuMax /\ Checksum(SubSeq(d, 1, Len(d) - 1)) # d[Len(d)] ->
         No("CRC_MISMATCH")
    [] OTHER -> Yes(Len(d), 3, Len(d) - RtuMin)

---------------------------------------------------------------------------
(* Builders; the empty sequence for a payload they refuse. *)

(* ltv_build *)
LtvBuild(type, value) ==
  IF Len(value) > MaxPayload THEN <<>> ELSE EncodeVarint(Len(value) + 1) \o <<type>> \o value

(* frame_pack_header and the wire format it starts *)
TlvBuild(value) ==
  LET body == <<FrameHead, Len(value)>> \o value
  IN  body \o <<Checksum(body), FrameTail>>

(* modbus_tcp_build *)
TcpBuild(transaction, function, data) ==
  IF Len(data) > MaxPdu - 1 THEN <<>>
  ELSE <<transaction, 0, 2 + Len(data), 1, function>> \o data

(* modbus_rtu_build *)
RtuBuild(function, data) ==
  LET body == <<1, function>> \o data
  IN  IF Len(data) > MaxPdu - 1 THEN <<>> ELSE body \o <<Checksum(body)>>

(* f is a frame of one of the builders, with a payload of at most the size *)
(* the parsers admit (frame_pack_header does not look at it).              *)
IsBuilt(p, f) ==
  \/ p = "LTV" /\ \E n \in 1..Len(f) : f = LtvBuild(f[n], SubSeq(f, n + 1, Len(f)))
  \/ /\ p = "TLV" /\ Len(f) - TlvMin \in 0..MaxPayload
     /\ f = TlvBuild(SubSeq(f, 3, Len(f) - 2))
  \/ p = "TCP" /\ Len(f) > Mbap /\ f = TcpBuild(f[1], f[5], SubSeq(f, 6, Len(f)))
  \/ p = "RTU" /\ Len(f) >= RtuMin /\ f = RtuBuild(f[2], SubSeq(f, 3, Len(f) - 1))

(* Lengths in use are far from the limit of a varint; the units of an LTV  *)
(* wire are bytes; sent lists built frames.                                *)
ASSUME WireAssumption ==
  /\ MaxPayload + 1 < LastLimit * Power(MaxVarint - 1)
  /\ \A w \in Wires :
       /\ w.proto = "LTV" => \A i \in 1..Len(w.bytes) : w.bytes[i] < 2 * Base
       /\ w.sent # <<>> => /\ w.sent \in Seq(Seq(Nat)) /\ w.bytes = FlattenSeq(w.sent)
                           /\ \A i \in 1..Len(w.sent) : IsBuilt(w.proto, w.sent[i])

---------------------------------------------------------------------------
NoView == [off |-> 0, size |-> 0]

FrameInit ==
  /\ conn \in Wires
  /\ taken = 0 /\ since = 0
  /\ mem = [i \in 1..BufferSize |-> 0]
  /\ buffered = 0 /\ expected = 0 /\ pending = 0
  /\ delivered = <<>> /\ bounds = <<>>
  /\ result = "NONE"
  /\ view = NoView
  /\ held = <<>> /\ used = 0

(* The bytes of a chunk of k, and the buffer m with them after the first n. *)
Chunk(k) == SubSeq(conn.bytes, taken + 1, taken + k)
Fill(m, n, d) == [i \in 1..BufferSize |-> IF i \in n + 1..n + Len(d) THEN d[i - n] ELSE m[i]]

(* memmove of what follows the first k of n bytes to the front. *)
Shift(m, n, k) == [i \in 1..BufferSize |-> IF i <= n - k THEN m[i + k] ELSE m[i]]

(* The end of a call that returns no frame. *)
Answer(code) ==
  /\ result' = code
  /\ view' = NoView
  /\ UNCHANGED <<conn, since, delivered, bounds, held, used>>

Deliver(frame, off, size) ==
  /\ result' = "OK"
  /\ delivered' = Append(delivered, frame)
  /\ view' = [off |-> off, size |-> size]
  /\ UNCHANGED <<conn, since>>

---------------------------------------------------------------------------
(* The size of the frame at the front of the buffer: learnt once. *)
Learnt(peek) == IF expected = 0 THEN peek.total ELSE expected

Keep(code, m, n, e) ==
  Answer(code) /\ mem' = m /\ buffered' = n /\ expected' = e

(* Fault: expected survives the message it was computed for. *)
LtvStepStale(m, n, peek, total) ==
  \/ /\ total # 0 /\ total <= BufferSize /\ n >= total
     /\ Deliver(SubSeq(m, 1, total), peek.off, peek.size)
     /\ mem' = m /\ buffered' = n /\ pending' = total /\ expected' = total
     /\ UNCHANGED <<bounds, held, used>>
  \/ /\ total = 0 \/ total > BufferSize \/ n < total
     /\ Keep(IF total = 0 THEN peek.code ELSE "NEED_MORE", m, n, total) /\ pending' = 0

(* ltv_stream_feed once the chunk is in the buffer.  A complete message is *)
(* returned as a view and its bytes are left for the next call to drop;    *)
(* ltv_parse cannot fail on what ltv_peek_size has accepted.               *)
LtvStep(m, n, peek, total) ==
  \/ total = 0 /\ Keep(peek.code, m, n, 0) /\ pending' = 0
  \/ /\ expected = 0 /\ total > BufferSize
     /\ Keep("BUFFER_OVERFLOW", m, n, total) /\ pending' = 0
  \/ /\ total # 0 /\ (expected # 0 \/ total <= BufferSize) /\ n < total
     /\ Keep("NEED_MORE", m, n, total) /\ pending' = 0
  \/ /\ total # 0 /\ total <= BufferSize /\ n >= total
     /\ Deliver(SubSeq(m, 1, total), LtvPeek(m).off, LtvPeek(m).size)
     /\ mem' = m /\ buffered' = n /\ pending' = total /\ expected' = 0
     /\ UNCHANGED <<bounds, held, used>>

(* ltv_stream_feed on a buffer m of n bytes, from which the message of the *)
(* previous call has been dropped.                                         *)
LtvFeedTo(k, m, n) ==
  \/ /\ k > BufferSize - n
     /\ Keep("BUFFER_OVERFLOW", m, n, expected) /\ pending' = 0 /\ UNCHANGED taken
  \/ /\ k <= BufferSize - n
     /\ LET peek == LtvPeek(SubSeq(Fill(m, n, Chunk(k)), 1, n + k))
        IN  LtvStep(Fill(m, n, Chunk(k)), n + k, peek, Learnt(peek))
     /\ taken' = taken + k

(* ltv_stream_feed, after ltv_stream_consume_completed *)
LtvFeed(k) ==
  /\ conn.proto = "LTV"
  /\ LtvFeedTo(k, Shift(mem, buffered, pending), buffered - pending)

---------------------------------------------------------------------------
(* frame_parse_copy of a payload: from the pool with the mark before it, or *)
(* from malloc when the pool has no room.                                    *)
CopyPayload(size) ==
  LET fits == size <= PoolSize - used
  IN  /\ held' = Append(held, [mark  |-> IF fits THEN used ELSE 0,
                               size  |-> size, owned |-> ~fits, exposed |-> FALSE])
      /\ used' = IF fits THEN used + size ELSE used

(* The frame is copied out and the buffer moved up. *)
TlvTake(m, n, frame) ==
  /\ Deliver(SubSeq(m, 1, frame.total), 0, 0)
  /\ IF frame.size = 0 THEN UNCHANGED <<held, used>>
     ELSE Len(held) < MaxHeld /\ CopyPayload(frame.size)
  /\ mem' = Shift(m, n, frame.total) /\ buffered' = n - frame.total /\ expected' = 0
  /\ UNCHANGED bounds

(* A complete frame may be malformed, or find no memory for its payload;   *)
(* it then stays buffered.                                                 *)
TlvFrame(m, n, frame, total) ==
  \/ frame.code # "OK" /\ Keep(frame.code, m, n, total)
  \/ /\ frame.code = "OK" /\ frame.size > PoolSize - used
     /\ Keep("INVALID_SIZE", m, n, total)
  \/ frame.code = "OK" /\ TlvTake(m, n, frame)

TlvStep(m, n, peek, total) ==
  \/ total = 0 /\ Keep(peek.code, m, n, 0)
  \/ /\ expected = 0 /\ total > BufferSize
     /\ Keep("BUFFER_OVERFLOW", m, n, total)
  \/ /\ total # 0 /\ (expected # 0 \/ total <= BufferSize) /\ n < total
     /\ Keep("NEED_MORE", m, n, total)
  \/ /\ total # 0 /\ total <= BufferSize /\ n >= total
     /\ TlvFrame(m, n, Parse("TLV", SubSeq(m, 1, total)), total)

(* stream_parser_feed and modbus_stream_feed refuse a chunk that does not  *)
(* fit as a whole.                                                         *)
Refuse(k) ==
  /\ buffered + k > BufferSize
  /\ Answer("BUFFER_OVERFLOW") /\ UNCHANGED <<taken, parser>>

(* stream_parser_feed *)
TlvFeed(k) ==
  /\ conn.proto = "TLV"
  /\ \/ Refuse(k)
     \/ /\ buffered + k <= BufferSize
        /\ LET peek == TlvPeek(SubSeq(Fill(mem, buffered, Chunk(k)), 1, buffered + k))
           IN  TlvStep(Fill(mem, buffered, Chunk(k)), buffered + k, peek, Learnt(peek))
        /\ taken' = taken + k
        /\ UNCHANGED pending

(* pool_rewind: a mark above the top may be obeyed or ignored. *)
Rewound(mark) == IF mark <= used THEN {mark} ELSE {mark, used}

(* Without frame i; what was taken from the pool after it is exposed. *)
Released(i) ==
  [j \in 1..Len(held) - 1 |->
     IF j < i THEN held[j] ELSE [held[j + 1] EXCEPT !.exposed = @ \/ ~held[i].owned]]

(* Fault: the pool goes back to its start. *)
FrameFreeAll ==
  \E i \in DOMAIN held :
    /\ held' = Released(i)
    /\ used' \in IF held[i].owned THEN {used} ELSE Rewound(0)
    /\ UNCHANGED <<conn, taken, since, parser, delivered, bounds, result, view>>

(* frame_free of any frame the caller holds: free, or the pool is rewound to *)
(* the frame's mark.                                                         *)
FrameFree ==
  \E i \in DOMAIN held :
    /\ held' = Released(i)
    /\ used' \in IF held[i].owned THEN {used} ELSE Rewound(held[i].mark)
    /\ UNCHANGED <<conn, taken, since, parser, delivered, bounds, result, view>>

---------------------------------------------------------------------------
(* modbus_stream_feed, TCP: a frame is returned as a view and its bytes    *)
(* are dropped in the same call.                                           *)
TcpStep(m, n, peek, total) ==
  \/ total = 0 /\ Keep(peek.code, m, n, 0)
  \/ expected = 0 /\ total > BufferSize /\ Keep("BUFFER_OVERFLOW", m, n, 0)
  \/ total # 0 /\ total <= BufferSize /\ n < total /\ Keep("NEED_MORE", m, n, total)
  \/ /\ total # 0 /\ total <= BufferSize /\ n >= total
     /\ Deliver(SubSeq(m, 1, total), TcpPeek(m).off, TcpPeek(m).size)
     /\ mem' = Shift(m, n, total) /\ buffered' = n - total /\ expected' = 0
     /\ UNCHANGED <<bounds, held, used>>

TcpFeed(k) ==
  /\ conn.proto = "TCP"
  /\ \/ Refuse(k)
     \/ /\ buffered + k <= BufferSize
        /\ LET peek == TcpPeek(SubSeq(Fill(mem, buffered, Chunk(k)), 1, buffered + k))
           IN  TcpStep(Fill(mem, buffered, Chunk(k)), buffered + k, peek, Learnt(peek))
        /\ taken' = taken + k
        /\ UNCHANGED pending

(* The bytes of a boundary that does not parse stay buffered. *)
RtuBoundary(adu) ==
  \/ adu.code # "OK" /\ Answer(adu.code) /\ UNCHANGED <<taken, parser>>
  \/ /\ adu.code = "OK"
     /\ Deliver(SubSeq(mem, 1, buffered), adu.off, adu.size)
     /\ bounds' = Append(bounds, taken)
     /\ buffered' = 0 /\ expected' = 0
     /\ UNCHANGED <<taken, mem, pending, held, used>>

(* modbus_stream_feed, RTU: data is only buffered; an empty chunk marks the *)
(* frame boundary.                                                          *)
RtuFeed(k) ==
  /\ conn.proto = "RTU"
  /\ \/ Refuse(k)
     \/ /\ k > 0 /\ buffered + k <= BufferSize
        /\ Keep("NEED_MORE", Fill(mem, buffered, Chunk(k)), buffered + k, expected)
        /\ taken' = taken + k
        /\ UNCHANGED pending
     \/ k = 0 /\ RtuBoundary(RtuParse(SubSeq(mem, 1, buffered)))

---------------------------------------------------------------------------
(* ltv_stream_reset, stream_parser_reset, modbus_stream_reset: bytes that  *)
(* were accepted and not returned are gone.                                *)
Reset ==
  /\ taken > since
  /\ buffered' = 0 /\ expected' = 0 /\ pending' = 0
  /\ since' = taken
  /\ delivered' = <<>> /\ bounds' = <<>>
  /\ result' = "NONE" /\ view' = NoView
  /\ UNCHANGED <<conn, taken, mem, held, used>>

FeedChunk(k) == LtvFeed(k) \/ TlvFeed(k) \/ TcpFeed(k) \/ RtuFeed(k)

FrameNext ==
  \/ \E k \in 0..MaxChunk : k <= Len(conn.bytes) - taken /\ FeedChunk(k)
  \/ FrameFree
  \/ Reset

FrameSpec == FrameInit /\ [][FrameNext]_frameVars

---------------------------------------------------------------------------
(* Properties.                                                             *)

Accepted == SubSeq(conn.bytes, since + 1, taken)

(* What the one-shot parser finds in d: the frames, and its answer on the  *)
(* bytes behind the last of them; found[n] is about the last n bytes.      *)
OneShot(p, d) ==
  LET tail(n) == SubSeq(d, Len(d) - n + 1, Len(d))
      found[n \in 0..Len(d)] ==
        LET m == Parse(p, tail(n))
        IN  IF m.code # "OK" THEN [frames |-> <<>>, end |-> m.code]
            ELSE [frames |-> <<SubSeq(tail(n), 1, m.total)>> \o found[n - m.total].frames,
                  end |-> found[n - m.total].end]
  IN  found[Len(d)]

(* ltv_stream_remaining, and what the other parsers keep: bytes that belong *)
(* to no returned frame.                                                    *)
Remaining == SubSeq(mem, pending + 1, buffered)

(* RTU frames are what lies between two boundaries. *)
Between(i) == SubSeq(conn.bytes, (IF i = 1 THEN since ELSE bounds[i - 1]) + 1, bounds[i])

(* However the bytes were cut into chunks and whatever was refused or       *)
(* retried in between: no accepted byte is lost or duplicated; the stream   *)
(* returns exactly the frames the one-shot parser finds, in order, and none *)
(* behind a malformed one; it asks for more only when no complete frame is  *)
(* left, and reports a malformed frame only where there is one (or memory   *)
(* for the payload has run out).                                            *)
ChunkingIrrelevant ==
  /\ FlattenSeq(delivered) \o Remaining = Accepted
  /\ IF conn.proto = "RTU"
     THEN /\ Len(delivered) = Len(bounds)
          /\ \A i \in DOMAIN delivered : delivered[i] = Between(i) /\ RtuParse(delivered[i]).code = "OK"
     ELSE LET whole == OneShot(conn.proto, Accepted)
          IN  /\ IsPrefix(delivered, whole.frames)
              /\ result = "NEED_MORE" => delivered = whole.frames /\ whole.end = "NEED_MORE"
              /\ result \notin {"NONE", "OK", "NEED_MORE", "BUFFER_OVERFLOW"} =>
                   \/ delivered = whole.frames /\ whole.end = result
                   \/ conn.proto = "TLV" /\ result = "INVALID_SIZE"

Payload(frame) ==
  LET m == IF conn.proto = "RTU" THEN RtuParse(frame) ELSE Parse(conn.proto, frame)
  IN  SubSeq(frame, m.off, m.off + m.size - 1)

(* Frames written by the library's own builders come back one by one: when  *)
(* all bytes of such a wire are accepted and the parser asks for more, it   *)
(* has returned each frame (an RTU caller marks the boundaries itself).     *)
(* And an LTV message is only accepted in the encoding ltv_build gives it:  *)
(* overlong or overflowing lengths are refused (ltv_parser.h:16).           *)
RoundTrip ==
  /\ conn.proto = "LTV" =>
       \A i \in DOMAIN delivered :
         LET f == delivered[i]
         IN  f = LtvBuild(f[Len(f) - Len(Payload(f))], Payload(f))
  /\ conn.sent # <<>> /\ since = 0 /\ conn.proto # "RTU" =>
       /\ result \in {"NONE", "OK", "NEED_MORE", "BUFFER_OVERFLOW", "INVALID_SIZE"}
       /\ IsPrefix(delivered, conn.sent)
       /\ taken = Len(conn.bytes) /\ result = "NEED_MORE" => delivered = conn.sent

(* The zero-copy view a call returned shows the payload of that frame until *)
(* the next call.                                                           *)
ViewIntact ==
  result = "OK" => Payload(Last(delivered)) = SubSeq(mem, view.off, view.off + view.size - 1)

(* What the caller was handed stays its own: LTV and RTU views are intact,  *)
(* and in whatever order TLV frames are parsed and freed, a payload the     *)
(* caller holds keeps its bytes of the pool, allocated and given to no      *)
(* later frame, unless one that was parsed before it has been freed since:  *)
(* frame_free then rewinds the pool below both.                             *)
HandedOutIntact ==
  /\ conn.proto \in {"LTV", "RTU"} => ViewIntact
  /\ \A i \in DOMAIN held : ~held[i].owned /\ ~held[i].exposed =>
       /\ held[i].size > 0 /\ held[i].mark + held[i].size <= used
       /\ \A j \in i + 1..Len(held) : ~held[j].owned => held[i].mark + held[i].size <= held[j].mark

============================================================================
