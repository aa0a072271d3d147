-------------------------- MODULE MCFrameStreams --------------------------
(***************************************************************************)
(* Wires for FrameStreams: frames of the library's builders one after the  *)
(* other, the same with one byte changed, and every short sequence of      *)
(* bytes for the varint.                                                   *)
(***************************************************************************)
EXTENDS FrameStreams

MCChecksum(s) == FoldLeft(+, 1, s) % 4

(* A builder that refuses a payload writes nothing. *)
Wire(p, cap, frames) ==
  [proto |-> p, cap |-> cap, bytes |-> FlattenSeq(frames),
   sent |-> SelectSeq(frames, LAMBDA f : f # <<>>)]

Raw(p, cap, d) == [proto |-> p, cap |-> cap, bytes |-> d, sent |-> <<>>]
Corrupt(w) == {Raw(w.proto, w.cap, [w.bytes EXCEPT ![i] = b]) : i \in DOMAIN w.bytes, b \in 0..3}

Values == {<<>>, <<2>>, <<3, 1>>, <<1, 1, 2>>}

TcpWires(c) == {Wire("TCP", c, <<TcpBuild(1, 3, v), TcpBuild(2, 2, w)>>) : v, w \in Values}

(* Buffers that hold every frame, and ones too small for the longest. *)
Built ==
  UNION {
    {Wire("LTV", c, <<LtvBuild(1, v), LtvBuild(2, w)>>) : v, w \in Values \cup {<<1, 2, 3, 0>>}} \cup
    {Wire("TLV", c, <<TlvBuild(v), TlvBuild(w)>>) : v, w \in Values} \cup
    TcpWires(c) \cup
    {Wire("RTU", c, <<RtuBuild(3, v), RtuBuild(2, w)>>) : v, w \in Values} : c \in {5, 8}}

(* Three small frames: a buffer that is refilled behind a returned frame, and *)
(* a pool that is refilled over a payload when an older one was freed.         *)
Three ==
  {Wire("LTV", 5, <<LtvBuild(1, <<2>>), LtvBuild(2, <<>>), LtvBuild(3, <<1>>)>>),
   Wire("TLV", 8, <<TlvBuild(<<2>>), TlvBuild(<<1>>), TlvBuild(<<3>>)>>),
   Wire("TLV", 8, <<TlvBuild(<<2>>), TlvBuild(<<3, 1>>), TlvBuild(<<1, 2>>)>>)}

MCWires ==
  Built \cup Three
    \cup UNION {Corrupt(w) : w \in {v \in Built : Len(v.bytes) = 9}}
    \cup {Raw("LTV", 5, d) : d \in [1..4 -> 0..5]}

(* A buffer for two frames. *)
MCTcpWires == TcpWires(12)

============================================================================
