---------------------------- MODULE MCRtcmFramer ----------------------------
(***************************************************************************)
(* Small streams for RtcmFramer: up to MaxSegments segments, each one a    *)
(* kind of data that the handler must tell apart.                          *)
(***************************************************************************)
EXTENDS RtcmFramer, SequencesExt, FiniteSetsExt

CONSTANT MaxSegments

\* A checksum in place of crc24q: it depends on every byte.
MCHash(s) == <<Len(s) % 4, FoldSeq(LAMBDA b, sum : (b + 3 * sum) % 256, 0, s), 0>>

WithCRC(s) == s \o MCHash(s)

FrameOf(payload) == WithCRC(<<211, 0, Len(payload)>> \o payload)

\* A type 1 frame of one byte: the type is completed by a byte of the CRC.
\* Its payload and the low half of its type are arbitrary.
Shortest == FrameOf(<<0>>)
\* A frame whose payload holds start bytes.
StartBytesInside == FrameOf(<<62, 211, 211, 0>>)
\* An MSM7 (type 1077) with a timestamp and one with too few bytes for it.
Msm == FrameOf(<<67, 80, 0, 1>>)
ShortMsm == FrameOf(<<67, 80>>)
Corrupt == [Shortest EXCEPT ![6] = (@ + 1) % 256]
ZeroLength == <<211, 0, 0, 7, 7>>
BadLeader == <<211, 8, 1, 7, 7>>
Other == <<7, 9>>
LoneStart == <<211>>

Segment == {Shortest, StartBytesInside, Msm, Corrupt, ZeroLength, BadLeader,
            Other, LoneStart}

MCStreams ==
  {FlattenSeq(s) : s \in UNION {[1..n -> Segment] : n \in 0..MaxSegments}}
    \cup {Other \o ShortMsm}
=============================================================================
