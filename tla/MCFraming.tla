----------------------------- MODULE MCFraming -----------------------------
EXTENDS Framing, TLC

\* RESERVE_SEAT and ADD_MEMBER_TO_GROUP (1001: both bytes of the type)
MCTypes == {7, 1001}

\* "a", "ab" (a proper prefix orders first) and a byte above 127 (compared
\* as unsigned char)
MCKeys == {<<97>>, <<97, 98>>, <<200>>}

MCValues == {<<>>, <<255>>}

\* Every message the sender can build, with its checksum still zero, and
\* the frames calculateChecksum runs calculateCRC32 over.
MCBodies == UNION {[D -> Values] : D \in {D \in SUBSET Keys : Cardinality(D) <= MaxEntries}}

MCFrames ==
    {Serialize([Build(t) EXCEPT !.data = d, !.length = Len(EncodeData(d))]) :
        t \in Types, d \in MCBodies}

\* calculateCRC32 and the reference CRC-32, computed once per frame: the
\* bit-level evaluation of Bitwise is too slow to repeat in every state.
\* Both tables evaluate the operators of Framing; a frame outside them is
\* computed directly.
MCCRCTable == [f \in MCFrames |-> LET crc == CRC32Bytes[Ones, f] IN <<65535 - crc[1], 65535 - crc[2]>>]

MCRef(s) == XorW(Ones, RefCRCBytes[Ones, s])

MCRefTable == [f \in MCFrames |-> MCRef(f)]

MCCalculateCRC32(s) ==
    IF s \in MCFrames THEN MCCRCTable[s]
    ELSE LET crc == CRC32Bytes[Ones, s] IN <<65535 - crc[1], 65535 - crc[2]>>

MCRefCRC32(s) == IF s \in MCFrames THEN MCRefTable[s] ELSE MCRef(s)

\* the standard CRC-32 check value: "123456789" -> 0xCBF43926
ASSUME MCRef(<<49, 50, 51, 52, 53, 54, 55, 56, 57>>) = <<52212, 14630>>

====
