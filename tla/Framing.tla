------------------------------ MODULE Framing ------------------------------
(***************************************************************************)
(* The wire format of Message (serialize, deserialize, encodeData,         *)
(* decodeData, calculateChecksum, verifyChecksum, calculateCRC32) as       *)
(* operators over byte sequences, and one direction of a TLS stream: a     *)
(* sender building messages the way MessageFactory and UserInterface do    *)
(* and writing them with TLSSocket::sendMessage, and a receiver running    *)
(* TLSSocket::receiveMessage.                                              *)
(*                                                                         *)
(* A byte is a number in 0..255; a string (key or value) is a sequence of  *)
(* bytes; the body data_ is a function from keys to values, as the         *)
(* std::map it models.                                                     *)
(***************************************************************************)
EXTENDS Naturals, Sequences, FiniteSets, SequencesExt, Bitwise

CONSTANTS
    Types,          \* MessageType values the sender uses
    Keys,           \* keys the sender may set (byte sequences)
    Values,         \* values the sender may set (byte sequences)
    MaxEntries,     \* bound on the keys of one message
    MaxFrames       \* bound on the frames sent on the stream

Magic == 1414548816         \* 0x54504D50, "TPMP"
Half == 65536               \* 2^16
HeaderSize == 24            \* sizeof(Header), packed

\* A uint32_t that may exceed TLC's 31-bit integers (the checksum, the CRC
\* register) is a pair <<high 16 bits, low 16 bits>>.
Poly == <<60856, 33568>>    \* 0xEDB88320
Ones == <<65535, 65535>>    \* 0xFFFFFFFF
-----------------------------------------------------------------------------
(* Network byte order: htonl / htons followed by a byte copy, and the      *)
(* memcpy + ntohl of a decoder.                                            *)

U32(n) == << (n \div 16777216) % 256, (n \div 65536) % 256, (n \div 256) % 256, n % 256 >>

U16(n) == << (n \div 256) % 256, n % 256 >>

ReadU32(s, i) == ((s[i] * 256 + s[i + 1]) * 256 + s[i + 2]) * 256 + s[i + 3]

ReadU16(s, i) == s[i] * 256 + s[i + 1]

W32(w) == U16(w[1]) \o U16(w[2])

ReadW32(s, i) == <<ReadU16(s, i), ReadU16(s, i + 2)>>

\* std::string's operator< : bytes compared as unsigned char, a proper
\* prefix first
RECURSIVE KeyLess(_, _)
KeyLess(a, b) ==
    IF a = <<>> \/ b = <<>> THEN a = <<>> /\ b # <<>>
    ELSE IF Head(a) # Head(b) THEN Head(a) < Head(b)
    ELSE KeyLess(Tail(a), Tail(b))

-----------------------------------------------------------------------------
(* Message                                                                 *)

\* Message::clear and the constructor Message(type): header_ = {} with the
\* magic and version set; sequence_id and session_id are never assigned
\* anywhere in the code and stay 0.
Build(type) ==
    [magic |-> Magic, version |-> 1, type |-> type, length |-> 0,
     sequence_id |-> 0, session_id |-> 0, checksum |-> <<0, 0>>, data |-> <<>>]

\* mutant: lengths copied in host (little-endian) order, htonl forgotten
EncodeDataHostOrder(data) ==
    LET keys == SetToSortSeq(DOMAIN data, KeyLess)
        LE(n) == << n % 256, (n \div 256) % 256, (n \div 65536) % 256, (n \div 16777216) % 256 >>
        Entry(k) == LE(Len(k)) \o k \o LE(Len(data[k])) \o data[k]
    IN FoldLeft(LAMBDA acc, k : acc \o Entry(k), <<>>, keys)

\* encodeData: the entries in std::map order, each as
\* key_len:u32, key, val_len:u32, value
EncodeData(data) ==
    LET keys == SetToSortSeq(DOMAIN data, KeyLess)
        Entry(k) == U32(Len(k)) \o k \o U32(Len(data[k])) \o data[k]
    IN FoldLeft(LAMBDA acc, k : acc \o Entry(k), <<>>, keys)

\* addString: data_[key] = value, then header_.length refreshed
AddString(m, k, v) ==
    LET data == [x \in DOMAIN m.data \cup {k} |-> IF x = k THEN v ELSE m.data[x]]
    IN [m EXCEPT !.data = data, !.length = Len(EncodeData(data))]

\* serialize: the header in network order, then encodeData()
Serialize(m) ==
    U32(m.magic) \o U16(m.version) \o U16(m.type) \o U32(m.length)
        \o U32(m.sequence_id) \o U32(m.session_id) \o W32(m.checksum)
        \o EncodeData(m.data)

\* decodeData: read entries while a length word fits; a later entry with
\* the same key replaces the earlier one.  Every early break returns
\* pos == data.size() with pos as far as it got, so a body that ends right
\* after a length word or a key also decodes "successfully".
RECURSIVE DecodeFrom(_, _, _)
DecodeFrom(s, pos, data) ==
    LET p1 == pos + 4
        klen == ReadU32(s, pos + 1)
        p2 == p1 + klen
        p3 == p2 + 4
        vlen == ReadU32(s, p2 + 1)
        key == SubSeq(s, p1 + 1, p2)
    IN CASE pos + 4 > Len(s) -> [ok |-> pos = Len(s), data |-> data]
         [] p2 > Len(s)      -> [ok |-> p1 = Len(s), data |-> data]
         [] p3 > Len(s)      -> [ok |-> p2 = Len(s), data |-> data]
         [] p3 + vlen > Len(s) -> [ok |-> p3 = Len(s), data |-> data]
         [] OTHER -> DecodeFrom(s, p3 + vlen,
                        [x \in DOMAIN data \cup {key} |->
                            IF x = key THEN SubSeq(s, p3 + 1, p3 + vlen) ELSE data[x]])

DecodeData(s) == DecodeFrom(s, 0, <<>>)

\* mutant: version and type read from each other's offsets
DeserializeSwapped(s) ==
    IF Len(s) < HeaderSize THEN [ok |-> FALSE]
    ELSE LET hdr == [magic |-> ReadU32(s, 1), version |-> ReadU16(s, 7),
                     type |-> ReadU16(s, 5), length |-> ReadU32(s, 9),
                     sequence_id |-> ReadU32(s, 13), session_id |-> ReadU32(s, 17),
                     checksum |-> ReadW32(s, 21)]
             body == DecodeData(SubSeq(s, HeaderSize + 1, HeaderSize + hdr.length))
         IN IF hdr.magic # Magic \/ Len(s) < HeaderSize + hdr.length
            THEN [ok |-> FALSE]
            ELSE [ok |-> body.ok, msg |-> [f \in DOMAIN hdr \cup {"data"} |->
                                            IF f = "data" THEN body.data ELSE hdr[f]]]

\* deserialize: at least a header, the magic, and at least length body
\* bytes (bytes beyond header + length are ignored)
Deserialize(s) ==
    IF Len(s) < HeaderSize THEN [ok |-> FALSE]
    ELSE LET hdr == [magic |-> ReadU32(s, 1), version |-> ReadU16(s, 5),
                     type |-> ReadU16(s, 7), length |-> ReadU32(s, 9),
                     sequence_id |-> ReadU32(s, 13), session_id |-> ReadU32(s, 17),
                     checksum |-> ReadW32(s, 21)]
             body == DecodeData(SubSeq(s, HeaderSize + 1, HeaderSize + hdr.length))
         IN IF hdr.magic # Magic \/ Len(s) < HeaderSize + hdr.length
            THEN [ok |-> FALSE]
            ELSE [ok |-> body.ok, msg |-> [f \in DOMAIN hdr \cup {"data"} |->
                                            IF f = "data" THEN body.data ELSE hdr[f]]]

-----------------------------------------------------------------------------
(* CRC32                                                                   *)

XorW(a, b) == <<a[1] ^^ b[1], a[2] ^^ b[2]>>

AndW(a, b) == <<a[1] & b[1], a[2] & b[2]>>

ShiftR1(w) == <<shiftR(w[1], 1), shiftR(w[2], 1) + (w[1] % 2) * (Half \div 2)>>

\* mutant: the mask is crc & 1 itself, the negation dropped
CRC32StepNoNegate(crc) ==
    LET mask == crc[2] % 2
    IN XorW(ShiftR1(crc), AndW(Poly, <<mask, mask>>))

\* the code's bit step on a uint32_t:
\*   crc = (crc >> 1) ^ (0xEDB88320u & (-(static_cast<int32_t>(crc) & 1)))
\* -(int32_t)(crc & 1) is 0 or -1, i.e. 0 or 0xFFFFFFFF as a uint32_t
CRC32Step(crc) ==
    LET mask == (Half - (crc[2] % 2)) % Half
    IN XorW(ShiftR1(crc), AndW(Poly, <<mask, mask>>))

Register == (0..(Half - 1)) \X (0..(Half - 1))

\* the two loops of calculateCRC32: crc ^= byte, then eight bit steps.
\* Written as recursive functions: an argument of a function application
\* is evaluated before the call, so each register value is computed once.
CRC32Bits[crc \in Register, n \in 0..8] ==
    IF n = 0 THEN crc ELSE CRC32Bits[CRC32Step(crc), n - 1]

CRC32Bytes[crc \in Register, s \in Seq(0..255)] ==
    IF s = <<>> THEN crc
    ELSE CRC32Bytes[CRC32Bits[XorW(crc, <<0, Head(s)>>), 8], Tail(s)]

\* calculateCRC32: init 0xFFFFFFFF, final ~crc
CalculateCRC32(s) ==
    LET crc == CRC32Bytes[Ones, s] IN <<65535 - crc[1], 65535 - crc[2]>>

\* mutant: the old checksum is left in the frame the CRC is taken over
CalculateChecksumNoReset(m) ==
    [m EXCEPT !.checksum = CalculateCRC32(Serialize(m))]

\* calculateChecksum: CRC32 over serialize() with the checksum field zeroed
CalculateChecksum(m) ==
    [m EXCEPT !.checksum = CalculateCRC32(Serialize([m EXCEPT !.checksum = <<0, 0>>]))]

\* verifyChecksum: recompute with checksum zeroed and compare
VerifyChecksum(m) ==
    m.checksum = CalculateCRC32(Serialize([m EXCEPT !.checksum = <<0, 0>>]))

\* mutant: the length prefix copied without htonl
SerializeStreamHostOrder(m) ==
    LET n == Len(Serialize(m))
    IN << n % 256, (n \div 256) % 256, (n \div 65536) % 256, (n \div 16777216) % 256 >> \o Serialize(m)

\* serializeStream: a u32 network-order length, then serialize()
SerializeStream(m) == U32(Len(Serialize(m))) \o Serialize(m)

\* deserializeStream: the length prefix, then deserialize of exactly that
\* many bytes
DeserializeStream(s) ==
    IF Len(s) < 4 \/ Len(s) < 4 + ReadU32(s, 1) THEN [ok |-> FALSE]
    ELSE Deserialize(SubSeq(s, 5, 4 + ReadU32(s, 1)))

\* CRC-32 as the spec defines it (reflected polynomial 0xEDB88320, init and
\* final XOR 0xFFFFFFFF), bit by bit with a conditional instead of the
\* code's mask
RefCRCStep(crc) == IF crc[2] % 2 = 1 THEN XorW(ShiftR1(crc), Poly) ELSE ShiftR1(crc)

RefCRCBits[crc \in Register, n \in 0..8] ==
    IF n = 0 THEN crc ELSE RefCRCBits[RefCRCStep(crc), n - 1]

RefCRCBytes[crc \in Register, s \in Seq(0..255)] ==
    IF s = <<>> THEN crc
    ELSE RefCRCBytes[RefCRCBits[XorW(crc, <<0, Head(s)>>), 8], Tail(s)]

RefCRC32(s) == XorW(Ones, RefCRCBytes[Ones, s])

-----------------------------------------------------------------------------
(* One direction of a connection                                           *)

VARIABLES
    spc,        \* sender: "idle" | "building"
    msg,        \* the Message the sender is building
    sealed,     \* calculateChecksum was the last call on msg
    wire,       \* bytes written and not yet read
    sent,       \* history: the messages written, in order
    got,        \* history: the messages receiveMessage returned, in order
    open        \* receiveMessage has not failed (the connection loop goes on)

vars == <<spc, msg, sealed, wire, sent, got, open>>

Byte == 0..255

Msg == [magic: {Magic}, version: {1}, type: Types \cup {0}, length: Nat,
        sequence_id: {0}, session_id: {0}, checksum: (0..(Half - 1)) \X (0..(Half - 1)),
        data: UNION {[D -> Values] : D \in SUBSET Keys}]

TypeOK ==
    /\ spc \in {"idle", "building"}
    /\ msg \in Msg
    /\ sealed \in BOOLEAN
    /\ wire \in Seq(Byte)
    /\ sent \in Seq(Msg)
    /\ got \in Seq(Msg)
    /\ open \in BOOLEAN

Init ==
    /\ spc = "idle"
    /\ msg = Build(0)
    /\ sealed = FALSE
    /\ wire = <<>>
    /\ sent = <<>>
    /\ got = <<>>
    /\ open = TRUE

\* MessageFactory::create* / Message m(type)
New(t) ==
    /\ spc = "idle"
    /\ Len(sent) < MaxFrames
    /\ msg' = Build(t)
    /\ spc' = "building"
    /\ sealed' = FALSE
    /\ UNCHANGED <<wire, sent, got, open>>

\* addString / addInt / addBool (all store text)
Add(k, v) ==
    /\ spc = "building"
    /\ k \in DOMAIN msg.data \/ Cardinality(DOMAIN msg.data) < MaxEntries
    /\ msg' = AddString(msg, k, v)
    /\ sealed' = FALSE
    /\ UNCHANGED <<spc, wire, sent, got, open>>

\* calculateChecksum, as every factory and UserInterface handler calls it
\* (again) after its last add
Seal ==
    /\ spc = "building"
    /\ msg' = CalculateChecksum(msg)
    /\ sealed' = TRUE
    /\ UNCHANGED <<spc, wire, sent, got, open>>

\* TLSSocket::sendMessage: write serialize() in full
SendMessage ==
    /\ spc = "building"
    /\ sealed
    /\ wire' = wire \o Serialize(msg)
    /\ sent' = Append(sent, msg)
    /\ spc' = "idle"
    /\ UNCHANGED <<msg, sealed, got, open>>

\* TLSSocket::receiveMessage: read a header, check the magic, read length
\* more bytes, deserialize [header][payload]; nullptr ends the connection
ReceiveMessage ==
    /\ open
    /\ Len(wire) >= HeaderSize
    /\ LET length == ReadU32(wire, 9)
           frame == SubSeq(wire, 1, HeaderSize + length)
           d == Deserialize(frame)
       IN IF ReadU32(wire, 1) # Magic
          THEN open' = FALSE /\ UNCHANGED <<wire, got>>
          ELSE /\ Len(wire) >= HeaderSize + length
               /\ wire' = SubSeq(wire, HeaderSize + length + 1, Len(wire))
               /\ IF d.ok THEN got' = Append(got, d.msg) /\ UNCHANGED open
                          ELSE open' = FALSE /\ UNCHANGED got
    /\ UNCHANGED <<spc, msg, sealed, sent>>

Next ==
    \/ \E t \in Types : New(t)
    \/ \E k \in Keys, v \in Values : Add(k, v)
    \/ Seal
    \/ SendMessage
    \/ ReceiveMessage

Spec == Init /\ [][Next]_vars

-----------------------------------------------------------------------------
(* Properties                                                              *)

\* Frames written with sendMessage are read back by receiveMessage one by
\* one and in order, equal to what was sent, and the stream holds exactly
\* the frames not yet read (spec 8: decode(encode(m)) = m; successive
\* frames extracted exactly, leaving an empty buffer).
ReceiveRoundTrip ==
    /\ open
    /\ got = SubSeq(sent, 1, Len(got))
    /\ wire = FoldLeft(LAMBDA acc, m : acc \o Serialize(m), <<>>,
                       SubSeq(sent, Len(got) + 1, Len(sent)))

\* Every message sent comes back whole from the stream framing of
\* serializeStream / deserializeStream (spec 8, stream-level round trip).
StreamFramingRoundTrip ==
    \A i \in 1..Len(sent) :
        DeserializeStream(SerializeStream(sent[i])) = [ok |-> TRUE, msg |-> sent[i]]

\* Every message receiveMessage returns passes verifyChecksum, because the
\* sender called calculateChecksum after its last add, however often it
\* was called before (spec 8).
ChecksumsVerify == \A i \in 1..Len(got) : VerifyChecksum(got[i])

\* The checksum the code's calculateCRC32 put in every sent message is the
\* CRC-32 of the spec (polynomial, init and final XOR) over its serialized
\* frame with the checksum zeroed.
CRCMatchesReference ==
    \A i \in 1..Len(sent) :
        sent[i].checksum = RefCRC32(Serialize([sent[i] EXCEPT !.checksum = <<0, 0>>]))

====
