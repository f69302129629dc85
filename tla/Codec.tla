------------------------------- MODULE Codec -------------------------------
(***************************************************************************)
(* The pure functions of decoder.py and sdo.py: which frames are whose,    *)
(* the payloads of the sensor's frames, the mounting inversions of a track *)
(* and the frames of an expedited SDO transfer.  Bytes are numbers and     *)
(* payloads sequences of bytes; an exception is a result of its own.       *)
(***************************************************************************)
EXTENDS Integers, Sequences

Byte == 0 .. 255
NodeIds == 1 .. 127

\* x & weight # 0, for a weight that is a power of two.
HasBit(x, weight) == (x \div weight) % 2 = 1
BitIf(b, weight) == IF b THEN weight ELSE 0

-----------------------------------------------------------------------------
(* Identifiers *)

FC_TPDO1 == 384
FC_TPDO2 == 640
FC_TPDO3 == 896
FC_SDO_TX == 1408
FC_SDO_RX == 1536
FC_HEARTBEAT == 1792

\* can_id & 0x780, which also forgets the bits above an 11-bit identifier.
FunctionCode(id) == ((id \div 128) % 16) * 128
NodeIdOf(id) == id % 128

\* Slip: a wide identifier is taken for the one its low bits make.
IsNodeFrameAnyWidth(id, n) == NodeIdOf(id) = n

IsNodeFrame(id, n) == NodeIdOf(id) = n /\ id <= 2047

CobIds(n) ==
    [track |-> FC_TPDO1 + n, markers |-> FC_TPDO2 + n, navicode |-> FC_TPDO3 + n,
     heartbeat |-> FC_HEARTBEAT + n, sdo |-> FC_SDO_TX + n, request |-> FC_SDO_RX + n]

\* The payload length a frame must have, by kind.
ExpectedLength == [track |-> 5, markers |-> 8, navicode |-> 3, heartbeat |-> 1]

\* decode_frame: what a frame of the node is, before its length is checked.
KindOf(fc) ==
    IF fc = FC_TPDO1 THEN "track"
    ELSE IF fc = FC_TPDO2 THEN "markers"
    ELSE IF fc = FC_TPDO3 THEN "navicode"
    ELSE IF fc = FC_HEARTBEAT THEN "heartbeat" ELSE "unknown"

DecodedKind(f) ==
    LET kind == KindOf(FunctionCode(f.id)) IN
    IF kind = "unknown" \/ f.length = ExpectedLength[kind] THEN kind ELSE "bad"

\* How _on_frame of the driver sorts a frame: the kinds of Driver.tla.
SortFrame(f, n) ==
    IF f.extended \/ ~IsNodeFrame(f.id, n) THEN "other"
    ELSE IF FunctionCode(f.id) = FC_SDO_TX THEN "sdo"
    ELSE DecodedKind(f)

\* SdoClient._on_frame compares the identifier alone.
IsSdoAnswer(f, n) == f.id = CobIds(n).sdo

-----------------------------------------------------------------------------
(* The status byte of a track and the mounting inversions *)

\* Slip: the two markers are taken for each other, in both directions.
StatusMaskSwapped ==
    [fault |-> 1, left_marker |-> 16, right_marker |-> 8, intersection |-> 32,
     fork |-> 64, merge |-> 128]

\* STATUS_LEFT_MARKER and the other masks of one bit.
StatusMask ==
    [fault |-> 1, left_marker |-> 8, right_marker |-> 16, intersection |-> 32,
     fork |-> 64, merge |-> 128]

DecodeStatus(s) ==
    [strength |-> (s \div 2) % 4,
     left_marker |-> HasBit(s, StatusMask.left_marker),
     right_marker |-> HasBit(s, StatusMask.right_marker),
     intersection |-> HasBit(s, StatusMask.intersection),
     fork |-> HasBit(s, StatusMask.fork), merge |-> HasBit(s, StatusMask.merge),
     fault |-> HasBit(s, StatusMask.fault)]

\* No byte: the ValueError of a strength that does not fit in two bits.
NoStatus == -1

EncodeStatus(r) ==
    IF r.strength \in 0 .. 3
    THEN 2 * r.strength
           + BitIf(r.left_marker, StatusMask.left_marker)
           + BitIf(r.right_marker, StatusMask.right_marker)
           + BitIf(r.intersection, StatusMask.intersection)
           + BitIf(r.fork, StatusMask.fork) + BitIf(r.merge, StatusMask.merge)
           + BitIf(r.fault, StatusMask.fault)
    ELSE NoStatus

(* Payloads; what encode_status or struct.pack refuses is the empty payload *)

\* Two's complement, of one byte and of two with the low one first.
Signed(x, range) == IF x < range \div 2 THEN x ELSE x - range
Signed8(b) == Signed(b, 256)
Signed16(low, high) == Signed(low + 256 * high, 65536)
Bytes16(x) == <<x % 256, (x \div 256) % 256>>
Int8 == -128 .. 127
Half16 == 32768
Int16 == -Half16 .. Half16 - 1
Word == 0 .. 2 * Half16 - 1

DecodeTrack(d) ==
    [leftPosition |-> Signed8(d[1]), rightPosition |-> Signed8(d[2]),
     leftAngle |-> Signed8(d[3]), rightAngle |-> Signed8(d[4]), status |-> DecodeStatus(d[5])]

EncodeTrack(t) ==
    IF /\ {t.leftPosition, t.rightPosition, t.leftAngle, t.rightAngle} \subseteq Int8
       /\ EncodeStatus(t.status) # NoStatus
    THEN <<t.leftPosition % 256, t.rightPosition % 256, t.leftAngle % 256,
           t.rightAngle % 256, EncodeStatus(t.status)>>
    ELSE <<>>

DecodeMarkers(d) ==
    [leftX |-> Signed16(d[1], d[2]), leftY |-> Signed16(d[3], d[4]),
     rightX |-> Signed16(d[5], d[6]), rightY |-> Signed16(d[7], d[8])]

EncodeMarkers(m) ==
    IF {m.leftX, m.leftY, m.rightX, m.rightY} \subseteq Int16
    THEN Bytes16(m.leftX) \o Bytes16(m.leftY) \o Bytes16(m.rightX) \o Bytes16(m.rightY)
    ELSE <<>>

DecodeNavicode(d) == [code |-> d[1] + 256 * d[2], counter |-> d[3]]
EncodeNavicode(v) == Bytes16(v.code) \o <<v.counter % 256>>

DecodeHeartbeat(d) == d[1]
EncodeHeartbeat(state) == <<state % 256>>

SingleTrack(t) == t.leftPosition = t.rightPosition /\ t.leftAngle = t.rightAngle

Sign(invert) == IF invert THEN -1 ELSE 1

\* Slip: the right angle is left as it is.
ApplyInversionsLeftOnly(t, position, angle) ==
    [leftPosition |-> Sign(position) * t.leftPosition,
     rightPosition |-> Sign(position) * t.rightPosition,
     leftAngle |-> Sign(angle) * t.leftAngle, rightAngle |-> t.rightAngle]

\* apply_inversions; the status goes along unchanged.  The result need not fit
\* in a byte any more: -128 becomes 128.
ApplyInversions(t, position, angle) ==
    [leftPosition |-> Sign(position) * t.leftPosition,
     rightPosition |-> Sign(position) * t.rightPosition,
     leftAngle |-> Sign(angle) * t.leftAngle, rightAngle |-> Sign(angle) * t.rightAngle]

-----------------------------------------------------------------------------
(* Expedited SDO frames *)

CCS_DOWNLOAD == 32
CCS_UPLOAD == 64
SCS_UPLOAD == 64
SCS_DOWNLOAD == 96
CS_ABORT == 128

Zeros(n) == [i \in 1 .. n |-> 0]
Header(cmd, index, sub) == <<cmd, index % 256, (index \div 256) % 256, sub % 256>>

\* 1 to 4 bytes, their number in bits 3..2, e = s = 1; otherwise a ValueError,
\* here the empty frame.
Expedited(specifier, index, sub, data) ==
    IF Len(data) \in 1 .. 4
    THEN Header(specifier + 4 * (4 - Len(data)) + 3, index, sub)
           \o data \o Zeros(4 - Len(data))
    ELSE <<>>

BuildDownload(index, sub, data) == Expedited(CCS_DOWNLOAD, index, sub, data)
BuildUploadResponse(index, sub, data) == Expedited(SCS_UPLOAD, index, sub, data)
BuildUpload(index, sub) == Header(CCS_UPLOAD, index, sub) \o Zeros(4)
BuildDownloadResponse(index, sub) == Header(SCS_DOWNLOAD, index, sub) \o Zeros(4)

\* The abort code, four bytes, is given as they are sent.
BuildAbort(index, sub, code) == Header(CS_ABORT, index, sub) \o code

ProtocolError == [kind |-> "error"]
Message(kind, d, data) ==
    [kind |-> kind, index |-> d[2] + 256 * d[3], sub |-> d[4], data |-> data]

Specifier(d) == (d[1] \div 32) * 32

\* Slip: the size is read although it is not indicated.
PayloadUnsized(d) == SubSeq(d, 5, 8 - ((d[1] \div 4) % 4))

\* The bytes of an expedited transfer; all four when no size is indicated.
Payload(d) == SubSeq(d, 5, 8 - (IF HasBit(d[1], 1) THEN (d[1] \div 4) % 4 ELSE 0))

ExpeditedMessage(kind, d) ==
    IF HasBit(d[1], 2) THEN Message(kind, d, Payload(d)) ELSE ProtocolError

ParseRequest(d) ==
    IF Len(d) # 8 THEN ProtocolError
    ELSE IF Specifier(d) = CCS_DOWNLOAD THEN ExpeditedMessage("download", d)
    ELSE IF Specifier(d) = CCS_UPLOAD THEN Message("upload", d, <<>>)
    ELSE IF Specifier(d) = CS_ABORT THEN Message("abort", d, SubSeq(d, 5, 8))
    ELSE ProtocolError

ParseResponse(d) ==
    IF Len(d) # 8 THEN ProtocolError
    ELSE IF Specifier(d) = SCS_DOWNLOAD THEN Message("download", d, <<>>)
    ELSE IF Specifier(d) = SCS_UPLOAD THEN ExpeditedMessage("upload", d)
    ELSE IF Specifier(d) = CS_ABORT THEN Message("abort", d, SubSeq(d, 5, 8))
    ELSE ProtocolError

\* write_u8, write_u16 and write_u32 keep the low bytes of a value; the readers
\* pad what is short and cut what is long.
Place == <<1, 256, 65536, 16777216>>
Pack(value, width) == [i \in 1 .. width |-> (value \div Place[i]) % 256]
Unpack(data, width) ==
    LET d == data \o Zeros(width)
        part(i) == IF i <= width THEN d[i] * Place[i] ELSE 0
    IN  part(1) + part(2) + part(3) + part(4)

\* The ValueErrors of the callers' checks are the empty frame again.
EventTimer(tpdo) == 6144 + tpdo - 1
SetTpdoPeriod(tpdo, period) ==
    IF tpdo \in 1 .. 3 /\ period \in Word
    THEN BuildDownload(EventTimer(tpdo), 5, Pack(period, 2)) ELSE <<>>
GetTpdoPeriod(tpdo) == IF tpdo \in 1 .. 3 THEN BuildUpload(EventTimer(tpdo), 5) ELSE <<>>

-----------------------------------------------------------------------------
(* What the functions promise *)

\* A frame belongs to one node at most, and the frames of a node are those of
\* its six identifiers: no other identifier is sorted as one of them, and
\* among standard frames driver and SDO client agree on what is an answer.
SortedFor(f, n) ==
    LET kind == SortFrame(f, n)
        ids  == CobIds(n)
    IN  /\ \A m \in NodeIds \ {n} : kind # "other" => SortFrame(f, m) = "other"
        /\ \A k \in DOMAIN ExpectedLength :
              kind = k <=> ~f.extended /\ f.id = ids[k] /\ f.length = ExpectedLength[k]
        /\ kind = "bad" => \E k \in DOMAIN ExpectedLength :
                              f.id = ids[k] /\ f.length # ExpectedLength[k]
        /\ ~f.extended => (kind = "sdo" <=> IsSdoAnswer(f, n))

\* Nothing of the status byte is lost: decoding and encoding it again gives it
\* back, reserved bit included.
StatusRoundTrip(s) == EncodeStatus(DecodeStatus(s)) = s

\* The fields make up the byte in the order decoder.py:17 lists them: merge,
\* fork, intersection, right marker, left marker, two bits of strength, fault.
\* This is told without the masks that decoder and encoder share.
StatusAsDocumented(s) ==
    LET r == DecodeStatus(s)
        flags == <<r.merge, r.fork, r.intersection, r.right_marker, r.left_marker>>
    IN  /\ \A i \in 1 .. 5 : flags[i] <=> HasBit(s, <<128, 64, 32, 16, 8>>[i])
        /\ r.strength = (s % 8) \div 2
        /\ r.fault <=> s % 2 = 1

\* Any flags go with any strength of two bits and are read back; another
\* strength makes no status byte.
FieldsRoundTrip(r) ==
    IF r.strength \in 0 .. 3 THEN DecodeStatus(EncodeStatus(r)) = r
    ELSE EncodeStatus(r) = NoStatus

\* Nothing of a payload is lost: decoding and encoding it gives it back.
PayloadRoundTrip(kind, d) ==
    /\ kind = "track" => EncodeTrack(DecodeTrack(d)) = d
    /\ kind = "markers" => EncodeMarkers(DecodeMarkers(d)) = d
    /\ kind = "navicode" => EncodeNavicode(DecodeNavicode(d)) = d
    /\ kind = "heartbeat" => EncodeHeartbeat(DecodeHeartbeat(d)) = d

\* An inversion undoes itself, whichever of the two are set, and a single
\* track stays single.
InversionsCancel(t, position, angle) ==
    LET u == ApplyInversions(t, position, angle) IN
    /\ ApplyInversions(u, position, angle) = t
    /\ SingleTrack(u) <=> SingleTrack(t)

\* What one side builds the other side reads, whatever the number of bytes;
\* what is no expedited transfer is refused; an answer whose size is not
\* indicated has four bytes; a request is never read as its own answer.
TransferRoundTrip(index, sub, data) ==
    LET ok == Len(data) \in 1 .. 4
        about(kind, d) == [kind |-> kind, index |-> index, sub |-> sub, data |-> d]
        request == BuildDownload(index, sub, data)
        answer  == BuildUploadResponse(index, sub, data)
    IN  /\ ParseRequest(request) = IF ok THEN about("download", data) ELSE ProtocolError
        /\ ParseResponse(answer) = IF ok THEN about("upload", data) ELSE ProtocolError
        /\ ParseRequest(BuildUpload(index, sub)) = about("upload", <<>>)
        /\ ParseResponse(BuildDownloadResponse(index, sub)) = about("download", <<>>)
        /\ Len(data) = 4 =>
              /\ ParseResponse(BuildAbort(index, sub, data)) = about("abort", data)
              /\ \A n \in 0 .. 3 :
                    ParseResponse(Header(SCS_UPLOAD + 4 * n + 2, index, sub) \o data)
                      = about("upload", data)
        /\ ParseResponse(request) = ProtocolError
        /\ ParseResponse(BuildUpload(index, sub)) = ProtocolError

\* A TPDO period the driver writes is the period it reads back, from the same
\* object, and no TPDO gets that of another; what has no such object or does
\* not fit in 16 bits is not sent.
PeriodRoundTrip(tpdo, period) ==
    LET request == ParseRequest(SetTpdoPeriod(tpdo, period))
        asked   == ParseRequest(GetTpdoPeriod(tpdo))
        answer  == ParseResponse(BuildUploadResponse(asked.index, asked.sub, request.data))
    IN  IF tpdo \notin 1 .. 3 \/ period \notin Word
        THEN request = ProtocolError
        ELSE /\ answer.kind = "upload"
             /\ Unpack(answer.data, 2) = period
             /\ <<asked.index, asked.sub>> = <<request.index, request.sub>>
             /\ \A other \in 1 .. 3 \ {tpdo} :
                   ParseRequest(GetTpdoPeriod(other)).index # request.index

\* What was written is read back modulo the width, by any wider reader too.
Limit(width) == IF width < 4 THEN Place[width + 1] ELSE 65536 * 65536
ValueRoundTrip(value, width, wider) ==
    Unpack(Pack(value, width), wider) = value % Limit(width)
=============================================================================
