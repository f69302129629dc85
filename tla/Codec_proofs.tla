---------------------------- MODULE Codec_proofs ----------------------------
(***************************************************************************)
(* Proofs about Codec, for every identifier, payload and track, and of the *)
(* invariants of MCCodec from them.                                        *)
(***************************************************************************)
EXTENDS MCCodec, SequenceTheorems, TLAPS

\* A frame is of one node at most, whatever its identifier, length and width
\* (decoder.py is_node_frame).
THEOREM OneNode ==
    ASSUME NEW f, NEW n \in NodeIds, NEW m \in NodeIds \ {n}, SortFrame(f, n) # "other"
    PROVE  SortFrame(f, m) = "other"
  BY DEF SortFrame, IsNodeFrame

\* The identifiers of a node are told apart and lead back to it
\* (decoder.py cob_ids, node_id_of, function_code).
LEMMA IdParts ==
    ASSUME NEW n \in NodeIds,
           NEW fc \in {FC_TPDO1, FC_TPDO2, FC_TPDO3, FC_SDO_TX, FC_HEARTBEAT}
    PROVE  NodeIdOf(fc + n) = n /\ FunctionCode(fc + n) = fc /\ fc + n <= 2047
  BY DEF NodeIds, FC_TPDO1, FC_TPDO2, FC_TPDO3, FC_SDO_TX, FC_HEARTBEAT, NodeIdOf, FunctionCode

\* The other way round: a node and a function code make one identifier.
LEMMA PartsId ==
    ASSUME NEW id \in Nat, id <= 2047
    PROVE  id = FunctionCode(id) + NodeIdOf(id)
<1> DEFINE q == id \div 128
           r == id % 128
<1>1. q \in Int /\ r \in Int /\ id = 128 * q + r /\ 0 <= r /\ r < 128
  OBVIOUS
<1>2. FunctionCode(id) = (q % 16) * 128 /\ NodeIdOf(id) = r
  BY DEF FunctionCode, NodeIdOf
<1> HIDE DEF q, r
<1>3. 0 <= q /\ q < 16
  BY <1>1
<1>4. q % 16 = q
  BY <1>1, <1>3
<1> QED  BY <1>1, <1>2, <1>4

\* A byte is the sum of its bits, two of them taken together as the strength.
LEMMA BitsOfByte ==
    ASSUME NEW s \in 0 .. 255
    PROVE  s = 2 * ((s \div 2) % 4) + 8 * ((s \div 8) % 2) + 16 * ((s \div 16) % 2)
                 + 32 * ((s \div 32) % 2) + 64 * ((s \div 64) % 2)
                 + 128 * ((s \div 128) % 2) + (s % 2)
  OBVIOUS

\* Where the flags are.
LEMMA MaskValues ==
    /\ StatusMask.fault = 1 /\ StatusMask.left_marker = 8 /\ StatusMask.right_marker = 16
    /\ StatusMask.intersection = 32 /\ StatusMask.fork = 64 /\ StatusMask.merge = 128
BY DEF StatusMask

\* What encode_status returns for a strength it accepts.
Encoded(strength, left, right, intersection, fork, merge, fault) ==
    2 * strength + BitIf(left, 8) + BitIf(right, 16) + BitIf(intersection, 32)
      + BitIf(fork, 64) + BitIf(merge, 128) + BitIf(fault, 1)

\* EncodeStatus, with the masks filled in.
LEMMA EncodeIs ==
    ASSUME NEW r
    PROVE  EncodeStatus(r) =
             IF r.strength \in 0 .. 3
             THEN Encoded(r.strength, r.left_marker, r.right_marker, r.intersection, r.fork,
                          r.merge, r.fault)
             ELSE NoStatus
  BY MaskValues DEF EncodeStatus, Encoded

\* DecodeStatus, with the masks filled in.
LEMMA DecodeIs ==
    ASSUME NEW s
    PROVE  LET r == DecodeStatus(s) IN
           /\ r.strength = (s \div 2) % 4
           /\ r.left_marker = HasBit(s, 8) /\ r.right_marker = HasBit(s, 16)
           /\ r.intersection = HasBit(s, 32) /\ r.fork = HasBit(s, 64)
           /\ r.merge = HasBit(s, 128) /\ r.fault = HasBit(s, 1)
  BY MaskValues DEF DecodeStatus

\* The status byte is decoded without loss (decoder.py decode_status).
THEOREM StatusKeptAlways == \A s \in Byte : StatusRoundTrip(s)
<1> SUFFICES ASSUME NEW s \in Byte PROVE EncodeStatus(DecodeStatus(s)) = s
  BY DEF StatusRoundTrip
<1> DEFINE flag(w) == BitIf(HasBit(s, w), w)
<1>1. s \in 0 .. 255
  BY DEF Byte
<1>0. (s \div 2) % 4 \in 0 .. 3
  BY <1>1
<1>2. EncodeStatus(DecodeStatus(s))
        = 2 * ((s \div 2) % 4) + flag(8) + flag(16) + flag(32) + flag(64) + flag(128) + flag(1)
  BY <1>0, EncodeIs, DecodeIs DEF Encoded
<1>3. flag(1) = s % 2
  BY <1>1 DEF BitIf, HasBit
<1>4. flag(8) = 8 * ((s \div 8) % 2)
  BY <1>1 DEF BitIf, HasBit
<1>5. flag(16) = 16 * ((s \div 16) % 2)
  BY <1>1 DEF BitIf, HasBit
<1>6. flag(32) = 32 * ((s \div 32) % 2)
  BY <1>1 DEF BitIf, HasBit
<1>7. flag(64) = 64 * ((s \div 64) % 2)
  BY <1>1 DEF BitIf, HasBit
<1>8. flag(128) = 128 * ((s \div 128) % 2)
  BY <1>1 DEF BitIf, HasBit
<1> HIDE DEF flag
<1> QED  BY <1>1, <1>2, <1>3, <1>4, <1>5, <1>6, <1>7, <1>8, BitsOfByte

\* The flags are where the documentation of decoder.py has them.
LEMMA StatusDocumented == \A s \in Byte : StatusAsDocumented(s)
<1> SUFFICES ASSUME NEW s \in Byte PROVE StatusAsDocumented(s)
  OBVIOUS
<1> DEFINE r == DecodeStatus(s)
           flags == <<r.merge, r.fork, r.intersection, r.right_marker, r.left_marker>>
<1>1. /\ r.strength = (s \div 2) % 4
      /\ r.left_marker = HasBit(s, 8) /\ r.right_marker = HasBit(s, 16)
      /\ r.intersection = HasBit(s, 32) /\ r.fork = HasBit(s, 64)
      /\ r.merge = HasBit(s, 128) /\ r.fault = HasBit(s, 1)
  BY DecodeIs
<1>2. (s \div 2) % 4 = (s % 8) \div 2 /\ (HasBit(s, 1) <=> s % 2 = 1)
  BY DEF Byte, HasBit
<1> HIDE DEF r
<1>3. \A i \in 1 .. 5 : flags[i] <=> HasBit(s, <<128, 64, 32, 16, 8>>[i])
  BY <1>1
<1> QED  BY <1>1, <1>2, <1>3 DEF StatusAsDocumented, r

\* Bits that are put together can be taken apart.
LEMMA BitsApart ==
    ASSUME NEW t \in 0 .. 3, NEW a \in 0 .. 1, NEW b \in 0 .. 1, NEW c \in 0 .. 1,
           NEW d \in 0 .. 1, NEW e \in 0 .. 1, NEW f \in 0 .. 1
    PROVE  LET s == 2 * t + 8 * a + 16 * b + 32 * c + 64 * d + 128 * e + f IN
           /\ (s \div 2) % 4 = t /\ (s \div 8) % 2 = a /\ (s \div 16) % 2 = b
           /\ (s \div 32) % 2 = c /\ (s \div 64) % 2 = d /\ (s \div 128) % 2 = e
           /\ (s \div 1) % 2 = f
<1> DEFINE s == 2 * t + 8 * a + 16 * b + 32 * c + 64 * d + 128 * e + f
<1>1. (s \div 128) = e /\ e % 2 = e
  OBVIOUS
<1>2. s \div 64 = 2 * e + d /\ (2 * e + d) % 2 = d
  OBVIOUS
<1>3. s \div 32 = 4 * e + 2 * d + c /\ (4 * e + 2 * d + c) % 2 = c
  OBVIOUS
<1>4. s \div 16 = 8 * e + 4 * d + 2 * c + b /\ (8 * e + 4 * d + 2 * c + b) % 2 = b
  OBVIOUS
<1>5. /\ s \div 8 = 16 * e + 8 * d + 4 * c + 2 * b + a
      /\ (16 * e + 8 * d + 4 * c + 2 * b + a) % 2 = a
  OBVIOUS
<1>6. /\ s \div 2 = 64 * e + 32 * d + 16 * c + 8 * b + 4 * a + t
      /\ (64 * e + 32 * d + 16 * c + 8 * b + 4 * a + t) % 4 = t
  OBVIOUS
<1>7. s \div 1 = s /\ s % 2 = f
  OBVIOUS
<1> HIDE DEF s
<1> QED  BY <1>1, <1>2, <1>3, <1>4, <1>5, <1>6, <1>7 DEF s

\* Whatever encode_status accepts, decode_status gives back.
LEMMA FieldsKept == \A r \in Fields : FieldsRoundTrip(r)
<1> SUFFICES ASSUME NEW r \in Fields PROVE FieldsRoundTrip(r)
  OBVIOUS
<1>1. CASE r.strength \notin 0 .. 3
  BY <1>1, EncodeIs DEF FieldsRoundTrip
<1>2. CASE r.strength \in 0 .. 3
  <2> DEFINE n(p) == IF p THEN 1 ELSE 0
             s == 2 * r.strength + 8 * n(r.left_marker) + 16 * n(r.right_marker)
                    + 32 * n(r.intersection) + 64 * n(r.fork) + 128 * n(r.merge) + n(r.fault)
  <2>1. EncodeStatus(r) = s
    BY <1>2, EncodeIs DEF Encoded, BitIf
  <2>2. /\ (s \div 2) % 4 = r.strength
        /\ HasBit(s, 8) <=> r.left_marker
        /\ HasBit(s, 16) <=> r.right_marker
        /\ HasBit(s, 32) <=> r.intersection
        /\ HasBit(s, 64) <=> r.fork
        /\ HasBit(s, 128) <=> r.merge
        /\ HasBit(s, 1) <=> r.fault
    <3>1. \A p \in BOOLEAN : n(p) \in 0 .. 1 /\ (n(p) = 1 <=> p)
      OBVIOUS
    <3>2. /\ r.left_marker \in BOOLEAN /\ r.right_marker \in BOOLEAN
          /\ r.intersection \in BOOLEAN /\ r.fork \in BOOLEAN
          /\ r.merge \in BOOLEAN /\ r.fault \in BOOLEAN
      BY DEF Fields
    <3> HIDE DEF n
    <3>3. /\ (s \div 2) % 4 = r.strength
          /\ (s \div 8) % 2 = n(r.left_marker) /\ (s \div 16) % 2 = n(r.right_marker)
          /\ (s \div 32) % 2 = n(r.intersection) /\ (s \div 64) % 2 = n(r.fork)
          /\ (s \div 128) % 2 = n(r.merge) /\ (s \div 1) % 2 = n(r.fault)
      BY <1>2, <3>1, <3>2, BitsApart
    <3> HIDE DEF s
    <3> QED  BY <3>1, <3>2, <3>3 DEF HasBit
  <2> HIDE DEF s
  <2>3. DecodeStatus(s) = r
    BY <2>2, MaskValues DEF DecodeStatus, Fields, HasBit
  <2> QED  BY <1>2, <2>1, <2>3 DEF FieldsRoundTrip
<1> QED  BY <1>1, <1>2

\* Every frame a node can be sent is sorted to it, and under its own kind, for
\* any identifier, length and width (driver.py _on_frame, decoder.py
\* decode_frame, sdo.py _on_frame).
THEOREM SortedAlways ==
    ASSUME NEW f \in [id : Nat, extended : BOOLEAN, length : Nat], NEW n \in NodeIds
    PROVE  SortedFor(f, n)
<1> DEFINE kind == SortFrame(f, n)
           ids  == CobIds(n)
           fc   == FunctionCode(f.id)
<1>1. f.id \in Nat /\ f.length \in Nat /\ f.extended \in BOOLEAN /\ n \in Nat /\ n <= 127
  BY DEF NodeIds
<1>2. ASSUME NEW m \in NodeIds \ {n}, kind # "other" PROVE SortFrame(f, m) = "other"
  BY <1>2, OneNode
<1>3. /\ DOMAIN ExpectedLength = {"track", "markers", "navicode", "heartbeat"}
      /\ ids.track = FC_TPDO1 + n /\ ids.markers = FC_TPDO2 + n
      /\ ids.navicode = FC_TPDO3 + n /\ ids.heartbeat = FC_HEARTBEAT + n
      /\ ids.sdo = FC_SDO_TX + n
  BY DEF ExpectedLength, CobIds
<1>4. ASSUME NEW c \in {FC_TPDO1, FC_TPDO2, FC_TPDO3, FC_SDO_TX, FC_HEARTBEAT}
      PROVE  (IsNodeFrame(f.id, n) /\ fc = c) <=> f.id = c + n
  <2>1. f.id = c + n => IsNodeFrame(f.id, n) /\ fc = c
    BY IdParts DEF IsNodeFrame
  <2>2. IsNodeFrame(f.id, n) /\ fc = c => f.id = c + n
    BY <1>1, PartsId DEF IsNodeFrame
  <2> QED  BY <2>1, <2>2
<1> HIDE DEF fc, ids
<1>5. kind = (IF f.extended \/ ~IsNodeFrame(f.id, n) THEN "other"
              ELSE IF fc = FC_SDO_TX THEN "sdo" ELSE DecodedKind(f))
  BY DEF SortFrame, fc
<1>6. DecodedKind(f) = (IF KindOf(fc) = "unknown" \/ f.length = ExpectedLength[KindOf(fc)]
                        THEN KindOf(fc) ELSE "bad")
  BY DEF DecodedKind, fc
<1>7. /\ KindOf(fc) \in {"track", "markers", "navicode", "heartbeat", "unknown"}
      /\ KindOf(fc) = "track" <=> fc = FC_TPDO1
      /\ KindOf(fc) = "markers" <=> fc = FC_TPDO2
      /\ KindOf(fc) = "navicode" <=> fc = FC_TPDO3
      /\ KindOf(fc) = "heartbeat" <=> fc = FC_HEARTBEAT
      /\ fc = FC_SDO_TX => KindOf(fc) = "unknown"
  BY DEF KindOf, FC_TPDO1, FC_TPDO2, FC_TPDO3, FC_SDO_TX, FC_HEARTBEAT
<1> HIDE DEF kind
<1>8. ASSUME NEW k \in DOMAIN ExpectedLength
      PROVE  KindOf(fc) = k /\ IsNodeFrame(f.id, n) <=> f.id = ids[k]
  <2>1. CASE k = "track"      BY <2>1, <1>3, <1>4, <1>7
  <2>2. CASE k = "markers"    BY <2>2, <1>3, <1>4, <1>7
  <2>3. CASE k = "navicode"   BY <2>3, <1>3, <1>4, <1>7
  <2>4. CASE k = "heartbeat"  BY <2>4, <1>3, <1>4, <1>7
  <2> QED  BY <1>3, <2>1, <2>2, <2>3, <2>4
<1>9. ASSUME NEW k \in DOMAIN ExpectedLength
      PROVE  kind = k <=> ~f.extended /\ f.id = ids[k] /\ f.length = ExpectedLength[k]
  BY <1>3, <1>5, <1>6, <1>7, <1>8
<1>10. ASSUME kind = "bad"
       PROVE  \E k \in DOMAIN ExpectedLength : f.id = ids[k] /\ f.length # ExpectedLength[k]
  <2>1. /\ IsNodeFrame(f.id, n) /\ KindOf(fc) # "unknown"
        /\ f.length # ExpectedLength[KindOf(fc)]
    BY <1>5, <1>6, <1>7, <1>10
  <2>2. KindOf(fc) \in DOMAIN ExpectedLength
    BY <2>1, <1>3, <1>7
  <2>3. WITNESS KindOf(fc) \in DOMAIN ExpectedLength
  <2> QED  BY <2>1, <2>2, <1>8
<1>11. ASSUME ~f.extended PROVE kind = "sdo" <=> IsSdoAnswer(f, n)
  <2>1. IsSdoAnswer(f, n) <=> IsNodeFrame(f.id, n) /\ fc = FC_SDO_TX
    BY <1>3, <1>4 DEF IsSdoAnswer, ids
  <2>2. DecodedKind(f) # "sdo"
    BY <1>6, <1>7
  <2> QED  BY <1>5, <1>11, <2>1, <2>2
<1> QED  BY <1>2, <1>9, <1>10, <1>11 DEF SortedFor, kind, ids

\* The mounting inversions undo themselves (decoder.py apply_inversions).
THEOREM InversionsUndoneAlways ==
    ASSUME NEW t \in [leftPosition : Int, rightPosition : Int,
                      leftAngle : Int, rightAngle : Int],
           NEW position \in BOOLEAN, NEW angle \in BOOLEAN
    PROVE  InversionsCancel(t, position, angle)
<1> DEFINE u == ApplyInversions(t, position, angle)
           v == ApplyInversions(u, position, angle)
<1>1. \A x \in Int, b \in BOOLEAN : Sign(b) * x \in Int /\ Sign(b) * (Sign(b) * x) = x
  BY DEF Sign
<1>2. \A x, y \in Int, b \in BOOLEAN : Sign(b) * x = Sign(b) * y <=> x = y
  BY DEF Sign
<1>3. v = t
  BY <1>1 DEF ApplyInversions
<1>4. SingleTrack(u) <=> SingleTrack(t)
  BY <1>2 DEF ApplyInversions, SingleTrack
<1> QED  BY <1>3, <1>4 DEF InversionsCancel

-----------------------------------------------------------------------------
(* Payloads *)

\* One byte and two keep their value and its sign.
LEMMA BytesKept ==
    ASSUME NEW a \in Byte, NEW b \in Byte
    PROVE  /\ Signed8(a) \in Int8 /\ Signed8(a) % 256 = a
           /\ Signed16(a, b) \in Int16 /\ Bytes16(Signed16(a, b)) = <<a, b>>
           /\ Bytes16(a + 256 * b) = <<a, b>>
<1>0. a \in Int /\ 0 <= a /\ a <= 255 /\ b \in Int /\ 0 <= b /\ b <= 255
  BY DEF Byte
<1>1. Signed8(a) \in Int8 /\ Signed8(a) % 256 = a
  BY <1>0 DEF Signed8, Signed, Int8
<1> DEFINE x == a + 256 * b
<1>2. /\ x \in Int /\ 0 <= x /\ x <= 65535
      /\ x < 32768 <=> b < 128
  BY <1>0
<1>3. x % 256 = a /\ x \div 256 = b /\ b % 256 = b
  BY <1>0
<1>4. (x - 65536) % 256 = a /\ (x - 65536) \div 256 = b - 256 /\ (b - 256) % 256 = b
  BY <1>0
<1> HIDE DEF x
<1>5. \/ Signed(x, 65536) = x /\ x < 32768
      \/ Signed(x, 65536) = x - 65536 /\ 32768 <= x
  <2>1. 65536 \div 2 = 32768
    OBVIOUS
  <2> QED  BY <1>2, <2>1 DEF Signed
<1>h. Half16 = 32768
  BY DEF Half16
<1>i. \A y \in Int : -32768 <= y /\ y <= 32767 => y \in Int16
  <2>1. Half16 \in Int
    BY <1>h
  <2>2. \A y \in Int : -Half16 <= y /\ y <= Half16 - 1 => y \in Int16
    BY <2>1 DEF Int16
  <2>3. \A y \in Int : -32768 <= y /\ y <= 32767 => -Half16 <= y /\ y <= Half16 - 1
    BY <1>h
  <2> QED  BY <2>2, <2>3
<1>6. Signed(x, 65536) \in Int16
  <2>1. CASE Signed(x, 65536) = x /\ x < 32768
    <3>1. x \in Int /\ -32768 <= x /\ x <= 32767
      BY <1>2, <2>1
    <3>2. x \in Int16
      BY <3>1, <1>i
    <3> QED  BY <2>1, <3>2
  <2>2. CASE Signed(x, 65536) = x - 65536 /\ 32768 <= x
    <3>1. x - 65536 \in Int16
      BY <1>2, <2>2, <1>i
    <3> QED  BY <2>2, <3>1
  <2> QED  BY <1>5, <2>1, <2>2
<1>7. Bytes16(x) = <<a, b>> /\ Bytes16(x - 65536) = <<a, b>>
  BY <1>3, <1>4 DEF Bytes16
<1> QED  BY <1>1, <1>5, <1>6, <1>7 DEF Signed16, x

\* A payload is given by its bytes.
LEMMA ByIndex ==
    /\ \A d \in [1 .. 5 -> Byte] : d = <<d[1], d[2], d[3], d[4], d[5]>>
    /\ \A d \in [1 .. 8 -> Byte] :
          d = <<d[1], d[2]>> \o <<d[3], d[4]>> \o <<d[5], d[6]>> \o <<d[7], d[8]>>
    /\ \A d \in [1 .. 3 -> Byte] : d = <<d[1], d[2]>> \o <<d[3]>>
    /\ \A d \in [1 .. 1 -> Byte] : d = <<d[1]>>
OBVIOUS

\* A byte is not changed by taking it for one again.
LEMMA ByteMod == \A b \in Byte : b % 256 = b
BY DEF Byte

\* The four bytes and the status of a track.
LEMMA TrackKept == \A d \in [1 .. 5 -> Byte] : EncodeTrack(DecodeTrack(d)) = d
<1> TAKE d \in [1 .. 5 -> Byte]
<1>b. d[1] \in Byte /\ d[2] \in Byte /\ d[3] \in Byte /\ d[4] \in Byte /\ d[5] \in Byte
  OBVIOUS
<1>2. EncodeStatus(DecodeStatus(d[5])) = d[5] /\ d[5] # NoStatus
  BY <1>b, StatusKeptAlways DEF StatusRoundTrip, NoStatus, Byte
<1>3. /\ Signed8(d[1]) \in Int8 /\ Signed8(d[1]) % 256 = d[1]
      /\ Signed8(d[2]) \in Int8 /\ Signed8(d[2]) % 256 = d[2]
      /\ Signed8(d[3]) \in Int8 /\ Signed8(d[3]) % 256 = d[3]
      /\ Signed8(d[4]) \in Int8 /\ Signed8(d[4]) % 256 = d[4]
  BY <1>b, BytesKept
<1>4. EncodeTrack(DecodeTrack(d)) = <<d[1], d[2], d[3], d[4], d[5]>>
  BY <1>2, <1>3 DEF EncodeTrack, DecodeTrack
<1> QED  BY <1>4, ByIndex

\* The four pairs of bytes of the markers.
LEMMA MarkersKept == \A d \in [1 .. 8 -> Byte] : EncodeMarkers(DecodeMarkers(d)) = d
<1> TAKE d \in [1 .. 8 -> Byte]
<1>b. /\ d[1] \in Byte /\ d[2] \in Byte /\ d[3] \in Byte /\ d[4] \in Byte
      /\ d[5] \in Byte /\ d[6] \in Byte /\ d[7] \in Byte /\ d[8] \in Byte
  OBVIOUS
<1>2. /\ Signed16(d[1], d[2]) \in Int16 /\ Bytes16(Signed16(d[1], d[2])) = <<d[1], d[2]>>
      /\ Signed16(d[3], d[4]) \in Int16 /\ Bytes16(Signed16(d[3], d[4])) = <<d[3], d[4]>>
      /\ Signed16(d[5], d[6]) \in Int16 /\ Bytes16(Signed16(d[5], d[6])) = <<d[5], d[6]>>
      /\ Signed16(d[7], d[8]) \in Int16 /\ Bytes16(Signed16(d[7], d[8])) = <<d[7], d[8]>>
  BY <1>b, BytesKept
<1>3. EncodeMarkers(DecodeMarkers(d))
        = <<d[1], d[2]>> \o <<d[3], d[4]>> \o <<d[5], d[6]>> \o <<d[7], d[8]>>
  BY <1>2 DEF EncodeMarkers, DecodeMarkers
<1> QED  BY <1>3, ByIndex

\* The code and the counter of a navicode, and the byte of a heartbeat.
LEMMA OthersKept ==
    /\ \A d \in [1 .. 3 -> Byte] : EncodeNavicode(DecodeNavicode(d)) = d
    /\ \A d \in [1 .. 1 -> Byte] : EncodeHeartbeat(DecodeHeartbeat(d)) = d
<1>1. ASSUME NEW d \in [1 .. 3 -> Byte] PROVE EncodeNavicode(DecodeNavicode(d)) = d
  <2>1. d[1] \in Byte /\ d[2] \in Byte /\ d[3] \in Byte
    OBVIOUS
  <2>2. Bytes16(d[1] + 256 * d[2]) = <<d[1], d[2]>> /\ d[3] % 256 = d[3]
    BY <2>1, BytesKept, ByteMod
  <2> QED  BY <2>2, ByIndex DEF EncodeNavicode, DecodeNavicode
<1>2. ASSUME NEW d \in [1 .. 1 -> Byte] PROVE EncodeHeartbeat(DecodeHeartbeat(d)) = d
  <2>1. d[1] \in Byte
    OBVIOUS
  <2>2. d[1] % 256 = d[1]
    BY <2>1, ByteMod
  <2> QED  BY <2>2, ByIndex DEF EncodeHeartbeat, DecodeHeartbeat
<1> QED  BY <1>1, <1>2

\* Every payload of its length is decoded without loss, whatever its bytes
\* (decoder.py decode_tpdo1, decode_tpdo2, decode_tpdo3, decode_heartbeat).
THEOREM PayloadKeptAlways ==
    ASSUME NEW kind \in DOMAIN ExpectedLength, NEW d \in [1 .. ExpectedLength[kind] -> Byte]
    PROVE  PayloadRoundTrip(kind, d)
<1>1. /\ kind = "track" => ExpectedLength[kind] = 5
      /\ kind = "markers" => ExpectedLength[kind] = 8
      /\ kind = "navicode" => ExpectedLength[kind] = 3
      /\ kind = "heartbeat" => ExpectedLength[kind] = 1
  BY DEF ExpectedLength
<1> QED  BY <1>1, TrackKept, MarkersKept, OthersKept DEF PayloadRoundTrip

-----------------------------------------------------------------------------
(* Transfers, periods and values *)

\* Sixteen bits.
LEMMA WordFacts == \A x \in Int : x \in Word <=> 0 <= x /\ x <= 65535
<1>1. 2 * Half16 - 1 = 65535
  BY DEF Half16
<1>2. 2 * Half16 - 1 \in Int
  BY <1>1
<1>3. \A x \in Int : x \in Word <=> 0 <= x /\ x <= 2 * Half16 - 1
  BY <1>2 DEF Word
<1> QED  BY <1>1, <1>3

\* The zeros that fill a frame up.
LEMMA ZerosFacts ==
    ASSUME NEW n \in Nat
    PROVE  Zeros(n) \in Seq(Byte) /\ Len(Zeros(n)) = n /\ \A i \in 1 .. n : Zeros(n)[i] = 0
<1>1. \A i \in 1 .. n : 0 \in Byte
  BY DEF Byte
<1> QED  BY <1>1, IsASeq DEF Zeros

\* A frame, by its header and the four bytes that follow.
Framed(cmd, index, sub, rest) == Header(cmd, index, sub) \o rest

\* What is read in the header of a frame and behind it.
LEMMA HeaderParts ==
    ASSUME NEW cmd \in Byte, NEW index \in Word, NEW sub \in Byte,
           NEW rest \in Seq(Byte), Len(rest) = 4
    PROVE  LET d == Framed(cmd, index, sub, rest)
           IN  /\ d \in Seq(Byte) /\ Len(d) = 8
               /\ d[1] = cmd /\ d[2] + 256 * d[3] = index /\ d[4] = sub
               /\ \A n \in 0 .. 4 : SubSeq(d, 5, 4 + n) = SubSeq(rest, 1, n)
<1> DEFINE h == Header(cmd, index, sub)
           d == Framed(cmd, index, sub, rest)
<1>1. index \in Int /\ 0 <= index /\ index <= 65535
  <2>1. index \in Int
    BY DEF Word, Half16
  <2> QED  BY <2>1, WordFacts
<1>2. sub \in Int /\ 0 <= sub /\ sub <= 255
  BY DEF Byte
<1>3. index % 256 \in Byte /\ (index \div 256) % 256 \in Byte /\ sub % 256 = sub
  BY <1>1, <1>2 DEF Byte
<1>4. (index % 256) + 256 * ((index \div 256) % 256) = index
  BY <1>1
<1>5. /\ h \in Seq(Byte) /\ Len(h) = 4
      /\ h[1] = cmd /\ h[2] + 256 * h[3] = index /\ h[4] = sub
  BY <1>3, <1>4 DEF Header
<1> HIDE DEF h
<1>6. /\ d \in Seq(Byte) /\ Len(d) = 8
      /\ \A i \in 1 .. 8 : d[i] = IF i <= 4 THEN h[i] ELSE rest[i - 4]
  <2>1. /\ h \o rest \in Seq(Byte) /\ Len(h \o rest) = Len(h) + Len(rest)
        /\ \A i \in 1 .. Len(h) + Len(rest) :
              (h \o rest)[i] = IF i <= Len(h) THEN h[i] ELSE rest[i - Len(h)]
    BY <1>5, ConcatProperties
  <2>2. Len(h) = 4 /\ Len(h) + Len(rest) = 8
    BY <1>5
  <2>3. d = h \o rest
    BY DEF Framed, h
  <2> HIDE DEF d
  <2> QED  BY <2>1, <2>2, <2>3
<1> HIDE DEF d
<1>7. ASSUME NEW n \in 0 .. 4 PROVE SubSeq(d, 5, 4 + n) = SubSeq(rest, 1, n)
  <2>1. \A i \in 5 .. 4 + n : d[i] \in Byte
    <3>1. \A i \in 5 .. 4 + n : i \in 1 .. Len(d)
      BY <1>6
    <3> QED  BY <1>6, <3>1, ElementOfSeq
  <2>2. \A i \in 1 .. n : rest[i] \in Byte
    BY ElementOfSeq
  <2>3. /\ SubSeq(d, 5, 4 + n) \in Seq(Byte) /\ Len(SubSeq(d, 5, 4 + n)) = n
        /\ \A i \in 1 .. n : SubSeq(d, 5, 4 + n)[i] = d[4 + i]
    <3>1. (4 + n) - 5 + 1 = n /\ (5 <= 4 + n <=> 1 <= n) /\ \A i \in 1 .. n : 5 + i - 1 = 4 + i
      OBVIOUS
    <3> QED  BY <2>1, <3>1, SubSeqProperties
  <2>4. /\ SubSeq(rest, 1, n) \in Seq(Byte) /\ Len(SubSeq(rest, 1, n)) = n
        /\ \A i \in 1 .. n : SubSeq(rest, 1, n)[i] = rest[i]
    BY <2>2, SubSeqProperties
  <2>5. \A i \in 1 .. n : d[4 + i] = rest[i]
    BY <1>6
  <2> QED  BY <2>3, <2>4, <2>5, SeqEqual
<1> QED  BY <1>5, <1>6, <1>7 DEF d

\* The lengths an expedited transfer may have.
LEMMA OneToFour ==
    \A n : n \in 1 .. 4 => n \in Nat /\ (n = 1 \/ n = 2 \/ n = 3 \/ n = 4) /\ 4 - n \in Nat
OBVIOUS

\* The bytes of an expedited transfer come back out of what carries them.
LEMMA DataKept ==
    ASSUME NEW data \in Seq(Byte), Len(data) \in 1 .. 4
    PROVE  LET rest == data \o Zeros(4 - Len(data))
           IN  rest \in Seq(Byte) /\ Len(rest) = 4 /\ SubSeq(rest, 1, Len(data)) = data
<1>1. 4 - Len(data) \in Nat 
  BY OneToFour
<1>2. Zeros(4 - Len(data)) \in Seq(Byte) /\ Len(Zeros(4 - Len(data))) = 4 - Len(data)
  BY <1>1, ZerosFacts
<1> DEFINE z == Zeros(4 - Len(data))
<1> HIDE DEF z
<1>3. z \in Seq(Byte) /\ Len(z) = 4 - Len(data)
  BY <1>2 DEF z
<1>4. data \o z \in Seq(Byte) /\ Len(data \o z) = 4
  BY <1>3, ConcatProperties
<1>5. SubSeq(data \o z, 1, Len(data)) = SubSeq(data, 1, Len(data))
  BY <1>3, SubSeqOfConcat1
<1>6. SubSeq(data, 1, Len(data)) = data
  BY SubSeqFull
<1> QED  BY <1>4, <1>5, <1>6 DEF z

\* The fields of an expedited transfer and of its command.
LEMMA ExpeditedParts ==
    ASSUME NEW index \in Word, NEW sub \in Byte, NEW data \in Seq(Byte), Len(data) \in 1 .. 4,
           NEW spec \in {32, 64}
    PROVE  LET d == Expedited(spec, index, sub, data)
           IN  /\ Len(d) = 8 /\ d[2] + 256 * d[3] = index /\ d[4] = sub
               /\ Specifier(d) = spec /\ HasBit(d[1], 2) /\ Payload(d) = data
<1> DEFINE cmd == spec + 4 * (4 - Len(data)) + 3
           rest == data \o Zeros(4 - Len(data))
           d == Framed(cmd, index, sub, rest)
<1>1. /\ cmd \in Byte /\ (cmd \div 32) * 32 = spec /\ (cmd \div 2) % 2 = 1 /\ (cmd \div 1) % 2 = 1
      /\ (cmd \div 4) % 4 = 4 - Len(data)
  <2>1. CASE Len(data) = 1  BY <2>1 DEF Byte
  <2>2. CASE Len(data) = 2  BY <2>2 DEF Byte
  <2>3. CASE Len(data) = 3  BY <2>3 DEF Byte
  <2>4. CASE Len(data) = 4  BY <2>4 DEF Byte
  <2> QED  BY <2>1, <2>2, <2>3, <2>4, OneToFour
<1>2. rest \in Seq(Byte) /\ Len(rest) = 4 /\ SubSeq(rest, 1, Len(data)) = data
  BY DataKept
<1> HIDE DEF cmd, rest
<1>3. /\ Len(d) = 8 /\ d[1] = cmd /\ d[2] + 256 * d[3] = index /\ d[4] = sub
      /\ SubSeq(d, 5, 4 + Len(data)) = data
  <2>1. Len(data) \in 0 .. 4
    BY OneToFour
  <2>2. /\ Len(d) = 8 /\ d[1] = cmd /\ d[2] + 256 * d[3] = index /\ d[4] = sub
        /\ \A n \in 0 .. 4 : SubSeq(d, 5, 4 + n) = SubSeq(rest, 1, n)
    <3>1. cmd \in Byte /\ rest \in Seq(Byte) /\ Len(rest) = 4
      BY <1>1, <1>2
    <3> QED  BY <3>1, HeaderParts
  <2> HIDE DEF d
  <2> QED  BY <1>2, <2>1, <2>2
<1>4. Expedited(spec, index, sub, data) = d
  <2> DEFINE h == Header(cmd, index, sub)
  <2>1. Expedited(spec, index, sub, data) = (h \o data) \o Zeros(4 - Len(data))
    BY DEF Expedited, cmd
  <2>2. h \in Seq(Byte)
    <3>1. index \in Int /\ sub \in Int
      BY DEF Word, Half16, Byte
    <3>2. index % 256 \in Byte /\ (index \div 256) % 256 \in Byte /\ sub % 256 \in Byte
      BY <3>1 DEF Byte
    <3> QED  BY <1>1, <3>2 DEF Header
  <2>3. Zeros(4 - Len(data)) \in Seq(Byte)
    BY OneToFour, ZerosFacts
  <2> HIDE DEF h
  <2>4. d = h \o rest /\ rest = data \o Zeros(4 - Len(data))
    BY DEF rest, Framed, h
  <2>5. (h \o data) \o Zeros(4 - Len(data)) = h \o (data \o Zeros(4 - Len(data)))
    <3> DEFINE z == Zeros(4 - Len(data))
    <3>1. z \in Seq(Byte)
      BY <2>3
    <3> HIDE DEF z
    <3>2. (h \o data) \o z = h \o (data \o z)
      BY <2>2, <3>1, ConcatAssociative
    <3> QED  BY <3>2 DEF z
  <2> HIDE DEF d
  <2> QED  BY <2>1, <2>4, <2>5, Zenon
<1> HIDE DEF d
<1>5. 8 - ((cmd \div 4) % 4) = 4 + Len(data)
  <2>1. (cmd \div 4) % 4 = 4 - Len(data) /\ Len(data) \in Nat
    BY <1>1, OneToFour
  <2>2. \A n \in Nat : 8 - (4 - n) = 4 + n
    OBVIOUS
  <2> QED  BY <2>1, <2>2
<1> QED  BY <1>1, <1>3, <1>4, <1>5 DEF Specifier, HasBit, Payload

\* A frame whose data are the four bytes behind its header.
LEMMA WholeParts ==
    ASSUME NEW cmd \in Byte, NEW index \in Word, NEW sub \in Byte,
           NEW rest \in Seq(Byte), Len(rest) = 4,
           NEW d, d = Framed(cmd, index, sub, rest)
    PROVE  /\ Len(d) = 8 /\ d[1] = cmd /\ d[2] + 256 * d[3] = index /\ d[4] = sub
           /\ SubSeq(d, 5, 8) = rest
<1>1. /\ Len(d) = 8 /\ d[1] = cmd /\ d[2] + 256 * d[3] = index /\ d[4] = sub
      /\ \A n \in 0 .. 4 : SubSeq(d, 5, 4 + n) = SubSeq(rest, 1, n)
  BY HeaderParts
<1>2. SubSeq(rest, 1, 4) = rest
  BY SubSeqFull
<1>3. SubSeq(d, 5, 4 + 4) = SubSeq(rest, 1, 4) /\ 4 + 4 = 8
  BY <1>1
<1> QED  BY <1>1, <1>2, <1>3

\* What one side of an SDO transfer builds the other side reads, for every
\* object and all data (sdo.py build_download to parse_response).
THEOREM TransfersAlways ==
    ASSUME NEW index \in Word, NEW sub \in Byte, NEW data \in Seq(Byte)
    PROVE  TransferRoundTrip(index, sub, data)
<1> DEFINE ok == Len(data) \in 1 .. 4
           about(kind, d) == [kind |-> kind, index |-> index, sub |-> sub, data |-> d]
           request == BuildDownload(index, sub, data)
           answer  == BuildUploadResponse(index, sub, data)
<1>z. Zeros(4) \in Seq(Byte) /\ Len(Zeros(4)) = 4
  BY ZerosFacts
<1>b. {32, 64, 66, 70, 74, 78, 96, 128} \subseteq Byte
  BY DEF Byte
<1>s. CCS_DOWNLOAD = 32 /\ CCS_UPLOAD = 64 /\ SCS_UPLOAD = 64 /\ SCS_DOWNLOAD = 96 /\ CS_ABORT = 128
  BY DEF CCS_DOWNLOAD, CCS_UPLOAD, SCS_UPLOAD, SCS_DOWNLOAD, CS_ABORT
<1>e. ~ok => Len(request) = 0 /\ Len(answer) = 0
  BY DEF BuildDownload, BuildUploadResponse, Expedited
<1>r. ok => /\ Len(request) = 8 /\ request[2] + 256 * request[3] = index /\ request[4] = sub
            /\ Specifier(request) = 32 /\ HasBit(request[1], 2) /\ Payload(request) = data
  BY <1>s, ExpeditedParts DEF BuildDownload
<1>a. ok => /\ Len(answer) = 8 /\ answer[2] + 256 * answer[3] = index /\ answer[4] = sub
            /\ Specifier(answer) = 64 /\ HasBit(answer[1], 2) /\ Payload(answer) = data
  BY <1>s, ExpeditedParts DEF BuildUploadResponse
<1> HIDE DEF ok, request, answer
<1>1. ParseRequest(request) = IF ok THEN about("download", data) ELSE ProtocolError
  BY <1>e, <1>r, <1>s DEF ParseRequest, ExpeditedMessage, Message
<1>2. ParseResponse(answer) = IF ok THEN about("upload", data) ELSE ProtocolError
  BY <1>e, <1>a, <1>s DEF ParseResponse, ExpeditedMessage, Message
<1>3. /\ ParseRequest(BuildUpload(index, sub)) = about("upload", <<>>)
      /\ ParseResponse(BuildUpload(index, sub)) = ProtocolError
  <2> DEFINE d == BuildUpload(index, sub)
  <2>0. d = Framed(CCS_UPLOAD, index, sub, Zeros(4))
    BY DEF BuildUpload, Framed
  <2> HIDE DEF d
  <2>1. Len(d) = 8 /\ d[1] = 64 /\ d[2] + 256 * d[3] = index /\ d[4] = sub
    BY <1>z, <1>b, <1>s, <2>0, WholeParts
  <2>2. Specifier(d) = 64 /\ ~HasBit(d[1], 2)
    BY <2>1 DEF Specifier, HasBit
  <2>3. ParseRequest(d) = about("upload", <<>>)
    BY <1>s, <2>1, <2>2 DEF ParseRequest, Message
  <2>4. ParseResponse(d) = ProtocolError
    BY <1>s, <2>1, <2>2 DEF ParseResponse, ExpeditedMessage
  <2> QED  BY <2>3, <2>4 DEF d
<1>4. ParseResponse(BuildDownloadResponse(index, sub)) = about("download", <<>>)
  <2> DEFINE d == BuildDownloadResponse(index, sub)
  <2>0. d = Framed(SCS_DOWNLOAD, index, sub, Zeros(4))
    BY DEF BuildDownloadResponse, Framed
  <2> HIDE DEF d
  <2>1. Len(d) = 8 /\ d[1] = 96 /\ d[2] + 256 * d[3] = index /\ d[4] = sub
    BY <1>z, <1>b, <1>s, <2>0, WholeParts
  <2>2. Specifier(d) = 96
    BY <2>1 DEF Specifier
  <2>3. ParseResponse(d) = about("download", <<>>)
    BY <1>s, <2>1, <2>2 DEF ParseResponse, Message
  <2> QED  BY <2>3 DEF d
<1>5. ASSUME Len(data) = 4 PROVE ParseResponse(BuildAbort(index, sub, data)) = about("abort", data)
  <2> DEFINE d == BuildAbort(index, sub, data)
  <2>0. d = Framed(CS_ABORT, index, sub, data)
    BY DEF BuildAbort, Framed
  <2> HIDE DEF d
  <2>1. /\ Len(d) = 8 /\ d[1] = 128 /\ d[2] + 256 * d[3] = index /\ d[4] = sub
        /\ SubSeq(d, 5, 8) = data
    BY <1>5, <1>b, <1>s, <2>0, WholeParts
  <2>2. Specifier(d) = 128
    BY <2>1 DEF Specifier
  <2>3. ParseResponse(d) = about("abort", data)
    BY <1>s, <2>1, <2>2 DEF ParseResponse, Message
  <2> QED  BY <2>3 DEF d
<1>6. ASSUME Len(data) = 4, NEW n \in 0 .. 3
      PROVE  ParseResponse(Header(SCS_UPLOAD + 4 * n + 2, index, sub) \o data)
               = about("upload", data)
  <2> DEFINE cmd == SCS_UPLOAD + 4 * n + 2
             d == Header(cmd, index, sub) \o data
  <2>1. cmd \in {66, 70, 74, 78}
    BY <1>s
  <2>0. d = Framed(cmd, index, sub, data)
    BY DEF Framed
  <2> HIDE DEF cmd, d
  <2>2. /\ Len(d) = 8 /\ d[1] = cmd /\ d[2] + 256 * d[3] = index /\ d[4] = sub
        /\ SubSeq(d, 5, 8) = data
    BY <1>6, <1>b, <2>0, <2>1, WholeParts
  <2>3. Specifier(d) = 64 /\ HasBit(d[1], 2) /\ ~HasBit(d[1], 1)
    BY <2>1, <2>2 DEF Specifier, HasBit
  <2>4. Payload(d) = data
    BY <2>2, <2>3 DEF Payload
  <2>5. ParseResponse(d) = about("upload", data)
    BY <1>s, <2>2, <2>3, <2>4 DEF ParseResponse, ExpeditedMessage, Message
  <2> QED  BY <2>5 DEF d, cmd
<1>7. ParseResponse(request) = ProtocolError
  <2>1. CASE ok
    <3>1. Len(request) = 8 /\ Specifier(request) = 32
      BY <1>r, <2>1
    <3> QED  BY <1>s, <3>1 DEF ParseResponse
  <2>2. CASE ~ok
    <3>1. Len(request) # 8
      BY <1>e, <2>2
    <3> QED  BY <3>1 DEF ParseResponse
  <2> QED  BY <2>1, <2>2
<1> QED
  BY <1>1, <1>2, <1>3, <1>4, <1>5, <1>6, <1>7 DEF TransferRoundTrip, ok, request, answer

\* The low bytes of a value, weighted by their places, are the value modulo
\* the width.
LEMMA LowBytes ==
    ASSUME NEW v \in Int
    PROVE  /\ v % 65536 = (v % 256) + 256 * ((v \div 256) % 256)
           /\ v % 4294967296 = (v % 256) + 256 * ((v \div 256) % 256)
                + 65536 * ((v \div 65536) % 256) + 16777216 * ((v \div 16777216) % 256)
<1>1. v % 65536 = (v % 256) + 256 * ((v \div 256) % 256)
  OBVIOUS
<1> DEFINE q == v \div 65536
<1>2. v % 4294967296 = (v % 65536) + 65536 * (q % 65536)
  OBVIOUS
<1>3. q \in Int
  OBVIOUS
<1>4. v \div 16777216 = q \div 256
  OBVIOUS
<1> HIDE DEF q
<1>5. q % 65536 = (q % 256) + 256 * ((q \div 256) % 256)
  BY <1>3
<1>6. v % 4294967296 = (v % 65536) + 65536 * (q % 256) + 16777216 * ((q \div 256) % 256)
  BY <1>2, <1>3, <1>5
<1> QED  BY <1>1, <1>4, <1>6 DEF q

\* The bytes of a value as a wider reader sees them.
Seen(v, width, wider) == Pack(v, width) \o Zeros(wider)

\* Byte i of a value, least significant first.
ByteAt(v, i) == (v \div Place[i]) % 256

\* What is in them.
LEMMA PackParts ==
    \A v \in Int : \A width \in 1 .. 4 :
       /\ Pack(v, width) \in Seq(Byte) /\ Len(Pack(v, width)) = width
       /\ \A wider \in Nat : \A i \in 1 .. width + wider :
             Seen(v, width, wider)[i] = IF i <= width THEN ByteAt(v, i) ELSE 0
<1> SUFFICES ASSUME NEW v \in Int, NEW width \in 1 .. 4
             PROVE  /\ Pack(v, width) \in Seq(Byte) /\ Len(Pack(v, width)) = width
                    /\ \A wider \in Nat : \A i \in 1 .. width + wider :
                          Seen(v, width, wider)[i] = IF i <= width THEN ByteAt(v, i) ELSE 0
  OBVIOUS
<1>1. \A i \in 1 .. width : Place[i] \in {1, 256, 65536, 16777216}
  BY DEF Place
<1>2. \A i \in 1 .. width : (v \div Place[i]) % 256 \in Byte
  <2>1. \A place \in {1, 256, 65536, 16777216} : (v \div place) % 256 \in Byte
    BY DEF Byte
  <2> QED  BY <1>1, <2>1
<1> DEFINE p == Pack(v, width)
<1>3. p \in Seq(Byte) /\ Len(p) = width /\ \A i \in 1 .. width : p[i] = (v \div Place[i]) % 256
  BY <1>2, IsASeq DEF Pack
<1>4. ASSUME NEW wider \in Nat
      PROVE  \A i \in 1 .. width + wider :
                Seen(v, width, wider)[i] = IF i <= width THEN ByteAt(v, i) ELSE 0
  <2> DEFINE z == Zeros(wider)
  <2>1. z \in Seq(Byte) /\ Len(z) = wider /\ \A i \in 1 .. wider : z[i] = 0
    BY ZerosFacts
  <2> HIDE DEF p, z
  <2>2. \A i \in 1 .. width + wider : (p \o z)[i] = IF i <= width THEN p[i] ELSE z[i - width]
    BY <1>3, <2>1, ConcatProperties
  <2>3. \A i \in 1 .. width + wider :
           (i <= width => p[i] = (v \div Place[i]) % 256) /\ (i > width => z[i - width] = 0)
    <3>1. \A i \in 1 .. width + wider :
             (i <= width => i \in 1 .. width) /\ (i > width => i - width \in 1 .. wider)
      OBVIOUS
    <3> QED  BY <1>3, <2>1, <3>1
  <2> DEFINE all == p \o z
  <2>4. \A i \in 1 .. width + wider : all[i] = IF i <= width THEN (v \div Place[i]) % 256 ELSE 0
    <3>1. \A i \in 1 .. width + wider : all[i] = IF i <= width THEN p[i] ELSE z[i - width]
      BY <2>2
    <3>2. \A i \in 1 .. width + wider : i <= width \/ i > width
      OBVIOUS
    <3> HIDE DEF all
    <3> QED  BY <2>3, <3>1, <3>2
  <2>5. Seen(v, width, wider) = all /\ \A i \in 1 .. width : ByteAt(v, i) = (v \div Place[i]) % 256
    BY DEF Seen, ByteAt, all, p, z
  <2> HIDE DEF all
  <2>6. \A i \in 1 .. width + wider : all[i] = IF i <= width THEN ByteAt(v, i) ELSE 0
    BY <2>4 DEF ByteAt
  <2> QED  BY <2>5, <2>6
<1> QED  BY <1>3, <1>4 DEF p

\* What write_u8, write_u16 or write_u32 wrote a reader as wide or wider reads
\* back, modulo the width (sdo.py write_u8 to read_u32).
THEOREM ValuesAlways ==
    ASSUME NEW v \in Int, NEW width \in {1, 2, 4}, NEW wider \in {1, 2, 4}, width <= wider
    PROVE  ValueRoundTrip(v, width, wider)
<1> DEFINE d == Pack(v, width) \o Zeros(wider)
<1>1. \A i \in 1 .. width + wider : d[i] = IF i <= width THEN ByteAt(v, i) ELSE 0
  <2>1. width \in 1 .. 4 /\ wider \in Nat
    OBVIOUS
  <2> HIDE DEF d
  <2>2. d = Seen(v, width, wider)
    BY DEF d, Seen
  <2>3. \A i \in 1 .. width + wider :
           Seen(v, width, wider)[i] = IF i <= width THEN ByteAt(v, i) ELSE 0
    <3>1. \A w \in 1 .. 4 : \A r \in Nat : \A i \in 1 .. w + r :
             Seen(v, w, r)[i] = IF i <= w THEN ByteAt(v, i) ELSE 0
      BY PackParts
    <3> QED  BY <2>1, <3>1
  <2> QED  BY <2>2, <2>3, Zenon
<1>2. Place[1] = 1 /\ Place[2] = 256 /\ Place[3] = 65536 /\ Place[4] = 16777216
  BY DEF Place
<1> DEFINE part(i) == IF i <= wider THEN d[i] * Place[i] ELSE 0
<1>3. Unpack(Pack(v, width), wider) = part(1) + part(2) + part(3) + part(4)
  BY DEF Unpack
<1> HIDE DEF d
<1>4. \A i \in 1 .. 4 : part(i) = IF i <= width THEN ByteAt(v, i) * Place[i] ELSE 0
  <2> SUFFICES ASSUME NEW i \in 1 .. 4
               PROVE  part(i) = IF i <= width THEN ByteAt(v, i) * Place[i] ELSE 0
    OBVIOUS
  <2>1. Place[i] \in Int
    BY <1>2
  <2>2. CASE i <= width
    BY <1>1, <2>2
  <2>3. CASE i > width /\ i <= wider
    <3>1. d[i] = 0
      BY <1>1, <2>3
    <3> QED  BY <2>1, <2>3, <3>1
  <2>4. CASE i > wider
    BY <2>4
  <2> QED  BY <2>2, <2>3, <2>4
<1> HIDE DEF part
<1>5. /\ ByteAt(v, 1) = v % 256 /\ ByteAt(v, 2) = (v \div 256) % 256
      /\ ByteAt(v, 3) = (v \div 65536) % 256 /\ ByteAt(v, 4) = (v \div 16777216) % 256
  <2>1. v \div 1 = v
    OBVIOUS
  <2> QED  BY <1>2, <2>1 DEF ByteAt
<1>6. CASE width = 1
  <2>1. part(1) + part(2) + part(3) + part(4) = v % 256
    BY <1>2, <1>4, <1>5, <1>6
  <2>2. Limit(width) = 256
    BY <1>2, <1>6 DEF Limit
  <2> QED  BY <1>3, <2>1, <2>2 DEF ValueRoundTrip
<1>7. CASE width = 2
  <2>1. part(1) + part(2) + part(3) + part(4) = (v % 256) + 256 * ((v \div 256) % 256)
    BY <1>2, <1>4, <1>5, <1>7
  <2>2. Limit(width) = 65536
    BY <1>2, <1>7 DEF Limit
  <2> QED  BY <1>3, <2>1, <2>2, LowBytes DEF ValueRoundTrip
<1>8. CASE width = 4
  <2>1. part(1) + part(2) + part(3) + part(4)
          = (v % 256) + 256 * ((v \div 256) % 256) + 65536 * ((v \div 65536) % 256)
              + 16777216 * ((v \div 16777216) % 256)
    BY <1>2, <1>4, <1>5, <1>8
  <2>2. Limit(width) = 4294967296
    BY <1>8 DEF Limit
  <2> QED  BY <1>3, <2>1, <2>2, LowBytes DEF ValueRoundTrip
<1> QED  BY <1>6, <1>7, <1>8

\* The objects of the event timers.
LEMMA TimerFacts ==
    /\ \A tpdo \in 1 .. 3 : EventTimer(tpdo) \in Word
    /\ \A tpdo, other \in 1 .. 3 : EventTimer(tpdo) = EventTimer(other) => tpdo = other
<1>1. \A tpdo \in 1 .. 3 : EventTimer(tpdo) \in Word
  BY WordFacts DEF EventTimer
<1> QED  BY <1>1 DEF EventTimer

\* Every period the driver may write to a TPDO it reads back, from the object
\* of that TPDO alone (sdo.py set_tpdo_period, get_tpdo_period).
THEOREM PeriodsAlways == \A tpdo, period \in Int : PeriodRoundTrip(tpdo, period)
<1> SUFFICES ASSUME NEW tpdo \in Int, NEW period \in Int PROVE PeriodRoundTrip(tpdo, period)
  OBVIOUS
<1> DEFINE request == ParseRequest(SetTpdoPeriod(tpdo, period))
           asked   == ParseRequest(GetTpdoPeriod(tpdo))
           answer  == ParseResponse(BuildUploadResponse(asked.index, asked.sub, request.data))
           fit     == tpdo \in 1 .. 3 /\ period \in Word
<1>1. ASSUME ~fit PROVE request = ProtocolError
  <2>1. SetTpdoPeriod(tpdo, period) = <<>>
    BY <1>1 DEF SetTpdoPeriod
  <2>2. Len(SetTpdoPeriod(tpdo, period)) # 8
    BY <2>1
  <2> QED  BY <2>2 DEF ParseRequest
<1>2. ASSUME fit
      PROVE  /\ answer.kind = "upload"
             /\ Unpack(answer.data, 2) = period
             /\ <<asked.index, asked.sub>> = <<request.index, request.sub>>
             /\ \A other \in 1 .. 3 \ {tpdo} :
                   ParseRequest(GetTpdoPeriod(other)).index # request.index
  <2> DEFINE data == Pack(period, 2)
             about(kind, index, d) == [kind |-> kind, index |-> index, sub |-> 5, data |-> d]
  <2>1. data \in Seq(Byte) /\ Len(data) = 2 /\ 5 \in Byte
    <3>1. 0 \in Nat /\ 2 \in 1 .. 4 /\ 5 \in Byte
      BY DEF Byte
    <3> QED  BY <3>1, PackParts
  <2>2. \A t \in 1 .. 3 :
           /\ ParseRequest(BuildDownload(EventTimer(t), 5, data)) = about("download", EventTimer(t), data)
           /\ ParseResponse(BuildUploadResponse(EventTimer(t), 5, data)) = about("upload", EventTimer(t), data)
           /\ ParseRequest(BuildUpload(EventTimer(t), 5)) = about("upload", EventTimer(t), <<>>)
    <3> SUFFICES ASSUME NEW t \in 1 .. 3
                 PROVE  /\ ParseRequest(BuildDownload(EventTimer(t), 5, data))
                             = about("download", EventTimer(t), data)
                        /\ ParseResponse(BuildUploadResponse(EventTimer(t), 5, data))
                             = about("upload", EventTimer(t), data)
                        /\ ParseRequest(BuildUpload(EventTimer(t), 5))
                             = about("upload", EventTimer(t), <<>>)
      OBVIOUS
    <3> HIDE DEF data
    <3>1. TransferRoundTrip(EventTimer(t), 5, data)
      BY <2>1, TimerFacts, TransfersAlways
    <3>2. Len(data) \in 1 .. 4
      BY <2>1
    <3> QED  BY <3>1, <3>2 DEF TransferRoundTrip
  <2>3. Unpack(data, 2) = period
    <3>1. ValueRoundTrip(period, 2, 2)
      BY ValuesAlways
    <3>2. Limit(2) = 65536
      BY DEF Limit, Place
    <3>3. period % 65536 = period
      BY <1>2, WordFacts
    <3> QED  BY <3>1, <3>2, <3>3 DEF ValueRoundTrip
  <2>4. SetTpdoPeriod(tpdo, period) = BuildDownload(EventTimer(tpdo), 5, data)
    BY <1>2 DEF SetTpdoPeriod
  <2>5. \A t \in 1 .. 3 : GetTpdoPeriod(t) = BuildUpload(EventTimer(t), 5)
    BY DEF GetTpdoPeriod
  <2> HIDE DEF data
  <2>6. request = about("download", EventTimer(tpdo), data)
    BY <1>2, <2>2, <2>4
  <2>7. \A t \in 1 .. 3 : ParseRequest(GetTpdoPeriod(t)) = about("upload", EventTimer(t), <<>>)
    BY <2>2, <2>5
  <2>8. asked = about("upload", EventTimer(tpdo), <<>>)
    BY <1>2, <2>7
  <2> HIDE DEF request, asked
  <2>9. answer = about("upload", EventTimer(tpdo), data)
    BY <1>2, <2>2, <2>6, <2>8
  <2> HIDE DEF answer
  <2>10. \A t \in 1 .. 3 \ {tpdo} : ParseRequest(GetTpdoPeriod(t)).index # request.index
    BY <1>2, <2>6, <2>7, TimerFacts
  <2> QED  BY <2>3, <2>6, <2>8, <2>9, <2>10
<1> HIDE DEF request, asked, answer
<1> QED  BY <1>1, <1>2 DEF PeriodRoundTrip, request, asked, answer

-----------------------------------------------------------------------------
(* The invariants of MCCodec *)

\* The input is nothing, or one of those listed.
LEMMA InputListed == Spec => [](input \in Inputs \cup {Nothing})
<1>1. Init => input \in Inputs \cup {Nothing}
  BY DEF Init
<1>2. input \in Inputs \cup {Nothing} /\ [Next]_input => (input \in Inputs \cup {Nothing})'
  BY DEF Next
<1> QED  BY <1>1, <1>2, PTL DEF Spec

\* What a frame among the inputs looks like.
LEMMA FrameFields ==
    ASSUME NEW r \in Frames
    PROVE  r.what = "frame" /\ r.id \in Nat /\ r.extended \in BOOLEAN /\ r.length \in Nat
<1> DEFINE of(ids, flags, lengths) ==
             [what : {"frame"}, id : ids, extended : flags, length : lengths]
<1>1. \/ r \in of(0 .. 2 * Standard - 1, {FALSE}, {0, 1, 3, 5, 8})
      \/ r \in of(Standard - 650 .. Standard + 150, {TRUE}, {1, 3, 5, 8})
  BY Zenon DEF Frames
<1>2. ASSUME NEW ids \in SUBSET Nat, NEW flags \in SUBSET BOOLEAN, NEW lengths \in SUBSET Nat,
             r \in of(ids, flags, lengths)
      PROVE  r.what = "frame" /\ r.id \in Nat /\ r.extended \in BOOLEAN /\ r.length \in Nat
  BY <1>2, Zenon
<1>3. Standard \in Nat /\ Standard >= 650
  BY DEF Standard
<1> DEFINE around == Standard - 650 .. Standard + 150
<1>4. CASE r \in of(around, {TRUE}, {1, 3, 5, 8})
  <2>1. around \in SUBSET Nat
    BY <1>3
  <2>2. {TRUE} \in SUBSET BOOLEAN /\ {1, 3, 5, 8} \in SUBSET Nat
    OBVIOUS
  <2> HIDE DEF of, around
  <2> QED  BY <1>2, <1>4, <2>1, <2>2, Zenon
<1> HIDE DEF of
<1>5. CASE r \in of(0 .. 2 * Standard - 1, {FALSE}, {0, 1, 3, 5, 8})
  <2>1. 0 .. 2 * Standard - 1 \in SUBSET Nat
    BY <1>3
  <2>2. {FALSE} \in SUBSET BOOLEAN /\ {0, 1, 3, 5, 8} \in SUBSET Nat
    OBVIOUS
  <2> QED  BY <1>2, <1>5, <2>1, <2>2, Zenon
<1> QED  BY <1>1, <1>5, <1>4 DEF around

\* An input of a kind is one of that kind's set.
LEMMA InputKinds ==
    ASSUME input \in Inputs \cup {Nothing}
    PROVE  /\ input.what = "frame" => input \in Frames
           /\ input.what = "status" => input \in Statuses
           /\ input.what = "fields" => input \in Settings
           /\ input.what = "payload" => input \in Samples
           /\ input.what = "track" => input \in Tracks
           /\ input.what = "transfer" => input \in Transfers
           /\ input.what = "period" => input \in Periods
           /\ input.what = "value" => input \in Values
<1>1. \A r \in Frames : r.what = "frame"
  BY FrameFields
<1>2. \A r \in Statuses : r.what = "status"
  BY DEF Statuses
<1>0. \A r \in Settings : r.what = "fields"
  BY DEF Settings
<1>3. \A r \in Samples : r.what = "payload"
  BY DEF Samples
<1>4. \A r \in Tracks : r.what = "track"
  BY DEF Tracks
<1>5. \A r \in Transfers : r.what = "transfer"
  BY DEF Transfers
<1>6. \A r \in Periods : r.what = "period"
  BY DEF Periods
<1>7. \A r \in Values : r.what = "value"
  BY DEF Values
<1>8. Nothing.what = "nothing"
  BY DEF Nothing
<1>9. \/ input \in Frames \/ input \in Statuses \/ input \in Settings
      \/ input \in Samples \/ input \in Tracks
      \/ input \in Transfers \/ input \in Periods \/ input \in Values \/ input = Nothing
  BY DEF Inputs
<1> QED  BY <1>0, <1>1, <1>2, <1>3, <1>4, <1>5, <1>6, <1>7, <1>8, <1>9

\* Every frame goes to the node it comes from, under its own kind
\* (decoder.py decode_frame, driver.py _on_frame).
THEOREM FramesSortedAlways == Spec => []FramesSorted
<1>1. ASSUME input \in Inputs \cup {Nothing} PROVE FramesSorted
  <2> SUFFICES ASSUME input.what = "frame", NEW n \in Nodes
               PROVE  SortedFor([id |-> input.id, extended |-> input.extended,
                                 length |-> input.length], n)
    BY DEF FramesSorted
  <2>1. input.id \in Nat /\ input.extended \in BOOLEAN /\ input.length \in Nat
    <3>1. input \in Frames
      BY <1>1, InputKinds
    <3> QED  BY <3>1, FrameFields
  <2>2. n \in NodeIds
    BY DEF Nodes, NodeIds
  <2>3. [id |-> input.id, extended |-> input.extended, length |-> input.length]
          \in [id : Nat, extended : BOOLEAN, length : Nat]
    BY <2>1
  <2> QED  BY <2>2, <2>3, SortedAlways
<1> QED  BY <1>1, InputListed, PTL

\* No payload loses anything (decoder.py decode_status, decode_tpdo1 to 3,
\* decode_heartbeat).
THEOREM PayloadsKeptAlways == Spec => []PayloadsKept
<1>1. ASSUME input \in Inputs \cup {Nothing} PROVE PayloadsKept
  <2>1. ASSUME input.what = "status"
        PROVE  StatusRoundTrip(input.byte) /\ StatusAsDocumented(input.byte)
    <3>1. input.byte \in Byte
      BY <1>1, <2>1, InputKinds DEF Statuses
    <3> QED  BY <3>1, StatusKeptAlways, StatusDocumented
  <2>3. ASSUME input.what = "fields" PROVE FieldsRoundTrip(input.fields)
    <3>1. input.fields \in Fields
      BY <1>1, <2>3, InputKinds DEF Settings
    <3> QED  BY <3>1, FieldsKept
  <2>2. ASSUME input.what = "payload" PROVE PayloadRoundTrip(input.kind, input.data)
    <3>1. input \in Samples
      BY <1>1, <2>2, InputKinds
    <3>2. /\ input.kind \in DOMAIN ExpectedLength
          /\ input.data \in [1 .. ExpectedLength[input.kind] -> Byte]
      <4>1. {0, 1, 127, 128, 255} \subseteq Byte /\ {0, 128, 255} \subseteq Byte
        BY DEF Byte
      <4> DEFINE of(kind, bytes) ==
                   [what : {"payload"}, kind : {kind}, data : [1 .. ExpectedLength[kind] -> bytes]]
      <4>2. \/ input \in of("track", {0, 1, 127, 128, 255})
            \/ input \in of("markers", {0, 128, 255})
            \/ input \in of("navicode", {0, 1, 127, 128, 255})
            \/ input \in of("heartbeat", Byte)
        BY <3>1 DEF Samples
      <4>3. ASSUME NEW kind \in DOMAIN ExpectedLength, NEW bytes \in SUBSET Byte,
                   input \in of(kind, bytes)
            PROVE  /\ input.kind \in DOMAIN ExpectedLength
                   /\ input.data \in [1 .. ExpectedLength[input.kind] -> Byte]
        <5>1. input.kind = kind /\ input.data \in [1 .. ExpectedLength[kind] -> bytes]
          BY <4>3
        <5>2. [1 .. ExpectedLength[kind] -> bytes] \subseteq [1 .. ExpectedLength[kind] -> Byte]
          OBVIOUS
        <5> QED  BY <5>1, <5>2
      <4>4. DOMAIN ExpectedLength = {"track", "markers", "navicode", "heartbeat"}
        BY DEF ExpectedLength
      <4> HIDE DEF of
      <4> QED  BY <4>1, <4>2, <4>3, <4>4
    <3> QED  BY <3>2, PayloadKeptAlways
  <2> QED  BY <2>1, <2>2, <2>3 DEF PayloadsKept
<1> QED  BY <1>1, InputListed, PTL

\* The mounting inversions undo themselves (decoder.py apply_inversions).
THEOREM InversionsAlwaysUndone == Spec => []InversionsUndone
<1>1. ASSUME input \in Inputs \cup {Nothing} PROVE InversionsUndone
  <2> SUFFICES ASSUME input.what = "track"
               PROVE  InversionsCancel([leftPosition |-> input.leftPosition,
                                        rightPosition |-> input.rightPosition,
                                        leftAngle |-> input.leftAngle,
                                        rightAngle |-> input.rightAngle],
                                       input.position, input.angle)
    BY DEF InversionsUndone
  <2>1. /\ input.position \in BOOLEAN /\ input.angle \in BOOLEAN
        /\ input.leftPosition \in Int /\ input.rightPosition \in Int
        /\ input.leftAngle \in Int /\ input.rightAngle \in Int
    BY <1>1, InputKinds DEF Tracks, Boundary
  <2> QED  BY <2>1, InversionsUndoneAlways
<1> QED  BY <1>1, InputListed, PTL

\* SDO frames are read as they were built, and a period or another value that
\* was written is the one read back (sdo.py).
THEOREM TransfersAlwaysKept == Spec => []TransfersKept
<1>1. ASSUME input \in Inputs \cup {Nothing} PROVE TransfersKept
  <2>1. ASSUME input.what = "transfer"
        PROVE  TransferRoundTrip(input.index, input.sub, input.data)
    <3>1. /\ input.index \in {0, 6144, 8192, 65535} /\ input.sub \in {0, 5, 255}
          /\ input.data \in Payloads
      BY <1>1, <2>1, InputKinds DEF Transfers
    <3>2. input.index \in Word /\ input.sub \in Byte
      BY <3>1, WordFacts DEF Byte
    <3>3. input.data \in Seq(Byte)
      <4>1. PICK n \in 0 .. 5 : input.data \in [1 .. n -> {0, 1, 255}]
        BY <3>1 DEF Payloads
      <4>2. {0, 1, 255} \subseteq Byte /\ n \in Nat
        BY DEF Byte
      <4> QED  BY <4>1, <4>2
    <3> QED  BY <3>2, <3>3, TransfersAlways
  <2>2. ASSUME input.what = "period" PROVE PeriodRoundTrip(input.tpdo, input.value)
    <3>1. input.tpdo \in Int /\ input.value \in Int
      BY <1>1, <2>2, InputKinds DEF Periods
    <3> QED  BY <3>1, PeriodsAlways
  <2>3. ASSUME input.what = "value"
        PROVE  ValueRoundTrip(input.value, input.widths[1], input.widths[2])
    <3>1. /\ input.value \in Int
          /\ input.widths \in {<<1, 1>>, <<1, 2>>, <<1, 4>>, <<2, 2>>, <<2, 4>>}
      BY <1>1, <2>3, InputKinds DEF Values
    <3>2. /\ input.widths[1] \in {1, 2, 4} /\ input.widths[2] \in {1, 2, 4}
          /\ input.widths[1] <= input.widths[2]
      BY <3>1
    <3> QED  BY <3>1, <3>2, ValuesAlways
  <2> QED  BY <2>1, <2>2, <2>3 DEF TransfersKept
<1> QED  BY <1>1, InputListed, PTL
=============================================================================
