------------------------------ MODULE MCCodec ------------------------------
(* The functions of Codec on one input after another: every identifier and   *)
(* status byte, boundary values of the rest.                                 *)
EXTENDS Codec

VARIABLE input

Nodes == {1, 10, 11, 127}

\* Every standard identifier, each with a twelfth bit too (test_decoder.py:36),
\* and extended ones on both sides of 11 bits.
Standard == 2048
Frames ==
    [what : {"frame"}, id : 0 .. 2 * Standard - 1, extended : {FALSE}, length : {0, 1, 3, 5, 8}]
    \cup [what : {"frame"}, id : Standard - 650 .. Standard + 150, extended : {TRUE}, length : {1, 3, 5, 8}]

Statuses == [what : {"status"}, byte : Byte]

\* What encode_status can be called with.
Fields ==
    [strength : -1 .. 4, left_marker : BOOLEAN, right_marker : BOOLEAN,
     intersection : BOOLEAN, fork : BOOLEAN, merge : BOOLEAN, fault : BOOLEAN]
Settings == [what : {"fields"}, fields : Fields]

\* Every payload of boundary bytes, of the length its kind has.
Samples ==
    LET of(kind, bytes) ==
          [what : {"payload"}, kind : {kind}, data : [1 .. ExpectedLength[kind] -> bytes]]
    IN  of("track", {0, 1, 127, 128, 255}) \cup of("markers", {0, 128, 255})
          \cup of("navicode", {0, 1, 127, 128, 255}) \cup of("heartbeat", Byte)

Boundary == {-128, -1, 0, 127}
Tracks ==
    [what : {"track"}, position : BOOLEAN, angle : BOOLEAN,
     leftPosition : Boundary, rightPosition : Boundary,
     leftAngle : Boundary, rightAngle : Boundary]

Payloads == UNION {[1 .. n -> {0, 1, 255}] : n \in 0 .. 5}
Transfers ==
    [what : {"transfer"}, index : {0, 6144, 8192, 65535}, sub : {0, 5, 255}, data : Payloads]

Periods ==
    [what : {"period"}, tpdo : 0 .. 4, value : {-1, 0, 1, 255, 256, 1000, 65535, 65536}]

Values ==
    [what : {"value"}, value : {0, 1, 255, 256, 65535, 65536, 16777217},
     widths : {<<1, 1>>, <<1, 2>>, <<1, 4>>, <<2, 2>>, <<2, 4>>}]

Inputs ==
    Frames \cup Statuses \cup Settings \cup Samples \cup Tracks \cup Transfers \cup Periods \cup Values

Nothing == [what |-> "nothing"]

Init == input = Nothing
Next == input = Nothing /\ input' \in Inputs
Spec == Init /\ [][Next]_input

\* Every frame goes to the node it comes from, under its own kind
\* (decoder.py decode_frame, driver.py _on_frame).
FramesSorted ==
    input.what = "frame" =>
       \A n \in Nodes :
          SortedFor([id |-> input.id, extended |-> input.extended, length |-> input.length], n)

\* The sensor's payloads are decoded without loss, signs and every bit of the
\* status byte included, and the bits are those of the documented layout
\* (decoder.py decode_status, encode_status, decode_tpdo1 to 3,
\* decode_heartbeat).
PayloadsKept ==
    /\ input.what = "status" =>
          StatusRoundTrip(input.byte) /\ StatusAsDocumented(input.byte)
    /\ input.what = "fields" => FieldsRoundTrip(input.fields)
    /\ input.what = "payload" => PayloadRoundTrip(input.kind, input.data)

\* The mounting inversions undo themselves (decoder.py apply_inversions).
InversionsUndone ==
    input.what = "track" =>
       InversionsCancel([leftPosition |-> input.leftPosition,
                         rightPosition |-> input.rightPosition,
                         leftAngle |-> input.leftAngle, rightAngle |-> input.rightAngle],
                        input.position, input.angle)

\* SDO frames are read as they were built (sdo.py), and a period or another
\* value that was written is the one read back.
TransfersKept ==
    /\ input.what = "transfer" => TransferRoundTrip(input.index, input.sub, input.data)
    /\ input.what = "period" => PeriodRoundTrip(input.tpdo, input.value)
    /\ input.what = "value" =>
          ValueRoundTrip(input.value, input.widths[1], input.widths[2])
=============================================================================
