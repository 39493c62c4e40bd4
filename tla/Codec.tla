-------------------------------- MODULE Codec --------------------------------
(***************************************************************************)
(* internal/protocol/serialize.go and frame.go: how values become the      *)
(* payload of a frame, frames a message, and a message frames and values   *)
(* again, when the end of the payload or of the message has been lost.     *)
(*                                                                         *)
(* Bytes are numbers, and their size is scaled down: in the code a byte is *)
(* 2 * 2^7 and Digit 2^7.  The counts are those of the code, four bytes to *)
(* a word and at most five digits to a VQL, of which the fifth has the     *)
(* last four bits of the word.                                             *)
(*                                                                         *)
(* Definitions marked Slip are not the code: they are mistakes it could    *)
(* have made, which the properties below notice.                           *)
(***************************************************************************)
EXTENDS Integers, SequencesExt, Functions

CONSTANTS
    Digit,         \* what a byte of a VQL holds: 2^7
    Values,        \* the Go values that are written, and their elements
    Depth,         \* how deep the arrays in a value nest
    Text,          \* what json.Marshal makes of those it is used for
    MaxValues,     \* bound: values in a message
    MaxLost        \* bound: bytes missing at the end of a payload

Byte       == 2 * Digit
Word       == Byte * Byte * Byte * Byte
HeaderSize == 13

(* A float64 without a fraction that fits a uint32.                        *)
IsWord(n) == n \in 0 .. Word - 1

(* A Go value is a pair of its kind and its content; what is neither nil,  *)
(* a string, bytes, a number or an array is of kind "other".               *)
Json == {v \in Values : v[1] = "other" \/ (v[1] = "float" /\ ~IsWord(v[2]))}

ASSUME BoundAssumption == MaxValues \in Nat /\ MaxLost \in Nat

ASSUME DigitAssumption == Digit \in Nat /\ Digit >= 16

ASSUME ValuesAssumption ==
    /\ Values \subseteq {<<"nil", 0>>} \cup ({"string", "bytes"} \X Seq(0 .. Byte - 1))
                       \cup ({"int", "float"} \X Int) \cup ({"array"} \X Seq(Values))
                       \cup ({"other"} \X STRING)
    /\ Depth \in [Values -> Nat]
    /\ \A v \in Values : v[1] = "array" => \A i \in DOMAIN v[2] : Depth[v[2][i]] < Depth[v]

(* Different JSON values have different texts; what json.Marshal refuses   *)
(* is not among them.                                                      *)
ASSUME TextAssumption == Text \in [Json -> Seq(0 .. Byte - 1)] /\ IsInjective(Text)

(* DataType *)
DTUndefined == 0
DTString    == 1
DTBuffer    == 2
DTVSBuffer  == 3
DTArray     == 4
DTObject    == 5
DTInt       == 6

-----------------------------------------------------------------------------
(* Serialize                                                               *)

(* A value goes seven bits to the right with every byte: the last has no   *)
(* rest.                                                                   *)
Rest(n) ==
    LET rest[k \in 0 .. 5] == IF k = 0 THEN n ELSE rest[k - 1] \div Digit
    IN  rest

WriteVQL(n) ==
    LET rest == Rest(n)
        size == CHOOSE k \in 1 .. 5 : rest[k] = 0 /\ \A j \in 1 .. k - 1 : rest[j] > 0
    IN  [k \in 1 .. size |-> (rest[k - 1] % Digit) + (IF rest[k] > 0 THEN Digit ELSE 0)]

Sized(type, bytes) == <<type>> \o WriteVQL(Len(bytes) % Word) \o bytes

(* A value whose elements serialize writes.                                *)
Written(serialize, v) ==
    LET content == v[2]
    IN  CASE v[1] = "nil"    -> <<DTUndefined>>
          [] v[1] = "string" -> Sized(DTString, content)
          [] v[1] = "bytes"  -> Sized(DTVSBuffer, content)
          [] v[1] = "int"    -> <<DTInt>> \o WriteVQL(content % Word)
          [] v[1] = "float" /\ IsWord(content) -> <<DTInt>> \o WriteVQL(content)
          [] v[1] = "array"  -> <<DTArray>> \o WriteVQL(Len(content) % Word)
                                    \o FlattenSeq([i \in 1 .. Len(content) |-> serialize[content[i]]])
          [] OTHER           -> Sized(DTObject, Text[v])

Serialize[v \in Values] == Written(Serialize, v)

-----------------------------------------------------------------------------
(* Deserialize: the value at a position of a buffer and the position       *)
(* behind it, or an error.                                                 *)

Failed         == [ok |-> FALSE]
Found(v, next) == [ok |-> TRUE, value |-> v, next |-> next]

(* Slip: the last digit that has bits in a word is refused.                *)
TooLongEarly(k) == k > 2

(* n > 28, for n = 7 * k.  The digit at k has been added when it is asked. *)
TooLong(k) == k > 4

Shift[k \in 0 .. 5] == IF k = 0 THEN 1 ELSE Shift[k - 1] * Digit

(* Bits beyond the word are shifted out.                                   *)
Sum(digit) ==
    LET sum[k \in 0 .. 5] ==
            ((IF k = 0 THEN 0 ELSE sum[k - 1]) + digit[k] * Shift[k]) % Word
    IN  sum[5]

(* A VQL ends with byte k if that one is small, the bytes before are not.  *)
EndsWith(buf, pos, k) ==
    /\ pos + k <= Len(buf) /\ buf[pos + k] < Digit
    /\ \A j \in 0 .. k - 1 : buf[pos + j] >= Digit /\ ~TooLong(j)

ReadVQL(buf, pos) ==
    IF \E k \in 0 .. 5 : EndsWith(buf, pos, k)
    THEN LET last == CHOOSE k \in 0 .. 5 : EndsWith(buf, pos, k)
         IN  Found(Sum([k \in 0 .. 5 |-> IF k <= last THEN buf[pos + k] % Digit ELSE 0]),
                   pos + last + 1)
    ELSE Failed

ReadN(buf, pos, n) ==
    IF pos + n > Len(buf) + 1 THEN Failed ELSE Found(SubSeq(buf, pos, pos + n - 1), pos + n)

ReadSized(buf, pos) ==
    LET length == ReadVQL(buf, pos)
    IN  IF length.ok THEN ReadN(buf, length.next, length.value) ELSE Failed

As(kind, found) == IF found.ok THEN Found(<<kind, found.value>>, found.next) ELSE Failed

(* json.Unmarshal refuses what is not a text.                              *)
Unmarshal(found) ==
    IF found.ok /\ \E v \in Json : Text[v] = found.value
    THEN Found(CHOOSE v \in Json : Text[v] = found.value, found.next)
    ELSE Failed

(* The first n values from a position on; parse has the one at each.       *)
ReadArray(parse, pos, n) ==
    LET first[k \in 0 .. n] ==
            IF k = 0 THEN Found(<<>>, pos)
            ELSE LET before == first[k - 1]
                     el     == parse[before.next]
                 IN  IF before.ok /\ el.ok
                     THEN Found(Append(before.value, el.value), el.next)
                     ELSE Failed
    IN  first[n]

(* The value at a position, parse having those at the positions behind it. *)
ReadValue(buf, parse, pos) ==
    IF pos > Len(buf) THEN Failed
    ELSE LET type   == buf[pos]
             body   == pos + 1
             length == ReadVQL(buf, body)
         IN  CASE type = DTUndefined -> Found(<<"nil", 0>>, body)
               [] type = DTString    -> As("string", ReadSized(buf, body))
               [] type \in {DTBuffer, DTVSBuffer} -> As("bytes", ReadSized(buf, body))
               [] type = DTArray     -> IF length.ok
                                        THEN As("array", ReadArray(parse, length.next, length.value))
                                        ELSE Failed
               [] type = DTObject    -> Unmarshal(ReadSized(buf, body))
               [] type = DTInt       -> As("int", ReadVQL(buf, body))
               [] OTHER              -> Failed

Deserialize(buf) ==
    LET parse[pos \in 1 .. Len(buf) + 1] == ReadValue(buf, parse, pos)
    IN  parse

-----------------------------------------------------------------------------
(* Frames                                                                  *)

BigEndian(n) ==
    LET third  == n \div Byte
        second == third \div Byte
        first  == second \div Byte
    IN  <<first % Byte, second % Byte, third % Byte, n % Byte>>

Uint32(data, at) ==
    ((data[at] * Byte + data[at + 1]) * Byte + data[at + 2]) * Byte + data[at + 3]

EncodeFrame(f) ==
    <<f.type>> \o BigEndian(f.id) \o BigEndian(f.ack) \o BigEndian(Len(f.payload)) \o f.payload

(* Where the frame ends, in the arithmetic of a uint32.                    *)
FrameEnd(data) == (HeaderSize + Uint32(data, 10)) % Word

(* The slice of a payload whose length made the sum wrap panics.           *)
Panic == [ok |-> FALSE, panic |-> TRUE]

DecodeFrame(data) ==
    IF Len(data) < HeaderSize \/ Len(data) < FrameEnd(data) THEN Failed
    ELSE IF FrameEnd(data) < HeaderSize THEN Panic
    ELSE Found([type |-> data[1], id |-> Uint32(data, 2), ack |-> Uint32(data, 6),
                payload |-> SubSeq(data, HeaderSize + 1, FrameEnd(data))],
               FrameEnd(data))

-----------------------------------------------------------------------------
VARIABLES
    sent,       \* history: the frames of the message, each with its values
    message,    \* the message
    left,       \* what readLoop has not decoded of it; dispatchLoop reads
                \*   the values of a frame before the next one is decoded
    payload,    \* what is left of the payload of the frame that was decoded
    read,       \* the frames that have been read, each with its values
    phase       \* "write", "frames", "header", "body" or "end"

vars == <<sent, message, left, payload, read, phase>>

Init ==
    /\ sent = <<>> /\ message = <<>> /\ left = <<>> /\ payload = <<>> /\ read = <<>>
    /\ phase = "write"

Sending == Len(FlattenSeq([i \in DOMAIN sent |-> sent[i].values]))

Frame(id, ack, type, body) == [type |-> type, id |-> id, ack |-> ack, payload |-> body]

(* Bound: a frame is not longer than a word can say.                       *)
Fits(bytes) == HeaderSize + Len(bytes) < Word

(* A frame with some values joins the message, whole or, the writer being  *)
(* at fault, with a payload whose end is missing.  The number of a frame   *)
(* wraps.                                                                  *)
Send(vs, lost) ==
    LET full == FlattenSeq([i \in 1 .. Len(vs) |-> Serialize[vs[i]]])
        body == SubSeq(full, 1, Len(full) - lost)
        f    == Frame((Word - 1 + Len(sent)) % Word, Len(sent) % Word, 1, body)
    IN  /\ phase = "write"
        /\ Sending + Len(vs) <= MaxValues
        /\ lost <= Len(full) /\ Fits(full)
        /\ sent' = Append(sent, [frame |-> f, values |-> vs, whole |-> lost = 0])
        /\ message' = message \o EncodeFrame(f)
        /\ UNCHANGED <<left, payload, read, phase>>

(* The message arrives, or the first bytes of it.                          *)
Arrive(n) ==
    /\ phase = "write" /\ sent # <<>>
    /\ left' = SubSeq(message, 1, n)
    /\ phase' = "frames"
    /\ UNCHANGED <<sent, message, payload, read>>

(* readLoop decodes the next frame, or gives the message up (or panics,    *)
(* and the program ends).                                                  *)
NextFrame ==
    LET found == DecodeFrame(left)
    IN  /\ phase = "frames"
        /\ IF left # <<>> /\ found.ok
           THEN /\ left' = SubSeq(left, found.next + 1, Len(left))
                /\ payload' = found.value.payload
                /\ read' = Append(read, [frame |-> found.value, values |-> <<>>])
                /\ phase' = "header"
           ELSE /\ phase' = "end"
                /\ UNCHANGED <<left, payload, read>>
        /\ UNCHANGED <<sent, message>>

(* dispatchLoop reads a header from the payload, without which it drops    *)
(* the frame, ...                                                          *)
NextHeader ==
    LET found == Deserialize(payload)[1]
        last  == Len(read)
    IN  /\ phase = "header"
        /\ IF found.ok
           THEN /\ payload' = SubSeq(payload, found.next, Len(payload))
                /\ read' = [read EXCEPT ![last].values = Append(@, found.value)]
                /\ phase' = "body"
           ELSE /\ phase' = "frames"
                /\ UNCHANGED <<payload, read>>
        /\ UNCHANGED <<sent, message, left>>

Nil == <<"nil", 0>>

(* ... and a body, which is nil if it cannot be read.  Whatever follows in *)
(* the payload is not looked at.  (What becomes of header and body is in   *)
(* IPCClient.)                                                             *)
NextBody ==
    LET found == Deserialize(payload)[1]
        last  == Len(read)
        body  == IF found.ok THEN found.value ELSE Nil
    IN  /\ phase = "body"
        /\ read' = [read EXCEPT ![last].values = Append(@, body)]
        /\ phase' = "frames"
        /\ UNCHANGED <<sent, message, left, payload>>

Next ==
    \/ \E n \in 1 .. MaxValues, lost \in 0 .. MaxLost : \E vs \in [1 .. n -> Values] : Send(vs, lost)
    \/ \E n \in 1 .. Len(message) : Arrive(n)
    \/ NextFrame \/ NextHeader \/ NextBody

Spec == Init /\ [][Next]_vars

-----------------------------------------------------------------------------
(* Properties                                                              *)

(* What becomes of a Go value: reduced to a word, or to a JSON value.      *)
Reduced(normal, v) ==
    CASE v[1] = "int" -> <<"int", v[2] % Word>>
      [] v[1] = "float" /\ IsWord(v[2]) -> <<"int", v[2]>>
      [] v[1] = "array" -> <<"array", [i \in 1 .. Len(v[2]) |-> normal[v[2][i]]]>>
      [] OTHER -> v

Normal[v \in Values] == Reduced(Normal, v)

(* Frames come out as they went in, and if the message is torn, those and  *)
(* only those that arrived whole; ...                                      *)
FramesSurvive ==
    /\ Len(read) <= Len(sent)
    /\ \A i \in DOMAIN read : read[i].frame = sent[i].frame
    /\ (phase = "end" /\ Len(read) < Len(sent)) =>
          Len(left) < HeaderSize + Len(sent[Len(read) + 1].frame.payload)

(* ... so do the header and the body of each: a header is the one that was *)
(* written, a body is too, or nil where there was none or the end of the   *)
(* payload is missing; and of a whole payload both are read.               *)
ValuesSurvive ==
    \A i \in DOMAIN read \cap DOMAIN sent :
        LET got   == read[i].values
            wrote == sent[i].values
            body  == IF Len(wrote) > 1 THEN Normal[wrote[2]] ELSE Nil
        IN  /\ got # <<>> => got[1] = Normal[wrote[1]]
            /\ Len(got) > 1 => got[2] = body \/ (got[2] = Nil /\ ~sent[i].whole)
            /\ (sent[i].whole /\ (phase = "end" \/ i < Len(read))) => Len(got) = 2

(* Nothing is read that was not written, but for a body that is nil;       *)
(* nothing that arrived whole is missing.                                  *)
RoundTrip == FramesSurvive /\ ValuesSurvive
=============================================================================
