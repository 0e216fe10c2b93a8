-------------------------------- MODULE Payload --------------------------------
(***************************************************************************)
(* Payloads: objects that an application fills, serializes, and another    *)
(* application deserializes into an object of the same structure, which    *)
(* may hold an earlier payload.  Lengths matter to the layout, so bytes    *)
(* are modelled one by one; the value of a float is its bit pattern.       *)
(*                                                                         *)
(* An object is basic, a number or a string, or a container with parts.    *)
(* What is defined by recursion over objects is a function of how deep     *)
(* they are nested: X[n] is the function for objects of at most n levels,  *)
(* and the operator of a container takes the function of the level below.  *)
(*                                                                         *)
(* An exception ends a deserialization half way: the result tells whether  *)
(* it did, and the object as it is then.                                   *)
(***************************************************************************)
EXTENDS Integers, Sequences

CONSTANTS
  Structs,      \* the structures to begin with
  Values,       \* the numbers an application assigns to a scalar
  Char,         \* the characters there are: code points
  Texts,        \* the texts it assigns to a string: sequences of characters
  MaxElements,  \* bound on the elements of a dynamic array
  Depth         \* how deep containers are nested

Byte == 0..255

Encoding == {"utf-8", "utf-16le", "utf-16be"}

EndsInZero(text) == text # <<>> /\ text[Len(text)] = 0

\* Code points without the surrogates; 0 ends a string.
ASSUME CharAssumption ==
  0 \in Char /\ \A c \in Char : c \in Nat /\ c < 1114112 /\ (c < 55296 \/ c > 57343)
ASSUME TextAssumption == \A t \in Texts : t \in Seq(Char) /\ ~EndsInZero(t)
ASSUME ValueAssumption == Values \subseteq Int
ASSUME BoundAssumption == MaxElements \in Nat /\ Depth \in Nat

VARIABLES
  sent,     \* the object of the sender
  held,     \* the object of the receiver
  outcome   \* of the last transfer: what went over the wire and how it ended

vars == <<sent, held, outcome>>

-----------------------------------------------------------------------------
(* Objects                                                                 *)

Scalars == [type : {"Uint", "Sint", "Bool", "Float"}, width : Nat \ {0}, value : Int]

FixedStrings == [type : {"FixedString"}, size : Nat, data : Seq(Char), encoding : Encoding]

\* fieldLength: the bytes of the length field; length: those of the string without it.
DynamicStrings ==
  [type : {"DynamicString"}, fieldLength : {1, 2, 4}, length : Nat, data : Seq(Char),
   encoding : Encoding]

Basic == Scalars \cup FixedStrings \cup DynamicStrings

\* A struct (SomeIpPayload) has its members as parts, an array its data; of: what a
\* new element of the array is.
Containers(Part) ==
  [type : {"Struct", "FixedArray"}, parts : Seq(Part)] \cup
  [type : {"DynamicArray"}, fieldLength : {0, 1, 2, 4}, of : Part, parts : Seq(Part)]

Objects[n \in 0..Depth] == IF n = 0 THEN Basic ELSE Basic \cup Containers(Objects[n - 1])

IsContainer(o) == o.type \in {"Struct", "FixedArray", "DynamicArray"}

HasDynamicSize(o) == o.type \in {"DynamicArray", "DynamicString"}

\* As the constructors make them.
Scalar(type, width) == [type |-> type, width |-> width, value |-> 0]

Struct(members) == [type |-> "Struct", parts |-> members]

FixedArray(of, size) == [type |-> "FixedArray", parts |-> [i \in 1..size |-> of]]

DynamicArray(of, fieldLength) ==
  [type |-> "DynamicArray", fieldLength |-> fieldLength, of |-> of, parts |-> <<>>]

FixedString(size) ==
  [type |-> "FixedString", size |-> size, data |-> <<>>, encoding |-> "utf-8"]

DynamicString(fieldLength) ==
  [type |-> "DynamicString", fieldLength |-> fieldLength, length |-> 4, data |-> <<>>,
   encoding |-> "utf-8"]

-----------------------------------------------------------------------------
(* Python's slices, struct and codecs                                      *)

Slice(bytes, from, to) == SubSeq(bytes, from + 1, IF to < Len(bytes) THEN to ELSE Len(bytes))

From(bytes, from) == Slice(bytes, from, Len(bytes))

Total(numbers) ==
  LET sum[i \in 0..Len(numbers)] == IF i = 0 THEN 0 ELSE sum[i - 1] + numbers[i]
  IN  sum[Len(numbers)]

Joined(seqs) ==
  LET joined[i \in 0..Len(seqs)] == IF i = 0 THEN <<>> ELSE joined[i - 1] \o seqs[i]
  IN  joined[Len(seqs)]

\* n divided by 256 k times.
Shifted(n, k) ==
  LET quotient[i \in 0..k] == IF i = 0 THEN n ELSE quotient[i - 1] \div 256
  IN  quotient[k]

BigEndian(n, width) == [i \in 1..width |-> Shifted(n, width - i) % 256]

Raised == [ok |-> FALSE, bytes |-> <<>>]

Bytes(bytes) == [ok |-> TRUE, bytes |-> bytes]

\* struct.pack: a number out of range raises.
PackUnsigned(n, width) == IF Shifted(n, width) = 0 THEN Bytes(BigEndian(n, width)) ELSE Raised

PackSigned(n, width) ==
  IF Shifted(n, width - 1) \in -128..127 THEN Bytes(BigEndian(n, width)) ELSE Raised

\* The number with these bytes after those of start.
UnpackAfter(start, bytes) ==
  LET number[i \in 0..Len(bytes)] == IF i = 0 THEN start ELSE 256 * number[i - 1] + bytes[i]
  IN  number[Len(bytes)]

UnpackUnsigned(bytes) == UnpackAfter(0, bytes)

UnpackSigned(bytes) == UnpackAfter(IF bytes[1] < 128 THEN 0 ELSE -1, bytes)

Bom(encoding) == CASE encoding = "utf-8"    -> <<239, 187, 191>>
                   [] encoding = "utf-16le" -> <<255, 254>>
                   [] encoding = "utf-16be" -> <<254, 255>>

Utf8(c) ==
  CASE c < 128                -> <<c>>
    [] c >= 128 /\ c < 2048   -> <<192 + c \div 64, 128 + (c % 64)>>
    [] c >= 2048 /\ c < 65536 -> <<224 + c \div 4096, 128 + ((c \div 64) % 64), 128 + (c % 64)>>
    [] c >= 65536             -> <<240 + c \div 262144, 128 + ((c \div 4096) % 64),
                                   128 + ((c \div 64) % 64), 128 + (c % 64)>>

\* Beyond 65535 a surrogate pair.
Utf16(c) ==
  LET d == c - 65536
  IN  IF c < 65536 THEN <<c \div 256, c % 256>>
      ELSE <<216 + d \div 262144, (d \div 1024) % 256, 220 + ((d % 1024) \div 256), d % 256>>

EachPairSwapped(bytes) ==
  [i \in DOMAIN bytes |-> bytes[IF i % 2 = 1 THEN i + 1 ELSE i - 1]]

EncodeChar(c, encoding) ==
  CASE encoding = "utf-8"    -> Utf8(c)
    [] encoding = "utf-16be" -> Utf16(c)
    [] encoding = "utf-16le" -> EachPairSwapped(Utf16(c))

\* The bytes of one code unit.
UnitSize(encoding) == IF encoding = "utf-8" THEN 1 ELSE 2

Encode(text, encoding) == Joined([i \in 1..Len(text) |-> EncodeChar(text[i], encoding)])

\* Beginning of a text: the characters, and the bytes since the last one that are none yet.
ReadByte(state, byte, encoding) ==
  LET partial == Append(state.partial, byte)
      chars   == {c \in Char : EncodeChar(c, encoding) = partial}
  IN  IF chars = {} THEN [text |-> state.text, partial |-> partial]
      ELSE [text |-> Append(state.text, CHOOSE c \in chars : TRUE), partial |-> <<>>]

Decode(bytes, encoding) ==
  LET state[i \in 0..Len(bytes)] == IF i = 0 THEN [text |-> <<>>, partial |-> <<>>]
                                    ELSE ReadByte(state[i - 1], bytes[i], encoding)
  IN  state[Len(bytes)]

Undecodable(decoded) == decoded.partial # <<>>

StripZeros(text) == [i \in {i \in 1..Len(text) : \E j \in i..Len(text) : text[j] # 0} |-> text[i]]

-----------------------------------------------------------------------------
(* __len__: the bytes an object takes, as far as it knows                  *)

\* Mutant: the byte order mark is forgotten.
WithoutBom(o) == o.size * UnitSize(o.encoding)

FixedStringLength(o) == o.size * UnitSize(o.encoding) + Len(Bom(o.encoding))

\* What the setters of data and encoding compute: characters, not bytes, are counted.
DynamicStringLength(text, encoding) ==
  Len(Bom(encoding)) + (Len(text) + 1) * UnitSize(encoding)

BasicLength(o) == CASE o.type = "FixedString"   -> FixedStringLength(o)
                    [] o.type = "DynamicString" -> o.fieldLength + o.length
                    [] OTHER                    -> o.width

\* Elements are taken to have the length of the first, or of a new one.
ContainerLength(o, LengthOf) ==
  CASE o.type = "Struct"       -> Total([i \in DOMAIN o.parts |-> LengthOf[o.parts[i]]])
    [] o.type = "FixedArray"   -> IF o.parts = <<>> THEN 0
                                  ELSE Len(o.parts) * LengthOf[o.parts[1]]
    [] o.type = "DynamicArray" -> o.fieldLength + Len(o.parts) * LengthOf[o.of]

Length[n \in 0..Depth] ==
  [o \in Objects[n] |->
     IF IsContainer(o) THEN ContainerLength(o, Length[n - 1]) ELSE BasicLength(o)]

-----------------------------------------------------------------------------
(* serialize                                                               *)

\* One after the other; one that raises ends it.
Concat(results) ==
  IF \A i \in DOMAIN results : results[i].ok
    THEN Bytes(Joined([i \in DOMAIN results |-> results[i].bytes]))
    ELSE Raised

Asserted(result, length) == IF Len(result) = length THEN Bytes(result) ELSE Raised

SerializeScalar(o) ==
  IF o.type = "Sint" THEN PackSigned(o.value, o.width) ELSE PackUnsigned(o.value, o.width)

\* The number of fillers counts characters, and the assertion bytes.
SerializeFixedString(o) ==
  LET filled == o.data \o [i \in 1..(o.size - Len(o.data)) |-> 0]
  IN  Asserted(Bom(o.encoding) \o Encode(filled, o.encoding),
               Len(Bom(o.encoding)) + o.size * UnitSize(o.encoding))

SerializeDynamicString(o) ==
  LET content == Bom(o.encoding) \o Encode(Append(o.data, 0), o.encoding)
      field   == PackUnsigned(Len(content), o.fieldLength)
  IN  IF field.ok THEN Asserted(field.bytes \o content, BasicLength(o)) ELSE Raised

SerializeBasic(o) == CASE o.type = "FixedString"   -> SerializeFixedString(o)
                       [] o.type = "DynamicString" -> SerializeDynamicString(o)
                       [] OTHER                    -> SerializeScalar(o)

SerializeContainer(o, LengthOf, SerializedOf) ==
  LET parts == Concat([i \in DOMAIN o.parts |-> SerializedOf[o.parts[i]]])
      field == PackUnsigned(Len(o.parts) * LengthOf[o.of], o.fieldLength)
  IN  IF o.type # "DynamicArray" \/ o.fieldLength = 0 THEN parts ELSE Concat(<<field, parts>>)

Serialize[n \in 0..Depth] ==
  [o \in Objects[n] |->
     IF IsContainer(o) THEN SerializeContainer(o, Length[n - 1], Serialize[n - 1])
     ELSE SerializeBasic(o)]

-----------------------------------------------------------------------------
(* deserialize: the object afterwards, and whether it went to the end      *)

Done(o) == [ok |-> TRUE, object |-> o]
Broken(o) == [ok |-> FALSE, object |-> o]

\* Mutant: a signed number is read as an unsigned one.
ReadUnsigned(o, bytes) ==
  IF Len(bytes) # o.width THEN Broken(o) ELSE Done([o EXCEPT !.value = UnpackUnsigned(bytes)])

\* A Bool keeps its value when the byte is neither 0 nor 1.
DeserializeScalar(o, bytes) ==
  IF Len(bytes) # o.width THEN Broken(o)
  ELSE LET n == IF o.type = "Sint" THEN UnpackSigned(bytes) ELSE UnpackUnsigned(bytes)
       IN  Done(IF o.type = "Bool" /\ n > 1 THEN o ELSE [o EXCEPT !.value = n])

\* The encodings whose byte order mark the bytes begin with; at most one.
Marked(bytes) == {e \in Encoding : Slice(bytes, 0, Len(Bom(e))) = Bom(e)}

\* The setter of encoding has run when a text cannot be decoded or is too long.
DeserializeFixedString(o, bytes) ==
  IF Marked(bytes) = {} THEN Broken(o)
  ELSE LET encoding == CHOOSE e \in Marked(bytes) : TRUE
           start   == Len(Bom(encoding))
           decoded == Decode(Slice(bytes, start, start + o.size * UnitSize(encoding)), encoding)
           text    == StripZeros(decoded.text)
           known   == [o EXCEPT !.encoding = encoding]
       IN  IF Undecodable(decoded) \/ Len(text) > o.size - 1 THEN Broken(known)
           ELSE Done([known EXCEPT !.data = text])

SetEncoding(o, encoding) ==
  [o EXCEPT !.encoding = encoding, !.length = DynamicStringLength(o.data, encoding)]

\* The length field is compared with all the bytes, its own included.
DeserializeDynamicString(o, bytes) ==
  LET length  == UnpackUnsigned(Slice(bytes, 0, o.fieldLength))
      content == From(bytes, o.fieldLength)
  IN  IF Len(bytes) < o.fieldLength \/ Len(bytes) < length \/ Marked(content) = {} THEN Broken(o)
      ELSE LET encoding == CHOOSE e \in Marked(content) : TRUE
               decoded == Decode(Slice(content, Len(Bom(encoding)), length), encoding)
           IN  IF Undecodable(decoded) THEN Broken(SetEncoding(o, encoding))
               ELSE Done([o EXCEPT !.encoding = encoding, !.length = length,
                                   !.data = StripZeros(decoded.text)])

DeserializeBasic(o, bytes) == CASE o.type = "FixedString"   -> DeserializeFixedString(o, bytes)
                                [] o.type = "DynamicString" -> DeserializeDynamicString(o, bytes)
                                [] OTHER                    -> DeserializeScalar(o, bytes)

\* The room of a part that is given all the bytes that are left.
Rest == -1

\* Mutant: the place of the next part follows from what a dynamic one held.
TakenBefore(before, after, room, LengthOf) == IF room = Rest THEN LengthOf[before] ELSE room

\* How far a part takes the position: a dynamic one by its length afterwards.
Taken(before, after, room, LengthOf) == IF room = Rest THEN LengthOf[after] ELSE room

\* at: the place of the next part; whole: how many parts went well.  Those after one
\* that raises stay as they are.
DeserializePart(state, part, room, bytes, LengthOf, ReadOf) ==
  LET share == IF room = Rest THEN From(bytes, state.at)
               ELSE Slice(bytes, state.at, state.at + room)
      read  == ReadOf[part][share]
  IN  IF ~state.ok THEN [state EXCEPT !.parts = Append(@, part)]
      ELSE [ok    |-> read.ok,
            at    |-> state.at + Taken(part, read.object, room, LengthOf),
            parts |-> Append(state.parts, read.object),
            whole |-> IF read.ok THEN state.whole + 1 ELSE state.whole]

DeserializeParts(parts, room, bytes, LengthOf, ReadOf) ==
  LET state[i \in 0..Len(parts)] ==
        IF i = 0 THEN [ok |-> TRUE, at |-> 0, parts |-> <<>>, whole |-> 0]
        ELSE DeserializePart(state[i - 1], parts[i], room[i], bytes, LengthOf, ReadOf)
  IN  state[Len(parts)]

\* A member of dynamic size is given all the bytes that are left, any other one
\* those that its present length says, a nested struct too.
DeserializeStruct(o, bytes, LengthOf, ReadOf) ==
  LET room == [i \in DOMAIN o.parts |->
                 IF HasDynamicSize(o.parts[i]) THEN Rest ELSE LengthOf[o.parts[i]]]
      end  == DeserializeParts(o.parts, room, bytes, LengthOf, ReadOf)
  IN  [ok |-> end.ok, object |-> [o EXCEPT !.parts = end.parts]]

\* All elements are given as many bytes as the first.
DeserializeFixedArray(o, bytes, LengthOf, ReadOf) ==
  LET room == [i \in DOMAIN o.parts |-> LengthOf[o.parts[1]]]
      end  == DeserializeParts(o.parts, room, bytes, LengthOf, ReadOf)
  IN  [ok |-> end.ok, object |-> [o EXCEPT !.parts = end.parts]]

\* The array is emptied first; without a length field nothing is read.  A division
\* by the length of an element that has none raises.
DeserializeDynamicArray(o, bytes, LengthOf, ReadOf) ==
  LET empty == [o EXCEPT !.parts = <<>>]
      field == Slice(bytes, 0, o.fieldLength)
      count == UnpackUnsigned(field) \div LengthOf[o.of]
      end   == DeserializeParts([i \in 1..count |-> o.of], [i \in 1..count |-> LengthOf[o.of]],
                                From(bytes, o.fieldLength), LengthOf, ReadOf)
  IN  IF o.fieldLength = 0 THEN Done(empty)
      ELSE IF Len(field) < o.fieldLength \/ LengthOf[o.of] = 0 THEN Broken(empty)
      ELSE [ok |-> end.ok, object |-> [o EXCEPT !.parts = SubSeq(end.parts, 1, end.whole)]]

DeserializeContainer(o, bytes, LengthOf, ReadOf) ==
  CASE o.type = "Struct"       -> DeserializeStruct(o, bytes, LengthOf, ReadOf)
    [] o.type = "FixedArray"   -> DeserializeFixedArray(o, bytes, LengthOf, ReadOf)
    [] o.type = "DynamicArray" -> DeserializeDynamicArray(o, bytes, LengthOf, ReadOf)

Deserialize[n \in 0..Depth] ==
  [o \in Objects[n] |-> [bytes \in Seq(Byte) |->
     IF IsContainer(o) THEN DeserializeContainer(o, bytes, Length[n - 1], Deserialize[n - 1])
     ELSE DeserializeBasic(o, bytes)]]

-----------------------------------------------------------------------------
(* __eq__: fixed strings may differ in their encoding                      *)

EqualBasic(o, p) ==
  IF o.type = "FixedString" THEN p.type = "FixedString" /\ o.size = p.size /\ o.data = p.data
  ELSE o = p

EqualContainers(o, p, LengthOf, EqualOf) ==
  /\ o.type = p.type
  /\ Len(o.parts) = Len(p.parts)
  /\ o.type # "Struct" => ContainerLength(o, LengthOf) = ContainerLength(p, LengthOf)
  /\ o.type = "DynamicArray" => o.fieldLength = p.fieldLength
  /\ \A i \in DOMAIN o.parts : EqualOf[o.parts[i]][p.parts[i]]

Equal[n \in 0..Depth] ==
  [o \in Objects[n] |-> [p \in Objects[n] |->
     IF IsContainer(o) THEN EqualContainers(o, p, Length[n - 1], Equal[n - 1])
     ELSE EqualBasic(o, p)]]

-----------------------------------------------------------------------------
(* What an application may do to an object, one assignment at a time       *)

\* The setter of a fixed string refuses a text without room for its end.
Fitting(o) == {t \in Texts : Len(t) <= o.size - 1}

SetText(o, text) ==
  [o EXCEPT !.data = text, !.length = DynamicStringLength(text, o.encoding)]

EditsOfBasic(o) ==
  CASE o.type = "FixedString" ->
         {[o EXCEPT !.data = t] : t \in Fitting(o)} \cup
         {[o EXCEPT !.encoding = e] : e \in Encoding}
    [] o.type = "DynamicString" ->
         {SetText(o, t) : t \in Texts} \cup {SetEncoding(o, e) : e \in Encoding}
    [] o.type = "Bool" -> {[o EXCEPT !.value = v] : v \in {0, 1}}
    [] OTHER -> {[o EXCEPT !.value = v] : v \in Values}

\* A dynamic array is emptied, or an element with one assignment to it is added.
EditsOfContainer(o, EditsOf) ==
  IF o.type = "DynamicArray"
    THEN {[o EXCEPT !.parts = <<>>]} \cup
         {[o EXCEPT !.parts = Append(@, e)] :
            e \in IF Len(o.parts) < MaxElements THEN EditsOf[o.of] ELSE {}}
    ELSE UNION {{[o EXCEPT !.parts[i] = e] : e \in EditsOf[o.parts[i]]} : i \in DOMAIN o.parts}

Edits[n \in 0..Depth] ==
  [o \in Objects[n] |->
     IF IsContainer(o) THEN EditsOfContainer(o, Edits[n - 1]) ELSE EditsOfBasic(o)]

-----------------------------------------------------------------------------
(* What the receiver has to know beforehand: the lengths of the parts that   *)
(* are not of dynamic size; those of an array are all given as many bytes as *)
(* its first.  A fixed string has the length of its encoding, a nested       *)
(* struct with a member of dynamic size that of its last payload.  An array  *)
(* without a length field is read as empty, and one of elements that take no *)
(* bytes not at all.                                                         *)

ContainersAgree(o, p, LengthOf, AgreeOf) ==
  /\ o.type = "DynamicArray" =>
       IF o.fieldLength = 0 THEN o.parts = <<>> ELSE LengthOf[o.of] # 0
  /\ \A i \in DOMAIN o.parts :
       LET part == o.parts[i]
           as   == IF o.type = "DynamicArray" THEN p.of ELSE p.parts[i]
           room == LengthOf[IF o.type = "FixedArray" THEN p.parts[1] ELSE as]
       IN  /\ AgreeOf[part][as]
           /\ LengthOf[part] = room \/ (o.type = "Struct" /\ HasDynamicSize(part))

Agree[n \in 0..Depth] ==
  [o \in Objects[n] |-> [p \in Objects[n] |->
     IsContainer(o) => ContainersAgree(o, p, Length[n - 1], Agree[n - 1])]]

-----------------------------------------------------------------------------
NoTransfer == [kind |-> "none"]

Init ==
  /\ sent \in Structs
  /\ held = sent
  /\ outcome = NoTransfer

Edit ==
  /\ sent' \in Edits[Depth][sent]
  /\ outcome' = NoTransfer
  /\ UNCHANGED held

\* A payload that does not serialize is not sent.
Transfer ==
  /\ LET written == Serialize[Depth][sent]
         read    == Deserialize[Depth][held][written.bytes]
     IN  IF ~written.ok THEN outcome' = [kind |-> "refused"] /\ UNCHANGED held
         ELSE /\ held' = read.object
              /\ outcome' = [kind |-> IF read.ok THEN "delivered" ELSE "broken",
                             size |-> Len(written.bytes), agreed |-> Agree[Depth][sent][held]]
  /\ UNCHANGED sent

Next == Edit \/ Transfer

Spec == Init /\ [][Next]_vars

-----------------------------------------------------------------------------
(* Properties                                                              *)

\* An object of the same class as t; wire: its numbers came over the wire.
ShapedBasic(t, o, wire) ==
  /\ o.type = t.type
  /\ CASE o.type = "FixedString"   -> /\ o.size = t.size
                                      /\ Len(o.data) < o.size
                                      /\ ~EndsInZero(o.data)
       [] o.type = "DynamicString" -> /\ o.fieldLength = t.fieldLength
                                      /\ ~EndsInZero(o.data)
       [] OTHER                    -> /\ o.width = t.width
                                      /\ o.type = "Bool" => o.width = 1 /\ o.value \in {0, 1}
                                      /\ wire => SerializeScalar(o).ok

ShapedContainer(t, o, wire, ShapedOf) ==
  /\ o.type = t.type
  /\ IF o.type = "DynamicArray"
       THEN /\ o.fieldLength = t.fieldLength
            /\ o.of = t.of
            /\ \A w \in BOOLEAN : ShapedOf[o.of][o.of][w]
            /\ \A i \in DOMAIN o.parts : ShapedOf[o.of][o.parts[i]][wire]
       ELSE /\ Len(o.parts) = Len(t.parts)
            /\ \A i \in DOMAIN o.parts : ShapedOf[t.parts[i]][o.parts[i]][wire]

Shaped[n \in 0..Depth] ==
  [t \in Objects[n] |-> [o \in Objects[n] |-> [wire \in BOOLEAN |->
     IF IsContainer(o) THEN ShapedContainer(t, o, wire, Shaped[n - 1])
     ELSE ShapedBasic(t, o, wire)]]]

\* The structures are as constructors make them.
ASSUME StructAssumption ==
  \A t \in Structs : t \in Objects[Depth] /\ \A w \in BOOLEAN : Shaped[Depth][t][t][w]

\* Objects keep the structure they were declared with, and those received have numbers
\* of their types and strings without a terminator, however many payloads they have
\* received.
TypeOK ==
  /\ sent \in Objects[Depth] /\ held \in Objects[Depth]
  /\ \E t \in Structs : Shaped[Depth][t][sent][FALSE] /\ Shaped[Depth][t][held][TRUE]
  /\ outcome.kind \in {"none", "refused", "delivered", "broken"}

Received == outcome.kind \in {"delivered", "broken"}

\* Whatever payload the receiving object held before, it equals what was sent once
\* it has deserialized it, and what serializes can be deserialized; if the parts that
\* are not of dynamic size have the lengths that the receiving object has at that
\* moment: that much, and no more, is needed.
AgreedRoundTrip ==
  Received /\ outcome.agreed => outcome.kind = "delivered" /\ Equal[Depth][sent][held]

\* len() of a payload is the number of bytes it is sent in, at both ends: the
\* places of the members that follow depend on it.
LengthIsTrue ==
  Received /\ outcome.agreed =>
    outcome.size = Length[Depth][sent] /\ outcome.size = Length[Depth][held]
=============================================================================
