------------------------------- MODULE MCPayload -------------------------------
(* Small instances of Payload for TLC. *)
EXTENDS Payload

\* Numbers of which each type of one byte refuses some.
SmallValues == {-1, 0, 200, 300}

\* The empty text, one of one byte, one with a character of two bytes in utf-8.
SmallTexts == {<<>>, <<97>>, <<97, 233>>}

\* Those of the texts, zero, and two that are never sent.
SmallChars == {0, 97, 233, 8364, 128512}

Several == {
  Struct(<<Scalar("Uint", 2), Scalar("Sint", 1), Scalar("Bool", 1), Scalar("Sint", 8)>>),
  \* two members of dynamic size, and one that comes after them
  Struct(<<DynamicArray(Scalar("Sint", 2), 1), DynamicString(1), Scalar("Uint", 1)>>),
  \* structs in an array of fixed size
  FixedArray(Struct(<<FixedString(3)>>), 2),
  \* nested structs and arrays of fixed sizes
  Struct(<<FixedArray(Scalar("Uint", 2), 2),
           Struct(<<FixedString(3), Scalar("Float", 4)>>)>>),
  \* two elements of 128 bytes are more than a length field of one byte can tell
  Struct(<<DynamicArray(Struct([i \in 1..4 |-> FixedString(29)]), 1), Scalar("Uint", 1)>>),
  \* a struct with a member of dynamic size within a struct
  Struct(<<Struct(<<DynamicArray(Scalar("Uint", 1), 4)>>), Scalar("Uint", 1)>>)}
=============================================================================
