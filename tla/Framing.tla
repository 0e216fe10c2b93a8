------------------------------- MODULE Framing -------------------------------
(***************************************************************************)
(* SOME/IP messages in a stream of bytes, and SomeipDataProcessor, which   *)
(* puts them together again from chunks of any size.                       *)
(*                                                                         *)
(* A stream is a sequence of units of four bytes.  The header that says how *)
(* long a message is takes two of them, the rest of the header two more.   *)
(***************************************************************************)
EXTENDS Integers, Sequences

HeaderUnits == 2

SmallestMessage == 4

\* The units of a message.  Each one knows where it comes from and what the
\* length field of that message says.
Units(message, size) == [i \in 1..size |-> [of |-> message, total |-> size]]

NoMessage == [none |-> TRUE]

\* SomeipDataProcessor._reset
Fresh == [state |-> "HEADER", buffer |-> <<>>, total |-> 0, expected |-> HeaderUnits]

Partial(processor) == [processor |-> processor, message |-> NoMessage]

\* Mutant: bytes over the current message boundary are not kept.
ProcessDataAndForget(p, data) ==
  LET buffer == p.buffer \o data
      n      == Len(buffer)
      total  == IF p.state = "HEADER" /\ n >= HeaderUnits THEN buffer[2].total ELSE p.total
  IN  CASE p.state = "HEADER" /\ n < p.expected ->
             Partial([p EXCEPT !.buffer = buffer])
        [] (p.state = "HEADER" => n >= p.expected) /\ n < total ->
             Partial([state |-> "PAYLOAD", buffer |-> buffer, total |-> total,
                      expected |-> total - n])
        [] OTHER -> [processor |-> Fresh, message |-> buffer[1].of]

\* process_data: one message at most, however many the buffer holds.
ProcessData(p, data) ==
  LET buffer == p.buffer \o data
      n      == Len(buffer)
      total  == IF p.state = "HEADER" /\ n >= HeaderUnits THEN buffer[2].total ELSE p.total
  IN  CASE p.state = "HEADER" /\ n < p.expected ->
             Partial([p EXCEPT !.buffer = buffer])
        [] (p.state = "HEADER" => n >= p.expected) /\ n < total ->
             Partial([state |-> "PAYLOAD", buffer |-> buffer, total |-> total,
                      expected |-> total - n])
        [] OTHER ->
             [processor |-> [Fresh EXCEPT !.buffer = SubSeq(buffer, total + 1, n)],
              message   |-> buffer[1].of]
=============================================================================
