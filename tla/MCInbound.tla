----------------------------- MODULE MCInbound -----------------------------
(* Inbound for TLC: a message in one piece, one in two buffer-fulls, one in *)
(* two frames, and one that is not UTF-8.                                   *)
EXTENDS Inbound, SequencesExt

\* A message of a shape: the number of pieces of each of its frames.
FrameHeaders(shape, isBinary, f) ==
    [b \in 1..shape[f] |->
        [opcode |-> IF f > 1 THEN "CONTINUATION" ELSE IF isBinary THEN "BINARY" ELSE "TEXT",
         fin |-> f = Len(shape), offset |-> b - 1, payload_len |-> shape[f]]]

Message(shape, isBinary, valid) ==
    [headers |-> FlattenSeq([f \in 1..Len(shape) |-> FrameHeaders(shape, isBinary, f)]),
     binary |-> isBinary, utf8 |-> valid]

MCMessages == {Message(<<1>>, TRUE, FALSE), Message(<<2>>, FALSE, TRUE),
               Message(<<1, 1>>, TRUE, FALSE), Message(<<1>>, FALSE, FALSE)}

============================================================================
