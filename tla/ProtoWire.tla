----------------------------- MODULE ProtoWire -----------------------------
(* The protobuf codec of the handshake (proto/wire.ts, noise/wire.ts).  A   *)
(* field is its number, its length and its value, whose units may be        *)
(* anything: a key and a ciphertext are one unit each.                      *)
EXTENDS Integers, Sequences

\* Writer.bytes and Writer.message: a LEN field.
LenField(field, value) == <<field, Len(value)>> \o value

\* Reader.fields: the value of a field, the first one if it is repeated, or none.
Fields(b) ==
    LET at[i \in 1..Len(b) + 1] ==
            IF i > Len(b) THEN {} ELSE {i} \union at[i + 2 + b[i + 1]]
    IN  at[1]

First(b, field) ==
    LET at == {i \in Fields(b) : b[i] = field}
    IN  IF at = {}
        THEN <<>>
        ELSE LET i == CHOOSE i \in at : \A j \in at : i <= j
             IN  SubSeq(b, i + 2, i + 1 + b[i + 1])

\* encHello and decHello.
Hello(e, s, p) ==
    LenField(1, e) \o (IF s = <<>> THEN <<>> ELSE LenField(2, s) \o LenField(3, p))
Finish(s, p) == LenField(1, s) \o LenField(2, p)

\* encodeHandshake, one message at a time.
ClientHelloMsg(e) == LenField(2, Hello(e, <<>>, <<>>))
ServerHelloMsg(e, s, p) == LenField(3, Hello(e, s, p))
ClientFinishMsg(s, p) == LenField(4, Finish(s, p))
=============================================================================
