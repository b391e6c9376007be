----------------------------- MODULE WABinary -----------------------------
(* The binary form of a node (frame/encode.ts, frame/decode.ts).  A byte is *)
(* its number.  A string is the class that writeString puts it in: a token  *)
(* of one of the dictionaries, digits to pack, a jid, or its bytes.  The    *)
(* children of a node have no children here, which keeps the definitions    *)
(* free of recursion.  Bounds: a list has less than 256 items and a binary  *)
(* less than 2^20 bytes, so that LIST_16 and BINARY_32 do not occur.        *)
EXTENDS Integers, Sequences, FiniteSets, SequencesExt

\* TAGS
LIST_EMPTY == 0
DICTIONARY_0 == 236
AD_JID == 247
LIST_8 == 248
JID_PAIR == 250
HEX_8 == 251
BINARY_8 == 252
BINARY_20 == 253
NIBBLE_8 == 255
PACKED_MAX == 127

\* The two tables: a string of one byte, or of a dictionary's byte and one more.
Token(i) == [token |-> i]
DoubleToken(d, i) == [dict |-> d, index |-> i]

SWhatsappNet == Token(3)
Lid == Token(118)

\* The other classes.  Hex digits that are all decimal are packed as nibbles,
\* as are - and . (10 and 11); the empty string has no bytes.
Nibbles(s) == [nibbles |-> s]
Hex(s) == [hex |-> s]
Raw(b) == [raw |-> b]
NoText == Raw(<<>>)
Hosted == Raw(<<104, 111, 115, 116, 101, 100>>)
HostedLid == Raw(<<104, 111, 115, 116, 101, 100, 46, 108, 105, 100>>)

\* user:device@server, NoDevice when the string has none.  (The _agent that a user
\* may end with is not modelled: nothing in src/ builds such a string.)
NoDevice == -1
Jid(user, device, server) == [user |-> user, device |-> device, server |-> server]

Is(t, f) == f \in DOMAIN t

\* jidDecode: the domain type.
Domain(j) ==
    CASE j.server = Lid -> 1
      [] j.server = Hosted -> 128
      [] j.server = HostedLid -> 129
      [] OTHER -> 0

\* pushInt20, readInt20 and the like: `n` bytes, the highest first.
Digits(v, n) == [i \in 1..n |-> (v \div 256^(n - i)) % 256]
Number(b) == FoldLeft(LAMBDA v, d : 256 * v + d, 0, b)

WriteByteLength(n) ==
    IF n >= 256 THEN <<BINARY_20>> \o Digits(n, 3) ELSE <<BINARY_8, n>>

WriteListStart(n) == IF n = 0 THEN <<LIST_EMPTY>> ELSE <<LIST_8, n>>

WriteStringRaw(b) == WriteByteLength(Len(b)) \o b

\* Two digits to the byte; the high bit of the length marks an odd number of them.
WritePackedBytes(tag, s) ==
    LET Digit(i) == IF i \in DOMAIN s THEN s[i] ELSE 15
        half     == (Len(s) + 1) \div 2
        odd      == 128 * (Len(s) % 2)
    IN  <<tag, half + odd>> \o [i \in 1..half |-> 16 * Digit(2 * i - 1) + Digit(2 * i)]

\* writeString of what is not a jid, then of a jid.
WritePlain(t) ==
    CASE Is(t, "token") -> <<t.token>>
      [] Is(t, "dict") -> <<DICTIONARY_0 + t.dict, t.index>>
      [] Is(t, "nibbles") -> WritePackedBytes(NIBBLE_8, t.nibbles)
      [] Is(t, "hex") -> WritePackedBytes(HEX_8, t.hex)
      [] OTHER -> WriteStringRaw(t.raw)

WriteJid(j) ==
    IF j.device # NoDevice
    THEN <<AD_JID, Domain(j), j.device % 256>> \o WritePlain(j.user)
    ELSE <<JID_PAIR>>
         \o (IF j.user = NoText THEN <<LIST_EMPTY>> ELSE WritePlain(j.user))
         \o WritePlain(j.server)

WriteString(t) == IF Is(t, "user") THEN WriteJid(t) ELSE WritePlain(t)

Concat(ss) == FlattenSeq(ss)

\* The head of a node: its tag and its attributes, each a pair of strings.
WriteHead(node, items) ==
    WriteListStart(2 * Len(node.attrs) + 1 + items)
    \o WriteString(node.tag)
    \o Concat([i \in DOMAIN node.attrs |->
                  WriteString(node.attrs[i][1]) \o WriteString(node.attrs[i][2])])

\* The content of a node: none, a text, bytes or a list of children.
NoContent == [none |-> TRUE]
WriteContent(c) == IF Is(c, "text") THEN WriteString(c.text) ELSE WriteStringRaw(c.bytes)

WriteLeaf(node) ==
    IF node.content = NoContent
    THEN WriteHead(node, 0)
    ELSE WriteHead(node, 1) \o WriteContent(node.content)

WriteNode(node) ==
    IF ~Is(node.content, "list")
    THEN WriteLeaf(node)
    ELSE WriteHead(node, 1)
         \o WriteListStart(Len(node.content.list))
         \o Concat([i \in DOMAIN node.content.list |-> WriteLeaf(node.content.list[i])])

\* encodeBinaryNode: the first byte says whether the rest is compressed.
Encode(node) == <<0>> \o WriteNode(node)

\* What the server may do instead; `inflate` is handed to the client.
Deflated(node) == <<2, [zipped |-> WriteNode(node)]>>

---------------------------------------------------------------------------
(* Reading: what stands at position `i` of `b`, and the position after it.  *)

ReadBytes(b, i, n) == [val |-> SubSeq(b, i, i + n - 1), next |-> i + n]

\* The length of a binary, after its tag.
ReadLength(b, i) ==
    IF b[i] = BINARY_20
    THEN [val |-> ((b[i + 1] % 16) * 256 + b[i + 2]) * 256 + b[i + 3], next |-> i + 4]
    ELSE [val |-> b[i + 1], next |-> i + 2]

IsBinary(tag) == tag \in {BINARY_8, BINARY_20}

ReadBinary(b, i) == LET n == ReadLength(b, i) IN ReadBytes(b, n.next, n.val)

ReadPacked8(b, i) ==
    LET start == b[i + 1]
        n     == start % 128
        all   == [k \in 1..2 * n |->
                     LET byte == b[i + 1 + (k + 1) \div 2]
                     IN  IF k % 2 = 1 THEN byte \div 16 ELSE byte % 16]
        s     == IF start \div 128 = 1 THEN SubSeq(all, 1, 2 * n - 1) ELSE all
    IN  [val |-> IF b[i] = NIBBLE_8 THEN Nibbles(s) ELSE Hex(s), next |-> i + 2 + n]

ReadPlain(b, i) ==
    CASE b[i] \in 1..(DICTIONARY_0 - 1) -> [val |-> Token(b[i]), next |-> i + 1]
      [] b[i] \in DICTIONARY_0..(DICTIONARY_0 + 3) ->
            [val |-> DoubleToken(b[i] - DICTIONARY_0, b[i + 1]), next |-> i + 2]
      [] b[i] = LIST_EMPTY -> [val |-> NoText, next |-> i + 1]
      [] b[i] \in {NIBBLE_8, HEX_8} -> ReadPacked8(b, i)
      [] OTHER -> [ReadBinary(b, i) EXCEPT !.val = Raw(@)]

\* What was read so far, from position `i` on, and with one more value.
From(i) == [val |-> <<>>, next |-> i]
With(before, r) == [val |-> Append(before.val, r.val), next |-> r.next]

WithPlain(b, before) == With(before, ReadPlain(b, before.next))
JidPair(r) == [r EXCEPT !.val = Jid(r.val[1], NoDevice, r.val[2])]
ReadJidPair(b, i) == JidPair(WithPlain(b, WithPlain(b, From(i + 1))))

\* Mutant: the domain is not read back.
AlwaysPhone(domain) == SWhatsappNet

ServerOf(domain) ==
    CASE domain = 1 -> Lid
      [] domain = 128 -> Hosted
      [] domain = 129 -> HostedLid
      [] OTHER -> SWhatsappNet

\* jidEncode writes no device 0.
AdJid(domain, device, r) ==
    [r EXCEPT !.val = Jid(r.val, IF device = 0 THEN NoDevice ELSE device, ServerOf(domain))]
ReadAdJid(b, i) == AdJid(b[i + 1], b[i + 2], ReadPlain(b, i + 3))

ReadString(b, i) ==
    CASE b[i] = JID_PAIR -> ReadJidPair(b, i)
      [] b[i] = AD_JID -> ReadAdJid(b, i)
      [] OTHER -> ReadPlain(b, i)

ReadListSize(b, i) ==
    IF b[i] = LIST_EMPTY
    THEN [val |-> 0, next |-> i + 1]
    ELSE [val |-> b[i + 1], next |-> i + 2]

IsListTag(tag) == tag \in {LIST_EMPTY, LIST_8}

WithString(b, before) == With(before, ReadString(b, before.next))

\* With one more attribute, its name and its value, and with `n` of them.
WithAttr(b, before) ==
    With(before, WithString(b, WithString(b, From(before.next))))
WithAttrs(b, before, n) ==
    LET got[k \in 0..n] == IF k = 0 THEN before ELSE WithAttr(b, got[k - 1])
    IN  got[n]

\* decodeDecompressed up to the content: the tag, then the attributes; `some` tells
\* whether there is a content.
HeadOf(size, r) ==
    [tag |-> Head(r.val), attrs |-> Tail(r.val), some |-> size % 2 = 0, next |-> r.next]
ReadHead(b, i) ==
    LET size == ReadListSize(b, i)
    IN  HeadOf(size.val,
               WithAttrs(b, WithString(b, From(size.next)), (size.val - 1) \div 2))

Node(tag, attrs, content) == [tag |-> tag, attrs |-> attrs, content |-> content]

\* The content of a child: none, bytes or a text.
ReadContent(b, h) ==
    CASE ~h.some -> [val |-> NoContent, next |-> h.next]
      [] h.some /\ IsBinary(b[h.next]) ->
            [ReadBinary(b, h.next) EXCEPT !.val = [bytes |-> @]]
      [] OTHER ->
            [ReadString(b, h.next) EXCEPT !.val = [text |-> @]]

\* The node with this head and this content.
Whole(h, c) == [val |-> Node(h.tag, h.attrs, c.val), next |-> c.next]

LeafOf(b, h) == Whole(h, ReadContent(b, h))
ReadLeaf(b, i) == LeafOf(b, ReadHead(b, i))

ReadList(b, size) ==
    LET got[k \in 0..size.val] ==
            IF k = 0
            THEN From(size.next)
            ELSE With(got[k - 1], ReadLeaf(b, got[k - 1].next))
    IN  got[size.val]

\* A list of children.
Children(r) == [r EXCEPT !.val = [list |-> @]]

NodeOf(b, h) ==
    IF h.some /\ IsListTag(b[h.next])
    THEN Whole(h, Children(ReadList(b, ReadListSize(b, h.next))))
    ELSE LeafOf(b, h)
ReadNode(b, i) == NodeOf(b, ReadHead(b, i))

\* "invalid node": no list, or an empty tag.
Undecodable == [undecodable |-> TRUE]

\* decompressIfNeeded and decodeBinaryNode.
Inflated(b) == IF b[1] = 2 THEN b[2].zipped ELSE Tail(b)
ReadBody(b) == IF b[1] = LIST_EMPTY THEN Undecodable ELSE ReadNode(b, 1).val
Decode(b) == ReadBody(Inflated(b))

---------------------------------------------------------------------------
(* What a node is for the one who reads it: how far the two functions are   *)
(* inverse.                                                                 *)

\* A device of 0 is no device, and one takes the server from the domain.
SameText(t) ==
    IF Is(t, "user") /\ t.device = 0 THEN [t EXCEPT !.device = NoDevice] ELSE t

\* A text that is neither a token nor packed nor a jid is read as bytes.
SameContent(c) ==
    IF Is(c, "text")
    THEN IF Is(c.text, "raw") THEN [bytes |-> c.text.raw] ELSE [text |-> SameText(c.text)]
    ELSE c

SameAttrs(attrs) == [i \in DOMAIN attrs |-> <<SameText(attrs[i][1]), SameText(attrs[i][2])>>]

SameLeaf(n) == Node(SameText(n.tag), SameAttrs(n.attrs), SameContent(n.content))

\* The node that is read where `n` was written.
SameNode(n) ==
    IF Is(n.content, "list")
    THEN [SameLeaf(n) EXCEPT !.content =
             [list |-> [i \in DOMAIN n.content.list |-> SameLeaf(n.content.list[i])]]]
    ELSE SameLeaf(n)
===========================================================================
