--------------------------- MODULE MCNoiseSocket ---------------------------
(* Nodes of the kinds that the library sends: a ping, a receipt for a       *)
(* message of a hosted device in a group, a message for a linked device's   *)
(* @lid with its encrypted content, a text, a list of children.             *)
EXTENDS NoiseSocket

Iq == Token(25)
Message == Token(19)
Id == Token(8)
To == Token(17)
Participant == Token(5)

Phone(s, device) == Jid(Nibbles(s), device, SWhatsappNet)

Ping == Node(Iq, <<<<Id, Nibbles(<<1, 2, 10, 3>>)>>, <<To, SWhatsappNet>>>>, NoContent)

Receipt ==
    Node(Token(7), <<<<Id, Hex(<<3, 11, 0>>)>>, <<To, Phone(<<5, 5, 1>>, 0)>>,
                     <<Participant, Jid(Nibbles(<<7>>), 99, HostedLid)>>>>, NoContent)

ToLid ==
    Node(Message, <<<<To, Jid(Nibbles(<<9>>), 2, Lid)>>, <<Id, NoText>>>>,
         [list |-> <<Node(Token(29), <<>>, [bytes |-> <<0, 255>>]),
                     Node(DoubleToken(1, 7), <<>>, [text |-> Raw(<<104, 105>>)])>>])

Group ==
    Node(Raw(<<122>>), <<<<To, Jid(Nibbles(<<1, 10, 2>>), NoDevice, Token(28))>>>>,
         [text |-> Jid(NoText, NoDevice, Token(28))])

\* A binary of 256 bytes, the first length that takes more than one byte, and no
\* children at all.
Large == Node(Iq, <<>>, [bytes |-> [j \in 1..256 |-> j % 256]])
Childless == Node(Iq, <<>>, [list |-> <<>>])

MCSends == {<<ToLid, Ping>>, <<Receipt>>, <<Group>>, <<Large, Childless>>}
=============================================================================
