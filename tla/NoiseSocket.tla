---------------------------- MODULE NoiseSocket ----------------------------
(* One connection between NoiseSocket (noise/socket.ts, handshake.ts,       *)
(* frame.ts) and the server, for which transport/mock-wa-server.ts stands:  *)
(* Noise XX, then nodes in both directions.  The transport is a stream: it  *)
(* delivers what was sent in pieces of any size and may close at any time.  *)
(* Cryptography is symbolic: a hash is the sequence of what was mixed into  *)
(* it, a key the sequence of secrets it was derived from, a ciphertext the  *)
(* record of all that went into it.                                         *)
EXTENDS WABinary, ProtoWire

CONSTANTS
    Sends,            \* bound: the sequences of nodes that a side may send
    MaxFaults         \* bound: frames and listeners that go wrong

ASSUME NoiseAssumption == MaxFaults \in Nat

VARIABLES
    cl,               \* the client's NoiseSocket
    sv,               \* the server
    up, down,         \* bytes on their way to the server, to the client
    left,             \* history: the caller closed the socket
    pushed, sent,     \* history: the nodes that the server, the client sent
    faults

vars == <<cl, sv, up, down, left, pushed, sent, faults>>

---------------------------------------------------------------------------
(* Frames.                                                                  *)

Intro == <<87, 65, 6, 3>>
EncodeFrame(payload) == Digits(Len(payload), 3) \o payload

FrameSize(b) == Number(SubSeq(b, 1, 3))
Ahead(b) == Len(b) >= 3 /\ Len(b) >= 3 + FrameSize(b)
AfterFrame(b) == SubSeq(b, 4 + FrameSize(b), Len(b))

\* FrameDecoder.push: the whole frames of a buffer, and what is left of it.
Push(b) ==
    LET split[i \in 1..Len(b) + 1] ==
            LET rest == SubSeq(b, i, Len(b))
            IN  IF ~Ahead(rest)
                THEN [frames |-> <<>>, rest |-> rest]
                ELSE LET n == FrameSize(rest)
                         t == split[i + 3 + n]
                     IN  [t EXCEPT !.frames = <<SubSeq(rest, 4, 3 + n)>> \o @]
    IN  split[1]

---------------------------------------------------------------------------
(* NoiseHandshake.                                                          *)

\* A key pair is named by its owner's role; its public half is one unit.
Public(k) == [public |-> k]
X25519(own, unit) == {own, unit.public}

\* The constructor, with the intro header as prologue.
Fresh == [hash |-> <<Intro>>, salt |-> <<>>, encKey |-> <<>>, decKey |-> <<>>,
          counter |-> 0, writeCounter |-> 0, readCounter |-> 0]

MixHash(h, d) == [h EXCEPT !.hash = Append(@, d)]

MixKey(h, secret) ==
    LET salt == Append(h.salt, secret)
    IN  [h EXCEPT !.salt = salt, !.encKey = <<0, salt>>, !.decKey = <<0, salt>>, !.counter = 0]

\* A ciphertext, and whether it opens under a key, a nonce and the data bound to it.
Sealed(key, nonce, hash, plain) ==
    [key |-> key, nonce |-> nonce, hash |-> hash, plain |-> plain]
OpensWith(ct, key, nonce, hash) == ct.key = key /\ ct.nonce = nonce /\ ct.hash = hash

\* Mutant: reading and writing have a counter each during the handshake too.
OwnCounter(h, plain) == Sealed(h.encKey, h.writeCounter, h.hash, plain)

\* encrypt and decrypt share one counter.
Encrypt(h, plain) == Sealed(h.encKey, h.counter, h.hash, plain)
Opens(h, ct) == OpensWith(ct, h.decKey, h.counter, h.hash)
Step(h, ct) == MixHash([h EXCEPT !.counter = @ + 1], ct)

\* clientHello.
SaidHello(h) == MixHash(h, Public("ec"))

\* readServerHello, in the two parts that decrypt something.
HelloStatic(h, e) == MixKey(MixHash(h, e), X25519("ec", e))
HelloPayload(h, e, s) == MixKey(Step(HelloStatic(h, e), s), X25519("ec", s.plain))
ReadHello(h, e, s, p) == Step(HelloPayload(h, e, s), p)
CanReadHello(h, e, s, p) ==
    /\ Opens(HelloStatic(h, e), s)
    /\ Opens(HelloPayload(h, e, s), p)

\* clientFinish: the static key, then the payload under the next key.
FinishStatic(h) == Encrypt(h, Public("sc"))
FinishMixed(h, e) == MixKey(Step(h, FinishStatic(h)), X25519("sc", e))
FinishPayload(h, e) == Encrypt(FinishMixed(h, e), "client payload")

\* finish: the keys of the transport; the hash is not used any more.
Split(h, write, read) ==
    [h EXCEPT !.encKey = <<write, h.salt>>, !.decKey = <<read, h.salt>>,
              !.hash = <<>>, !.writeCounter = 0, !.readCounter = 0]

\* transportEncrypt and transportDecrypt.
TransportSeal(h, plain) == Sealed(h.encKey, h.writeCounter, <<>>, plain)
TransportOpens(h, ct) == OpensWith(ct, h.decKey, h.readCounter, <<>>)
Wrote(h) == [h EXCEPT !.writeCounter = @ + 1]
HasRead(h) == [h EXCEPT !.readCounter = @ + 1]

---------------------------------------------------------------------------
(* The client: what a frame does to it.  `out` is what it sends, `sealed`   *)
(* the keys and nonces it has encrypted with, for the history.              *)

Use(ct) == <<ct.key, ct.nonce>>

\* Mutant: a failure closes the socket and leaves connect() waiting.
ClosedQuietly(c) == [c EXCEPT !.state = "closed"]

\* fail(): connect() is rejected if it is still waiting.
Failed(c) ==
    [c EXCEPT !.state = "closed", !.settled = IF @ = "no" THEN "rejected" ELSE @]

\* onHandshakeFrame.
OnHandshakeFrame(c, frame) ==
    LET hello == First(frame, 3)
        e == First(hello, 1)
        s == First(hello, 2)
        p == First(hello, 3)
    IN  IF s = <<>> \/ p = <<>> \/ ~CanReadHello(c.hs, e[1], s[1], p[1])
        THEN Failed(c)
        ELSE LET h   == ReadHello(c.hs, e[1], s[1], p[1])
                 st  == FinishStatic(h)
                 pay == FinishPayload(h, e[1])
             IN  [c EXCEPT !.hs = Split(Step(FinishMixed(h, e[1]), pay), 1, 2),
                           !.state = "open",
                           !.settled = "resolved",
                           !.sealed = @ \o <<Use(st), Use(pay)>>,
                           !.out = EncodeFrame(ClientFinishMsg(<<st>>, <<pay>>))]

GetsNode(c, node) ==
    IF node = Undecodable THEN Failed(c) ELSE [c EXCEPT !.got = Append(@, node)]

\* onTransportFrame: an empty frame opens under no key.
OnTransportFrame(c, frame) ==
    IF frame = <<>> \/ ~TransportOpens(c.hs, frame[1])
    THEN Failed(c)
    ELSE GetsNode([c EXCEPT !.hs = HasRead(@)], Decode(frame[1].plain))

OnFrame(c, frame) ==
    CASE c.state = "handshaking" -> OnHandshakeFrame(c, frame)
      [] c.state = "open" -> OnTransportFrame(c, frame)
      [] OTHER -> c

\* A listener of the event that the frame ends in throws: fail() runs.
FailedIf(throws, c) == IF throws THEN Failed(c) ELSE c

\* onBytes; the listener called for the frame number `bad` throws.
OnFrames(c, p, bad) ==
    LET after[i \in 0..Len(p.frames)] ==
            IF i = 0
            THEN [c EXCEPT !.buf = p.rest, !.out = <<>>]
            ELSE FailedIf(i = bad, OnFrame(after[i - 1], p.frames[i]))
    IN  after[Len(p.frames)]
OnBytes(c, bytes, bad) == OnFrames(c, Push(c.buf \o bytes), bad)

---------------------------------------------------------------------------
(* The server: MockWaServer.onFrame.                                        *)

OnClientHello(s, e) ==
    LET h1  == MixKey(MixHash(MixHash(s.hs, e), Public("es")), X25519("es", e))
        st  == Encrypt(h1, Public("ss"))
        h2  == MixKey(Step(h1, st), X25519("ss", e))
        pay == Encrypt(h2, "certificate")
    IN  [s EXCEPT !.hs = Step(h2, pay),
                  !.sealed = @ \o <<Use(st), Use(pay)>>,
                  !.out = EncodeFrame(ServerHelloMsg(<<Public("es")>>, <<st>>, <<pay>>))]

OnClientFinish(s, st, pay) ==
    LET h == MixKey(Step(s.hs, st), X25519("es", st.plain))
    IN  IF Opens(s.hs, st) /\ Opens(h, pay)
        THEN [s EXCEPT !.hs = Split(Step(h, pay), 2, 1), !.fin = TRUE]
        ELSE [s EXCEPT !.up = FALSE]

\* The exception of a frame that does not open ends the connection.
OnServerFrame(s, frame) ==
    CASE ~s.up -> s
      [] s.up /\ s.fin ->
            IF TransportOpens(s.hs, frame[1])
            THEN [s EXCEPT !.hs = HasRead(@), !.got = Append(@, Decode(frame[1].plain))]
            ELSE [s EXCEPT !.up = FALSE]
      [] s.up /\ ~s.fin /\ First(frame, 2) # <<>> -> OnClientHello(s, First(First(frame, 2), 1)[1])
      [] OTHER ->
            LET f == First(frame, 4) IN OnClientFinish(s, First(f, 1)[1], First(f, 2)[1])

\* onData: four bytes of intro come before the first frame.
OnServerFrames(s, p) ==
    LET after[i \in 0..Len(p.frames)] ==
            IF i = 0
            THEN [s EXCEPT !.introSkipped = TRUE, !.buf = p.rest, !.out = <<>>]
            ELSE OnServerFrame(after[i - 1], p.frames[i])
    IN  after[Len(p.frames)]
OnData(s, bytes) ==
    LET all  == s.buf \o bytes
        skip == IF s.introSkipped THEN 0 ELSE 4
    IN  IF Len(all) < skip
        THEN [s EXCEPT !.buf = all]
        ELSE OnServerFrames(s, Push(SubSeq(all, skip + 1, Len(all))))

---------------------------------------------------------------------------
Init ==
    /\ cl = [state |-> "idle", hs |-> Fresh, buf |-> <<>>, settled |-> "no",
             got |-> <<>>, sealed |-> <<>>, out |-> <<>>]
    /\ sv = [up |-> TRUE, fin |-> FALSE, hs |-> Fresh, buf |-> <<>>, introSkipped |-> FALSE,
             got |-> <<>>, sealed |-> <<>>, out |-> <<>>]
    /\ up = <<>> /\ down = <<>>
    /\ left = FALSE
    /\ pushed = <<>> /\ sent = <<>>
    /\ faults = 0

Connect ==
    /\ cl.state = "idle"
    /\ cl' = [cl EXCEPT !.state = "handshaking", !.hs = SaidHello(@)]
    /\ up' = Intro \o EncodeFrame(ClientHelloMsg(<<Public("ec")>>))
    /\ UNCHANGED <<sv, down, left, pushed, sent, faults>>

\* What a side sends is on its way.
ClientBecomes(c) == cl' = [c EXCEPT !.out = <<>>] /\ up' = up \o c.out
ServerBecomes(s) == sv' = [s EXCEPT !.out = <<>>] /\ down' = down \o s.out

\* Any piece of what is on the way arrives.  After close() the bytes are ignored.
ClientReceives(n, bad) ==
    /\ cl.state # "closed"
    /\ n \in 1..Len(down)
    /\ ClientBecomes(OnBytes(cl, SubSeq(down, 1, n), bad))
    /\ down' = SubSeq(down, n + 1, Len(down))
    /\ UNCHANGED <<sv, left, pushed, sent>>

Receive == \E n \in 1..Len(down) : ClientReceives(n, 0) /\ UNCHANGED faults

ListenerThrows ==
    /\ faults < MaxFaults
    /\ \E n \in 1..Len(down) :
          \E bad \in 1..Len(Push(cl.buf \o SubSeq(down, 1, n)).frames) :
              ClientReceives(n, bad)
    /\ faults' = faults + 1

\* Bound: after these nodes, one of the sequences goes on with this one.
Nodes == UNION {Range(s) : s \in Sends}
Sendable(before, node) == \E s \in Sends : IsPrefix(Append(before, node), s)

\* sendNode throws unless the socket is open.
SendNode(node) ==
    /\ cl.state = "open"
    /\ Sendable(sent, node)
    /\ LET ct == TransportSeal(cl.hs, Encode(node))
       IN  /\ cl' = [cl EXCEPT !.hs = Wrote(@), !.sealed = Append(@, Use(ct))]
           /\ up' = up \o EncodeFrame(<<ct>>)
    /\ sent' = Append(sent, node)
    /\ UNCHANGED <<sv, down, left, pushed, faults>>

Close ==
    /\ cl.state # "closed"
    /\ cl' = [cl EXCEPT !.state = "closed"]
    /\ left' = TRUE
    /\ UNCHANGED <<sv, up, down, pushed, sent, faults>>

\* onClosed: the transport reports that the other side is gone.
ClientLosesTransport ==
    /\ cl.state \notin {"idle", "closed"}
    /\ ~sv.up
    /\ cl' = Failed(cl)
    /\ UNCHANGED <<sv, up, down, left, pushed, sent, faults>>

ServerReceives ==
    /\ sv.up
    /\ \E n \in 1..Len(up) :
          /\ ServerBecomes(OnData(sv, SubSeq(up, 1, n)))
          /\ up' = SubSeq(up, n + 1, Len(up))
    /\ UNCHANGED <<cl, left, pushed, sent, faults>>

\* pushNode; the server may compress.
PushNode(node, bytes) ==
    /\ sv.up /\ sv.fin
    /\ Sendable(pushed, node)
    /\ LET ct == TransportSeal(sv.hs, bytes)
       IN  /\ sv' = [sv EXCEPT !.hs = Wrote(@), !.sealed = Append(@, Use(ct))]
           /\ down' = down \o EncodeFrame(<<ct>>)
    /\ pushed' = Append(pushed, node)
    /\ UNCHANGED <<cl, up, left, sent, faults>>

\* A frame that is no ServerHello and opens under no key.
ServerErrs ==
    /\ sv.up /\ sv.introSkipped
    /\ faults < MaxFaults
    /\ faults' = faults + 1
    /\ down' = down \o EncodeFrame(<<>>)
    /\ UNCHANGED <<cl, sv, up, left, pushed, sent>>

ServerCloses ==
    /\ sv.up
    /\ sv' = [sv EXCEPT !.up = FALSE]
    /\ UNCHANGED <<cl, up, down, left, pushed, sent, faults>>

Next ==
    \/ Connect \/ Receive \/ ListenerThrows
    \/ \E node \in Nodes : SendNode(node)
    \/ Close \/ ClientLosesTransport
    \/ ServerReceives
    \/ \E node \in Nodes : PushNode(node, Encode(node)) \/ PushNode(node, Deflated(node))
    \/ ServerErrs \/ ServerCloses

\* The transport delivers what is on the way to a side that reads, and reports its
\* end.  (The first two are weak fairness, spelled out: bytes that can always be
\* delivered are delivered again and again.)
Spec ==
    /\ Init /\ [][Next]_vars
    /\ []<>(cl.state = "closed" \/ down = <<>>) \/ []<><<Len(down') < Len(down)>>_vars
    /\ []<>(~sv.up \/ up = <<>>) \/ []<><<Len(up') < Len(up)>>_vars
    /\ WF_vars(ClientLosesTransport)

---------------------------------------------------------------------------
\* No two encryptions of one connection, of either side, use the same key and
\* nonce: the reason why encrypt and decrypt of noise/handshake.ts share one
\* counter until finish() and have one each afterwards.
NonceOnce == IsInjective(cl.sealed \o sv.sealed)

\* The nodes that the listeners of node.recv see are those the server pushed, and
\* those it reads the ones of sendNode, in order, once each, whatever pieces the
\* FrameDecoder gets, and none after the socket is closed; a connection that
\* nobody closes delivers them all.
AsRead == [n \in Nodes |-> SameNode(n)]
Channel == INSTANCE NodeChannel WITH
    Value <- Range(AsRead),
    open <- (IF cl.state = "closed" THEN {} ELSE {"client"})
            \union (IF sv.up THEN {"server"} ELSE {}),
    sent <- [client |-> [i \in DOMAIN sent |-> AsRead[sent[i]]],
             server |-> [i \in DOMAIN pushed |-> AsRead[pushed[i]]]],
    got <- [client |-> cl.got, server |-> sv.got]

IsChannel == Channel!CSpec

\* The promise of connect() is settled, however the handshake ends, unless the
\* caller closed the socket meanwhile (close() settles nothing).
ConnectSettles == cl.state = "handshaking" ~> (cl.settled # "no" \/ left)
=============================================================================
