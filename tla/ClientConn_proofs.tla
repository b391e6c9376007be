------------------------- MODULE ClientConn_proofs -------------------------
(* What holds of the connection driver for every set of attempts, every     *)
(* retry budget and every number of refs and timers: its type invariant,    *)
(* that it is never stranded, that it owns at most one link and nothing     *)
(* outlives it, that end() is quiet, and that a pairing logs in.            *)
EXTENDS ClientConn, TLAPS

(* Why `connecting` can be trusted: an attempt in flight is the only one, is *)
(* what `connecting` stands for, and past the dial it is the current socket, *)
(* which the driver always listens to.                                      *)
AttemptInv ==
    /\ \A c, d \in InFlight : c = d
    /\ InFlight # {} => connecting
    /\ connecting => stopped \/ InFlight # {}
    /\ \A c \in Conns : conn[c] = "handshaking" => socket = c
    /\ socket # None => socket \in bound

(* Why no second link appears: before the microtask nothing is past the      *)
(* dial, and a restart timer is pending only when every link is gone.       *)
TimerInv ==
    /\ auto => restarts = 0 /\ \A c \in Conns : conn[c] \in {"closed", "dialing"}
    /\ ~again /\ restarts > 0 => restarts = 1 /\ Live = {}

IInv == TypeOK /\ AttemptInv /\ TimerInv /\ NeverStranded /\ OneLink

LEMMA InitInv == Init => IInv
<1> SUFFICES ASSUME Init PROVE IInv
  OBVIOUS
<1>1. TypeOK
  <2>1. /\ stopped \in BOOLEAN /\ connecting \in BOOLEAN /\ expectRestart \in BOOLEAN
        /\ keepAlive \in BOOLEAN /\ auto \in BOOLEAN /\ registered \in BOOLEAN
        /\ again \in BOOLEAN /\ lateEnd \in BOOLEAN
    BY Zenon DEF Init
  <2>2. /\ state \in States /\ socket \in Conns \union {None}
        /\ qrTimer \in Conns \union {None}
        /\ bound \subseteq Conns /\ login \subseteq Conns /\ pendingIq \subseteq Iqs
    BY DEF Init, States
  <2>3. retries \in Nat /\ restarts \in Nat
    BY DEF Init
  <2>4. conn \in [Conns -> Status] /\ rot \in [Conns -> Int]
    BY DEF Init, Status, NoTimer
  <2>5. QED
    BY <2>1, <2>2, <2>3, <2>4 DEF TypeOK, LinkType
<1>2. Live = {} /\ InFlight = {}
  BY DEF Init, Live, InFlight
<1>3. AttemptInv
  BY <1>2 DEF Init, AttemptInv
<1>4. TimerInv
  BY DEF Init, TimerInv
<1>5. NeverStranded /\ OneLink
  BY <1>2 DEF Init, NeverStranded, OneLink
<1>6. QED
  BY <1>1, <1>3, <1>4, <1>5 DEF IInv

----------------------------------------------------------------------------
(* Types: what the three shared operations leave behind. *)

LEMMA TeardownType ==
    ASSUME NEW cn \in [Conns -> Status], NEW rt \in [Conns -> Int], Teardown(cn, rt)
    PROVE  LinkType'
<1>1. keepAlive' \in BOOLEAN
  BY Zenon DEF Teardown
<1>2. conn' \in [Conns -> Status] /\ rot' \in [Conns -> Int]
  BY DEF Teardown, Cleared, NoTimer, Status
<1>3. /\ socket' \in Conns \union {None} /\ qrTimer' \in Conns \union {None}
      /\ bound' \subseteq Conns /\ pendingIq' \subseteq Iqs
  BY DEF Teardown
<1>4. QED
  BY <1>1, <1>2, <1>3 DEF LinkType

LEMMA EndType ==
    ASSUME TypeOK, NEW cn \in [Conns -> Status], NEW rt \in [Conns -> Int], End(cn, rt)
    PROVE  /\ LinkType' /\ state' \in States /\ stopped' \in BOOLEAN
           /\ retries' \in Nat /\ restarts' \in Nat /\ lateEnd' \in BOOLEAN
<1>1. LinkType'
  BY TeardownType DEF End
<1>2. stopped' \in BOOLEAN /\ lateEnd' \in BOOLEAN
  BY Zenon DEF End, TypeOK
<1>3. QED
  BY <1>1, <1>2 DEF End, TypeOK, States

LEMMA ReconnectType ==
    ASSUME TypeOK, NEW cn \in [Conns -> Status], NEW im \in BOOLEAN, Reconnect(cn, im)
    PROVE  /\ LinkType' /\ state' \in States /\ stopped' \in BOOLEAN
           /\ retries' \in Nat /\ restarts' \in Nat /\ lateEnd' \in BOOLEAN
<1>1. LinkType'
  BY TeardownType DEF Reconnect, TypeOK, LinkType
<1>2. stopped' \in BOOLEAN /\ lateEnd' \in BOOLEAN
  BY Zenon DEF Reconnect, TypeOK
<1>3. QED
  BY <1>1, <1>2 DEF Reconnect, TypeOK, States

LEMMA StartType ==
    ASSUME TypeOK, \/ StartReturns
                   \/ \E c \in Conns : Start(c)
    PROVE  /\ LinkType' /\ state' \in States /\ stopped' \in BOOLEAN /\ retries' \in Nat
           /\ connecting' \in BOOLEAN /\ expectRestart' \in BOOLEAN
           /\ login' \subseteq Conns /\ registered' \in BOOLEAN /\ lateEnd' \in BOOLEAN
  BY DEF TypeOK, LinkType, Status, StartReturns, Start, drvVars, linkVars

LEMMA NextType == TypeOK /\ [Next]_vars => TypeOK'
<1> SUFFICES ASSUME TypeOK, [Next]_vars PROVE TypeOK'
  OBVIOUS
<1> USE DEF TypeOK
<1>1. CASE AutoStart
  BY <1>1, StartType, Zenon DEF AutoStart
<1>2. CASE UserStart
  BY <1>2, StartType DEF UserStart
<1>3. CASE RestartTimer
  BY <1>3, StartType DEF RestartTimer
<1>4. CASE UserEnd
  BY <1>4, EndType DEF UserEnd, LinkType
<1>5. ASSUME NEW c \in Conns, Attempt(c) PROVE TypeOK'
  <2>1. CASE DialOk(c)
    BY <2>1 DEF DialOk, LinkType, Status, drvVars, histVars
  <2>2. CASE DialFail(c) \/ HandshakeFail(c)
    <3> DEFINE cn == [conn EXCEPT ![c] = "closed"]
    <3>1. cn \in [Conns -> Status]
      BY DEF LinkType, Status
    <3>2. AttemptFails(c)
      BY <2>2 DEF DialFail, HandshakeFail
    <3>3. connecting' \in BOOLEAN
      BY <3>2, Zenon DEF AttemptFails
    <3>4. CASE Reconnect(cn, FALSE)
      BY <3>1, <3>2, <3>3, <3>4, ReconnectType DEF AttemptFails
    <3>5. CASE OnlyConn(cn)
      BY <3>1, <3>2, <3>3, <3>5 DEF AttemptFails, OnlyConn, LinkType, drvVars
    <3>6. QED
      BY <3>2, <3>4, <3>5 DEF AttemptFails
  <2>3. CASE HandshakeOk(c)
    <3>1. connecting' \in BOOLEAN /\ keepAlive' \in BOOLEAN
      BY <2>3, Zenon DEF HandshakeOk
    <3>2. QED
      BY <2>3, <3>1 DEF HandshakeOk, LinkType, Status, histVars
  <2>4. CASE Drop(c)
    <3> DEFINE cn == [conn EXCEPT ![c] = "closed"]
    <3>1. cn \in [Conns -> Status]
      BY DEF LinkType, Status
    <3>2. CASE Reconnect(cn, FALSE)
      BY <2>4, <3>1, <3>2, ReconnectType DEF Drop
    <3>3. CASE OnlyConn(cn)
      BY <2>4, <3>1, <3>3 DEF Drop, OnlyConn, LinkType, drvVars
    <3>4. QED
      BY <2>4, <3>2, <3>3 DEF Drop
  <2>5. QED
    BY <1>5, <2>1, <2>2, <2>3, <2>4 DEF Attempt
<1>6. ASSUME NEW rt \in [Conns -> Int], NEW qt \in Conns \union {None},
             EndFrom(rt, qt)
      PROVE  /\ LinkType' /\ state' \in States /\ stopped' \in BOOLEAN
             /\ retries' \in Nat /\ restarts' \in Nat /\ lateEnd' \in BOOLEAN
  BY <1>6, EndType DEF EndFrom, LinkType, drvVars
<1>7. ASSUME NEW c \in Conns, NEW n \in Int, Rotate(c, n)
      PROVE  /\ LinkType' /\ state' \in States /\ stopped' \in BOOLEAN
             /\ retries' \in Nat /\ restarts' \in Nat /\ lateEnd' \in BOOLEAN
  <2>1. [rot EXCEPT ![c] = NoTimer] \in [Conns -> Int]
    BY DEF LinkType, NoTimer
  <2>2. CASE n = 0
    <3>1. EndFrom([rot EXCEPT ![c] = NoTimer], qrTimer)
      BY <1>7, <2>2 DEF Rotate
    <3>2. qrTimer \in Conns \union {None}
      BY DEF LinkType
    <3>3. QED
      BY <1>6, <2>1, <3>1, <3>2
  <2>3. CASE n > 0
    BY <1>7, <2>3 DEF Rotate, LinkType, drvVars
  <2>4. QED
    BY <1>7, <2>2, <2>3 DEF Rotate
<1>8. ASSUME NEW c \in Conns, QrTimer(c) PROVE TypeOK'
  BY <1>7, <1>8 DEF QrTimer, LinkType
<1>9. ASSUME NEW c \in Conns, HandleNode(c) PROVE TypeOK'
  <2>0. Cleared(rot) \in [Conns -> Int] /\ None \in Conns \union {None}
    BY DEF Cleared, NoTimer, LinkType
  <2>1. CASE HandlePairDevice(c)
    BY <1>7, <2>1, RefsAssumption DEF HandlePairDevice
  <2>2. CASE PairRejected(c)
    BY <1>6, <2>0, <2>2 DEF PairRejected
  <2>3. CASE HandlePairSuccess(c)
    <3>1. registered' \in BOOLEAN /\ expectRestart' \in BOOLEAN
      BY <2>3, Zenon DEF HandlePairSuccess
    <3>2. CASE EndFrom(Cleared(rot), None)
      BY <1>6, <2>0, <2>3, <3>1, <3>2 DEF HandlePairSuccess
    <3>3. CASE ~EndFrom(Cleared(rot), None)
      BY <2>0, <2>3, <3>1, <3>3 DEF HandlePairSuccess, LinkType, drvVars
    <3>4. QED
      BY <3>2, <3>3
  <2>4. CASE HandleLoginSuccess(c)
    <3>1. expectRestart' \in BOOLEAN /\ keepAlive' \in BOOLEAN
      BY <2>4, Zenon DEF HandleLoginSuccess
    <3>2. QED
      BY <2>4, <3>1 DEF HandleLoginSuccess, LinkType, States, histVars
  <2>5. ASSUME NEW code \in Codes, HandleStreamError(c, code) \/ HandleFailure(c, code)
        PROVE  TypeOK'
    <3>1. conn \in [Conns -> Status] /\ rot \in [Conns -> Int]
      BY DEF LinkType
    <3>2. CASE End(conn, rot)
      BY <2>5, <3>1, <3>2, EndType DEF HandleStreamError, HandleFailure
    <3>3. CASE Reconnect(conn, TRUE) \/ Reconnect(conn, FALSE)
      BY <2>5, <3>1, <3>3, ReconnectType DEF HandleStreamError, HandleFailure
    <3>4. QED
      BY <2>5, <3>2, <3>3 DEF HandleStreamError, HandleFailure
  <2>6. CASE \E i \in Iqs : HandleIqAnswer(c, i)
    BY <2>6 DEF HandleIqAnswer, OnlyIq, LinkType, drvVars, histVars
  <2>7. QED
    BY <1>9, <2>1, <2>2, <2>3, <2>4, <2>5, <2>6 DEF HandleNode
<1>10. ASSUME NEW i \in Iqs, Query(i) \/ IqTimeout(i) PROVE TypeOK'
  BY <1>10 DEF Query, IqTimeout, OnlyIq, LinkType, drvVars, histVars
<1>11. CASE UNCHANGED vars
  BY <1>11 DEF vars, LinkType, drvVars, linkVars, histVars
<1>12. QED
  BY <1>1, <1>2, <1>3, <1>4, <1>5, <1>8, <1>9, <1>10, <1>11 DEF Next

\* The closure's variables keep their types, for every instance of the constants.
THEOREM TypeCorrect == Spec => []TypeOK
<1>1. Init => TypeOK
  BY InitInv DEF IInv
<1>2. QED
  BY <1>1, NextType, PTL DEF Spec

----------------------------------------------------------------------------
(* The inductive invariant. *)

Core == AttemptInv /\ TimerInv /\ NeverStranded /\ OneLink

\* Only the connection table, `socket` and `bound` matter to Core besides the flags.
LEMMA FrameInv ==
    ASSUME IInv, UNCHANGED <<stopped, connecting, socket, conn, bound, restarts, auto, again>>
    PROVE  Core'
  BY DEF IInv, Core, AttemptInv, TimerInv, NeverStranded, OneLink, InFlight, Live, LinkUp

LEMMA EndInv ==
    ASSUME IInv, NEW rt, End(conn, rt), UNCHANGED <<connecting, auto, again>>
    PROVE  Core'
<1> USE DEF IInv, TypeOK, LinkType
<1>1. \A c \in Conns : conn'[c] = IF c = socket THEN "closed" ELSE conn[c]
  BY DEF End, Teardown
<1>2. stopped'
  BY Zenon DEF End
<1>3. socket' = None /\ bound' = {} /\ restarts' = restarts
  BY DEF End, Teardown
<1>4. AttemptInv'
  BY <1>1, <1>2, <1>3 DEF AttemptInv, InFlight
<1>5. TimerInv'
  BY <1>1, <1>3 DEF TimerInv, Live
<1>6. NeverStranded'
  BY <1>2 DEF NeverStranded
<1>7. OneLink'
  BY <1>1, <1>3 DEF OneLink, Live
<1>8. QED
  BY <1>4, <1>5, <1>6, <1>7 DEF Core

\* reconnect() runs when an attempt or a link is lost and no attempt is left.
LEMMA ReconnectInv ==
    ASSUME IInv, NEW im \in BOOLEAN, NEW cn \in [Conns -> Status], NEW c \in Conns,
           conn[c] # "closed", conn[c] = "dialing" => ~auto,
           \A d \in Conns : cn[d] \in {"closed", conn[d]},
           \A d \in Conns : cn[d] \notin {"dialing", "handshaking"},
           Reconnect(cn, im), ~connecting', UNCHANGED <<auto, again>>
    PROVE  Core'
<1> USE DEF IInv, TypeOK, LinkType
<1>1. \A d \in Conns : conn'[d] = IF d = socket THEN "closed" ELSE cn[d]
  BY DEF Reconnect, Teardown
<1>2. socket' = None /\ bound' = {} /\ InFlight' = {}
  BY <1>1 DEF Reconnect, Teardown, InFlight
<1>3. stopped' \/ restarts' > 0
  <2>1. stopped' \/ restarts' = restarts + 1
    BY Zenon DEF Reconnect
  <2>2. QED
    BY <2>1
<1>4. ~auto
  BY DEF TimerInv, Status
<1>5. ~again => Live' = {} /\ restarts = 0
  BY <1>1 DEF OneLink, TimerInv, Live
<1>6. restarts' \in {restarts, restarts + 1}
  BY DEF Reconnect
<1>7. AttemptInv'
  BY <1>1, <1>2 DEF AttemptInv, InFlight
<1>8. TimerInv'
  BY <1>4, <1>5, <1>6 DEF TimerInv
<1>9. NeverStranded'
  BY <1>3 DEF NeverStranded
<1>10. OneLink'
  BY <1>5 DEF OneLink
<1>11. QED
  BY <1>7, <1>8, <1>9, <1>10 DEF Core

\* A dial starts from nothing: no attempt alive and, unless start() is called on a
\* running driver, no timer left.
LEMMA StartInv ==
    ASSUME IInv, NEW c \in Conns, Start(c), restarts' \in Nat, restarts' <= restarts,
           auto' => auto, again => again', ~again' => restarts' = 0 /\ Live = {}
    PROVE  Core'
<1> USE DEF IInv, TypeOK, LinkType
<1>1. /\ conn' = [conn EXCEPT ![c] = "dialing"] /\ conn[c] = "closed" /\ ~stopped
      /\ connecting' /\ ~connecting /\ UNCHANGED <<stopped, socket, bound>>
  BY Zenon DEF Start, Unused, drvVars
<1>2. InFlight = {} /\ InFlight' = {c}
  BY <1>1 DEF AttemptInv, InFlight, Status
<1>3. AttemptInv'
  BY <1>1, <1>2 DEF AttemptInv, InFlight
<1>4. TimerInv'
  BY <1>1 DEF TimerInv
<1>5. NeverStranded'
  BY <1>2 DEF NeverStranded
<1>6. OneLink'
  BY <1>1 DEF OneLink, Live
<1>7. QED
  BY <1>3, <1>4, <1>5, <1>6 DEF Core

LEMMA StartReturnsInv ==
    ASSUME IInv, StartReturns, restarts' \in Nat, restarts' <= restarts,
           auto' => auto, again' = again
    PROVE  Core'
  BY DEF IInv, TypeOK, Core, StartReturns, AttemptInv, TimerInv, NeverStranded, OneLink,
     InFlight, Live, drvVars, linkVars

LEMMA NextInv == IInv /\ [Next]_vars => IInv'
<1> SUFFICES ASSUME IInv, [Next]_vars PROVE Core'
  BY NextType DEF IInv, Core
<1> USE DEF IInv
<1>1. CASE UserEnd
  BY <1>1, EndInv DEF UserEnd
<1>2. ASSUME NEW c \in Conns, Attempt(c) PROVE Core'
  <2> DEFINE cn == [conn EXCEPT ![c] = "closed"]
  <2>0. /\ cn \in [Conns -> Status]
        /\ \A d \in Conns : cn[d] = IF d = c THEN "closed" ELSE conn[d]
    BY DEF TypeOK, LinkType, Status
  <2>1. CASE DialOk(c)
    BY <2>1 DEF DialOk, Core, TypeOK, LinkType, Status, AttemptInv, TimerInv, NeverStranded,
          OneLink, InFlight, Live, drvVars, histVars
  <2>2. CASE DialFail(c) \/ HandshakeFail(c)
    <3>1. /\ c \in InFlight /\ AttemptFails(c) /\ ~connecting'
          /\ conn[c] = "dialing" => ~auto
      BY <2>2, Zenon DEF DialFail, HandshakeFail, AttemptFails, InFlight
    <3>2. InFlight = {c} /\ \A d \in Conns : cn[d] \notin {"dialing", "handshaking"}
      BY <2>0, <3>1 DEF AttemptInv, InFlight
    <3>3. CASE Reconnect(cn, FALSE)
      <4>1. conn[c] # "closed"
        BY <3>1 DEF InFlight
      <4>2. \A d \in Conns : cn[d] \in {"closed", conn[d]}
        BY <2>0
      <4>3. QED
        BY <2>0, <3>1, <3>2, <3>3, <4>1, <4>2, ReconnectInv DEF AttemptFails
    <3>4. CASE stopped /\ OnlyConn(cn)
      BY <2>0, <3>1, <3>2, <3>4 DEF AttemptFails, OnlyConn, Core, TypeOK, LinkType, Status,
            AttemptInv, TimerInv, NeverStranded, OneLink, InFlight, Live, drvVars
    <3>5. QED
      BY <3>1, <3>3, <3>4 DEF AttemptFails
  <2>3. CASE HandshakeOk(c)
    <3>1. /\ ~connecting' /\ conn' = [conn EXCEPT ![c] = "open"] /\ c \in InFlight
          /\ UNCHANGED <<stopped, socket, bound, restarts, auto, again>>
      BY <2>3, Zenon DEF HandshakeOk, histVars, InFlight
    <3>2. socket = c /\ c \in bound /\ InFlight' = {}
      BY <2>3, <3>1, ConnsAssumption
         DEF HandshakeOk, AttemptInv, TypeOK, LinkType, Status, InFlight
    <3>3. \A d \in Conns : conn'[d] = IF d = c THEN "open" ELSE conn[d]
      BY <3>1 DEF TypeOK, LinkType
    <3>4. AttemptInv'
      BY <3>1, <3>2, <3>3 DEF AttemptInv, InFlight
    <3>5. ~auto
      BY <2>3 DEF HandshakeOk, TimerInv
    <3>6. TimerInv' /\ OneLink'
      BY <3>1, <3>2, <3>3, <3>5 DEF TimerInv, OneLink, Live, InFlight
    <3>7. NeverStranded'
      BY <3>1, <3>2, <3>3, ConnsAssumption DEF NeverStranded, LinkUp
    <3>8. QED
      BY <3>4, <3>6, <3>7 DEF Core
  <2>4. CASE Drop(c)
    <3>1. conn[c] = "open" /\ ~auto
      BY <2>4 DEF Drop, TimerInv
    <3>2. CASE c \in bound /\ ~stopped /\ ~connecting /\ Reconnect(cn, FALSE)
      <4>1. \A d \in Conns : cn[d] \in {"closed", conn[d]} \ {"dialing", "handshaking"}
        BY <2>0, <3>2 DEF AttemptInv, InFlight
      <4>2. ~connecting'
        BY <2>4, <3>2 DEF Drop
      <4>3. QED
        BY <2>0, <2>4, <3>1, <3>2, <4>1, <4>2, ReconnectInv DEF Drop
    <3>3. CASE ~(c \in bound /\ ~stopped /\ ~connecting) /\ OnlyConn(cn)
      BY <2>0, <2>4, <3>1, <3>3 DEF Drop, OnlyConn, Core, TypeOK, LinkType, Status,
            AttemptInv, TimerInv, NeverStranded, OneLink, InFlight, Live, LinkUp, drvVars
    <3>4. QED
      BY <2>4, <3>2, <3>3 DEF Drop
  <2>5. QED
    BY <1>2, <2>1, <2>2, <2>3, <2>4 DEF Attempt
<1>3. ASSUME NEW rt, NEW qt, EndFrom(rt, qt), UNCHANGED <<connecting, auto, again>>
      PROVE  Core'
  BY <1>3, EndInv, FrameInv DEF EndFrom, drvVars
<1>4. ASSUME NEW c \in Conns, NEW n, Rotate(c, n), UNCHANGED <<connecting, auto, again>>
      PROVE  Core'
  BY <1>3, <1>4, FrameInv DEF Rotate, drvVars
<1>5. ASSUME NEW c \in Conns, QrTimer(c) PROVE Core'
  BY <1>4, <1>5 DEF QrTimer
<1>6. ASSUME NEW c \in Conns, HandleNode(c) PROVE Core'
  <2>1. CASE HandlePairDevice(c)
    BY <1>4, <2>1 DEF HandlePairDevice
  <2>2. CASE PairRejected(c)
    BY <1>3, <2>2 DEF PairRejected
  <2>3. CASE HandlePairSuccess(c)
    BY <1>3, <2>3, FrameInv DEF HandlePairSuccess, drvVars
  <2>4. CASE HandleLoginSuccess(c)
    BY <2>4, FrameInv DEF HandleLoginSuccess, histVars
  <2>5. ASSUME NEW code \in Codes, HandleStreamError(c, code) \/ HandleFailure(c, code)
        PROVE  Core'
    <3>1. conn[c] = "open" /\ UNCHANGED <<connecting, auto, again>>
      BY <2>5 DEF HandleStreamError, HandleFailure, Receives
    <3>2. CASE End(conn, rot)
      BY <3>1, <3>2, EndInv
    <3>3. CASE ~connecting /\ \E im \in BOOLEAN : Reconnect(conn, im)
      <4>1. \A d \in Conns : conn[d] \notin {"dialing", "handshaking"}
        BY <3>3 DEF AttemptInv, InFlight
      <4>2. ~connecting'
        BY <3>1, <3>3
      <4>3. conn \in [Conns -> Status]
        BY DEF TypeOK, LinkType
      <4>4. QED
        BY <3>1, <3>3, <4>1, <4>2, <4>3, ReconnectInv
    <3>4. QED
      BY <2>5, <3>2, <3>3 DEF HandleStreamError, HandleFailure
  <2>6. CASE \E i \in Iqs : HandleIqAnswer(c, i)
    BY <2>6, FrameInv DEF HandleIqAnswer, OnlyIq, drvVars, histVars
  <2>7. QED
    BY <1>6, <2>1, <2>2, <2>3, <2>4, <2>5, <2>6 DEF HandleNode
<1>7. ASSUME NEW i \in Iqs, Query(i) \/ IqTimeout(i) PROVE Core'
  BY <1>7, FrameInv DEF Query, IqTimeout, OnlyIq, drvVars, histVars
<1>8. CASE UNCHANGED vars
  BY <1>8, FrameInv DEF vars, drvVars, linkVars, histVars
<1>9. CASE AutoStart
  <2>1. auto /\ ~auto' /\ again' = again /\ restarts' = restarts
    BY <1>9, Zenon DEF AutoStart
  <2>2. restarts' \in Nat /\ restarts' <= restarts
    BY <2>1 DEF TypeOK
  <2>3. CASE StartReturns
    BY <2>1, <2>2, <2>3, StartReturnsInv
  <2>4. ASSUME NEW c \in Conns, Start(c) PROVE Core'
    <3>1. restarts = 0 /\ Live = {}
      BY <2>1, <2>4 DEF Start, TimerInv, AttemptInv, InFlight, Live
    <3>2. QED
      BY <2>1, <2>2, <2>4, <3>1, StartInv
  <2>5. QED
    BY <1>9, <2>3, <2>4 DEF AutoStart
<1>10. CASE UserStart
  <2>1. PICK c \in Conns : Start(c)
    BY <1>10 DEF UserStart
  <2>2. /\ (again => again') /\ (~again' => auto)
        /\ auto' = auto /\ restarts' = restarts
    BY <1>10, Zenon DEF UserStart
  <2>3. auto => restarts = 0 /\ Live = {}
    BY <2>1 DEF Start, TimerInv, AttemptInv, InFlight, Live
  <2>4. restarts' \in Nat /\ restarts' <= restarts
    BY <2>2 DEF TypeOK
  <2>5. QED
    BY <2>1, <2>2, <2>3, <2>4, StartInv
<1>11. CASE RestartTimer
  <2>1. /\ restarts > 0 /\ restarts' = restarts - 1
        /\ auto' = auto /\ again' = again
    BY <1>11 DEF RestartTimer
  <2>2. restarts' \in Nat /\ restarts' <= restarts
    BY <2>1 DEF TypeOK
  <2>3. CASE StartReturns
    BY <2>1, <2>2, <2>3, StartReturnsInv
  <2>4. ASSUME NEW c \in Conns, Start(c) PROVE Core'
    <3>1. ~again => restarts' = 0 /\ Live = {}
      BY <2>1 DEF TimerInv, TypeOK
    <3>2. QED
      BY <2>1, <2>2, <2>4, <3>1, StartInv
  <2>5. QED
    BY <1>11, <2>3, <2>4 DEF RestartTimer
<1>12. QED
  BY <1>1, <1>2, <1>5, <1>6, <1>7, <1>8, <1>9, <1>10, <1>11 DEF Next

LEMMA Inductive == Spec => []IInv
  BY InitInv, NextInv, PTL DEF Spec

\* A driver that has not ended always has something pending that brings it back.
THEOREM NeverStrandedHolds == Spec => []NeverStranded
<1>1. IInv => NeverStranded
  BY DEF IInv
<1>2. QED
  BY <1>1, Inductive, PTL

\* Unless start() is called on a running driver, the driver owns at most one link.
THEOREM OneLinkHolds == Spec => []OneLink
<1>1. IInv => OneLink
  BY DEF IInv
<1>2. QED
  BY <1>1, Inductive, PTL

----------------------------------------------------------------------------
(* What the driver owns: nothing outlives the link, a stopped driver is      *)
(* quiet, and a restart after pairing logs in.                               *)

(* A driver that ended without a dial in progress has let go of everything.  *)
QuietInv ==
    stopped /\ ~lateEnd =>
        /\ InFlight = {} /\ socket = None /\ bound = {}
        /\ ~keepAlive /\ pendingIq = {} /\ state = "close"
        /\ ~again => Live = {}

(* A restart is expected only once the new credentials are in place.         *)
PairInv == (expectRestart => registered) /\ RestartLogsIn

Owned == QuietInv /\ PairInv /\ NothingOutlivesLink

LEMMA InitOwned == Init => Owned
BY DEF Init, Owned, QuietInv, PairInv, RestartLogsIn, NothingOutlivesLink, LinkUp, InFlight, Live

\* Of an orderly driver an open connection is the link it listens to, and its only one.
LEMMA OpenIsLink ==
    ASSUME IInv, QuietInv, Orderly, NEW c \in Conns, conn[c] = "open"
    PROVE  /\ c = socket /\ c \in bound /\ ~stopped /\ ~connecting
           /\ InFlight = {} /\ Live = {c} /\ LinkUp
<1>1. c \in Live
  BY DEF Live
<1>2. Live = {c} /\ c = socket /\ c \in bound
  BY <1>1 DEF IInv, OneLink, Orderly
<1>3. ~stopped
  BY <1>1 DEF QuietInv, Orderly
<1>4. InFlight = {}
  BY <1>2 DEF InFlight, Live
<1>5. ~connecting
  BY <1>3, <1>4 DEF IInv, AttemptInv
<1>6. LinkUp
  BY <1>2, ConnsAssumption DEF LinkUp
<1>7. QED
  BY <1>2, <1>3, <1>4, <1>5, <1>6

\* Where nothing that Owned speaks of changes, and attempts only come to an end.
LEMMA PairFrame ==
    ASSUME PairInv, UNCHANGED <<expectRestart, login, again>>, registered => registered',
           InFlight' \subseteq InFlight
    PROVE  PairInv'
BY DEF PairInv, RestartLogsIn

\* What teardown leaves: no link, no timer and no query.
LEMMA TeardownOwned ==
    ASSUME NEW cn, NEW rt \in [Conns -> Int], Teardown(cn, rt), state' # "open",
           Orderly' => \A d \in Conns : rt[d] # NoTimer => qrTimer = d
    PROVE  NothingOutlivesLink'
<1>1. ~LinkUp' /\ keepAlive' = FALSE /\ pendingIq' = {}
  BY DEF Teardown, LinkUp
<1>2. Orderly' => \A d \in Conns : rot'[d] = NoTimer
  BY DEF Teardown, Cleared
<1>3. QED
  BY <1>1, <1>2 DEF NothingOutlivesLink

LEMMA EndOwned ==
    ASSUME IInv, QuietInv, NEW rt \in [Conns -> Int], End(conn, rt), again' = again,
           Orderly => \A d \in Conns : rt[d] # NoTimer => qrTimer = d
    PROVE  QuietInv' /\ NothingOutlivesLink' /\ InFlight' \subseteq InFlight
<1> USE DEF IInv, TypeOK, LinkType
<1>1. /\ \A c \in Conns : conn'[c] = IF c = socket THEN "closed" ELSE conn[c]
      /\ socket' = None /\ bound' = {} /\ keepAlive' = FALSE /\ pendingIq' = {}
  BY DEF End, Teardown
<1>2. state' = "close"
  BY DEF End
<1>3. ~lateEnd' => ~lateEnd /\ \A c \in Conns : conn[c] # "dialing"
  BY Zenon DEF End
<1>4. Orderly' => Orderly
  BY <1>3 DEF Orderly
<1>5. Teardown(conn, rt)
  BY DEF End
<1>6. NothingOutlivesLink'
  BY <1>2, <1>4, <1>5, TeardownOwned
<1>7. InFlight' \subseteq InFlight
  BY <1>1 DEF InFlight
<1>8. ASSUME ~lateEnd' PROVE InFlight' = {} /\ (~again' => Live' = {})
  <2>1. \A c \in Conns : conn[c] # "dialing"
    BY <1>3, <1>8
  <2>2. InFlight' = {}
    BY <1>1, <2>1 DEF InFlight, AttemptInv
  <2>3. ~again => Live' = {}
    BY <1>1, <2>1 DEF Live, OneLink
  <2>4. QED
    BY <2>2, <2>3
<1>9. QuietInv'
  BY <1>1, <1>2, <1>8 DEF QuietInv
<1>10. QED
  BY <1>6, <1>7, <1>9

LEMMA ReconnectOwned ==
    ASSUME IInv, QuietInv, NothingOutlivesLink,
           NEW im \in BOOLEAN, NEW cn \in [Conns -> Status], NEW c \in Conns,
           conn[c] # "closed",
           \A d \in Conns : cn[d] \in {"closed", conn[d]},
           \A d \in Conns : cn[d] \notin {"dialing", "handshaking"},
           Reconnect(cn, im), again' = again
    PROVE  QuietInv' /\ NothingOutlivesLink' /\ InFlight' = {}
<1> USE DEF IInv, TypeOK, LinkType
<1>1. /\ \A d \in Conns : conn'[d] = IF d = socket THEN "closed" ELSE cn[d]
      /\ socket' = None /\ bound' = {} /\ keepAlive' = FALSE /\ pendingIq' = {}
  BY DEF Reconnect, Teardown
<1>2. state' # "open" /\ (stopped' => state' = "close")
  <2>1. ~stopped
    BY Zenon DEF Reconnect
  <2>2. state' = "connecting" \/ state' = "close"
    BY Zenon DEF Reconnect
  <2>3. stopped' => state' = "close"
    BY <2>1, Zenon DEF Reconnect
  <2>4. QED
    BY <2>2, <2>3
<1>3. lateEnd' = lateEnd /\ Teardown(cn, rot)
  BY DEF Reconnect
<1>4. Orderly' => \A d \in Conns : rot[d] # NoTimer => qrTimer = d
  BY <1>3 DEF Orderly, NothingOutlivesLink
<1>5. NothingOutlivesLink'
  BY <1>2, <1>3, <1>4, TeardownOwned
<1>6. InFlight' = {}
  BY <1>1 DEF InFlight
<1>7. ~again => Live' = {}
  BY <1>1 DEF Live, OneLink
<1>8. QuietInv'
  BY <1>1, <1>2, <1>6, <1>7 DEF QuietInv
<1>9. QED
  BY <1>5, <1>6, <1>8

LEMMA StartOwned ==
    ASSUME IInv, Owned, NEW c \in Conns, Start(c), again => again',
           ~again' => Live = {}
    PROVE  Owned'
<1> USE DEF IInv, TypeOK, LinkType
<1>1. /\ conn' = [conn EXCEPT ![c] = "dialing"] /\ conn[c] = "closed" /\ c # socket
      /\ UNCHANGED <<state, stopped, lateEnd, expectRestart, registered, socket, bound,
                     keepAlive, rot, qrTimer, pendingIq>>
  BY Zenon DEF Start, Unused, drvVars
<1>2. ~stopped
  BY DEF Start
<1>3. QuietInv'
  BY <1>1, <1>2 DEF QuietInv
<1>4. LinkUp' <=> LinkUp
  BY <1>1 DEF LinkUp
<1>5. Orderly' => Orderly /\ Live = {} /\ ~LinkUp
  BY <1>1 DEF Orderly, LinkUp, Live
<1>6. NothingOutlivesLink'
  BY <1>1, <1>4, <1>5 DEF NothingOutlivesLink, Owned
<1>7. ASSUME expectRestart', ~again' PROVE InFlight' \subseteq login'
  <2>1. InFlight' \subseteq {c}
    BY <1>1, <1>7 DEF Live, InFlight
  <2>2. registered /\ login' = login \union {c}
    BY <1>1, <1>7 DEF Start, Owned, PairInv
  <2>3. QED
    BY <2>1, <2>2
<1>8. PairInv'
  BY <1>1, <1>7 DEF PairInv, RestartLogsIn, Owned
<1>9. QED
  BY <1>3, <1>6, <1>8 DEF Owned

LEMMA StartReturnsOwned ==
    ASSUME Owned, StartReturns, again' = again
    PROVE  Owned'
BY DEF Owned, StartReturns, QuietInv, PairInv, RestartLogsIn, NothingOutlivesLink, Orderly,
   LinkUp, InFlight, Live, drvVars, linkVars

\* end() called by a callback that left the timers as `rt`, all of them cleared
\* but the one the driver remembers.
LEMMA EndFromOwned ==
    ASSUME IInv, Owned, NEW rt \in [Conns -> Int], NEW qt, EndFrom(rt, qt),
           NEW c \in Conns, conn[c] = "open" \/ rot[c] # NoTimer,
           again' = again, UNCHANGED <<expectRestart, login>>, registered => registered',
           Orderly => \A d \in Conns : rt[d] # NoTimer => qrTimer = d
    PROVE  Owned'
<1>1. CASE End(conn, rt)
  <2>1. QuietInv' /\ NothingOutlivesLink' /\ InFlight' \subseteq InFlight
    BY <1>1, EndOwned DEF Owned
  <2>2. PairInv'
    BY <2>1, PairFrame DEF Owned
  <2>3. QED
    BY <2>1, <2>2 DEF Owned
<1>2. CASE /\ stopped /\ rot' = rt /\ qrTimer' = qt
           /\ UNCHANGED <<drvVars, socket, conn, bound, keepAlive, pendingIq, restarts, lateEnd>>
  <2>1. /\ stopped' /\ InFlight' = InFlight
        /\ UNCHANGED <<stopped, state, lateEnd, again, socket, conn, bound, keepAlive, pendingIq>>
    BY <1>2 DEF drvVars, InFlight
  <2>2. QuietInv'
    BY <2>1 DEF Owned, QuietInv, Live
  <2>3. PairInv'
    BY <2>1, PairFrame DEF Owned
  <2>4. ~Orderly
    <3>1. CASE conn[c] = "open"
      BY <1>2, <3>1, OpenIsLink DEF Owned
    <3>2. CASE rot[c] # NoTimer
      <4>1. Orderly => LinkUp /\ socket = c
        BY <3>2 DEF Owned, NothingOutlivesLink
      <4>2. Orderly => conn[c] = "open"
        BY <4>1 DEF LinkUp
      <4>3. QED
        BY <1>2, <4>2, OpenIsLink DEF Owned
    <3>3. QED
      BY <3>1, <3>2
  <2>5. ~Orderly' /\ (LinkUp' <=> LinkUp)
    BY <2>1, <2>4 DEF Orderly, LinkUp
  <2>6. NothingOutlivesLink'
    BY <2>1, <2>5 DEF Owned, NothingOutlivesLink
  <2>7. QED
    BY <2>2, <2>3, <2>6 DEF Owned
<1>3. QED
  BY <1>1, <1>2 DEF EndFrom

LEMMA DialOkOwned ==
    ASSUME IInv, Owned, NEW c \in Conns, DialOk(c)
    PROVE  Owned'
<1> USE DEF IInv, TypeOK, LinkType
<1>1. /\ conn[c] = "dialing" /\ conn' = [conn EXCEPT ![c] = "handshaking"]
      /\ socket' = c /\ bound' = bound \union {c}
      /\ UNCHANGED <<state, stopped, lateEnd, again, keepAlive, pendingIq, rot, qrTimer,
                     expectRestart, login, registered>>
  BY Zenon DEF DialOk, drvVars, histVars
<1>2. c \in InFlight /\ c \in Live /\ InFlight' \subseteq InFlight
  BY <1>1 DEF InFlight, Live
<1>3. QuietInv'
  BY <1>1, <1>2 DEF Owned, QuietInv
<1>4. PairInv'
  BY <1>1, <1>2, PairFrame DEF Owned
<1>5. ~LinkUp'
  BY <1>1 DEF LinkUp
<1>6. Orderly' => Orderly /\ ~LinkUp
  <2>1. ASSUME Orderly, LinkUp PROVE FALSE
    <3>1. socket \in Conns /\ conn[socket] = "open"
      BY <2>1 DEF LinkUp
    <3>2. Live = {socket}
      BY <2>1, <3>1, OpenIsLink DEF Owned
    <3>3. QED
      BY <1>1, <1>2, <3>1, <3>2
  <2>2. QED
    BY <1>1, <2>1 DEF Orderly
<1>7. NothingOutlivesLink'
  BY <1>1, <1>5, <1>6 DEF Owned, NothingOutlivesLink
<1>8. QED
  BY <1>3, <1>4, <1>7 DEF Owned

LEMMA AttemptFailsOwned ==
    ASSUME IInv, Owned, NEW c \in Conns, c \in InFlight, AttemptFails(c)
    PROVE  Owned'
<1> USE DEF IInv, TypeOK, LinkType
<1> DEFINE cn == [conn EXCEPT ![c] = "closed"]
<1>1. /\ cn \in [Conns -> Status]
      /\ \A d \in Conns : cn[d] = IF d = c THEN "closed" ELSE conn[d]
  BY DEF Status
<1>2. UNCHANGED <<expectRestart, login, registered, again>>
  BY DEF AttemptFails
<1>3. InFlight = {c} /\ conn[c] # "closed"
  BY DEF AttemptInv, InFlight
<1>4. \A d \in Conns : cn[d] \notin {"dialing", "handshaking"} /\ cn[d] \in {"closed", conn[d]}
  BY <1>1, <1>3 DEF InFlight
<1>5. CASE Reconnect(cn, FALSE)
  <2>1. QuietInv' /\ NothingOutlivesLink' /\ InFlight' = {}
    BY <1>1, <1>2, <1>3, <1>4, <1>5, ReconnectOwned DEF Owned
  <2>2. PairInv'
    BY <1>2, <2>1, PairFrame DEF Owned
  <2>3. QED
    BY <2>1, <2>2 DEF Owned
<1>6. CASE stopped /\ OnlyConn(cn)
  <2>1. /\ conn' = cn
        /\ UNCHANGED <<state, stopped, lateEnd, socket, bound, keepAlive, pendingIq, rot, qrTimer>>
    BY <1>6 DEF OnlyConn, drvVars
  <2>2. lateEnd
    BY <1>3, <1>6 DEF Owned, QuietInv
  <2>3. InFlight' = {}
    BY <1>4, <2>1 DEF InFlight
  <2>4. LinkUp' => LinkUp
    BY <1>1, <2>1 DEF LinkUp
  <2>5. QuietInv' /\ NothingOutlivesLink'
    BY <2>1, <2>2, <2>4 DEF Owned, QuietInv, NothingOutlivesLink, Orderly
  <2>6. PairInv'
    BY <1>2, <2>3, PairFrame DEF Owned
  <2>7. QED
    BY <2>5, <2>6 DEF Owned
<1>7. QED
  BY <1>5, <1>6 DEF AttemptFails

LEMMA HandshakeOkOwned ==
    ASSUME IInv, Owned, NEW c \in Conns, HandshakeOk(c)
    PROVE  Owned'
<1> USE DEF IInv, TypeOK, LinkType
<1>1. /\ conn[c] = "handshaking" /\ conn' = [conn EXCEPT ![c] = "open"]
      /\ keepAlive' = TRUE
      /\ UNCHANGED <<state, stopped, lateEnd, again, socket, bound, pendingIq, rot, qrTimer,
                     expectRestart, login, registered>>
  BY Zenon DEF HandshakeOk, histVars
<1>2. c \in InFlight /\ c \in Live /\ InFlight' \subseteq InFlight
  BY <1>1 DEF InFlight, Live
<1>3. QuietInv'
  BY <1>1, <1>2 DEF Owned, QuietInv
<1>4. PairInv'
  BY <1>1, <1>2, PairFrame DEF Owned
<1>5. socket = c /\ LinkUp'
  BY <1>1, ConnsAssumption DEF AttemptInv, LinkUp
<1>6. ~LinkUp
  BY <1>1, <1>5 DEF LinkUp
<1>7. NothingOutlivesLink'
  BY <1>1, <1>5, <1>6 DEF Owned, NothingOutlivesLink, Orderly
<1>8. QED
  BY <1>3, <1>4, <1>7 DEF Owned

LEMMA DropOwned ==
    ASSUME IInv, Owned, NEW c \in Conns, Drop(c)
    PROVE  Owned'
<1> USE DEF IInv, TypeOK, LinkType
<1> DEFINE cn == [conn EXCEPT ![c] = "closed"]
<1>1. /\ cn \in [Conns -> Status]
      /\ \A d \in Conns : cn[d] = IF d = c THEN "closed" ELSE conn[d]
  BY DEF Status
<1>2. conn[c] = "open" /\ UNCHANGED <<connecting, expectRestart, login, registered, again>>
  BY DEF Drop
<1>3. CASE ~connecting /\ ~stopped /\ Reconnect(cn, FALSE)
  <2>1. \A d \in Conns : cn[d] \notin {"dialing", "handshaking"} /\ cn[d] \in {"closed", conn[d]}
    BY <1>1, <1>3 DEF AttemptInv, InFlight
  <2>2. QuietInv' /\ NothingOutlivesLink' /\ InFlight' = {}
    BY <1>1, <1>2, <1>3, <2>1, ReconnectOwned DEF Owned
  <2>3. PairInv'
    BY <1>2, <2>2, PairFrame DEF Owned
  <2>4. QED
    BY <2>2, <2>3 DEF Owned
<1>4. CASE ~(c \in bound /\ ~stopped /\ ~connecting) /\ OnlyConn(cn)
  <2>1. /\ conn' = cn
        /\ UNCHANGED <<state, stopped, lateEnd, socket, bound, keepAlive, pendingIq, rot, qrTimer>>
    BY <1>4 DEF OnlyConn, drvVars
  <2>2. ~Orderly /\ ~Orderly'
    BY <1>2, <1>4, <2>1, OpenIsLink DEF Owned, Orderly
  <2>3. InFlight' \subseteq InFlight /\ Live' \subseteq Live
    BY <1>1, <2>1 DEF InFlight, Live
  <2>4. LinkUp' => LinkUp
    BY <1>1, <2>1 DEF LinkUp
  <2>5. QuietInv'
    BY <1>2, <2>1, <2>3 DEF Owned, QuietInv
  <2>6. NothingOutlivesLink'
    BY <2>1, <2>2, <2>4 DEF Owned, NothingOutlivesLink
  <2>7. PairInv'
    BY <1>2, <2>3, PairFrame DEF Owned
  <2>8. QED
    BY <2>5, <2>6, <2>7 DEF Owned
<1>5. QED
  BY <1>3, <1>4 DEF Drop

\* A rotation timer armed by a connection that is the link, for a device unpaired.
LEMMA RotateOwned ==
    ASSUME IInv, Owned, NEW c \in Conns, NEW n \in Int, Rotate(c, n),
           conn[c] = "open" \/ rot[c] # NoTimer, ~registered \/ rot[c] # NoTimer,
           UNCHANGED <<expectRestart, login, registered, again>>
    PROVE  Owned'
<1> USE DEF IInv, TypeOK, LinkType
<1>1. Orderly => /\ LinkUp /\ socket = c /\ ~registered /\ ~stopped
                 /\ \A d \in Conns : rot[d] # NoTimer => d = c /\ qrTimer = c
  <2>1. Orderly /\ rot[c] # NoTimer => LinkUp /\ socket = c /\ ~registered
    BY DEF Owned, NothingOutlivesLink
  <2>2. Orderly => conn[c] = "open"
    BY <2>1 DEF LinkUp
  <2>3. Orderly => LinkUp /\ socket = c /\ ~stopped
    BY <2>2, OpenIsLink DEF Owned
  <2>4. Orderly => \A d \in Conns : rot[d] # NoTimer => d = c /\ qrTimer = c
    BY <2>3 DEF Owned, NothingOutlivesLink
  <2>5. QED
    BY <2>1, <2>3, <2>4
<1>2. CASE n > 0 /\ rot' = [rot EXCEPT ![c] = n - 1] /\ qrTimer' = c
           /\ UNCHANGED <<drvVars, socket, conn, bound, keepAlive, pendingIq, restarts, lateEnd>>
  <2>1. /\ UNCHANGED <<stopped, state, lateEnd, socket, conn, bound, keepAlive, pendingIq>>
        /\ InFlight' = InFlight /\ Live' = Live
    BY <1>2 DEF drvVars, InFlight, Live
  <2>2. QuietInv'
    BY <2>1 DEF Owned, QuietInv
  <2>3. PairInv'
    BY <2>1, PairFrame DEF Owned
  <2>4. (LinkUp' <=> LinkUp) /\ (Orderly' <=> Orderly)
    BY <2>1 DEF LinkUp, Orderly
  <2>5. Orderly => \A d \in Conns : rot'[d] # NoTimer => d = c
    BY <1>1, <1>2
  <2>6. NothingOutlivesLink'
    BY <1>1, <1>2, <2>1, <2>4, <2>5 DEF Owned, NothingOutlivesLink
  <2>7. QED
    BY <2>2, <2>3, <2>6 DEF Owned
<1>3. CASE n = 0 /\ EndFrom([rot EXCEPT ![c] = NoTimer], qrTimer)
  <2>1. [rot EXCEPT ![c] = NoTimer] \in [Conns -> Int]
    BY DEF NoTimer
  <2>2. Orderly => \A d \in Conns : [rot EXCEPT ![c] = NoTimer][d] # NoTimer => qrTimer = d
    BY <1>1
  <2>3. QED
    BY <1>3, <2>1, <2>2, EndFromOwned
<1>4. QED
  BY <1>2, <1>3 DEF Rotate

\* Stanzas that pair the device.
LEMMA PairOwned ==
    ASSUME IInv, Owned, NEW c \in Conns,
           HandlePairDevice(c) \/ PairRejected(c) \/ HandlePairSuccess(c)
    PROVE  Owned'
<1> USE DEF IInv, TypeOK, LinkType
<1>1. Cleared(rot) \in [Conns -> Int]
  BY DEF Cleared, NoTimer
<1>2. Orderly => \A d \in Conns : Cleared(rot)[d] = NoTimer
  BY DEF Cleared, Owned, NothingOutlivesLink
<1>3. CASE HandlePairDevice(c)
  <2>1. PICK n \in 0..MaxRefs : Rotate(c, n)
    BY <1>3 DEF HandlePairDevice
  <2>2. n \in Int
    BY RefsAssumption
  <2>3. QED
    BY <1>3, <2>1, <2>2, RotateOwned DEF HandlePairDevice, Receives
<1>4. CASE PairRejected(c)
  <2>1. conn[c] = "open" /\ EndFrom(Cleared(rot), None)
    BY <1>4 DEF PairRejected, Scanned, Receives
  <2>2. UNCHANGED <<expectRestart, login, registered, again>>
    BY <1>4 DEF PairRejected
  <2>3. QED
    BY <1>1, <1>2, <2>1, <2>2, EndFromOwned
<1>5. CASE HandlePairSuccess(c)
  <2>1. conn[c] = "open" /\ registered' = TRUE /\ login' = login /\ again' = again
    BY <1>5 DEF HandlePairSuccess, Scanned, Receives
  <2>2. CASE EndFrom(Cleared(rot), None) /\ UNCHANGED expectRestart
    BY <1>1, <1>2, <2>1, <2>2, EndFromOwned
  <2>3. CASE /\ LinkUp /\ expectRestart' = TRUE /\ rot' = Cleared(rot) /\ qrTimer' = None
             /\ UNCHANGED <<drvVars, socket, conn, bound, keepAlive, pendingIq, restarts, lateEnd>>
    <3>1. /\ UNCHANGED <<stopped, state, lateEnd, socket, conn, bound, keepAlive, pendingIq>>
          /\ InFlight' = InFlight /\ Live' = Live
      BY <2>3 DEF drvVars, InFlight, Live
    <3>2. QuietInv'
      BY <2>1, <3>1 DEF Owned, QuietInv
    <3>3. (LinkUp' <=> LinkUp) /\ (Orderly' <=> Orderly)
      BY <2>1, <3>1 DEF LinkUp, Orderly
    <3>4. NothingOutlivesLink'
      BY <1>2, <2>1, <2>3, <3>1, <3>3 DEF Owned, NothingOutlivesLink
    <3>5. ~again => InFlight = {}
      <4>1. ~again => Live = {c}
        BY <2>1 DEF OneLink, Live
      <4>2. QED
        BY <2>1, <4>1 DEF InFlight, Live
    <3>6. PairInv'
      BY <2>1, <3>1, <3>5 DEF PairInv, RestartLogsIn
    <3>7. QED
      BY <3>2, <3>4, <3>6 DEF Owned
  <2>4. QED
    BY <1>5, <2>2, <2>3 DEF HandlePairSuccess
<1>6. QED
  BY <1>3, <1>4, <1>5

LEMMA LoginOwned ==
    ASSUME IInv, Owned, NEW c \in Conns, HandleLoginSuccess(c)
    PROVE  Owned'
<1> USE DEF IInv, TypeOK, LinkType
<1>1. /\ c \in bound /\ conn[c] = "open" /\ c \in login
      /\ keepAlive' = TRUE /\ expectRestart' = FALSE
      /\ UNCHANGED <<stopped, lateEnd, again, socket, conn, bound, pendingIq, rot, qrTimer,
                     login, registered>>
  BY Zenon DEF HandleLoginSuccess, Receives, histVars
<1>2. InFlight' = InFlight /\ Live' = Live /\ (LinkUp' <=> LinkUp) /\ (Orderly' <=> Orderly)
  BY <1>1 DEF InFlight, Live, LinkUp, Orderly
<1>3. Orderly => LinkUp /\ socket = c
  BY <1>1, OpenIsLink DEF Owned
<1>4. ~ (stopped /\ ~lateEnd)
  BY <1>1 DEF Owned, QuietInv
<1>5. QuietInv'
  BY <1>1, <1>4 DEF QuietInv
<1>6. PairInv'
  BY <1>1 DEF PairInv, RestartLogsIn
<1>7. NothingOutlivesLink'
  BY <1>1, <1>2, <1>3 DEF Owned, NothingOutlivesLink
<1>8. QED
  BY <1>5, <1>6, <1>7 DEF Owned

LEMMA ErrorOwned ==
    ASSUME IInv, Owned, NEW c \in Conns, NEW code \in Codes,
           HandleStreamError(c, code) \/ HandleFailure(c, code)
    PROVE  Owned'
<1> USE DEF IInv, TypeOK, LinkType
<1>1. conn[c] = "open" /\ UNCHANGED <<connecting, expectRestart, login, registered, again>>
  BY DEF HandleStreamError, HandleFailure, Receives
<1>2. CASE End(conn, rot)
  <2>1. Orderly => \A d \in Conns : rot[d] # NoTimer => qrTimer = d
    BY DEF Owned, NothingOutlivesLink
  <2>2. QuietInv' /\ NothingOutlivesLink' /\ InFlight' \subseteq InFlight
    BY <1>1, <1>2, <2>1, EndOwned DEF Owned
  <2>3. QED
    BY <1>1, <2>2, PairFrame DEF Owned
<1>3. CASE ~connecting /\ \E im \in BOOLEAN : Reconnect(conn, im)
  <2>1. \A d \in Conns : conn[d] \notin {"dialing", "handshaking"}
    BY <1>3 DEF AttemptInv, InFlight
  <2>2. QuietInv' /\ NothingOutlivesLink' /\ InFlight' = {}
    BY <1>1, <1>3, <2>1, ReconnectOwned DEF Owned
  <2>3. QED
    BY <1>1, <2>2, PairFrame DEF Owned
<1>4. QED
  BY <1>2, <1>3 DEF HandleStreamError, HandleFailure

LEMMA IqOwned ==
    ASSUME IInv, Owned, NEW p, OnlyIq(p), p \subseteq pendingIq \/ LinkUp
    PROVE  Owned'
<1>1. UNCHANGED <<stopped, state, lateEnd, again, socket, conn, bound, keepAlive, rot, qrTimer,
                  expectRestart, login, registered>>
  BY DEF OnlyIq, drvVars, histVars
<1>2. InFlight' = InFlight /\ Live' = Live /\ (LinkUp' <=> LinkUp) /\ (Orderly' <=> Orderly)
  BY <1>1 DEF InFlight, Live, LinkUp, Orderly
<1>3. pendingIq' \subseteq pendingIq \/ LinkUp
  BY DEF OnlyIq
<1>4. QuietInv'
  BY <1>1, <1>2, <1>3 DEF Owned, QuietInv, LinkUp
<1>5. PairInv'
  BY <1>1, <1>2, PairFrame DEF Owned
<1>6. NothingOutlivesLink'
  BY <1>1, <1>2, <1>3 DEF Owned, NothingOutlivesLink
<1>7. QED
  BY <1>4, <1>5, <1>6 DEF Owned

LEMMA NextOwned == IInv /\ Owned /\ [Next]_vars => Owned'
<1> SUFFICES ASSUME IInv, Owned, [Next]_vars PROVE Owned'
  OBVIOUS
<1>1. CASE AutoStart
  <2>1. auto /\ again' = again
    BY <1>1, Zenon DEF AutoStart
  <2>2. ASSUME NEW c \in Conns, Start(c) PROVE Owned'
    <3>1. Live = {}
      BY <2>1, <2>2 DEF Start, IInv, TimerInv, AttemptInv, InFlight, Live
    <3>2. QED
      BY <2>1, <2>2, <3>1, StartOwned
  <2>3. QED
    BY <1>1, <2>1, <2>2, StartReturnsOwned DEF AutoStart
<1>2. CASE UserStart
  <2>1. PICK c \in Conns : Start(c)
    BY <1>2 DEF UserStart
  <2>2. (again => again') /\ (~again' => auto)
    BY <1>2, Zenon DEF UserStart
  <2>3. auto => Live = {}
    BY <2>1 DEF Start, IInv, TimerInv, AttemptInv, InFlight, Live
  <2>4. QED
    BY <2>1, <2>2, <2>3, StartOwned
<1>3. CASE RestartTimer
  <2>1. restarts > 0 /\ again' = again
    BY <1>3 DEF RestartTimer
  <2>2. ASSUME NEW c \in Conns, Start(c) PROVE Owned'
    <3>1. ~again => Live = {}
      BY <2>1 DEF IInv, TimerInv
    <3>2. QED
      BY <2>1, <2>2, <3>1, StartOwned
  <2>3. QED
    BY <1>3, <2>1, <2>2, StartReturnsOwned DEF RestartTimer
<1>4. CASE UserEnd
  <2>1. End(conn, rot) /\ UNCHANGED <<expectRestart, login, registered, again>>
    BY <1>4 DEF UserEnd
  <2>2. Orderly => \A d \in Conns : rot[d] # NoTimer => qrTimer = d
    BY DEF Owned, NothingOutlivesLink
  <2>3. rot \in [Conns -> Int]
    BY DEF IInv, TypeOK, LinkType
  <2>4. QuietInv' /\ NothingOutlivesLink' /\ InFlight' \subseteq InFlight
    BY <2>1, <2>2, <2>3, EndOwned DEF Owned
  <2>5. QED
    BY <2>1, <2>4, PairFrame DEF Owned
<1>5. ASSUME NEW c \in Conns, Attempt(c) PROVE Owned'
  BY <1>5, DialOkOwned, AttemptFailsOwned, HandshakeOkOwned, DropOwned
     DEF Attempt, DialFail, HandshakeFail, InFlight
<1>6. ASSUME NEW c \in Conns, QrTimer(c) PROVE Owned'
  <2>1. rot[c] # NoTimer /\ Rotate(c, rot[c]) /\ UNCHANGED <<expectRestart, login, registered, again>>
    BY <1>6 DEF QrTimer
  <2>2. rot[c] \in Int
    BY DEF IInv, TypeOK, LinkType
  <2>3. QED
    BY <2>1, <2>2, RotateOwned
<1>7. ASSUME NEW c \in Conns, HandleNode(c) PROVE Owned'
  <2>1. CASE \E i \in Iqs : HandleIqAnswer(c, i)
    BY <2>1, IqOwned DEF HandleIqAnswer
  <2>2. QED
    BY <1>7, <2>1, PairOwned, LoginOwned, ErrorOwned DEF HandleNode
<1>8. ASSUME NEW i \in Iqs, Query(i) \/ IqTimeout(i) PROVE Owned'
  BY <1>8, IqOwned DEF Query, IqTimeout
<1>9. CASE UNCHANGED vars
  BY <1>9 DEF vars, drvVars, linkVars, histVars, Owned, QuietInv, PairInv, RestartLogsIn,
     NothingOutlivesLink, Orderly, LinkUp, InFlight, Live
<1>10. QED
  BY <1>1, <1>2, <1>3, <1>4, <1>5, <1>6, <1>7, <1>8, <1>9 DEF Next

LEMMA OwnedInductive == Spec => []Owned
<1>1. Init => Owned
  BY InitOwned
<1>2. IInv /\ Owned /\ [Next]_vars => Owned'
  BY NextOwned
<1>3. QED
  BY <1>1, <1>2, Inductive, PTL DEF Spec

\* Nothing of a connection outlives it or runs without it: queries, the keepalive, the
\* "open" state and the QR rotation timers (teardown and every handler that calls it).
THEOREM NothingOutlivesLinkHolds == Spec => []NothingOutlivesLink
<1>1. Owned => NothingOutlivesLink
  BY DEF Owned
<1>2. QED
  BY <1>1, OwnedInductive, PTL

\* end() leaves nothing behind but a dial it could not cancel.
THEOREM StoppedIsQuietHolds == Spec => []StoppedIsQuiet
<1>1. Owned => StoppedIsQuiet
  BY DEF Owned, QuietInv, StoppedIsQuiet
<1>2. QED
  BY <1>1, OwnedInductive, PTL

\* No attempt is made with a registration payload while the restart after a pairing is
\* expected (handlePairSuccess stores the credentials before anything can dial).
THEOREM RestartLogsInHolds == Spec => []RestartLogsIn
<1>1. Owned => RestartLogsIn
  BY DEF Owned, PairInv
<1>2. QED
  BY <1>1, OwnedInductive, PTL
============================================================================
