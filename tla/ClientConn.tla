---------------------------- MODULE ClientConn ----------------------------
(* The connection driver of openWhatsApp (client.ts) over connectOni, the  *)
(* NoiseSocket and the WebSocket connector: dial, handshake, QR pairing,   *)
(* login, reconnection with a retry budget, restart 515 and end().         *)
(*                                                                         *)
(* JavaScript runs one callback at a time, so an action is one callback    *)
(* with the microtasks it settles.  Stanza payloads are abstracted to the  *)
(* outcome the driver branches on.  Listeners are assumed not to throw.    *)
EXTENDS Integers, FiniteSets

CONSTANTS
    Conns,        \* identities of connection attempts and of their sockets
    None,         \* `undefined`
    Iqs,          \* ids of concurrent query() calls
    MaxRetries,   \* opts.maxRetries
    MaxRefs,      \* bound: <ref>s of one <pair-device>
    MaxTimers     \* bound: restart timers pending before an extra start()

ASSUME ConnsAssumption == None \notin Conns
ASSUME RetriesAssumption == MaxRetries \in Nat
ASSUME RefsAssumption == MaxRefs \in Nat
ASSUME TimersAssumption == MaxTimers \in Nat

VARIABLES
    state,          \* what conn.state returns
    stopped,        \* end() ran
    retries,        \* automatic reconnections since the last handshake
    connecting,     \* an attempt is in flight
    expectRestart,  \* paired, <success> not seen yet
    socket,         \* the current NoiseSocket
    conn,           \* status of each attempt's transport and NoiseSocket
    bound,          \* sockets whose listeners the driver has not removed
    login,          \* attempts whose ClientPayload logs a registered account in
    keepAlive,      \* the keepalive interval is armed
    rot,            \* <ref>s left for each armed QR rotation timer
    qrTimer,        \* the rotation timer the driver remembers
    pendingIq,      \* queries waiting for an answer
    restarts,       \* pending setTimeout(start) callbacks
    auto,           \* the auto-start microtask has not run
    registered,     \* creds.me is set
    again,          \* history: start() dialled although the driver was running
    lateEnd         \* history: end() ran while a transport was being dialled

drvVars == <<state, stopped, retries>>
linkVars == <<socket, conn, bound, keepAlive, rot, qrTimer, pendingIq>>
histVars == <<again, lateEnd>>
vars == <<drvVars, connecting, expectRestart, linkVars, login, restarts, auto,
          registered, histVars>>

NoTimer == -1
States == {"connecting", "open", "close"}
Status == {"closed", "dialing", "handshaking", "open"}
Codes == {"515", "logout", "other"}

LinkUp == socket # None /\ conn[socket] = "open"
InFlight == {c \in Conns : conn[c] \in {"dialing", "handshaking"}}
Live == {c \in Conns : conn[c] # "closed"}

\* An identity can be used again once nothing refers to its last attempt.
Unused(c) == conn[c] = "closed" /\ c # socket /\ c \notin bound /\ rot[c] = NoTimer

Init ==
    /\ state = "connecting" /\ stopped = FALSE /\ retries = 0
    /\ connecting = FALSE /\ expectRestart = FALSE
    /\ socket = None /\ bound = {} /\ login = {}
    /\ conn = [c \in Conns |-> "closed"]
    /\ keepAlive = FALSE
    /\ rot = [c \in Conns |-> NoTimer] /\ qrTimer = None
    /\ pendingIq = {} /\ restarts = 0 /\ auto = TRUE
    /\ registered \in BOOLEAN
    /\ again = FALSE /\ lateEnd = FALSE

----------------------------------------------------------------------------
(* teardown, end, reconnect.  `cn` and `rt` are conn and rot as the calling  *)
(* callback left them.                                                      *)

\* Mutant: the table keeps `undefined` where a cleared timer was.
ClearedToUndefined(rt) == [c \in Conns |-> IF c = qrTimer THEN None ELSE rt[c]]

Cleared(rt) == [c \in Conns |-> IF c = qrTimer THEN NoTimer ELSE rt[c]]

\* Mutants of teardown: the socket stays open; the queries stay pending.
TeardownLeavesSocket(cn, rt) ==
    /\ keepAlive' = FALSE /\ rot' = Cleared(rt) /\ qrTimer' = None
    /\ pendingIq' = {} /\ bound' = {} /\ conn' = cn /\ socket' = None
TeardownLeavesQueries(cn, rt) ==
    /\ keepAlive' = FALSE /\ rot' = Cleared(rt) /\ qrTimer' = None
    /\ bound' = {} /\ socket' = None
    /\ conn' = [c \in Conns |-> IF c = socket THEN "closed" ELSE cn[c]]
    /\ UNCHANGED pendingIq

Teardown(cn, rt) ==
    /\ keepAlive' = FALSE
    /\ rot' = Cleared(rt)
    /\ qrTimer' = None
    /\ pendingIq' = {}
    /\ bound' = {}
    /\ conn' = [c \in Conns |-> IF c = socket THEN "closed" ELSE cn[c]]
    /\ socket' = None

\* Mutant: end() forgets the keepalive interval.
EndKeepsPinging(cn, rt) ==
    /\ ~stopped /\ stopped' = TRUE /\ state' = "close"
    /\ lateEnd' = (lateEnd \/ \E c \in Conns : cn[c] = "dialing")
    /\ rot' = Cleared(rt) /\ qrTimer' = None /\ pendingIq' = {} /\ bound' = {}
    /\ conn' = [c \in Conns |-> IF c = socket THEN "closed" ELSE cn[c]]
    /\ socket' = None
    /\ UNCHANGED <<retries, restarts, keepAlive>>

\* end(): a dial in progress has no socket to close, and goes on.
End(cn, rt) ==
    /\ ~stopped
    /\ stopped' = TRUE
    /\ state' = "close"
    /\ lateEnd' = (lateEnd \/ \E c \in Conns : cn[c] = "dialing")
    /\ Teardown(cn, rt)
    /\ UNCHANGED <<retries, restarts>>

\* Mutant of reconnect: no failure is counted.
ReconnectForFree(cn, immediate) ==
    /\ ~stopped /\ Teardown(cn, rot)
    /\ restarts' = restarts + 1 /\ state' = "connecting"
    /\ UNCHANGED <<lateEnd, stopped, retries>>

\* reconnect(0) and any reconnection while a restart is expected are free;
\* every other one is paid from the retry budget.
Reconnect(cn, immediate) ==
    /\ ~stopped
    /\ Teardown(cn, rot)
    /\ UNCHANGED lateEnd
    /\ \/ /\ immediate \/ expectRestart
          /\ restarts' = restarts + 1
          /\ state' = "connecting"
          /\ UNCHANGED <<stopped, retries>>
       \/ /\ ~immediate /\ ~expectRestart /\ retries < MaxRetries
          /\ retries' = retries + 1
          /\ restarts' = restarts + 1
          /\ state' = "connecting"
          /\ UNCHANGED stopped
       \/ /\ ~immediate /\ ~expectRestart /\ retries >= MaxRetries
          /\ retries' = retries + 1
          /\ stopped' = TRUE
          /\ state' = "close"
          /\ UNCHANGED restarts

\* A callback that ends with the connection table changed and nothing else done.
OnlyConn(cn) ==
    /\ conn' = cn
    /\ UNCHANGED <<drvVars, socket, bound, keepAlive, rot, qrTimer, pendingIq,
                   restarts, lateEnd>>

----------------------------------------------------------------------------
(* start(), and its three callers: the microtask, the user, the timer. *)

Start(c) ==
    /\ ~stopped /\ ~connecting
    /\ Unused(c)
    /\ connecting' = TRUE
    /\ conn' = [conn EXCEPT ![c] = "dialing"]
    /\ login' = IF registered THEN login \union {c} ELSE login \ {c}
    /\ UNCHANGED <<drvVars, expectRestart, socket, bound, keepAlive, rot, qrTimer,
                   pendingIq, registered, lateEnd>>

\* With an attempt in flight, or after end(), start() only returns the promise.
StartReturns ==
    /\ stopped \/ connecting
    /\ UNCHANGED <<drvVars, connecting, expectRestart, linkVars, login, registered,
                   lateEnd>>

AutoStart ==
    /\ auto
    /\ auto' = FALSE
    /\ StartReturns \/ \E c \in Conns : Start(c)
    /\ UNCHANGED <<restarts, again>>

UserStart ==
    /\ restarts < MaxTimers
    /\ \E c \in Conns : Start(c)
    /\ again' = (again \/ ~auto)
    /\ UNCHANGED <<restarts, auto>>

RestartTimer ==
    /\ restarts > 0
    /\ restarts' = restarts - 1
    /\ StartReturns \/ \E c \in Conns : Start(c)
    /\ UNCHANGED <<auto, again>>

UserEnd ==
    /\ End(conn, rot)
    /\ UNCHANGED <<connecting, expectRestart, login, auto, registered, again>>

----------------------------------------------------------------------------
(* The attempt: connector, NoiseSocket handshake, and the continuations of *)
(* connectOni's promise.  The microtask runs before any network callback.  *)

DialOk(c) ==
    /\ ~auto /\ conn[c] = "dialing"
    /\ conn' = [conn EXCEPT ![c] = "handshaking"]
    /\ socket' = c
    /\ bound' = bound \union {c}
    /\ UNCHANGED <<drvVars, connecting, expectRestart, login, keepAlive, rot, qrTimer,
                   pendingIq, restarts, auto, registered, histVars>>

\* Mutant: the rejection leaves `connecting` set, so reconnect() returns.
AttemptFailsForGood(c) ==
    /\ OnlyConn([conn EXCEPT ![c] = "closed"])
    /\ UNCHANGED <<connecting, expectRestart, login, auto, registered, again>>

\* The promise rejects: catch() reconnects unless end() ran.
AttemptFails(c) ==
    LET cn == [conn EXCEPT ![c] = "closed"]
    IN  /\ connecting' = FALSE
        /\ Reconnect(cn, FALSE) \/ (stopped /\ OnlyConn(cn))
        /\ UNCHANGED <<expectRestart, login, auto, registered, again>>

DialFail(c) == ~auto /\ conn[c] = "dialing" /\ AttemptFails(c)

HandshakeFail(c) == conn[c] = "handshaking" /\ AttemptFails(c)

HandshakeOk(c) ==
    /\ conn[c] = "handshaking"
    /\ conn' = [conn EXCEPT ![c] = "open"]
    /\ connecting' = FALSE
    /\ retries' = IF expectRestart THEN retries ELSE 0
    /\ keepAlive' = TRUE
    /\ UNCHANGED <<state, stopped, expectRestart, login, socket, bound, rot, qrTimer,
                   pendingIq, restarts, auto, registered, histVars>>

\* The transport closes, a frame does not decrypt or a handler throws.  A socket torn
\* down has no listener, and reconnect() returns while an attempt is in flight.
Drop(c) ==
    LET cn == [conn EXCEPT ![c] = "closed"]
        heard == c \in bound /\ ~stopped /\ ~connecting
    IN  /\ conn[c] = "open"
        /\ (heard /\ Reconnect(cn, FALSE)) \/ (~heard /\ OnlyConn(cn))
        /\ UNCHANGED <<connecting, expectRestart, login, auto, registered, again>>

----------------------------------------------------------------------------
(* handleNode: stanzas of an open socket that is still listened to. *)

Receives(c) == c \in bound /\ conn[c] = "open"

\* end() called by a callback that left the timers as `rt` and `qt`.
EndFrom(rt, qt) ==
    \/ End(conn, rt)
    \/ /\ stopped
       /\ rot' = rt
       /\ qrTimer' = qt
       /\ UNCHANGED <<drvVars, socket, conn, bound, keepAlive, pendingIq, restarts,
                      lateEnd>>

\* rotate() with `left` refs: show the next one and arm the timer, or give up.
Rotate(c, left) ==
    \/ /\ left > 0
       /\ rot' = [rot EXCEPT ![c] = left - 1]
       /\ qrTimer' = c
       /\ UNCHANGED <<drvVars, socket, conn, bound, keepAlive, pendingIq, restarts,
                      lateEnd>>
    \/ left = 0 /\ EndFrom([rot EXCEPT ![c] = NoTimer], qrTimer)

\* The server offers refs once per connection of an unregistered device.
HandlePairDevice(c) ==
    /\ Receives(c) /\ c \notin login /\ ~registered /\ rot[c] = NoTimer
    /\ \E n \in 0..MaxRefs : Rotate(c, n)
    /\ UNCHANGED <<connecting, expectRestart, login, auto, registered, again>>

QrTimer(c) ==
    /\ rot[c] # NoTimer
    /\ Rotate(c, rot[c])
    /\ UNCHANGED <<connecting, expectRestart, login, auto, registered, again>>

\* The phone scanned a ref that was on screen.
Scanned(c) == Receives(c) /\ c \notin login /\ rot[c] # NoTimer

\* configureSuccessfulPairing throws (HMAC, signature): the driver ends.
PairRejected(c) ==
    /\ Scanned(c)
    /\ EndFrom(Cleared(rot), None)
    /\ UNCHANGED <<connecting, expectRestart, login, auto, registered, again>>

\* Mutant of handlePairSuccess: the credentials are not kept.
PairSuccessForgetsCreds(c) ==
    /\ Scanned(c) /\ LinkUp
    /\ expectRestart' = TRUE /\ rot' = Cleared(rot) /\ qrTimer' = None
    /\ UNCHANGED <<drvVars, socket, conn, bound, keepAlive, pendingIq, restarts,
                   registered, lateEnd, connecting, login, auto, again>>

\* Paired: the credentials are in place before the reply is sent, and a reply
\* that cannot be sent ends the driver.
HandlePairSuccess(c) ==
    /\ Scanned(c)
    /\ registered' = TRUE
    /\ \/ /\ LinkUp
          /\ expectRestart' = TRUE
          /\ rot' = Cleared(rot)
          /\ qrTimer' = None
          /\ UNCHANGED <<drvVars, socket, conn, bound, keepAlive, pendingIq, restarts,
                         lateEnd>>
       \/ EndFrom(Cleared(rot), None) /\ UNCHANGED expectRestart
    /\ UNCHANGED <<connecting, login, auto, again>>

\* <success>.  The uploads and syncs it starts are queries like any other.
HandleLoginSuccess(c) ==
    /\ Receives(c) /\ c \in login
    /\ retries' = 0
    /\ expectRestart' = FALSE
    /\ state' = "open"
    /\ keepAlive' = TRUE
    /\ UNCHANGED <<stopped, connecting, socket, conn, bound, rot, qrTimer, pendingIq,
                   login, restarts, auto, registered, histVars>>

\* <stream:error>: a restart wins over a logout code while one is expected.
HandleStreamError(c, code) ==
    /\ Receives(c)
    /\ \/ /\ code = "515" \/ expectRestart
          /\ ~connecting /\ Reconnect(conn, TRUE)
       \/ /\ code = "logout" /\ ~expectRestart
          /\ End(conn, rot)
       \/ /\ code = "other" /\ ~expectRestart
          /\ ~connecting /\ Reconnect(conn, FALSE)
    /\ UNCHANGED <<connecting, expectRestart, login, auto, registered, again>>

\* <failure> and <xmlstreamend>.
HandleFailure(c, code) ==
    /\ Receives(c)
    /\ \/ code = "logout" /\ End(conn, rot)
       \/ code = "other" /\ ~connecting /\ Reconnect(conn, FALSE)
    /\ UNCHANGED <<connecting, expectRestart, login, auto, registered, again>>

----------------------------------------------------------------------------
(* query(): the promise of `i` settles when `i` leaves pendingIq. *)

OnlyIq(p) ==
    /\ pendingIq' = p
    /\ UNCHANGED <<drvVars, connecting, expectRestart, socket, conn, bound, keepAlive,
                   rot, qrTimer, login, restarts, auto, registered, histVars>>

\* send() throws, and the query is rejected at once, unless the socket is open.
Query(i) == LinkUp /\ i \notin pendingIq /\ OnlyIq(pendingIq \union {i})

HandleIqAnswer(c, i) == Receives(c) /\ i \in pendingIq /\ OnlyIq(pendingIq \ {i})

IqTimeout(i) == i \in pendingIq /\ OnlyIq(pendingIq \ {i})

----------------------------------------------------------------------------

Attempt(c) == DialOk(c) \/ DialFail(c) \/ HandshakeOk(c) \/ HandshakeFail(c) \/ Drop(c)

HandleNode(c) ==
    \/ HandlePairDevice(c) \/ PairRejected(c) \/ HandlePairSuccess(c)
    \/ HandleLoginSuccess(c)
    \/ \E code \in Codes : HandleStreamError(c, code) \/ HandleFailure(c, code)
    \/ \E i \in Iqs : HandleIqAnswer(c, i)

Next ==
    \/ AutoStart \/ UserStart \/ RestartTimer \/ UserEnd
    \/ \E c \in Conns : Attempt(c) \/ QrTimer(c) \/ HandleNode(c)
    \/ \E i \in Iqs : Query(i) \/ IqTimeout(i)

\* Timers and microtasks fire, a dial ends (connector timeout), and the network
\* answers a handshake or closes: the code has no timeout of its own for that.
Fairness ==
    /\ WF_vars(AutoStart) /\ WF_vars(RestartTimer)
    /\ \A c \in Conns : WF_vars(DialOk(c) \/ DialFail(c))
    /\ \A c \in Conns : WF_vars(HandshakeOk(c) \/ HandshakeFail(c))
    /\ \A c \in Conns : WF_vars(QrTimer(c))
    /\ \A i \in Iqs : WF_vars(IqTimeout(i))

Spec == Init /\ [][Next]_vars
FairSpec == Spec /\ Fairness

----------------------------------------------------------------------------

\* Neither start() on a running driver nor end() on a dialling one has happened.
Orderly == ~again /\ ~lateEnd

LinkType ==
    /\ socket \in Conns \union {None}
    /\ conn \in [Conns -> Status]
    /\ bound \subseteq Conns
    /\ keepAlive \in BOOLEAN
    /\ rot \in [Conns -> Int] /\ qrTimer \in Conns \union {None}
    /\ pendingIq \subseteq Iqs

\* The variables hold what the closure of openWhatsApp can hold.
TypeOK ==
    /\ LinkType
    /\ state \in States /\ stopped \in BOOLEAN /\ retries \in Nat
    /\ connecting \in BOOLEAN /\ expectRestart \in BOOLEAN
    /\ login \subseteq Conns
    /\ restarts \in Nat /\ auto \in BOOLEAN /\ registered \in BOOLEAN
    /\ again \in BOOLEAN /\ lateEnd \in BOOLEAN

\* A driver that has not ended always has something that will bring it back: the
\* microtask, a restart timer, an attempt in flight, or an open socket it listens to.
\* (every early return of start and reconnect relies on one of the others)
NeverStranded ==
    stopped \/ auto \/ restarts > 0 \/ InFlight # {} \/ (LinkUp /\ socket \in bound)

\* Unless start() is called on a running driver, no two attempts are alive, and the
\* one that got past the dial is the current socket, listened to.
OneLink ==
    ~again => \A c \in Live : /\ Live = {c}
                              /\ conn[c] # "dialing" => c = socket /\ c \in bound

\* Nothing of a connection outlives it or runs without it: a query waits only on an
\* open socket, "open" is said only over one that logged in, it is kept alive (also
\* while the QR is on screen) and nothing else is, and a rotation timer that is armed
\* is the one the driver can clear and shows refs of the open socket of a device
\* still unpaired.  (Teardown, the timers and every handler that may call it.)
NothingOutlivesLink ==
    /\ LinkUp => keepAlive
    /\ Orderly =>
          /\ pendingIq # {} => LinkUp
          /\ state = "open" => LinkUp /\ socket \in login
          /\ keepAlive => LinkUp
          /\ \A c \in Conns : rot[c] # NoTimer => /\ qrTimer = c /\ socket = c
                                                 /\ LinkUp /\ ~registered

\* end() leaves nothing behind but a dial it could not cancel.
StoppedIsQuiet ==
    stopped /\ ~lateEnd => /\ ~keepAlive /\ pendingIq = {} /\ state = "close"
                           /\ ~again => Live = {}

\* Outside a restart after pairing, a driver without a link gets one or ends: it
\* neither stays down for good nor retries for ever.
LinkOrEnd == (~LinkUp /\ ~expectRestart) ~> (LinkUp \/ stopped)

\* The attempts made after a pairing log the new account in: none is dialled with a
\* registration payload while the restart is expected.
RestartLogsIn == expectRestart /\ ~again => InFlight \subseteq login

----------------------------------------------------------------------------
(* What a comment of the source says without conditions. *)

\* end() "closes and does not reconnect": the state stays "close" after it.
EndIsFinal == stopped => state = "close"
============================================================================
