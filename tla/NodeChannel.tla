---------------------------- MODULE NodeChannel ----------------------------
(* What noise/socket.ts promises the layers above it: between the two ends  *)
(* of one connection a channel of nodes in each direction.  Nodes arrive in *)
(* the order in which they were sent, each once and none that was not sent, *)
(* whatever pieces the transport delivers; an end that is closed neither    *)
(* sends nor reads; and while both ends stay open everything arrives.       *)
EXTENDS Integers, Sequences

CONSTANTS
    Value            \* the nodes, as they are read

VARIABLES
    open,            \* the ends that are not closed
    sent,            \* end -> the nodes it sent
    got              \* end -> the nodes it read

cvars == <<open, sent, got>>

Ends == {"client", "server"}
Other(e) == IF e = "client" THEN "server" ELSE "client"

CInit ==
    /\ open = Ends
    /\ sent = [e \in Ends |-> <<>>]
    /\ got = [e \in Ends |-> <<>>]

CSend(e, n) ==
    /\ e \in open
    /\ sent' = [sent EXCEPT ![e] = Append(@, n)]
    /\ UNCHANGED <<open, got>>

\* One or more nodes are read at once; the end may close over the last of them.
CRead(e, n) ==
    /\ e \in open
    /\ got' = [got EXCEPT ![e] = SubSeq(sent[Other(e)], 1, n)]
    /\ open' \in {open, open \ {e}}
    /\ UNCHANGED sent

CClose(e) ==
    /\ open' = open \ {e}
    /\ UNCHANGED <<sent, got>>

CNext ==
    \E e \in Ends :
        \/ \E n \in Value : CSend(e, n)
        \/ \E n \in (Len(got[e]) + 1)..Len(sent[Other(e)]) : CRead(e, n)
        \/ CClose(e)

Arrived(e) == open = Ends => got[e] = sent[Other(e)]

CSpec == CInit /\ [][CNext]_cvars /\ \A e \in Ends : []<>Arrived(e)
=============================================================================
