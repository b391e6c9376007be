---------------------------- MODULE SenderKeys ----------------------------
(* The record of sender keys that a participant of a group keeps for one    *)
(* sender (signal/sender-key.ts).  A chain is its key id and an iteration;  *)
(* the seed is a function of the two, and a message key is named by the     *)
(* iteration it belongs to.  A record is a sequence of states, newest first.*)
EXTENDS Integers, Sequences, FiniteSetsExt

CONSTANTS
    MaxStates,    \* MAX_STATES: key ids a record remembers
    Jump,         \* MAX_FORWARD_JUMP
    Keep          \* MAX_MESSAGE_KEYS: skipped keys a state remembers

ASSUME SenderKeysAssumption ==
    MaxStates \in Nat \ {0} /\ Jump \in Nat /\ Keep \in Nat

NoChain == [gen |-> 0, iter |-> 0]

\* createSenderKeyDistribution: the first call makes the state, with a new key id.
Created(own, gen) == IF own.gen = 0 THEN [gen |-> gen, iter |-> 0] ELSE own

\* groupEncrypt, after which the chain is one iteration further.
Encrypted(own) == [own EXCEPT !.iter = @ + 1]

State(gen, iter) == [gen |-> gen, chain |-> iter, kept |-> {}]
Known(r) == {r[i].gen : i \in DOMAIN r}
StateOf(r, gen) == r[CHOOSE i \in DOMAIN r : r[i].gen = gen]

\* The record without the state of a key id, of which it has one at most.
Without(r, gen) ==
    IF gen \in Known(r)
    THEN LET at == CHOOSE i \in DOMAIN r : r[i].gen = gen
         IN  SubSeq(r, 1, at - 1) \o SubSeq(r, at + 1, Len(r))
    ELSE r

\* addState, and so processSenderKeyDistribution.
AddState(r, gen, iter) ==
    LET all == <<State(gen, iter)>> \o Without(r, gen)
    IN  SubSeq(all, 1, Min({Len(all), MaxStates}))

Newest(kept) ==
    {i \in kept : Cardinality({j \in kept : j > i}) < Keep}

\* messageKeyFor throws for a key that is spent and for one too far ahead.
HasKeyFor(s, i) == IF s.chain > i THEN i \in s.kept ELSE i - s.chain <= Jump

\* Mutant: a skipped key stays after its message was read.
ReadKeepsKey(s, i) ==
    IF s.chain > i
    THEN s
    ELSE [s EXCEPT !.chain = i + 1, !.kept = Newest(@ \union s.chain..(i - 1))]

\* Mutant: the keys between the chain and the message are not kept.
ReadSkips(s, i) ==
    IF s.chain > i THEN [s EXCEPT !.kept = @ \ {i}] ELSE [s EXCEPT !.chain = i + 1]

\* messageKeyFor: the state once the key of iteration `i` is taken from it.
Read(s, i) ==
    IF s.chain > i
    THEN [s EXCEPT !.kept = @ \ {i}]
    ELSE [s EXCEPT !.chain = i + 1, !.kept = Newest(@ \union s.chain..(i - 1))]

\* groupDecrypt.
CanOpen(r, gen, i) == gen \in Known(r) /\ HasKeyFor(StateOf(r, gen), i)
Opened(r, gen, i) ==
    [k \in DOMAIN r |-> IF r[k].gen = gen THEN Read(r[k], i) ELSE r[k]]
===========================================================================
