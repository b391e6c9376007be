------------------------------ MODULE AuthLog ------------------------------
(* auth/file-state.ts: the credentials and the Signal keys in one encrypted  *)
(* append-only file, with the crashes and failed writes it meets.            *)
(*                                                                           *)
(* A file is a sequence of chunks: the magic, whole records, and the piece   *)
(* of a record (or of the magic) that an interrupted write leaves: a Stub of *)
(* at most 4 bytes (two in a row count as more) or a longer Torn.  The       *)
(* process may die between two system calls, or inside a write; what was     *)
(* written stays so (no power loss).  fs.writeSync() may write less than it  *)
(* is given and say so in a result that the code ignores; appendFileSync()   *)
(* and writeFileSync() write all or throw.  A broken deletion that later     *)
(* bytes fill, which no tag protects and readLog takes for whole, counts as  *)
(* broken here.                                                              *)
EXTENDS Integers, Sequences, FiniteSets

CONSTANTS
    Keys, Vals, None,   \* as in DurableMap
    MaxBatch,     \* bound: records of one keys.set()
    Creds,        \* the key "creds/me"
    Magic, Stub, Torn,
    Lost,         \* as in DurableMap
    Fsync,        \* opts.fsync: append by writeSync
    CompactAt,    \* the 64 KiB below which the log is never compacted, in chunks
    Factor,       \* opts.compactionFactor
    MaxLen        \* bound: chunks of a file to which the model appends

ASSUME CredsAssumption == Creds \in Keys /\ None \notin Vals
ASSUME KeysAssumption == IsFiniteSet(Keys)
ASSUME BatchAssumption == MaxBatch \in Nat \ {0}
ASSUME CompactAssumption == CompactAt \in Nat /\ CompactAt > 2 /\ Factor \in Nat
ASSUME FsyncAssumption == Fsync \in BOOLEAN
ASSUME LostAssumption == Lost \notin [Keys -> Vals \union {None}]
ASSUME ChunksAssumption == Magic # Stub /\ Stub # Torn /\ Torn # Magic

VARIABLES
    key,          \* the key file: "absent", "short" (cut by a crash) or "ok"
    file,         \* the chunks of the log, or None when there is no file
    filled,       \* its first broken record has all the bytes its length declares
    mem,          \* the index in memory
    pc,           \* "down", "loaded" (read, credentials not ensured) or "up"
    failed,       \* a write failed or fell short since the log was read or rewritten
    cut           \* a compaction once put a file that was cut short in its place

vars == <<key, file, filled, mem, pc, failed, cut>>

Rec == [key : Keys, val : Vals \union {None}]
Chunk == Rec \union {Magic, Stub, Torn}
Empty == [k \in Keys |-> None]

\* What a file holds can be told apart, and from no file.
ASSUME FileAssumption == {Magic, Stub, Torn} \intersect Rec = {} /\ None \notin Seq(Chunk)

\* keys.set() takes an object: no key twice, and the credentials are not in it.
SetBatches ==
    {b \in UNION {[1..n -> Rec] : n \in 1..MaxBatch} :
        /\ \A i \in 1..Len(b) : b[i].key # Creds
        /\ \A i, j \in 1..Len(b) : b[i].key = b[j].key => i = j}

CredsBatches == {<<[key |-> Creds, val |-> v]>> : v \in Vals}

Batches == SetBatches \union CredsBatches

----------------------------------------------------------------------------
(* readLog. *)

\* Mutant: the index keeps the record instead of its value.
ApplyKeepsRecord(m, b) ==
    [k \in Keys |->
        LET at == {i \in 1..Len(b) : b[i] \in Rec /\ b[i].key = k}
        IN  IF at = {} THEN m[k] ELSE b[CHOOSE i \in at : \A j \in at : j <= i]]

\* Replays the whole records of `b`, in order, over the map `m`.
Apply(m, b) ==
    [k \in Keys |->
        LET at == {i \in 1..Len(b) : b[i] \in Rec /\ b[i].key = k}
        IN  IF at = {} THEN m[k] ELSE b[CHOOSE i \in at : \A j \in at : j <= i].val]

\* At most 4 bytes, of whatever: taken for an empty store.
Short(f) == f \in {<< >>, <<Magic>>, <<Stub>>}
Headed(f) == f # << >> /\ f[1] = Magic

Broken(f) == {i \in 1..Len(f) : f[i] \in {Stub, Torn}}

\* Mutant: `goodLen` is not advanced past the last whole record.
GoodPartShort(f) ==
    IF Broken(f) = {} THEN f
    ELSE SubSeq(f, 1, (CHOOSE i \in Broken(f) : \A j \in Broken(f) : i <= j) - 2)

\* What precedes the first broken record.
GoodPart(f) ==
    IF Broken(f) = {} THEN f
    ELSE SubSeq(f, 1, (CHOOSE i \in Broken(f) : \A j \in Broken(f) : i <= j) - 1)

\* Mutant: the torn tail stays in the file.
LeavesTail(f) == IF Short(f) THEN << >> ELSE f

\* The magic does not match, or a complete record does not decrypt: readLog throws
\* and the file stays as it is.
Refused == filled \/ (file # None /\ ~Short(file) /\ ~Headed(file))

\* The file after an open that does not refuse it: cut to `goodLen`.
Truncated(f) == IF Short(f) THEN << >> ELSE GoodPart(f)

\* What that open puts in the index.
Recover(f) == IF f = None \/ ~Headed(f) THEN Empty ELSE Apply(Empty, GoodPart(f))

----------------------------------------------------------------------------
(* append and maybeCompact. *)

LiveRecs(m) == {r \in Rec : r.val # None /\ r.val = m[r.key]}

\* The magic, then the records of `S` in an order left open (that of a Map's entries).
Listing(S) ==
    LET n == Cardinality(S)
    IN  <<Magic>> \o CHOOSE s \in [1..n -> S] : \A r \in S : \E i \in 1..n : s[i] = r

\* One record per live key.
Snapshot(m) == Listing(LiveRecs(m))

\* What a writeSync() that falls short leaves of it.
CutSnapshots(m) ==
    {<<Stub>>} \union
    {Listing(S) \o t : S \in (SUBSET LiveRecs(m)) \ {LiveRecs(m)}, t \in {<< >>, <<Stub>>, <<Torn>>}}

TooBig(f, m) == Len(f) >= CompactAt /\ Len(f) > Factor * (1 + Cardinality(LiveRecs(m)))

\* What an interrupted append may have written of the batch `b`.
Pieces(b) ==
    {b} \union UNION {{SubSeq(b, 1, n) \o t : t \in {<< >>, <<Stub>>, <<Torn>>}} :
                          n \in 0..(Len(b) - 1)}

\* What one that returns has written.
Writes(b) == IF Fsync THEN Pieces(b) \ {<< >>} ELSE {b}

\* Bytes after a broken record may fill it up to the length it declares.
Fills(w) == IF w # << >> /\ Broken(file) # {} THEN {filled, TRUE} ELSE {filled}

Extend(w) == file' = file \o w /\ filled' \in Fills(w)

\* After `w` is appended, the file is replaced by one written from the index `m`, if
\* it has grown too big.
MaybeCompact(w, m, whole) ==
    \/ /\ ~TooBig(file \o w, m)
       /\ Extend(w)
       /\ failed' = (failed \/ ~whole)
       /\ UNCHANGED cut
    \/ /\ TooBig(file \o w, m)
       /\ filled' = FALSE
       /\ \/ file' = Snapshot(m) /\ failed' = FALSE /\ UNCHANGED cut
          \/ file' \in CutSnapshots(m) /\ failed' = TRUE /\ cut' = TRUE

\* Mutant: the index is updated after the append, so that a compaction misses it.
WriteThenIndex(b) ==
    /\ mem' = Apply(mem, b)
    /\ \E w \in Writes(b) : MaybeCompact(w, mem, w = b)
    /\ UNCHANGED pc

\* The write returns; the index is updated first.
Written(b) ==
    /\ mem' = Apply(mem, b)
    /\ \E w \in Writes(b) : MaybeCompact(w, mem', w = b)
    /\ UNCHANGED pc

\* The write throws (or the compaction after it): the index keeps the batch.
WriteFails(b) ==
    /\ mem' = Apply(mem, b)
    /\ \E w \in Pieces(b) : Extend(w)
    /\ failed' = TRUE
    /\ UNCHANGED <<pc, cut>>

CrashInWrite(b) ==
    /\ \E w \in Pieces(b) : Extend(w)
    /\ pc' = "down"
    /\ mem' = Empty
    /\ UNCHANGED <<failed, cut>>

AppendRecords(b) ==
    /\ pc = "up" /\ Len(file) < MaxLen
    /\ Written(b) \/ WriteFails(b) \/ CrashInWrite(b)
    /\ UNCHANGED key

KeysSet == \E b \in SetBatches : AppendRecords(b)

SaveCreds == \E b \in CredsBatches : AppendRecords(b)

----------------------------------------------------------------------------
(* fileAuthState(): key file, log, first credentials. *)

\* Mutant: the log is created before the key it is encrypted with.
LogBeforeKey ==
    /\ pc = "down"
    /\ \/ key = "absent" /\ file = None /\ file' = <<Magic>> /\ UNCHANGED key
       \/ key = "absent" /\ file # None /\ key' \in {"ok", "short"} /\ UNCHANGED file
    /\ UNCHANGED <<filled, mem, pc, failed, cut>>

\* resolveKey: the crash leaves a key file that every later open refuses.
ResolveKey ==
    /\ pc = "down" /\ key = "absent"
    /\ key' \in {"ok", "short"}
    /\ UNCHANGED <<file, filled, mem, pc, failed, cut>>

Create ==
    /\ pc = "down" /\ key = "ok" /\ file = None
    /\ \/ file' = <<Magic>> /\ pc' = "loaded"
       \/ file' \in {<< >>, <<Stub>>} /\ UNCHANGED pc     \* crash
    /\ UNCHANGED <<key, filled, mem, failed, cut>>

\* Mutant: a log that cannot be read is begun anew.
LoadAnyway ==
    /\ pc = "down" /\ key = "ok" /\ file # None
    /\ file' = IF Refused THEN << >> ELSE Truncated(file)
    /\ mem' = Recover(file')
    /\ pc' = "loaded"
    /\ failed' = FALSE
    /\ filled' = FALSE
    /\ UNCHANGED <<key, cut>>

\* An open that refuses the file changes nothing.
Load ==
    /\ pc = "down" /\ key = "ok" /\ file # None
    /\ ~Refused
    /\ file' = Truncated(file)
    /\ mem' = Recover(file')
    /\ pc' = "loaded"
    /\ failed' = FALSE
    /\ UNCHANGED <<key, filled, cut>>

Ready ==
    /\ pc = "loaded" /\ mem[Creds] # None
    /\ pc' = "up"
    /\ UNCHANGED <<key, file, filled, mem, failed, cut>>

\* No credentials: fresh ones are appended, with or without a magic before them, and
\* indexed after that, compaction included.  A failure throws out of fileAuthState().
FirstCreds ==
    /\ pc = "loaded" /\ mem[Creds] = None
    /\ \E b \in CredsBatches :
        \/ /\ \E w \in Writes(b) : MaybeCompact(w, mem, w = b)
           /\ mem' = Apply(mem, b)
           /\ pc' = "up"
        \/ CrashInWrite(b)
    /\ UNCHANGED key

Crash ==
    /\ pc # "down"
    /\ pc' = "down"
    /\ mem' = Empty
    /\ UNCHANGED <<key, file, filled, failed, cut>>

Init ==
    /\ key \in {"absent", "ok"}     \* "ok": opts.key or ONIWA_STORE_KEY
    /\ file = None /\ mem = Empty /\ pc = "down"
    /\ filled = FALSE /\ failed = FALSE /\ cut = FALSE

Next == ResolveKey \/ Create \/ Load \/ Ready \/ FirstCreds \/ KeysSet \/ SaveCreds \/ Crash

Spec == Init /\ [][Next]_vars

----------------------------------------------------------------------------

TypeOK ==
    /\ key \in {"absent", "short", "ok"}
    /\ file = None \/ file \in Seq(Chunk)
    /\ mem \in [Keys -> Vals \union {None}]
    /\ pc \in {"down", "loaded", "up"}
    /\ filled \in BOOLEAN /\ failed \in BOOLEAN /\ cut \in BOOLEAN

\* What a process reads is what a restart would find, unless a write of it failed or
\* fell short, or the log has no magic (readLog against append, truncate and compact).
MemIsDisk ==
    pc # "down" /\ ~failed /\ ~cut /\ Headed(file) => ~Refused /\ Recover(file) = mem

\* Crashes alone leave at most one broken record, at the end, and only until the
\* next open: the truncation in fileAuthState() comes before any append.
TearsAreTails ==
    file # None /\ ~failed => Broken(file) \subseteq IF pc = "down" THEN {Len(file)} ELSE {}

\* A key file cut short never locks away a log: nothing was encrypted with it yet.
ShortKeyLocksNothing == key = "short" => file = None

HasCreds == ~Refused /\ Recover(file)[Creds] # None

\* What the next open finds.
Found == IF Refused THEN Lost ELSE Recover(file)

\* Once a restart would find credentials, every later one finds some or is refused,
\* through crashes, failed and short appends, truncations and compactions: the account
\* is never silently replaced by a new one (which is why readLog refuses and does not
\* begin anew).  Only a compaction cut short (`cut`) breaks that.
CredsNeverVanish == [][HasCreds \/ Refused => HasCreds' \/ Refused' \/ cut']_vars

\* Records appended now will be found: under a magic, with nothing broken before them.
Intact ==
    /\ ~filled
    /\ \/ file = None \/ (pc = "down" /\ Short(file))
       \/ Headed(file) /\ Broken(file) \subseteq IF pc = "down" THEN {Len(file)} ELSE {}

\* The log implements the map that survives crashes.
Durable == INSTANCE DurableMap WITH
    disk <- Found,
    view <- mem,
    up <- pc # "down",
    intact <- Intact,
    short <- cut

ImplementsMap == Durable!DSpec
=============================================================================
