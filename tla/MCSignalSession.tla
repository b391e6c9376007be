-------------------------- MODULE MCSignalSession --------------------------
\* Model values for the two parties; they are interchangeable.
EXTENDS SignalSession, TLC

Sym == Permutations(Parties)
============================================================================
