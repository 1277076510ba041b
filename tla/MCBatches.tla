----------------------------- MODULE MCBatches -----------------------------
EXTENDS Batches, TLC

CONSTANTS ann, bob, key, this, that

Ann(p)  == [client |-> ann, key |-> Null, payload |-> p]
Bob(p)  == [client |-> bob, key |-> Null, payload |-> p]
Keyed   == [client |-> ann, key |-> key, payload |-> this]

Batch(k, chunks, list) == [client |-> ann, key |-> k, chunks |-> chunks, list |-> list]

TwoChunks == << <<Ann(this)>>, <<Ann(that)>> >>
ThreeChunks == << <<Ann(this)>>, <<Ann(that)>>, <<Ann(this)>> >>
\* One key: the same payload as a list and as a stream, and a stream that
\* is larger than a batch may be.
KeysAndSizes == {Batch(key, TwoChunks, TRUE), Batch(key, TwoChunks, FALSE),
                 Batch(key, ThreeChunks, FALSE)}
\* A chunk with the jobs of two clients.
MixedChunk == {Batch(Null, << <<Ann(this), Bob(that)>> >>, TRUE)}

KeyedSingle == {Keyed}
BobAlone == {Bob(this)}

SameCallers == Permutations(Callers)
=============================================================================
