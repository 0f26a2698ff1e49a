----------------------------- MODULE BufferBudget -----------------------------
(***************************************************************************)
(* The bytes the proxy buffers (proxy/buffer-budget.ts): every download    *)
(* adds its chunks to one counter shared by all, and takes them off when   *)
(* it settles.  A stream may say data, end, error and close in many        *)
(* orders: it goes on to say some of them after it has settled.            *)
(***************************************************************************)
EXTENDS Integers, FiniteSets

CONSTANTS
    Download,   \* bound: streams
    Chunk,      \* the sizes of chunks
    MaxOne,     \* maxArtifactBytes
    MaxAll,     \* maxTotalBufferedBytes
    MaxChunks   \* bound: chunks of a stream

ASSUME BudgetAssumption ==
    /\ Chunk \subseteq Nat /\ MaxOne \in Nat /\ MaxAll \in Nat /\ MaxChunks \in Nat

VARIABLES
    size,     \* of each download: the bytes it was charged for
    settled,  \* the downloads that settled
    sent,     \* ... how many chunks its stream gave
    closed,   \* the streams that say no more
    total     \* totalBufferedBytes

budgetVars == <<size, settled, sent, closed, total>>

BudgetInit ==
    /\ size = [d \in Download |-> 0] /\ sent = [d \in Download |-> 0]
    /\ settled = {} /\ closed = {} /\ total = 0

\* Slip: an end and the close behind it both count.
SettleTwice(d, charged, sum) ==
    settled' = settled \cup {d} /\ total' = sum - charged

\* settle: only the first of the events counts.
SettleDownload(d, charged, sum) ==
    IF d \in settled THEN settled' = settled /\ total' = sum
    ELSE settled' = settled \cup {d} /\ total' = sum - charged

\* The stream's data; over a limit, the download is refused and the stream destroyed.
Data(d, n) ==
    /\ d \notin closed /\ sent[d] < MaxChunks
    /\ sent' = [sent EXCEPT ![d] = @ + 1]
    /\ IF d \in settled THEN UNCHANGED <<size, settled, total>>
       ELSE /\ size' = [size EXCEPT ![d] = @ + n]
            /\ IF size'[d] > MaxOne \/ total + n > MaxAll
               THEN SettleDownload(d, size'[d], total + n)
               ELSE total' = total + n /\ UNCHANGED settled
    /\ UNCHANGED closed

\* end and error, which a close follows.
EndOrError(d) ==
    /\ d \notin closed /\ SettleDownload(d, size[d], total)
    /\ UNCHANGED <<size, sent, closed>>

Close(d) ==
    /\ d \notin closed /\ closed' = closed \cup {d}
    /\ SettleDownload(d, size[d], total)
    /\ UNCHANGED <<size, sent>>

BudgetNext == \E d \in Download : (\E n \in Chunk : Data(d, n)) \/ EndOrError(d) \/ Close(d)

\* The bytes that are there: every one charged for a download that has not settled.
BytesHeld == UNION {{d} \X (1 .. size[d]) : d \in Download \ settled}

\* However the downloads interleave and end, the counter is what the unsettled
\* ones hold: none is refused for bytes that are long gone, and the limits hold
\* for the bytes that are there.
BudgetIsExact == total = Cardinality(BytesHeld) /\ total <= MaxAll
==============================================================================
