-------------------------- MODULE OrderIdGenerator --------------------------
(***************************************************************************)
(* include/OrderIdGenerator.hpp: the threads of the pool call generate(),  *)
(* which reads the wall clock, then draws from an atomic counter, and      *)
(* packs both into an id.  The counter is not reset when the clock moves   *)
(* on, and other threads may draw, and the clock may move, between the two *)
(* steps of a call.                                                        *)
(***************************************************************************)
EXTENDS Integers, Sequences

CONSTANTS
    Threads,        \* the pool's threads
    NodeSpace,      \* 2^NODE_ID_BITS
    SequenceSpace,  \* 2^SEQUENCE_BITS
    CounterSpace,   \* 2^32: sequence_ is a uint32_t
    MaxClock,       \* bound on the clock
    MaxCalls,       \* bound on the calls
    NotCalling      \* not a timestamp

node_id == 1

\* The widths of the code: the counter's is a multiple of the sequence's.
Widths ==
    /\ NodeSpace \in Nat /\ node_id < NodeSpace
    /\ SequenceSpace \in Nat \ {0}
    /\ \E n \in 1 .. CounterSpace : CounterSpace = n * SequenceSpace
    /\ MaxClock \in Nat /\ MaxCalls \in Nat
    /\ NotCalling \notin Nat

VARIABLES
    clock,      \* milliseconds since EPOCH
    sequence,   \* sequence_
    timestamp,  \* per thread, the clock value its call has read, or NotCalling
    generated   \* history: the calls in the order of their draws

genVars == <<clock, sequence, timestamp, generated>>

GenInit ==
    /\ clock = 0
    /\ sequence = 0
    /\ timestamp = [t \in Threads |-> NotCalling]
    /\ generated = << >>

\* system_clock moves on, or is set back.
Tick == clock' \in 0 .. MaxClock /\ UNCHANGED <<sequence, timestamp, generated>>

ReadClock(t) ==
    /\ timestamp[t] = NotCalling
    /\ timestamp' = [timestamp EXCEPT ![t] = clock]
    /\ UNCHANGED <<clock, sequence, generated>>

\* The three fields side by side.
Pack(ts, seq) ==
    (ts * NodeSpace + node_id) * SequenceSpace + (seq % SequenceSpace)

\* fetch_add, and the id it makes.
Draw(t) ==
    /\ timestamp[t] # NotCalling
    /\ Len(generated) < MaxCalls
    /\ sequence' = (sequence + 1) % CounterSpace
    /\ generated' = Append(generated,
          [timestamp |-> timestamp[t], id |-> Pack(timestamp[t], sequence)])
    /\ timestamp' = [timestamp EXCEPT ![t] = NotCalling]
    /\ UNCHANGED clock

GenNext == Tick \/ \E t \in Threads : ReadClock(t) \/ Draw(t)

GenSpec == GenInit /\ [][GenNext]_genVars

-----------------------------------------------------------------------------
\* What OrderIdGenerator.hpp promises of generate(): no two calls get one id.  It
\* fails at the first call of a millisecond that is a whole sequence space of draws
\* (4096) after another call of that millisecond, and likewise when the clock is
\* set back.
UniqueIds ==
    \A j, k \in DOMAIN generated : generated[j].id = generated[k].id => j = k

\* What the packing gives whatever the threads and the clock do, the wrap of
\* sequence_ included: one id comes twice only from two calls with the same
\* timestamp that are a whole sequence space of draws apart.
RepeatsFarApart ==
    \A j, k \in DOMAIN generated :
        j < k /\ generated[j].id = generated[k].id =>
            /\ generated[j].timestamp = generated[k].timestamp
            /\ k - j >= SequenceSpace

=============================================================================
