------------------------------- MODULE Replay -------------------------------
(*************************************************************************************)
(* What the studies measure on a tape.  In one pass the mid series of                *)
(* src/sim_mm.cpp, src/latency_sweep.cpp and src/strategy_eval.cpp is built,         *)
(* and the samples of src/signal_study.cpp are taken; in another the fills of two    *)
(* policies are marked out against the series, and the two compared block by block   *)
(* as in include/hotpath/sim/bootstrap.hpp.                                          *)
(*                                                                                   *)
(* The tape is kept as the time of each event and the touch it left.  Which events   *)
(* fill a policy is left open: MarketMaker says which.  A mid is doubled; a markout  *)
(* is kept as its mid, a fill is of one share, and a mean is a pair <<sum, weight>>. *)
(*************************************************************************************)
EXTENDS Signals, Sequences, SequencesExt, FiniteSetsExt

CONSTANTS Touches,        \* what an event may leave at the top of the book
          Elapsed,        \* how much time may pass between two events
          Start,          \* when the tape begins
          MaxEvents,      \* bound on its length
          Horizon,        \* of a markout
          grid_ns, block_ns,
          Policies        \* the fills of two of them are compared

ASSUME ReplayAssumption ==
    /\ Touches \subseteq [bid_px : Nat, ask_px : Nat, bid_qty : Nat, ask_qty : Nat]
    /\ Elapsed \subseteq Nat /\ MaxEvents \in Nat /\ Start \in Nat \ {0}
    /\ Horizon \in Nat \ {0} /\ grid_ns \in Nat \ {0} /\ block_ns \in Nat \ {0}

VARIABLES tape,           \* the events so far, [ts, touch]
          mids, last_mid, \* the vector of MidSample, and the mid it was last added for
          samples,        \* of signal_study: the positions of the events they are of
          next_sample,
          at,             \* the event of the second pass, or 0 in the first
          fills,          \* history: when each policy was filled
          obs             \* by policy: its fills that were marked out, [ts, mid]

vars == <<tape, mids, last_mid, samples, next_sample, at, fills, obs>>

Init == /\ tape = << >> /\ mids = << >> /\ last_mid = -1
        /\ samples = << >> /\ next_sample = 0 /\ at = 0
        /\ fills = [p \in Policies |-> << >>] /\ obs = [p \in Policies |-> << >>]

-----------------------------------------------------------------------------
(* A mid is recorded when it changes, ... *)
RecordMid(ts, touch) ==
    IF Valid(touch) /\ Mid(touch) # last_mid
    THEN mids' = Append(mids, [ts |-> ts, mid |-> Mid(touch)]) /\ last_mid' = Mid(touch)
    ELSE UNCHANGED <<mids, last_mid>>

(* Seeded fault: the next sample is due a grid step after the one that was due. *)
NextDueOne(due, ts) == due + grid_ns

(* ... and a sample taken at the first event of each step of the grid: a quiet *)
(* market does not emit a burst of them afterwards.                            *)
NextDue(due, ts) == due + grid_ns * ((ts - due) \div grid_ns + 1)

TakeSample(ts, touch) ==
    LET due == IF next_sample = 0 THEN ts + grid_ns ELSE next_sample IN
    IF ~Valid(touch) THEN UNCHANGED <<samples, next_sample>>
    ELSE IF ts < due THEN next_sample' = due /\ UNCHANGED samples
    ELSE samples' = Append(samples, Len(tape) + 1) /\ next_sample' = NextDue(due, ts)

Observe(ts, touch) ==
    /\ at = 0 /\ Len(tape) < MaxEvents
    /\ tape' = Append(tape, [ts |-> ts, touch |-> touch])
    /\ RecordMid(ts, touch) /\ TakeSample(ts, touch)
    /\ UNCHANGED <<at, fills, obs>>

Times == IF tape = << >> THEN {Start} ELSE {Last(tape).ts + elapsed : elapsed \in Elapsed}

Rewind == /\ at = 0 /\ tape # << >> /\ at' = 1
          /\ UNCHANGED <<tape, mids, last_mid, samples, next_sample, fills, obs>>

-----------------------------------------------------------------------------
NoMid == -1

(* Seeded fault: of the samples of one instant the first counts, not the last. *)
MidBefore(t) == IF mids = << >> \/ t > Last(mids).ts \/ t <= mids[1].ts THEN NoMid
                ELSE mids[Max({i \in DOMAIN mids : mids[i].ts < t})].mid

(* mid_at: of the last sample at or before t, by upper_bound; none if it is past them. *)
MidAt(t) == IF mids = << >> \/ t > Last(mids).ts \/ t < mids[1].ts THEN NoMid
            ELSE mids[Max({i \in DOMAIN mids : mids[i].ts <= t})].mid

(* An event that fills some of the policies.  Without a mid at the horizon a fill *)
(* is not scored.                                                                 *)
Score(filled) ==
    LET ts == tape[at].ts
        mid == MidAt(ts + Horizon) IN
    /\ at \in 1..Len(tape)
    /\ fills' = [p \in Policies |-> IF p \in filled THEN Append(fills[p], ts) ELSE fills[p]]
    /\ obs' = [p \in Policies |-> IF p \in filled /\ mid # NoMid
                                  THEN Append(obs[p], [ts |-> ts, mid |-> mid]) ELSE obs[p]]
    /\ at' = at + 1
    /\ UNCHANGED <<tape, mids, last_mid, samples, next_sample>>

Next == \/ \E ts \in Times, touch \in Touches : Observe(ts, touch)
        \/ Rewind
        \/ \E filled \in SUBSET Policies : Score(filled)

Spec == Init /\ [][Next]_vars

-----------------------------------------------------------------------------
(* Seeded fault: no block for what comes at the very end of the span. *)
LastWholeBlock(t0, t1) == (t1 - t0 + block_ns - 1) \div block_ns - 1

(* bucket: blocks of the clock from t0 to t1, numbered from zero, each the positions of *)
(* its observations.                                                                    *)
LastBlock(t0, t1) == (t1 - t0) \div block_ns

Bucket(series, t0, t1) ==
    [b \in 0..LastBlock(t0, t1) |->
        {i \in DOMAIN series : /\ t0 <= series[i].ts /\ series[i].ts <= t1
                               /\ (series[i].ts - t0) \div block_ns = b}]

Values(series) == [i \in DOMAIN series |-> series[i].mid]

(* weighted_mean over the blocks that are picked. *)
WeightedMean(series, blocks, pick) ==
    LET num == [k \in DOMAIN pick |-> SumFunctionOnSet(Values(series), blocks[pick[k]])]
        den == [k \in DOMAIN pick |-> Cardinality(blocks[pick[k]])] IN
    <<SumFunction(num), SumFunction(den)>>

(* The span of a paired comparison: the series are taken to be in order of time. *)
From(a, b) == Min({a[1].ts, b[1].ts})
To(a, b) == Max({Last(a).ts, Last(b).ts})

(* paired_block_bootstrap's two means over all blocks, whose difference is the point; *)
(* both none, if nothing is observed at two times.                                    *)
PairedPoint(a, b) ==
    LET t0 == From(a, b)
        t1 == To(a, b)
        all == [i \in 1..(LastBlock(t0, t1) + 1) |-> i - 1] IN
    IF t1 <= t0 THEN <<<<0, 0>>, <<0, 0>>>>
    ELSE <<WeightedMean(a, Bucket(a, t0, t1), all), WeightedMean(b, Bucket(b, t0, t1), all)>>

-----------------------------------------------------------------------------
(* The positions whose touch gives a mid, and those that change it. *)
Quoted == {i \in DOMAIN tape : Valid(tape[i].touch)}
Changes == {i \in Quoted :
              LET before == {j \in Quoted : j < i} IN
              before = {} \/ Mid(tape[Max(before)].touch) # Mid(tape[i].touch)}

(* The mid in force at a time is that of the last event before it that left one: a book *)
(* that is one-sided meanwhile keeps it.                                                *)
InForce(t) == {Mid(tape[Max(upto)].touch) :
                 upto \in {{i \in Quoted : tape[i].ts <= t}} \ {{}}}

(* The fills that have a mid in force, and one known, a horizon later. *)
Scored(p) == {n \in DOMAIN fills[p] :
                /\ InForce(fills[p][n] + Horizon) # {}
                /\ \E i \in Changes : tape[i].ts >= fills[p][n] + Horizon}

(* No markout looks ahead or at a stale mid: every fill is scored with the mid in force *)
(* a horizon later, whatever else happened in the same instant, and left out exactly if *)
(* no mid was in force yet or none changed that late or later.                          *)
MarkedToMidInForce ==
    \A p \in Policies :
        /\ Len(obs[p]) = Cardinality(Scored(p))
        /\ \A n \in Scored(p) :
              LET scored == obs[p][Cardinality({m \in Scored(p) : m <= n})] IN
              /\ scored.ts = fills[p][n]
              /\ {scored.mid} = InForce(fills[p][n] + Horizon)

(* "Sampling is on a fixed time grid, not per event": with the grid laid from the first   *)
(* event that left a touch, the samples are the first such event of every later cell that *)
(* has one: none twice, none for a quiet cell, and no cell skipped.                       *)
Cell(i) == (tape[i].ts - tape[Min(Quoted)].ts) \div grid_ns

SampledOncePerCell ==
    /\ \A i \in 1..(Len(samples) - 1) : samples[i] < samples[i + 1]
    /\ ToSet(samples) = {i \in Quoted : /\ Cell(i) > 0
                                        /\ \A j \in Quoted : j < i => Cell(j) < Cell(i)}

(* The mean of a series that is not cut into blocks. *)
Whole(series) == <<SumFunction(Values(series)), Len(series)>>

(* "Resampling the SAME time blocks for both series" leaves nothing out: over all blocks *)
(* each policy's mean is that of all its markouts, though the blocks are laid over the   *)
(* common span of two series that begin and end apart.                                   *)
BlocksHoldAll ==
    \A p, q \in Policies :
        obs[p] # << >> /\ obs[q] # << >> /\ From(obs[p], obs[q]) < To(obs[p], obs[q]) =>
            PairedPoint(obs[p], obs[q]) = <<Whole(obs[p]), Whole(obs[q])>>
=============================================================================
