# hotpath in TLA+

A verification project for hotpath: a NASDAQ ITCH 5.0 feed handler, four order book
designs, a market-making simulator, and the lock-free rings that carry messages between
its threads and processes. Every module is written from the C++ (or SystemVerilog) of the
repository; `PROJECT.json` maps each definition to the lines it stands for.

1. [The system](#1-the-system)
2. [Modules and the code](#2-modules-and-the-code)
3. [Runs](#3-runs)
4. [Bounds](#4-bounds)
5. [Memory models and fairness](#5-memory-models-and-fairness)
6. [Proofs](#6-proofs)
7. [Where the code and its comments disagree](#7-where-the-code-and-its-comments-disagree)
8. [Not modelled](#8-not-modelled)
9. [Plan](#9-plan)

## 1. The system

Data flows one way. A file of framed messages is mapped (`itch/mapped_file.hpp`), cut
into messages (`itch/reader.hpp`) and reduced to one tape of book events per symbol
(`extract_tape.cpp`). A tape drives a book and the market maker on it, in one thread or
in three threads joined by rings (`pipeline.cpp`), or is published to other processes
through a shared-memory ring (`shm_pub.cpp`, `shm_sub.cpp`).

| Component | State | Operations | What is hard about it | What makes it correct |
|---|---|---|---|---|
| SPSC ring, `ipc/spsc_ring.hpp`, `litmus_ring.cpp` | slots, masked `head_` and `tail_`, a cached copy of each at the other side | `try_push`, `try_pop`; two threads spin on them | two threads, weak memory, stale cached indices, wrap-around | no slot is accessed by both threads at once; first in, first out; full and empty are never confused; both threads finish |
| Shared-memory ring, `ipc/shm_ring.hpp`, `shm_pub.cpp`, `shm_sub.cpp` | versioned slots, `write_seq`, `eof_seq`, `readers`; the subscriber's `next` and counts | `create`, `open`, `publish`, `mark_eof`, `attach_reader`, `try_read`, the two loops | the publisher never waits and laps a subscriber inside a copy; two processes that start and die separately | a delivered message is whole and the one wanted; each message is counted once, as received or missed; the subscriber ends |
| Pipeline, `pipeline.cpp` | two rings, three threads | push and pop loops, end-of-file messages | three threads spinning on two bounded rings | the same fills in the same order as one thread; the joins return |
| Book operations, `book/book.hpp`, `events.hpp` | - | add, execute, cancel, delete, replace, snapshot, best prices | four designs must agree | every design shows the aggregates of the orders that rest |
| Map, flat, intrusive and hybrid book | orders and levels: maps; ticks with a bitmap and a cached best tick; pooled lists; both | the same operations | hand-kept aggregates, reused pool entries, a cached best price, prices outside the window, full pools | aggregates equal a recount; lists and pools stay whole; the cache never lies; drops are counted |
| Hash map, `core/open_hash.hpp` | slots of a table that never grows | find, insert, erase, clear | deletion shifts entries back across the end of the table | a bounded map: no key is stranded, every probe ends |
| Queue position, `sim/queue_model.hpp` | shares ahead, join stamp | join, leave, on_execution, on_cancel, reached | deltas from executions and cancels, in front of the quote and behind it | equals a recount of the queue |
| Market maker, `sim/market_maker.hpp` | a quote per side, a change in flight per side | on_event, set_quoting | latency: old quotes rest, and are filled, until the change lands | filled only in turn; changes land when due, and before the event that fills them |
| Tape extraction, `extract_tape.cpp` | the routing index (a hash map), the tapes | one pass over the feed | most messages name only an order reference; orders retire silently; the index may fill | the index holds the live orders and no others, through messages it cannot place; a tape replays to the market's book |
| ITCH reader and layout, `itch/*.hpp` | a cursor, counters | next, the field views | truncated, zero-length, short and unknown messages | never hands out a message that is shorter than its type |
| Hardware parser, `rtl/itch_parse.sv` | a byte-serial state machine with field accumulators | one clock edge | accumulators that still hold the previous message | decodes what the C++ reader decodes |
| Feed check, `itch_stat.cpp` | a table of live orders, integrity counters | one pass over the feed, a gate | it is the reader's counters and its own that make the gate: what neither counts passes, and what is counted and left out of the gate | what a passed gate says of the tapes is told exactly |
| Drivers and signals, `sim_mm.cpp`, `strategy_eval.cpp`, `latency_sweep.cpp`, `signal_study.cpp`, `signals.hpp` | a policy, recorded mids, a sampling grid | replay passes, markouts, samples | a decision may only use what was seen before; events of one instant; quiet time | the naive pass is the naive maker; no markout looks ahead; one sample per grid step |
| Bootstrap, `bootstrap.hpp` | - | blocks, weighted means, resampling | two series over one set of blocks; the last block | every markout is in one block |
| Benchmarks, tests, fuzzers, scripts, platform | - | - | - | they measure or exercise the above |

How the components meet: the pipeline calls `try_push`/`try_pop` and `on_event`; the
market maker calls the hybrid book's operations and queries, reads an order before the
event is applied to the book, and uses that for the fill after it; the books and tape
extraction keep their ids in the hash map and must cope with its refusals; publisher and
subscriber share one mapping, and the file behind it, which a publisher that is started
again empties under whoever still maps it. Tape extraction and the feed check read the
same feed with tables of the same size, and the second is run to vouch for the first.

The hazards in these interactions, each at its line and with the properties that would
catch it going wrong, are the `hazards` of `PROJECT.json`.

## 2. Modules and the code

    BoundedFifo  <-implements-  SpscRing          BoundedMap  <-implements-  OpenHash
         ^ two instances                               ^ the routing index
      Pipeline                                      ExtractTape --> MapBook
                                                       ^ extended by ItchStat

    LossyFeed  <-implements-  ShmRing, extended by ShmSession

    OrderBook  <-implements-  MapBook, FlatBook, IntrusiveBook, HybridBook
                                        ^ four instances, one event stream
                                   BookCrossval
    PriceGrid   shared by FlatBook and HybridBook
    LevelQueues shared by IntrusiveBook and HybridBook
    StrategyEval, extending MarketMaker = HybridBook + QueuePosition + Signals
    Replay      = the measurements of the studies, over Signals
    ItchCosim   = ItchReader + ItchParser, both over ItchStream

    Containers_proofs   about SpscRing, Pipeline and OpenHash
    ShmSession_proofs   about ShmSession
    HybridBook_proofs   about HybridBook
        ^ instance HP in PooledBooks_proofs <-extended by- BookCrossval_proofs, about BookCrossval
        ^ instance HP in StrategyEval_proofs, about StrategyEval
    Replay_proofs       about Replay
    Itch_proofs         about ItchStat (and ExtractTape) and ItchCosim

A proof module extends the modules it is about and holds nothing but their theorems, the
invariants they need and the lemmas they rest on (section 6). Where one is about several
models that share no variable, the names they would share have a prefix
(`RingSpec`, `TableSpec`, `CosimSpec`). `Maps` is the three maps
(put, drop, amend an entry) the models of `std::unordered_map` and of the books use.

**BoundedFifo** is what a single-producer/single-consumer queue promises: items in order,
each once, at most `Bound` inside.

**SpscRing** models `spsc_ring.hpp` with the spinning threads of `litmus_ring.cpp`, one
action per access to shared memory: `LoadHead`, `WriteSlot`, `PublishTail` for `try_push`
and `LoadTail`, `ReadSlot`, `RetireHead` for `try_pop`. The template parameters
`Ordering` and `Caching` are constants. Positions are kept unmasked, as the number of
pushes and pops so far; wherever the code uses a masked index the model uses `Slot(p)`,
so a confusion of two laps would show.

**LossyFeed** is what a subscriber may rely on: the next message, or a gap whose size is
told. **ShmRing** models `publish`, `mark_eof`, `try_read`, `attach_reader` and both
programs' loops, one action per access to the mapping. A message is two payload words and
a sequence word, so a copy that mixes two writes is visible. **ShmSession** puts the file
in front: `create` step by step (`Truncate`, `Resize`, one `StoreField` per header field in
any order, `Stamp`), `open` step by step, a publisher that may end at any step before its
mark and is started again on the same path (`Crash`), and a subscriber killed for touching an
empty mapping (`Killed`) or run again when `open` throws. A subscriber that reads a capacity
of zero, which takes a ring created again in the middle of its `open`, computes nonsense from
then on; it is `mislaid`, and not followed further.

**Pipeline** models `run_pipelined`: `FeedEvent`/`FeedEof`, `StrategyTake`/`StrategyEmit`,
`GatewayTake`. Its rings are `BoundedFifo`s, which is sound because `SpscRing` implements
it. The market maker is a deterministic function of the events, so it is represented by
the number of fills each event yields, for every such function. `SingleThreaded` is
`run_single`, `digested` what the gateway has fed to its digest (`Feed`), `Same` the
verdict of `main`.

**OrderBook** is the operation set of `book.hpp` as an abstract book: the resting orders,
and everything shown a function of them. **MapBook**, **FlatBook**, **IntrusiveBook** and
**HybridBook** model the four designs as operators from book to book, one operator per
member function, so that the handler of an event is one step with all its trailing
updates. **PriceGrid** holds the tick window that the flat and hybrid books share line for
line (bitmap, cached best tick, merge with the overflow map), and **LevelQueues** the
pools and lists that the intrusive and hybrid books share. **BookCrossval** is
`book_crossval.cpp`: the four under one event stream, compared after each event (`Agree`),
with the gate at the end of the tape (`Passes`). Best
prices may be asked for between any two events, since two designs answer by rewriting
their cache.

**BoundedMap** is what the users of the hash map rely on; **OpenHash** models
`open_hash.hpp` slot by slot and implements it for every placement of the keys.

**QueuePosition** is `queue_model.hpp` and **MarketMaker** is `market_maker.hpp` on the
hybrid book. `on_event` is one step: `OnEvent` lands what is due, applies the event,
fills, decides and lands again. Time is the wait a change in flight has left.
**Signals** is the touch and the part of `signals.hpp` that decides anything: the mid and
which side is heavy, compared with a threshold in whole numbers. **StrategyEval** drives
the maker as `strategy_eval.cpp` does, a policy switching its sides after each event, and
runs the naive pass that `sim_mm.cpp` writes out on its own beside it on the same tape.

**Replay** is what the studies measure: in a first pass over a tape the mids are recorded
when they change and the signal is sampled on its grid (`Observe`); in a second each fill
of two policies is marked out (`Score`, `MidAt`). `Bucket`, `WeightedMean` and
`PairedPoint` are the block arithmetic of `bootstrap.hpp`.

**ExtractTape** is the pass of `extract_tape.cpp`: one action per kind of message, with
the routing index and the gate before tapes are written. The feed is any sequence of
messages: a message may name an order that does not rest, take more shares than rest, or give
a new order the reference of one that rests. `live` is what a book would hold that was told of
all of them, and `faults` what was wrong with them. A tape is represented by the map book that
has replayed it. **ItchStat** runs the table and the
counters of `itch_stat.cpp` on the same messages, with the half of its gate that asks for
them (`GatePasses`); the half that asks the reader is `FramingPasses` in `ItchReader`.

**ItchStream** is a file as a sequence of frames, the last one possibly cut off, and what
the views of `messages.hpp` read from a message. A body byte is represented by the frame
and offset it came from, so a field shows which message it was read from, whatever the
values. **ItchReader** is `Reader::next`, one step per frame; **ItchParser** is
`itch_parse.sv`, one step per clock edge, with the nonblocking assignments as primed
variables; **ItchCosim** is the test bench that compares them (`Compare`, and `FuzzAgrees`
for its fuzzer), with idle cycles allowed between any two bytes.

Definitions whose comment begins "Seeded fault" are not part of any specification. Each
is a variant of the definition that follows it with a plausible mistake, and the
`mutants` of `PROJECT.json` record which property detects it.

## 3. Runs

| Run | Question | Properties |
|---|---|---|
| `spsc` | Does the acquire/release ring with cached indices carry messages over several laps, in order, without a data race, and does it finish? | `InOrder`, `RaceFree`, `MaskIsExact`, `ImplementsFifo`, `AllDelivered` |
| `shm` | A subscriber that opens the ring at any moment of its creation, is lapped at any moment, and whose publisher waits for a reader or not, and may die and be started again: is what it gets whole and in order, is every message in exactly one of its counts, is no gap invented, does nothing of an earlier ring pass for this one, and does it stop? (Unless a restart has the two wait for each other.) | `NothingTornInSession`, `Accounted`, `OpensWholeRing`, `GapOnlyWhenOverwritten`, `ImplementsFeed`, `SubscriberStops` |
| `shm_restart` | Is a subscriber that outlives a restart told of everything it did not get? (No.) | `NothingAbsorbed` |
| `pipeline` | Do three threads over two rings produce the fills of one thread, and return with nothing left in a ring? | `SameFills`, `Terminates` |
| `crossval` | Do the four designs agree with each other, with a recount of their own orders and with the abstract book, and what is left of that when the order pool, the level pool and every id table are full? | `Gate`, `ShowTheirOrders`, `PoolsWhole`, `DropsAreCounted`, `StampsAreQueueOrder`, `BestIsResting`, `ImplementBook` |
| `hybrid_best` | Is `best_bid()` the best bid? (Not after a replace of the best level.) | `BestIsBest` |
| `phantom` | Is an order that was counted as rejected out of the book? (No.) | `RejectedIsDropped` |
| `openhash` | Does deletion by backward shift ever strand a key, at any load and across the end of the table? | `ProbesEnd`, `ImplementsMap` |
| `maker` | Is the queue position exact, are fills in turn, do changes land before the event they are due at and, without latency, one event late, and does the naive model bound the other, under every policy? | `AheadIsExact`, `PriorityMeansNoneBehind`, `FilledInTurn`, `NaiveFillsMore`, `OneEventLate`, `LandsBeforeFills`, `SameNaive` |
| `extract` | Does the routing index hold the live orders only, do the tapes replay to the market's book, whatever is wrong with the feed, and what does a passed gate of `itch_stat` say of them? | `RouteIsLive`, `TapesReplayToMarket`, `GateSpeaksForTapes`, `ChargedForCause` |
| `itch` | Does the reader account for every byte of any file, what does a passed framing gate say of it, and does the hardware decode the same messages, with no byte of an earlier one? | `PassIsAccounted`, `GateMeansRead`, `SameMessages`, `AssertionsHold` |
| `replay` | Is every markout taken against the mid in force at its horizon, the signal sampled once per grid step, and every markout in one block? | `MarkedToMidInForce`, `SampledOncePerCell`, `BlocksHoldAll` |

Some properties deserve a word.

* `ShowTheirOrders` compares each design's hand-kept aggregates with a recount of the
  orders the same design holds, and `ImplementBook` maps each design's orders to the
  abstract book; together they imply `Gate`, the comparison the program itself makes, and
  they also hold where the program cannot look (below the snapshot's depth, and when all
  four designs are wrong in the same way). In `ImplementBook` a design whose pools or id
  table are full may refuse an order, which is then missing from its abstract book, so
  that design alone may differ afterwards; `DropsAreCounted` says it has told so.
* `ShowTheirOrders` and `BestIsResting` except a pooled design while it holds a stranded
  order: one that its id table refused after it was linked (`phantom`). Such an order is shown
  and cannot be acted on, so no recount of the orders that can be gives what is shown.
  `NoneStranded` says that there is none; it holds again when the book has been cleared. A
  refusal by a pool, and every refusal of `FlatBook`, is not excepted.
* The properties of `shm` are about a subscriber that has the ring now being written
  (`Current`). One that still maps the ring of an earlier session is what `shm_restart`
  is about. `SubscriberStops` is about any: it counts a subscriber as stopped that exited, was
  killed, or is `mislaid` and not followed further. With `--wait-readers` there is one
  way for it not to stop: the publisher dies after the subscriber has attached, `create` of
  the next one zeroes the count of readers (`Resize`), and `shm_pub.cpp:51` waits for a reader
  while the subscriber, which attaches only once, polls the emptied ring. `EachWaits` says so,
  and the property, that there is no other. Without the option it is never true.
* `AheadIsExact` holds under executions out of turn as well: it says that the shares ahead
  are exact or that the maker's own diagnostic has counted a violation.
* `NaiveFillsMore` compares the two models inside `MarketMaker`. The naive pass of
  `sim_mm.cpp` is the naive model except for trades that go through a quote, which it does
  not see; `SameNaive` says exactly that, so its shares do not bound anything.
* `LandsBeforeFills` reads an event's fill against the quote and the book before the event:
  what was due by then must be what was filled, at the touch there was and behind all that
  rested. The rest, that nothing that is due
  stays in flight after an event, is the theorem `NothingPutOff`.
* `GateMeansRead` and `GateSpeaksForTapes` together are what a passed gate is worth. The
  file was read whole but for frames shorter than a header. Unless a reference was given to
  two orders that rest at a time, which is counted and not asked for, `extract_tape`
  has turned nothing down and writes its tapes, and the gate's table has every order of the
  routing index. It may have more: of an oversized reduction `itch_stat.cpp:115` takes
  nothing, where `extract_tape.cpp:132` retires the order, and the gate does not ask for the
  oversized counters. Only where those, which are printed, are zero too do both programs know
  the same orders with the same shares.

In runs that end with `CHECK_DEADLOCK FALSE` (`maker`, `extract`, `replay`) a behaviour
ends when the bound on orders or events is used up: the tape is finished. All other runs
check for deadlock; a program that has returned stutters explicitly (`Done`, `Joined`,
`Ended`).

## 4. Bounds

| Run | Instance | Why it is enough |
|---|---|---|
| `spsc` | 4 slots, 9 messages | three laps, so a slot is written, read and written again twice; the ring is both full and empty many times. The proofs cover the rest |
| `shm` | 2 slots, 4 messages, 2 attempts in place of 64, one restart | two laps in each session; a slot can be torn on every attempt, which reaches the branch that gives up; more attempts repeat the same loop. A second restart meets the same states as the first, an older mapping and a fresh file. Each time it is started, the publisher waits for no reader, the default of `shm_pub`, or for one, as in `shm_demo.sh:46` (`WaitReaders` is both) |
| `shm_restart` | 2 messages, no waiting for a reader | the shortest tape a subscriber can be ahead of |
| `pipeline` | 2 messages per ring, 4 events, up to 3 fills each | one event's fills exceed a ring, and the tape exceeds the other |
| `crossval` | 3 references, 2 ticks in the window, one price between ticks and one beyond it, shares 0 to 2, 3 adds, up to 2 rejected orders per design; books with room for everything, and pools of 2 orders and 1 level, whose id table takes one order as does that of the `FlatBook` beside it | every branch of the window is taken and shares may be zero. Three orders at up to two prices are needed for a list with a middle and for a best level with one behind; the roomy books have them. In the small ones the order pool, the level pool, the pooled id table and `FlatBook`'s all fill; an order is stranded, fills the pool it is in, and adds, replaces and a clear follow the refusal. A full order pool beside a free level is left to the theorems |
| `openhash` | 8 slots, 6 keys, homes 0 and 6 | 5 keys may be in, so runs from slot 6 wrap around and mix with keys at home in slot 0; a sixth key is refused |
| `maker` | 3 references, 3 adds, 3 prices, pools that do not fill, quotes of 2 shares, latency 0 or 2 events, five policies | orders in front and behind at one price, a touch that moves twice while a change is in flight, thresholds a touch of two shares against one is above and below |
| `extract` | 3 adds or replaces, 3 references, 2 symbols, both wanted, an index of 2, at most one order resting when the slice begins, up to 2 counters of the gate going up | one order more than the index holds; every message for any reference, resting or not, with 1 or 2 shares of the 1 or 2 that rest; references retired by each of their four routes and used again; a symbol announced at any time or never, so that its orders are those of an unwanted one; a message for an order whose beginning the slice does not show. Three counters at once, more orders from before the slice and wider indexes are left to the theorems |
| `itch` | every type of the table at its length and one byte off it; unknown types around the header's length and around 256; every file of two or three frames from a mix of twelve; the last frame whole or cut off at several places | the parser's state after a frame is its registers, so two frames show what one leaves for the next, and a third lies between them; length 256 has a low byte of zero |
| `replay` | 4 events 0, 1 or 3 apart, two mids and a one-sided book, horizon 1, grid and blocks of 2 | several events in one instant, a quiet grid step between two events, a horizon that falls on, between and after the changes; fills at the ends of the span and at a block's edge |

References and policies are interchangeable model values, and `SYMMETRY` is declared only
where no property is temporal with fairness. `MaxAdds`, `MaxOrders`, `MaxEvents`,
`MaxRejected`, `MaxCharges` and `Restarts` bound counters in the guards of the actions that raise them.
The sequence numbers of the rings are 64 bits wide in the code and unbounded here. The
insertion stamp `next_seq_` of the hybrid book is 32 bits wide and unbounded here, so that
a stamp that comes round after 2^32 adds to one book is outside of `StampsAreQueueOrder`.

## 5. Memory models and fairness

`SpscRing`: a load of the other thread's index returns any value not older than the one
this thread last saw. What a release store covers is carried by `seenWrites` and
`seenReads`, which an acquire load of that index hands over; under `Relaxed` nothing is
handed over. A plain read of a slot may return any write not older than one the reader
knows of. A race is then a state property, `RaceFree`: the producer is only about to write
a slot whose last read it knows of, and exactly one write is readable when the consumer is
about to read.

`ShmRing`: the fences order the version accesses against the payload accesses, and nothing
orders the payload accesses among themselves, so words are stored and loaded in every
order, each interleaved with the other process. The version is read from memory as it is;
loads of `write_seq` and `eof_seq` may be stale but never go back. In `ShmSession` the
stores of the header fields come in any order before the magic, which is a release store;
every word of a file that was emptied and given its size again is zero for everyone who
maps it, and an access in between ends the process.

Fairness:

* `SpscRing` and `Pipeline`: weak fairness on each thread's steps. The threads spin and
  never block, and the platform schedules every thread that can run. In `Pipeline` the
  spinning itself is the action `Spin`, which changes nothing and needs no fairness.
* `ShmSession`: weak fairness on the steps of both processes, creation included, and strong fairness on a load
  that returns the newest value of `write_seq` or `eof_seq`. The loads are in a loop, so
  the action is enabled again and again but not continuously, and the C++ memory model
  requires a store to become visible in a finite time. Without the second the subscriber
  could read a stale counter for ever. That a publisher that dies is started again on the same
  path is an assumption about whoever runs it: nothing in the repository does it, and
  `shm_demo.sh` (lines 45-55) starts one publisher and removes the ring first. What makes it
  possible is that `create` opens with `O_TRUNC` and takes a ring that is there for its own.
  `Crash` itself has no fairness; it need not happen.
* The books, the hash map, the market maker and its drivers, tape extraction, the feed
  check, the ITCH reader and the hardware parser are sequential and have no fairness: nothing in them waits.

## 6. Proofs

`Containers_proofs` proves about `SpscRing`, for every capacity that is a power of two
(`CapacityAssumption`, which the constructor enforces), every number of messages and both
caching policies, assuming `Ordering = "AcqRel"`:

| Theorem | Says |
|---|---|
| `TypeCorrect` | `[]TypeOK`, which no run repeats |
| `FirstInFirstOut` | `[]InOrder`: what was popped is what was pushed, in order |
| `RaceFreedom` | `[]RaceFree`, from `WritesRaceFree` and `ReadsRaceFree`: no slot is accessed by both threads without an order between them |
| `MasksAreExact` | `[]MaskIsExact`: a masked comparison answers full or empty exactly when the positions do |
| `Refinement` | `ImplementsFifo`: the ring is a `BoundedFifo` of `Capacity - 1` messages |

The argument. `InOrder` is not inductive: it says nothing about the slots. The inductive
invariant `IInv` adds that positions stay within one lap,

    seenHead <= popped <= seenTail <= pushed <= seenHead + Capacity - 1

(`WithinLap`), that each thread still has what its last comparison found out, room or a
message (`Established`), that it knows of the other's accesses up to the index it has loaded
(`Informed`), and that one message is received per pop (`OnePerPop`). Two positions less than
a lap apart use the same slot only if they are equal (`SameSlot`), so the slot the producer
writes is none of those, and the masked comparisons are exact (`FullIsExact`, `EmptyIsExact`).
`NextIInv` has one lemma per action. Every theorem about a property then follows from
`Invariance`; `Refinement` needs in addition that each action is a step or a stutter of the
queue.

The run `spsc` checks the same properties for one capacity and the cached policy; the proofs
are the only cover of the `Uncached` policy. They need `AcqRel` for the reason the litmus test
was written: under `Relaxed`, `ReadRaceFree` is false.

`ShmSession_proofs` proves about `ShmSession`, for every capacity that is a power of two,
every tape, and any number of attempts and restarts:

| Theorem | Says |
|---|---|
| `LayoutIsWhole` | `[]OpensWholeRing`: past the magic no field is missing, unless the ring was created again since |
| `ReportAddsUp` | `[]Accounted`: received plus missed is what the subscriber has moved over, and it leaves at the end of the tape only |
| `NoTornMessage` | `[]NothingTornInSession`: a copy that is delivered is whole and of the message wanted, in whatever order its words were stored and loaded |
| `GapsAreReal` | `GapOnlyWhenOverwritten`: each of the three ways `try_read` reports a gap proves that the message is being or has been overwritten |
| `RingIsFeed` | `ImplementsFeed`: each step of either process is a step or a stutter of `LossyFeed` |

`LaidOutInOrder` strengthens the first: the magic is there only with the fields it vouches
for, and a subscriber between the checks has seen the magic of the session it checked, so a
missing field means another session. `CountsFit` strengthens the second: every sequence number
in the mapping, or in a copy of it, is one of the tape, whichever session wrote it; so a gap
that is skipped ends inside the tape. The other three rest on `SeqlockInv`, which is the
seqlock as an invariant. A slot's version is odd while it is written and otherwise twice the
number of its lap, so that an even version names the message whose words are under it
(`VersionsName`, `SlotInHand`, `SlotsAtRest`). Within a session versions only go up, so a
subscriber that loads the same even version before and after its copy has copied one message
(`ReadsInOrder`: while the version it loaded is the slot's, the words it has are the slot's),
and an earlier session's copies were thrown away (`SessionsApart`). A version that is past the
wanted turn is what makes a gap real. The assumptions are `CapacityAssumption`,
`BoundsAssumption` and `RestartAssumption`.

`Containers_proofs` also proves about `Pipeline` `HandoffChangesNothing`, `[]SameFills`, for tapes
of any length, events that yield any number of fills and rings of any capacity
(`PipelineAssumption`). The invariant is that digested, queued in ring2 and pending fills, one
after the other, are the fills of the events the strategy has taken (`Conveyed`), and that
ring1 holds the messages that follow those (`Numbered`). The gateway returns on an eof, which
is on ring2 only behind everything else (`EofComesLast`).

`Containers_proofs` also proves about the hash map, for a table of any capacity, any hash function
and any keys and values (`TableAssumption`):

| Theorem | Says |
|---|---|
| `TableIsSound` | `[]TableInv`, the invariant below |
| `ProbesAlwaysEnd` | `[]ProbesEnd`: a slot is always empty, the size is that of the entries and within the load limit, and the probe from an entry's home finds it |
| `TableIsMap` | `ImplementsMap`: every operation is a step of `BoundedMap`, refused exactly at the limit |

`TableInv` is the invariant of linear probing: no key is in two slots (`Once`), and no slot
from an entry's home up to its own is empty (`Reached`). Deletion by backward shift is a walk,
and `Trail` is what is true in the middle of it: the gap still counts as in use, ways lead
over it, and every entry the walk has passed since has its home behind the gap, which is what
the cyclic comparison in the code tests (`StaysIs`). Where the walk meets an empty slot no way
can lead over both, so none leads over the gap, and it can be emptied (`GapCloses`). The walk
is a recursive function; that it exists, and that `Trail` holds after each of its turns, is
induction over the numbers with a set in the place of the predicate (`SetInduction`), and so
within the prover's reach.

`Itch_proofs` proves about the feed check and the tape extraction it extends, for any symbols,
orders and sizes and an index of any capacity (`ExtractAssumption`):

| Theorem | Says |
|---|---|
| `IndexIsMarket` | `[]RouteIsLive`: through any messages, the routing index is the live orders the slice has shown, until it turns an order down or a reference is given to two |
| `TapeIsMarket` | `[]TapesReplayToMarket`: each tape that is written replays to the orders its symbol has had since it was announced, unless a reference was given to two |
| `GateVouchesForTapes` | `[]GateSpeaksForTapes`: when the gate of `itch_stat` passes, without such a reference the tapes are written and its table has every order of the index; with the oversized counters at zero too the table is the index, and nothing was wrong with the feed but such references |
| `ChargesHaveCause` | `ChargedForCause`: the first time a counter goes up, what it is named after is in the feed, or the order rested before the slice, or the table is full |

`TapeInv` relates four functions of the order reference: the market's orders (`MarketFits`),
the index (`RouteIsMarket`), each tape's book (`TapesFollow`), and what has been seen. It
needs nothing of the feed, since the index, the tapes and the market's book treat an orphan
and an oversized reduction alike; it says no more once an order was turned down or a reference
used twice, because the tape of such an order has it and the index does not, or has another.
`GateInv` relates the two programs in two stages. As long as nothing was charged but
duplicates, the table is the index whatever the duplicates were (`Clean`, `InStep`): both
overwrite the entry. As long as the gate passes and there was no duplicate, the
table has all the index has (`Covers`), so that where the table has room the index has too
(`RoomFor`); a charge for an oversized reduction moves the two apart in that direction only.

`Itch_proofs` also proves about the reader and the hardware parser, for every file: any number
of frames of any types and lengths, cut off anywhere in the last (`FilesAssumption`):

| Theorem | Says |
|---|---|
| `ReaderAccounts` | `[]PassIsAccounted`: the counters of `Reader` add up to the bytes and frames of the file |
| `FramingGateSound` | `[]GateMeansRead`: a passed framing gate means the file was read whole, but for frames shorter than a header |
| `ParserMatchesReader` | `[]SameMessages`: the parser decodes the messages the reader hands out, field by field, with no byte of an earlier one |
| `HardwareAssertions` | `AssertionsHold`: the assertions embedded in the RTL hold at every edge |

The reader is a loop over frames, and `ReaderInv` says what its counters are after any number
of them, running (`Reading`) or stopped (`StoppedAt`). The parser is a loop over bytes:
`ParserInv` says that it is at byte k of some frame f, and that each of its accumulators,
which shift in the bytes of a window of the frame, holds the last of those before byte k
(`RegsHold`), whatever it held before. The multiplexers at the end of a message then pick, for
each type, exactly the fields the C++ views name, because the type is known before the first
byte of any window and a message of the right length has filled its windows
(`SelectedIsView`).

`StrategyEval_proofs` proves about the market maker under its drivers, for every book, tape,
latency and policy (`MakerAssumption`, `PolicyAssumption`):

| Theorem | Says |
|---|---|
| `NothingPutOff` | `[]LandsWhenDue`: no change of a quote is forgotten while the book is two-sided |
| `DueLandsFirst` | `LandsBeforeFills`: a change that is due when an event happens has landed by then, in the book before it |
| `ActsOnWhatItSaw` | `OneEventLate`: without latency a quote is at the touch the event left, and on as the touch before decided |
| `PassIsNaiveMaker` | `SameNaive`: the naive pass written out in `sim_mm.cpp` and the naive maker keep the same quotes and fills, but for sweeps |
| `PositionIsExact` | `[]AheadIsExact`: the shares a position believes ahead are those that rest there, or fewer once the diagnostic has counted |
| `StrictPriority` | `[]PriorityMeansNoneBehind`: the diagnostic stays at zero as long as the tape executes heads of levels only |
| `FillsAreInTurn` | `[]FilledInTurn`: a queue-aware quote that is filled has none of the shares it joined behind left in front |
| `NaiveOverstates` | `[]NaiveFillsMore`: without latency the naive maker never has had fewer shares than the queue-aware one |

`Delayed` bounds every wait by the latency, and is all that `DueLandsFirst` needs: what was in
flight with no more wait than the time that has passed is landed by `Arrived`, before the
fill. `Grounded` has nothing in flight between two events when there is no latency, because a
change is landed at the end of the event it was decided in; `Informed` has the switches be
what the policy made of the last two-sided touch. `Passing` keeps the three facts the naive
pass needs: what it asks the book is told by members that a query does not change (`Tells`), a
policy that always quotes never switches a side off (`AlwaysOn`), and a naive quote between
two events is whole (`NaiveWhole`).

The four theorems on positions and fills stand on `HybridBook_proofs`, instantiated as `HP`
with the constants the maker gives its book; the lemmas named `Same...` say that the two
instances of the book are the same operators. `Queued` keeps the book well formed (`BookInv`)
and every position of an active quote exact (`Exact`): the shares it has ahead are at most,
and without a count of the diagnostic exactly, `Ahead`, the shares of the orders of its side
and price that were stamped before it joined. That is inductive because of two facts about the
book: a quote that joins has all that rests at its price ahead of it, since every stamp is
below the next (`RestingIsAll`), and an event takes from `Ahead` what it takes from an order
stamped earlier, and adds nothing to it, since what it adds has a new stamp (`EventAdvances`).
A head that trades is the oldest of its level, so if any share is ahead, it is one of those
(`HeadIsAhead`); that is `StrictPriority`. The exactness before the event and the count of
shares that went through it make `FillsAreInTurn`.

`lead >= 0` by itself is not inductive: after both makers have been filled, the naive one may
be renewed at full size while the other still has shares to lose. `Leading` says by how much
it must be ahead on each side: with `q` and `n` shares left in the queue-aware and the naive
quote, by `q - n`, or by `QuoteSize + q - n` if the naive one has more left, for then it has
been renewed once more (`Gap`). Any trade that reaches the queue-aware quote reaches the naive
one, at the same price, from its first share, so a gap grows by no more than the naive maker
gains (`GapAfterFill`), and a requote, which makes both prices the touch, does not make it
grow (`LateApart`).

`Replay_proofs` proves about `Replay`, for tapes of any length, events that share an
instant, one-sided books, every horizon, grid and block, and however the policies are filled
(`ReplayAssumption`):

| Theorem | Says |
|---|---|
| `NoLookAhead` | `[]MarkedToMidInForce`: a fill is marked out against the mid in force a horizon later, or not at all, when there is none or the last change of mid is before that |
| `OneSamplePerCell` | `[]SampledOncePerCell`: the samples are the first events of each cell of the grid, but the one the tape begins in, that an event with a touch fell in |
| `NothingLeftOut` | `[]BlocksHoldAll`: the blocks over the common span hold every markout of both policies once, so the paired point is that of the plain means |

`GridInv` says what the variable `next_sample` means: it is the end of the last cell that an
event with a touch fell in (`Due`), so an event that comes at or after it is the first of its
own cell, however many cells were skipped. `MidsInv` says that the k-th mid was recorded at
the k-th change (`Recorded`), and was the mid at every event until the next (`Standing`); so
the upper-bound search of `mid_at` finds the mid in force, also where several changes share a
time (`MidAtIs`). `ScoreInv` counts: the fills that are scored, in their order, are the
observations (`Matches`). `OrderInv` has these in order of time, so that the first and the
last of the two series bound the span, each block number is one of the vector's
(`CellsInOrder`), the blocks are a partition of each series, and the sum of sums over a
partition is the sum (`SumOfParts`). The community modules sum over a set in an order they
choose; that the order does not matter is proved first (`SumIsFold`, `SumOfBoth`).

`HybridBook_proofs` proves about the hybrid book, for pools of any size, any price window and
tick, any orders and any events in any order (`HybridConstants`):

| Theorem | Says |
|---|---|
| `BookIsSound` | `[]BookInv(book)`, the invariant below |
| `PoolsStayWhole` | `[]PoolsWhole`: no pool entry is lost, in use twice or freed twice, and a level is found, on its side and at its price, exactly while it is in use |
| `DropsStayCounted` | `[]DropsAreCounted`: the next order is found afterwards or counted as rejected, and never both |
| `BestStaysHeld` | `[]BestIsHeld`: the best prices are prices at which the pool holds an order, whatever the cached tick was worth |
| `HybridIsBook` | `ImplementsBook`: every event is a step or a stutter of `OrderBook` |
| `ListsStaySound` | `[]ListsSound`: the walk from each level's head meets its orders, all of them, once, linked both ways, and the level's totals are theirs |
| `StampsStayQueueOrder` | `[]StampsAreQueueOrder`: the shares that `shares_ahead_of` counts on its walk are those of the orders with a lower stamp |
| `OrdersAreFound` | `[](book.rejected = 0 \/ RoomForAll => NoneStranded)`: every order in a level is found by its reference |
| `SnapshotIsRecount` | `[](NoneStranded => ShowsItsOrders)`: the snapshot is a recount of the orders |
| `BestRests` | `[](NoneStranded => BestIsResting)`: the best price is one at which an order rests that can be acted on |

`BookInv` says the same as the walks of `ListsSound` without walking: an order's neighbours
are on its level and point back, the one in front has the lower stamp, a level begins and ends
at the orders that have no neighbour there, and its count and its shares are those of the
orders that name it (`Queues`). The window and the overflow map are together one table of
levels by side and price, in which each level is found at one place, where its orders are
(`Found`), the bitmap is the occupied ticks and the hint is one of them or unknown (`Marked`),
and each free list is a stack of the entries that are not in use (`Stacked`, `PoolsFit`).
`Sound` is what is left of it in the middle of an event, when a level may have no order. Each
member function has a lemma that says what it keeps and, in terms of orders and prices alone,
what it does (`AddsOrder`, `TakesOut`, `TakesShares`). `BestIsHeld` is not `BestIsResting`:
the orders the pool holds include those the id table refused (`phantom`), and for arbitrary
sizes these may be all there is at the best price.

That is also why `SnapshotIsRecount` and `BestRests` have a premise. An order that
`hybrid_book.hpp` has linked and whose id the table then refuses stays in its level, is shown,
and cannot be reached by its reference any more, so a recount of the orders that can be is not
the snapshot. `NoneStranded` is the premise, and part of the properties `ShowTheirOrders` and
`BestIsResting` of the comparison, as that of each pooled design. It is about the state and not
about the sizes: a book that has turned orders down for want of a pool entry satisfies it, and
so does one that was cleared. `OrdersAreFound` says when it is sure to: it takes a full id
table to strand an order, so a book that has turned nothing down has none, nor has one in which
there are no more references than the table has room for, `(orders * 7) \div 10`
(`RoomForAll`). In `crossval` the roomy build has that room and the small one has
not, and both the premise and its negation occur there.

The walks are recursive functions, and what they return is proved by induction over the number
of steps, with a set in the place of the predicate. A walk along `next` that has seen n orders
holds the n first of the level (`Chain`, `WalkSteps`): distinct, each stamped later than the
one before, with nothing of the level stamped lower than its end but what has been seen. After
as many steps as the pool has entries it has met every order (`WalkIsChain`), from which
`ListsStaySound` and `StampsStayQueueOrder` follow. The merge of window and overflow map in
`collect` puts the prices of both in one order (`CollectIs`). `Known` is the invariant that
gives the premise its use: in a book with room, or that has turned nothing down, every order
in the pool is found by its reference.

`BookCrossval_proofs` proves about the four books under one event stream, for any window,
depth, pools and tables (`ConstantsAssumption`):

| Theorem | Says |
|---|---|
| `GateStaysOpen` | `[]Gate`: the verdict of `book_crossval.cpp` at every event of every tape: the four agree as long as none has turned an order down |
| `BooksShowTheirOrders` | `[]ShowTheirOrders`: each snapshot and, but for the hybrid book's, each best price is a recount of that design's own orders, in a pooled design unless an order is stranded |
| `NoneAreStranded` | `[](hybrid.rejected = 0 \/ RoomForAll => Intrusive!NoneStranded /\ Hybrid!NoneStranded)`: when none is |
| `PoolsStayWhole` | `[]PoolsWhole`, of both pooled designs |
| `StampsOrderQueues` | `[]StampsAreQueueOrder`, in the book that is compared |
| `BestStaysResting` | `[]BestIsResting`, for the window of `FlatBook` and, unless an order is stranded, that of `HybridBook` |
| `DropsStayCounted` | `[]DropsAreCounted`, of the three bounded designs |
| `BooksImplementBook` | `ImplementBook`, of all four |

The argument has a part per design. The map book and the flat book are functions of the orders
they hold. `View` is those orders by reference, `At` the ones at a price, `Tally` their shares
and their number, `Recount` the snapshot they give; adding to, taking from and reducing an
order change one `Tally`, and the set of quoted prices by at most one (`TallyMoves`, `Quotes`,
`QuotesNot`). `MapIs` has the levels of `map_book.hpp` be these tallies; `FlatIs` has the
grid, the bitmap and the overflow map of `flat_book.hpp` be them, and the cached best tick an
occupied one or unknown.

The hybrid book compared is an instance of the one above (`HP`), and what is proved of that
holds of it step by step. The intrusive book is proved by lockstep with it (`Twin`, in
`PooledBooks_proofs`): both take entries from their free lists in the same order, so their
levels, their id tables and their free lists are equal and their orders too, but for the
stamps. What differs is how a level is found. The intrusive book keeps a vector sorted by
price, searched by bisection; the bisection (`Position`, a recursive function of the bounds)
ends at the place (`BisectionFinds`) of a price among those below and above it, so that the
vector lists exactly the levels the hybrid book finds by its window and its map (`Indexed`),
and every member function takes twins to twins. Lists, pools, counted drops and snapshots are
then carried over. Last, a design that has turned nothing down holds the map book's orders
(`Follow`); four recounts of the same orders are equal, which is `Gate`.

Model-checked only: what needs fairness (`AllDelivered`, `SubscriberStops`, `Terminates`),
which is beyond the prover. The `expect: violation` runs show what is not true and are not to
be proved. Every other property of every run is stated by a theorem, as the run has it.

`LevelQueues` writes an entry amended in the place of a function out of two `EXCEPT`s with the
old entry named, never with `@` inside `@`: TLC reads both alike, tlapm 1.4.5 only the first.

## 7. Where the code and its comments disagree

Each of these is a run of its own; the quoted lines are in `PROJECT.json`.

* `shm_restart` - a publisher that is started again empties the ring under a subscriber
  that has it mapped, and nothing in the ring tells one session from the next. If the
  subscriber is not killed in the instant the file is empty, it waits until the new
  publisher has come as far as it had read and goes on from there: the first messages of
  the new tape are neither delivered nor counted as missed.
* `hybrid_best` - the cached best tick uses -1 for both "unknown" and "no level"
  (`hybrid_book.hpp:234`, `flat_book.hpp:161`). A replace of the only order of the best
  level leaves the cache at the replacement's price though better levels rest, and the
  market maker quotes from it. What does hold, and is checked, is `BestIsResting`: the
  answer is the price of some level.
* `phantom` - an order the id table refuses is counted as rejected but stays linked in
  its level, for the intrusive and the hybrid book.

Smaller ones that were met while modelling. They are kept in the models as the code has
them, and the properties that hold are worded accordingly.

* `try_read` (`shm_ring.hpp:191`) sends a lapped subscriber to the newest message of the
  slot, past messages that are still in the ring, where the comment at lines 160-161
  promises the oldest one still present. The skipped messages are in the missed count
  (`Accounted`).
* Changes in flight land only while the book is two-sided (`market_maker.hpp:88-90`), so
  after a one-sided book an old quote may be filled although its replacement was due;
  `NothingPutOff` is about two-sided books.
* The gate of `itch_stat.cpp` (lines 204-208) does not ask for `short_message`, so frames
  shorter than a header pass it, although its header comment has every length prefix
  agree with the type. `GateMeansRead` excepts such frames.
* The gate does not ask for `oversized_*` or `duplicate_add` either (line 206-208), which are
  printed: a feed that passes with these may leave the two programs with different tables
  (`itch_stat.cpp:115` keeps an order that `extract_tape.cpp:132-133` retires).
  `GateSpeaksForTapes` says what is left.
* A publisher with `--wait-readers` that is started again on the path of a ring someone has
  mapped waits for a reader that will not come (`shm_pub.cpp:51`, `EachWaits`).
* `mid_at` (`sim_mm.cpp:38-44`, the same in `latency_sweep.cpp` and `strategy_eval.cpp`)
  answers "none" for a time after the last change of the mid, although the mid stands
  until the end of the tape: fills that late are not marked out. `MarkedToMidInForce`
  excepts exactly those.
* With fewer than eight blocks, or fewer than fifty usable resamples, the interval of
  `bootstrap.hpp` collapses to its point, and `excludes_zero` then holds for any point but
  zero.

## 8. Not modelled

* Real-valued statistics: order-flow imbalance with its exponential decay, the microprice,
  correlations, deciles, and the random resamples of the bootstrap with their
  percentiles. Nothing in them is a state machine, and TLC has no real numbers. What is
  discrete around them (touch, thresholds, grid, blocks) is in `Signals` and `Replay`.
* `mapped_file.hpp` and `tape.hpp`: I/O, and a percentile whose result the books take as
  the constants `Lo`, `Hi` and `Tick`.
* Benchmarks, clocks, counters, thread priorities, padding: they measure.
* Digests, reports, printing, throughput pacing, counters no decision depends on. The
  gate of `itch_stat` also asks for no allocations and no system calls, which is a
  measurement.
* The scripts and the build.
* A reset of the hardware parser in the middle of a stream, which the test bench never
  does.

## 9. Plan

The order in which the modules were written is the order of section 2's paragraphs: the
rings first, since everything else relies on them, then the books, what trades on them,
and the two ends of the feed. The proofs followed in the same order, the hybrid book before
what is proved from it: the maker's positions, the intrusive book, the comparison.

Every safety property, action property and refinement the runs check is now a theorem as well.
What is left is wider models: a 32-bit insertion stamp that may come round,
a reset of the hardware parser in the middle of a frame, and the discrete part of the
studies' reports.
