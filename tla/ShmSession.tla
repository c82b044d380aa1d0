----------------------------- MODULE ShmSession -----------------------------
(*********************************************************************************)
(* ShmRing from before the file exists: create and open of                       *)
(* include/hotpath/ipc/shm_ring.hpp, and a publisher that dies and is started    *)
(* again on the same path, with the same tape, while a subscriber is at work.    *)
(*                                                                               *)
(* create empties the file, gives it its size, and stores the header, magic      *)
(* last.  A subscriber whose open throws is run again.  One that touches its     *)
(* mapping while the file is empty is killed (SIGBUS); one that reads a capacity *)
(* of zero computes with nonsense from then on, and is not followed further.     *)
(*********************************************************************************)
EXTENDS ShmRing

CONSTANT Restarts      \* how often the publisher may die (a bound)

ASSUME RestartAssumption == Restarts \in Nat

Fields == {"version", "capacity"}      \* slot_bytes and slot_stride go with capacity

VARIABLES
    file,        \* "none", "empty" or "sized"
    header,      \* the Fields that are stored, and "magic"
    session,     \* how often the ring has been created
    checked,     \* the session whose magic the subscriber has seen
    told         \* history: messages of this session delivered or reported missed

sessionVars == <<file, header, session, checked, told>>
allVars == <<vars, sessionVars>>

SessionInit == /\ RingInit /\ publisher = "create" /\ subscriber = "open"
               /\ file = "none" /\ header = {} /\ session = 0 /\ checked = 0 /\ told = {}

-----------------------------------------------------------------------------
(* ShmRing::create. *)

(* ::open with O_CREAT | O_TRUNC: what is mapped is gone for everyone. *)
Truncate == /\ publisher = "create"
            /\ publisher' = "resize"
            /\ file' = "empty" /\ header' = {}
            /\ session' = session + 1 /\ told' = {}
            /\ UNCHANGED <<slots, writeSeq, eofSeq, toWrite, readers, checked>>
            /\ UNCHANGED subVars

(* ftruncate and memset: every word of the new file is zero, also for one who *)
(* still maps it.                                                             *)
Resize == /\ publisher = "resize"
          /\ publisher' = "layout"
          /\ file' = "sized"
          /\ slots' = [i \in DOMAIN slots |-> Blank] /\ toWrite' = {}
          /\ writeSeq' = 0 /\ eofSeq' = 0 /\ readers' = 0 /\ seenSeq' = 0
          /\ UNCHANGED <<subscriber, next, attempt, version1, copy, toRead, delivered,
                         missed>>
          /\ UNCHANGED <<header, session, checked, told>>

StoreField == /\ publisher = "layout"
              /\ \E field \in Fields \ header : header' = header \cup {field}
              /\ UNCHANGED vars /\ UNCHANGED <<file, session, checked, told>>

(* Seeded fault: the magic is not the last store. *)
LaidOutAtOnce == publisher = "layout"

LaidOut == publisher = "layout" /\ Fields \subseteq header

(* magic.store(kShmMagic, release). *)
Stamp == /\ LaidOut
         /\ header' = header \cup {"magic"}
         /\ \E n \in WaitReaders : publisher' = Waits(n)
         /\ UNCHANGED <<slots, writeSeq, eofSeq, toWrite, readers>> /\ UNCHANGED subVars
         /\ UNCHANGED <<file, session, checked, told>>

(* The process ends anywhere before mark_eof has returned, and is started again. *)
Crash == /\ publisher # "done" /\ session \in 1..Restarts
         /\ publisher' = "create" /\ toWrite' = {}
         /\ UNCHANGED <<slots, writeSeq, eofSeq, readers>> /\ UNCHANGED subVars
         /\ UNCHANGED sessionVars

-----------------------------------------------------------------------------
(* ShmRing::open. *)

Goes(from, to) == /\ subscriber = from /\ subscriber' = to
                  /\ UNCHANGED <<next, seenSeq, attempt, version1, copy, toRead, delivered,
                                 missed, readers>>
                  /\ UNCHANGED pubVars /\ UNCHANGED <<file, header, session, told>>

(* ::open and fstat: throws for no file, and for one smaller than the header. *)
OpenFile == file = "sized" /\ Goes("open", "magic") /\ UNCHANGED checked

(* magic.load(acquire), and throw if it is not there. *)
CheckMagic == /\ file = "sized"
              /\ IF "magic" \in header
                 THEN Goes("magic", "version") /\ checked' = session
                 ELSE Goes("magic", "open") /\ UNCHANGED checked

CheckVersion == /\ file = "sized"
                /\ Goes("version", IF "version" \in header THEN "finish" ELSE "open")
                /\ UNCHANGED checked

(* finish_open: capacity_, and a mask and stride that go with it. *)
FinishOpen == /\ file = "sized"
              /\ Goes("finish", IF "capacity" \in header THEN "attach" ELSE "mislaid")
              /\ UNCHANGED checked

(* Any load or store through the mapping while the file is empty. *)
Killed == /\ file = "empty"
          /\ \E phase \in {"magic", "version", "finish", "attach", "poll", "slot", "copy",
                           "empty"} : Goes(phase, "killed")
          /\ UNCHANGED checked

-----------------------------------------------------------------------------
(* The steps of ShmRing; what next moves past was delivered or reported. *)
Publish == Publisher /\ UNCHANGED sessionVars
Subscribe == /\ file = "sized" /\ Subscriber
             /\ told' = told \cup next..(next' - 1)
             /\ UNCHANGED <<file, header, session, checked>>

Create == Truncate \/ Resize \/ StoreField \/ Stamp
Open == OpenFile \/ CheckMagic \/ CheckVersion \/ FinishOpen

(* Nothing is left to do: the publisher is done or waits for a reader that does *)
(* not come, and the subscriber has ended.                                      *)
Ended == /\ publisher = "done" \/ (publisher = "wait" /\ readers = 0)
         /\ subscriber \in {"exited", "killed", "mislaid"}
         /\ UNCHANGED allVars

SessionNext == Create \/ Crash \/ Open \/ Killed \/ Publish \/ Subscribe \/ Ended

SessionSpec == SessionInit /\ [][SessionNext]_allVars

(* Both processes keep running, and a polled load sees a store some day. *)
SessionFairness ==
    /\ WF_allVars(Create \/ Publish)
    /\ WF_allVars(Open)
    /\ WF_allVars(Subscribe /\ subscriber \notin {"poll", "empty"})
    /\ SF_allVars(Subscribe /\ LoadPublished(writeSeq))
    /\ SF_allVars(Subscribe /\ LoadEof(eofSeq))

FairSessionSpec == SessionSpec /\ SessionFairness

-----------------------------------------------------------------------------
(* The subscriber has the ring that the publisher is writing. *)
Current == checked = session

(* create's comment: "a consumer that opens the file mid-setup must not see a       *)
(* valid magic over an uninitialised layout".  A subscriber that got past the check *)
(* reads a capacity of zero only if the ring was created again in between.          *)
OpensWholeRing == subscriber = "mislaid" => ~Current

(* Whatever was there before it, a subscriber that opened the ring of this session is   *)
(* handed whole payloads of the messages it wanted: no version, sequence number or word *)
(* of an earlier session passes for one of this.                                        *)
NothingTornInSession == Current => NothingTorn

(* Gaps are real: a subscriber is only ever told it missed the message it wants when the *)
(* publisher has come round, in this session, and begun to overwrite it.                 *)
GapOnlyWhenOverwritten == [][Current /\ missed' # missed => Overwritten(next)]_allVars

(* To a subscriber of this session the ring is a feed that delivers in order or reports  *)
(* a gap, and that ends for it with nothing unaccounted for, restarted publisher or not. *)
ImplementsFeed == [][Current => [Feed!Next]_(Feed!vars)]_allVars

(* The subscriber has ended, or is not followed any further. *)
Ends == subscriber \in {"exited", "killed", "mislaid"}

(* shm_pub waits for a reader of its new ring, and the only reader there is, which will *)
(* not attach a second time, waits in the old one for the publisher.                    *)
EachWaits == publisher = "wait" /\ readers = 0 /\ ~Current

(* The subscriber terminates however the publisher laps it and wherever it dies, as long *)
(* as it is started again: it never waits for a message that will not come, nor misses   *)
(* the end-of-file mark, even if it has read further than the new session has come.  The *)
(* one way it polls for ever is with --wait-readers, when a restart has zeroed the count *)
(* of readers that it was in; without that option, or without a restart, it stops.       *)
SubscriberStops == <>Ends \/ <>[]EachWaits

(* shm_sub's header: "A gap is reported, never silently absorbed".  A subscriber that *)
(* has stopped was given, or told it missed, every message of the feed it has read to *)
(* the end.                                                                           *)
NothingAbsorbed == subscriber = "exited" => told = 0..(writeSeq - 1)
=============================================================================
