------------------------------ MODULE ItchStat ------------------------------
(*****************************************************************************)
(* The referential gate of src/itch_stat.cpp beside tape extraction, on the  *)
(* same feed with the same table size: a table of the live orders, and which *)
(* of the Integrity counters are not zero.  The framing part of its gate is  *)
(* with the reader it reads.                                                 *)
(*****************************************************************************)
EXTENDS ExtractTape

CONSTANT MaxCharges        \* bound on the counters of Integrity that go up

VARIABLES table,     \* live: order reference -> shares
          integ      \* the counters of Integrity that have been counted up

statVars == <<table, integ>>
allVars == <<vars, statVars>>

Counters == {"orphan_execute", "orphan_cancel", "orphan_delete", "orphan_replace",
             "oversized_execute", "oversized_cancel", "duplicate_add", "table_full"}

StatInit == Init /\ table = << >> /\ integ = {}

Charge(counters) == integ' = integ \cup counters

(* insert: an update of a reference that is live already is a duplicate. *)
FullFor(t, ref) == IF Index!Room(t, ref) THEN {} ELSE {"table_full"}

StatAdd(ref, qty) ==
    /\ table' = Index!With(table, ref, qty)
    /\ Charge(FullFor(table, ref) \cup (IF ref \in DOMAIN table THEN {"duplicate_add"} ELSE {}))

(* Seeded fault: an order is taken to be gone at its first execution. *)
StatReduceWhole(orphan, oversized, ref, qty) ==
    IF ref \in DOMAIN table THEN table' = Index!Without(table, ref) /\ UNCHANGED integ
    ELSE Charge({orphan}) /\ UNCHANGED table

(* More than rests is not taken off at all. *)
StatReduce(orphan, oversized, ref, qty) ==
    IF ref \notin DOMAIN table THEN Charge({orphan}) /\ UNCHANGED table
    ELSE IF qty > table[ref] THEN Charge({oversized}) /\ UNCHANGED table
    ELSE /\ table' = IF qty = table[ref] THEN Index!Without(table, ref)
                     ELSE [table EXCEPT ![ref] = @ - qty]
         /\ UNCHANGED integ

StatDelete(ref) == /\ table' = Index!Without(table, ref)
                   /\ Charge(IF ref \in DOMAIN table THEN {} ELSE {"orphan_delete"})

(* Seeded fault: the replaced order stays in the table. *)
StatReplaceKeeping(old, new, qty) ==
    /\ table' = Index!With(table, new, qty)
    /\ Charge(FullFor(table, new)
              \cup (IF old \in DOMAIN table THEN {} ELSE {"orphan_replace"}))

(* The new order goes in even if the old one was not there. *)
StatReplace(old, new, qty) ==
    LET without == Index!Without(table, old) IN
    /\ table' = Index!With(without, new, qty)
    /\ Charge(FullFor(without, new)
              \cup (IF old \in DOMAIN table THEN {} ELSE {"orphan_replace"}))

-----------------------------------------------------------------------------
(* A message of the feed, in both programs. *)
DirectoryMessage == \E symbol \in Symbols : Directory(symbol) /\ UNCHANGED statVars

AddMessage == \E ref \in Refs, symbol \in Symbols, side \in Sides, px \in Prices,
                 qty \in Quantities :
    /\ AddOrder(ref, [symbol |-> symbol, side |-> side, price |-> px, qty |-> qty,
                      seen |-> TRUE, told |-> symbol \in listed])
    /\ StatAdd(ref, qty)

ExecuteMessage == \E ref \in Refs, qty \in Quantities :
    ReduceOrder(ref, qty) /\ StatReduce("orphan_execute", "oversized_execute", ref, qty)

CancelMessage == \E ref \in Refs, qty \in Quantities :
    ReduceOrder(ref, qty) /\ StatReduce("orphan_cancel", "oversized_cancel", ref, qty)

DeleteMessage == \E ref \in Refs : DeleteOrder(ref) /\ StatDelete(ref)

ReplaceMessage == \E old, new \in Refs, px \in Prices, qty \in Quantities :
    ReplaceOrder(old, new, px, qty) /\ StatReplace(old, new, qty)

EndOfFeed == Finish /\ UNCHANGED statVars

Message == \/ DirectoryMessage \/ AddMessage \/ ExecuteMessage \/ CancelMessage
           \/ DeleteMessage \/ ReplaceMessage \/ EndOfFeed

StatNext == ~done /\ Cardinality(integ) < MaxCharges /\ Message

StatSpec == StatInit /\ [][StatNext]_allVars

-----------------------------------------------------------------------------
Orphans == {"orphan_execute", "orphan_cancel", "orphan_delete", "orphan_replace"}
Oversizes == {"oversized_execute", "oversized_cancel"}

(* oversized_* and duplicate_add are counted and printed, and not in the gate. *)
GatePasses == integ \subseteq Oversizes \cup {"duplicate_add"}

(* What a passed gate is worth to tape extraction.  Unless a reference was given to two     *)
(* orders, the index has turned none down, so the tapes are written, and the gate's own     *)
(* table has every order of the index with the same shares.  It may have more: of an        *)
(* oversized reduction itch_stat.cpp:115 takes nothing, where extract_tape.cpp:132 retires  *)
(* the order, and the gate passes all the same.  Only if the oversized counters, which it   *)
(* leaves out, are zero too, do both programs know the same orders, whole day or slice, and *)
(* was nothing wrong with the feed, but that a reference may have been used twice.          *)
GateSpeaksForTapes ==
    GatePasses =>
        /\ "duplicate" \notin faults =>
              /\ ~failed
              /\ \A ref \in DOMAIN route : ref \in DOMAIN table /\ table[ref] = route[ref].shares
        /\ integ \cap Oversizes = {} =>
              /\ ~failed /\ faults \subseteq {"duplicate"}
              /\ table = [ref \in DOMAIN route |-> route[ref].shares]
              /\ \A ref \in DOMAIN live \ DOMAIN table : ~live[ref].seen

(* "An orphan means we mis-parsed an offset": until the first charge each counter stands     *)
(* for what its name says.  An orphan is one, or an order that rested before the slice; an   *)
(* oversized reduction and a duplicate are in the feed; and the table is full when the index *)
(* is, but for a replacement whose old order is an orphan, which extract_tape leaves out.    *)
(* (Later charges may follow from the first: an order that was turned down is an orphan at   *)
(* each of its events.)                                                                      *)
ChargedForCause ==
    [][integ = {} =>
          /\ integ' \cap Orphans # {} =>
                "orphan" \in faults' \/ \E ref \in DOMAIN live : ~live[ref].seen
          /\ integ' \cap Oversizes # {} => "oversized" \in faults'
          /\ "duplicate_add" \in integ' => "duplicate" \in faults'
          /\ "table_full" \in integ' => failed' \/ "orphan_replace" \in integ']_allVars
=============================================================================
