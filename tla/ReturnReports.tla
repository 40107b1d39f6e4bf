---------------------------- MODULE ReturnReports ----------------------------
(***************************************************************************)
(* How the report of a returned battery reaches the order it ends:         *)
(* DetectBatteryReturn step by step, with the report repeated, delayed or  *)
(* served twice at a time, failing on the way, and an operator returning   *)
(* the battery by hand (ManualReturn) beside it.                           *)
(*                                                                         *)
(* A report carries a number, which a Redis key remembers from the first   *)
(* moment on, or none (report_seq 0), which nothing remembers.  The lock   *)
(* return:{battery} covers the search for the order and the transaction.   *)
(*                                                                         *)
(* External: the batteries themselves, what a cabinet measures, and when   *)
(* it sends a report.  It sends one report per battery put in, and may     *)
(* send it at any time and again.                                          *)
(***************************************************************************)
EXTENDS Integers, Sequences

CONSTANTS
    Batteries,      \* batteries, the rows and the things
    Slots,          \* slots
    Stock,          \* the slot each battery is in at the start, one per slot
    Requests,       \* requests being served at a time
    Free,           \* nobody: the holder of a lock that is not taken
    Out,            \* nowhere in a cabinet; also what an empty slot holds
    Socs,           \* states of charge a cabinet may measure
    Faults,         \* what may go wrong: see below
    MaxRentals,     \* bound: rentals ever begun
    MaxManual,      \* bound: returns by hand ever tried
    MaxFaults       \* bound: faults that ever happen

\* setnx: Redis answers the key with an error, which counts as "exists".
\* store: a query or the transaction fails.  judge: one of the queries of the
\* judgement fails, which is not an error.  crash: the server dies.
FaultKinds == {"setnx", "store", "judge", "crash"}

ASSUME ReturnReportsAssumption ==
    /\ Stock \in [Batteries -> Slots]
    /\ \A b, c \in Batteries : Stock[b] = Stock[c] => b = c
    /\ Out \notin Slots \cup Batteries
    /\ Free \notin Requests
    /\ Socs \subseteq Int
    /\ Faults \subseteq FaultKinds
    /\ MaxRentals \in Nat
    /\ MaxManual \in Nat
    /\ MaxFaults \in Nat

VARIABLES
    place,      \* where each battery is
    reports,    \* the reports of the cabinets, one per battery put in
    rentals,    \* rental_orders: battery and status
    records,    \* return_records, one per order: the report that made it, or 0
    slots,      \* slots: status and battery_id
    status,     \* batteries.status
    keys,       \* the reports whose key report:{cabinet}:{slot}:{seq} exists
    lock,       \* the holder of lock:return:{battery}
    work,       \* what each request is doing
    faults,     \* faults so far
    manuals     \* returns by hand tried so far

rows == <<rentals, records, slots, status>>
world == <<place, reports>>
vars == <<place, reports, rentals, records, slots, status, keys, lock, work,
          faults, manuals>>

ReportIds == 1..Len(reports)
RentalIds == 1..Len(rentals)

Categories == {"normal", "suspect_swapped", "unclaimed", "repair_inbound"}

Idle == [step |-> "idle"]

Init ==
    /\ place = Stock
    /\ reports = <<>>
    /\ rentals = <<>>
    /\ records = {}
    /\ slots = [s \in Slots |->
                   LET here == {b \in Batteries : Stock[b] = s}
                   IN  IF here = {} THEN [status |-> "empty", battery |-> Out]
                       ELSE [status |-> "occupied",
                             battery |-> CHOOSE b \in here : TRUE]]
    /\ status = [b \in Batteries |-> "in_cabinet"]
    /\ keys = {}
    /\ lock = [b \in Batteries |-> Free]
    /\ work = [h \in Requests |-> Idle]
    /\ faults = 0
    /\ manuals = 0

-----------------------------------------------------------------------------
(* Batteries and rentals *)

LastRental(b) ==
    CHOOSE o \in RentalIds :
        /\ rentals[o].battery = b
        /\ \A p \in RentalIds : rentals[p].battery = b => p <= o

\* ScanAndRent: the slot and the battery are what their rows say.
Rent(s) ==
    LET b == slots[s].battery
    IN  /\ Len(rentals) < MaxRentals
        /\ slots[s].status = "occupied"
        /\ b # Out
        /\ status[b] = "in_cabinet"
        /\ rentals' = Append(rentals, [battery |-> b, status |-> "renting"])
        /\ slots' = [slots EXCEPT ![s].status = "unlocking"]
        /\ status' = [status EXCEPT ![b] = "in_use"]
        /\ UNCHANGED <<place, reports, records, keys, lock, work, faults, manuals>>

\* The door of a slot that is being unlocked opens, its battery is taken out,
\* and the lock report (LockReport, ConfirmUnlock) empties the row.
TakeOut(s) ==
    /\ slots[s].status = "unlocking"
    /\ place' = [b \in Batteries |-> IF place[b] = s THEN Out ELSE place[b]]
    /\ slots' = [slots EXCEPT ![s] = [status |-> "empty", battery |-> Out]]
    /\ UNCHANGED <<reports, rentals, records, status, keys, lock, work, faults,
                   manuals>>

\* A battery is put into a slot, which reports it, with a number or without.
PutIn(b, s, numbered, soc) ==
    /\ place[b] = Out
    /\ \A c \in Batteries : place[c] # s
    /\ place' = [place EXCEPT ![b] = s]
    /\ reports' = Append(reports, [slot |-> s, battery |-> b,
                                   numbered |-> numbered, soc |-> soc,
                                   rental |-> LastRental(b)])
    /\ UNCHANGED <<rows, keys, lock, work, faults, manuals>>

-----------------------------------------------------------------------------
(* The judgement *)

\* evaluateCrossReturn for a battery that has an order: the order was found by
\* this battery, so the battery matches; the user's identity is confirmed only
\* if the queries of battery and user succeed.  The slot is the row read when
\* the request came.
Evaluate(found, r, slotRow, readable) ==
    [originalOrderValid |-> found,
     userIdentityMatch |-> found /\ readable,
     slotStateOK |-> slotRow.status \notin {"fault", "occupied"},
     socOK |-> reports[r].soc \in 10..100]

\* classifyCrossReturn: the state of the slot is judged and changes nothing
\* (nor do the temperature and the cabinet, which are left out here).
Classify(found, judge, b) ==
    IF ~found
    THEN IF status[b] \in {"repair", "damaged"} THEN "repair_inbound"
         ELSE "unclaimed"
    ELSE IF judge.originalOrderValid /\ judge.userIdentityMatch /\ judge.socOK
    THEN "normal" ELSE "suspect_swapped"

-----------------------------------------------------------------------------
(* DetectBatteryReturn *)

Goto(h, w) == work' = [work EXCEPT ![h] = w]

Release(h, b) == lock' = [lock EXCEPT ![b] = IF @ = h THEN Free ELSE @]

\* A fault of a kind the instance has, and has not had too often.
Fault(kind) ==
    /\ kind \in Faults
    /\ faults < MaxFaults
    /\ faults' = faults + 1

\* Mutant of TakeKey: the key is taken whether it exists or not.
TakeKeyAnyway(r) ==
    keys' = IF reports[r].numbered THEN keys \cup {r} ELSE keys

\* Mutant of TakeKey: reports without a number have a key as well.
TakeKeyUnnumbered(r) == r \notin keys /\ keys' = keys \cup {r}

\* The first thing done: a report with a number takes its key, or is refused
\* as a repetition.
TakeKey(r) ==
    IF reports[r].numbered THEN r \notin keys /\ keys' = keys \cup {r}
    ELSE keys' = keys

\* A report arrives: first, repeated, or late.  The slot is read.
Receive(h, r) ==
    /\ work[h] = Idle
    /\ TakeKey(r)
    /\ Goto(h, [step |-> "received", report |-> r,
                slotRow |-> slots[reports[r].slot]])
    /\ UNCHANGED <<world, rows, lock, faults, manuals>>

\* Redis takes the key, and its answer is lost: the report is refused.
ReceiveFails(h, r) ==
    /\ work[h] = Idle
    /\ reports[r].numbered
    /\ Fault("setnx")
    /\ keys' = keys \cup {r}
    /\ UNCHANGED <<world, rows, lock, work, manuals>>

Battery(h) ==
    IF work[h].step \in {"received", "locked", "judged", "returned"}
    THEN reports[work[h].report].battery
    ELSE rentals[work[h].order].battery

\* AcquireLock, its three attempts as one: without the lock the request ends.
\* The key stays.
AcquireLock(h) ==
    /\ work[h].step = "received"
    /\ IF lock[Battery(h)] = Free
       THEN /\ lock' = [lock EXCEPT ![Battery(h)] = h]
            /\ Goto(h, [work[h] EXCEPT !.step = "locked"])
       ELSE /\ lock' = lock
            /\ Goto(h, Idle)
    /\ UNCHANGED <<world, rows, keys, faults, manuals>>

\* The orders renting a battery; no handler sets the status returning.
RentingOf(b) ==
    {o \in RentalIds : rentals[o].battery = b /\ rentals[o].status = "renting"}

Judged(h, readable) ==
    LET w == work[h]
        found == RentingOf(Battery(h)) # {}
        judge == Evaluate(found, w.report, w.slotRow, readable)
    IN  [step |-> "judged", report |-> w.report,
         order |-> IF found THEN CHOOSE o \in RentingOf(Battery(h)) :
                                    \A p \in RentingOf(Battery(h)) : p <= o
                   ELSE 0,
         slotOK |-> judge.slotStateOK,
         category |-> Classify(found, judge, Battery(h))]

\* The order is looked up and the return is judged, outside the transaction.
Judge(h) ==
    /\ work[h].step = "locked"
    /\ \/ Goto(h, Judged(h, TRUE)) /\ UNCHANGED faults
       \/ Goto(h, Judged(h, FALSE)) /\ Fault("judge")
    /\ UNCHANGED <<world, rows, keys, lock, manuals>>

\* Mutant of Recorded: return_records has no unique index.
RecordedNever(o) == o \notin RentalIds

\* The unique index of return_records: one record per order.
Recorded(o) == \E rec \in records : rec.order = o

\* Mutant of Refused: return_records has no foreign key.
RefusedRecorded(w) == Recorded(w.order)

\* What the database does not let commit: a second record of an order; or a
\* record of no order, whose order_id 0 the foreign key refuses, whatever the
\* category is.
Refused(w) == w.order = 0 \/ Recorded(w.order)

\* The transaction.
Settle(h) ==
    LET w == work[h]
        s == reports[w.report].slot
    IN  /\ w.step = "judged"
        /\ ~Refused(w)
        /\ records' = records \cup
               {[order |-> w.order, report |-> w.report,
                 category |-> w.category, slotOK |-> w.slotOK]}
        /\ rentals' = [rentals EXCEPT ![w.order].status =
                          IF w.category = "suspect_swapped" THEN "disputed"
                          ELSE "completed"]
        /\ slots' = [slots EXCEPT ![s] = [status |-> "occupied",
                                          battery |-> Battery(h)]]
        /\ status' = [status EXCEPT ![Battery(h)] = "in_cabinet"]
        /\ Goto(h, [step |-> "returned", report |-> w.report])
        /\ UNCHANGED <<world, keys, lock, faults, manuals>>

\* The transaction is rolled back: nothing is left of it, and the key stays.
Abort(h) ==
    /\ work[h].step = "judged"
    /\ Refused(work[h])
    /\ Release(h, Battery(h))
    /\ Goto(h, Idle)
    /\ UNCHANGED <<world, rows, keys, faults, manuals>>

\* The lock is released, and the return is answered.
Answer(h) ==
    /\ work[h].step \in {"returned", "manual_returned"}
    /\ Release(h, Battery(h))
    /\ Goto(h, Idle)
    /\ UNCHANGED <<world, rows, keys, faults, manuals>>

\* A query or the transaction fails: the request ends, its lock is released,
\* its key stays.
Fails(h) ==
    /\ work[h].step \in {"received", "locked", "judged", "manual", "manual_locked"}
    /\ Fault("store")
    /\ Release(h, Battery(h))
    /\ Goto(h, Idle)
    /\ UNCHANGED <<world, rows, keys, manuals>>

-----------------------------------------------------------------------------
(* ManualReturn *)

\* The order is read and checked before the lock, and not read again.
ManualReturn(h, o, s) ==
    /\ work[h] = Idle
    /\ manuals < MaxManual
    /\ manuals' = manuals + 1
    /\ rentals[o].status = "renting"
    /\ Goto(h, [step |-> "manual", order |-> o, slot |-> s])
    /\ UNCHANGED <<world, rows, keys, lock, faults>>

ManualLock(h) ==
    /\ work[h].step = "manual"
    /\ IF lock[Battery(h)] = Free
       THEN /\ lock' = [lock EXCEPT ![Battery(h)] = h]
            /\ Goto(h, [work[h] EXCEPT !.step = "manual_locked"])
       ELSE /\ lock' = lock
            /\ Goto(h, Idle)
    /\ UNCHANGED <<world, rows, keys, faults, manuals>>

\* The operator has the battery, or names the slot it is in.
ManualSettle(h) ==
    LET w == work[h]
        b == Battery(h)
    IN  /\ w.step = "manual_locked"
        /\ slots[w.slot].status # "occupied"
        /\ ~Recorded(w.order)
        /\ place[b] \in {Out, w.slot}
        /\ \A c \in Batteries : place[c] = w.slot => c = b
        /\ place' = [place EXCEPT ![b] = w.slot]
        /\ records' = records \cup
               {[order |-> w.order, report |-> 0, category |-> "normal",
                 slotOK |-> TRUE]}
        /\ rentals' = [rentals EXCEPT ![w.order].status = "completed"]
        /\ slots' = [slots EXCEPT ![w.slot] = [status |-> "occupied",
                                               battery |-> b]]
        /\ status' = [status EXCEPT ![b] = "in_cabinet"]
        /\ Goto(h, [step |-> "manual_returned", order |-> w.order])
        /\ UNCHANGED <<reports, keys, lock, faults, manuals>>

\* The slot is occupied, or the order has its record already; or the operator
\* named a slot the battery cannot be in, and gives up.
ManualAbort(h) ==
    LET w == work[h]
        b == Battery(h)
    IN  /\ w.step = "manual_locked"
        /\ \/ slots[w.slot].status = "occupied"
           \/ Recorded(w.order)
           \/ place[b] \notin {Out, w.slot}
           \/ \E c \in Batteries : place[c] = w.slot /\ c # b
        /\ Release(h, b)
        /\ Goto(h, Idle)
        /\ UNCHANGED <<world, rows, keys, faults, manuals>>

-----------------------------------------------------------------------------
(* Time and crashes *)

\* The server dies: every request ends where it is, locks and keys stay.
Crash ==
    /\ \E h \in Requests : work[h] # Idle
    /\ Fault("crash")
    /\ work' = [h \in Requests |-> Idle]
    /\ UNCHANGED <<world, rows, keys, lock, manuals>>

\* A lock's fifteen seconds end: whether its holder is gone, or slow.
LockEnds(b) ==
    /\ lock[b] # Free
    /\ lock' = [lock EXCEPT ![b] = Free]
    /\ UNCHANGED <<world, rows, keys, work, faults, manuals>>

-----------------------------------------------------------------------------
(* The system *)

Use ==
    \/ \E s \in Slots : Rent(s) \/ TakeOut(s)
    \/ \E b \in Batteries, s \in Slots, numbered \in BOOLEAN, soc \in Socs :
             PutIn(b, s, numbered, soc)

Deliver(r) == \E h \in Requests : Receive(h, r)

Serve(h) ==
    \/ AcquireLock(h) \/ Judge(h) \/ Settle(h) \/ Abort(h) \/ Answer(h)
    \/ ManualLock(h) \/ ManualSettle(h) \/ ManualAbort(h)

Next ==
    \/ Use
    \/ \E r \in ReportIds : Deliver(r)
    \/ \E h \in Requests :
          \/ Serve(h) \/ Fails(h)
          \/ \E r \in ReportIds : ReceiveFails(h, r)
          \/ \E o \in RentalIds, s \in Slots : ManualReturn(h, o, s)
    \/ Crash
    \/ \E b \in Batteries : LockEnds(b)

\* The cabinet has sent report r, and its rental goes on.
StillRented(r) ==
    r \in ReportIds /\ rentals[reports[r].rental].status = "renting"

\* A report is sent until the rental it ends has ended, and a request to the
\* server is served some time; what a request does next happens; a lock without
\* a holder ends.
Fairness ==
    /\ \A r \in 1..MaxRentals :
          SF_vars(StillRented(r) /\ Deliver(r))
    /\ \A h \in Requests : WF_vars(Serve(h))
    /\ \A b \in Batteries : WF_vars(LockEnds(b))

Spec == Init /\ [][Next]_vars /\ Fairness
-----------------------------------------------------------------------------
(* Properties *)

Steps == {"received", "locked", "judged", "returned",
          "manual", "manual_locked", "manual_returned"}

SlotRow == [status: {"empty", "occupied", "unlocking"},
            battery: Batteries \cup {Out}]

ReturnsTypeOK ==
    /\ place \in [Batteries -> Slots \cup {Out}]
    /\ reports \in Seq([slot: Slots, battery: Batteries, numbered: BOOLEAN,
                       soc: Socs, rental: RentalIds])
    /\ rentals \in Seq([battery: Batteries,
                       status: {"renting", "completed", "disputed"}])
    /\ records \subseteq [order: RentalIds, report: ReportIds \cup {0},
                          category: {"normal", "suspect_swapped"},
                          slotOK: BOOLEAN]
    /\ slots \in [Slots -> SlotRow]
    /\ status \in [Batteries -> {"in_cabinet", "in_use"}]
    /\ keys \subseteq ReportIds
    /\ lock \in [Batteries -> Requests \cup {Free}]
    /\ \A h \in Requests : work[h].step \in Steps \cup {"idle"}
    /\ faults \in 0..MaxFaults
    /\ manuals \in 0..MaxManual

\* A record whose report belongs to another rental than the one it ended.
Misplaced(rec) == rec.report # 0 /\ reports[rec.report].rental # rec.order

\* However often and late a numbered report comes, and whatever fails or
\* crashes on the way, it ends the rental it is about; only if that one was
\* ended otherwise before the report was first served (by hand, or by a stray
\* report), it ends a later one.
NumberedReportsEndTheirRental ==
    \A rec \in records :
        Misplaced(rec) /\ reports[rec.report].numbered =>
            \E other \in records :
                /\ other.order = reports[rec.report].rental
                /\ other.report # rec.report

\* A battery the rows offer for rent is in the slot that offers it, so that
\* nobody pays for one that is not there, as long as no report has ended a
\* rental it is not about.
OfferedIsThere ==
    \A s \in Slots :
        LET b == slots[s].battery
        IN  slots[s].status = "occupied" /\ b # Out /\ status[b] = "in_cabinet"
            => place[b] = s \/ \E rec \in records : Misplaced(rec)

\* The return of a battery whose report has no number is settled in the end,
\* whatever failed on the way: the cabinet sends the report again.
UnnumberedIsReturned ==
    \A r \in 1..MaxRentals :
        StillRented(r) /\ ~reports[r].numbered ~> ~StillRented(r)

-----------------------------------------------------------------------------
(* Claims *)

\* What the refusal of a repeated report takes for granted: a report whose key
\* exists is being served, or the rental it is about has ended.
KeyMeansReturned ==
    \A r \in keys :
        \/ rentals[reports[r].rental].status # "renting"
        \/ \E h \in Requests : work[h] # Idle /\ Battery(h) = reports[r].battery

\* README: reports out of order must not charge too much or too little; a
\* report never ends a rental that began after the battery was put in.
ReportsEndTheirRental == \A rec \in records : ~Misplaced(rec)

\* README: the return checks the state of the slot; a battery is not returned
\* as a normal one into a slot that counts as occupied or broken.
NormalReturnsUseGoodSlots ==
    \A rec \in records : rec.category = "normal" => rec.slotOK

\* The judgement's own words on a failed query of the user: it does not affect
\* how the return is settled.  So only the state of charge makes one suspect.
OnlyChargeIsSuspect ==
    \A rec \in records :
        rec.category = "suspect_swapped" => reports[rec.report].soc \notin 10..100
=============================================================================
