------------------------ MODULE ReturnReportsProofs ------------------------
(***************************************************************************)
(* Theorems about ReturnReports, for any number of batteries, slots,       *)
(* rentals and requests, whatever fails: the types; that a report with a   *)
(* number ends the rental it is about; and that what the rows offer for    *)
(* rent is there.  None of them needs the locks: they rest on the unique   *)
(* index of return_records and on the keys of the reports.                 *)
(***************************************************************************)
EXTENDS ReturnReports, TLAPS

-----------------------------------------------------------------------------
(* Sequences *)

LEMMA AppendFacts ==
    ASSUME NEW S, NEW q \in Seq(S), NEW e \in S
    PROVE  /\ Append(q, e) \in Seq(S)
           /\ Len(q) \in Nat /\ Len(Append(q, e)) = Len(q) + 1
           /\ Append(q, e)[Len(q) + 1] = e
           /\ \A i \in 1..Len(q) : Append(q, e)[i] = q[i]
           /\ 1..Len(Append(q, e)) = 1..Len(q) \cup {Len(q) + 1}
    OBVIOUS

LEMMA ExceptFacts ==
    ASSUME NEW S, NEW q \in Seq(S), NEW i \in 1..Len(q), NEW e \in S
    PROVE  /\ [q EXCEPT ![i] = e] \in Seq(S)
           /\ Len([q EXCEPT ![i] = e]) = Len(q)
           /\ \A j \in 1..Len(q) :
                 [q EXCEPT ![i] = e][j] = IF j = i THEN e ELSE q[j]
    OBVIOUS

-----------------------------------------------------------------------------
(* The inductive invariant, first part: types and rows *)

Report == [slot: Slots, battery: Batteries, numbered: BOOLEAN,
           soc: Socs, rental: RentalIds]

Rental == [battery: Batteries, status: {"renting", "completed", "disputed"}]

\* What a request may be working on, step by step.
Received == [step: {"received", "locked"}, report: ReportIds, slotRow: SlotRow]

Found == [step: {"judged"}, report: ReportIds, order: RentalIds \cup {0},
          slotOK: BOOLEAN, category: Categories]

Returned == [step: {"returned"}, report: ReportIds]

ByHand == [step: {"manual", "manual_locked"}, order: RentalIds, slot: Slots]

HandReturned == [step: {"manual_returned"}, order: RentalIds]

Working == Received \cup Found \cup Returned \cup ByHand \cup HandReturned

\* A request that found an order found one of its battery.
WorkOK ==
    /\ work \in [Requests -> Working \cup {Idle}]
    /\ \A h \in Requests : work[h].step = "judged" /\ work[h].order # 0 =>
          /\ work[h].category \in {"normal", "suspect_swapped"}
          /\ rentals[work[h].order].battery = reports[work[h].report].battery

HasLast(b) ==
    \E o \in RentalIds :
        /\ rentals[o].battery = b
        /\ \A p \in RentalIds : rentals[p].battery = b => p <= o

\* A battery that was never rented is where it was stocked, and the row of
\* that slot says so.
Untouched(b) ==
    /\ place[b] = Stock[b] /\ status[b] = "in_cabinet"
    /\ slots[Stock[b]] = [status |-> "occupied", battery |-> b]
    /\ \A r \in ReportIds : reports[r].slot # Stock[b]

\* A rental goes on as long as it has no return record; its battery is in use
\* and is rented only once.
RowsOK ==
    /\ \A b \in Batteries : HasLast(b) \/ Untouched(b)
    /\ \A r \in ReportIds :
          rentals[reports[r].rental].battery = reports[r].battery
    /\ \A o \in RentalIds : rentals[o].status = "renting" <=> ~Recorded(o)
    /\ \A o \in RentalIds :
          rentals[o].status = "renting" => status[rentals[o].battery] = "in_use"
    /\ \A o, p \in RentalIds :
          /\ rentals[o].status = "renting" /\ rentals[p].status = "renting"
          /\ rentals[o].battery = rentals[p].battery
          => o = p

Inv == ReturnsTypeOK /\ WorkOK /\ RowsOK

LEMMA Typed ==
    ASSUME ReturnsTypeOK
    PROVE  /\ reports \in Seq(Report) /\ rentals \in Seq(Rental)
           /\ Len(reports) \in Nat /\ Len(rentals) \in Nat
           /\ \A r \in ReportIds : reports[r] \in Report
           /\ \A o \in RentalIds : rentals[o] \in Rental
           /\ place \in [Batteries -> Slots \cup {Out}]
           /\ slots \in [Slots -> SlotRow]
           /\ status \in [Batteries -> {"in_cabinet", "in_use"}]
           /\ lock \in [Batteries -> Requests \cup {Free}]
    <1>1. reports \in Seq(Report) /\ rentals \in Seq(Rental)
        BY DEF ReturnsTypeOK, Report, Rental
    <1> QED BY <1>1 DEF ReturnsTypeOK, ReportIds, RentalIds

LEMMA WorkFacts ==
    ASSUME WorkOK, NEW h \in Requests
    PROVE  /\ work[h] \in Working \cup {Idle}
           /\ work[h].step \in {"received", "locked"} => work[h] \in Received
           /\ work[h].step = "judged" => work[h] \in Found
           /\ work[h].step = "returned" => work[h] \in Returned
           /\ work[h].step \in {"manual", "manual_locked"} => work[h] \in ByHand
           /\ work[h].step = "manual_returned" => work[h] \in HandReturned
    <1>1. work[h] \in Working \cup {Idle}
        BY DEF WorkOK
    <1> QED BY <1>1 DEF Working, Received, Found, Returned, ByHand, HandReturned, Idle

LEMMA IdleStep == Idle.step = "idle"
    BY DEF Idle

\* A request is about one battery.
LEMMA BatteryFacts ==
    ASSUME ReturnsTypeOK, WorkOK, NEW h \in Requests
    PROVE  work[h].step \in Steps => Battery(h) \in Batteries
    <1>1. CASE work[h].step \in {"received", "locked", "judged", "returned"}
        <2>1. work[h].report \in ReportIds
            BY <1>1, WorkFacts DEF Received, Found, Returned
        <2> QED BY <1>1, <2>1, Typed DEF Battery, Report
    <1>2. CASE work[h].step \in {"manual", "manual_locked", "manual_returned"}
        <2>1. work[h].order \in RentalIds
            BY <1>2, WorkFacts DEF ByHand, HandReturned
        <2> QED BY <1>2, <2>1, Typed DEF Battery, Rental
    <1> QED BY <1>1, <1>2 DEF Steps

-----------------------------------------------------------------------------
(* The initial state *)

LEMMA InitInv == Init => Inv
    <1> SUFFICES ASSUME Init PROVE Inv
        OBVIOUS
    <1>1. ReportIds = {} /\ RentalIds = {} /\ rentals = <<>> /\ reports = <<>>
        BY DEF Init, ReportIds, RentalIds
    <1>2. \A h \in Requests : work[h].step = "idle"
        BY IdleStep DEF Init
    <1>3. \A b \in Batteries : slots[Stock[b]] = [status |-> "occupied", battery |-> b]
        <2> TAKE b \in Batteries
        <2> DEFINE here == {c \in Batteries : Stock[c] = Stock[b]}
        <2>1. here = {b} /\ Stock[b] \in Slots
            BY ReturnReportsAssumption
        <2>2. (CHOOSE c \in here : TRUE) = b /\ here # {}
            BY <2>1
        <2>3. slots[Stock[b]] =
                 IF here = {} THEN [status |-> "empty", battery |-> Out]
                 ELSE [status |-> "occupied", battery |-> CHOOSE c \in here : TRUE]
            BY <2>1 DEF Init
        <2> HIDE DEF here
        <2> QED BY <2>2, <2>3
    <1>4. slots \in [Slots -> SlotRow]
        <2> DEFINE here(s) == {c \in Batteries : Stock[c] = s}
                   row(s) == IF here(s) = {} THEN [status |-> "empty", battery |-> Out]
                             ELSE [status |-> "occupied",
                                   battery |-> CHOOSE c \in here(s) : TRUE]
        <2>1. slots = [s \in Slots |-> row(s)]
            BY DEF Init
        <2>2. \A s \in Slots : row(s) \in SlotRow
            <3> TAKE s \in Slots
            <3>1. here(s) # {} => (CHOOSE c \in here(s) : TRUE) \in Batteries
                OBVIOUS
            <3> HIDE DEF here
            <3> QED BY <3>1 DEF SlotRow
        <2> HIDE DEF row
        <2> QED BY <2>1, <2>2
    <1>5. ReturnsTypeOK
        <2>1. reports \in Seq(Report) /\ rentals \in Seq(Rental)
            BY <1>1
        <2>2. 0 \in 0..MaxFaults /\ 0 \in 0..MaxManual
            BY ReturnReportsAssumption
        <2>3. /\ place \in [Batteries -> Slots \cup {Out}]
              /\ status \in [Batteries -> {"in_cabinet", "in_use"}]
              /\ lock \in [Batteries -> Requests \cup {Free}]
            BY ReturnReportsAssumption DEF Init
        <2> QED BY <1>2, <1>4, <2>1, <2>2, <2>3
                DEF Init, ReturnsTypeOK, Report, Rental
    <1>6. WorkOK
        BY <1>2 DEF Init, WorkOK
    <1>7. \A b \in Batteries : Untouched(b)
        BY <1>1, <1>3 DEF Init, Untouched
    <1>8. RowsOK
        BY <1>1, <1>7 DEF RowsOK
    <1> QED BY <1>5, <1>6, <1>8 DEF Inv

-----------------------------------------------------------------------------
(* The steps *)

\* The reports and the rentals there are, a rental's battery too, never change.
Grows ==
    /\ ReportIds \subseteq ReportIds' /\ RentalIds \subseteq RentalIds'
    /\ \A r \in ReportIds : reports'[r] = reports[r]
    /\ \A o \in RentalIds : rentals'[o].battery = rentals[o].battery

\* Battery b is rented from slot s.
Rented(s, b) ==
    /\ b \in Batteries /\ b = slots[s].battery
    /\ slots[s].status = "occupied" /\ status[b] = "in_cabinet"
    /\ RentalIds' = RentalIds \cup {Len(rentals) + 1}
    /\ \A o \in RentalIds : rentals'[o] = rentals[o]
    /\ rentals'[Len(rentals) + 1] = [battery |-> b, status |-> "renting"]
    /\ slots' = [slots EXCEPT ![s] = [status |-> "unlocking", battery |-> b]]
    /\ status' = [status EXCEPT ![b] = "in_use"]
    /\ UNCHANGED <<place, reports, records>>

\* Report n, about battery b in slot s, is made.
Put(b, s, n) ==
    /\ ReportIds' = ReportIds \cup {n} /\ n \notin ReportIds
    /\ \A r \in ReportIds : reports'[r] = reports[r]
    /\ reports'[n] \in Report
    /\ reports'[n].battery = b /\ reports'[n].slot = s
    /\ rentals[reports'[n].rental].battery = b
    /\ place[b] = Out /\ \A c \in Batteries : place[c] # s
    /\ place' = [place EXCEPT ![b] = s]
    /\ UNCHANGED rows

\* The rental o of battery b ends with the record rec, in slot s.
Ended(o, b, s, rec) ==
    /\ o \in RentalIds /\ ~Recorded(o) /\ b = rentals[o].battery
    /\ rec.order = o
    /\ records' = records \cup {rec}
    /\ RentalIds' = RentalIds
    /\ rentals'[o].status \in {"completed", "disputed"}
    /\ rentals'[o].battery = b
    /\ \A p \in RentalIds : p # o => rentals'[p] = rentals[p]
    /\ slots' = [slots EXCEPT ![s] = [status |-> "occupied", battery |-> b]]
    /\ status' = [status EXCEPT ![b] = "in_cabinet"]
    /\ UNCHANGED reports

\* It ends by report r.
EndedBy(r, o, rec) ==
    /\ r \in ReportIds /\ rec.report = r
    /\ Ended(o, reports[r].battery, reports[r].slot, rec)
    /\ UNCHANGED place

\* It ends by hand, the battery b being put into slot s or in it.
EndedByHand(o, b, s, rec) ==
    /\ rec.report = 0
    /\ Ended(o, b, s, rec)
    /\ slots[s].status # "occupied"
    /\ place[b] \in {Out, s}
    /\ \A c \in Batteries : place[c] = s => c = b
    /\ place' = [place EXCEPT ![b] = s]

LEMMA RentIs ==
    ASSUME Inv, NEW s \in Slots, Rent(s)
    PROVE  /\ Rented(s, slots[s].battery) /\ Grows
           /\ rentals' \in Seq(Rental)
    <1> DEFINE b == slots[s].battery
               e == [battery |-> b, status |-> "renting"]
    <1>1. slots[s] \in SlotRow /\ b \in Batteries
        BY Typed DEF Rent, Inv, SlotRow
    <1>2. rentals \in Seq(Rental) /\ e \in Rental /\ rentals' = Append(rentals, e)
        BY <1>1, Typed DEF Rent, Inv, Rental
    <1>3. [slots[s] EXCEPT !.status = "unlocking"]
             = [status |-> "unlocking", battery |-> b]
        BY <1>1 DEF SlotRow
    <1> HIDE DEF e
    <1>4. /\ rentals' \in Seq(Rental)
          /\ RentalIds' = RentalIds \cup {Len(rentals) + 1}
          /\ \A o \in RentalIds : rentals'[o] = rentals[o]
          /\ rentals'[Len(rentals) + 1] = e
        BY <1>2, AppendFacts DEF RentalIds
    <1>5. slots' = [slots EXCEPT ![s] = [status |-> "unlocking", battery |-> b]]
        BY <1>3, Typed DEF Rent, Inv
    <1> QED BY <1>1, <1>4, <1>5 DEF Rent, Rented, Grows, ReportIds, e

LEMMA LastRentalIs ==
    ASSUME NEW b, HasLast(b)
    PROVE  LastRental(b) \in RentalIds /\ rentals[LastRental(b)].battery = b
    BY DEF HasLast, LastRental

LEMMA PutInIs ==
    ASSUME Inv, NEW b \in Batteries, NEW s \in Slots, NEW numbered \in BOOLEAN,
           NEW soc \in Socs, PutIn(b, s, numbered, soc)
    PROVE  /\ Put(b, s, Len(reports) + 1) /\ Grows
           /\ reports' \in Seq(Report)
    <1> DEFINE e == [slot |-> s, battery |-> b, numbered |-> numbered,
                     soc |-> soc, rental |-> LastRental(b)]
    <1>1. HasLast(b)
        BY ReturnReportsAssumption DEF PutIn, Inv, RowsOK, Untouched
    <1>2. LastRental(b) \in RentalIds /\ rentals[LastRental(b)].battery = b
        BY <1>1, LastRentalIs
    <1>3. reports \in Seq(Report) /\ e \in Report /\ reports' = Append(reports, e)
        BY <1>2, Typed DEF PutIn, Inv, Report
    <1>4. /\ e.battery = b /\ e.slot = s /\ e.rental = LastRental(b)
        OBVIOUS
    <1> HIDE DEF e
    <1>5. /\ reports' \in Seq(Report)
          /\ ReportIds' = ReportIds \cup {Len(reports) + 1}
          /\ Len(reports) + 1 \notin ReportIds
          /\ \A r \in ReportIds : reports'[r] = reports[r]
          /\ reports'[Len(reports) + 1] = e
        BY <1>3, AppendFacts DEF ReportIds
    <1> QED BY <1>2, <1>3, <1>4, <1>5 DEF PutIn, Put, Grows, RentalIds, rows

LEMMA Ending ==
    ASSUME ReturnsTypeOK, NEW o \in RentalIds,
           NEW st \in {"completed", "disputed"},
           rentals' = [rentals EXCEPT ![o].status = st]
    PROVE  /\ rentals' \in Seq(Rental)
           /\ RentalIds' = RentalIds
           /\ rentals'[o].status = st
           /\ \A p \in RentalIds : /\ rentals'[p].battery = rentals[p].battery
                                   /\ p # o => rentals'[p] = rentals[p]
    <1> DEFINE e == [rentals[o] EXCEPT !.status = st]
    <1>1. rentals \in Seq(Rental) /\ rentals[o] \in Rental
        BY Typed
    <1>2. /\ e \in Rental /\ e.status = st /\ e.battery = rentals[o].battery
        BY <1>1 DEF Rental
    <1>3. rentals' = [rentals EXCEPT ![o] = e]
        OBVIOUS
    <1> HIDE DEF e
    <1> QED BY <1>1, <1>2, <1>3, ExceptFacts DEF RentalIds

LEMMA SettleIs ==
    ASSUME Inv, NEW h \in Requests, Settle(h)
    PROVE  /\ work[h] \in Found /\ work[h].order \in RentalIds
           /\ EndedBy(work[h].report, work[h].order,
                      [order |-> work[h].order, report |-> work[h].report,
                       category |-> work[h].category, slotOK |-> work[h].slotOK])
           /\ Grows /\ rentals' \in Seq(Rental)
           /\ work[h].category \in {"normal", "suspect_swapped"}
    <1> DEFINE w == work[h]
               rec == [order |-> w.order, report |-> w.report,
                       category |-> w.category, slotOK |-> w.slotOK]
               st == IF w.category = "suspect_swapped" THEN "disputed"
                     ELSE "completed"
    <1>1. w.step = "judged" /\ w \in Found /\ w.order # 0 /\ ~Recorded(w.order)
        BY WorkFacts DEF Settle, Inv, Refused
    <1>2. w.order \in RentalIds /\ w.report \in ReportIds
        BY <1>1 DEF Found
    <1>3. /\ rentals[w.order].battery = reports[w.report].battery
          /\ w.category \in {"normal", "suspect_swapped"}
        BY <1>1 DEF Inv, WorkOK
    <1>4. Battery(h) = reports[w.report].battery
        BY <1>1 DEF Battery
    <1>5. st \in {"completed", "disputed"}
        OBVIOUS
    <1>6. rentals' = [rentals EXCEPT ![w.order].status = st]
        BY DEF Settle
    <1> HIDE DEF st
    <1>7. /\ rentals' \in Seq(Rental)
          /\ RentalIds' = RentalIds
          /\ rentals'[w.order].status = st
          /\ \A p \in RentalIds : /\ rentals'[p].battery = rentals[p].battery
                                  /\ p # w.order => rentals'[p] = rentals[p]
        BY <1>2, <1>5, <1>6, Ending DEF Inv
    <1>8. /\ records' = records \cup {rec} /\ UNCHANGED <<place, reports>>
          /\ slots' = [slots EXCEPT ![reports[w.report].slot] =
                          [status |-> "occupied", battery |-> reports[w.report].battery]]
          /\ status' = [status EXCEPT ![reports[w.report].battery] = "in_cabinet"]
        BY <1>4 DEF Settle, world
    <1>9. rec.order = w.order /\ rec.report = w.report
        OBVIOUS
    <1>10. EndedBy(w.report, w.order, rec)
        <2> HIDE DEF rec, w
        <2> QED BY <1>1, <1>2, <1>3, <1>5, <1>7, <1>8, <1>9 DEF EndedBy, Ended
    <1> QED BY <1>1, <1>2, <1>3, <1>7, <1>8, <1>10 DEF Grows, ReportIds

LEMMA ManualSettleIs ==
    ASSUME Inv, NEW h \in Requests, ManualSettle(h)
    PROVE  /\ work[h] \in ByHand /\ work[h].order \in RentalIds
           /\ EndedByHand(work[h].order, rentals[work[h].order].battery, work[h].slot,
                          [order |-> work[h].order, report |-> 0,
                           category |-> "normal", slotOK |-> TRUE])
           /\ Grows /\ rentals' \in Seq(Rental)
    <1> DEFINE w == work[h]
               rec == [order |-> w.order, report |-> 0,
                       category |-> "normal", slotOK |-> TRUE]
               b == rentals[w.order].battery
    <1>1. w.step = "manual_locked" /\ w \in ByHand /\ ~Recorded(w.order)
        BY WorkFacts DEF ManualSettle, Inv
    <1>2. w.order \in RentalIds
        BY <1>1 DEF ByHand
    <1>3. Battery(h) = b
        BY <1>1 DEF Battery
    <1>4. rentals' = [rentals EXCEPT ![w.order].status = "completed"]
        BY DEF ManualSettle
    <1>5. /\ rentals' \in Seq(Rental)
          /\ RentalIds' = RentalIds
          /\ rentals'[w.order].status = "completed"
          /\ \A p \in RentalIds : /\ rentals'[p].battery = rentals[p].battery
                                  /\ p # w.order => rentals'[p] = rentals[p]
        BY <1>2, <1>4, Ending DEF Inv
    <1>6. /\ records' = records \cup {rec} /\ UNCHANGED reports
          /\ slots' = [slots EXCEPT ![w.slot] = [status |-> "occupied", battery |-> b]]
          /\ status' = [status EXCEPT ![b] = "in_cabinet"]
          /\ slots[w.slot].status # "occupied"
          /\ place[b] \in {Out, w.slot}
          /\ \A c \in Batteries : place[c] = w.slot => c = b
          /\ place' = [place EXCEPT ![b] = w.slot]
        BY <1>3 DEF ManualSettle
    <1>7. rec.order = w.order /\ rec.report = 0
        OBVIOUS
    <1>8. EndedByHand(w.order, b, w.slot, rec)
        <2> HIDE DEF rec, w
        <2> QED BY <1>1, <1>2, <1>5, <1>6, <1>7 DEF EndedByHand, Ended
    <1> QED BY <1>1, <1>2, <1>5, <1>6, <1>8 DEF Grows, ReportIds

LEMMA QuietGrows ==
    ASSUME UNCHANGED <<reports, rentals>>
    PROVE  Grows
    BY DEF Grows, ReportIds, RentalIds

-----------------------------------------------------------------------------
(* The rows stay consistent *)

LEMMA RentRows ==
    ASSUME Inv, NEW s \in Slots, NEW b, Rented(s, b)
    PROVE  RowsOK'
    <1> DEFINE n == Len(rentals) + 1
    <1>1. /\ n \notin RentalIds /\ n \in Nat
          /\ \A o \in RentalIds : o \in Nat /\ o <= n
        BY Typed DEF RentalIds, Inv
    <1> HIDE DEF n
    <1>2. /\ b \in Batteries /\ b = slots[s].battery
          /\ slots[s].status = "occupied" /\ status[b] = "in_cabinet"
          /\ RentalIds' = RentalIds \cup {n}
          /\ \A o \in RentalIds : rentals'[o] = rentals[o]
          /\ rentals'[n].battery = b /\ rentals'[n].status = "renting"
          /\ UNCHANGED <<place, reports, records, ReportIds>>
        BY DEF Rented, n, ReportIds
    <1>3. /\ \A c \in Batteries : status'[c] = IF c = b THEN "in_use" ELSE status[c]
          /\ \A t \in Slots : t # s => slots'[t] = slots[t]
        BY <1>2, Typed DEF Rented, Inv
    <1>4. /\ \A r \in ReportIds : reports[r].rental \in RentalIds
          /\ \A o \in RentalIds : rentals[o].battery \in Batteries
        BY Typed DEF Inv, Report, Rental
    <1>5. \A o : Recorded(o)' <=> Recorded(o)
        BY <1>2 DEF Recorded
    <1>6. ~Recorded(n)
        BY <1>1 DEF Inv, ReturnsTypeOK, Recorded
    <1>7. \A o \in RentalIds : rentals[o].status = "renting" => rentals[o].battery # b
        BY <1>2 DEF Inv, RowsOK
    <1>8. ASSUME NEW c \in Batteries
          PROVE  HasLast(c)' \/ Untouched(c)'
        <2>1. CASE c = b
            <3>1. \A p \in RentalIds' : p <= n
                BY <1>1, <1>2
            <3>2. n \in RentalIds' /\ rentals'[n].battery = c
                BY <1>2, <2>1
            <3> QED BY <3>1, <3>2 DEF HasLast
        <2>2. CASE c # b /\ HasLast(c)
            <3>1. PICK o \in RentalIds : /\ rentals[o].battery = c
                        /\ \A p \in RentalIds : rentals[p].battery = c => p <= o
                BY <2>2 DEF HasLast
            <3>2. o \in RentalIds' /\ rentals'[o].battery = c
                BY <1>2, <3>1
            <3>3. \A p \in RentalIds' : rentals'[p].battery = c => p <= o
                BY <1>2, <2>2, <3>1
            <3> QED BY <3>2, <3>3 DEF HasLast
        <2>3. CASE c # b /\ Untouched(c)
            <3>1. Stock[c] # s /\ Stock[c] \in Slots
                BY <1>2, <2>3, ReturnReportsAssumption DEF Untouched
            <3> QED BY <1>2, <1>3, <2>3, <3>1 DEF Untouched
        <2> QED BY <2>1, <2>2, <2>3 DEF Inv, RowsOK
    <1>9. \A r \in ReportIds' : rentals'[reports'[r].rental].battery = reports'[r].battery
        BY <1>2, <1>4 DEF Inv, RowsOK
    <1>10. \A o \in RentalIds' : rentals'[o].status = "renting" <=> ~Recorded(o)'
        BY <1>2, <1>5, <1>6 DEF Inv, RowsOK
    <1>11. \A o \in RentalIds' :
              rentals'[o].status = "renting" => status'[rentals'[o].battery] = "in_use"
        BY <1>2, <1>3, <1>4, <1>7 DEF Inv, RowsOK
    <1>12. \A o, p \in RentalIds' :
              /\ rentals'[o].status = "renting" /\ rentals'[p].status = "renting"
              /\ rentals'[o].battery = rentals'[p].battery
              => o = p
        BY <1>2, <1>7 DEF Inv, RowsOK
    <1> QED BY <1>8, <1>9, <1>10, <1>11, <1>12 DEF RowsOK

LEMMA TakeOutRows ==
    ASSUME Inv, NEW s \in Slots, TakeOut(s)
    PROVE  RowsOK'
    <1>1. /\ UNCHANGED <<reports, rentals, records, status, ReportIds, RentalIds>>
          /\ slots[s].status = "unlocking"
          /\ \A c \in Batteries : place[c] # s => place'[c] = place[c]
          /\ \A t \in Slots : t # s => slots'[t] = slots[t]
        BY Typed DEF TakeOut, Inv, ReportIds, RentalIds
    <1>2. ASSUME NEW c \in Batteries, Untouched(c)
          PROVE  Untouched(c)'
        <2>1. Stock[c] # s /\ Stock[c] \in Slots
            BY <1>1, <1>2, ReturnReportsAssumption DEF Untouched
        <2> QED BY <1>1, <1>2, <2>1 DEF Untouched
    <1>3. \A c : HasLast(c)' <=> HasLast(c)
        BY <1>1 DEF HasLast
    <1> QED BY <1>1, <1>2, <1>3 DEF Inv, RowsOK, Recorded

LEMMA PutInRows ==
    ASSUME Inv, NEW b \in Batteries, NEW s \in Slots, NEW n, Put(b, s, n)
    PROVE  RowsOK'
    <1>1. /\ UNCHANGED <<rentals, records, status, slots, RentalIds>>
          /\ place[b] = Out /\ place'[b] = s
          /\ \A c \in Batteries : place[c] # s /\ (c # b => place'[c] = place[c])
        BY Typed DEF Put, Inv, rows, RentalIds
    <1>2. ASSUME NEW c \in Batteries, Untouched(c)
          PROVE  Untouched(c)'
        <2>1. c # b /\ Stock[c] # s
            BY <1>1, <1>2, ReturnReportsAssumption DEF Untouched
        <2>2. \A r \in ReportIds' : reports'[r].slot # Stock[c]
            BY <1>2, <2>1 DEF Untouched, Put
        <2> QED BY <1>1, <1>2, <2>1, <2>2 DEF Untouched
    <1>3. \A c : HasLast(c)' <=> HasLast(c)
        BY <1>1 DEF HasLast
    <1>4. \A r \in ReportIds' : rentals'[reports'[r].rental].battery = reports'[r].battery
        BY <1>1 DEF Put, Inv, RowsOK
    <1> QED BY <1>1, <1>2, <1>3, <1>4 DEF Inv, RowsOK, Recorded

\* A rental that ends was going on, and was its battery's only one.
LEMMA EndedIsOnlyOne ==
    ASSUME Inv, NEW o, NEW b, NEW s, NEW rec, Ended(o, b, s, rec)
    PROVE  /\ o \in RentalIds /\ b \in Batteries /\ b = rentals[o].battery
           /\ rentals[o].status = "renting" /\ status[b] = "in_use"
           /\ \A p \in RentalIds : p # o /\ rentals[p].battery = b
                                      => rentals[p].status # "renting"
           /\ \A p : Recorded(p)' <=> p = o \/ Recorded(p)
           /\ \A p \in RentalIds : /\ rentals'[p].battery = rentals[p].battery
                                   /\ rentals'[p].status = "renting" <=>
                                         p # o /\ rentals[p].status = "renting"
    <1>1. o \in RentalIds /\ b = rentals[o].battery /\ b \in Batteries
        BY Typed DEF Ended, Inv, Rental
    <1>2. rentals[o].status = "renting"
        BY <1>1 DEF Ended, Inv, RowsOK
    <1>3. \A p \in RentalIds : p # o /\ rentals[p].battery = b
                                      => rentals[p].status # "renting"
        BY <1>1, <1>2 DEF Inv, RowsOK
    <1>4. \A p : Recorded(p)' <=> p = o \/ Recorded(p)
        BY DEF Ended, Recorded
    <1>5. \A p \in RentalIds : /\ rentals'[p].battery = rentals[p].battery
                               /\ rentals'[p].status = "renting" <=>
                                     p # o /\ rentals[p].status = "renting"
        BY <1>1 DEF Ended
    <1> QED BY <1>1, <1>2, <1>3, <1>4, <1>5 DEF Inv, RowsOK

LEMMA EndedRows ==
    ASSUME Inv, NEW o, NEW b, NEW s \in Slots, NEW rec, Ended(o, b, s, rec),
           \A c \in Batteries \ {b} : Untouched(c) => Stock[c] # s,
           \A c \in Batteries \ {b} : place'[c] = place[c]
    PROVE  RowsOK'
    <1>1. /\ o \in RentalIds /\ b \in Batteries /\ b = rentals[o].battery
          /\ rentals[o].status = "renting" /\ status[b] = "in_use"
          /\ \A p \in RentalIds : p # o /\ rentals[p].battery = b
                                     => rentals[p].status # "renting"
          /\ \A p : Recorded(p)' <=> p = o \/ Recorded(p)
          /\ \A p \in RentalIds : /\ rentals'[p].battery = rentals[p].battery
                                  /\ rentals'[p].status = "renting" <=>
                                        p # o /\ rentals[p].status = "renting"
        BY EndedIsOnlyOne
    <1>2. /\ UNCHANGED <<reports, ReportIds, RentalIds>>
          /\ \A t \in Slots : t # s => slots'[t] = slots[t]
          /\ \A c \in Batteries : status'[c] = IF c = b THEN "in_cabinet" ELSE status[c]
        BY Typed DEF Ended, Inv, ReportIds
    <1>3. /\ \A r \in ReportIds : reports[r].rental \in RentalIds
          /\ \A p \in RentalIds : rentals[p].battery \in Batteries
        BY Typed DEF Inv, Report, Rental
    <1>4. \A c : HasLast(c)' <=> HasLast(c)
        BY <1>1, <1>2 DEF HasLast
    <1>5. ASSUME NEW c \in Batteries, Untouched(c)
          PROVE  Untouched(c)'
        <2>1. c # b /\ Stock[c] # s /\ Stock[c] \in Slots
            BY <1>1, <1>5, ReturnReportsAssumption DEF Untouched
        <2> QED BY <1>2, <1>5, <2>1 DEF Untouched
    <1>6. \A r \in ReportIds' : rentals'[reports'[r].rental].battery = reports'[r].battery
        BY <1>1, <1>2, <1>3 DEF Inv, RowsOK
    <1>7. \A p \in RentalIds' : rentals'[p].status = "renting" <=> ~Recorded(p)'
        BY <1>1, <1>2 DEF Inv, RowsOK
    <1>8. \A p \in RentalIds' :
              rentals'[p].status = "renting" => status'[rentals'[p].battery] = "in_use"
        BY <1>1, <1>2, <1>3 DEF Inv, RowsOK
    <1>9. \A p, q \in RentalIds' :
              /\ rentals'[p].status = "renting" /\ rentals'[q].status = "renting"
              /\ rentals'[p].battery = rentals'[q].battery
              => p = q
        BY <1>1, <1>2 DEF Inv, RowsOK
    <1> QED BY <1>4, <1>5, <1>6, <1>7, <1>8, <1>9 DEF Inv, RowsOK

LEMMA EndedByRows ==
    ASSUME Inv, NEW r, NEW o, NEW rec, EndedBy(r, o, rec)
    PROVE  RowsOK'
    <1>1. reports[r].slot \in Slots /\ r \in ReportIds
        BY Typed DEF Inv, EndedBy, Report
    <1> QED BY <1>1, EndedRows DEF EndedBy, Untouched

LEMMA EndedByHandRows ==
    ASSUME Inv, NEW o, NEW b, NEW s \in Slots, NEW rec, EndedByHand(o, b, s, rec)
    PROVE  RowsOK'
    <1>1. \A c \in Batteries \ {b} : place'[c] = place[c]
        BY Typed DEF EndedByHand, Inv
    <1>2. \A c \in Batteries \ {b} : Untouched(c) => Stock[c] # s
        BY DEF EndedByHand, Untouched
    <1> QED BY <1>1, <1>2, EndedRows DEF EndedByHand

LEMMA StillRows ==
    ASSUME Inv, UNCHANGED <<world, rows>>
    PROVE  RowsOK'
    BY DEF Inv, RowsOK, HasLast, Untouched, Recorded, ReportIds, RentalIds, world, rows

\* Every step rents, empties a slot, puts a battery in, ends a rental, or
\* leaves the rows and the batteries alone.
LEMMA StepKinds ==
    ASSUME Inv, [Next]_vars
    PROVE  /\ Grows /\ rentals' \in Seq(Rental) /\ reports' \in Seq(Report)
           /\ \/ \E s \in Slots : Rented(s, slots[s].battery)
              \/ \E s \in Slots : TakeOut(s)
              \/ \E b \in Batteries, s \in Slots : Put(b, s, Len(reports) + 1)
              \/ \E h \in Requests : /\ Settle(h)
                    /\ EndedBy(work[h].report, work[h].order,
                           [order |-> work[h].order, report |-> work[h].report,
                            category |-> work[h].category, slotOK |-> work[h].slotOK])
              \/ \E o \in RentalIds, s \in Slots :
                    EndedByHand(o, rentals[o].battery, s,
                           [order |-> o, report |-> 0,
                            category |-> "normal", slotOK |-> TRUE])
              \/ UNCHANGED <<world, rows>>
    <1> DEFINE Fine == Grows /\ rentals' \in Seq(Rental) /\ reports' \in Seq(Report)
    <1>0. rentals \in Seq(Rental) /\ reports \in Seq(Report)
        BY Typed DEF Inv
    <1>1. ASSUME NEW s \in Slots, Rent(s)
          PROVE  Fine /\ \E t \in Slots : Rented(t, slots[t].battery)
        BY <1>0, <1>1, RentIs DEF Rented
    <1>2. ASSUME NEW s \in Slots, TakeOut(s)
          PROVE  Fine /\ \E t \in Slots : TakeOut(t)
        BY <1>0, <1>2, QuietGrows DEF TakeOut
    <1>3. ASSUME NEW b \in Batteries, NEW s \in Slots, NEW numbered \in BOOLEAN,
                 NEW soc \in Socs, PutIn(b, s, numbered, soc)
          PROVE  Fine /\ \E c \in Batteries, t \in Slots : Put(c, t, Len(reports) + 1)
        BY <1>0, <1>3, PutInIs DEF PutIn, rows
    <1>4. ASSUME NEW h \in Requests, Settle(h)
          PROVE  Fine /\ EndedBy(work[h].report, work[h].order,
                           [order |-> work[h].order, report |-> work[h].report,
                            category |-> work[h].category, slotOK |-> work[h].slotOK])
        BY <1>0, <1>4, SettleIs DEF EndedBy, Ended
    <1>5. ASSUME NEW h \in Requests, ManualSettle(h)
          PROVE  Fine /\ \E o \in RentalIds, s \in Slots :
                    EndedByHand(o, rentals[o].battery, s,
                           [order |-> o, report |-> 0,
                            category |-> "normal", slotOK |-> TRUE])
        BY <1>0, <1>5, ManualSettleIs DEF ByHand, EndedByHand, Ended
    <1>6. ASSUME UNCHANGED <<world, rows>>
          PROVE  Fine
        BY <1>0, <1>6, QuietGrows DEF world, rows
    <1>7. \/ \E s \in Slots : Rent(s) \/ TakeOut(s)
          \/ \E b \in Batteries, s \in Slots, numbered \in BOOLEAN, soc \in Socs :
                PutIn(b, s, numbered, soc)
          \/ \E h \in Requests : Settle(h) \/ ManualSettle(h)
          \/ UNCHANGED <<world, rows>>
        BY DEF Next, Use, Deliver, Receive, Serve, AcquireLock, Judge, Abort, Answer,
               ManualLock, ManualAbort, Fails, ReceiveFails, ManualReturn, Crash,
               LockEnds, vars, world, rows
    <1> HIDE DEF Fine
    <1>8. Fine => Grows /\ rentals' \in Seq(Rental) /\ reports' \in Seq(Report)
        BY DEF Fine
    <1> QED BY <1>1, <1>2, <1>3, <1>4, <1>5, <1>6, <1>7, <1>8

LEMMA RowsStep == Inv /\ [Next]_vars => RowsOK'
    <1> SUFFICES ASSUME Inv, [Next]_vars PROVE RowsOK'
        OBVIOUS
    <1>1. \A s \in Slots : Rented(s, slots[s].battery) => RowsOK'
        BY RentRows
    <1>2. \A s \in Slots : TakeOut(s) => RowsOK'
        BY TakeOutRows
    <1>3. \A b \in Batteries, s \in Slots : Put(b, s, Len(reports) + 1) => RowsOK'
        BY PutInRows
    <1>4. \A r, o, rec : EndedBy(r, o, rec) => RowsOK'
        BY EndedByRows
    <1>5. \A o, b, rec : \A s \in Slots : EndedByHand(o, b, s, rec) => RowsOK'
        BY EndedByHandRows
    <1> QED BY <1>1, <1>2, <1>3, <1>4, <1>5, StepKinds, StillRows

-----------------------------------------------------------------------------
(* Types *)

LEMMA WorkingGrows ==
    ASSUME Grows
    PROVE  /\ Working \subseteq Working' /\ Received \subseteq Received'
           /\ Idle' = Idle
    <1>1. /\ Received \subseteq Received' /\ Found \subseteq Found'
          /\ Returned \subseteq Returned' /\ ByHand \subseteq ByHand'
          /\ HandReturned \subseteq HandReturned'
        BY DEF Grows, Received, Found, Returned, ByHand, HandReturned, SlotRow
    <1> QED BY <1>1 DEF Working, Idle

LEMMA SameWork ==
    ASSUME Inv, Grows, UNCHANGED work
    PROVE  WorkOK'
    <1>1. work' \in [Requests -> Working' \cup {Idle}]
        BY WorkingGrows DEF Inv, WorkOK
    <1>2. ASSUME NEW h \in Requests, work[h].step = "judged", work[h].order # 0
          PROVE  rentals'[work[h].order].battery = reports'[work[h].report].battery
        <2>1. work[h].order \in RentalIds /\ work[h].report \in ReportIds
            BY <1>2, WorkFacts DEF Found, Inv
        <2> QED BY <1>2, <2>1 DEF Grows, Inv, WorkOK
    <1> QED BY <1>1, <1>2, WorkingGrows DEF Inv, WorkOK

\* One request goes on to w.
LEMMA OneWorks ==
    ASSUME Inv, Grows, NEW h \in Requests, NEW w \in Working' \cup {Idle},
           Goto(h, w),
           w.step = "judged" /\ w.order # 0 =>
              /\ w.category \in {"normal", "suspect_swapped"}
              /\ rentals'[w.order].battery = reports'[w.report].battery
    PROVE  WorkOK'
    <1>1. work' \in [Requests -> Working' \cup {Idle}]
        BY WorkingGrows DEF Inv, WorkOK, Goto
    <1>2. \A g \in Requests : work'[g] = IF g = h THEN w ELSE work[g]
        BY DEF Inv, WorkOK, Goto
    <1>3. ASSUME NEW g \in Requests, g # h, work[g].step = "judged", work[g].order # 0
          PROVE  /\ work[g].category \in {"normal", "suspect_swapped"}
                 /\ rentals'[work[g].order].battery = reports'[work[g].report].battery
        <2>1. work[g].order \in RentalIds /\ work[g].report \in ReportIds
            BY <1>3, WorkFacts DEF Found, Inv
        <2> QED BY <1>3, <2>1 DEF Grows, Inv, WorkOK
    <1> QED BY <1>1, <1>2, <1>3, WorkingGrows DEF WorkOK

LEMMA GoesIdle ==
    ASSUME Inv, Grows, NEW h \in Requests, Goto(h, Idle)
    PROVE  WorkOK'
    BY OneWorks, IdleStep

\* What the judgement finds.
LEMMA JudgedIs ==
    ASSUME Inv, NEW h \in Requests, work[h].step = "locked", NEW readable \in BOOLEAN
    PROVE  /\ Judged(h, readable) \in Found
           /\ Judged(h, readable).step = "judged"
           /\ Judged(h, readable).report = work[h].report
           /\ Judged(h, readable).order # 0 =>
                 /\ Judged(h, readable).category \in {"normal", "suspect_swapped"}
                 /\ rentals[Judged(h, readable).order].battery
                       = reports[work[h].report].battery
    <1> DEFINE b == Battery(h)
               found == RentingOf(b) # {}
               judge == Evaluate(found, work[h].report, work[h].slotRow, readable)
               first == CHOOSE o \in RentingOf(b) : \A p \in RentingOf(b) : p <= o
               order == IF found THEN first ELSE 0
               category == Classify(found, judge, b)
    <1>1. /\ work[h] \in Received /\ work[h].report \in ReportIds
          /\ b = reports[work[h].report].battery
        BY WorkFacts DEF Inv, Received, Battery
    <1>2. b \in Batteries /\ status[b] \in {"in_cabinet", "in_use"}
        BY <1>1, Typed DEF Inv, Report
    <1> HIDE DEF b
    <1>3. found => first \in RentingOf(b)
        <2> SUFFICES ASSUME NEW o \in RentingOf(b)
                     PROVE  first \in RentingOf(b)
            OBVIOUS
        <2>1. o <= o
            BY Typed DEF RentingOf, RentalIds, Inv
        <2>2. \A p \in RentingOf(b) : p <= o
            BY <2>1 DEF RentingOf, Inv, RowsOK
        <2> QED BY <2>2
    <1>4. order \in RentalIds \cup {0} /\ (order # 0 => rentals[order].battery = b)
        BY <1>3 DEF RentingOf
    <1>5. order # 0 => found
        OBVIOUS
    <1>6. category \in Categories /\ (found => category \in {"normal", "suspect_swapped"})
        BY <1>2 DEF Classify, Categories
    <1>7. judge.slotStateOK \in BOOLEAN
        BY DEF Evaluate
    <1>8. Judged(h, readable) = [step |-> "judged", report |-> work[h].report,
                order |-> order, slotOK |-> judge.slotStateOK, category |-> category]
        BY DEF Judged, b
    <1> HIDE DEF found, judge, first, order, category
    <1>9. /\ Judged(h, readable).step = "judged"
          /\ Judged(h, readable).report = work[h].report
          /\ Judged(h, readable).order = order
          /\ Judged(h, readable).category = category
          /\ Judged(h, readable) \in Found
        BY <1>1, <1>4, <1>6, <1>7, <1>8 DEF Found
    <1> QED BY <1>1, <1>4, <1>5, <1>6, <1>9

LEMMA LockedIs ==
    ASSUME Inv, NEW h \in Requests
    PROVE  /\ work[h].step = "received" =>
                 /\ [work[h] EXCEPT !.step = "locked"] \in Received
                 /\ [work[h] EXCEPT !.step = "locked"].step = "locked"
                 /\ [work[h] EXCEPT !.step = "locked"].report = work[h].report
           /\ work[h].step = "manual" =>
                 /\ [work[h] EXCEPT !.step = "manual_locked"] \in ByHand
                 /\ [work[h] EXCEPT !.step = "manual_locked"].step = "manual_locked"
    <1>1. CASE work[h].step = "received"
        <2>1. work[h] \in Received
            BY <1>1, WorkFacts DEF Inv
        <2> QED BY <1>1, <2>1 DEF Received
    <1>2. CASE work[h].step = "manual"
        <2>1. work[h] \in ByHand
            BY <1>2, WorkFacts DEF Inv
        <2> QED BY <1>2, <2>1 DEF ByHand
    <1> QED BY <1>1, <1>2

LEMMA WorkStep == Inv /\ [Next]_vars => WorkOK'
    <1> SUFFICES ASSUME Inv, [Next]_vars PROVE WorkOK'
        OBVIOUS
    <1>0. /\ Grows /\ Working \subseteq Working' /\ Received \subseteq Received'
        BY StepKinds, WorkingGrows
    <1>1. ASSUME UNCHANGED work
          PROVE  WorkOK'
        BY <1>0, <1>1, SameWork
    <1>2. ASSUME NEW h \in Requests, NEW r \in ReportIds, Receive(h, r)
          PROVE  WorkOK'
        <2> DEFINE w == [step |-> "received", report |-> r,
                         slotRow |-> slots[reports[r].slot]]
        <2>1. slots[reports[r].slot] \in SlotRow
            BY Typed DEF Inv, Report
        <2>2. w \in Received /\ w.step # "judged"
            BY <2>1 DEF Received
        <2>3. Goto(h, w)
            BY <1>2 DEF Receive
        <2> HIDE DEF w
        <2> QED BY <1>0, <2>2, <2>3, OneWorks DEF Working
    <1>3. ASSUME NEW h \in Requests, AcquireLock(h)
          PROVE  WorkOK'
        <2> DEFINE w == [work[h] EXCEPT !.step = "locked"]
        <2>1. work[h].step = "received" /\ (Goto(h, w) \/ Goto(h, Idle))
            BY <1>3 DEF AcquireLock
        <2>2. w \in Received /\ w.step = "locked"
            BY <2>1, LockedIs
        <2> HIDE DEF w
        <2> QED BY <1>0, <2>1, <2>2, OneWorks, GoesIdle DEF Working
    <1>4. ASSUME NEW h \in Requests, Judge(h)
          PROVE  WorkOK'
        <2>1. PICK readable \in BOOLEAN : Goto(h, Judged(h, readable))
            BY <1>4 DEF Judge
        <2> DEFINE w == Judged(h, readable)
        <2>2. work[h].step = "locked" /\ UNCHANGED <<rentals, reports>>
            BY <1>4 DEF Judge, world, rows
        <2>3. /\ w \in Found /\ w.report = work[h].report
              /\ w.order # 0 =>
                    /\ w.category \in {"normal", "suspect_swapped"}
                    /\ rentals[w.order].battery = reports[w.report].battery
            BY <2>2, JudgedIs
        <2> HIDE DEF w
        <2> QED BY <1>0, <2>1, <2>2, <2>3, OneWorks DEF Working, w
    <1>5. ASSUME NEW h \in Requests, Settle(h)
          PROVE  WorkOK'
        <2> DEFINE w == [step |-> "returned", report |-> work[h].report]
        <2>1. work[h].report \in ReportIds
            BY <1>5, SettleIs DEF Found
        <2>2. w \in Returned /\ w.step = "returned" /\ Goto(h, w)
            BY <1>5, <2>1 DEF Settle, Returned
        <2> HIDE DEF w
        <2> QED BY <1>0, <2>2, OneWorks DEF Working
    <1>6. ASSUME NEW h \in Requests, Goto(h, Idle)
          PROVE  WorkOK'
        BY <1>0, <1>6, GoesIdle
    <1>7. ASSUME NEW h \in Requests, NEW o \in RentalIds, NEW s \in Slots,
                 ManualReturn(h, o, s)
          PROVE  WorkOK'
        <2> DEFINE w == [step |-> "manual", order |-> o, slot |-> s]
        <2>1. w \in ByHand /\ w.step = "manual" /\ Goto(h, w)
            BY <1>7 DEF ManualReturn, ByHand
        <2> HIDE DEF w
        <2> QED BY <1>0, <2>1, OneWorks DEF Working
    <1>8. ASSUME NEW h \in Requests, ManualLock(h)
          PROVE  WorkOK'
        <2> DEFINE w == [work[h] EXCEPT !.step = "manual_locked"]
        <2>1. work[h].step = "manual" /\ (Goto(h, w) \/ Goto(h, Idle))
            BY <1>8 DEF ManualLock
        <2>2. w \in ByHand /\ w.step = "manual_locked"
            BY <2>1, LockedIs
        <2> HIDE DEF w
        <2> QED BY <1>0, <2>1, <2>2, OneWorks, GoesIdle DEF Working
    <1>9. ASSUME NEW h \in Requests, ManualSettle(h)
          PROVE  WorkOK'
        <2> DEFINE w == [step |-> "manual_returned", order |-> work[h].order]
        <2>1. work[h].order \in RentalIds
            BY <1>9, ManualSettleIs
        <2>2. w \in HandReturned /\ w.step = "manual_returned" /\ Goto(h, w)
            BY <1>9, <2>1 DEF ManualSettle, HandReturned
        <2> HIDE DEF w
        <2> QED BY <1>0, <2>2, OneWorks DEF Working
    <1>10. CASE Crash
        <2>1. \A h \in Requests : work'[h] = Idle
            BY <1>10 DEF Crash
        <2>2. work' = [h \in Requests |-> Idle]
            BY <1>10 DEF Crash
        <2> QED BY <2>1, <2>2, IdleStep, WorkingGrows, <1>0 DEF WorkOK
    <1>11. ASSUME NEW h \in Requests, Serve(h) \/ Fails(h)
           PROVE  WorkOK'
        BY <1>3, <1>4, <1>5, <1>6, <1>8, <1>9, <1>11
           DEF Serve, Abort, Answer, ManualAbort, Fails
    <1>12. ASSUME Use \/ (\E h \in Requests, r \in ReportIds : ReceiveFails(h, r))
                  \/ (\E b \in Batteries : LockEnds(b)) \/ UNCHANGED vars
           PROVE  WorkOK'
        <2>1. UNCHANGED work
            BY <1>12 DEF Use, Rent, TakeOut, PutIn, ReceiveFails, LockEnds, vars
        <2> QED BY <1>1, <2>1
    <1> QED BY <1>2, <1>7, <1>10, <1>11, <1>12 DEF Next, Deliver

\* Whose lock it is stays a request or nobody.
LEMMA LockStep ==
    ASSUME Inv, [Next]_vars
    PROVE  lock' \in [Batteries -> Requests \cup {Free}]
    <1>0. lock \in [Batteries -> Requests \cup {Free}]
        BY Typed DEF Inv
    <1>1. \A h \in Requests : \A b : Release(h, b) =>
             lock' \in [Batteries -> Requests \cup {Free}]
        BY <1>0 DEF Release
    <1>2. \A h \in Requests : \A b :
             lock' = [lock EXCEPT ![b] = h] \/ lock' = [lock EXCEPT ![b] = Free]
                => lock' \in [Batteries -> Requests \cup {Free}]
        BY <1>0
    <1>3. \A h \in Requests :
             AcquireLock(h) \/ ManualLock(h)
                => UNCHANGED lock \/ lock' = [lock EXCEPT ![Battery(h)] = h]
        BY DEF AcquireLock, ManualLock
    <1>4. \A h \in Requests :
             Abort(h) \/ Answer(h) \/ Fails(h) \/ ManualAbort(h) => Release(h, Battery(h))
        BY DEF Abort, Answer, Fails, ManualAbort
    <1>5. \A b \in Batteries : LockEnds(b) =>
             lock' \in [Batteries -> Requests \cup {Free}]
        BY <1>0 DEF LockEnds
    <1>6. \/ UNCHANGED lock
          \/ \E h \in Requests : AcquireLock(h) \/ ManualLock(h)
          \/ \E h \in Requests : Abort(h) \/ Answer(h) \/ Fails(h) \/ ManualAbort(h)
          \/ \E b \in Batteries : LockEnds(b)
        BY DEF Next, Use, Rent, TakeOut, PutIn, Deliver, Receive, ReceiveFails, Serve,
               Judge, Settle, ManualSettle, ManualReturn, Crash, vars
    <1> QED BY <1>0, <1>1, <1>2, <1>3, <1>4, <1>5, <1>6

LEMMA PlaceTypes ==
    ASSUME Inv, [Next]_vars
    PROVE  /\ place' \in [Batteries -> Slots \cup {Out}]
           /\ slots' \in [Slots -> SlotRow]
           /\ status' \in [Batteries -> {"in_cabinet", "in_use"}]
    <1>0. /\ place \in [Batteries -> Slots \cup {Out}]
          /\ slots \in [Slots -> SlotRow]
          /\ status \in [Batteries -> {"in_cabinet", "in_use"}]
        BY Typed DEF Inv
    <1>1. \A c \in Batteries \cup {Out} :
             \A st \in {"empty", "occupied", "unlocking"} :
                [status |-> st, battery |-> c] \in SlotRow
        BY DEF SlotRow
    <1>2. ASSUME NEW s \in Slots, NEW b, Rented(s, b)
          PROVE  /\ UNCHANGED place /\ slots' \in [Slots -> SlotRow]
                 /\ status' \in [Batteries -> {"in_cabinet", "in_use"}]
        <2>1. [status |-> "unlocking", battery |-> b] \in SlotRow
            BY <1>1, <1>2 DEF Rented
        <2> QED BY <1>0, <1>2, <2>1 DEF Rented
    <1>3. ASSUME NEW s \in Slots, TakeOut(s)
          PROVE  /\ place' \in [Batteries -> Slots \cup {Out}]
                 /\ slots' \in [Slots -> SlotRow] /\ UNCHANGED status
        <2>1. [status |-> "empty", battery |-> Out] \in SlotRow
            BY <1>1
        <2> QED BY <1>0, <1>3, <2>1 DEF TakeOut
    <1>4. ASSUME NEW b \in Batteries, NEW s \in Slots, NEW n, Put(b, s, n)
          PROVE  place' \in [Batteries -> Slots \cup {Out}] /\ UNCHANGED <<slots, status>>
        BY <1>0, <1>4 DEF Put, rows
    <1>5. ASSUME NEW o, NEW b, NEW s \in Slots, NEW rec, Ended(o, b, s, rec)
          PROVE  /\ slots' \in [Slots -> SlotRow]
                 /\ status' \in [Batteries -> {"in_cabinet", "in_use"}]
        <2>1. b \in Batteries
            BY <1>5, EndedIsOnlyOne
        <2>2. [status |-> "occupied", battery |-> b] \in SlotRow
            BY <1>1, <2>1
        <2> QED BY <1>0, <1>5, <2>1, <2>2 DEF Ended
    <1>6. ASSUME NEW r, NEW o, NEW rec, EndedBy(r, o, rec)
          PROVE  /\ UNCHANGED place /\ slots' \in [Slots -> SlotRow]
                 /\ status' \in [Batteries -> {"in_cabinet", "in_use"}]
        <2>1. reports[r].slot \in Slots
            BY <1>6, Typed DEF Inv, EndedBy, Report
        <2> QED BY <1>5, <1>6, <2>1 DEF EndedBy
    <1>7. ASSUME NEW o, NEW b, NEW s \in Slots, NEW rec, EndedByHand(o, b, s, rec)
          PROVE  /\ place' \in [Batteries -> Slots \cup {Out}]
                 /\ slots' \in [Slots -> SlotRow]
                 /\ status' \in [Batteries -> {"in_cabinet", "in_use"}]
        BY <1>0, <1>5, <1>7 DEF EndedByHand
    <1>8. CASE UNCHANGED <<world, rows>>
        BY <1>0, <1>8 DEF world, rows
    <1> QED BY <1>0, <1>2, <1>3, <1>4, <1>6, <1>7, <1>8, StepKinds

LEMMA RecordTypes ==
    ASSUME Inv, [Next]_vars
    PROVE  records' \subseteq [order: RentalIds', report: ReportIds' \cup {0},
                               category: {"normal", "suspect_swapped"},
                               slotOK: BOOLEAN]
    <1> DEFINE Record == [order: RentalIds', report: ReportIds' \cup {0},
                          category: {"normal", "suspect_swapped"}, slotOK: BOOLEAN]
    <1>0. /\ Grows /\ records \subseteq Record
        BY StepKinds DEF Inv, ReturnsTypeOK, Grows
    <1>1. ASSUME NEW h \in Requests, Settle(h)
          PROVE  \E rec \in Record : records' = records \cup {rec}
        <2> DEFINE rec == [order |-> work[h].order, report |-> work[h].report,
                           category |-> work[h].category, slotOK |-> work[h].slotOK]
        <2>1. /\ work[h] \in Found /\ work[h].order \in RentalIds
              /\ work[h].category \in {"normal", "suspect_swapped"}
              /\ records' = records \cup {rec}
            BY <1>1, SettleIs DEF EndedBy, Ended
        <2>2. work[h].report \in ReportIds /\ work[h].slotOK \in BOOLEAN
            BY <2>1 DEF Found
        <2>3. rec \in Record
            BY <1>0, <2>1, <2>2 DEF Grows
        <2> HIDE DEF rec
        <2> QED BY <2>1, <2>3
    <1>2. ASSUME NEW o \in RentalIds, NEW b, NEW s,
                 EndedByHand(o, b, s, [order |-> o, report |-> 0,
                                       category |-> "normal", slotOK |-> TRUE])
          PROVE  \E rec \in Record : records' = records \cup {rec}
        <2>1. [order |-> o, report |-> 0, category |-> "normal", slotOK |-> TRUE]
                 \in Record
            BY <1>0 DEF Grows
        <2> HIDE DEF Record
        <2> QED BY <1>2, <2>1 DEF EndedByHand, Ended
    <1>3. \A s : Rented(s, slots[s].battery) \/ TakeOut(s) => UNCHANGED records
        BY DEF Rented, TakeOut
    <1>4. \A b, s, n : Put(b, s, n) => UNCHANGED records
        BY DEF Put, rows
    <1>5. UNCHANGED <<world, rows>> => UNCHANGED records
        BY DEF rows
    <1> HIDE DEF Record
    <1>6. UNCHANGED records \/ \E rec \in Record : records' = records \cup {rec}
        BY <1>1, <1>2, <1>3, <1>4, <1>5, StepKinds
    <1>7. records' \subseteq Record
        BY <1>0, <1>6
    <1> QED BY <1>7 DEF Record

LEMMA CounterTypes ==
    ASSUME Inv, [Next]_vars
    PROVE  faults' \in 0..MaxFaults /\ manuals' \in 0..MaxManual
    <1>0. /\ faults \in 0..MaxFaults /\ manuals \in 0..MaxManual
          /\ MaxFaults \in Nat /\ MaxManual \in Nat
        BY ReturnReportsAssumption DEF Inv, ReturnsTypeOK
    <1>1. \A k : Fault(k) => faults' \in 0..MaxFaults
        BY <1>0 DEF Fault
    <1>2. \/ UNCHANGED <<faults, manuals>>
          \/ UNCHANGED manuals /\ \E k : Fault(k)
          \/ /\ UNCHANGED faults
             /\ manuals < MaxManual /\ manuals' = manuals + 1
        BY DEF Next, Use, Rent, TakeOut, PutIn, Deliver, Receive, ReceiveFails, Serve,
               AcquireLock, Judge, Settle, Abort, Answer, ManualLock, ManualSettle,
               ManualAbort, ManualReturn, Fails, Crash, LockEnds, vars
    <1> QED BY <1>0, <1>1, <1>2

LEMMA KeyTypes ==
    ASSUME Inv, [Next]_vars
    PROVE  keys' \subseteq ReportIds'
    <1>0. keys \subseteq ReportIds /\ ReportIds \subseteq ReportIds'
        BY StepKinds DEF Inv, ReturnsTypeOK, Grows
    <1>1. UNCHANGED keys \/ \E r \in ReportIds : keys' = keys \cup {r}
        BY DEF Next, Use, Rent, TakeOut, PutIn, Deliver, Receive, ReceiveFails, Serve,
               AcquireLock, Judge, Settle, Abort, Answer, ManualLock, ManualSettle,
               ManualAbort, ManualReturn, Fails, Crash, LockEnds, TakeKey, vars
    <1> QED BY <1>0, <1>1

LEMMA TypeStep == Inv /\ [Next]_vars => ReturnsTypeOK'
    <1> SUFFICES ASSUME Inv, [Next]_vars PROVE ReturnsTypeOK'
        OBVIOUS
    <1>1. /\ rentals' \in Seq(Rental) /\ reports' \in Seq(Report)
          /\ Report \subseteq Report'
        BY StepKinds DEF Grows, Report
    <1>2. reports' \in Seq(Report')
        BY <1>1
    <1>3. \A h \in Requests : work'[h].step \in Steps \cup {"idle"}
        <2>1. \A w \in Working' \cup {Idle'} : w.step \in Steps \cup {"idle"}
            BY IdleStep DEF Working, Received, Found, Returned, ByHand, HandReturned,
                            Steps, Idle
        <2> QED BY <2>1, WorkStep DEF WorkOK
    <1> QED BY <1>1, <1>2, <1>3, PlaceTypes, RecordTypes, CounterTypes, KeyTypes, LockStep
            DEF ReturnsTypeOK, Report, Rental

LEMMA InvStep == Inv /\ [Next]_vars => Inv'
    BY TypeStep, WorkStep, RowsStep DEF Inv

LEMMA InvHolds == Spec => []Inv
    BY InitInv, InvStep, PTL DEF Spec

\* Whatever fails, a request only ever works on a report and a rental there
\* are, every record is of a rental, and only the two categories that end a
\* rental are recorded: the foreign key refuses the others.
THEOREM ReturnTypesHold == Spec => []ReturnsTypeOK
    <1>1. Inv => ReturnsTypeOK
        BY DEF Inv
    <1> QED BY <1>1, InvHolds, PTL

-----------------------------------------------------------------------------
(* Reports with a number *)

\* Request h has report r before it.
Serves(h, r) ==
    work[h].step \in {"received", "locked", "judged"} /\ work[h].report = r

\* The inductive invariant, second part: a report with a number is served by
\* one request and only until it has made a record, and its key says so.
ServedOnce ==
    \A r \in ReportIds : reports[r].numbered =>
        /\ \A h \in Requests : Serves(h, r) =>
              r \in keys /\ \A rec \in records : rec.report # r
        /\ \A h, g \in Requests : Serves(h, r) /\ Serves(g, r) => h = g
        /\ \A rec \in records : rec.report = r => r \in keys

\* Only Receive begins to serve a report.
NoNewService == \A h \in Requests : \A r : Serves(h, r)' => Serves(h, r)

LEMMA OneGoesOn ==
    ASSUME Inv, NEW h \in Requests, NEW w, Goto(h, w),
           w.step \in {"received", "locked", "judged"} =>
              /\ work[h].step \in {"received", "locked", "judged"}
              /\ w.report = work[h].report
    PROVE  NoNewService
    <1>1. \A g \in Requests : work'[g] = IF g = h THEN w ELSE work[g]
        BY DEF Inv, WorkOK, Goto
    <1> QED BY <1>1 DEF NoNewService, Serves

LEMMA ServiceSteps ==
    ASSUME Inv, [Next]_vars
    PROVE  \/ NoNewService
           \/ \E h \in Requests, r \in ReportIds : Receive(h, r)
    <1>1. \A h \in Requests : Goto(h, Idle) => NoNewService
        BY IdleStep, OneGoesOn
    <1>2. ASSUME NEW h \in Requests, AcquireLock(h)
          PROVE  NoNewService
        <2> DEFINE w == [work[h] EXCEPT !.step = "locked"]
        <2>1. work[h].step = "received" /\ (Goto(h, w) \/ Goto(h, Idle))
            BY <1>2 DEF AcquireLock
        <2>2. w.report = work[h].report
            BY <2>1, LockedIs
        <2> HIDE DEF w
        <2> QED BY <1>1, <2>1, <2>2, OneGoesOn
    <1>3. ASSUME NEW h \in Requests, Judge(h)
          PROVE  NoNewService
        <2>1. PICK readable \in BOOLEAN : Goto(h, Judged(h, readable))
            BY <1>3 DEF Judge
        <2>2. work[h].step = "locked" /\ Judged(h, readable).report = work[h].report
            BY <1>3, JudgedIs DEF Judge
        <2> QED BY <2>1, <2>2, OneGoesOn
    <1>4. ASSUME NEW h \in Requests, Settle(h)
          PROVE  NoNewService
        <2> DEFINE w == [step |-> "returned", report |-> work[h].report]
        <2>1. Goto(h, w) /\ w.step = "returned"
            BY <1>4 DEF Settle
        <2> HIDE DEF w
        <2> QED BY <2>1, OneGoesOn
    <1>5. ASSUME NEW h \in Requests, NEW o, NEW s, ManualReturn(h, o, s)
          PROVE  NoNewService
        <2> DEFINE w == [step |-> "manual", order |-> o, slot |-> s]
        <2>1. Goto(h, w) /\ w.step = "manual"
            BY <1>5 DEF ManualReturn
        <2> HIDE DEF w
        <2> QED BY <2>1, OneGoesOn
    <1>6. ASSUME NEW h \in Requests, ManualLock(h)
          PROVE  NoNewService
        <2> DEFINE w == [work[h] EXCEPT !.step = "manual_locked"]
        <2>1. work[h].step = "manual" /\ (Goto(h, w) \/ Goto(h, Idle))
            BY <1>6 DEF ManualLock
        <2>2. w.step = "manual_locked"
            BY <2>1, LockedIs
        <2> HIDE DEF w
        <2> QED BY <1>1, <2>1, <2>2, OneGoesOn
    <1>7. ASSUME NEW h \in Requests, ManualSettle(h)
          PROVE  NoNewService
        <2> DEFINE w == [step |-> "manual_returned", order |-> work[h].order]
        <2>1. Goto(h, w) /\ w.step = "manual_returned"
            BY <1>7 DEF ManualSettle
        <2> HIDE DEF w
        <2> QED BY <2>1, OneGoesOn
    <1>8. Crash => NoNewService
        BY IdleStep DEF Crash, NoNewService, Serves
    <1>9. UNCHANGED work => NoNewService
        BY DEF NoNewService, Serves
    <1>10. \A h \in Requests : Abort(h) \/ Answer(h) \/ ManualAbort(h) \/ Fails(h)
                                  => Goto(h, Idle)
        BY DEF Abort, Answer, ManualAbort, Fails
    <1>11. \/ UNCHANGED work \/ Crash
           \/ \E h \in Requests, r \in ReportIds : Receive(h, r)
           \/ \E h \in Requests, o \in RentalIds, s \in Slots : ManualReturn(h, o, s)
           \/ \E h \in Requests :
                 \/ AcquireLock(h) \/ Judge(h) \/ Settle(h) \/ ManualLock(h)
                 \/ ManualSettle(h)
                 \/ Abort(h) \/ Answer(h) \/ ManualAbort(h) \/ Fails(h)
        BY DEF Next, Use, Rent, TakeOut, PutIn, Deliver, ReceiveFails, Serve, LockEnds,
               vars
    <1> QED BY <1>1, <1>2, <1>3, <1>4, <1>5, <1>6, <1>7, <1>8, <1>9, <1>10, <1>11

\* Keys are never given back.
LEMMA KeysStay ==
    ASSUME [Next]_vars
    PROVE  keys \subseteq keys'
    BY DEF Next, Use, Rent, TakeOut, PutIn, Deliver, Receive, ReceiveFails, Serve,
           AcquireLock, Judge, Settle, Abort, Answer, ManualLock, ManualSettle,
           ManualAbort, ManualReturn, Fails, Crash, LockEnds, TakeKey, vars

\* The reports of requests and records are there.
LEMMA ReportsAreThere ==
    ASSUME Inv
    PROVE  /\ \A h \in Requests : \A r : Serves(h, r) => r \in ReportIds
           /\ \A rec \in records : rec.report \in ReportIds \cup {0}
           /\ 0 \notin ReportIds
    <1>1. \A h \in Requests : \A r : Serves(h, r) => r \in ReportIds
        BY WorkFacts DEF Inv, Serves, Received, Found
    <1>2. 0 \notin ReportIds
        BY Typed DEF Inv, ReportIds
    <1> QED BY <1>1, <1>2 DEF Inv, ReturnsTypeOK

LEMMA ReceiveServes ==
    ASSUME Inv, ServedOnce, NEW h \in Requests, NEW n \in ReportIds, Receive(h, n)
    PROVE  ServedOnce'
    <1>1. /\ UNCHANGED <<reports, records, ReportIds>>
          /\ work[h].step = "idle" /\ keys \subseteq keys'
          /\ reports[n].numbered => n \notin keys /\ n \in keys'
        BY IdleStep DEF Receive, TakeKey, world, rows, ReportIds
    <1>2. \A g \in Requests \ {h} : \A r : Serves(g, r)' <=> Serves(g, r)
        BY DEF Receive, Goto, Inv, WorkOK, Serves
    <1>3. \A r : Serves(h, r)' => r = n
        <2> DEFINE w == [step |-> "received", report |-> n,
                         slotRow |-> slots[reports[n].slot]]
        <2>1. w.report = n /\ Goto(h, w)
            BY DEF Receive
        <2> HIDE DEF w
        <2> QED BY <2>1 DEF Goto, Inv, WorkOK, Serves
    <1>4. reports[n].numbered => /\ \A g \in Requests : ~Serves(g, n)
                                 /\ \A rec \in records : rec.report # n
        BY <1>1 DEF ServedOnce
    <1> SUFFICES ASSUME NEW r \in ReportIds, reports[r].numbered
                 PROVE  /\ \A g \in Requests : Serves(g, r)' =>
                              r \in keys' /\ \A rec \in records : rec.report # r
                        /\ \A g, k \in Requests : Serves(g, r)' /\ Serves(k, r)' => g = k
                        /\ \A rec \in records : rec.report = r => r \in keys'
        BY <1>1 DEF ServedOnce
    <1>5. CASE r = n
        BY <1>1, <1>2, <1>3, <1>4, <1>5
    <1>6. CASE r # n
        BY <1>1, <1>2, <1>3, <1>6 DEF ServedOnce
    <1> QED BY <1>5, <1>6

\* A step that serves nothing new, and adds no record but that of a report
\* which is then no longer served.
LEMMA ServesOn ==
    ASSUME Inv, ServedOnce, Grows, NoNewService, keys \subseteq keys',
           NEW rec,
           records' = records \/ records' = records \cup {rec},
           records' = records \cup {rec} /\ rec.report \in ReportIds =>
              \E h \in Requests : Serves(h, rec.report) /\ ~Serves(h, rec.report)',
           records' = records \cup {rec} => rec.report \in ReportIds \cup {0}
    PROVE  ServedOnce'
    <1> SUFFICES ASSUME NEW r \in ReportIds', reports'[r].numbered
                 PROVE  /\ \A g \in Requests : Serves(g, r)' =>
                              r \in keys' /\ \A q \in records' : q.report # r
                        /\ \A g, k \in Requests : Serves(g, r)' /\ Serves(k, r)' => g = k
                        /\ \A q \in records' : q.report = r => r \in keys'
        BY DEF ServedOnce
    <1>1. CASE r \notin ReportIds
        <2>1. r # 0
            BY DEF ReportIds
        <2> QED BY <1>1, <2>1, ReportsAreThere DEF NoNewService
    <1>2. CASE r \in ReportIds
        <2>1. reports[r].numbered /\ r # 0
            BY <1>2, ReportsAreThere DEF Grows
        <2>2. CASE records' = records
            BY <1>2, <2>1, <2>2 DEF ServedOnce, NoNewService
        <2>3. CASE records' = records \cup {rec} /\ rec.report # r
            BY <1>2, <2>1, <2>3 DEF ServedOnce, NoNewService
        <2>4. CASE records' = records \cup {rec} /\ rec.report = r
            <3>1. PICK h \in Requests : Serves(h, r) /\ ~Serves(h, r)'
                BY <1>2, <2>4
            <3>2. r \in keys' /\ \A g \in Requests : ~Serves(g, r)'
                BY <1>2, <2>1, <3>1 DEF ServedOnce, NoNewService
            <3> QED BY <2>4, <3>2
        <2> QED BY <2>2, <2>3, <2>4
    <1> QED BY <1>1, <1>2

LEMMA ServedStep == Inv /\ ServedOnce /\ [Next]_vars => ServedOnce'
    <1> SUFFICES ASSUME Inv, ServedOnce, [Next]_vars PROVE ServedOnce'
        OBVIOUS
    <1>0. Grows /\ keys \subseteq keys'
        BY StepKinds, KeysStay
    <1>1. ASSUME NEW h \in Requests, NEW r \in ReportIds, Receive(h, r)
          PROVE  ServedOnce'
        BY <1>1, ReceiveServes
    <1>2. ASSUME NoNewService
          PROVE  ServedOnce'
        <2>1. ASSUME UNCHANGED records
              PROVE  ServedOnce'
            <3>1. records' = records
                BY <2>1
            <3> DEFINE rec == [report |-> 0]
            <3>2. rec.report = 0
                OBVIOUS
            <3> HIDE DEF rec
            <3>3. rec.report \notin ReportIds
                BY <3>2, ReportsAreThere
            <3> QED BY <1>0, <1>2, <3>1, <3>2, <3>3, ServesOn
        <2>2. ASSUME NEW o, NEW b, NEW s, NEW rec, EndedByHand(o, b, s, rec)
              PROVE  ServedOnce'
            <3>1. records' = records \cup {rec} /\ rec.report = 0
                BY <2>2 DEF EndedByHand, Ended
            <3>2. rec.report \notin ReportIds
                BY <3>1, ReportsAreThere
            <3> QED BY <1>0, <1>2, <3>1, <3>2, ServesOn
        <2>3. ASSUME NEW h \in Requests, Settle(h), NEW rec,
                     EndedBy(work[h].report, work[h].order, rec)
              PROVE  ServedOnce'
            <3>1. records' = records \cup {rec} /\ rec.report = work[h].report
                  /\ rec.report \in ReportIds
                BY <2>3 DEF EndedBy, Ended
            <3>2. Serves(h, rec.report)
                BY <2>3, <3>1 DEF Settle, Serves
            <3> DEFINE w == [step |-> "returned", report |-> work[h].report]
            <3>3. Goto(h, w) /\ w.step = "returned"
                BY <2>3 DEF Settle
            <3> HIDE DEF w
            <3>4. ~Serves(h, rec.report)'
                BY <3>3 DEF Goto, Inv, WorkOK, Serves
            <3> QED BY <1>0, <1>2, <3>1, <3>2, <3>4, ServesOn
        <2>4. \A s : Rented(s, slots[s].battery) \/ TakeOut(s) => UNCHANGED records
            BY DEF Rented, TakeOut
        <2>5. \A b, s, n : Put(b, s, n) => UNCHANGED records
            BY DEF Put, rows
        <2>6. UNCHANGED <<world, rows>> => UNCHANGED records
            BY DEF rows
        <2> QED BY <2>1, <2>2, <2>3, <2>4, <2>5, <2>6, StepKinds
    <1> QED BY <1>1, <1>2, ServiceSteps

\* At the record of a report about another rental, that one has its record.
LEMMA NumberedStep ==
    ASSUME Inv, ServedOnce, NumberedReportsEndTheirRental, [Next]_vars
    PROVE  NumberedReportsEndTheirRental'
    <1>0. Grows
        BY StepKinds
    <1>1. ASSUME NEW rec \in records, records \subseteq records',
                 Misplaced(rec)', reports'[rec.report].numbered
          PROVE  \E other \in records' :
                    /\ other.order = reports'[rec.report].rental
                    /\ other.report # rec.report
        <2>1. reports'[rec.report] = reports[rec.report]
            BY <1>0, <1>1, ReportsAreThere DEF Misplaced, Grows
        <2> QED BY <1>1, <2>1 DEF NumberedReportsEndTheirRental, Misplaced
    <1>2. ASSUME NEW h \in Requests, Settle(h), NEW rec,
                 EndedBy(work[h].report, work[h].order, rec),
                 Misplaced(rec)', reports'[rec.report].numbered
          PROVE  \E other \in records' :
                    /\ other.order = reports'[rec.report].rental
                    /\ other.report # rec.report
        <2> DEFINE r == rec.report
                   o == work[h].order
                   p == reports[r].rental
        <2>1. /\ r \in ReportIds /\ r = work[h].report /\ UNCHANGED reports
              /\ Ended(o, reports[r].battery, reports[r].slot, rec)
              /\ rec.order = o /\ records' = records \cup {rec}
            BY <1>2 DEF EndedBy, Ended
        <2>2. p \in RentalIds /\ p # o /\ rentals[p].battery = reports[r].battery
            BY <1>2, <2>1, Typed DEF Misplaced, Inv, RowsOK, Report
        <2>3. rentals[p].status # "renting"
            BY <2>1, <2>2, EndedIsOnlyOne
        <2>4. Recorded(p)
            BY <2>2, <2>3 DEF Inv, RowsOK
        <2>5. Serves(h, r)
            BY <1>2, <2>1 DEF Settle, Serves
        <2>6. \A other \in records : other.report # r
            BY <1>2, <2>1, <2>5 DEF ServedOnce
        <2> QED BY <2>1, <2>4, <2>6 DEF Recorded
    <1>3. \A o, b, s, rec : EndedByHand(o, b, s, rec) =>
             records' = records \cup {rec} /\ rec.report = 0
        BY DEF EndedByHand, Ended
    <1>4. \A r, o, rec : EndedBy(r, o, rec) => records' = records \cup {rec}
        BY DEF EndedBy, Ended
    <1>5. \A s : Rented(s, slots[s].battery) \/ TakeOut(s) => UNCHANGED records
        BY DEF Rented, TakeOut
    <1>6. \A b, s, n : Put(b, s, n) => UNCHANGED records
        BY DEF Put, rows
    <1>7. UNCHANGED <<world, rows>> => UNCHANGED records
        BY DEF rows
    <1>8. ASSUME NEW rec, records' = records \cup {rec},
                 Misplaced(rec)' /\ reports'[rec.report].numbered =>
                    \E other \in records' :
                       /\ other.order = reports'[rec.report].rental
                       /\ other.report # rec.report
          PROVE  NumberedReportsEndTheirRental'
        BY <1>1, <1>8 DEF NumberedReportsEndTheirRental
    <1>9. ASSUME UNCHANGED records
          PROVE  NumberedReportsEndTheirRental'
        BY <1>1, <1>9 DEF NumberedReportsEndTheirRental
    <1>10. ASSUME NEW o, NEW b, NEW s, NEW rec, EndedByHand(o, b, s, rec)
           PROVE  NumberedReportsEndTheirRental'
        <2>1. ~Misplaced(rec)'
            BY <1>3, <1>10 DEF Misplaced
        <2> QED BY <1>3, <1>8, <1>10, <2>1
    <1>11. ASSUME NEW h \in Requests, Settle(h), NEW rec,
                  EndedBy(work[h].report, work[h].order, rec)
           PROVE  NumberedReportsEndTheirRental'
        BY <1>2, <1>4, <1>8, <1>11
    <1> QED BY <1>5, <1>6, <1>7, <1>9, <1>10, <1>11, StepKinds

\* However often and late a report with a number comes, and whatever fails on
\* the way, it ends the rental it is about, or that one was ended otherwise:
\* the key lets it be served once, and the unique index of return_records
\* leaves a battery one rental at most that it could end.
THEOREM NumberedReportsAreRight == Spec => []NumberedReportsEndTheirRental
    <1>1. Init => ServedOnce /\ NumberedReportsEndTheirRental
        BY DEF Init, ServedOnce, NumberedReportsEndTheirRental, ReportIds
    <1>2. Inv /\ ServedOnce /\ NumberedReportsEndTheirRental /\ [Next]_vars
             => (ServedOnce /\ NumberedReportsEndTheirRental)'
        BY ServedStep, NumberedStep
    <1> QED BY <1>1, <1>2, InvHolds, PTL DEF Spec

-----------------------------------------------------------------------------
(* What is offered is there *)

\* Physically, a slot holds one battery.
OnePerSlot ==
    \A b, c \in Batteries : place[b] = place[c] /\ place[b] # Out => b = c

\* Report r is about a rental that goes on.
Current(r) == rentals[reports[r].rental].status = "renting"

\* A slot that is being unlocked has the battery it was rented with, and no
\* report that could end that rental is under way.
Unlocking ==
    \A s \in Slots : slots[s].status = "unlocking" =>
        LET b == slots[s].battery
        IN  /\ b \in Batteries
            /\ place[b] = s /\ status[b] = "in_use"
            /\ \A r \in ReportIds : Current(r) => reports[r].battery # b

\* A row that names a battery is right about it.
Offered ==
    \A s \in Slots :
        LET b == slots[s].battery
        IN  slots[s].status = "occupied" /\ b # Out
            => status[b] = "in_cabinet" /\ place[b] = s

\* While the rental it is about goes on, what was reported is still so.
Reported == \A r \in ReportIds : Current(r) => place[reports[r].battery] = reports[r].slot

\* The inductive invariant, third part: all this as long as no report has ended
\* a rental it is not about.
Orderly == \A rec \in records : ~Misplaced(rec)

PlacesAgree == Unlocking /\ Offered /\ Reported

PlacesOK == OnePerSlot /\ (Orderly => PlacesAgree)

LEMMA InitPlaces == Init => PlacesOK
    <1> SUFFICES ASSUME Init PROVE PlacesOK
        OBVIOUS
    <1>1. OnePerSlot
        BY ReturnReportsAssumption DEF Init, OnePerSlot
    <1>2. Reported
        BY DEF Init, Reported, ReportIds
    <1>3. Inv
        BY InitInv
    <1>4. \A s \in Slots : /\ slots[s].status # "unlocking"
                           /\ slots[s].status = "occupied" =>
                                 /\ slots[s].battery \in Batteries
                                 /\ Stock[slots[s].battery] = s
        <2> TAKE s \in Slots
        <2> DEFINE here == {c \in Batteries : Stock[c] = s}
                   b == CHOOSE c \in here : TRUE
        <2>1. slots[s] = IF here = {} THEN [status |-> "empty", battery |-> Out]
                         ELSE [status |-> "occupied", battery |-> b]
            BY DEF Init
        <2>2. here # {} => b \in Batteries /\ Stock[b] = s
            <3>1. here # {} => b \in here
                OBVIOUS
            <3> QED BY <3>1
        <2> HIDE DEF here, b
        <2> QED BY <2>1, <2>2
    <1>5. Unlocking
        BY <1>4 DEF Unlocking
    <1>6. Offered
        BY <1>4 DEF Init, Offered
    <1> QED BY <1>1, <1>2, <1>5, <1>6 DEF PlacesOK, PlacesAgree

\* What the places are about: batteries, slots and rentals there are.
LEMMA Things ==
    ASSUME Inv
    PROVE  /\ Out \notin Slots /\ Out \notin Batteries
           /\ \A r \in ReportIds : /\ reports[r].battery \in Batteries
                                   /\ reports[r].slot \in Slots
                                   /\ reports[r].rental \in RentalIds
                                   /\ Current(r) => status[reports[r].battery] = "in_use"
           /\ \A s \in Slots : slots[s].battery \in Batteries \cup {Out}
           /\ place \in [Batteries -> Slots \cup {Out}]
           /\ slots \in [Slots -> SlotRow]
           /\ status \in [Batteries -> {"in_cabinet", "in_use"}]
    <1>1. \A r \in ReportIds : reports[r] \in Report
        BY Typed DEF Inv
    <1>2. \A r \in ReportIds : Current(r) => status[reports[r].battery] = "in_use"
        BY <1>1 DEF Current, Inv, RowsOK, Report
    <1> QED BY <1>1, <1>2, Typed, ReturnReportsAssumption DEF Inv, Report, SlotRow

LEMMA RentPlaces ==
    ASSUME Inv, PlacesAgree, NEW s \in Slots, NEW b, Rented(s, b)
    PROVE  PlacesAgree'
    <1>1. /\ b \in Batteries /\ b = slots[s].battery /\ b # Out
          /\ slots[s].status = "occupied" /\ status[b] = "in_cabinet"
          /\ UNCHANGED <<place, reports, ReportIds>>
          /\ slots'[s].status = "unlocking" /\ slots'[s].battery = b
          /\ \A t \in Slots : t # s => slots'[t] = slots[t]
          /\ \A c \in Batteries : status'[c] = IF c = b THEN "in_use" ELSE status[c]
        BY Things DEF Rented, ReportIds
    <1>2. place[b] = s
        BY <1>1 DEF PlacesAgree, Offered
    <1>3. \A r \in ReportIds : Current(r)' <=> Current(r)
        BY <1>1, Things DEF Rented, Current
    <1>4. \A r \in ReportIds : Current(r) => reports[r].battery # b
        BY <1>1, Things
    <1>5. Unlocking'
        BY <1>1, <1>2, <1>3, <1>4 DEF PlacesAgree, Unlocking
    <1>6. Offered'
        BY <1>1, <1>2, Things DEF PlacesAgree, Offered
    <1>7. Reported'
        BY <1>1, <1>3 DEF PlacesAgree, Reported
    <1> QED BY <1>5, <1>6, <1>7 DEF PlacesAgree

LEMMA TakeOutPlaces ==
    ASSUME Inv, OnePerSlot, PlacesAgree, NEW s \in Slots, TakeOut(s)
    PROVE  PlacesAgree'
    <1> DEFINE b == slots[s].battery
    <1>1. /\ slots[s].status = "unlocking" /\ b \in Batteries /\ place[b] = s
          /\ \A r \in ReportIds : Current(r) => reports[r].battery # b
        BY DEF TakeOut, PlacesAgree, Unlocking
    <1>2. /\ UNCHANGED <<reports, rentals, status, ReportIds>>
          /\ \A c \in Batteries : place'[c] = IF c = b THEN Out ELSE place[c]
          /\ slots'[s].status = "empty"
          /\ \A t \in Slots : t # s => slots'[t] = slots[t]
        BY <1>1, Things DEF TakeOut, OnePerSlot, ReportIds
    <1> HIDE DEF b
    <1>3. \A r \in ReportIds : Current(r)' <=> Current(r)
        BY <1>2 DEF Current
    <1>4. Unlocking'
        BY <1>1, <1>2, <1>3 DEF PlacesAgree, Unlocking
    <1>5. Offered'
        BY <1>1, <1>2, Things DEF PlacesAgree, Offered
    <1>6. Reported'
        BY <1>1, <1>2, <1>3, Things DEF PlacesAgree, Reported
    <1> QED BY <1>4, <1>5, <1>6 DEF PlacesAgree

LEMMA PutInPlaces ==
    ASSUME Inv, PlacesAgree, NEW b \in Batteries, NEW s \in Slots, NEW n, Put(b, s, n)
    PROVE  PlacesAgree'
    <1>1. /\ UNCHANGED <<rentals, slots, status>>
          /\ ReportIds' = ReportIds \cup {n} /\ n \notin ReportIds
          /\ \A r \in ReportIds : reports'[r] = reports[r]
          /\ reports'[n].battery = b /\ reports'[n].slot = s
          /\ place[b] = Out
          /\ \A c \in Batteries : place'[c] = IF c = b THEN s ELSE place[c]
        BY Things DEF Put, rows
    <1>2. \A r \in ReportIds : Current(r)' <=> Current(r)
        BY <1>1 DEF Current
    <1>3. \A t \in Slots : slots[t].status = "unlocking" => slots[t].battery # b
        BY <1>1, Things DEF PlacesAgree, Unlocking
    <1>4. Unlocking'
        BY <1>1, <1>2, <1>3 DEF PlacesAgree, Unlocking
    <1>5. Offered'
        BY <1>1, Things DEF PlacesAgree, Offered
    <1>6. \A r \in ReportIds : Current(r) => reports[r].battery # b
        BY <1>1, Things DEF PlacesAgree, Reported
    <1>7. Reported'
        BY <1>1, <1>2, <1>6, Things DEF PlacesAgree, Reported
    <1> QED BY <1>4, <1>5, <1>7 DEF PlacesAgree

LEMMA EndedByPlaces ==
    ASSUME Inv, PlacesAgree, NEW r, NEW o, NEW rec, EndedBy(r, o, rec),
           ~Misplaced(rec)
    PROVE  PlacesAgree'
    <1> DEFINE b == reports[r].battery
               s == reports[r].slot
    <1>1. /\ r \in ReportIds /\ Ended(o, b, s, rec) /\ UNCHANGED <<place, reports, ReportIds>>
          /\ rec.order = o /\ rec.report = r
        BY DEF EndedBy, Ended, ReportIds
    <1>2. o = reports[r].rental
        BY <1>1, ReportsAreThere DEF Misplaced
    <1>3. /\ rentals[o].status = "renting"
          /\ \A p \in RentalIds : rentals'[p].status = "renting" =>
                                     p # o /\ rentals[p].status = "renting"
        BY <1>1, EndedIsOnlyOne
    <1>4. Current(r) /\ place[b] = s /\ b \in Batteries /\ s \in Slots
        BY <1>1, <1>2, <1>3, Things DEF Current, PlacesAgree, Reported
    <1>5. \A q \in ReportIds : Current(q)' => Current(q)
        BY <1>1, <1>3, Things DEF Current
    <1>6. /\ slots'[s].status = "occupied" /\ slots'[s].battery = b
          /\ \A t \in Slots : t # s => slots'[t] = slots[t]
          /\ \A c \in Batteries : status'[c] = IF c = b THEN "in_cabinet" ELSE status[c]
        BY <1>1, <1>4, Things DEF Ended
    <1>7. \A t \in Slots : slots[t].status = "unlocking" => slots[t].battery # b
        BY <1>1, <1>4 DEF PlacesAgree, Unlocking
    <1> HIDE DEF b, s
    <1>8. Unlocking'
        BY <1>1, <1>5, <1>6, <1>7 DEF PlacesAgree, Unlocking
    <1>9. Offered'
        BY <1>1, <1>4, <1>6, Things DEF PlacesAgree, Offered
    <1>10. Reported'
        BY <1>1, <1>5 DEF PlacesAgree, Reported
    <1> QED BY <1>8, <1>9, <1>10 DEF PlacesAgree

LEMMA EndedByHandPlaces ==
    ASSUME Inv, PlacesAgree, NEW o, NEW b, NEW s \in Slots, NEW rec,
           EndedByHand(o, b, s, rec)
    PROVE  PlacesAgree'
    <1>1. /\ Ended(o, b, s, rec) /\ UNCHANGED <<reports, ReportIds>>
          /\ place[b] \in {Out, s}
        BY DEF EndedByHand, Ended, ReportIds
    <1>2. /\ b \in Batteries /\ b = rentals[o].battery /\ o \in RentalIds
          /\ \A p \in RentalIds : p # o /\ rentals[p].battery = b
                                     => rentals[p].status # "renting"
          /\ \A p \in RentalIds : rentals'[p].status = "renting" =>
                                     p # o /\ rentals[p].status = "renting"
        BY <1>1, EndedIsOnlyOne
    <1>3. \A q \in ReportIds : Current(q)' => Current(q) /\ reports[q].battery # b
        BY <1>1, <1>2, Things DEF Current, Inv, RowsOK
    <1>4. /\ slots'[s].status = "occupied" /\ slots'[s].battery = b
          /\ \A t \in Slots : t # s => slots'[t] = slots[t]
          /\ \A c \in Batteries : status'[c] = IF c = b THEN "in_cabinet" ELSE status[c]
          /\ \A c \in Batteries : place'[c] = IF c = b THEN s ELSE place[c]
        BY <1>1, <1>2, Things DEF EndedByHand, Ended
    <1>5. \A t \in Slots : t # s /\ slots[t].status = "unlocking" => slots[t].battery # b
        BY <1>1, Things DEF PlacesAgree, Unlocking
    <1>6. Unlocking'
        BY <1>1, <1>3, <1>4, <1>5 DEF PlacesAgree, Unlocking
    <1>7. Offered'
        BY <1>1, <1>2, <1>4, Things DEF PlacesAgree, Offered
    <1>8. Reported'
        BY <1>1, <1>3, <1>4, Things DEF PlacesAgree, Reported
    <1> QED BY <1>6, <1>7, <1>8 DEF PlacesAgree

LEMMA OnePerSlotStep ==
    ASSUME Inv, OnePerSlot, [Next]_vars
    PROVE  OnePerSlot'
    <1>1. \A s \in Slots : TakeOut(s) => OnePerSlot'
        BY Things DEF TakeOut, OnePerSlot
    <1>2. \A b \in Batteries, s \in Slots : Put(b, s, Len(reports) + 1) => OnePerSlot'
        BY Things DEF Put, OnePerSlot
    <1>3. ASSUME NEW o \in RentalIds, NEW s \in Slots, NEW rec,
                 EndedByHand(o, rentals[o].battery, s, rec)
          PROVE  OnePerSlot'
        BY <1>3, Things DEF EndedByHand, OnePerSlot
    <1>4. UNCHANGED place => OnePerSlot'
        BY DEF OnePerSlot
    <1> QED BY <1>1, <1>2, <1>3, <1>4, StepKinds DEF Rented, EndedBy, world

\* Whether a record was misplaced never changes.
LEMMA MisplacedStays ==
    ASSUME Inv, [Next]_vars
    PROVE  /\ records \subseteq records'
           /\ \A rec \in records : Misplaced(rec)' <=> Misplaced(rec)
    <1>1. records \subseteq records'
        <2>1. \A s : Rented(s, slots[s].battery) \/ TakeOut(s) => UNCHANGED records
            BY DEF Rented, TakeOut
        <2>2. \A b, s, n : Put(b, s, n) => UNCHANGED records
            BY DEF Put, rows
        <2>3. \A o, b, s, rec : EndedByHand(o, b, s, rec) => records' = records \cup {rec}
            BY DEF EndedByHand, Ended
        <2>4. \A r, o, rec : EndedBy(r, o, rec) => records' = records \cup {rec}
            BY DEF EndedBy, Ended
        <2>5. UNCHANGED <<world, rows>> => UNCHANGED records
            BY DEF rows
        <2> QED BY <2>1, <2>2, <2>3, <2>4, <2>5, StepKinds
    <1>2. \A rec \in records : rec.report # 0 => reports'[rec.report] = reports[rec.report]
        BY StepKinds, ReportsAreThere DEF Grows
    <1> QED BY <1>1, <1>2 DEF Misplaced

LEMMA PlacesStep == Inv /\ PlacesOK /\ [Next]_vars => PlacesOK'
    <1> SUFFICES ASSUME Inv, PlacesOK, [Next]_vars, Orderly' PROVE PlacesAgree'
        BY OnePerSlotStep DEF PlacesOK
    <1>1. OnePerSlot /\ PlacesAgree
        BY MisplacedStays DEF PlacesOK, Orderly
    <1>2. \A s \in Slots : Rented(s, slots[s].battery) => PlacesAgree'
        BY <1>1, RentPlaces
    <1>3. \A s \in Slots : TakeOut(s) => PlacesAgree'
        BY <1>1, TakeOutPlaces
    <1>4. \A b \in Batteries, s \in Slots : Put(b, s, Len(reports) + 1) => PlacesAgree'
        BY <1>1, PutInPlaces
    <1>5. ASSUME NEW r, NEW o, NEW rec, EndedBy(r, o, rec)
          PROVE  PlacesAgree'
        <2>1. rec \in records' /\ UNCHANGED reports
            BY <1>5 DEF EndedBy, Ended
        <2>2. ~Misplaced(rec)
            BY <2>1 DEF Orderly, Misplaced
        <2> QED BY <1>1, <1>5, <2>2, EndedByPlaces
    <1>6. ASSUME NEW o, NEW b, NEW s \in Slots, NEW rec, EndedByHand(o, b, s, rec)
          PROVE  PlacesAgree'
        BY <1>1, <1>6, EndedByHandPlaces
    <1>7. CASE UNCHANGED <<world, rows>>
        BY <1>1, <1>7 DEF PlacesAgree, Unlocking, Offered, Reported, Current, ReportIds,
                          world, rows
    <1> QED BY <1>2, <1>3, <1>4, <1>5, <1>6, <1>7, StepKinds

\* A battery the rows offer for rent is in the slot that offers it, through
\* every failure and every interleaving, until a report ends a rental it is not
\* about: a late report without a number is the only way the rows and the
\* cabinets come to disagree.
THEOREM OfferedBatteriesAreThere == Spec => []OfferedIsThere
    <1>1. Inv /\ PlacesOK /\ [Next]_vars => PlacesOK'
        BY PlacesStep
    <1>2. PlacesOK => OfferedIsThere
        BY DEF PlacesOK, PlacesAgree, Offered, Orderly, OfferedIsThere
    <1> QED BY <1>1, <1>2, InitPlaces, InvHolds, PTL DEF Spec
=============================================================================
