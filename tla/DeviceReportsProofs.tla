------------------------ MODULE DeviceReportsProofs ------------------------
(***************************************************************************)
(* For any number of reports, slots and requests: what is shown has been   *)
(* stored, whatever overlaps and whatever fails (Base); and reports take   *)
(* effect in the order of their numbers, if the cabinet sends the next one *)
(* only after the last one is answered (but again as often as it likes)    *)
(* and Redis reads and writes last_seq, whatever dies or fails otherwise   *)
(* (Order).                                                                *)
(***************************************************************************)
EXTENDS DeviceReports, TLAPS

-----------------------------------------------------------------------------
(* Requests *)

LEMMA IdleOrWork ==
    /\ Idle \notin Work /\ Idle.pc = "idle"
    /\ \A w \in Work : w.pc # "idle"
BY DEF Idle, Work

\* What the type invariant says of a request that does something.
LEMMA Typed ==
    ASSUME ReportsTypeOK, NEW r \in Requests, work[r].pc # "idle"
    PROVE  /\ work[r] \in Work
           /\ work[r].n \in 0..MaxSeq /\ work[r].num \in 0..MaxSeq
           /\ work[r].got \in 0..MaxSeq /\ work[r].top \in 0..MaxSeq
           /\ work[r].fresh \in BOOLEAN /\ work[r].replay \in BOOLEAN
           /\ work[r].any \in BOOLEAN
           /\ work[r].left \subseteq Slots /\ work[r].batch \subseteq Seqs
<1>1. work[r] \in Work
  BY IdleOrWork DEF ReportsTypeOK
<1>. QED  BY <1>1 DEF Work

\* A request that goes on is a request.
LEMMA Onward ==
    ASSUME NEW w \in Work,
           NEW pc \in {"key", "last", "next", "row", "effect", "item",
                       "advance", "store", "end"}
    PROVE  [w EXCEPT !.pc = pc] \in Work
BY DEF Work

\* One that is done with its report ends, or goes on with its batch.
LEMMA RestFacts ==
    ASSUME NEW w \in Work
    PROVE  \/ Rest(w) = Idle
           \/ /\ Rest(w) \in Work /\ Rest(w).pc \in {"item", "end"}
              /\ Rest(w).replay = w.replay /\ Rest(w).batch = w.batch
              /\ Rest(w).any = w.any
              /\ Rest(w).pc = "item" => Rest(w).top = w.top
              /\ w.batch # {} \/ w.any
<1>. DEFINE next == [w EXCEPT !.n = 0, !.num = 0, !.fresh = TRUE, !.left = {}]
<1>1. next \in Work
  <2>1. 0 \in 0..MaxSeq /\ {} \in SUBSET Slots
    BY ReportsAssumption
  <2>. QED  BY <2>1 DEF Work
<1>2. /\ next.replay = w.replay /\ next.batch = w.batch /\ next.any = w.any
      /\ next.top = w.top
  BY DEF Work
<1>3. CASE w.batch # {}
  <2>1. Rest(w) = [next EXCEPT !.pc = "item"]
    BY <1>3 DEF Rest
  <2>. QED  BY <1>1, <1>2, <1>3, <2>1 DEF Work
<1>4. CASE w.batch = {} /\ w.any
  <2>1. Rest(w) = [next EXCEPT !.pc = "end", !.top = 0]
    BY <1>4 DEF Rest
  <2>. QED  BY <1>1, <1>2, <1>4, <2>1, ReportsAssumption DEF Work
<1>5. CASE w.batch = {} /\ ~w.any
  BY <1>5 DEF Rest
<1>. QED  BY <1>3, <1>4, <1>5

-----------------------------------------------------------------------------
(* Types, and rows before effects *)

Data == {"battery", "slot"}

\* What holds of a request on its way, and of its report.
Steady(w) ==
    /\ w.pc \notin {"item", "end"} => w.n \in Seqs
    /\ ~w.replay => /\ w.num = w.n /\ w.batch = {} /\ ~w.any
                    /\ w.pc \in {"key", "last", "next", "row", "effect"}
    /\ w.replay /\ w.pc \in {"key", "last", "next", "row"} =>
          typeOf[w.n] = "slot" /\ w.num \in {0, w.n}

\* A request whose row must be there: it is about to write what its report
\* says, or deals with a stored slot report.
Owes(w) ==
    \/ w.pc = "effect" /\ typeOf[w.n] \in Data
    \/ w.replay /\ w.pc \in {"key", "last", "next", "row"}

Stored(n, S) == \E row \in S : row.seq = n

Base ==
    /\ ReportsTypeOK
    /\ \A r \in Requests : work[r].pc # "idle" =>
          /\ Steady(work[r])
          /\ Owes(work[r]) => Stored(work[r].n, rows)
    /\ StoredBeforeApplied

LEMMA BaseInit == Init => Base
<1>. SUFFICES ASSUME Init  PROVE Base
  OBVIOUS
<1>1. ReportsTypeOK
  BY ReportsAssumption DEF Init, ReportsTypeOK
<1>2. \A r \in Requests : work[r].pc = "idle"
  BY IdleOrWork DEF Init
<1>3. StoredBeforeApplied
  BY DEF Init, StoredBeforeApplied
<1>. QED  BY <1>1, <1>2, <1>3 DEF Base

\* Request r goes on as new.
LEMMA BaseMove ==
    ASSUME Base, NEW r \in Requests, NEW new, Goto(r, new),
           \/ new = Idle
           \/ /\ new \in Work /\ Steady(new)
              /\ Owes(new) => Stored(new.n, rows'),
           typeOf' = typeOf,
           keys' \subseteq {"rpt", "offline_rpt"} \X Seqs,
           lastSeq' \in 0..MaxSeq,
           rows \subseteq rows', rows' \subseteq [seq: 0..MaxSeq, replay: BOOLEAN],
           shown' \in [Slots \cup {0} -> 0..MaxSeq],
           \A x \in Slots \cup {0} : shown'[x] \in {0, shown[x]} \/ Stored(shown'[x], rows),
           acted' \subseteq Seqs,
           cabinet' \in {"online", "offline"}, recovered' \in BOOLEAN
    PROVE  Base'
<1>1. work' = [work EXCEPT ![r] = new] /\ work \in [Requests -> Work \cup {Idle}]
  BY DEF Goto, Base, ReportsTypeOK
<1>2. ReportsTypeOK'
  <2>1. work' \in [Requests -> Work \cup {Idle}]
    BY <1>1
  <2>. QED  BY <2>1 DEF Base, ReportsTypeOK
<1>3. ASSUME NEW q \in Requests, work'[q].pc # "idle"
      PROVE  /\ Steady(work[q])'
             /\ Owes(work[q])' => Stored(work'[q].n, rows')
  <2>1. CASE q = r
    <3>1. work'[q] = new /\ new # Idle
      BY <1>1, <1>3, <2>1, IdleOrWork
    <3>. QED  BY <3>1 DEF Steady, Owes
  <2>2. CASE q # r
    <3>1. work'[q] = work[q]
      BY <1>1, <2>2
    <3>. QED  BY <1>3, <3>1 DEF Base, Steady, Owes, Stored
  <2>. QED  BY <2>1, <2>2
<1>4. StoredBeforeApplied'
  <2>1. DOMAIN shown' = Slots \cup {0} /\ DOMAIN shown = Slots \cup {0}
    BY DEF Base, ReportsTypeOK
  <2>. QED  BY <2>1 DEF Base, StoredBeforeApplied, Stored
<1>. QED  BY <1>2, <1>3, <1>4 DEF Base

\* A request done with its report ends, or goes on with the next one.
LEMMA RestSteady ==
    ASSUME NEW w \in Work, w.replay \/ (w.batch = {} /\ ~w.any)
    PROVE  \/ Rest(w) = Idle
           \/ /\ Rest(w) \in Work /\ Steady(Rest(w)) /\ ~Owes(Rest(w))
              /\ Rest(w).pc \in {"item", "end"} /\ Rest(w).replay
              /\ Rest(w).pc = "item" => Rest(w).top = w.top
<1>1. CASE Rest(w) = Idle
  BY <1>1
<1>2. CASE Rest(w) # Idle
  <2>1. /\ Rest(w) \in Work /\ Rest(w).pc \in {"item", "end"} /\ Rest(w).replay
        /\ Rest(w).pc = "item" => Rest(w).top = w.top
    BY <1>2, RestFacts
  <2>. QED  BY <2>1 DEF Steady, Owes
<1>. QED  BY <1>1, <1>2

\* What the invariant says of a request that does something.
LEMMA BaseFacts ==
    ASSUME Base, NEW r \in Requests, work[r].pc # "idle"
    PROVE  /\ work[r] \in Work /\ Steady(work[r])
           /\ Owes(work[r]) => Stored(work[r].n, rows)
           /\ work[r].replay \/ (work[r].batch = {} /\ ~work[r].any)
           /\ work[r].n \in 0..MaxSeq /\ work[r].num \in 0..MaxSeq
           /\ work[r].got \in 0..MaxSeq /\ work[r].top \in 0..MaxSeq
           /\ work[r].fresh \in BOOLEAN /\ work[r].replay \in BOOLEAN
           /\ work[r].any \in BOOLEAN
           /\ work[r].left \subseteq Slots /\ work[r].batch \subseteq Seqs
           /\ keys \subseteq {"rpt", "offline_rpt"} \X Seqs
           /\ lastSeq \in 0..MaxSeq
           /\ rows \subseteq [seq: 0..MaxSeq, replay: BOOLEAN]
           /\ shown \in [Slots \cup {0} -> 0..MaxSeq]
           /\ acted \subseteq Seqs
           /\ cabinet \in {"online", "offline"} /\ recovered \in BOOLEAN
           /\ typeOf \in [Seqs -> Types]
<1>1. ReportsTypeOK /\ Steady(work[r]) /\ (Owes(work[r]) => Stored(work[r].n, rows))
  BY DEF Base
<1>2. work[r].replay \/ (work[r].batch = {} /\ ~work[r].any)
  BY <1>1 DEF Steady
<1>. QED  BY <1>1, <1>2, Typed DEF ReportsTypeOK

LEMMA BaseTakeKey ==
    ASSUME Base, NEW r \in Requests, TakeKey(r)  PROVE Base'
<1>. DEFINE w == work[r]
<1>1. w.pc = "key" /\ w.pc # "idle"
  BY DEF TakeKey
<1>2. w \in Work /\ Steady(w) /\ (Owes(w) => Stored(w.n, rows)) /\ w.n \in Seqs
  BY <1>1, BaseFacts DEF Steady
<1>. USE <1>1, <1>2, BaseFacts
<1>3. PICK new : /\ Goto(r, new)
                 /\ \/ new = [w EXCEPT !.pc = "row", !.fresh = TRUE] /\ w.num = 0
                    \/ new = [w EXCEPT !.pc = "last"] /\ w.num # 0
                    \/ new = [w EXCEPT !.pc = "effect"] /\ ActsAnyway(w)
                    \/ new = Rest(w)
  BY DEF TakeKey
<1>4. \/ new = Idle
      \/ new \in Work /\ Steady(new) /\ (Owes(new) => Stored(new.n, rows))
  <2>1. CASE new = [w EXCEPT !.pc = "row", !.fresh = TRUE] /\ w.num = 0
    <3>1. /\ new \in Work /\ new.pc = "row" /\ new.n = w.n /\ new.num = w.num
          /\ new.replay = w.replay /\ new.batch = w.batch /\ new.any = w.any
      BY <2>1 DEF Work
    <3>. QED  BY <3>1 DEF Steady, Owes
  <2>2. CASE new = [w EXCEPT !.pc = "last"] /\ w.num # 0
    <3>1. /\ new \in Work /\ new.pc = "last" /\ new.n = w.n /\ new.num = w.num
          /\ new.replay = w.replay /\ new.batch = w.batch /\ new.any = w.any
      BY <2>2 DEF Work
    <3>. QED  BY <3>1 DEF Steady, Owes
  <2>3. CASE new = [w EXCEPT !.pc = "effect"] /\ ActsAnyway(w)
    <3>1. /\ new \in Work /\ new.pc = "effect" /\ new.n = w.n /\ new.num = w.num
          /\ new.replay = w.replay /\ new.batch = w.batch /\ new.any = w.any
      BY <2>3 DEF Work
    <3>. QED  BY <2>3, <3>1 DEF Steady, Owes, ActsAnyway, Data
  <2>4. CASE new = Rest(w)
    BY <2>4, RestSteady
  <2>. QED  BY <1>3, <2>1, <2>2, <2>3, <2>4
<1>5. /\ typeOf' = typeOf /\ lastSeq' = lastSeq /\ rows' = rows /\ shown' = shown
      /\ acted' = acted /\ cabinet' = cabinet /\ recovered' = recovered
      /\ keys' \subseteq keys \cup {LiveKey(w.num)}
      /\ w.num = 0 => keys' = keys
  BY DEF TakeKey, effectVars, cabinetVars
<1>6. keys' \subseteq {"rpt", "offline_rpt"} \X Seqs
  BY <1>5 DEF LiveKey, Seqs
<1>. QED  BY <1>3, <1>4, <1>5, <1>6, BaseMove

LEMMA BaseReceive ==
    ASSUME Base, NEW r \in Requests, NEW n \in Seqs, Receive(r, n)  PROVE Base'
<1>. DEFINE new == [pc |-> "key", n |-> n, num |-> n, got |-> 0, fresh |-> TRUE,
                    left |-> Slots, replay |-> FALSE, top |-> 0, batch |-> {},
                    any |-> FALSE]
<1>1. Goto(r, new)
  BY DEF Receive
<1>2. new \in Work
  <2>1. n \in 0..MaxSeq /\ 0 \in 0..MaxSeq /\ {} \in SUBSET Seqs
    BY ReportsAssumption DEF Seqs
  <2>. QED  BY <2>1 DEF Work
<1>3. Steady(new) /\ ~Owes(new)
  BY DEF Steady, Owes
<1>4. UNCHANGED <<typeOf, keys, lastSeq, rows, shown, acted, cabinet, recovered>>
  BY DEF Receive, redis, effectVars, cabinetVars
<1>5. ReportsTypeOK
  BY DEF Base
<1>. HIDE DEF new
<1>. QED  BY <1>1, <1>2, <1>3, <1>4, <1>5, BaseMove DEF ReportsTypeOK

LEMMA ReadResultsType ==
    ASSUME ReportsTypeOK, NEW got \in ReadResults  PROVE got \in 0..MaxSeq
BY ReportsAssumption DEF ReadResults, ReportsTypeOK

LEMMA WriteResultsType ==
    ASSUME ReportsTypeOK, NEW n \in 0..MaxSeq, NEW last \in WriteResults(n)
    PROVE  last \in 0..MaxSeq
BY DEF WriteResults, ReportsTypeOK

LEMMA BaseReceiveBatch ==
    ASSUME Base, NEW r \in Requests, NEW batch \in SUBSET Seqs,
           ReceiveBatch(r, batch)
    PROVE  Base'
<1>1. ReportsTypeOK
  BY DEF Base
<1>2. PICK top \in ReadResults :
          Goto(r, [pc |-> "item", n |-> 0, num |-> 0, got |-> 0, fresh |-> TRUE,
                   left |-> {}, replay |-> TRUE, top |-> top, batch |-> batch,
                   any |-> FALSE])
  BY DEF ReceiveBatch
<1>. DEFINE new == [pc |-> "item", n |-> 0, num |-> 0, got |-> 0, fresh |-> TRUE,
                    left |-> {}, replay |-> TRUE, top |-> top, batch |-> batch,
                    any |-> FALSE]
<1>3. new \in Work
  <2>1. 0 \in 0..MaxSeq /\ top \in 0..MaxSeq /\ {} \in SUBSET Slots
    BY <1>1, ReadResultsType, ReportsAssumption
  <2>. QED  BY <2>1 DEF Work
<1>4. Steady(new) /\ ~Owes(new)
  BY DEF Steady, Owes
<1>5. UNCHANGED <<typeOf, keys, lastSeq, rows, shown, acted, cabinet, recovered>>
  BY DEF ReceiveBatch, redis, effectVars, cabinetVars
<1>6. Goto(r, new)
  BY <1>2
<1>. HIDE DEF new
<1>. QED  BY <1>1, <1>3, <1>4, <1>5, <1>6, BaseMove DEF ReportsTypeOK

LEMMA BaseReadLast ==
    ASSUME Base, NEW r \in Requests, ReadLast(r)  PROVE Base'
<1>. DEFINE w == work[r]
<1>1. w.pc = "last" /\ w.pc # "idle"
  BY DEF ReadLast
<1>. USE <1>1, BaseFacts
<1>2. PICK got \in ReadResults : Goto(r, [w EXCEPT !.pc = "next", !.got = got])
  BY DEF ReadLast
<1>. DEFINE new == [w EXCEPT !.pc = "next", !.got = got]
<1>3. got \in 0..MaxSeq
  BY ReadResultsType DEF Base
<1>4. /\ new \in Work /\ new.pc = "next" /\ new.n = w.n /\ new.num = w.num
      /\ new.replay = w.replay /\ new.batch = w.batch /\ new.any = w.any
  BY <1>3 DEF Work
<1>5. Steady(new) /\ (Owes(new) => Stored(new.n, rows))
  BY <1>4 DEF Steady, Owes
<1>6. UNCHANGED <<typeOf, keys, lastSeq, rows, shown, acted, cabinet, recovered>>
  BY DEF ReadLast, redis, effectVars, cabinetVars
<1>7. Goto(r, new)
  BY <1>2
<1>. HIDE DEF new
<1>. QED  BY <1>4, <1>5, <1>6, <1>7, BaseMove

LEMMA BaseWriteLast ==
    ASSUME Base, NEW r \in Requests, WriteLast(r)  PROVE Base'
<1>. DEFINE w == work[r]
            new == [w EXCEPT !.pc = "row", !.fresh = IsNewer(w.num, w.got),
                             !.got = 0]
<1>1. w.pc = "next" /\ w.pc # "idle" /\ Goto(r, new)
  BY DEF WriteLast
<1>. USE <1>1, BaseFacts
<1>2. IsNewer(w.num, w.got) \in BOOLEAN /\ 0 \in 0..MaxSeq
  BY ReportsAssumption DEF IsNewer
<1>3. /\ new \in Work /\ new.pc = "row" /\ new.n = w.n /\ new.num = w.num
      /\ new.replay = w.replay /\ new.batch = w.batch /\ new.any = w.any
  BY <1>2 DEF Work
<1>4. Steady(new) /\ (Owes(new) => Stored(new.n, rows))
  BY <1>3 DEF Steady, Owes
<1>5. lastSeq' \in 0..MaxSeq
  BY WriteResultsType DEF WriteLast, Base
<1>6. UNCHANGED <<typeOf, keys, rows, shown, acted, cabinet, recovered>>
  BY DEF WriteLast, effectVars, cabinetVars
<1>. HIDE DEF new
<1>. QED  BY <1>3, <1>4, <1>5, <1>6, BaseMove

LEMMA InsertFacts ==
    ASSUME rows \subseteq [seq: 0..MaxSeq, replay: BOOLEAN],
           NEW n \in 0..MaxSeq, NEW replay \in BOOLEAN, NEW processed \in BOOLEAN,
           Insert(n, replay, processed)
    PROVE  /\ rows \subseteq rows' /\ rows' \subseteq [seq: 0..MaxSeq, replay: BOOLEAN]
           /\ processed => Stored(n, rows')
<1>. DEFINE row == [seq |-> n, replay |-> replay]
<1>1. row \in [seq: 0..MaxSeq, replay: BOOLEAN] /\ row.seq = n
  OBVIOUS
<1>2. rows' = IF processed THEN rows \cup {row} ELSE rows
  BY DEF Insert
<1>. HIDE DEF row
<1>3. processed => row \in rows'
  BY <1>2
<1>. QED  BY <1>1, <1>2, <1>3 DEF Stored

LEMMA BaseInsertRow ==
    ASSUME Base, NEW r \in Requests, InsertRow(r)  PROVE Base'
<1>. DEFINE w == work[r]
<1>1. w.pc = "row" /\ w.pc # "idle" /\ Insert(w.num, FALSE, w.fresh)
  BY DEF InsertRow
<1>. USE <1>1, BaseFacts
<1>2. /\ rows \subseteq rows' /\ rows' \subseteq [seq: 0..MaxSeq, replay: BOOLEAN]
      /\ w.fresh => Stored(w.num, rows')
  BY InsertFacts
<1>3. PICK new : /\ Goto(r, new)
                 /\ \/ /\ new = [w EXCEPT !.pc = "effect"]
                       /\ w.fresh \/ ActsAnyway(w)
                    \/ new = Rest(w)
  BY DEF InsertRow
<1>4. \/ new = Idle
      \/ new \in Work /\ Steady(new) /\ (Owes(new) => Stored(new.n, rows'))
  <2>1. CASE new = [w EXCEPT !.pc = "effect"] /\ (w.fresh \/ ActsAnyway(w))
    <3>1. /\ new \in Work /\ new.pc = "effect" /\ new.n = w.n /\ new.num = w.num
          /\ new.replay = w.replay /\ new.batch = w.batch /\ new.any = w.any
      BY <2>1 DEF Work
    <3>2. Steady(new)
      BY <3>1 DEF Steady
    <3>3. CASE w.replay
      <4>1. Stored(w.n, rows)
        BY <3>3 DEF Owes
      <4>. QED  BY <1>2, <3>1, <3>2, <4>1 DEF Stored
    <3>4. CASE ~w.replay /\ w.fresh
      <4>1. w.num = w.n
        BY <3>4 DEF Steady
      <4>. QED  BY <1>2, <3>1, <3>2, <3>4, <4>1
    <3>5. CASE ActsAnyway(w)
      BY <3>1, <3>2, <3>5 DEF ActsAnyway, Owes, Data
    <3>. QED  BY <2>1, <3>3, <3>4, <3>5
  <2>2. CASE new = Rest(w)
    BY <2>2, RestSteady
  <2>. QED  BY <1>3, <2>1, <2>2
<1>5. UNCHANGED <<typeOf, keys, lastSeq, shown, acted, recovered>>
  BY DEF InsertRow, redis, effectVars
<1>6. cabinet' \in {"online", "offline"}
  BY DEF InsertRow
<1>. QED  BY <1>2, <1>3, <1>4, <1>5, <1>6, BaseMove

\* Request r is done with its report, and nothing shows it.
LEMMA BaseRest ==
    ASSUME Base, NEW r \in Requests, work[r].pc # "idle", Goto(r, Rest(work[r])),
           typeOf' = typeOf, keys' = keys, lastSeq' = lastSeq, rows' = rows,
           shown' \in [Slots \cup {0} -> 0..MaxSeq],
           \A x \in Slots \cup {0} : shown'[x] \in {0, shown[x]} \/ Stored(shown'[x], rows),
           acted' \subseteq Seqs,
           cabinet' \in {"online", "offline"}, recovered' \in BOOLEAN
    PROVE  Base'
BY BaseFacts, RestSteady, BaseMove

LEMMA BaseInsertFails ==
    ASSUME Base, NEW r \in Requests, InsertFails(r)  PROVE Base'
<1>. QED  BY BaseFacts, BaseRest
          DEF InsertFails, redis, effectVars, cabinetVars

LEMMA BaseStoreFails ==
    ASSUME Base, NEW r \in Requests, StoreFails(r)  PROVE Base'
<1>. QED  BY BaseFacts, BaseRest
          DEF StoreFails, redis, effectVars, cabinetVars

\* Row x comes to show report n.
LEMMA ShownFacts ==
    ASSUME Base, NEW x \in Slots \cup {0}, NEW n \in 0..MaxSeq, Stored(n, rows),
           shown' = [shown EXCEPT ![x] = n]
    PROVE  /\ shown' \in [Slots \cup {0} -> 0..MaxSeq]
           /\ \A y \in Slots \cup {0} :
                 shown'[y] \in {0, shown[y]} \/ Stored(shown'[y], rows)
BY DEF Base, ReportsTypeOK

LEMMA BaseApplyBattery ==
    ASSUME Base, NEW r \in Requests, ApplyBattery(r)  PROVE Base'
<1>1. work[r].pc = "effect" /\ work[r].pc # "idle" /\ typeOf[work[r].n] \in Data
  BY DEF ApplyBattery, Data
<1>2. Stored(work[r].n, rows) /\ work[r].n \in 0..MaxSeq
  BY <1>1, BaseFacts DEF Owes
<1>3. shown' = [shown EXCEPT ![0] = work[r].n]
  BY DEF ApplyBattery
<1>4. UNCHANGED <<typeOf, keys, lastSeq, rows, acted, cabinet, recovered>>
      /\ Goto(r, Rest(work[r]))
  BY DEF ApplyBattery, redis, cabinetVars
<1>. QED  BY <1>1, <1>2, <1>3, <1>4, ShownFacts, BaseFacts, BaseRest

LEMMA BaseApplySlot ==
    ASSUME Base, NEW r \in Requests, NEW s \in Slots, ApplySlot(r, s)  PROVE Base'
<1>. DEFINE w == work[r]
            new == [w EXCEPT !.left = w.left \ {s}]
<1>1. w.pc = "effect" /\ w.pc # "idle" /\ typeOf[w.n] \in Data
  BY DEF ApplySlot, Data
<1>. USE <1>1, BaseFacts
<1>2. Stored(w.n, rows)
  BY DEF Owes
<1>3. shown' = [shown EXCEPT ![s] = w.n]
  BY DEF ApplySlot
<1>4. /\ shown' \in [Slots \cup {0} -> 0..MaxSeq]
      /\ \A y \in Slots \cup {0} :
            shown'[y] \in {0, shown[y]} \/ Stored(shown'[y], rows)
  BY <1>2, <1>3, ShownFacts
<1>5. UNCHANGED <<typeOf, keys, lastSeq, rows, acted, cabinet, recovered>>
  BY DEF ApplySlot, redis, cabinetVars
<1>6. Goto(r, Rest(w)) \/ Goto(r, new)
  BY DEF ApplySlot
<1>7. CASE Goto(r, new)
  <2>1. w.left \ {s} \in SUBSET Slots
    OBVIOUS
  <2>2. /\ new \in Work /\ new.pc = "effect" /\ new.n = w.n /\ new.num = w.num
        /\ new.replay = w.replay /\ new.batch = w.batch /\ new.any = w.any
    BY <2>1 DEF Work
  <2>3. Steady(new) /\ Stored(new.n, rows)
    BY <1>2, <2>2 DEF Steady
  <2>. HIDE DEF new
  <2>. QED  BY <1>4, <1>5, <1>7, <2>2, <2>3, BaseMove
<1>. QED  BY <1>4, <1>5, <1>6, <1>7, BaseRest

LEMMA BaseActOnLock ==
    ASSUME Base, NEW r \in Requests, ActOnLock(r)  PROVE Base'
<1>1. work[r].pc = "effect" /\ work[r].pc # "idle"
  BY DEF ActOnLock
<1>2. acted' \subseteq Seqs
  BY <1>1, BaseFacts DEF ActOnLock, Steady
<1>3. UNCHANGED <<typeOf, keys, lastSeq, rows, shown, cabinet, recovered>>
      /\ Goto(r, Rest(work[r]))
  BY DEF ActOnLock, redis, cabinetVars
<1>. QED  BY <1>1, <1>2, <1>3, BaseFacts, BaseRest

LEMMA BaseActOnHeartbeat ==
    ASSUME Base, NEW r \in Requests, ActOnHeartbeat(r)  PROVE Base'
<1>1. work[r].pc = "effect" /\ work[r].pc # "idle"
  BY DEF ActOnHeartbeat
<1>2. cabinet' \in {"online", "offline"} /\ recovered' \in BOOLEAN
  BY <1>1, BaseFacts DEF ActOnHeartbeat, Recover, cabinetVars
<1>3. UNCHANGED <<typeOf, keys, lastSeq, rows, shown, acted>>
      /\ Goto(r, Rest(work[r]))
  BY DEF ActOnHeartbeat, redis, effectVars
<1>. QED  BY <1>1, <1>2, <1>3, BaseFacts, BaseRest

LEMMA BaseTakeItem ==
    ASSUME Base, NEW r \in Requests, NEW n \in Seqs, TakeItem(r, n)  PROVE Base'
<1>. DEFINE w == work[r]
            taken == [w EXCEPT !.n = n, !.batch = @ \ {n}, !.left = Slots,
                               !.fresh = IsNewer(n, w.top)]
<1>1. w.pc = "item" /\ w.pc # "idle"
  BY DEF TakeItem
<1>. USE <1>1, BaseFacts
<1>2. w.replay
  BY DEF Steady
<1>3. taken \in Work /\ taken.n = n /\ taken.replay
  <2>1. /\ w.batch \ {n} \in SUBSET Seqs /\ IsNewer(n, w.top) \in BOOLEAN
        /\ n \in 0..MaxSeq
    BY DEF Seqs, IsNewer
  <2>. QED  BY <1>2, <2>1 DEF Work
<1>4. PICK new : /\ Goto(r, new)
                 /\ \/ new = [taken EXCEPT !.pc = "advance"]
                    \/ new = [taken EXCEPT !.pc = "store"]
                    \/ new = Rest(taken)
  BY DEF TakeItem
<1>5. new = Idle \/ (new \in Work /\ Steady(new) /\ ~Owes(new))
  <2>. HIDE DEF taken
  <2>1. CASE new = Rest(taken)
    BY <1>3, <2>1, RestSteady
  <2>2. CASE new # Rest(taken)
    <3>1. new \in Work /\ new.pc \in {"advance", "store"} /\ new.n = n /\ new.replay
      BY <1>3, <1>4, <2>2 DEF Work
    <3>. QED  BY <3>1 DEF Steady, Owes
  <2>. QED  BY <2>1, <2>2
<1>6. /\ UNCHANGED <<typeOf, lastSeq, rows, shown, acted, cabinet, recovered>>
      /\ keys' \subseteq keys \cup {ReplayKey(n)}
  BY DEF TakeItem, effectVars, cabinetVars
<1>7. keys' \subseteq {"rpt", "offline_rpt"} \X Seqs
  BY <1>6 DEF ReplayKey
<1>. QED  BY <1>4, <1>5, <1>6, <1>7, BaseMove

LEMMA BaseAdvanceItem ==
    ASSUME Base, NEW r \in Requests, AdvanceItem(r)  PROVE Base'
<1>. DEFINE w == work[r]
            new == [w EXCEPT !.pc = "store", !.top = w.n]
<1>1. w.pc = "advance" /\ w.pc # "idle" /\ Goto(r, new)
  BY DEF AdvanceItem
<1>. USE <1>1, BaseFacts
<1>2. w.replay
  BY DEF Steady
<1>3. new \in Work /\ new.pc = "store" /\ new.n = w.n /\ new.replay
  BY <1>2 DEF Work
<1>4. Steady(new) /\ ~Owes(new)
  BY <1>3 DEF Steady, Owes
<1>5. lastSeq' \in 0..MaxSeq
  BY WriteResultsType DEF AdvanceItem, Base
<1>6. UNCHANGED <<typeOf, keys, rows, shown, acted, cabinet, recovered>>
  BY DEF AdvanceItem, effectVars, cabinetVars
<1>. HIDE DEF new
<1>. QED  BY <1>3, <1>4, <1>5, <1>6, BaseMove

LEMMA BaseStoreItem ==
    ASSUME Base, NEW r \in Requests, StoreItem(r)  PROVE Base'
<1>. DEFINE w == work[r]
            processed == [w EXCEPT !.any = TRUE]
<1>1. w.pc = "store" /\ w.pc # "idle" /\ Insert(w.n, TRUE, w.fresh)
  BY DEF StoreItem
<1>. USE <1>1, BaseFacts
<1>2. w.replay /\ w.n \in Seqs
  BY DEF Steady
<1>3. /\ rows \subseteq rows' /\ rows' \subseteq [seq: 0..MaxSeq, replay: BOOLEAN]
      /\ w.fresh => Stored(w.n, rows')
  BY InsertFacts
<1>4. processed \in Work /\ processed.n = w.n /\ processed.replay
  BY <1>2 DEF Work
<1>5. PICK new : /\ Goto(r, new)
                 /\ \/ new = Rest(w)
                    \/ new = Rest(processed)
                    \/ /\ w.fresh /\ typeOf[w.n] = "slot"
                       /\ \E num \in {0, w.n} :
                             new = [processed EXCEPT !.pc = "key", !.num = num]
                    \/ w.fresh /\ new = [processed EXCEPT !.pc = "effect"]
  BY DEF StoreItem
<1>6. \/ new = Idle
      \/ new \in Work /\ Steady(new) /\ (Owes(new) => Stored(new.n, rows'))
  <2>. HIDE DEF processed
  <2>1. CASE new = Rest(w)
    BY <1>2, <2>1, RestSteady
  <2>2. CASE new = Rest(processed)
    BY <1>4, <2>2, RestSteady
  <2>3. CASE /\ w.fresh /\ typeOf[w.n] = "slot"
             /\ \E num \in {0, w.n} :
                   new = [processed EXCEPT !.pc = "key", !.num = num]
    <3>1. PICK num \in {0, w.n} : new = [processed EXCEPT !.pc = "key", !.num = num]
      BY <2>3
    <3>2. num \in 0..MaxSeq
      BY ReportsAssumption
    <3>3. /\ new \in Work /\ new.pc = "key" /\ new.n = w.n /\ new.replay
          /\ new.num = num
      BY <1>4, <3>1, <3>2 DEF Work
    <3>4. Steady(new)
      BY <1>2, <2>3, <3>3 DEF Steady
    <3>. QED  BY <1>3, <2>3, <3>3, <3>4
  <2>4. CASE w.fresh /\ new = [processed EXCEPT !.pc = "effect"]
    <3>1. new \in Work /\ new.pc = "effect" /\ new.n = w.n /\ new.replay
      BY <1>4, <2>4 DEF Work
    <3>. QED  BY <1>2, <1>3, <2>4, <3>1 DEF Steady
  <2>. QED  BY <1>5, <2>1, <2>2, <2>3, <2>4
<1>7. UNCHANGED <<typeOf, keys, lastSeq, shown, acted, cabinet, recovered>>
  BY DEF StoreItem, redis, effectVars, cabinetVars
<1>. QED  BY <1>3, <1>5, <1>6, <1>7, BaseMove

LEMMA BaseEnds ==
    ASSUME Base, NEW r \in Requests, EndBatch(r) \/ Crash(r)  PROVE Base'
<1>1. Goto(r, Idle)
  BY DEF EndBatch, Crash
<1>2. UNCHANGED <<typeOf, keys, lastSeq, rows, shown, acted>>
  BY DEF EndBatch, Crash, redis, effectVars
<1>3. cabinet' \in {"online", "offline"} /\ recovered' \in BOOLEAN
  BY DEF EndBatch, Crash, Recover, cabinetVars, Base, ReportsTypeOK
<1>4. ReportsTypeOK
  BY DEF Base
<1>. QED  BY <1>1, <1>2, <1>3, <1>4, BaseMove DEF ReportsTypeOK

\* Steps of no request: what is being done, and what is shown, stays.
LEMMA BaseStill ==
    ASSUME Base, UNCHANGED <<typeOf, lastSeq, rows, shown, acted, work>>,
           keys' \subseteq keys,
           cabinet' \in {"online", "offline"}, recovered' \in BOOLEAN
    PROVE  Base'
<1>1. ReportsTypeOK'
  BY DEF Base, ReportsTypeOK
<1>2. StoredBeforeApplied'
  BY DEF Base, StoredBeforeApplied
<1>. QED  BY <1>1, <1>2 DEF Base, Steady, Owes, Stored

LEMMA BaseStep == ASSUME Base, [Next]_vars  PROVE Base'
<1>1. ASSUME NEW r \in Requests, NEW n \in Seqs, Receive(r, n)  PROVE Base'
  BY <1>1, BaseReceive
<1>2. ASSUME NEW r \in Requests, NEW batch \in SUBSET Seqs, ReceiveBatch(r, batch)
      PROVE  Base'
  BY <1>2, BaseReceiveBatch
<1>3. ASSUME NEW r \in Requests, Step(r)  PROVE Base'
  BY <1>3, BaseTakeKey, BaseReadLast, BaseWriteLast, BaseInsertRow,
     BaseInsertFails, BaseApplySlot, BaseApplyBattery, BaseActOnLock,
     BaseActOnHeartbeat, BaseTakeItem, BaseAdvanceItem, BaseStoreItem,
     BaseStoreFails, BaseEnds
  DEF Step
<1>4. ASSUME NEW r \in Requests, Crash(r)  PROVE Base'
  BY <1>4, BaseEnds
<1>5. CASE Expire
  BY <1>5, BaseStill
  DEF Expire, effectVars, cabinetVars, Base, ReportsTypeOK
<1>6. CASE MarkOffline
  BY <1>6, BaseStill DEF MarkOffline, redis, effectVars
<1>7. CASE UNCHANGED vars
  BY <1>7, BaseStill DEF vars, Base, ReportsTypeOK
<1>. QED  BY <1>1, <1>2, <1>3, <1>4, <1>5, <1>6, <1>7 DEF Next

LEMMA BaseAlways == Spec => []Base
BY BaseInit, BaseStep, PTL DEF Spec

\* The variables have their types, for any number of reports, slots and
\* requests, whatever overlaps and whatever fails.
THEOREM ReportsTypeCorrect == Spec => []ReportsTypeOK
<1>1. Base => ReportsTypeOK
  BY DEF Base
<1>. QED  BY <1>1, BaseAlways, PTL

\* What slots and batteries show is in cabinet_reports as processed, whatever
\* overlaps, dies and fails (saveReport inserts the row before the handler
\* writes slots and batteries; OfflineReplay likewise).
THEOREM StoredFirst == Spec => []StoredBeforeApplied
<1>1. Base => StoredBeforeApplied
  BY DEF Base
<1>. QED  BY <1>1, BaseAlways, PTL

-----------------------------------------------------------------------------
(* Order *)

\* The cabinet sends a report again while it is being served, but no other one,
\* and last_seq is read and written.
InTurn == Overlap # "any" /\ {"get", "setex"} \cap Faults = {}

\* A request that has taken the key of its report, and may change last_seq or
\* what is shown.
Past(w) ==
    \/ w.pc \in {"last", "next", "row"}
    \/ w.pc = "effect" /\ typeOf[w.n] \in Data

\* Request w, of the last report, has shown it nowhere where it still has to.
Due(w, last, look) ==
    w.n = last /\ \A x \in w.left \cup {0} : look[x] < last

\* What a request knows of last_seq and of what is shown.
Sound(w, last, look) ==
    /\ \/ w.pc = "effect" /\ typeOf[w.n] \in Data
       \/ w.pc \in {"row", "store"} /\ w.fresh
       \/ w.replay /\ w.pc \in {"key", "last", "next"}
       => Due(w, last, look)
    /\ w.pc \in {"last", "next"} => w.num = w.n
    /\ w.pc = "next" => w.got = last
    /\ w.replay /\ w.pc # "end" => w.top = last
    /\ w.pc = "advance" => w.n > last

\* Two requests at a time are the same live report.
Twins(w, v) == ~w.replay /\ ~v.replay /\ w.n = v.n

ShownUpTo(last, look) == \A x \in Slots \cup {0} : look[x] <= last

\* The reasons why reports take effect in order: what is shown is not beyond
\* last_seq, no two requests are past the key, and the one that is knows
\* last_seq.
Order ==
    /\ ShownUpTo(lastSeq, shown)
    /\ \A r \in Requests : work[r].pc # "idle" =>
          /\ Sound(work[r], lastSeq, shown)
          /\ Past(work[r]) /\ ~work[r].replay => LiveKey(work[r].n) \in keys
          /\ \A q \in Requests : work[q].pc # "idle" /\ q # r =>
                /\ Twins(work[r], work[q])
                /\ ~(Past(work[r]) /\ Past(work[q]))

LEMMA OrderInit == Init => Order
<1>. SUFFICES ASSUME Init  PROVE Order
  OBVIOUS
<1>1. \A r \in Requests : work[r].pc = "idle"
  BY IdleOrWork DEF Init
<1>2. ShownUpTo(lastSeq, shown)
  BY DEF Init, ShownUpTo
<1>. QED  BY <1>1, <1>2 DEF Order

\* A live request that is not past the key knows nothing that could change.
LEMMA Aloof ==
    ASSUME NEW w \in Work, Steady(w), ~w.replay, ~Past(w), NEW last, NEW look
    PROVE  Sound(w, last, look)
BY DEF Steady, Past, Sound

\* Request r goes on as new; what it changes nobody else relies on.
LEMMA OrderMove ==
    ASSUME Base, Order, NEW r \in Requests, NEW new, Goto(r, new),
           \/ new = Idle
           \/ /\ Sound(new, lastSeq', shown')
              /\ Past(new) /\ ~new.replay => LiveKey(new.n) \in keys'
              /\ \A q \in Requests : work[q].pc # "idle" /\ q # r =>
                    Twins(new, work[q]) /\ ~(Past(new) /\ Past(work[q])),
           typeOf' = typeOf, keys \subseteq keys', ShownUpTo(lastSeq', shown'),
           \/ lastSeq' = lastSeq /\ shown' = shown
           \/ work[r].pc # "idle" /\ (Past(work[r]) \/ work[r].replay)
    PROVE  Order'
<1>1. work' = [work EXCEPT ![r] = new] /\ work \in [Requests -> Work \cup {Idle}]
  BY DEF Goto, Base, ReportsTypeOK
<1>2. ShownUpTo(lastSeq, shown)'
  BY DEF ShownUpTo
<1>3. ASSUME NEW q \in Requests, work'[q].pc # "idle", q # r
      PROVE  /\ work'[q] = work[q] /\ work[q].pc # "idle"
             /\ Sound(work[q], lastSeq', shown')
             /\ Past(work[q]) /\ ~work[q].replay => LiveKey(work[q].n) \in keys'
  <2>1. work'[q] = work[q]
    BY <1>1, <1>3
  <2>2. work[q].pc # "idle" /\ Sound(work[q], lastSeq, shown)
    BY <1>3, <2>1 DEF Order
  <2>3. Sound(work[q], lastSeq', shown')
    <3>1. CASE lastSeq' = lastSeq /\ shown' = shown
      BY <2>2, <3>1
    <3>2. CASE work[r].pc # "idle" /\ (Past(work[r]) \/ work[r].replay)
      <4>1. ~work[q].replay /\ ~Past(work[q])
        BY <1>3, <2>2, <3>2 DEF Order, Twins
      <4>2. work[q] \in Work /\ Steady(work[q])
        BY <2>2, BaseFacts
      <4>. QED  BY <4>1, <4>2, Aloof
    <3>. QED  BY <3>1, <3>2
  <2>. QED  BY <1>3, <2>1, <2>2, <2>3 DEF Order
<1>4. work'[r] = new
  BY <1>1
<1>5. new.pc = "idle" \/ new # Idle
  BY IdleOrWork
<1>6. ASSUME NEW q \in Requests, work'[q].pc # "idle"
      PROVE  /\ Sound(work'[q], lastSeq', shown')
             /\ Past(work'[q]) /\ ~work'[q].replay => LiveKey(work'[q].n) \in keys'
  BY <1>3, <1>4, <1>5, <1>6
<1>7. ASSUME NEW p \in Requests, NEW q \in Requests, p # q,
             work'[p].pc # "idle", work'[q].pc # "idle"
      PROVE  Twins(work'[p], work'[q]) /\ ~(Past(work'[p]) /\ Past(work'[q]))
  <2>1. CASE p = r
    BY <1>3, <1>4, <1>5, <1>7, <2>1
  <2>2. CASE q = r
    BY <1>3, <1>4, <1>5, <1>7, <2>2 DEF Twins
  <2>3. CASE p # r /\ q # r
    BY <1>3, <1>7, <2>3 DEF Order
  <2>. QED  BY <2>1, <2>2, <2>3
<1>. QED  BY <1>2, <1>6, <1>7 DEF Order, Sound, Past, Due, Twins, LiveKey

\* A running request goes on with its report, or with the next of its batch; if
\* it gets past the key, it has taken it.
LEMMA OrderOn ==
    ASSUME Base, Order, NEW r \in Requests, work[r].pc # "idle",
           NEW new, Goto(r, new),
           \/ new = Idle
           \/ /\ Sound(new, lastSeq', shown')
              /\ new.replay = work[r].replay
              /\ ~new.replay => new.n = work[r].n
              /\ Past(new) /\ ~new.replay =>
                    \/ Past(work[r])
                    \/ LiveKey(work[r].n) \in keys' \ keys,
           typeOf' = typeOf, keys \subseteq keys', ShownUpTo(lastSeq', shown'),
           \/ lastSeq' = lastSeq /\ shown' = shown
           \/ Past(work[r]) \/ work[r].replay
    PROVE  Order'
<1>1. CASE new = Idle
  BY <1>1, OrderMove
<1>2. CASE new # Idle
  <2>1. Past(new) /\ ~new.replay => LiveKey(new.n) \in keys'
    BY <1>2 DEF Order
  <2>2. ASSUME NEW q \in Requests, work[q].pc # "idle", q # r
        PROVE  Twins(new, work[q]) /\ ~(Past(new) /\ Past(work[q]))
    <3>1. /\ Twins(work[r], work[q]) /\ ~(Past(work[r]) /\ Past(work[q]))
          /\ Past(work[q]) => LiveKey(work[q].n) \in keys
      BY <2>2 DEF Order, Twins
    <3>. QED  BY <1>2, <3>1 DEF Twins
  <2>. QED  BY <1>2, <2>1, <2>2, OrderMove
<1>. QED  BY <1>1, <1>2

\* Request r is done with its report; v is what it was, but for the report.
LEMMA OrderRest ==
    ASSUME Base, Order, NEW r \in Requests, work[r].pc # "idle",
           NEW v \in Work, v.replay = work[r].replay,
           IF v.replay THEN v.top = lastSeq ELSE v.batch = {} /\ ~v.any,
           Goto(r, Rest(v)),
           typeOf' = typeOf, keys \subseteq keys', lastSeq' = lastSeq,
           ShownUpTo(lastSeq, shown'),
           shown' = shown \/ Past(work[r]) \/ work[r].replay
    PROVE  Order'
<1>1. CASE v.replay
  <2>1. CASE Rest(v) = Idle
    BY <2>1, OrderOn
  <2>2. CASE Rest(v) # Idle
    <3>1. /\ Rest(v).replay /\ Rest(v).pc \in {"item", "end"}
          /\ Rest(v).pc = "item" => Rest(v).top = lastSeq
      BY <1>1, <2>2, RestSteady
    <3>2. Sound(Rest(v), lastSeq, shown')
      BY <3>1 DEF Sound
    <3>. QED  BY <1>1, <3>1, <3>2, OrderOn
  <2>. QED  BY <2>1, <2>2
<1>2. CASE ~v.replay
  <2>1. Rest(v) = Idle
    BY <1>2 DEF Rest
  <2>. QED  BY <2>1, OrderOn
<1>. QED  BY <1>1, <1>2

\* What a running request knows.
LEMMA OrderFacts ==
    ASSUME Base, Order, NEW r \in Requests, work[r].pc # "idle"
    PROVE  /\ Sound(work[r], lastSeq, shown) /\ ShownUpTo(lastSeq, shown)
           /\ work[r].pc # "end" =>
                 IF work[r].replay THEN work[r].top = lastSeq
                 ELSE work[r].batch = {} /\ ~work[r].any
BY BaseFacts DEF Order, Sound

LEMMA OrderReceive ==
    ASSUME InTurn, Base, Order, NEW r \in Requests, NEW n \in Seqs, Receive(r, n)
    PROVE  Order'
<1>. DEFINE new == [pc |-> "key", n |-> n, num |-> n, got |-> 0, fresh |-> TRUE,
                    left |-> Slots, replay |-> FALSE, top |-> 0, batch |-> {},
                    any |-> FALSE]
<1>1. Goto(r, new)
  BY DEF Receive
<1>2. Sound(new, lastSeq, shown) /\ ~Past(new)
  BY DEF Sound, Past
<1>3. \A q \in Requests : work[q].pc # "idle" => Twins(new, work[q])
  BY DEF Receive, MayStart, InTurn, Running, Twins
<1>4. UNCHANGED <<typeOf, keys, lastSeq, shown>>
  BY DEF Receive, redis, effectVars
<1>5. ShownUpTo(lastSeq, shown)
  BY DEF Order
<1>. HIDE DEF new
<1>. QED  BY <1>1, <1>2, <1>3, <1>4, <1>5, OrderMove

LEMMA OrderReceiveBatch ==
    ASSUME InTurn, Base, Order, NEW r \in Requests, NEW batch \in SUBSET Seqs,
           ReceiveBatch(r, batch)
    PROVE  Order'
<1>1. ReadResults = {lastSeq}
  BY DEF InTurn, ReadResults
<1>. DEFINE new == [pc |-> "item", n |-> 0, num |-> 0, got |-> 0, fresh |-> TRUE,
                    left |-> {}, replay |-> TRUE, top |-> lastSeq, batch |-> batch,
                    any |-> FALSE]
<1>2. Goto(r, new)
  BY <1>1 DEF ReceiveBatch
<1>3. Sound(new, lastSeq, shown) /\ ~Past(new)
  BY DEF Sound, Past
<1>4. \A q \in Requests : work[q].pc = "idle"
  BY DEF ReceiveBatch, MayStart, InTurn, Running
<1>5. UNCHANGED <<typeOf, keys, lastSeq, shown>>
  BY DEF ReceiveBatch, redis, effectVars
<1>6. ShownUpTo(lastSeq, shown)
  BY DEF Order
<1>. HIDE DEF new
<1>. QED  BY <1>2, <1>3, <1>4, <1>5, <1>6, OrderMove

LEMMA OrderTakeKey ==
    ASSUME Base, Order, NEW r \in Requests, TakeKey(r)  PROVE Order'
<1>. DEFINE w == work[r]
<1>1. w.pc = "key" /\ w.pc # "idle"
  BY DEF TakeKey
<1>. USE <1>1, BaseFacts, OrderFacts
<1>2. /\ typeOf' = typeOf /\ keys \subseteq keys' /\ lastSeq' = lastSeq
      /\ shown' = shown /\ ShownUpTo(lastSeq', shown')
  BY DEF TakeKey, effectVars
<1>3. \/ Goto(r, [w EXCEPT !.pc = "row", !.fresh = TRUE]) /\ w.num = 0
      \/ /\ Goto(r, [w EXCEPT !.pc = "last"]) /\ w.num # 0
         /\ LiveKey(w.num) \in keys' \ keys
      \/ Goto(r, [w EXCEPT !.pc = "effect"]) /\ ActsAnyway(w)
      \/ Goto(r, Rest(w))
  BY DEF TakeKey
<1>4. CASE Goto(r, [w EXCEPT !.pc = "row", !.fresh = TRUE]) /\ w.num = 0
  <2>. DEFINE new == [w EXCEPT !.pc = "row", !.fresh = TRUE]
  <2>1. w.replay
    BY <1>4 DEF Steady, Seqs
  <2>2. /\ new.pc = "row" /\ new.n = w.n /\ new.replay = w.replay
        /\ new.left = w.left /\ new.top = w.top
    BY DEF Work
  <2>3. Sound(new, lastSeq, shown) /\ Goto(r, new)
    BY <1>4, <2>1, <2>2 DEF Sound, Due
  <2>. HIDE DEF new
  <2>. QED  BY <1>2, <2>1, <2>2, <2>3, OrderOn
<1>5. CASE /\ Goto(r, [w EXCEPT !.pc = "last"]) /\ w.num # 0
           /\ LiveKey(w.num) \in keys' \ keys
  <2>. DEFINE new == [w EXCEPT !.pc = "last"]
  <2>1. w.num = w.n
    BY <1>5 DEF Steady
  <2>2. /\ new.pc = "last" /\ new.n = w.n /\ new.replay = w.replay
        /\ new.left = w.left /\ new.top = w.top /\ new.num = w.num
    BY DEF Work
  <2>3. Sound(new, lastSeq, shown) /\ Goto(r, new)
    BY <1>5, <2>1, <2>2 DEF Sound, Due
  <2>. HIDE DEF new
  <2>. QED  BY <1>2, <1>5, <2>1, <2>2, <2>3, OrderOn
<1>6. CASE Goto(r, [w EXCEPT !.pc = "effect"]) /\ ActsAnyway(w)
  <2>. DEFINE new == [w EXCEPT !.pc = "effect"]
  <2>1. /\ new.pc = "effect" /\ new.n = w.n /\ new.replay = w.replay
        /\ ~w.replay /\ typeOf[w.n] \notin Data
    BY <1>6 DEF Work, ActsAnyway, Data
  <2>2. Sound(new, lastSeq, shown) /\ ~Past(new) /\ Goto(r, new)
    BY <1>6, <2>1 DEF Sound, Past
  <2>. HIDE DEF new
  <2>. QED  BY <1>2, <2>1, <2>2, OrderOn
<1>7. CASE Goto(r, Rest(w))
  BY <1>2, <1>7, OrderRest
<1>. QED  BY <1>3, <1>4, <1>5, <1>6, <1>7

LEMMA OrderReadLast ==
    ASSUME InTurn, Base, Order, NEW r \in Requests, ReadLast(r)  PROVE Order'
<1>. DEFINE w == work[r]
            new == [w EXCEPT !.pc = "next", !.got = lastSeq]
<1>1. w.pc = "last" /\ w.pc # "idle"
  BY DEF ReadLast
<1>. USE <1>1, BaseFacts, OrderFacts
<1>2. Goto(r, new)
  BY DEF ReadLast, ReadResults, InTurn
<1>3. /\ new.pc = "next" /\ new.n = w.n /\ new.replay = w.replay /\ new.num = w.num
      /\ new.left = w.left /\ new.top = w.top /\ new.got = lastSeq
  BY DEF Work
<1>4. Sound(new, lastSeq, shown) /\ Past(w)
  BY <1>3 DEF Sound, Due, Past
<1>5. UNCHANGED <<typeOf, keys, lastSeq, shown>>
  BY DEF ReadLast, redis, effectVars
<1>. HIDE DEF new
<1>. QED  BY <1>2, <1>3, <1>4, <1>5, OrderOn

\* Where last_seq goes up to n, nothing shows n yet.
LEMMA Rise ==
    ASSUME Base, Order, NEW n \in 0..MaxSeq, n > lastSeq
    PROVE  /\ \A x \in Slots \cup {0} : shown[x] < n
           /\ ShownUpTo(n, shown)
<1>1. ASSUME NEW x \in Slots \cup {0}  PROVE shown[x] < n /\ shown[x] <= n
  <2>1. shown[x] <= lastSeq /\ shown[x] \in Nat /\ lastSeq \in Nat
    BY DEF Order, ShownUpTo, Base, ReportsTypeOK
  <2>. QED  BY <2>1
<1>. QED  BY <1>1 DEF ShownUpTo

LEMMA OrderWriteLast ==
    ASSUME InTurn, Base, Order, NEW r \in Requests, WriteLast(r)  PROVE Order'
<1>. DEFINE w == work[r]
            new == [w EXCEPT !.pc = "row", !.fresh = IsNewer(w.num, w.got),
                             !.got = 0]
<1>1. w.pc = "next" /\ w.pc # "idle" /\ Goto(r, new)
  BY DEF WriteLast
<1>. USE <1>1, BaseFacts, OrderFacts
<1>2. /\ new.pc = "row" /\ new.n = w.n /\ new.replay = w.replay
      /\ new.left = w.left /\ new.top = w.top /\ new.fresh = IsNewer(w.num, w.got)
  BY DEF Work
<1>3. w.num = w.n /\ w.got = lastSeq /\ Past(w) /\ (w.replay => w.n = lastSeq)
  BY DEF Sound, Due, Past
<1>4. UNCHANGED <<typeOf, keys, shown>>
  BY DEF WriteLast, effectVars
<1>5. CASE w.n > lastSeq
  <2>1. lastSeq' = w.n /\ ~w.replay
    BY <1>3, <1>5 DEF WriteLast, WriteResults, IsNewer, InTurn
  <2>2. ShownUpTo(w.n, shown) /\ \A x \in Slots \cup {0} : shown[x] < w.n
    BY <1>5, Rise
  <2>3. Sound(new, lastSeq', shown')
    BY <1>2, <1>4, <2>1, <2>2 DEF Sound, Due
  <2>. HIDE DEF new
  <2>. QED  BY <1>2, <1>3, <1>4, <2>1, <2>2, <2>3, OrderOn
<1>6. CASE ~(w.n > lastSeq)
  <2>1. ~IsNewer(w.num, w.got)
    BY <1>3, <1>6 DEF IsNewer
  <2>2. lastSeq' = lastSeq
    BY <2>1 DEF WriteLast
  <2>3. ~new.fresh
    BY <1>2, <2>1
  <2>4. Sound(new, lastSeq', shown')
    BY <1>2, <1>4, <2>2, <2>3 DEF Sound
  <2>. HIDE DEF new
  <2>. QED  BY <1>2, <1>3, <1>4, <2>2, <2>4, OrderOn
<1>. QED  BY <1>5, <1>6

LEMMA OrderInsertRow ==
    ASSUME Base, Order, NEW r \in Requests, InsertRow(r)  PROVE Order'
<1>. DEFINE w == work[r]
            new == [w EXCEPT !.pc = "effect"]
<1>1. w.pc = "row" /\ w.pc # "idle"
  BY DEF InsertRow
<1>. USE <1>1, BaseFacts, OrderFacts
<1>2. UNCHANGED <<typeOf, keys, lastSeq, shown>>
  BY DEF InsertRow, redis, effectVars
<1>3. \/ Goto(r, new) /\ (w.fresh \/ ActsAnyway(w))
      \/ Goto(r, Rest(w))
  BY DEF InsertRow
<1>4. CASE Goto(r, new) /\ (w.fresh \/ ActsAnyway(w))
  <2>1. /\ new.pc = "effect" /\ new.n = w.n /\ new.replay = w.replay
        /\ new.left = w.left /\ new.top = w.top
    BY DEF Work
  <2>2. typeOf[w.n] \in Data => w.fresh
    BY <1>4 DEF ActsAnyway, Data
  <2>3. Sound(new, lastSeq, shown) /\ Past(w) /\ Goto(r, new)
    BY <1>4, <2>1, <2>2 DEF Sound, Due, Past
  <2>. HIDE DEF new
  <2>. QED  BY <1>2, <2>1, <2>3, OrderOn
<1>5. CASE Goto(r, Rest(w))
  BY <1>2, <1>5, OrderRest
<1>. QED  BY <1>3, <1>4, <1>5

LEMMA OrderFails ==
    ASSUME Base, Order, NEW r \in Requests, InsertFails(r) \/ StoreFails(r)
    PROVE  Order'
<1>1. work[r].pc \notin {"idle", "end"} /\ Goto(r, Rest(work[r]))
  BY DEF InsertFails, StoreFails
<1>2. UNCHANGED <<typeOf, keys, lastSeq, shown>>
  BY DEF InsertFails, StoreFails, redis, effectVars
<1>. QED  BY <1>1, <1>2, BaseFacts, OrderFacts, OrderRest

LEMMA OrderApplyBattery ==
    ASSUME Base, Order, NEW r \in Requests, ApplyBattery(r)
    PROVE  Order' /\ work[r].n > shown[0]
<1>. DEFINE w == work[r]
<1>1. w.pc = "effect" /\ w.pc # "idle" /\ typeOf[w.n] \in Data
  BY DEF ApplyBattery, Data
<1>. USE <1>1, BaseFacts, OrderFacts
<1>2. w.n = lastSeq /\ shown[0] < lastSeq /\ Past(w)
  BY DEF Sound, Due, Past
<1>3. shown' = [shown EXCEPT ![0] = w.n]
  BY DEF ApplyBattery
<1>4. ShownUpTo(lastSeq, shown')
  BY <1>2, <1>3 DEF ShownUpTo
<1>5. UNCHANGED <<typeOf, keys, lastSeq>> /\ Goto(r, Rest(w))
  BY DEF ApplyBattery, redis
<1>6. Order'
  BY <1>2, <1>4, <1>5, OrderRest
<1>7. w.n > shown[0]
  BY <1>2
<1>. QED  BY <1>6, <1>7

LEMMA OrderApplySlot ==
    ASSUME Base, Order, NEW r \in Requests, NEW s \in Slots, ApplySlot(r, s)
    PROVE  Order' /\ work[r].n > shown[s]
<1>. DEFINE w == work[r]
            new == [w EXCEPT !.left = w.left \ {s}]
<1>1. w.pc = "effect" /\ w.pc # "idle" /\ typeOf[w.n] \in Data /\ s \in w.left
  BY DEF ApplySlot, Data
<1>. USE <1>1, BaseFacts, OrderFacts
<1>2. w.n = lastSeq /\ shown[s] < lastSeq /\ Past(w) /\ s # 0
      /\ \A x \in w.left \cup {0} : shown[x] < lastSeq
  BY ReportsAssumption DEF Sound, Due, Past
<1>3. shown' = [shown EXCEPT ![s] = w.n]
  BY DEF ApplySlot
<1>4. ShownUpTo(lastSeq, shown')
  BY <1>2, <1>3 DEF ShownUpTo
<1>5. UNCHANGED <<typeOf, keys, lastSeq>> /\ (Goto(r, Rest(w)) \/ Goto(r, new))
  BY DEF ApplySlot, redis
<1>6. CASE Goto(r, Rest(w))
  BY <1>2, <1>4, <1>5, <1>6, OrderRest
<1>7. CASE Goto(r, new)
  <2>1. /\ new.pc = "effect" /\ new.n = w.n /\ new.replay = w.replay
        /\ new.left = w.left \ {s} /\ new.top = w.top
    BY DEF Work
  <2>2. Sound(new, lastSeq, shown')
    BY <1>2, <1>3, <2>1 DEF Sound, Due
  <2>. HIDE DEF new
  <2>. QED  BY <1>2, <1>4, <1>5, <1>7, <2>1, <2>2, OrderOn
<1>8. w.n > shown[s]
  BY <1>2
<1>. QED  BY <1>5, <1>6, <1>7, <1>8

LEMMA OrderActs ==
    ASSUME Base, Order, NEW r \in Requests, ActOnLock(r) \/ ActOnHeartbeat(r)
    PROVE  Order'
<1>1. work[r].pc = "effect" /\ Goto(r, Rest(work[r]))
  BY DEF ActOnLock, ActOnHeartbeat
<1>2. UNCHANGED <<typeOf, keys, lastSeq, shown>>
  BY DEF ActOnLock, ActOnHeartbeat, redis, effectVars
<1>. QED  BY <1>1, <1>2, BaseFacts, OrderFacts, OrderRest

LEMMA OrderTakeItem ==
    ASSUME Base, Order, NEW r \in Requests, NEW n \in Seqs, TakeItem(r, n)
    PROVE  Order'
<1>. DEFINE w == work[r]
            taken == [w EXCEPT !.n = n, !.batch = @ \ {n}, !.left = Slots,
                               !.fresh = IsNewer(n, w.top)]
<1>1. w.pc = "item" /\ w.pc # "idle"
  BY DEF TakeItem
<1>. USE <1>1, BaseFacts, OrderFacts
<1>2. w.replay /\ w.top = lastSeq
  BY DEF Steady
<1>3. /\ taken \in Work /\ taken.n = n /\ taken.replay /\ taken.top = w.top
      /\ taken.fresh = IsNewer(n, w.top)
  <2>1. /\ w.batch \ {n} \in SUBSET Seqs /\ IsNewer(n, w.top) \in BOOLEAN
        /\ n \in 0..MaxSeq
    BY DEF Seqs, IsNewer
  <2>. QED  BY <1>2, <2>1 DEF Work
<1>4. /\ typeOf' = typeOf /\ keys \subseteq keys' /\ lastSeq' = lastSeq
      /\ shown' = shown /\ ShownUpTo(lastSeq', shown')
  BY DEF TakeItem, effectVars
<1>5. \/ /\ Goto(r, [taken EXCEPT !.pc = "advance"])
         /\ taken.fresh
      \/ /\ Goto(r, [taken EXCEPT !.pc = "store"])
         /\ ~taken.fresh
      \/ Goto(r, Rest(taken))
  BY DEF TakeItem
<1>. HIDE DEF taken
<1>6. CASE Goto(r, [taken EXCEPT !.pc = "advance"]) /\ taken.fresh
  <2>. DEFINE new == [taken EXCEPT !.pc = "advance"]
  <2>1. /\ new.pc = "advance" /\ new.n = n /\ new.replay /\ new.top = lastSeq
        /\ n > lastSeq /\ Goto(r, new)
    BY <1>2, <1>3, <1>6 DEF Work, IsNewer
  <2>2. Sound(new, lastSeq, shown)
    BY <2>1 DEF Sound
  <2>. HIDE DEF new
  <2>. QED  BY <1>2, <1>4, <2>1, <2>2, OrderOn
<1>7. CASE Goto(r, [taken EXCEPT !.pc = "store"]) /\ ~taken.fresh
  <2>. DEFINE new == [taken EXCEPT !.pc = "store"]
  <2>1. /\ new.pc = "store" /\ new.n = n /\ new.replay /\ new.top = lastSeq
        /\ ~new.fresh /\ Goto(r, new)
    BY <1>2, <1>3, <1>7 DEF Work
  <2>2. Sound(new, lastSeq, shown)
    BY <2>1 DEF Sound
  <2>. HIDE DEF new
  <2>. QED  BY <1>2, <1>4, <2>1, <2>2, OrderOn
<1>8. CASE Goto(r, Rest(taken))
  BY <1>2, <1>3, <1>4, <1>8, OrderRest
<1>. QED  BY <1>5, <1>6, <1>7, <1>8

LEMMA OrderAdvanceItem ==
    ASSUME InTurn, Base, Order, NEW r \in Requests, AdvanceItem(r)  PROVE Order'
<1>. DEFINE w == work[r]
            new == [w EXCEPT !.pc = "store", !.top = w.n]
<1>1. w.pc = "advance" /\ w.pc # "idle" /\ Goto(r, new)
  BY DEF AdvanceItem
<1>. USE <1>1, BaseFacts, OrderFacts
<1>2. w.replay /\ w.n > lastSeq
  BY DEF Steady, Sound
<1>3. /\ new.pc = "store" /\ new.n = w.n /\ new.replay /\ new.left = w.left
      /\ new.top = w.n
  BY <1>2 DEF Work
<1>4. lastSeq' = w.n
  BY DEF AdvanceItem, WriteResults, InTurn
<1>5. UNCHANGED <<typeOf, keys, shown>>
  BY DEF AdvanceItem, effectVars
<1>6. ShownUpTo(w.n, shown) /\ \A x \in Slots \cup {0} : shown[x] < w.n
  BY <1>2, Rise
<1>7. Sound(new, lastSeq', shown')
  BY <1>3, <1>4, <1>5, <1>6 DEF Sound, Due
<1>. HIDE DEF new
<1>. QED  BY <1>2, <1>3, <1>4, <1>5, <1>6, <1>7, OrderOn

LEMMA OrderStoreItem ==
    ASSUME Base, Order, NEW r \in Requests, StoreItem(r)  PROVE Order'
<1>. DEFINE w == work[r]
            processed == [w EXCEPT !.any = TRUE]
<1>1. w.pc = "store" /\ w.pc # "idle"
  BY DEF StoreItem
<1>. USE <1>1, BaseFacts, OrderFacts
<1>2. w.replay /\ w.top = lastSeq
  BY DEF Steady
<1>3. /\ processed \in Work /\ processed.n = w.n /\ processed.replay
      /\ processed.left = w.left /\ processed.top = w.top
  BY <1>2 DEF Work
<1>4. UNCHANGED <<typeOf, keys, lastSeq, shown>>
  BY DEF StoreItem, redis, effectVars
<1>5. \/ Goto(r, Rest(w))
      \/ Goto(r, Rest(processed))
      \/ /\ w.fresh
         /\ \E num \in {0, w.n} :
               Goto(r, [processed EXCEPT !.pc = "key", !.num = num])
      \/ w.fresh /\ Goto(r, [processed EXCEPT !.pc = "effect"])
  BY DEF StoreItem
<1>. HIDE DEF processed
<1>6. CASE Goto(r, Rest(w))
  BY <1>2, <1>4, <1>6, OrderRest
<1>7. CASE Goto(r, Rest(processed))
  BY <1>2, <1>3, <1>4, <1>7, OrderRest
<1>8. ASSUME w.fresh, NEW new, Goto(r, new), new.pc \in {"key", "effect"},
             new.n = w.n, new.replay, new.left = w.left, new.top = w.top
      PROVE  Order'
  <2>1. Sound(new, lastSeq, shown)
    BY <1>2, <1>8 DEF Sound, Due
  <2>. QED  BY <1>2, <1>4, <1>8, <2>1, OrderOn
<1>9. CASE /\ w.fresh
           /\ \E num \in {0, w.n} :
                 Goto(r, [processed EXCEPT !.pc = "key", !.num = num])
  <2>1. PICK num \in {0, w.n} : Goto(r, [processed EXCEPT !.pc = "key", !.num = num])
    BY <1>9
  <2>. DEFINE new == [processed EXCEPT !.pc = "key", !.num = num]
  <2>2. /\ new.pc = "key" /\ new.n = w.n /\ new.replay /\ new.left = w.left
        /\ new.top = w.top /\ Goto(r, new)
    BY <1>3, <2>1 DEF Work
  <2>. HIDE DEF new
  <2>. QED  BY <1>8, <1>9, <2>2
<1>10. CASE w.fresh /\ Goto(r, [processed EXCEPT !.pc = "effect"])
  <2>. DEFINE new == [processed EXCEPT !.pc = "effect"]
  <2>1. /\ new.pc = "effect" /\ new.n = w.n /\ new.replay /\ new.left = w.left
        /\ new.top = w.top /\ Goto(r, new)
    BY <1>3, <1>10 DEF Work
  <2>. HIDE DEF new
  <2>. QED  BY <1>8, <1>10, <2>1
<1>. QED  BY <1>5, <1>6, <1>7, <1>9, <1>10

LEMMA OrderEnds ==
    ASSUME Base, Order, NEW r \in Requests, EndBatch(r) \/ Crash(r)
    PROVE  Order'
<1>1. Goto(r, Idle)
  BY DEF EndBatch, Crash
<1>2. UNCHANGED <<typeOf, keys, lastSeq, shown>> /\ ShownUpTo(lastSeq, shown)
  BY DEF EndBatch, Crash, redis, effectVars, Order
<1>. QED  BY <1>1, <1>2, OrderMove

\* A step of no request; keys expire while there is none.
LEMMA OrderStill ==
    ASSUME Order, UNCHANGED <<typeOf, lastSeq, shown, work>>,
           keys' = keys \/ Running = {}
    PROVE  Order'
<1>1. CASE keys' = keys
  BY <1>1 DEF Order, Sound, Past, Due, Twins, LiveKey, ShownUpTo
<1>2. CASE Running = {}
  <2>1. \A r \in Requests : work'[r].pc = "idle"
    BY <1>2 DEF Running
  <2>. QED  BY <2>1 DEF Order, ShownUpTo
<1>. QED  BY <1>1, <1>2

LEMMA OrderStep == ASSUME InTurn, Base, Order, [Next]_vars  PROVE Order'
<1>1. ASSUME NEW r \in Requests, NEW n \in Seqs, Receive(r, n)  PROVE Order'
  BY <1>1, OrderReceive
<1>2. ASSUME NEW r \in Requests, NEW batch \in SUBSET Seqs, ReceiveBatch(r, batch)
      PROVE  Order'
  BY <1>2, OrderReceiveBatch
<1>3. ASSUME NEW r \in Requests, Step(r)  PROVE Order'
  BY <1>3, OrderTakeKey, OrderReadLast, OrderWriteLast, OrderInsertRow, OrderFails,
     OrderApplySlot, OrderApplyBattery, OrderActs, OrderTakeItem,
     OrderAdvanceItem, OrderStoreItem, OrderEnds
  DEF Step
<1>4. ASSUME NEW r \in Requests, Crash(r)  PROVE Order'
  BY <1>4, OrderEnds
<1>5. CASE Expire
  BY <1>5, OrderStill DEF Expire, effectVars
<1>6. CASE MarkOffline
  BY <1>6, OrderStill DEF MarkOffline, redis, effectVars
<1>7. CASE UNCHANGED vars
  BY <1>7, OrderStill DEF vars
<1>. QED  BY <1>1, <1>2, <1>3, <1>4, <1>5, <1>6, <1>7 DEF Next

\* Battery and slot reports take effect in the order of their numbers, each at
\* most once, for any number of reports, slots and requests, if the cabinet sends
\* nothing else while a report is served and last_seq is read and written, though
\* requests die, keys expire and rows are not inserted (saveReport and
\* OfflineReplay pass over what is not above last_seq).
THEOREM ReportsInOrder == ASSUME InTurn  PROVE Spec => AppliedInOrder
<1>1. Init => Base /\ Order
  BY BaseInit, OrderInit
<1>2. Base /\ Order /\ [Next]_vars => (Base /\ Order)'
  BY BaseStep, OrderStep
<1>3. Base /\ Order =>
         \A r \in Requests :
            /\ ApplyBattery(r) => work[r].n > shown[0]
            /\ \A s \in Slots : ApplySlot(r, s) => work[r].n > shown[s]
  BY OrderApplyBattery, OrderApplySlot
<1>. QED  BY <1>1, <1>2, <1>3, PTL DEF Spec, AppliedInOrder

=============================================================================
