---------------------------- MODULE DeviceReports ----------------------------
(***************************************************************************)
(* How the service takes the numbered reports of one cabinet: heartbeats,  *)
(* lock, battery and slot reports sent live, and the stored ones a cabinet *)
(* sends in a batch when it is back (offline-replay).  A report is kept    *)
(* out twice by a Redis key of its number, and out of order by last_seq,   *)
(* the largest number taken so far.  Key, last_seq, the row in             *)
(* cabinet_reports and the effect are separate calls: each is a step here, *)
(* a request may die or fail between any two, and the cabinet may send     *)
(* anything again, late, or both live and in a batch.                      *)
(*                                                                         *)
(* What a battery or slot report says is its number: a column that shows n *)
(* shows what the cabinet looked like at its report n.  A batch is dealt   *)
(* with as the list of its items; the effect of a lock report on orders is *)
(* OrderLifecycle!LockReportOpened and is counted only.                    *)
(***************************************************************************)
EXTENDS Naturals

CONSTANTS
    MaxSeq,         \* the cabinet numbers its reports 1..MaxSeq
    Slots,          \* the slots a slot report lists, written one by one
    Requests,       \* requests being served
    Overlap,        \* which of them may run at a time: "none", "retries" of one
                    \* report, or "any"
    Faults          \* the calls that may fail, of FaultKinds

FaultKinds == {"crash", "setnx", "get", "setex", "insert"}

ASSUME ReportsAssumption ==
    /\ MaxSeq \in Nat \ {0}
    /\ Slots \subseteq Nat /\ Slots # {} /\ 0 \notin Slots
    /\ Overlap \in {"none", "retries", "any"}
    /\ Faults \subseteq FaultKinds

Seqs == 1..MaxSeq

\* models.ReportType
Types == {"heartbeat", "lock", "battery", "slot"}

VARIABLES
    typeOf,         \* what each report is about, chosen by the cabinet
    keys,           \* rpt:{cabinet}:{seq} and offline_rpt:{cabinet}:{seq}
    lastSeq,        \* last_seq:{cabinet}, 0 when it is not set
    rows,           \* the rows of cabinet_reports marked processed
    shown,          \* the report each slot row shows; 0 is the battery row
    acted,          \* the lock reports acted upon
    cabinet,        \* cabinets.status
    recovered,      \* whether the orders of the cabinet's last outage have been
                    \* decided by handleCabinetRecovered
    work            \* what each request is doing

redis == <<keys, lastSeq>>
effectVars == <<shown, acted>>
cabinetVars == <<cabinet, recovered>>
vars == <<typeOf, keys, lastSeq, rows, shown, acted, cabinet,
          recovered, work>>

LiveKey(n) == <<"rpt", n>>
ReplayKey(n) == <<"offline_rpt", n>>

\* INSERT INTO cabinet_reports.  Rows that are not processed are stored too;
\* nothing reads them, and they are left out.
Insert(n, replay, processed) ==
    rows' = IF processed THEN rows \cup {[seq |-> n, replay |-> replay]} ELSE rows

\* A request: the report it works on, the number saveReport is given for it
\* (0: the payload of a stored slot report does not repeat it), the last_seq it
\* has read, whether the report is newer, the slots still to be written; and of a
\* batch its own last_seq, the items left and whether one was processed.
Work == [pc: {"key", "last", "next", "row", "effect", "item", "advance",
              "store", "end"},
         n: 0..MaxSeq, num: 0..MaxSeq, got: 0..MaxSeq, fresh: BOOLEAN,
         left: SUBSET Slots, replay: BOOLEAN, top: 0..MaxSeq,
         batch: SUBSET Seqs, any: BOOLEAN]

Idle == [pc |-> "idle"]

Init ==
    /\ typeOf \in [Seqs -> Types]
    /\ keys = {} /\ lastSeq = 0 /\ rows = {}
    /\ shown = [x \in Slots \cup {0} |-> 0]
    /\ acted = {}
    /\ cabinet = "online" /\ recovered = TRUE
    /\ work = [r \in Requests |-> Idle]

Running == {r \in Requests : work[r].pc # "idle"}

MayStart(n, replay) ==
    \/ Running = {}
    \/ Overlap = "any"
    \/ /\ Overlap = "retries" /\ ~replay
       /\ \A r \in Running : ~work[r].replay /\ work[r].n = n

\* The request goes on with the next item of its batch, or ends.
Rest(w) ==
    LET next == [w EXCEPT !.n = 0, !.num = 0, !.fresh = TRUE, !.left = {}]
    IN  IF w.batch # {} THEN [next EXCEPT !.pc = "item"]
        ELSE IF w.any THEN [next EXCEPT !.pc = "end", !.top = 0]
        ELSE Idle

Goto(r, w) == work' = [work EXCEPT ![r] = w]

-----------------------------------------------------------------------------
(* saveReport and the handlers that call it *)

Receive(r, n) ==
    /\ work[r] = Idle
    /\ MayStart(n, FALSE)
    /\ Goto(r, [pc |-> "key", n |-> n, num |-> n, got |-> 0, fresh |-> TRUE,
                left |-> Slots, replay |-> FALSE, top |-> 0, batch |-> {},
                any |-> FALSE])
    /\ UNCHANGED <<typeOf, redis, rows, effectVars, cabinetVars>>

\* Heartbeat and LockReport pass over "duplicate" and "out of order" and act;
\* BatteryReport and SlotReport stop at any error.
ActsAnyway(w) == ~w.replay /\ typeOf[w.n] \in {"heartbeat", "lock"}

TakeKey(r) ==
    LET w == work[r]
        key == LiveKey(w.num)
    IN  /\ w.pc = "key"
        /\ \/ /\ w.num = 0
              /\ Goto(r, [w EXCEPT !.pc = "row", !.fresh = TRUE])
              /\ UNCHANGED keys
           \/ /\ w.num # 0 /\ key \notin keys
              /\ keys' = keys \cup {key}
              /\ Goto(r, [w EXCEPT !.pc = "last"])
           \/ /\ w.num # 0 /\ key \in keys
              /\ Goto(r, IF ActsAnyway(w) THEN [w EXCEPT !.pc = "effect"]
                         ELSE Rest(w))
              /\ UNCHANGED keys
           \* An error of the call, which may have been executed or not.
           \/ /\ w.num # 0 /\ "setnx" \in Faults
              /\ keys' \in {keys, keys \cup {key}}
              /\ Goto(r, Rest(w))
        /\ UNCHANGED <<typeOf, lastSeq, rows, effectVars, cabinetVars>>

\* What GET last_seq returns: an error of the call counts as 0.
ReadResults == IF "get" \in Faults THEN {lastSeq, 0} ELSE {lastSeq}

ReadLast(r) ==
    LET w == work[r]
    IN  /\ w.pc = "last"
        /\ \E got \in ReadResults :
              Goto(r, [w EXCEPT !.pc = "next", !.got = got])
        /\ UNCHANGED <<typeOf, redis, rows, effectVars, cabinetVars>>

\* Mutant of IsNewer: a report with the number of the last one counts as new.
IsNewerOrSame(n, last) == n >= last

IsNewer(n, last) == n > last

\* Mutant of WriteResults: the number expected next is written.
WriteResultsNext(n) == {n + 1}

\* What SETEX leaves in last_seq: its error is ignored.
WriteResults(n) == IF "setex" \in Faults THEN {n, lastSeq} ELSE {n}

WriteLast(r) ==
    LET w == work[r]
    IN  /\ w.pc = "next"
        /\ IF IsNewer(w.num, w.got) THEN lastSeq' \in WriteResults(w.num)
           ELSE UNCHANGED lastSeq
        /\ Goto(r, [w EXCEPT !.pc = "row", !.fresh = IsNewer(w.num, w.got),
                           !.got = 0])
        /\ UNCHANGED <<typeOf, keys, rows, effectVars, cabinetVars>>

\* A heartbeat in order also marks the cabinet online.
InsertRow(r) ==
    LET w == work[r]
    IN  /\ w.pc = "row"
        /\ Insert(w.num, FALSE, w.fresh)
        /\ cabinet' = IF typeOf[w.n] = "heartbeat" /\ w.fresh THEN "online"
                      ELSE cabinet
        /\ Goto(r, IF w.fresh \/ ActsAnyway(w) THEN [w EXCEPT !.pc = "effect"]
                   ELSE Rest(w))
        /\ UNCHANGED <<typeOf, redis, effectVars, recovered>>

\* Mutant of InsertFails: the error is ignored.
InsertFailsOnward(r) ==
    /\ work[r].pc = "row"
    /\ "insert" \in Faults
    /\ Goto(r, [work[r] EXCEPT !.pc = "effect"])
    /\ UNCHANGED <<typeOf, redis, rows, effectVars, cabinetVars>>

InsertFails(r) ==
    /\ work[r].pc = "row"
    /\ "insert" \in Faults
    /\ Goto(r, Rest(work[r]))
    /\ UNCHANGED <<typeOf, redis, rows, effectVars, cabinetVars>>

\* The slots are written one after the other, each by its own UPDATE, in the
\* order the cabinet lists them.
ApplySlot(r, s) ==
    LET w == work[r]
        left == w.left \ {s}
    IN  /\ w.pc = "effect" /\ typeOf[w.n] = "slot"
        /\ s \in w.left
        /\ shown' = [shown EXCEPT ![s] = w.n]
        /\ Goto(r, IF left = {} THEN Rest(w) ELSE [w EXCEPT !.left = left])
        /\ UNCHANGED <<typeOf, redis, rows, acted, cabinetVars>>

ApplyBattery(r) ==
    LET w == work[r]
    IN  /\ w.pc = "effect" /\ typeOf[w.n] = "battery"
        /\ shown' = [shown EXCEPT ![0] = w.n]
        /\ Goto(r, Rest(w))
        /\ UNCHANGED <<typeOf, redis, rows, acted, cabinetVars>>

\* ConfirmUnlock and the decisions of the slot's orders.
ActOnLock(r) ==
    LET w == work[r]
    IN  /\ w.pc = "effect" /\ typeOf[w.n] = "lock"
        /\ acted' = acted \cup {w.n}
        /\ Goto(r, Rest(w))
        /\ UNCHANGED <<typeOf, redis, rows, shown, cabinetVars>>

\* A cabinet found offline is set online, and its abnormal orders are decided.
Recover ==
    /\ cabinet' = "online"
    /\ recovered' = (recovered \/ cabinet = "offline")

\* A heartbeat of a cabinet that says it is online, or that says it is not.
ActOnHeartbeat(r) ==
    LET w == work[r]
    IN  /\ w.pc = "effect" /\ typeOf[w.n] = "heartbeat"
        /\ Recover \/ UNCHANGED <<cabinetVars>>
        /\ Goto(r, Rest(w))
        /\ UNCHANGED <<typeOf, redis, rows, effectVars>>

-----------------------------------------------------------------------------
(* OfflineReplay: a batch, sorted by number.  last_seq is read once.  *)

ReceiveBatch(r, batch) ==
    /\ work[r] = Idle
    /\ MayStart(0, TRUE)
    /\ \E top \in ReadResults :
          Goto(r, [pc |-> "item", n |-> 0, num |-> 0, got |-> 0, fresh |-> TRUE,
                   left |-> {}, replay |-> TRUE, top |-> top, batch |-> batch,
                   any |-> FALSE])
    /\ UNCHANGED <<typeOf, redis, rows, effectVars, cabinetVars>>

\* The next item is the one with the smallest number.  One whose key is there,
\* or cannot be set, is skipped.
TakeItem(r, n) ==
    LET w == work[r]
        key == ReplayKey(n)
        taken == [w EXCEPT !.n = n, !.batch = @ \ {n}, !.left = Slots,
                           !.fresh = IsNewer(n, w.top)]
    IN  /\ w.pc = "item"
        /\ n \in w.batch /\ \A m \in w.batch : n <= m
        /\ \/ /\ key \notin keys
              /\ keys' = keys \cup {key}
              /\ Goto(r, [taken EXCEPT !.pc = IF taken.fresh THEN "advance"
                                              ELSE "store"])
           \/ /\ key \in keys
              /\ Goto(r, Rest(taken))
              /\ UNCHANGED keys
           \/ /\ "setnx" \in Faults
              /\ keys' \in {keys, keys \cup {key}}
              /\ Goto(r, Rest(taken))
        /\ UNCHANGED <<typeOf, lastSeq, rows, effectVars, cabinetVars>>

\* Mutant of AdvanceItem: last_seq is not written back.
AdvanceItemLocally(r) ==
    LET w == work[r]
    IN  /\ w.pc = "advance"
        /\ Goto(r, [w EXCEPT !.pc = "store", !.top = w.n])
        /\ UNCHANGED <<typeOf, redis, rows, effectVars, cabinetVars>>

AdvanceItem(r) ==
    LET w == work[r]
    IN  /\ w.pc = "advance"
        /\ lastSeq' \in WriteResults(w.n)
        /\ Goto(r, [w EXCEPT !.pc = "store", !.top = w.n])
        /\ UNCHANGED <<typeOf, keys, rows, effectVars, cabinetVars>>

\* A stored item that is newer takes effect: a slot report by SlotReport, which
\* calls saveReport with the number in the payload, and a heartbeat not at all.
StoreItem(r) ==
    LET w == work[r]
        processed == [w EXCEPT !.any = TRUE]
    IN  /\ w.pc = "store"
        /\ Insert(w.n, TRUE, w.fresh)
        /\ IF ~w.fresh THEN Goto(r, Rest(w))
           ELSE IF typeOf[w.n] = "heartbeat" THEN Goto(r, Rest(processed))
           ELSE IF typeOf[w.n] = "slot"
           THEN \E num \in {0, w.n} :
                   Goto(r, [processed EXCEPT !.pc = "key", !.num = num])
           ELSE Goto(r, [processed EXCEPT !.pc = "effect"])
        /\ UNCHANGED <<typeOf, redis, effectVars, cabinetVars>>

StoreFails(r) ==
    /\ work[r].pc = "store"
    /\ "insert" \in Faults
    /\ Goto(r, Rest(work[r]))
    /\ UNCHANGED <<typeOf, redis, rows, effectVars, cabinetVars>>

\* handleOfflineReplayCabinetRecovery
EndBatch(r) ==
    /\ work[r].pc = "end"
    /\ Recover
    /\ Goto(r, Idle)
    /\ UNCHANGED <<typeOf, redis, rows, effectVars>>

-----------------------------------------------------------------------------
(* The system *)

\* A request dies with the server, or its handler panics.
Crash(r) ==
    /\ "crash" \in Faults
    /\ work[r] # Idle
    /\ Goto(r, Idle)
    /\ UNCHANGED <<typeOf, redis, rows, effectVars, cabinetVars>>

\* The keys of reports live 7 days, those of stored reports 30; last_seq lives
\* 30 days from the last report that was newer, and is taken not to expire.
Expire ==
    /\ Running = {}
    /\ \E key \in keys : keys' = keys \ {key}
    /\ UNCHANGED <<typeOf, lastSeq, rows, effectVars, cabinetVars, work>>

\* A scan finds the cabinet silent (OrderLifecycle!ScanFindsCabinetSilent).
MarkOffline ==
    /\ cabinet = "online"
    /\ cabinet' = "offline" /\ recovered' = FALSE
    /\ UNCHANGED <<typeOf, redis, rows, effectVars, work>>

Step(r) ==
    \/ TakeKey(r) \/ ReadLast(r) \/ WriteLast(r) \/ InsertRow(r) \/ InsertFails(r)
    \/ \E s \in Slots : ApplySlot(r, s)
    \/ ApplyBattery(r) \/ ActOnLock(r) \/ ActOnHeartbeat(r)
    \/ \E n \in Seqs : TakeItem(r, n)
    \/ AdvanceItem(r) \/ StoreItem(r) \/ StoreFails(r) \/ EndBatch(r)

Next ==
    \/ \E r \in Requests :
          \/ \E n \in Seqs : Receive(r, n)
          \/ \E batch \in SUBSET Seqs \ {{}} : ReceiveBatch(r, batch)
          \/ Step(r)
          \/ Crash(r)
    \/ Expire
    \/ MarkOffline

Spec == Init /\ [][Next]_vars

-----------------------------------------------------------------------------
(* Properties *)

\* The variables have their types.
ReportsTypeOK ==
    /\ typeOf \in [Seqs -> Types]
    /\ keys \subseteq {"rpt", "offline_rpt"} \X Seqs
    /\ lastSeq \in 0..MaxSeq
    /\ rows \subseteq [seq: 0..MaxSeq, replay: BOOLEAN]
    /\ shown \in [Slots \cup {0} -> 0..MaxSeq]
    /\ acted \subseteq Seqs
    /\ cabinet \in {"online", "offline"} /\ recovered \in BOOLEAN
    /\ work \in [Requests -> Work \cup {Idle}]

\* Battery and slot reports take effect in the order of their numbers and each
\* at most once, live or out of a batch, however often they are sent, whatever
\* dies in between, and also after their keys have expired (saveReport and
\* OfflineReplay: a number not above last_seq is only stored).
AppliedInOrder ==
    [][\A r \in Requests :
          /\ ApplyBattery(r) => work[r].n > shown[0]
          /\ \A s \in Slots : ApplySlot(r, s) => work[r].n > shown[s]]_vars

\* What slots and batteries show is in cabinet_reports as processed, though the
\* row and the effect are separate writes.
StoredBeforeApplied ==
    \A x \in DOMAIN shown :
        shown[x] # 0 => \E row \in rows : row.seq = shown[x]

-----------------------------------------------------------------------------
(* What the README says and the code does not do *)

\* A report with a number below one that was processed is only stored
\* (README.md:52, README.md:279).
LateReportsAreOnlyStored ==
    [][\A n \in acted' \ acted : \E row \in rows : row.seq = n]_vars

\* The items of a batch are processed one by one (README.md:53): one that is
\* stored as processed has taken effect when the batch is done.
ReplayedSlotsTakeEffect ==
    Running = {} =>
        \A row \in rows :
            row.replay /\ typeOf[row.seq] = "slot"
                => \A s \in Slots : shown[s] >= row.seq
=============================================================================
