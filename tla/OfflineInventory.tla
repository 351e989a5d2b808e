-------------------------- MODULE OfflineInventory --------------------------
(***************************************************************************)
(* Stock counts made on a device that may be offline, for one size of one  *)
(* product in one branch.  A count is an absolute number, so it carries    *)
(* the version of the row that its author read: the API applies it only    *)
(* if nothing moved since, and only once.  Without an answer it waits in   *)
(* the queue of the device, one per product, until a pass sends it.        *)
(***************************************************************************)
EXTENDS Naturals

CONSTANTS
  MaxCount,    \* bound on the stock
  MaxRowVersion,  \* bound on the versions of the row
  MaxOps,      \* bound on the operationIds
  NoCount      \* no count in a slot

Stock     == 0..MaxCount
OpIds     == 1..MaxOps
ShelfRow  == [stock : Stock, version : 1..MaxRowVersion]
CountRec  == [op : OpIds, first : OpIds, stock : Stock, expected : 1..MaxRowVersion, seen : Stock]
SlotRec   == [count : CountRec, state : {"listed", "sent", "ok", "conflict", "refused"}, row : ShelfRow \cup {NoCount}]
QueueRec  == [count : CountRec, status : {"pending", "failed", "conflict"}, row : ShelfRow \cup {NoCount}]

ASSUME InventoryAssumption ==
  /\ MaxCount \in Nat \ {0} /\ MaxRowVersion \in Nat \ {0} /\ MaxOps \in Nat \ {0}
  /\ NoCount \notin SlotRec \cup QueueRec

VARIABLES
  shelf,    \* the row at the API: stock and version
  ops,      \* operations in the ledger of movements
  shown,    \* the row as the device read it last
  queue,    \* inventory_queue: the count that waits
  direct,   \* a save under way, and what the API made of it
  passing,  \* the count that a pass has listed, and what the API made of it
  strays,   \* counts under way that nobody waits for
  lastOp,
  unsettled,  \* history: the last count saved, until it is applied, refused or dropped
  done,     \* history: decisions of an author that were applied
  crossed     \* history: a count was saved while a pass had an older one listed

inventoryVars == <<shelf, ops, shown, queue, direct, passing, strays, lastOp, unsettled, done,
                   crossed>>

RowAt(s, v) == [stock |-> s, version |-> v]
\* seen and first are history: the stock that the author of the count had in view,
\* and the operation under which its number was decided first.
Count(o, first, n, row) ==
  [op |-> o, first |-> first, stock |-> n, expected |-> row.version, seen |-> row.stock]
Slot(count, state) == [count |-> count, state |-> state, row |-> NoCount]

InventoryInit ==
  /\ \E s \in Stock : shelf = RowAt(s, 1)
  /\ shown = shelf /\ ops = {} /\ strays = {} /\ lastOp = 0
  /\ queue = NoCount /\ direct = NoCount /\ passing = NoCount
  /\ unsettled = 0 /\ done = {} /\ crossed = FALSE

-----------------------------------------------------------------------------
(* The API *)

\* decrement, increment and incrementDamaged: every movement raises the version.
MoveUnversioned(s) ==
  /\ s # shelf.stock /\ shelf' = RowAt(s, shelf.version)
  /\ UNCHANGED <<ops, shown, queue, direct, passing, strays, lastOp, unsettled, done, crossed>>

MoveStock(s) ==
  /\ shelf.version < MaxRowVersion /\ shelf' = RowAt(s, shelf.version + 1)
  /\ UNCHANGED <<ops, shown, queue, direct, passing, strays, lastOp, unsettled, done, crossed>>

\* setStock: a repeated operation is skipped; the row is locked from the comparison
\* of its version to the write.
VerdictByVersion(c) == IF shelf.version = c.expected THEN "ok" ELSE "conflict"

Verdict(c) == IF c.op \in ops THEN "ok" ELSE IF shelf.version = c.expected THEN "ok" ELSE "conflict"

Applies(c) == c.op \notin ops /\ shelf.version = c.expected
Written(c) == RowAt(c.stock, shelf.version + 1)

SettleCount(c) ==
  /\ ops' = IF Verdict(c) = "ok" THEN ops \cup {c.op} ELSE ops
  /\ unsettled' = IF Verdict(c) = "ok" /\ unsettled = c.op THEN 0 ELSE unsettled
  /\ done' = IF Applies(c) THEN done \cup {c.first} ELSE done

SetStockTo(c) ==
  /\ Applies(c) => shelf.version < MaxRowVersion
  /\ shelf' = IF Applies(c) THEN Written(c) ELSE shelf
  /\ SettleCount(c)

Replied(slot) == [slot EXCEPT !.state = Verdict(slot.count), !.row = shelf']

SetStockDirectly ==
  /\ direct # NoCount /\ direct.state = "sent"
  /\ SetStockTo(direct.count) /\ direct' = Replied(direct)
  /\ UNCHANGED <<shown, queue, passing, strays, lastOp, crossed>>

SetStockByPass ==
  /\ passing # NoCount /\ passing.state = "sent"
  /\ SetStockTo(passing.count) /\ passing' = Replied(passing)
  /\ UNCHANGED <<shown, queue, direct, strays, lastOp, crossed>>

SetStockLate(c) ==
  /\ c \in strays /\ SetStockTo(c) /\ strays' = strays \ {c}
  /\ UNCHANGED <<shown, queue, direct, passing, lastOp, crossed>>

-----------------------------------------------------------------------------
(* The panel *)

LoadInventory ==
  /\ shown' = shelf
  /\ UNCHANGED <<shelf, ops, queue, direct, passing, strays, lastOp, unsettled, done, crossed>>

\* saveInventory, online or not.  The value it shows at once keeps the version read.
SaveInventory(n, online) ==
  LET c == Count(lastOp + 1, lastOp + 1, n, shown) IN
  /\ direct = NoCount /\ lastOp < MaxOps /\ lastOp' = lastOp + 1 /\ unsettled' = lastOp'
  /\ IF online
     THEN direct' = Slot(c, "sent") /\ UNCHANGED <<queue, crossed>>
     ELSE /\ queue' = [count |-> c, status |-> "pending", row |-> NoCount]
          /\ crossed' = (crossed \/ passing # NoCount) /\ UNCHANGED direct
  /\ UNCHANGED <<shelf, ops, shown, passing, strays, done>>

\* An answer of the API is final: a conflict or a refusal is shown, never queued.
DirectAnswered ==
  /\ direct # NoCount /\ direct.state \in {"ok", "conflict", "refused"}
  /\ shown' = IF direct.state = "refused" THEN shown ELSE direct.row
  /\ unsettled' = IF direct.state = "ok" \/ unsettled # direct.count.op THEN unsettled ELSE 0
  /\ direct' = NoCount
  /\ UNCHANGED <<shelf, ops, queue, passing, strays, lastOp, done, crossed>>

\* Without one the count is queued as it was sent, in the place of an older one.
DirectUnanswered ==
  /\ direct # NoCount
  /\ queue' = [count |-> direct.count, status |-> "pending", row |-> NoCount]
  /\ crossed' = (crossed \/ passing # NoCount)
  /\ strays' \in IF direct.state = "sent" THEN {strays, strays \cup {direct.count}} ELSE {strays}
  /\ direct' = NoCount
  /\ UNCHANGED <<shelf, ops, shown, passing, lastOp, unsettled, done>>

RefuseCount ==
  \/ /\ direct # NoCount /\ direct.state = "sent" /\ direct' = [direct EXCEPT !.state = "refused"]
     /\ UNCHANGED <<shelf, ops, shown, queue, passing, strays, lastOp, unsettled, done, crossed>>
  \/ /\ passing # NoCount /\ passing.state = "sent" /\ passing' = [passing EXCEPT !.state = "refused"]
     /\ UNCHANGED <<shelf, ops, shown, queue, direct, strays, lastOp, unsettled, done, crossed>>

-----------------------------------------------------------------------------
(* The pass over the queue *)

\* sendAll lists the queue once and works through its copy.
ListQueue ==
  /\ passing = NoCount /\ queue # NoCount /\ queue.status = "pending"
  /\ passing' = Slot(queue.count, "listed")
  /\ UNCHANGED <<shelf, ops, shown, queue, direct, strays, lastOp, unsettled, done, crossed>>

SendNext ==
  /\ passing # NoCount /\ passing.state = "listed"
  /\ passing' = [passing EXCEPT !.state = "sent"]
  /\ UNCHANGED <<shelf, ops, shown, queue, direct, strays, lastOp, unsettled, done, crossed>>

\* An adjustment that was applied leaves the queue, whatever stands there by now;
\* one that was not is marked for a decision.
PassAnswered ==
  /\ passing # NoCount /\ passing.state \in {"ok", "conflict", "refused"}
  /\ queue' = IF passing.state = "ok" \/ queue = NoCount THEN NoCount
              ELSE IF passing.state = "refused" THEN [queue EXCEPT !.status = "failed"]
              ELSE [queue EXCEPT !.status = "conflict", !.row = passing.row]
  /\ shown' = IF passing.state = "ok" THEN passing.row ELSE shown
  /\ passing' = NoCount
  /\ UNCHANGED <<shelf, ops, direct, strays, lastOp, unsettled, done, crossed>>

\* Without an answer, or with one of 500, it stays as it was; so after a crash.
ForgetUnanswered ==
  /\ passing # NoCount
  /\ strays' \in IF passing.state = "sent" THEN {strays, strays \cup {passing.count}} ELSE {strays}
  /\ passing' = NoCount /\ queue' = NoCount
  /\ UNCHANGED <<shelf, ops, shown, direct, lastOp, unsettled, done, crossed>>

PassUnanswered ==
  /\ passing # NoCount
  /\ strays' \in IF passing.state = "sent" THEN {strays, strays \cup {passing.count}} ELSE {strays}
  /\ passing' = NoCount
  /\ UNCHANGED <<shelf, ops, shown, queue, direct, lastOp, unsettled, done, crossed>>

\* The author decides: the same number over the row of the conflict, or not at all.
ResolveConflict ==
  /\ queue # NoCount /\ queue.status = "conflict" /\ lastOp < MaxOps
  /\ lastOp' = lastOp + 1
  /\ queue' = [count |-> Count(lastOp', queue.count.first, queue.count.stock, queue.row),
                status |-> "pending", row |-> NoCount]
  /\ unsettled' = IF unsettled = queue.count.op THEN lastOp' ELSE unsettled
  /\ crossed' = (crossed \/ passing # NoCount)
  /\ UNCHANGED <<shelf, ops, shown, direct, passing, strays, done>>

DiscardUpdate ==
  /\ queue # NoCount
  /\ queue' = NoCount /\ unsettled' = IF unsettled = queue.count.op THEN 0 ELSE unsettled
  /\ UNCHANGED <<shelf, ops, shown, direct, passing, strays, lastOp, done, crossed>>

-----------------------------------------------------------------------------

Handles == SetStockDirectly \/ SetStockByPass \/ (\E c \in strays : SetStockLate(c))

InventoryNext ==
  \/ Handles \/ LoadInventory \/ DirectAnswered \/ DirectUnanswered \/ RefuseCount
  \/ ListQueue \/ SendNext \/ PassAnswered \/ PassUnanswered \/ ResolveConflict \/ DiscardUpdate
  \/ \E n \in Stock : MoveStock(n) \/ (\E online \in BOOLEAN : SaveInventory(n, online))

InventorySpec == InventoryInit /\ [][InventoryNext]_inventoryVars

-----------------------------------------------------------------------------
(* Properties *)

\* Every row, count and slot has the values its type allows.
InventoryTypeOK ==
  /\ shelf \in ShelfRow /\ shown \in ShelfRow
  /\ direct \in SlotRec \cup {NoCount} /\ passing \in SlotRec \cup {NoCount}
  /\ queue \in QueueRec \cup {NoCount} /\ strays \subseteq CountRec
  /\ ops \subseteq OpIds /\ lastOp \in 0..MaxOps /\ unsettled \in 0..MaxOps
  /\ done \subseteq OpIds /\ crossed \in BOOLEAN

\* The counts that a request of the device carries.
CountsSent == strays \cup {s.count : s \in {direct, passing} \ {NoCount}}

\* A count only replaces the stock that its author had in view, however late it
\* arrives and however often it is sent: it never revives units that were sold.
CountsOverWhatWasSeen ==
  [][\A c \in CountsSent :
       /\ Handles /\ shelf' # shelf /\ c.op \in ops' \ ops
       => shelf.stock = c.seen]_inventoryVars

\* What an author decided is applied at most once, although the answer may be lost,
\* the count sent again after other movements, answered with a conflict and confirmed
\* under a new operation: unless a count was saved while a pass had an older one listed.
DecidedOnce ==
  [][\A c \in CountsSent :
       Handles /\ c.op \in ops' \ ops /\ c.first \in done => crossed]_inventoryVars

\* The last count saved waits in the queue or is under way until it is applied,
\* refused or dropped by its author, unless it was saved while a pass had an older
\* one of the same product listed.
NoCountForgotten ==
  unsettled # 0 /\ ~crossed =>
    \E slot \in {queue, direct} : slot # NoCount /\ slot.count.op = unsettled
=============================================================================
