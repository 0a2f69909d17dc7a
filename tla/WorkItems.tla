------------------------------ MODULE WorkItems ------------------------------
(***************************************************************************)
(* The outputs of a room and their delivery: the table work_items          *)
(* (db/work-items.ts) and what message-runtime-delivery.ts does between a  *)
(* row and Discord.  An output is written down first, then sent in Parts   *)
(* messages, or by editing the progress message it replaces; the row is    *)
(* marked only after Discord has answered.  Several deliverers work on the *)
(* rows of a room at a time: its message run, the IPC relay.               *)
(***************************************************************************)
EXTENDS Naturals, Sequences, FiniteSets, FiniteSetsExt

CONSTANTS
  Rooms,
  Parts,       \* messages that Discord's size limit splits an output into
  Idempotent,  \* the channel supports a delivery key (Discord does)
  MaxFaults    \* bound: failing calls of the channel

ASSUME WorkItemsAssumption == Parts \in Nat \ {0} /\ MaxFaults \in Nat

VARIABLES
  items,   \* the rows, by id
  shown,   \* what the room shows of each row: copies of its parts, and of its text in an edited message
  del,     \* del[r][w]: the delivery that deliverer w has under way in room r
  faults

itemVars == <<items, shown, del, faults>>

Deliverers == {"run", "ipc"}
Sources == {"final", "say", "ipc"}
Statuses == {"produced", "delivery_retry", "delivered", "superseded"}

NoDelivery == [item |-> 0, stage |-> "none", part |-> 1, ok |-> FALSE]

WorkItemsTypeOK ==
  /\ items \in Seq([room : Rooms, by : Sources, status : Statuses, upTo : Nat, uncertain : BOOLEAN])
  /\ shown \in Seq([sent : [1..Parts -> Nat], edited : BOOLEAN])
  /\ Len(shown) = Len(items)
  /\ \A r \in Rooms, w \in Deliverers :
       /\ del[r][w].stage \in {"none", "edit", "send", "mark", "done"}
       /\ del[r][w].stage # "none" => del[r][w].item \in DOMAIN items
  /\ faults \in 0..MaxFaults

ItemsInit ==
  /\ items = <<>> /\ shown = <<>>
  /\ del = [r \in Rooms |-> [w \in Deliverers |-> NoDelivery]]
  /\ faults = 0

IsOpen(i) == items[i].status \in {"produced", "delivery_retry"}

\* The row that the next run of the room delivers first: the oldest open one.
Deliverable(r) == {i \in DOMAIN items : items[i].room = r /\ IsOpen(i) /\ ~items[i].uncertain}
OpenItem(r) == IF Deliverable(r) = {} THEN 0 ELSE Min(Deliverable(r))

Idle(r, w) == del[r][w].stage = "none"
Delivered(r, w) == del[r][w].stage = "done"

Deliver(r, w, i, stage) ==
  del' = [del EXCEPT ![r][w] = [NoDelivery EXCEPT !.item = i, !.stage = stage]]
Free(r, w) == del' = [del EXCEPT ![r][w] = NoDelivery]

----------------------------------------------------------------------------
(* Rows *)

Superseded(r) ==
  [i \in DOMAIN items |->
     IF items[i].room = r /\ IsOpen(i) THEN [items[i] EXCEPT !.status = "superseded"]
                                       ELSE items[i]]

\* Write an output down and start its delivery.  One transaction closes the
\* open rows of the same room, service and role as superseded.
Produce(r, w, by, upTo, stage) ==
  /\ items' = Append(Superseded(r),
       [room |-> r, by |-> by, status |-> "produced", upTo |-> upTo, uncertain |-> FALSE])
  /\ shown' = Append(shown, [sent |-> [p \in 1..Parts |-> 0], edited |-> FALSE])
  /\ Deliver(r, w, Len(items) + 1, stage)
  /\ UNCHANGED faults

\* The marks are unconditional: a row superseded while it was being sent is
\* open again when that send fails.
MarkDelivered(i) ==
  items' = [items EXCEPT ![i].status = "delivered", ![i].uncertain = FALSE]
MarkFailed(i) ==
  items' = IF Idempotent THEN [items EXCEPT ![i].status = "delivery_retry"]
                         ELSE [items EXCEPT ![i].uncertain = TRUE]

----------------------------------------------------------------------------
(* Delivery *)

Fault == faults < MaxFaults /\ faults' = faults + 1
NoFault == UNCHANGED faults

\* The progress message becomes the final one.  An error may come after the
\* edit was applied; either way the text is sent as a new message instead.
EditProgress(r, w) ==
  LET d == del[r][w] IN
  /\ d.stage = "edit"
  /\ \/ /\ NoFault
        /\ shown' = [shown EXCEPT ![d.item].edited = TRUE]
        /\ del' = [del EXCEPT ![r][w].stage = "mark", ![r][w].ok = TRUE]
     \/ /\ Fault
        /\ \E applied \in BOOLEAN : shown' = [shown EXCEPT ![d.item].edited = applied]
        /\ del' = [del EXCEPT ![r][w].stage = "send"]
  /\ UNCHANGED items

\* Mutant of Posted.
PostedWithoutNonce(copies) == copies + 1

\* The nonce made of the delivery key and the part's number keeps Discord from
\* posting a part twice.
Posted(copies) == IF copies = 0 THEN 1 ELSE copies

\* One message of the output.  The call may fail after Discord has posted it.
\* The answer to the last one lets the run delete an edited progress message,
\* which it tries once.
SendPart(r, w) ==
  LET d == del[r][w]
      posted == [shown EXCEPT ![d.item].sent[d.part] = Posted(@)]
      last == d.part = Parts IN
  /\ d.stage = "send"
  /\ \/ /\ NoFault
        /\ shown' = IF last THEN [posted EXCEPT ![d.item].edited = FALSE] ELSE posted
        /\ del' = IF last THEN [del EXCEPT ![r][w].stage = "mark", ![r][w].ok = TRUE]
                          ELSE [del EXCEPT ![r][w].part = @ + 1]
     \/ /\ last /\ shown[d.item].edited /\ Fault
        /\ shown' = posted
        /\ del' = [del EXCEPT ![r][w].stage = "mark", ![r][w].ok = TRUE]
     \/ /\ Fault
        /\ shown' \in {shown, posted}
        /\ del' = [del EXCEPT ![r][w].stage = "mark", ![r][w].ok = FALSE]
  /\ UNCHANGED items

Mark(r, w) ==
  LET d == del[r][w] IN
  /\ d.stage = "mark"
  /\ IF d.ok THEN MarkDelivered(d.item) ELSE MarkFailed(d.item)
  /\ del' = [del EXCEPT ![r][w].stage = "done"]
  /\ UNCHANGED <<shown, faults>>

DeliveryStep(r, w) == EditProgress(r, w) \/ SendPart(r, w) \/ Mark(r, w)
==============================================================================
