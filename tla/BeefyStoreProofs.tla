-------------------------- MODULE BeefyStoreProofs --------------------------
(***************************************************************************)
(* Proofs about the BEEFY item store.  When no database call fails, the    *)
(* single writeLoop goroutine applies each item's commands in the order    *)
(* they were sent, and every Update finds the primary key that the item's  *)
(* Create has set, so each row follows its producer and only moves        *)
(* forward.                                                                *)
(***************************************************************************)
EXTENDS BeefyStore, SequenceTheorems, TLAPS

\* The positions of the channel that hold a command for item i.
Pending(i) == {k \in 1 .. Len(chan) : chan[k].item = i}

\* An item never sent has no row, no key and no command in flight.
Unsent ==
    \A i \in Items :
        sent[i] = Absent => rows[i] = Absent /\ ~hasId[i] /\ Pending(i) = {}

\* The last command in flight for an item carries the last status sent.
LastPendingIsSent ==
    \A k \in 1 .. Len(chan) :
        (\A k2 \in k + 1 .. Len(chan) : chan[k2].item # chan[k].item)
            => chan[k].status = sent[chan[k].item]

\* A Create in flight is its item's first command, and the item has no row
\* and no key yet.
CreateFirst ==
    \A k \in 1 .. Len(chan) :
        chan[k].type = "Create" =>
            /\ rows[chan[k].item] = Absent
            /\ ~hasId[chan[k].item]
            /\ \A k2 \in 1 .. k - 1 : chan[k2].item # chan[k].item

\* An Update in flight follows its item's Create: either the key is set or
\* the Create is ahead of it in the channel.
UpdateAfterCreate ==
    \A k \in 1 .. Len(chan) :
        chan[k].type = "Update" =>
            \/ hasId[chan[k].item]
            \/ \E k2 \in 1 .. k - 1 : chan[k2].item = chan[k].item
                                       /\ chan[k2].type = "Create"

\* A sent item has its key, or its Create is still in flight.
SentCreated ==
    \A i \in Items :
        sent[i] # Absent =>
            hasId[i] \/ \E k \in 1 .. Len(chan) : chan[k].item = i
                                                 /\ chan[k].type = "Create"

\* The key is set exactly for the items that have a row.
KeyIffRow == \A i \in Items : hasId[i] <=> rows[i] # Absent

\* The inductive invariant: RowTracksProducer with the facts about the
\* commands in flight that make it preserved by every step.
IInv ==
    /\ TypeOK
    /\ Unsent
    /\ LastPendingIsSent
    /\ CreateFirst
    /\ UpdateAfterCreate
    /\ SentCreated
    /\ KeyIffRow
    /\ RowTracksProducer

-----------------------------------------------------------------------------
(* IInv is inductive when no database call fails: one lemma per action.    *)

\* A failure-free database: the failure disjuncts of Create and Update
\* are never enabled.
NoFailures == MaxFailures = 0

LEMMA IInvInit == Init => IInv
<1> SUFFICES ASSUME Init PROVE IInv
    OBVIOUS
<1>1. TypeOK
    <2>1. chan \in Seq(Cmds) /\ Len(chan) <= ChanCap
        BY StoreAssumption, EmptySeq DEF Init
    <2>2. rows \in [Items -> Status \cup {Absent}]
          /\ sent \in [Items -> Status \cup {Absent}]
        BY DEF Init
    <2>3. failures \in 0 .. MaxFailures
        BY StoreAssumption DEF Init
    <2>4. QED
        BY <2>1, <2>2, <2>3 DEF Init, TypeOK
<1>2. Unsent /\ KeyIffRow /\ RowTracksProducer
    BY DEF Init, Unsent, Pending, KeyIffRow, RowTracksProducer, Absent
<1>3. LastPendingIsSent /\ CreateFirst /\ UpdateAfterCreate /\ SentCreated
    BY DEF Init, LastPendingIsSent, CreateFirst, UpdateAfterCreate,
           SentCreated, Absent
<1>4. QED
    BY <1>1, <1>2, <1>3 DEF IInv

\* Done and Cancel touch only the loop's flags.
LEMMA FlagStep ==
    ASSUME IInv, Done \/ Cancel
    PROVE  IInv'
<1>1. UNCHANGED <<chan, rows, hasId, sent, failures>>
    BY DEF Done, Cancel
<1>2. ctxDone' \in BOOLEAN /\ loop' \in {"run", "done"}
    BY DEF IInv, TypeOK, Done, Cancel
<1>3. QED
    BY <1>1, <1>2 DEF IInv, TypeOK, Unsent, Pending, LastPendingIsSent,
       CreateFirst, UpdateAfterCreate, SentCreated, KeyIffRow,
       RowTracksProducer

LEMMA StutterStep ==
    ASSUME IInv, UNCHANGED vars
    PROVE  IInv'
BY DEF vars, IInv, TypeOK, Unsent, Pending, LastPendingIsSent,
       CreateFirst, UpdateAfterCreate, SentCreated, KeyIffRow,
       RowTracksProducer

\* SendCreate appends the first command of an item never sent before.
LEMMA SendCreateStep ==
    ASSUME IInv, NEW i \in Items, SendCreate(i)
    PROVE  IInv'
<1> DEFINE cmd == [type |-> "Create", item |-> i, status |-> 0]
<1>1. cmd \in Cmds
    BY DEF Cmds, Status
<1>2. /\ chan' = Append(chan, cmd)
      /\ sent' = [sent EXCEPT ![i] = 0]
      /\ UNCHANGED <<rows, hasId, ctxDone, loop, failures>>
      /\ sent[i] = Absent
      /\ Len(chan) < ChanCap
    BY DEF SendCreate
<1>3. /\ chan \in Seq(Cmds)
      /\ chan' \in Seq(Cmds)
      /\ Len(chan') = Len(chan) + 1
      /\ \A k \in 1 .. Len(chan) : chan'[k] = chan[k]
      /\ chan'[Len(chan) + 1] = cmd
    BY <1>1, <1>2, AppendProperties DEF IInv, TypeOK
<1>4. rows[i] = Absent /\ ~hasId[i] /\ \A k \in 1 .. Len(chan) : chan[k].item # i
    BY <1>2 DEF IInv, Unsent, Pending
<1>5. sent' \in [Items -> Status \cup {Absent}]
    BY <1>2 DEF IInv, TypeOK, Status
<1>6. TypeOK'
    <2>1. Len(chan') <= ChanCap
        BY <1>2, <1>3, StoreAssumption
    <2>2. QED
        BY <2>1, <1>2, <1>3, <1>5 DEF IInv, TypeOK
<1>7. Unsent'
    BY <1>2, <1>3 DEF IInv, Unsent, Pending, TypeOK, Absent
<1>8. LastPendingIsSent'
    <2> SUFFICES ASSUME NEW k \in 1 .. Len(chan'),
                        \A k2 \in k + 1 .. Len(chan') :
                            chan'[k2].item # chan'[k].item
                 PROVE  chan'[k].status = sent'[chan'[k].item]
        BY DEF LastPendingIsSent
    <2>1. CASE k = Len(chan) + 1
        BY <2>1, <1>2, <1>3 DEF IInv, TypeOK
    <2>2. CASE k \in 1 .. Len(chan)
        <3>1. chan[k] \in Cmds /\ chan[k].item # i
            BY <2>2, <1>3, <1>4
        <3>2. \A k2 \in k + 1 .. Len(chan) : chan[k2].item # chan[k].item
            BY <2>2, <1>3
        <3>3. chan[k].status = sent[chan[k].item]
            BY <3>2, <2>2 DEF IInv, LastPendingIsSent
        <3>4. QED
            BY <3>1, <3>3, <2>2, <1>2, <1>3 DEF IInv, TypeOK, Cmds
    <2>3. QED
        BY <2>1, <2>2, <1>3
<1>9. CreateFirst'
    <2> SUFFICES ASSUME NEW k \in 1 .. Len(chan'), chan'[k].type = "Create"
                 PROVE  /\ rows'[chan'[k].item] = Absent
                        /\ ~hasId'[chan'[k].item]
                        /\ \A k2 \in 1 .. k - 1 : chan'[k2].item # chan'[k].item
        BY DEF CreateFirst
    <2>1. CASE k = Len(chan) + 1
        BY <2>1, <1>2, <1>3, <1>4
    <2>2. CASE k \in 1 .. Len(chan)
        <3>1. /\ rows[chan[k].item] = Absent
              /\ ~hasId[chan[k].item]
              /\ \A k2 \in 1 .. k - 1 : chan[k2].item # chan[k].item
            BY <2>2, <1>3 DEF IInv, CreateFirst
        <3>2. QED
            BY <3>1, <2>2, <1>2, <1>3
    <2>3. QED
        BY <2>1, <2>2, <1>3
<1>10. UpdateAfterCreate'
    <2> SUFFICES ASSUME NEW k \in 1 .. Len(chan'), chan'[k].type = "Update"
                 PROVE  \/ hasId'[chan'[k].item]
                        \/ \E k2 \in 1 .. k - 1 : chan'[k2].item = chan'[k].item
                                                   /\ chan'[k2].type = "Create"
        BY DEF UpdateAfterCreate
    <2>1. k \in 1 .. Len(chan)
        BY <1>2, <1>3
    <2>2. \/ hasId[chan[k].item]
          \/ \E k2 \in 1 .. k - 1 : chan[k2].item = chan[k].item
                                     /\ chan[k2].type = "Create"
        BY <2>1, <1>3 DEF IInv, UpdateAfterCreate
    <2>3. QED
        BY <2>1, <2>2, <1>2, <1>3
<1>11. SentCreated'
    BY <1>2, <1>3 DEF IInv, SentCreated, TypeOK
<1>12. KeyIffRow' /\ RowTracksProducer'
    BY <1>2, <1>3 DEF IInv, KeyIffRow, RowTracksProducer, TypeOK
<1>13. QED
    BY <1>6, <1>7, <1>8, <1>9, <1>10, <1>11, <1>12 DEF IInv

\* SendUpdate appends the next status of an item already sent.
LEMMA SendUpdateStep ==
    ASSUME IInv, NEW i \in Items, SendUpdate(i)
    PROVE  IInv'
<1> DEFINE cmd == [type |-> "Update", item |-> i, status |-> sent[i] + 1]
<1>1. cmd \in Cmds
    BY DEF SendUpdate, Cmds, Status
<1>2. /\ chan' = Append(chan, cmd)
      /\ sent' = [sent EXCEPT ![i] = @ + 1]
      /\ UNCHANGED <<rows, hasId, ctxDone, loop, failures>>
      /\ sent[i] \in 0 .. 3
      /\ Len(chan) < ChanCap
    BY DEF SendUpdate
<1>3. /\ chan \in Seq(Cmds)
      /\ chan' \in Seq(Cmds)
      /\ Len(chan') = Len(chan) + 1
      /\ \A k \in 1 .. Len(chan) : chan'[k] = chan[k]
      /\ chan'[Len(chan) + 1] = cmd
    BY <1>1, <1>2, AppendProperties DEF IInv, TypeOK
<1>4. sent'[i] = sent[i] + 1 /\ \A j \in Items \ {i} : sent'[j] = sent[j]
    BY <1>2 DEF IInv, TypeOK
<1>5. TypeOK'
    <2>1. sent' \in [Items -> Status \cup {Absent}]
        BY <1>2 DEF IInv, TypeOK, Status
    <2>2. Len(chan') <= ChanCap
        BY <1>2, <1>3, StoreAssumption
    <2>3. QED
        BY <2>1, <2>2, <1>2, <1>3 DEF IInv, TypeOK
<1>6. Unsent'
    BY <1>2, <1>3, <1>4 DEF IInv, Unsent, Pending, TypeOK, Absent
<1>7. LastPendingIsSent'
    <2> SUFFICES ASSUME NEW k \in 1 .. Len(chan'),
                        \A k2 \in k + 1 .. Len(chan') :
                            chan'[k2].item # chan'[k].item
                 PROVE  chan'[k].status = sent'[chan'[k].item]
        BY DEF LastPendingIsSent
    <2>1. CASE k = Len(chan) + 1
        BY <2>1, <1>3, <1>4
    <2>2. CASE k \in 1 .. Len(chan)
        <3>1. chan[k] \in Cmds /\ chan[k].item # i
            BY <2>2, <1>3
        <3>2. \A k2 \in k + 1 .. Len(chan) : chan[k2].item # chan[k].item
            BY <2>2, <1>3
        <3>3. chan[k].status = sent[chan[k].item]
            BY <3>2, <2>2 DEF IInv, LastPendingIsSent
        <3>4. QED
            BY <3>1, <3>3, <2>2, <1>3, <1>4 DEF Cmds
    <2>3. QED
        BY <2>1, <2>2, <1>3
<1>8. CreateFirst'
    BY <1>2, <1>3 DEF IInv, CreateFirst, TypeOK
<1>9. UpdateAfterCreate'
    <2> SUFFICES ASSUME NEW k \in 1 .. Len(chan'), chan'[k].type = "Update"
                 PROVE  \/ hasId'[chan'[k].item]
                        \/ \E k2 \in 1 .. k - 1 : chan'[k2].item = chan'[k].item
                                                   /\ chan'[k2].type = "Create"
        BY DEF UpdateAfterCreate
    <2>1. CASE k = Len(chan) + 1
        <3>1. \/ hasId[i]
              \/ \E k2 \in 1 .. Len(chan) : chan[k2].item = i
                                            /\ chan[k2].type = "Create"
            BY <1>2 DEF IInv, SentCreated, Absent
        <3>2. QED
            BY <3>1, <2>1, <1>2, <1>3
    <2>2. CASE k \in 1 .. Len(chan)
        <3>1. \/ hasId[chan[k].item]
              \/ \E k2 \in 1 .. k - 1 : chan[k2].item = chan[k].item
                                         /\ chan[k2].type = "Create"
            BY <2>2, <1>3 DEF IInv, UpdateAfterCreate
        <3>2. QED
            BY <3>1, <2>2, <1>2, <1>3
    <2>3. QED
        BY <2>1, <2>2, <1>3
<1>10. SentCreated'
    <2> SUFFICES ASSUME NEW j \in Items, sent'[j] # Absent
                 PROVE  hasId'[j] \/ \E k \in 1 .. Len(chan') :
                                        chan'[k].item = j /\ chan'[k].type = "Create"
        BY DEF SentCreated
    <2>1. sent[j] # Absent
        BY <1>2, <1>4 DEF Absent
    <2>2. hasId[j] \/ \E k \in 1 .. Len(chan) :
                           chan[k].item = j /\ chan[k].type = "Create"
        BY <2>1 DEF IInv, SentCreated
    <2>3. QED
        BY <2>2, <1>2, <1>3
<1>11. KeyIffRow' /\ RowTracksProducer'
    BY <1>2, <1>3, <1>4 DEF IInv, KeyIffRow, RowTracksProducer, TypeOK
<1>12. QED
    BY <1>5, <1>6, <1>7, <1>8, <1>9, <1>10, <1>11 DEF IInv

\* Without failures, receiving the head command for item i sets i's key
\* and writes the command's status into i's row alone: a Create inserts
\* it, and an Update finds the key its Create has set.
LEMMA ReceiveEffect ==
    ASSUME IInv, Receive, NoFailures
    PROVE  LET c == Head(chan) IN
           /\ rows' = [rows EXCEPT ![c.item] = c.status]
           /\ hasId' = [hasId EXCEPT ![c.item] = TRUE]
           /\ UNCHANGED failures
<1> DEFINE c == Head(chan)
<1>1. chan # << >> /\ chan \in Seq(Cmds) /\ c = chan[1] /\ c \in Cmds
    BY DEF Receive, IInv, TypeOK
<1>2. failures = 0 /\ ~(failures < MaxFailures)
    BY DEF NoFailures, IInv, TypeOK
<1>3. CASE c.type = "Create"
    <2>1. rows[c.item] = Absent /\ ~hasId[c.item]
        BY <1>1, <1>3 DEF IInv, CreateFirst
    <2>2. Create(c.item, c.status)
        BY <1>3 DEF Receive
    <2>3. QED
        BY <2>2, <1>2 DEF Create
<1>4. CASE c.type # "Create"
    <2>1. c.type = "Update"
        BY <1>1, <1>4 DEF Cmds
    <2>2. hasId[c.item]
        BY <1>1, <2>1 DEF IInv, UpdateAfterCreate
    <2>3. rows[c.item] # Absent /\ rows \in [Items -> Status \cup {Absent}]
          /\ hasId \in [Items -> BOOLEAN]
        BY <2>2, <1>1 DEF IInv, KeyIffRow, TypeOK, Cmds
    <2>4. Update(c.item, c.status) /\ UNCHANGED hasId
        BY <1>4 DEF Receive
    <2>5. rows' = Updates(rows, c.item, c.status) /\ UNCHANGED failures
        BY <2>4, <1>2 DEF Update
    <2>6. Updates(rows, c.item, c.status) = [rows EXCEPT ![c.item] = c.status]
        BY <2>2, <2>3, <1>1 DEF Updates, Cmds
    <2>7. hasId = [hasId EXCEPT ![c.item] = TRUE]
        BY <2>2, <2>3, <1>1 DEF Cmds
    <2>8. QED
        BY <2>4, <2>5, <2>6, <2>7
<1>5. QED
    BY <1>3, <1>4

\* Receive removes the head command and applies it.
LEMMA ReceiveStep ==
    ASSUME IInv, Receive, NoFailures
    PROVE  IInv'
<1> DEFINE c == Head(chan)
           i == c.item
<1>1. /\ chan # << >> /\ chan \in Seq(Cmds) /\ c = chan[1] /\ c \in Cmds
      /\ i \in Items /\ c.status \in Status
    <2>1. chan # << >> /\ chan \in Seq(Cmds)
        BY DEF Receive, IInv, TypeOK
    <2>2. c = chan[1] /\ c \in Cmds
        BY <2>1, HeadTailProperties
    <2>3. QED
        BY <2>1, <2>2 DEF Cmds
<1>2. /\ chan' = Tail(chan)
      /\ UNCHANGED <<sent, ctxDone, loop, failures>>
      /\ rows' = [rows EXCEPT ![i] = c.status]
      /\ hasId' = [hasId EXCEPT ![i] = TRUE]
    BY ReceiveEffect DEF Receive
<1>3. /\ chan' \in Seq(Cmds)
      /\ Len(chan') = Len(chan) - 1
      /\ \A k \in 1 .. Len(chan') : chan'[k] = chan[k + 1]
    BY <1>1, <1>2, HeadTailProperties
<1>3a. /\ Len(chan) \in Nat \ {0}
       /\ \A k \in 1 .. Len(chan) : chan[k] \in Cmds
       /\ \A k \in 2 .. Len(chan) : k - 1 \in 1 .. Len(chan') /\ chan'[k - 1] = chan[k]
    BY <1>1, <1>3
<1>4. /\ rows \in [Items -> Status \cup {Absent}]
      /\ hasId \in [Items -> BOOLEAN]
      /\ sent \in [Items -> Status \cup {Absent}]
    BY DEF IInv, TypeOK
<1>5. \A j \in Items \ {i} : rows'[j] = rows[j] /\ hasId'[j] = hasId[j]
    BY <1>2, <1>4
<1>6. rows'[i] = c.status /\ hasId'[i]
    BY <1>1, <1>2, <1>4
<1>7. sent[i] # Absent
    BY <1>1 DEF IInv, Unsent, Pending
<1>8. TypeOK'
    <2>1. rows' \in [Items -> Status \cup {Absent}] /\ hasId' \in [Items -> BOOLEAN]
        BY <1>1, <1>2, <1>4
    <2>2. Len(chan') <= ChanCap
        BY <1>1, <1>3, StoreAssumption DEF IInv, TypeOK
    <2>3. QED
        BY <2>1, <2>2, <1>2, <1>3, <1>3a DEF IInv, TypeOK
<1>9. Unsent'
    <2> SUFFICES ASSUME NEW j \in Items, sent'[j] = Absent
                 PROVE  rows'[j] = Absent /\ ~hasId'[j] /\ Pending(j)' = {}
        BY DEF Unsent
    <2>1. j # i /\ rows[j] = Absent /\ ~hasId[j] /\ Pending(j) = {}
        BY <1>2, <1>7 DEF IInv, Unsent
    <2>2. \A k \in 1 .. Len(chan) : chan[k].item # j
        BY <2>1 DEF Pending
    <2>3. QED
        BY <2>1, <2>2, <1>3, <1>5 DEF Pending
<1>10. LastPendingIsSent'
    <2> SUFFICES ASSUME NEW k \in 1 .. Len(chan'),
                        \A k2 \in k + 1 .. Len(chan') :
                            chan'[k2].item # chan'[k].item
                 PROVE  chan'[k].status = sent'[chan'[k].item]
        BY DEF LastPendingIsSent
    <2>1. \A k2 \in k + 2 .. Len(chan) : chan[k2].item # chan[k + 1].item
        BY <1>3, <1>3a
    <2>2. QED
        BY <2>1, <1>1, <1>2, <1>3, <1>3a DEF IInv, LastPendingIsSent
<1>11. CreateFirst'
    <2> SUFFICES ASSUME NEW k \in 1 .. Len(chan'), chan'[k].type = "Create"
                 PROVE  /\ rows'[chan'[k].item] = Absent
                        /\ ~hasId'[chan'[k].item]
                        /\ \A k2 \in 1 .. k - 1 : chan'[k2].item # chan'[k].item
        BY DEF CreateFirst
    <2>1. /\ rows[chan[k + 1].item] = Absent
          /\ ~hasId[chan[k + 1].item]
          /\ \A k2 \in 1 .. k : chan[k2].item # chan[k + 1].item
        BY <1>1, <1>3, <1>3a DEF IInv, CreateFirst
    <2>2. chan[k + 1].item \in Items \ {i}
        <3>1. k + 1 \in 1 .. Len(chan) /\ chan[k + 1] \in Cmds
            BY <1>3, <1>3a
        <3>2. chan[k + 1].item \in Items
            BY <3>1 DEF Cmds
        <3>3. QED
            BY <3>2, <2>1, <1>1
    <2>3. chan'[k] = chan[k + 1]
          /\ \A k2 \in 1 .. k - 1 : chan'[k2] = chan[k2 + 1]
        BY <1>3
    <2>4. rows'[chan'[k].item] = Absent /\ ~hasId'[chan'[k].item]
        BY <2>1, <2>2, <2>3, <1>5
    <2>5. \A k2 \in 1 .. k - 1 : chan'[k2].item # chan'[k].item
        BY <2>1, <2>3
    <2>6. QED
        BY <2>4, <2>5
<1>12. UpdateAfterCreate'
    <2> SUFFICES ASSUME NEW k \in 1 .. Len(chan'), chan'[k].type = "Update"
                 PROVE  \/ hasId'[chan'[k].item]
                        \/ \E k2 \in 1 .. k - 1 : chan'[k2].item = chan'[k].item
                                                   /\ chan'[k2].type = "Create"
        BY DEF UpdateAfterCreate
    <2> DEFINE j == chan[k + 1].item
    <2>1. j \in Items
        <3>1. k + 1 \in 1 .. Len(chan) /\ chan[k + 1] \in Cmds
            BY <1>3, <1>3a
        <3>2. QED
            BY <3>1 DEF Cmds
    <2>2. \/ hasId[j]
          \/ \E k2 \in 1 .. k : chan[k2].item = j /\ chan[k2].type = "Create"
        <3>1. k + 1 \in 1 .. Len(chan) /\ chan[k + 1].type = "Update"
            BY <1>3
        <3>2. UpdateAfterCreate
            BY DEF IInv
        <3>3. \/ hasId[chan[k + 1].item]
              \/ \E k2 \in 1 .. (k + 1) - 1 :
                     chan[k2].item = chan[k + 1].item /\ chan[k2].type = "Create"
            BY <3>1, <3>2 DEF UpdateAfterCreate
        <3>4. QED
            BY <3>3
    <2>3. hasId[j] => hasId'[j]
        BY <2>1, <1>5, <1>6
    <2>4. ASSUME NEW k2 \in 1 .. k, chan[k2].item = j, chan[k2].type = "Create"
          PROVE  hasId'[j] \/ \E k3 \in 1 .. k - 1 : chan'[k3].item = j
                                                     /\ chan'[k3].type = "Create"
        <3>1. CASE k2 = 1
            BY <3>1, <2>4, <1>1, <1>6
        <3>2. CASE k2 > 1
            BY <3>2, <2>4, <1>3, <1>3a
        <3>3. QED
            BY <3>1, <3>2
    <2>5. QED
        BY <2>2, <2>3, <2>4, <1>3, <1>3a
<1>13. SentCreated'
    <2> SUFFICES ASSUME NEW j \in Items, sent'[j] # Absent
                 PROVE  hasId'[j] \/ \E k \in 1 .. Len(chan') :
                                        chan'[k].item = j /\ chan'[k].type = "Create"
        BY DEF SentCreated
    <2>1. hasId[j] \/ \E k \in 1 .. Len(chan) :
                           chan[k].item = j /\ chan[k].type = "Create"
        BY <1>2 DEF IInv, SentCreated
    <2>2. hasId[j] => hasId'[j]
        BY <1>5, <1>6
    <2>3. ASSUME NEW k \in 1 .. Len(chan), chan[k].item = j, chan[k].type = "Create"
          PROVE  hasId'[j] \/ \E k3 \in 1 .. Len(chan') :
                                 chan'[k3].item = j /\ chan'[k3].type = "Create"
        <3>1. CASE k = 1
            BY <3>1, <2>3, <1>1, <1>6
        <3>2. CASE k > 1
            BY <3>2, <2>3, <1>3, <1>3a
        <3>3. QED
            BY <3>1, <3>2
    <2>4. QED
        BY <2>1, <2>2, <2>3
<1>14. KeyIffRow'
    BY <1>1, <1>5, <1>6 DEF IInv, KeyIffRow, Status, Absent
<1>15. RowTracksProducer'
    <2> SUFFICES ASSUME NEW j \in Items, sent'[j] # Absent,
                        \A k \in 1 .. Len(chan') : chan'[k].item # j
                 PROVE  rows'[j] = sent'[j]
        BY DEF RowTracksProducer
    <2>1. \A k \in 2 .. Len(chan) : chan[k].item # j
        BY <1>3, <1>3a
    <2>2. CASE j = i
        <3>1. c.status = sent[i]
            BY <2>1, <2>2, <1>1 DEF IInv, LastPendingIsSent
        <3>2. QED
            BY <3>1, <2>2, <1>2, <1>6
    <2>3. CASE j # i
        <3>1. \A k \in 1 .. Len(chan) : chan[k].item # j
            BY <2>1, <2>3, <1>1
        <3>2. QED
            BY <3>1, <2>3, <1>2, <1>5 DEF IInv, RowTracksProducer
    <2>4. QED
        BY <2>2, <2>3
<1>16. QED
    BY <1>8, <1>9, <1>10, <1>11, <1>12, <1>13, <1>14, <1>15 DEF IInv

LEMMA IInvNext ==
    ASSUME NoFailures
    PROVE  IInv /\ [Next]_vars => IInv'
<1> SUFFICES ASSUME IInv, [Next]_vars PROVE IInv'
    OBVIOUS
<1>1. CASE Receive
    BY <1>1, ReceiveStep
<1>2. CASE Done \/ Cancel
    BY <1>2, FlagStep
<1>3. ASSUME NEW i \in Items, SendCreate(i) PROVE IInv'
    BY <1>3, SendCreateStep
<1>4. ASSUME NEW i \in Items, SendUpdate(i) PROVE IInv'
    BY <1>4, SendUpdateStep
<1>5. CASE UNCHANGED vars
    BY <1>5, StutterStep
<1>6. QED
    BY <1>1, <1>2, <1>3, <1>4, <1>5 DEF Next

-----------------------------------------------------------------------------
(* Every row follows its producer (RowTracksProducer, the invariant of the *)
(* run mc_beefy_store) for every set of items and every channel capacity,  *)
(* provided no Begin, INSERT, Commit or UPDATE of writeLoop fails: the     *)
(* one goroutine applies an item's commands in channel order, so each      *)
(* Update finds the primary key its Create set in the shared struct.  With *)
(* a failure the property is false (beefy_store_failed_create).            *)
THEOREM RowTracksProducerHolds ==
    ASSUME NoFailures
    PROVE  Spec => []RowTracksProducer
<1>1. Init => IInv
    BY IInvInit
<1>2. IInv /\ [Next]_vars => IInv'
    BY IInvNext
<1>3. IInv => RowTracksProducer
    BY DEF IInv
<1>4. QED
    BY <1>1, <1>2, <1>3, PTL DEF Spec

-----------------------------------------------------------------------------
(***************************************************************************)
(* Statuses only move forward.  Each command in flight carries a status    *)
(* above its item's row; one item's commands carry increasing statuses in  *)
(* channel order; none is above the last status sent for the item, nor is *)
(* the row (RowStatusIssued).                                              *)
(***************************************************************************)
PendingAbove ==
    \A k \in 1 .. Len(chan) : rows[chan[k].item] < chan[k].status

PendingIncreasing ==
    \A k1, k2 \in 1 .. Len(chan) :
        k1 < k2 /\ chan[k1].item = chan[k2].item => chan[k1].status < chan[k2].status

PendingBelowSent ==
    \A k \in 1 .. Len(chan) : chan[k].status <= sent[chan[k].item]

MInv == IInv /\ PendingAbove /\ PendingIncreasing /\ PendingBelowSent /\ RowStatusIssued

\* The conjuncts MInv adds to IInv.
Forward == PendingAbove /\ PendingIncreasing /\ PendingBelowSent /\ RowStatusIssued

LEMMA MInvInit == Init => MInv
<1> SUFFICES ASSUME Init PROVE MInv
    OBVIOUS
<1>1. IInv
    BY IInvInit
<1>2. Forward
    BY DEF Init, Forward, PendingAbove, PendingIncreasing, PendingBelowSent,
           RowStatusIssued, Absent
<1>3. QED
    BY <1>1, <1>2 DEF MInv, Forward

LEMMA ForwardFrame ==
    ASSUME MInv, UNCHANGED <<chan, rows, sent>>
    PROVE  Forward'
BY DEF MInv, Forward, PendingAbove, PendingIncreasing, PendingBelowSent,
       RowStatusIssued

\* A send appends a command of item i with status sent'[i], the largest
\* status of i so far; the row and the other items are left alone.
LEMMA ForwardSend ==
    ASSUME MInv, NEW i \in Items, NEW cmd \in Cmds,
           cmd.item = i,
           chan' = Append(chan, cmd),
           sent' = [sent EXCEPT ![i] = cmd.status],
           UNCHANGED rows,
           \A k \in 1 .. Len(chan) : chan[k].item = i => chan[k].status < cmd.status,
           rows[i] < cmd.status,
           sent[i] <= cmd.status
    PROVE  Forward'
<1>1. /\ chan \in Seq(Cmds)
      /\ Len(chan) \in Nat
      /\ chan' \in Seq(Cmds)
      /\ Len(chan') = Len(chan) + 1
      /\ \A k \in 1 .. Len(chan) : chan'[k] = chan[k]
      /\ chan'[Len(chan) + 1] = cmd
    BY AppendProperties DEF MInv, IInv, TypeOK
<1>2. /\ sent \in [Items -> Status \cup {Absent}]
      /\ rows \in [Items -> Status \cup {Absent}]
      /\ cmd.status \in Status
    BY DEF MInv, IInv, TypeOK, Cmds
<1>3. /\ sent'[i] = cmd.status
      /\ \A j \in Items \ {i} : sent'[j] = sent[j]
    BY <1>2
<1>4. PendingAbove'
    BY <1>1, <1>2 DEF MInv, PendingAbove, Cmds
<1>5. PendingIncreasing'
    <2> SUFFICES ASSUME NEW k1 \in 1 .. Len(chan'), NEW k2 \in 1 .. Len(chan'),
                        k1 < k2, chan'[k1].item = chan'[k2].item
                 PROVE  chan'[k1].status < chan'[k2].status
        BY DEF PendingIncreasing
    <2>1. CASE k2 = Len(chan) + 1
        BY <2>1, <1>1
    <2>2. CASE k2 \in 1 .. Len(chan)
        BY <2>2, <1>1 DEF MInv, PendingIncreasing
    <2>3. QED
        BY <2>1, <2>2, <1>1
<1>6. PendingBelowSent'
    <2> SUFFICES ASSUME NEW k \in 1 .. Len(chan')
                 PROVE  chan'[k].status <= sent'[chan'[k].item]
        BY DEF PendingBelowSent
    <2>1. CASE k = Len(chan) + 1
        BY <2>1, <1>1, <1>2, <1>3 DEF Status
    <2>2. CASE k \in 1 .. Len(chan)
        <3>1. chan[k] \in Cmds /\ chan[k].status <= sent[chan[k].item]
            BY <2>2, <1>1 DEF MInv, PendingBelowSent
        <3>2. QED
            BY <3>1, <2>2, <1>1, <1>2, <1>3 DEF Cmds, Status, Absent
    <2>3. QED
        BY <2>1, <2>2, <1>1
<1>7. RowStatusIssued'
    BY <1>2, <1>3 DEF MInv, RowStatusIssued, Status, Absent
<1>8. QED
    BY <1>4, <1>5, <1>6, <1>7 DEF Forward

\* Receive writes the head command's status into its item's row, which
\* raises it; the commands behind carry still higher statuses.
LEMMA ForwardReceive ==
    ASSUME MInv, Receive, NoFailures
    PROVE  /\ Forward'
           /\ \A j \in Items : rows'[j] >= rows[j]
<1> DEFINE c == Head(chan)
           i == c.item
<1>1. /\ chan # << >> /\ chan \in Seq(Cmds) /\ c = chan[1] /\ c \in Cmds
      /\ i \in Items /\ c.status \in Status /\ Len(chan) \in Nat \ {0}
    <2>1. chan # << >> /\ chan \in Seq(Cmds)
        BY DEF Receive, MInv, IInv, TypeOK
    <2>2. c = chan[1] /\ c \in Cmds
        BY <2>1, HeadTailProperties
    <2>3. QED
        BY <2>1, <2>2 DEF Cmds
<1>2. /\ chan' = Tail(chan)
      /\ UNCHANGED sent
      /\ rows' = [rows EXCEPT ![i] = c.status]
    BY ReceiveEffect DEF Receive, MInv
<1>3. /\ Len(chan') = Len(chan) - 1
      /\ \A k \in 1 .. Len(chan') : chan'[k] = chan[k + 1]
      /\ \A k \in 1 .. Len(chan) : chan[k] \in Cmds
    BY <1>1, <1>2, HeadTailProperties
<1>4. /\ rows \in [Items -> Status \cup {Absent}]
      /\ sent \in [Items -> Status \cup {Absent}]
    BY DEF MInv, IInv, TypeOK
<1>5. rows'[i] = c.status /\ \A j \in Items \ {i} : rows'[j] = rows[j]
    BY <1>1, <1>2, <1>4
<1>6. rows[i] < c.status /\ c.status <= sent[i]
    BY <1>1 DEF MInv, PendingAbove, PendingBelowSent
<1>7. PendingAbove'
    <2> SUFFICES ASSUME NEW k \in 1 .. Len(chan')
                 PROVE  rows'[chan'[k].item] < chan'[k].status
        BY DEF PendingAbove
    <2>1. k + 1 \in 1 .. Len(chan) /\ chan'[k] = chan[k + 1] /\ chan[k + 1] \in Cmds
        BY <1>1, <1>3
    <2>2. CASE chan[k + 1].item = i
        <3>1. c.status < chan[k + 1].status
            BY <2>1, <2>2, <1>1 DEF MInv, PendingIncreasing
        <3>2. QED
            BY <3>1, <2>1, <2>2, <1>5
    <2>3. CASE chan[k + 1].item # i
        <3>1. rows[chan[k + 1].item] < chan[k + 1].status
            BY <2>1 DEF MInv, PendingAbove
        <3>2. QED
            BY <3>1, <2>1, <2>3, <1>5 DEF Cmds
    <2>4. QED
        BY <2>2, <2>3
<1>8. PendingIncreasing'
    <2> SUFFICES ASSUME NEW k1 \in 1 .. Len(chan'), NEW k2 \in 1 .. Len(chan'),
                        k1 < k2, chan'[k1].item = chan'[k2].item
                 PROVE  chan'[k1].status < chan'[k2].status
        BY DEF PendingIncreasing
    <2>1. /\ k1 + 1 \in 1 .. Len(chan) /\ k2 + 1 \in 1 .. Len(chan)
          /\ chan'[k1] = chan[k1 + 1] /\ chan'[k2] = chan[k2 + 1]
        BY <1>1, <1>3
    <2>2. QED
        BY <2>1 DEF MInv, PendingIncreasing
<1>9. PendingBelowSent'
    <2> SUFFICES ASSUME NEW k \in 1 .. Len(chan')
                 PROVE  chan'[k].status <= sent'[chan'[k].item]
        BY DEF PendingBelowSent
    <2>1. k + 1 \in 1 .. Len(chan) /\ chan'[k] = chan[k + 1]
        BY <1>1, <1>3
    <2>2. QED
        BY <2>1, <1>2 DEF MInv, PendingBelowSent
<1>10. RowStatusIssued'
    BY <1>2, <1>5, <1>6 DEF MInv, RowStatusIssued
<1>11. \A j \in Items : rows'[j] >= rows[j]
    BY <1>1, <1>4, <1>5, <1>6 DEF Status, Absent
<1>12. QED
    BY <1>7, <1>8, <1>9, <1>10, <1>11 DEF Forward

LEMMA MInvNext ==
    ASSUME NoFailures
    PROVE  MInv /\ [Next]_vars => MInv' /\ [\A i \in Items : rows'[i] >= rows[i]]_vars
<1> SUFFICES ASSUME MInv, [Next]_vars
             PROVE  MInv' /\ [\A i \in Items : rows'[i] >= rows[i]]_vars
    OBVIOUS
<1>1. IInv'
    BY IInvNext DEF MInv
<1>2. rows \in [Items -> Status \cup {Absent}]
    BY DEF MInv, IInv, TypeOK
<1>3. CASE Receive
    BY <1>1, <1>3, ForwardReceive DEF MInv, Forward
<1>4. CASE Done \/ Cancel \/ UNCHANGED vars
    <2>1. UNCHANGED <<chan, rows, sent>>
        BY <1>4 DEF Done, Cancel, vars
    <2>2. QED
        BY <1>1, <1>2, <2>1, ForwardFrame DEF MInv, Forward, Status, Absent
<1>5. ASSUME NEW i \in Items, SendCreate(i)
      PROVE  MInv' /\ [\A j \in Items : rows'[j] >= rows[j]]_vars
    <2> DEFINE cmd == [type |-> "Create", item |-> i, status |-> 0]
    <2>1. sent[i] = Absent /\ rows[i] = Absent /\ Pending(i) = {}
        BY <1>5 DEF SendCreate, MInv, IInv, Unsent
    <2>2. Forward'
        <3>1. cmd \in Cmds
            BY DEF Cmds, Status
        <3>2. \A k \in 1 .. Len(chan) : chan[k].item # i
            BY <2>1 DEF Pending
        <3>3. /\ chan' = Append(chan, cmd)
              /\ sent' = [sent EXCEPT ![i] = cmd.status]
              /\ UNCHANGED rows
              /\ \A k \in 1 .. Len(chan) : chan[k].item = i => chan[k].status < cmd.status
              /\ rows[i] < cmd.status
              /\ sent[i] <= cmd.status
            BY <1>5, <2>1, <3>2 DEF SendCreate, Absent
        <3>4. QED
            BY <3>1, <3>3, ForwardSend
    <2>3. UNCHANGED rows
        BY <1>5 DEF SendCreate
    <2>4. QED
        BY <1>1, <1>2, <2>2, <2>3 DEF MInv, Forward, Status, Absent
<1>6. ASSUME NEW i \in Items, SendUpdate(i)
      PROVE  MInv' /\ [\A j \in Items : rows'[j] >= rows[j]]_vars
    <2> DEFINE cmd == [type |-> "Update", item |-> i, status |-> sent[i] + 1]
    <2>1. sent[i] \in 0 .. 3 /\ cmd \in Cmds
        BY <1>6 DEF SendUpdate, Cmds, Status
    <2>2. rows[i] <= sent[i]
        BY DEF MInv, RowStatusIssued
    <2>3. \A k \in 1 .. Len(chan) : chan[k].item = i => chan[k].status <= sent[i]
        BY DEF MInv, PendingBelowSent
    <2>4. /\ chan' = Append(chan, cmd)
          /\ sent' = [sent EXCEPT ![i] = cmd.status]
          /\ UNCHANGED rows
          /\ \A k \in 1 .. Len(chan) : chan[k].item = i => chan[k].status < cmd.status
          /\ rows[i] < cmd.status
          /\ sent[i] <= cmd.status
        <3>1. /\ chan \in Seq(Cmds)
              /\ rows \in [Items -> Status \cup {Absent}]
            BY DEF MInv, IInv, TypeOK
        <3>2. \A k \in 1 .. Len(chan) : chan[k].status \in Int
            <4> SUFFICES ASSUME NEW k \in 1 .. Len(chan) PROVE chan[k].status \in Int
                OBVIOUS
            <4>1. chan[k] \in Cmds
                BY <3>1
            <4>2. QED
                BY <4>1 DEF Cmds, Status
        <3>3. QED
            BY <1>6, <2>1, <2>2, <2>3, <3>1, <3>2 DEF SendUpdate, Status, Absent
    <2>5. Forward'
        BY <2>1, <2>4, ForwardSend
    <2>6. QED
        BY <1>1, <1>2, <2>4, <2>5 DEF MInv, Forward, Status, Absent
<1>7. QED
    BY <1>3, <1>4, <1>5, <1>6 DEF Next

(* No BEEFY item's status ever goes back (StatusNeverRegresses, checked by *)
(* the run mc_beefy_store), for every set of items and channel capacity,   *)
(* when no database call fails: writeLoop applies an item's commands in    *)
(* the order they were sent, each above the row, and an Update's WHERE     *)
(* clause on the item's key keeps it off the other items' rows.            *)
THEOREM StatusNeverRegressesHolds ==
    ASSUME NoFailures
    PROVE  Spec => StatusNeverRegresses
<1>1. Init => MInv
    BY MInvInit
<1>2. MInv /\ [Next]_vars => MInv'
    BY MInvNext
<1>3. MInv /\ [Next]_vars => [\A i \in Items : rows'[i] >= rows[i]]_vars
    BY MInvNext
<1>4. QED
    BY <1>1, <1>2, <1>3, PTL DEF Spec, StatusNeverRegresses

=============================================================================
