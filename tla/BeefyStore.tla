----------------------------- MODULE BeefyStore -----------------------------
(***************************************************************************)
(* The BEEFY item database of store/store.go: one goroutine (writeLoop)    *)
(* takes Create and Update commands from a channel and applies them with   *)
(* gorm, logging every database error and carrying on.                     *)
(*                                                                         *)
(* A command refers to a *BeefyItem shared with its sender. Create's       *)
(* INSERT sets the item's primary key in that struct; an Update is         *)
(* DB.Model(item).Updates(...), whose WHERE clause is the primary key when *)
(* it is set and is empty, so every row is updated, when it is zero.       *)
(* The senders (the BEEFY relayer) are not in src/: the model's producer   *)
(* creates each item with status CommitmentWitnessed and then moves it     *)
(* through the statuses of the Status enumeration, one Update each.        *)
(***************************************************************************)
EXTENDS Integers, Sequences

CONSTANTS
    Items,        \* the BEEFY items the producer writes
    ChanCap,      \* capacity of the command channel
    MaxFailures   \* how many database calls may fail

ASSUME StoreAssumption == ChanCap \in Nat \ {0} /\ MaxFailures \in Nat

\* Status: CommitmentWitnessed (0) .. CompleteVerificationTxSent (4).
Status == 0..4
\* A row that does not exist.
Absent == -1

Cmds == [type : {"Create", "Update"}, item : Items, status : Status]

VARIABLES
    chan,      \* the commands sent and not yet received
    rows,      \* the status column of each item's row, or Absent
    hasId,     \* the item struct's primary key has been set by an INSERT
    sent,      \* the last status the producer sent for each item, or Absent
    ctxDone,   \* the writeLoop's context is cancelled
    loop,      \* "run", or "done" once writeLoop has returned
    failures   \* database calls that have failed

vars == <<chan, rows, hasId, sent, ctxDone, loop, failures>>

TypeOK ==
    /\ chan \in Seq(Cmds) /\ Len(chan) <= ChanCap
    /\ rows \in [Items -> Status \cup {Absent}]
    /\ hasId \in [Items -> BOOLEAN]
    /\ sent \in [Items -> Status \cup {Absent}]
    /\ ctxDone \in BOOLEAN
    /\ loop \in {"run", "done"}
    /\ failures \in 0..MaxFailures

(* Mutant of Updates: the WHERE clause on the primary key is lost.         *)
MutantUpdates(r, i, s) == [j \in Items |-> IF r[j] = Absent THEN Absent ELSE s]

(* Updates(instructions) on Model(item): with the primary key set, the     *)
(* UPDATE touches that item's row, if there is one; with it zero, there is *)
(* no WHERE clause and every row gets the new status.                      *)
Updates(r, i, s) ==
    IF hasId[i]
    THEN [r EXCEPT ![i] = IF @ = Absent THEN Absent ELSE s]
    ELSE [j \in Items |-> IF r[j] = Absent THEN Absent ELSE s]

(* Mutant of Create: the transaction is never committed.                   *)
MutantCreate(i, s) ==
    /\ hasId' = [hasId EXCEPT ![i] = TRUE]
    /\ UNCHANGED <<rows, failures>>

(* case Create: Begin, Create, Rollback on error, then Commit. A failure   *)
(* of Begin or of the INSERT leaves no row and no primary key; a failed    *)
(* Commit after the INSERT leaves no row but the key set in the struct.    *)
(* Each error is only logged.                                              *)
Create(i, s) ==
    \/ /\ rows' = [rows EXCEPT ![i] = s]
       /\ hasId' = [hasId EXCEPT ![i] = TRUE]
       /\ UNCHANGED failures
    \/ /\ failures < MaxFailures
       /\ failures' = failures + 1
       /\ \E keySet \in BOOLEAN : hasId' = [hasId EXCEPT ![i] = keySet]
       /\ UNCHANGED rows

(* case Update: the error of Updates is not even looked at.               *)
Update(i, s) ==
    \/ /\ rows' = Updates(rows, i, s)
       /\ UNCHANGED failures
    \/ /\ failures < MaxFailures
       /\ failures' = failures + 1
       /\ UNCHANGED rows

Init ==
    /\ chan = << >>
    /\ rows = [i \in Items |-> Absent]
    /\ hasId = [i \in Items |-> FALSE]
    /\ sent = [i \in Items |-> Absent]
    /\ ctxDone = FALSE
    /\ loop = "run"
    /\ failures = 0

(* writeLoop receives the next command and applies it, under a mutex that  *)
(* no other goroutine takes.                                               *)
Receive ==
    /\ loop = "run"
    /\ chan # << >>
    /\ LET cmd == Head(chan) IN
          IF cmd.type = "Create"
          THEN Create(cmd.item, cmd.status)
          ELSE Update(cmd.item, cmd.status) /\ UNCHANGED hasId
    /\ chan' = Tail(chan)
    /\ UNCHANGED <<sent, ctxDone, loop>>

(* writeLoop sees its context done and returns ctx.Err() (onDone); the     *)
(* commands still in the channel are never applied.                        *)
Done ==
    /\ loop = "run"
    /\ ctxDone
    /\ loop' = "done"
    /\ UNCHANGED <<chan, rows, hasId, sent, ctxDone, failures>>

(* The producer sends Create for a new item, then an Update to the next    *)
(* status for each step of the item's verification.                        *)
SendCreate(i) ==
    /\ sent[i] = Absent
    /\ Len(chan) < ChanCap
    /\ chan' = Append(chan, [type |-> "Create", item |-> i, status |-> 0])
    /\ sent' = [sent EXCEPT ![i] = 0]
    /\ UNCHANGED <<rows, hasId, ctxDone, loop, failures>>

SendUpdate(i) ==
    /\ sent[i] \in 0..3
    /\ Len(chan) < ChanCap
    /\ chan' = Append(chan, [type |-> "Update", item |-> i, status |-> sent[i] + 1])
    /\ sent' = [sent EXCEPT ![i] = @ + 1]
    /\ UNCHANGED <<rows, hasId, ctxDone, loop, failures>>

(* The errgroup's context is cancelled (shutdown or another worker's       *)
(* error).                                                                 *)
Cancel ==
    /\ ~ctxDone
    /\ ctxDone' = TRUE
    /\ UNCHANGED <<chan, rows, hasId, sent, loop, failures>>

Next ==
    \/ Receive \/ Done \/ Cancel
    \/ \E i \in Items : SendCreate(i) \/ SendUpdate(i)

Spec == Init /\ [][Next]_vars

-----------------------------------------------------------------------------
(* Every row holds the status its producer last had applied: once the      *)
(* channel holds no command for an item, a created item's row carries the  *)
(* last status sent for it. Commands are applied in the order sent, and    *)
(* an Update reaches the row its Create inserted.                          *)
RowTracksProducer ==
    \A i \in Items :
        (sent[i] # Absent /\ \A k \in 1..Len(chan) : chan[k].item # i)
            => rows[i] = sent[i]

(* A BEEFY item's row never moves back to an earlier status: writeLoop     *)
(* applies one item's commands in the order sent, and an Update reaches    *)
(* only the row of its own item.                                           *)
StatusNeverRegresses == [][\A i \in Items : rows'[i] >= rows[i]]_vars

(* An item's row only ever carries a status that was sent for that item:  *)
(* an Update for one BEEFY item never changes the row of another.          *)
RowStatusIssued == \A i \in Items : rows[i] <= sent[i]

=============================================================================
