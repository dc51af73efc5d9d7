----------------------------- MODULE LedgerChain -----------------------------
(***************************************************************************)
(* The hash chain of the extract (crates/core/src/ledger.rs, retention.rs).*)
(*                                                                         *)
(* Every event is a row that names the row before it.  The file also keeps *)
(* the anchor (the hash the first surviving row must follow), the head     *)
(* (the hash of the last row appended), how many rows were ever appended   *)
(* and a schema mark saying whether this file keeps a head at all.         *)
(* `check` walks the rows from the anchor and then looks for the head.     *)
(*                                                                         *)
(* A hash is a number: the genesis is 0 and each row gets the next one, so *)
(* no two rows share a hash.  Row ids, the fields of an event and the      *)
(* place a fault is reported at are left out.                              *)
(*                                                                         *)
(* Besides the program there is a world that spoils the file: rows vanish  *)
(* from its end, the head or its count is deleted from `settings`, a field *)
(* of a row changes.  Damage says which of these happen in an instance.    *)
(* A 1.0.1 program may write to the same file, and a detail limit prunes.  *)
(***************************************************************************)
EXTENDS Naturals, Sequences

CONSTANTS
    None,          \* a setting that is absent (or, for the count, unreadable)
    MaxAppends,    \* bound: rows appended in a behaviour
    Damage         \* which damage the world does

ASSUME ChainAssumption ==
    /\ None \notin Nat
    /\ MaxAppends \in Nat
    /\ Damage \subseteq {"rows", "head", "count", "field"}

VARIABLES
    rows,      \* the table `events`, oldest first
    anchor,    \* settings.chain_anchor
    head,      \* settings.chain_head
    count,     \* settings.chain_head_count
    pruned,    \* settings.chain_pruned_events
    schema,    \* PRAGMA user_version
    next,      \* the hash the next row will have
    \* What really happened since the last wipe, which the file cannot know:
    gone,      \* recorded ends of the chain whose row vanished
    vanished,  \* how many rows vanished
    harm       \* the kinds of damage done; "old": a 1.0.1 program, which keeps
               \* no head, wrote too; "past": its rows were kept and the head pruned

file == <<rows, anchor, head, count, pruned, schema>>
past == <<gone, vanished, harm>>
vars == <<rows, anchor, head, count, pruned, schema, next, gone, vanished, harm>>

Genesis == 0
Hash == Nat
Row == [prev : Hash, hash : Hash, sound : BOOLEAN]

NoHead == 0        \* a file written before 1.0.2
SchemaHead == 1    \* SCHEMA_HEAD
HeadLost == 2      \* SCHEMA_HEAD_LOST

-----------------------------------------------------------------------------
\* Where the table says the chain ends.
TableEnd == IF rows = <<>> THEN anchor ELSE rows[Len(rows)].hash

\* Mutants of InChain: the head is only looked for at the end, or only among
\* the rows.
InChainAtEnd(h) == h = TableEnd
InChainRows(h) == \E i \in DOMAIN rows : rows[i].hash = h

\* The recorded end is the anchor or a surviving row.
InChain(h) == h = anchor \/ \E i \in DOMAIN rows : rows[i].hash = h

\* The hash row i has to follow.
Follows(i) == IF i = 1 THEN anchor ELSE rows[i - 1].hash

Bad(i) == rows[i].prev # Follows(i) \/ ~rows[i].sound

\* What `check` reports: the walk first, then the record of the end.
Check ==
    IF \E i \in DOMAIN rows : Bad(i) THEN "bad_row"
    ELSE IF schema = HeadLost \/ (schema = SchemaHead /\ head = None) THEN "head_missing"
    ELSE IF head # None /\ ~InChain(head) THEN "truncated"
    ELSE "ok"

\* The number of missing rows a truncation is reported with (saturating_sub).
Missing == IF count > pruned + Len(rows) THEN count - (pruned + Len(rows)) ELSE 0

-----------------------------------------------------------------------------
\* A new file starts with its head at the anchor; one from 1.0.1 has neither
\* head nor count.
Init ==
    /\ rows = <<>>
    /\ anchor = Genesis
    /\ pruned = 0
    /\ next = 1
    /\ \/ head = Genesis /\ count = 0 /\ schema = SchemaHead
       \/ head = None /\ count = None /\ schema = NoHead
    /\ gone = {} /\ vanished = 0 /\ harm = {}

NewRow(prev) == [prev |-> prev, hash |-> next, sound |-> TRUE]

\* The last append's end is still where the table ends.
HeadAtEnd == count # None /\ head = TableEnd
\* Mutant of HeadGone: every append adopts what survived.
HeadNeverGone == FALSE

\* The last append's end is not in the table any more.
HeadGone == head # None /\ count # None /\ ~InChain(head)

\* Mutant of NewCount: the rows are always counted again.
NewCountRecount == pruned + Len(rows) + 1

\* The count goes on from the last one, or starts from what is there.
NewCount == IF HeadAtEnd \/ HeadGone THEN count + 1 ELSE pruned + Len(rows) + 1

\* A file from 1.0.1 gains its head; a file that kept one and has none is
\* marked until the wipe.
NewSchema ==
    IF schema = NoHead THEN SchemaHead
    ELSE IF schema = SchemaHead /\ head = None THEN HeadLost ELSE schema

\* Ledger::append, one immediate transaction.
AppendRow ==
    /\ next <= MaxAppends
    /\ rows' = Append(rows, NewRow(IF HeadGone THEN head ELSE TableEnd))
    /\ head' = next
    /\ count' = NewCount
    /\ schema' = NewSchema
    /\ next' = next + 1
    /\ UNCHANGED <<anchor, pruned, past>>

\* Ledger::append as 1.0.1 had it: from the table's end, no head kept.
OldAppend ==
    /\ next <= MaxAppends
    /\ rows' = Append(rows, NewRow(TableEnd))
    /\ next' = next + 1
    /\ harm' = harm \cup {"old"}
    /\ UNCHANGED <<anchor, head, count, pruned, schema, gone, vanished>>

\* Mutant of PrunedAfter: the pruned rows are taken off the total.
PrunedAfterMinus(k) == pruned - k

PrunedAfter(k) == pruned + k

\* Ledger::prune: the rows up to the newest one past the limit go, and the
\* anchor moves to the last of them.  A break among them goes with them.
Prune(k) ==
    /\ anchor' = rows[k].hash
    /\ rows' = SubSeq(rows, k + 1, Len(rows))
    /\ pruned' = PrunedAfter(k)
    /\ gone' = {g \in gone : \A i \in 1..k : rows[i].prev \in gone => g > rows[i].prev}
    /\ harm' = harm \cup {x \in {"past"} : \/ head = anchor
                                          \/ \E i \in 1 .. k - 1 : rows[i].hash = head}
    /\ UNCHANGED <<head, count, schema, next, vanished>>

\* Ledger::wipe.
Wipe ==
    /\ rows' = <<>>
    /\ anchor' = Genesis
    /\ pruned' = 0
    /\ head' = Genesis
    /\ count' = 0
    /\ schema' = SchemaHead
    /\ gone' = {} /\ vanished' = 0 /\ harm' = {}
    /\ UNCHANGED next

-----------------------------------------------------------------------------
\* The newest k rows vanish (a partial copy put back, a DELETE).
LoseRows(k) ==
    /\ "rows" \in Damage
    /\ rows' = SubSeq(rows, 1, Len(rows) - k)
    /\ gone' = gone \cup {h \in {head} : \E i \in DOMAIN rows :
                                            i > Len(rows) - k /\ rows[i].hash = h}
    /\ vanished' = vanished + k
    /\ harm' = harm \cup {"rows"}
    /\ UNCHANGED <<anchor, head, count, pruned, schema, next>>

\* The head is deleted from a file that kept one, with its count or without.
LoseHead ==
    /\ "head" \in Damage
    /\ head # None
    /\ head' = None
    /\ count' \in {count, None}
    /\ harm' = harm \cup {"head"}
    /\ UNCHANGED <<rows, anchor, pruned, schema, next, gone, vanished>>

\* The count alone cannot be read.
LoseCount ==
    /\ "count" \in Damage
    /\ count # None
    /\ count' = None
    /\ harm' = harm \cup {"count"}
    /\ UNCHANGED <<rows, anchor, head, pruned, schema, next, gone, vanished>>

\* A field of a stored row changes, its hash does not.
AlterField(i) ==
    /\ "field" \in Damage
    /\ rows[i].sound
    /\ rows' = [rows EXCEPT ![i].sound = FALSE]
    /\ harm' = harm \cup {"field"}
    /\ UNCHANGED <<anchor, head, count, pruned, schema, next, gone, vanished>>

Next ==
    \/ AppendRow
    \/ OldAppend
    \/ \E k \in DOMAIN rows : Prune(k)
    \/ Wipe
    \/ \E k \in DOMAIN rows : LoseRows(k)
    \/ LoseHead
    \/ LoseCount
    \/ \E i \in DOMAIN rows : AlterField(i)

Spec == Init /\ [][Next]_vars

-----------------------------------------------------------------------------
\* The table, the settings and what happened to them keep their types.
TypeOK ==
    /\ rows \in Seq(Row)
    /\ anchor \in Hash
    /\ head \in Hash \cup {None}
    /\ count \in Nat \cup {None}
    /\ pruned \in Nat
    /\ schema \in {NoHead, SchemaHead, HeadLost}
    /\ next \in Nat
    /\ gone \subseteq Hash
    /\ vanished \in Nat
    /\ harm \subseteq Damage \cup {"old", "past"}

\* A file nobody spoiled verifies: whatever was appended, pruned or wiped, by
\* this version or by one that keeps no head, `check` accuses nobody, unless
\* rows of the latter stay after a prune took the head.  Losing the count alone
\* is not an accusation either (it is counted again).
NoFalseAlarm ==
    harm \subseteq {"count", "old"} \/ harm \subseteq {"count", "past"} => Check = "ok"

\* While the count is readable, once the row at the recorded end vanished no
\* later append makes the file verify again: the gap shows until a wipe, or
\* until it is pruned.
LossStaysVisible == "count" \notin harm /\ gone # {} => Check # "ok"

\* Once a file that kept a head lost it, it never verifies again before a wipe,
\* not even when every row of that time has been pruned.
HeadLossStays == "head" \in harm => Check # "ok"

\* A reported truncation tells exactly how many rows vanished since the wipe,
\* while only programs that keep the count write.
TruncationCounted ==
    harm \cap {"count", "old"} = {} /\ Check = "truncated" /\ count # None
        => Missing = vanished

=============================================================================
