---------------------------- MODULE EngineRecord ----------------------------
(***************************************************************************)
(* From the answer of a query to its row in the extract (crates/cli/src/   *)
(* engine.rs).                                                             *)
(*                                                                         *)
(* `decide` leaves each query in a table until `record` picks it up.  Where *)
(* the system tells which program asked (Windows), the queries of this     *)
(* computer wait about a second in a queue, and a task of its own (the     *)
(* vaciador) takes the old ones out and writes them; the others are        *)
(* written at once.  Closing empties the queue, and `Borrar todo` empties  *)
(* the extract meanwhile.                                                  *)
(*                                                                         *)
(* A row is the query it stands for.  How long a query has waited is left  *)
(* out: any front of the queue may be old enough.  Every query has a key   *)
(* of its own in the table (address, port, name, type, millisecond).       *)
(* Handlers still waiting when the resolver closes end with it.            *)
(***************************************************************************)
EXTENDS Naturals, Sequences, FiniteSets, Functions

CONSTANTS
    Queries,     \* the queries of a history
    Others,      \* those of them that another device of the house asks
    Programs,    \* TRUE: the system tells which program asked
    PendingCap,  \* 10_000: the table is emptied beyond it
    QueueCap,    \* 10_000: a query that finds the queue full does not wait
    Faults       \* TRUE: the extract may not open, refuse a row, or the process die

ASSUME EngineRecordAssumption ==
    /\ Others \subseteq Queries
    /\ {Programs, Faults} \subseteq BOOLEAN
    /\ PendingCap \in Nat /\ QueueCap \in Nat

VARIABLES
    stage,    \* of each query: see Stages
    pending,  \* the table of decided queries
    queue,    \* cola_apps
    taken,    \* listos: out of the queue, not written yet
    opened,   \* the vaciador has its connection
    extract,  \* the rows, oldest first
    phase,    \* "up", "closing", "closed" (the resolver is gone), "draining", "down"
    entered,  \* history: the queries that waited in the queue, in that order
    hurt,     \* history: the queries that waited when something failed
    erased    \* history: answered before the last `Borrar todo`

vars == <<stage, pending, queue, taken, opened, extract, phase, entered, hurt, erased>>

Stages == {"none",      \* not asked yet
           "decided",   \* waiting for its answer
           "answered",  \* recorded
           "missed",    \* answered, and not in the table any more
           "cut short"} \* its pass ended before its answer

Waiting == Range(queue) \cup Range(taken)

Init ==
    /\ stage = [q \in Queries |-> "none"]
    /\ pending = {} /\ queue = <<>> /\ taken = <<>> /\ opened = FALSE
    /\ extract = <<>> /\ phase = "down"
    /\ entered = <<>> /\ hurt = {} /\ erased = {}

-----------------------------------------------------------------------------
\* A pass begins with a policy of its own: its table and its queue are new.
Start ==
    /\ phase = "down"
    /\ phase' = "up"
    /\ pending' = {} /\ queue' = <<>> /\ taken' = <<>> /\ opened' = FALSE
    /\ UNCHANGED <<stage, extract, entered, hurt, erased>>

\* decide: the query goes into the table, and beyond the cap all of them leave.
Decide(q) ==
    /\ phase \in {"up", "closing"} /\ stage[q] = "none"
    /\ stage' = [stage EXCEPT ![q] = "decided"]
    /\ pending' = IF Cardinality(pending \cup {q}) > PendingCap THEN {} ELSE pending \cup {q}
    /\ UNCHANGED <<queue, taken, opened, extract, phase, entered, hurt, erased>>

\* Mutant of Room: one more.
RoomForOne == Len(queue) <= QueueCap

Room == Len(queue) < QueueCap

\* record, of a query that is not in the table.
Miss(q) ==
    /\ phase \in {"up", "closing"} /\ stage[q] = "decided" /\ q \notin pending
    /\ stage' = [stage EXCEPT ![q] = "missed"]
    /\ UNCHANGED <<pending, queue, taken, opened, extract, phase, entered, hurt, erased>>

Answer(q) ==
    /\ phase \in {"up", "closing"} /\ stage[q] = "decided" /\ q \in pending
    /\ stage' = [stage EXCEPT ![q] = "answered"]
    /\ pending' = pending \ {q}
    /\ UNCHANGED <<taken, opened, phase, erased>>

\* record: a query of this computer waits in the queue for its program.
Enqueue(q) ==
    /\ Programs /\ q \notin Others /\ Room
    /\ Answer(q)
    /\ queue' = Append(queue, q) /\ entered' = Append(entered, q)
    /\ UNCHANGED <<extract, hurt>>

\* record: any other, or one that finds the queue full, is written at once.
WriteNow(q) ==
    /\ ~(Programs /\ q \notin Others /\ Room)
    /\ Answer(q)
    /\ \/ extract' = Append(extract, q) /\ UNCHANGED hurt
       \/ Faults /\ hurt' = hurt \cup {q} /\ UNCHANGED extract
    /\ UNCHANGED <<queue, entered>>

-----------------------------------------------------------------------------
\* Mutant of Oldest: from the other end.
Newest(n) == SubSeq(queue, Len(queue) - n + 1, Len(queue))

\* What a tick takes: from the front, while it is old enough.
Oldest(n) == SubSeq(queue, 1, n)

\* Mutant of QueueAfter: looked at and not taken out.
QueueKept(n) == queue

QueueAfter(n) == SubSeq(queue, n + 1, Len(queue))

\* A tick of the vaciador.  The rows are out of the queue before its connection
\* is opened: if it does not open, they are gone.
Take ==
    /\ phase \in {"up", "closing", "closed"} /\ taken = <<>>
    /\ \E n \in 1 .. Len(queue) :
          /\ queue' = QueueAfter(n)
          /\ \/ taken' = Oldest(n) /\ opened' = TRUE /\ UNCHANGED hurt
             \/ /\ Faults /\ ~opened
                /\ hurt' = hurt \cup Range(Oldest(n))
                /\ UNCHANGED <<taken, opened>>
    /\ UNCHANGED <<stage, pending, extract, phase, entered, erased>>

\* One row of those taken.  A row the extract refuses is said and left.
WriteTaken ==
    /\ taken # <<>>
    /\ taken' = Tail(taken)
    /\ \/ extract' = Append(extract, Head(taken)) /\ UNCHANGED hurt
       \/ Faults /\ hurt' = hurt \cup {Head(taken)} /\ UNCHANGED extract
    /\ UNCHANGED <<stage, pending, queue, opened, phase, entered, erased>>

-----------------------------------------------------------------------------
\* Asked to stop, or to be rebuilt: the panel closes first.
Close ==
    /\ phase = "up" /\ phase' = "closing"
    /\ UNCHANGED <<stage, pending, queue, taken, opened, extract, entered, hurt, erased>>

\* The resolver is gone, and the queries that had no answer yet with it.
ResolverGone ==
    /\ phase = "closing" /\ phase' = "closed"
    /\ stage' = [q \in Queries |-> IF stage[q] = "decided" THEN "cut short" ELSE stage[q]]
    /\ UNCHANGED <<pending, queue, taken, opened, extract, entered, hurt, erased>>

\* Mutant of VaciadorGone: nobody waits for it.
VaciadorLeft == TRUE

\* It is aborted and waited for, and it stops only between ticks.
VaciadorGone == taken = <<>>

\* What is left in the queue is taken to be written without its program.
Drain ==
    /\ phase = "closed" /\ VaciadorGone
    /\ phase' = "draining" /\ queue' = <<>>
    /\ \/ taken' = queue /\ UNCHANGED hurt
       \/ Faults /\ hurt' = hurt \cup Range(queue) /\ UNCHANGED taken
    /\ UNCHANGED <<stage, pending, opened, extract, entered, erased>>

\* The pass ends.
Down ==
    /\ phase = "draining" /\ taken = <<>>
    /\ phase' = "down"
    /\ UNCHANGED <<stage, pending, queue, taken, opened, extract, entered, hurt, erased>>

\* The process dies.
Crash ==
    /\ Faults /\ phase # "down"
    /\ phase' = "down"
    /\ queue' = <<>> /\ taken' = <<>>
    /\ hurt' = hurt \cup Waiting
    /\ stage' = [q \in Queries |-> IF stage[q] = "decided" THEN "cut short" ELSE stage[q]]
    /\ UNCHANGED <<pending, opened, extract, entered, erased>>

\* Borrar todo, from the panel.
Wipe ==
    /\ phase = "up"
    /\ extract' = <<>>
    /\ erased' = {q \in Queries : stage[q] = "answered"}
    /\ UNCHANGED <<stage, pending, queue, taken, opened, phase, entered, hurt>>

Next ==
    \/ Start \/ Close \/ ResolverGone \/ Drain \/ Down \/ Crash \/ Wipe
    \/ Take \/ WriteTaken
    \/ \E q \in Queries : Decide(q) \/ Miss(q) \/ Enqueue(q) \/ WriteNow(q)

\* The vaciador ticks four times a second, and a close goes on to its end.
Fairness ==
    /\ WF_vars(Take) /\ WF_vars(WriteTaken)
    /\ WF_vars(ResolverGone) /\ WF_vars(Drain) /\ WF_vars(Down)

Spec == Init /\ [][Next]_vars /\ Fairness

-----------------------------------------------------------------------------
\* Every place holds queries, and the queue and what is taken from it stay
\* within the queue's cap.
TypeOK ==
    /\ stage \in [Queries -> Stages]
    /\ pending \subseteq Queries
    /\ queue \in Seq(Queries) /\ Len(queue) <= QueueCap
    /\ taken \in Seq(Queries) /\ Len(taken) <= QueueCap
    /\ opened \in BOOLEAN
    /\ extract \in Seq(Queries) /\ entered \in Seq(Queries)
    /\ phase \in {"up", "closing", "closed", "draining", "down"}
    /\ hurt \subseteq Queries /\ erased \subseteq Queries

\* Without a failure a recorded query is in the extract or on its way there,
\* however the pass ends ("una consulta sin anotar seria una consulta perdida").
NothingLost ==
    \A q \in Queries :
        stage[q] = "answered" /\ q \notin hurt \cup erased => q \in Range(extract) \cup Waiting

\* "No row is written twice or half": whatever closes, crashes or is taken.
NeverTwice ==
    \A i, j \in DOMAIN extract : i # j => extract[i] # extract[j]

Before(s, p, q) ==
    \E i, j \in DOMAIN s : i < j /\ s[i] = p /\ s[j] = q

\* The queries that wait are written in the order in which they came.
WaitInOrder ==
    \A p, q \in Range(entered) : Before(extract, p, q) => Before(entered, p, q)

\* A query that waits is written in the end, also when the pass closes on it.
WaitEnds ==
    \A q \in Queries :
        q \in Waiting ~> (q \in Range(extract) \cup hurt \/ q \in erased)

\* To the reader of the extract, the table, the queue, what the vaciador holds
\* and the phases of a pass are one line written from its front.
Promise == INSTANCE ExtractPromise WITH
    line <- taken \o queue,
    said <- {q \in Queries : stage[q] = "answered"}

\* Every step of the pass is a step of what recording promises, or changes
\* nothing of it: no row twice, none out of its turn, none from nowhere.
KeepsThePromise == Promise!Spec

=============================================================================
