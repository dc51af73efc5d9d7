--------------------------- MODULE ExtractPromise ---------------------------
(***************************************************************************)
(* What recording promises of the extract, whoever writes the rows and     *)
(* however they wait (the comments of crates/cli/src/engine.rs, `record`   *)
(* and the vaciador): an answered query is written once or waits in line,  *)
(* the line is written from its front, and a failure only takes from the   *)
(* front.  EngineRecord implements this.                                   *)
(***************************************************************************)
EXTENDS Sequences, Naturals, Functions

CONSTANT Queries

VARIABLES
    line,     \* answered, and still to be written
    extract,  \* the rows
    said,     \* the queries that were answered
    entered   \* history: those that ever stood in line, in that order

vars == <<line, extract, said, entered>>

Init == line = <<>> /\ extract = <<>> /\ said = {} /\ entered = <<>>

Answered(q) == q \notin said /\ said' = said \cup {q}

StandInLine(q) ==
    /\ Answered(q)
    /\ line' = Append(line, q) /\ entered' = Append(entered, q)
    /\ UNCHANGED extract

\* At once, or never: the extract may refuse the row.
WriteAtOnce(q) ==
    /\ Answered(q)
    /\ extract' \in {Append(extract, q), extract}
    /\ UNCHANGED <<line, entered>>

WriteFirst ==
    /\ line # <<>>
    /\ extract' = Append(extract, Head(line)) /\ line' = Tail(line)
    /\ UNCHANGED <<said, entered>>

LoseFront ==
    /\ \E n \in 1 .. Len(line) : line' = SubSeq(line, n + 1, Len(line))
    /\ UNCHANGED <<extract, said, entered>>

Erase == extract' = <<>> /\ UNCHANGED <<line, said, entered>>

Next ==
    \/ \E q \in Queries : StandInLine(q) \/ WriteAtOnce(q)
    \/ WriteFirst \/ LoseFront \/ Erase

Spec == Init /\ [][Next]_vars

-----------------------------------------------------------------------------
Before(s, p, q) ==
    \E i, j \in DOMAIN s : i < j /\ s[i] = p /\ s[j] = q

\* What follows from the promise: no query has two rows, and those that stood
\* in line are in the extract in the order of the line.
RowsOnce == \A i, j \in DOMAIN extract : i # j => extract[i] # extract[j]
RowsInTurn == \A p, q \in Range(entered) : Before(extract, p, q) => Before(entered, p, q)

=============================================================================
