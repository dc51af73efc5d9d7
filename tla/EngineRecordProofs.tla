------------------------- MODULE EngineRecordProofs -------------------------
(***************************************************************************)
(* Proofs about EngineRecord, for any queries, caps and failures: what is  *)
(* recorded reaches the extract or is on its way.  The inductive part is   *)
(* which of the two places where rows wait is empty in each phase.         *)
(***************************************************************************)
EXTENDS EngineRecord, SequenceTheorems, TLAPS

WaitInv ==
    /\ phase = "down" => queue = <<>> /\ taken = <<>>
    /\ phase = "draining" => queue = <<>>

RecordInv == TypeOK /\ NothingLost /\ WaitInv

-----------------------------------------------------------------------------
LEMMA RangeOfEmpty == Range(<<>>) = {}
BY DEF Range

LEMMA RangeOfAppend ==
    ASSUME NEW S, NEW s \in Seq(S), NEW x \in S
    PROVE  Append(s, x) \in Seq(S) /\ Range(Append(s, x)) = Range(s) \cup {x}
<1>1. Append(s, x) \in Seq(S) /\ Len(Append(s, x)) = Len(s) + 1
      OBVIOUS
<1>2. \A i \in 1 .. Len(s) : Append(s, x)[i] = s[i]
      OBVIOUS
<1>3. Append(s, x)[Len(s) + 1] = x
      OBVIOUS
<1>4. DOMAIN Append(s, x) = 1 .. Len(s) + 1 /\ DOMAIN s = 1 .. Len(s)
      BY <1>1
<1>5. QED BY <1>1, <1>2, <1>3, <1>4 DEF Range

LEMMA RangeOfTail ==
    ASSUME NEW S, NEW s \in Seq(S), s # <<>>
    PROVE  /\ Head(s) \in S /\ Tail(s) \in Seq(S) /\ Len(Tail(s)) = Len(s) - 1
           /\ Range(s) = {Head(s)} \cup Range(Tail(s))
<1> DEFINE t == Tail(s)
<1>1. /\ Head(s) \in S /\ t \in Seq(S) /\ Len(t) = Len(s) - 1
      /\ \A i \in 1 .. Len(t) : t[i] = s[i + 1]
      BY HeadTailProperties
<1>2. Len(s) \in Nat \ {0} /\ Head(s) = s[1]
      OBVIOUS
<1>3. DOMAIN s = 1 .. Len(s) /\ DOMAIN t = 1 .. Len(t)
      BY <1>1
<1> HIDE DEF t
<1>4. \A i \in DOMAIN s : i = 1 \/ (i - 1 \in DOMAIN t /\ s[i] = t[i - 1])
      BY <1>1, <1>2, <1>3
<1>5. \A i \in DOMAIN t : i + 1 \in DOMAIN s /\ t[i] = s[i + 1]
      BY <1>1, <1>2, <1>3
<1>6. 1 \in DOMAIN s
      BY <1>2, <1>3
<1>7. Range(s) = {Head(s)} \cup Range(t)
      BY <1>2, <1>4, <1>5, <1>6 DEF Range
<1>8. QED BY <1>1, <1>7 DEF t

\* A tick splits the queue: nothing is between what it takes and what stays.
LEMMA TickSplits ==
    ASSUME queue \in Seq(Queries), NEW n \in 1 .. Len(queue)
    PROVE  /\ Oldest(n) \in Seq(Queries) /\ Len(Oldest(n)) = n
           /\ QueueAfter(n) \in Seq(Queries) /\ Len(QueueAfter(n)) = Len(queue) - n
           /\ Range(queue) = Range(Oldest(n)) \cup Range(QueueAfter(n))
<1> DEFINE l == Len(queue)
           old == SubSeq(queue, 1, n)
           rest == SubSeq(queue, n + 1, l)
<1>1. /\ l \in Nat /\ n \in Nat /\ 1 <= n /\ n <= l
      /\ DOMAIN queue = 1 .. l /\ \A i \in 1 .. l : queue[i] \in Queries
      OBVIOUS
<1> HIDE DEF l
<1>2. /\ old \in Seq(Queries) /\ Len(old) = n
      /\ \A i \in 1 .. n : old[i] = queue[i]
  <2>1. \A i \in 1 .. n : queue[i] \in Queries
        BY <1>1
  <2>2. /\ old \in Seq(Queries) /\ Len(old) = (IF 1 <= n THEN n - 1 + 1 ELSE 0)
        /\ \A i \in 1 .. n - 1 + 1 : old[i] = queue[1 + i - 1]
        BY <1>1, <2>1, SubSeqProperties
  <2> HIDE DEF old
  <2>3. QED BY <1>1, <2>2
<1>3. /\ rest \in Seq(Queries) /\ Len(rest) = l - n
      /\ \A i \in 1 .. l - n : rest[i] = queue[i + n]
  <2>1. \A i \in n + 1 .. l : queue[i] \in Queries
        BY <1>1
  <2>2. n + 1 \in Int /\ l \in Int
        BY <1>1
  <2>3. /\ rest \in Seq(Queries) /\ Len(rest) = (IF n + 1 <= l THEN l - (n + 1) + 1 ELSE 0)
        /\ \A i \in 1 .. l - (n + 1) + 1 : rest[i] = queue[n + 1 + i - 1]
        BY <2>1, <2>2, SubSeqProperties
  <2> HIDE DEF rest
  <2>4. QED BY <1>1, <2>3
<1>4. DOMAIN old = 1 .. n /\ DOMAIN rest = 1 .. l - n
  <2> HIDE DEF old, rest
  <2>1. QED BY <1>2, <1>3
<1> HIDE DEF old, rest
<1>5. Range(queue) \subseteq Range(old) \cup Range(rest)
  <2>1. ASSUME NEW i \in 1 .. l
        PROVE  queue[i] \in Range(old) \cup Range(rest)
    <3>1. CASE i <= n
          BY <1>1, <1>2, <1>4, <2>1, <3>1 DEF Range
    <3>2. CASE i > n
      <4>1. i - n \in 1 .. l - n /\ rest[i - n] = queue[i]
            BY <1>1, <1>3, <3>2
      <4>2. QED BY <1>4, <4>1 DEF Range
    <3>3. QED BY <1>1, <3>1, <3>2
  <2>2. QED BY <1>1, <2>1 DEF Range
<1>6. Range(old) \cup Range(rest) \subseteq Range(queue)
  <2>1. \A i \in 1 .. n : i \in DOMAIN queue
        BY <1>1
  <2>2. \A i \in 1 .. l - n : i + n \in DOMAIN queue
        BY <1>1
  <2>3. QED BY <1>2, <1>3, <1>4, <2>1, <2>2 DEF Range
<1>7. QED BY <1>2, <1>3, <1>5, <1>6 DEF Oldest, QueueAfter, old, rest, l

-----------------------------------------------------------------------------
LEMMA NobodyWaits == <<>> \in Seq(Queries) /\ Len(<<>>) <= QueueCap
BY EngineRecordAssumption

LEMMA InitRecord == Init => RecordInv
<1> SUFFICES ASSUME Init PROVE RecordInv
    OBVIOUS
<1>1. \A q \in Queries : stage[q] = "none"
      BY DEF Init
<1>2. TypeOK
      BY NobodyWaits DEF Init, TypeOK, Stages
<1>3. QED BY <1>1, <1>2 DEF Init, RecordInv, NothingLost, WaitInv

LEMMA NextType == TypeOK /\ [Next]_vars => TypeOK'
<1> SUFFICES ASSUME TypeOK, [Next]_vars PROVE TypeOK'
    OBVIOUS
<1> USE EngineRecordAssumption DEF TypeOK
<1>1. CASE Start
      BY <1>1, NobodyWaits DEF Start
<1>2. ASSUME NEW q \in Queries, Decide(q) PROVE TypeOK'
      BY <1>2 DEF Decide, Stages
<1>3. ASSUME NEW q \in Queries, Miss(q) PROVE TypeOK'
      BY <1>3 DEF Miss, Stages
<1>4. ASSUME NEW q \in Queries, Enqueue(q) PROVE TypeOK'
  <2>1. /\ stage' \in [Queries -> Stages] /\ pending' \subseteq Queries
        /\ UNCHANGED <<taken, opened, phase, erased, extract, hurt>>
        BY <1>4 DEF Enqueue, Answer, Stages
  <2>2. /\ queue' = Append(queue, q) /\ Len(queue) < QueueCap
        /\ entered' = Append(entered, q)
        BY <1>4 DEF Enqueue, Room
  <2>3. queue' \in Seq(Queries) /\ Len(queue') <= QueueCap /\ entered' \in Seq(Queries)
        BY <2>2
  <2>4. QED BY <2>1, <2>3
<1>5. ASSUME NEW q \in Queries, WriteNow(q) PROVE TypeOK'
  <2>1. /\ stage' \in [Queries -> Stages] /\ pending' \subseteq Queries
        /\ UNCHANGED <<taken, opened, phase, erased, queue, entered>>
        BY <1>5 DEF WriteNow, Answer, Stages
  <2>2. extract' \in {extract, Append(extract, q)} /\ hurt' \subseteq Queries
        BY <1>5 DEF WriteNow
  <2>3. Append(extract, q) \in Seq(Queries)
        OBVIOUS
  <2>4. extract' \in Seq(Queries)
        BY <2>2, <2>3
  <2>5. QED BY <2>1, <2>2, <2>4
<1>6. CASE Take
  <2>1. PICK n \in 1 .. Len(queue) :
          /\ queue' = QueueAfter(n)
          /\ \/ taken' = Oldest(n) /\ opened' = TRUE /\ UNCHANGED hurt
             \/ /\ hurt' = hurt \cup Range(Oldest(n))
                /\ UNCHANGED <<taken, opened>>
        BY <1>6 DEF Take
  <2>2. /\ Oldest(n) \in Seq(Queries) /\ Len(Oldest(n)) = n
        /\ QueueAfter(n) \in Seq(Queries) /\ Len(QueueAfter(n)) = Len(queue) - n
        BY TickSplits
  <2>3. Range(Oldest(n)) \subseteq Queries
        BY <2>2, RangeOfSeq
  <2>4. n <= QueueCap /\ Len(queue) - n <= QueueCap
        OBVIOUS
  <2>5. /\ queue' \in Seq(Queries) /\ Len(queue') <= QueueCap
        /\ taken' \in Seq(Queries) /\ Len(taken') <= QueueCap
        /\ opened' \in BOOLEAN /\ hurt' \subseteq Queries
        BY <2>1, <2>2, <2>3, <2>4
  <2>6. UNCHANGED <<stage, pending, extract, phase, entered, erased>>
        BY <1>6 DEF Take
  <2>7. QED BY <2>5, <2>6
<1>7. CASE WriteTaken
  <2>1. /\ Head(taken) \in Queries /\ Tail(taken) \in Seq(Queries)
        /\ Len(Tail(taken)) = Len(taken) - 1
        BY <1>7, RangeOfTail DEF WriteTaken
  <2>2. Len(taken) \in Nat
        OBVIOUS
  <2>3. taken' = Tail(taken) /\ extract' \in {extract, Append(extract, Head(taken))}
        /\ hurt' \in {hurt, hurt \cup {Head(taken)}}
        BY <1>7 DEF WriteTaken
  <2>4. taken' \in Seq(Queries) /\ Len(taken') <= QueueCap
        BY <2>1, <2>2, <2>3
  <2>5. Append(extract, Head(taken)) \in Seq(Queries)
        BY <2>1
  <2>5a. extract' \in Seq(Queries) /\ hurt' \subseteq Queries
        BY <2>1, <2>3, <2>5
  <2>6. UNCHANGED <<stage, pending, queue, opened, phase, entered, erased>>
        BY <1>7 DEF WriteTaken
  <2>7. QED BY <2>4, <2>5a, <2>6
<1>8. CASE Close
      BY <1>8 DEF Close
<1>9. CASE ResolverGone
      BY <1>9 DEF ResolverGone, Stages
<1>10. CASE Drain
  <2>1. Range(queue) \subseteq Queries
        BY RangeOfSeq
  <2>2. QED BY <1>10, <2>1 DEF Drain
<1>11. CASE Down
      BY <1>11 DEF Down
<1>12. CASE Crash
  <2>1. Waiting \subseteq Queries
        BY RangeOfSeq DEF Waiting
  <2>2. stage' \in [Queries -> Stages]
        BY <1>12 DEF Crash, Stages
  <2>3. /\ phase' = "down" /\ queue' = <<>> /\ taken' = <<>> /\ hurt' = hurt \cup Waiting
        /\ UNCHANGED <<pending, opened, extract, entered, erased>>
        BY <1>12 DEF Crash
  <2>4. QED BY <2>1, <2>2, <2>3, NobodyWaits
<1>13. CASE Wipe
      BY <1>13 DEF Wipe
<1>14. CASE UNCHANGED vars
      BY <1>14 DEF vars
<1>15. QED
      BY <1>1, <1>2, <1>3, <1>4, <1>5, <1>6, <1>7, <1>8, <1>9, <1>10, <1>11, <1>12, <1>13, <1>14
      DEF Next

\* The table, the queue, what is taken out of it and the extract hold queries,
\* and the queue never passes its cap.
THEOREM TypeCorrect == Spec => []TypeOK
<1>1. Init => TypeOK
      BY InitRecord DEF RecordInv
<1>2. QED BY <1>1, NextType, PTL DEF Spec

-----------------------------------------------------------------------------
LEMMA NextRecord == RecordInv /\ [Next]_vars => RecordInv'
<1> SUFFICES ASSUME RecordInv, [Next]_vars PROVE RecordInv'
    OBVIOUS
<1> USE DEF RecordInv, NothingLost, WaitInv
<1>a. TypeOK /\ TypeOK'
      BY NextType
<1>b. queue \in Seq(Queries) /\ taken \in Seq(Queries) /\ extract \in Seq(Queries)
      BY <1>a DEF TypeOK
<1>1. CASE Start
      BY <1>1, <1>a, RangeOfEmpty DEF Start, Waiting
<1>2. ASSUME NEW q \in Queries, Decide(q) PROVE RecordInv'
      BY <1>2, <1>a DEF Decide, Waiting, TypeOK
<1>3. ASSUME NEW q \in Queries, Miss(q) PROVE RecordInv'
      BY <1>3, <1>a DEF Miss, Waiting, TypeOK
<1>4. ASSUME NEW q \in Queries, Enqueue(q) PROVE RecordInv'
  <2>1. Range(queue') = Range(queue) \cup {q}
        BY <1>4, <1>b, RangeOfAppend DEF Enqueue
  <2>2. /\ stage' = [stage EXCEPT ![q] = "answered"] /\ phase \in {"up", "closing"}
        /\ UNCHANGED <<taken, phase, erased, extract, hurt>>
        BY <1>4 DEF Enqueue, Answer
  <2>3. QED BY <1>a, <2>1, <2>2 DEF Waiting, TypeOK
<1>5. ASSUME NEW q \in Queries, WriteNow(q) PROVE RecordInv'
  <2>1. Range(Append(extract, q)) = Range(extract) \cup {q}
        BY <1>b, RangeOfAppend
  <2>2. Range(extract') \cup hurt' = Range(extract) \cup hurt \cup {q}
        BY <1>5, <2>1 DEF WriteNow
  <2>3. Range(extract) \subseteq Range(extract') /\ hurt \subseteq hurt'
        BY <1>5, <2>1 DEF WriteNow
  <2>4. /\ stage' = [stage EXCEPT ![q] = "answered"] /\ phase \in {"up", "closing"}
        /\ UNCHANGED <<taken, queue, phase, erased>>
        BY <1>5 DEF WriteNow, Answer
  <2>5. QED BY <1>a, <2>2, <2>3, <2>4 DEF Waiting, TypeOK
<1>6. CASE Take
  <2>1. PICK n \in 1 .. Len(queue) :
          /\ queue' = QueueAfter(n)
          /\ \/ taken' = Oldest(n) /\ UNCHANGED hurt
             \/ hurt' = hurt \cup Range(Oldest(n)) /\ UNCHANGED taken
        BY <1>6 DEF Take
  <2>2. Range(queue) = Range(Oldest(n)) \cup Range(QueueAfter(n))
        BY <1>b, TickSplits
  <2>3. /\ taken = <<>> /\ phase \in {"up", "closing", "closed"}
        /\ UNCHANGED <<stage, extract, phase, erased>>
        BY <1>6 DEF Take
  <2>4. Waiting \subseteq Waiting' \cup hurt' /\ hurt \subseteq hurt'
        BY <2>1, <2>2, <2>3, RangeOfEmpty DEF Waiting
  <2>5. QED BY <1>a, <2>3, <2>4
<1>7. CASE WriteTaken
  <2>1. Range(taken) = {Head(taken)} \cup Range(Tail(taken)) /\ Head(taken) \in Queries
        BY <1>7, <1>b, RangeOfTail DEF WriteTaken
  <2>2. Range(Append(extract, Head(taken))) = Range(extract) \cup {Head(taken)}
        BY <1>b, <2>1, RangeOfAppend
  <2>3. /\ taken' = Tail(taken) /\ UNCHANGED <<stage, queue, phase, erased>> /\ taken # <<>>
        /\ \/ extract' = Append(extract, Head(taken)) /\ UNCHANGED hurt
           \/ hurt' = hurt \cup {Head(taken)} /\ UNCHANGED extract
        BY <1>7 DEF WriteTaken
  <2>4. Range(extract) \cup Waiting \subseteq Range(extract') \cup Waiting' \cup hurt'
        /\ hurt \subseteq hurt'
        BY <2>1, <2>2, <2>3 DEF Waiting
  <2>5. QED BY <1>a, <2>3, <2>4
<1>8. CASE Close
      BY <1>8, <1>a DEF Close, Waiting
<1>9. CASE ResolverGone
      BY <1>9, <1>a DEF ResolverGone, Waiting
<1>10. CASE Drain
  <2>1. /\ taken = <<>> /\ queue' = <<>> /\ phase' = "draining"
        /\ \/ taken' = queue /\ UNCHANGED hurt
           \/ hurt' = hurt \cup Range(queue) /\ UNCHANGED taken
        /\ UNCHANGED <<stage, extract, erased>>
        BY <1>10 DEF Drain, VaciadorGone
  <2>2. Waiting \subseteq Waiting' \cup hurt' /\ hurt \subseteq hurt'
        BY <2>1, RangeOfEmpty DEF Waiting
  <2>3. QED BY <1>a, <2>1, <2>2
<1>11. CASE Down
      BY <1>11, <1>a DEF Down, Waiting
<1>12. CASE Crash
  <2>1. /\ hurt' = hurt \cup Waiting /\ queue' = <<>> /\ taken' = <<>>
        /\ \A q \in Queries : stage'[q] = "answered" => stage[q] = "answered"
        /\ UNCHANGED <<extract, erased>> /\ phase' = "down"
        BY <1>12 DEF Crash
  <2>2. QED BY <1>a, <2>1
<1>13. CASE Wipe
      BY <1>13, <1>a DEF Wipe, Waiting
<1>14. CASE UNCHANGED vars
      BY <1>14, <1>a DEF vars, Waiting
<1>15. QED
      BY <1>1, <1>2, <1>3, <1>4, <1>5, <1>6, <1>7, <1>8, <1>9, <1>10, <1>11, <1>12, <1>13, <1>14
      DEF Next

\* Without a failure while it waited, every query whose answer was recorded is
\* in the extract or still waiting to be written, whatever the pass is doing and
\* however it ends, until `Borrar todo` (engine.rs 2433-2459).
THEOREM RecordedIsKept == Spec => []NothingLost
<1>1. RecordInv => NothingLost
      BY DEF RecordInv
<1>2. QED BY <1>1, InitRecord, NextRecord, PTL DEF Spec

-----------------------------------------------------------------------------
\* The line of the promise, from the two places where rows wait.
Line == taken \o queue
Said == {q \in Queries : stage[q] = "answered"}

LEMMA LineFacts ==
    ASSUME NEW s \in Seq(Queries), NEW t \in Seq(Queries)
    PROVE  /\ s \o t \in Seq(Queries) /\ Len(s \o t) = Len(s) + Len(t)
           /\ s = <<>> => s \o t = t
           /\ t = <<>> => s \o t = s
           /\ \A q \in Queries : s \o Append(t, q) = Append(s \o t, q)
           /\ s # <<>> => /\ s \o t # <<>> /\ Head(s \o t) = Head(s)
                          /\ Tail(s \o t) = Tail(s) \o t
<1>1. s \o t \in Seq(Queries) /\ Len(s \o t) = Len(s) + Len(t)
      OBVIOUS
<1>2. s = <<>> => s \o t = t
      OBVIOUS
<1>3. t = <<>> => s \o t = s
      OBVIOUS
<1>4. ASSUME NEW q \in Queries PROVE s \o Append(t, q) = Append(s \o t, q)
      OBVIOUS
<1>5. ASSUME s # <<>> PROVE s \o t # <<>> /\ Head(s \o t) = Head(s) /\ Tail(s \o t) = Tail(s) \o t
      BY <1>5
<1>6. QED BY <1>1, <1>2, <1>3, <1>4, <1>5

LEMMA SameSaid ==
    ASSUME \A q \in Queries : stage'[q] = "answered" <=> stage[q] = "answered"
    PROVE  Said' = Said
BY DEF Said

\* Emptying the line is losing all of it, or nothing to lose.
LEMMA LineEmptied ==
    ASSUME Line \in Seq(Queries), Line' = <<>>, Said' = Said, UNCHANGED <<extract, entered>>
    PROVE  [Promise!Next]_(Promise!vars)
<1> USE DEF Line, Said
<1>1. CASE Line = <<>>
      BY <1>1 DEF Promise!vars
<1>2. CASE Line # <<>>
  <2>1. Len(Line) \in 1 .. Len(Line) /\ SubSeq(Line, Len(Line) + 1, Len(Line)) = <<>>
        BY <1>2
  <2>2. Promise!LoseFront
        BY <2>1 DEF Promise!LoseFront
  <2>3. QED BY <2>2 DEF Promise!Next
<1>3. QED BY <1>1, <1>2

\* A query that becomes answered joins those that were.
LEMMA AnswerSaid ==
    ASSUME TypeOK, NEW q \in Queries, Answer(q)
    PROVE  q \notin Said /\ Said' = Said \cup {q}
<1>1. stage[q] = "decided" /\ stage' = [stage EXCEPT ![q] = "answered"]
      BY DEF Answer
<1>2. QED BY <1>1 DEF Said, TypeOK

LEMMA PromiseStep == RecordInv /\ [Next]_vars => [Promise!Next]_(Promise!vars)
<1> SUFFICES ASSUME RecordInv, [Next]_vars PROVE [Promise!Next]_(Promise!vars)
    OBVIOUS
<1>a. /\ TypeOK /\ queue \in Seq(Queries) /\ taken \in Seq(Queries) /\ <<>> \in Seq(Queries)
      /\ Line \in Seq(Queries)
      BY LineFacts DEF RecordInv, TypeOK, Line
<1>b. ASSUME UNCHANGED <<queue, taken, extract, entered>>, Said' = Said
      PROVE  [Promise!Next]_(Promise!vars)
      BY <1>b DEF Promise!vars, Said
<1>1. CASE Start
  <2>1. queue = <<>> /\ taken = <<>>
        BY <1>1 DEF Start, RecordInv, WaitInv
  <2>2. UNCHANGED <<queue, taken, extract, entered>> /\ Said' = Said
        BY <1>1, <2>1 DEF Start, Said
  <2>3. QED BY <1>b, <2>2
<1>2. ASSUME NEW q \in Queries, Decide(q) \/ Miss(q) PROVE [Promise!Next]_(Promise!vars)
  <2>1. Said' = Said
        BY <1>2, <1>a, SameSaid DEF Decide, Miss, TypeOK
  <2>2. QED BY <1>b, <1>2, <2>1 DEF Decide, Miss
<1>3. ASSUME NEW q \in Queries, Enqueue(q) PROVE [Promise!Next]_(Promise!vars)
  <2>1. /\ Answer(q) /\ taken' = taken /\ queue' = Append(queue, q)
        /\ entered' = Append(entered, q) /\ extract' = extract
        BY <1>3 DEF Enqueue, Answer
  <2>2. q \notin Said /\ Said' = Said \cup {q}
        BY <1>a, <2>1, AnswerSaid
  <2>3. taken' \o queue' = Append(taken \o queue, q)
        BY <1>a, <2>1, LineFacts
  <2>4. Promise!StandInLine(q)
        BY <2>1, <2>2, <2>3 DEF Promise!StandInLine, Promise!Answered, Said
  <2>5. QED BY <2>4 DEF Promise!Next
<1>4. ASSUME NEW q \in Queries, WriteNow(q) PROVE [Promise!Next]_(Promise!vars)
  <2>1. /\ Answer(q) /\ UNCHANGED <<taken, queue, entered>>
        /\ extract' \in {Append(extract, q), extract}
        BY <1>4 DEF WriteNow, Answer
  <2>2. q \notin Said /\ Said' = Said \cup {q}
        BY <1>a, <2>1, AnswerSaid
  <2>3. Promise!WriteAtOnce(q)
        BY <2>1, <2>2 DEF Promise!WriteAtOnce, Promise!Answered, Said
  <2>4. QED BY <2>3 DEF Promise!Next
<1>5. CASE Take
  <2>1. PICK n \in 1 .. Len(queue) :
          /\ queue' = QueueAfter(n)
          /\ taken' = Oldest(n) \/ UNCHANGED taken
        BY <1>5 DEF Take
  <2>2. taken = <<>> /\ UNCHANGED <<stage, extract, entered>>
        BY <1>5 DEF Take
  <2>3. Line = queue
        BY <1>a, <2>2, LineFacts DEF Line
  <2>4. CASE taken' = Oldest(n)
    <3>1. Oldest(n) \o QueueAfter(n) = queue
          BY <1>a DEF Oldest, QueueAfter
    <3>2. Line' = Line
          BY <2>1, <2>3, <2>4, <3>1 DEF Line
    <3>3. QED BY <2>2, <3>2 DEF Promise!vars, Line
  <2>5. CASE UNCHANGED taken
    <3>1. QueueAfter(n) \in Seq(Queries)
          BY <1>a, TickSplits
    <3>2. Line' = QueueAfter(n)
          BY <2>1, <2>2, <2>5, <3>1, LineFacts DEF Line
    <3>3. Promise!LoseFront
          BY <2>2, <2>3, <3>2 DEF Promise!LoseFront, QueueAfter, Line
    <3>4. QED BY <3>3 DEF Promise!Next
  <2>6. QED BY <2>1, <2>4, <2>5
<1>6. CASE WriteTaken
  <2>1. /\ taken # <<>> /\ taken' = Tail(taken)
        /\ extract' = Append(extract, Head(taken)) \/ UNCHANGED extract
        /\ UNCHANGED <<stage, queue, entered>>
        BY <1>6 DEF WriteTaken
  <2>2. Tail(taken) \in Seq(Queries)
        BY <1>a, <2>1
  <2>3. Line # <<>> /\ Head(Line) = Head(taken) /\ Line' = Tail(Line)
        BY <1>a, <2>1, LineFacts DEF Line
  <2>4. CASE extract' = Append(extract, Head(taken))
    <3>1. Promise!WriteFirst
          BY <2>1, <2>3, <2>4 DEF Promise!WriteFirst, Line
    <3>2. QED BY <3>1 DEF Promise!Next
  <2>5. CASE UNCHANGED extract
    <3>1. 1 \in 1 .. Len(Line) /\ Tail(Line) = SubSeq(Line, 1 + 1, Len(Line))
          BY <1>a, <2>3
    <3>2. Promise!LoseFront
          BY <2>1, <2>3, <2>5, <3>1 DEF Promise!LoseFront, Line
    <3>3. QED BY <3>2 DEF Promise!Next
  <2>6. QED BY <2>1, <2>4, <2>5
<1>7. CASE Close \/ Down
      BY <1>b, <1>7 DEF Close, Down, Said
<1>8. CASE ResolverGone
  <2>1. Said' = Said
        BY <1>8, <1>a, SameSaid DEF ResolverGone, TypeOK
  <2>2. QED BY <1>b, <1>8, <2>1 DEF ResolverGone
<1>9. CASE Drain
  <2>1. /\ taken = <<>> /\ queue' = <<>> /\ UNCHANGED <<stage, extract, entered>>
        /\ taken' = queue \/ UNCHANGED taken
        BY <1>9 DEF Drain, VaciadorGone
  <2>2. CASE taken' = queue
    <3>1. Line' = Line
          BY <1>a, <2>1, <2>2, LineFacts DEF Line
    <3>2. QED BY <2>1, <3>1 DEF Promise!vars, Line
  <2>3. CASE UNCHANGED taken
    <3>1. Line' = <<>>
          BY <1>a, <2>1, <2>3, LineFacts DEF Line
    <3>2. QED BY <1>a, <2>1, <3>1, LineEmptied DEF Said
  <2>4. QED BY <2>1, <2>2, <2>3
<1>10. CASE Crash
  <2>1. /\ queue' = <<>> /\ taken' = <<>> /\ UNCHANGED <<extract, entered>>
        /\ stage' = [q \in Queries |-> IF stage[q] = "decided" THEN "cut short" ELSE stage[q]]
        BY <1>10 DEF Crash
  <2>2. Said' = Said
        BY <2>1, <1>a, SameSaid DEF TypeOK
  <2>3. Line' = <<>>
        BY <1>a, <2>1, LineFacts DEF Line
  <2>4. QED BY <1>a, <2>1, <2>2, <2>3, LineEmptied
<1>11. CASE Wipe
  <2>1. Promise!Erase
        BY <1>11 DEF Wipe, Promise!Erase
  <2>2. QED BY <2>1 DEF Promise!Next
<1>12. CASE UNCHANGED vars
      BY <1>b, <1>12 DEF vars, Said
<1>13. QED
      BY <1>1, <1>2, <1>3, <1>4, <1>5, <1>6, <1>7, <1>8, <1>9, <1>10, <1>11, <1>12 DEF Next

LEMMA PromiseBegins == Init => Promise!Init
<1> SUFFICES ASSUME Init PROVE Promise!Init
    OBVIOUS
<1>1. \A q \in Queries : stage[q] = "none"
      BY DEF Init
<1>2. Said = {}
      BY <1>1 DEF Said
<1>3. Line = <<>>
      BY LineFacts DEF Init, Line
<1>4. QED BY <1>2, <1>3 DEF Init, Promise!Init, Said, Line

\* The queue, the vaciador, the drain of a close and a crash implement what
\* recording promises: an answered query waits in one line, written from its
\* front (engine.rs, record and run_once).
THEOREM ImplementsThePromise == Spec => KeepsThePromise
<1>1. QED
  BY PromiseBegins, PromiseStep, InitRecord, NextRecord, PTL
  DEF Spec, KeepsThePromise, Promise!Spec

-----------------------------------------------------------------------------
\* What the promise implies, whoever keeps it.
PromiseType ==
    /\ Line \in Seq(Queries) /\ extract \in Seq(Queries) /\ entered \in Seq(Queries)
    /\ Said \subseteq Queries

NoRepeat(s) == \A i, j \in DOMAIN s : i # j => s[i] # s[j]

\* Nothing is twice in the line and the extract taken together, and whatever is
\* there was answered.
OnceInv ==
    /\ NoRepeat(extract) /\ NoRepeat(Line)
    /\ Range(extract) \cap Range(Line) = {}
    /\ Range(extract) \cup Range(entered) \subseteq Said
    /\ Range(Line) \subseteq Range(entered)

\* The extract followed by the line keeps the order of those that stood in it.
TurnInv ==
    \A p, q \in Range(entered) :
        \/ Before(extract, p, q)
        \/ Before(Line, p, q)
        \/ p \in Range(extract) /\ q \in Range(Line)
        => Before(entered, p, q)

PromiseInv == PromiseType /\ OnceInv /\ TurnInv

-----------------------------------------------------------------------------
LEMMA Appended ==
    ASSUME NEW s \in Seq(Queries), NEW x \in Queries
    PROVE  /\ Append(s, x) \in Seq(Queries)
           /\ Len(s) \in Nat /\ DOMAIN s = 1 .. Len(s)
           /\ DOMAIN Append(s, x) = DOMAIN s \cup {Len(s) + 1}
           /\ \A i \in DOMAIN s : Append(s, x)[i] = s[i]
           /\ Append(s, x)[Len(s) + 1] = x
           /\ Range(Append(s, x)) = Range(s) \cup {x}
<1>1. Append(s, x) \in Seq(Queries) /\ Len(Append(s, x)) = Len(s) + 1 /\ Len(s) \in Nat
      OBVIOUS
<1>2. /\ \A i \in 1 .. Len(s) : Append(s, x)[i] = s[i]
      /\ Append(s, x)[Len(s) + 1] = x
      OBVIOUS
<1>3. DOMAIN Append(s, x) = 1 .. Len(s) + 1 /\ DOMAIN s = 1 .. Len(s)
      BY <1>1
<1>4. DOMAIN Append(s, x) = DOMAIN s \cup {Len(s) + 1}
      BY <1>1, <1>3
<1>5. Range(Append(s, x)) = Range(s) \cup {x}
      BY <1>1, <1>2, <1>3, <1>4 DEF Range
<1>6. QED BY <1>1, <1>2, <1>3, <1>4, <1>5

LEMMA AppendOrder ==
    ASSUME NEW s \in Seq(Queries), NEW x \in Queries, NEW p, NEW q
    PROVE  Before(Append(s, x), p, q) <=> Before(s, p, q) \/ (p \in Range(s) /\ q = x)
<1> DEFINE t == Append(s, x)
<1>1. /\ Len(s) \in Nat /\ DOMAIN s = 1 .. Len(s)
      /\ DOMAIN t = DOMAIN s \cup {Len(s) + 1}
      /\ \A i \in DOMAIN s : t[i] = s[i]
      /\ t[Len(s) + 1] = x
      BY Appended
<1> HIDE DEF t
<1>2. ASSUME Before(t, p, q) PROVE Before(s, p, q) \/ (p \in Range(s) /\ q = x)
  <2>1. PICK i, j \in DOMAIN t : i < j /\ t[i] = p /\ t[j] = q
        BY <1>2 DEF Before
  <2>2. i \in DOMAIN s /\ p = s[i]
        BY <1>1, <2>1
  <2>3. CASE j \in DOMAIN s
        BY <1>1, <2>1, <2>2, <2>3 DEF Before
  <2>4. CASE j = Len(s) + 1
        BY <1>1, <2>1, <2>2, <2>4 DEF Range
  <2>5. QED BY <1>1, <2>1, <2>3, <2>4
<1>3. ASSUME Before(s, p, q) PROVE Before(t, p, q)
      BY <1>1, <1>3 DEF Before
<1>4. ASSUME p \in Range(s), q = x PROVE Before(t, p, q)
  <2>1. PICK i \in DOMAIN s : s[i] = p
        BY <1>4 DEF Range
  <2>2. i \in DOMAIN t /\ Len(s) + 1 \in DOMAIN t /\ i < Len(s) + 1 /\ t[i] = p
        BY <1>1, <2>1
  <2>3. QED BY <1>1, <1>4, <2>2 DEF Before
<1>5. QED BY <1>2, <1>3, <1>4 DEF t

\* t is what is left of s without its first n.
Suffix(s, t, n) ==
    /\ n \in Nat /\ t \in Seq(Queries)
    /\ \A i \in DOMAIN t : n + i \in DOMAIN s /\ t[i] = s[n + i] /\ i \in Nat

LEMMA SuffixKeeps ==
    ASSUME NEW s \in Seq(Queries), NEW t, NEW n, Suffix(s, t, n)
    PROVE  /\ Range(t) \subseteq Range(s)
           /\ NoRepeat(s) => NoRepeat(t)
           /\ \A p, q : Before(t, p, q) => Before(s, p, q)
<1>1. Range(t) \subseteq Range(s)
      BY DEF Suffix, Range
<1>2. ASSUME NoRepeat(s) PROVE NoRepeat(t)
  <2>1. \A i, j \in DOMAIN t : i # j => n + i # n + j
        BY DEF Suffix
  <2>2. QED BY <1>2, <2>1 DEF Suffix, NoRepeat
<1>3. ASSUME NEW p, NEW q, Before(t, p, q) PROVE Before(s, p, q)
  <2>1. \A i, j \in DOMAIN t : i < j => n + i < n + j
        BY DEF Suffix
  <2>2. QED BY <1>3, <2>1 DEF Suffix, Before
<1>4. QED BY <1>1, <1>2, <1>3

LEMMA TailIsSuffix ==
    ASSUME NEW s \in Seq(Queries), s # <<>>
    PROVE  /\ Suffix(s, Tail(s), 1) /\ Head(s) \in Queries /\ Head(s) \in Range(s)
           /\ NoRepeat(s) => Head(s) \notin Range(Tail(s))
           /\ \A q \in Range(Tail(s)) : Before(s, Head(s), q)
           /\ Range(s) = {Head(s)} \cup Range(Tail(s))
<1> DEFINE t == Tail(s)
<1>1. /\ Head(s) \in Queries /\ t \in Seq(Queries) /\ Len(t) = Len(s) - 1
      /\ \A i \in 1 .. Len(t) : t[i] = s[i + 1]
      BY HeadTailProperties
<1>2. Len(s) \in Nat \ {0} /\ Head(s) = s[1] /\ DOMAIN s = 1 .. Len(s)
      OBVIOUS
<1>3. DOMAIN t = 1 .. Len(s) - 1
      BY <1>1
<1> HIDE DEF t
<1>4. \A i \in DOMAIN t : /\ 1 + i \in DOMAIN s /\ i \in Nat /\ t[i] = s[1 + i]
                          /\ 1 + i # 1 /\ 1 < 1 + i
      BY <1>1, <1>2, <1>3
<1>5. Suffix(s, t, 1)
      BY <1>1, <1>4 DEF Suffix
<1>6. 1 \in DOMAIN s
      BY <1>2
<1>7. NoRepeat(s) => Head(s) \notin Range(t)
      BY <1>2, <1>4, <1>6 DEF NoRepeat, Range
<1>8. \A q \in Range(t) : Before(s, Head(s), q)
      BY <1>2, <1>4, <1>6 DEF Before, Range
<1>9. \A i \in DOMAIN s : i = 1 \/ (i - 1 \in DOMAIN t /\ t[i - 1] = s[i])
      BY <1>1, <1>2, <1>3
<1>10. Range(s) = {Head(s)} \cup Range(t)
      BY <1>2, <1>4, <1>6, <1>9 DEF Range
<1>11. QED BY <1>1, <1>2, <1>5, <1>6, <1>7, <1>8, <1>10 DEF t, Range

LEMMA CutIsSuffix ==
    ASSUME NEW s \in Seq(Queries), NEW n \in 1 .. Len(s)
    PROVE  Suffix(s, SubSeq(s, n + 1, Len(s)), n)
<1> DEFINE l == Len(s)
           t == SubSeq(s, n + 1, l)
<1>1. l \in Nat /\ n \in Nat /\ n <= l /\ DOMAIN s = 1 .. l /\ \A i \in 1 .. l : s[i] \in Queries
      OBVIOUS
<1> HIDE DEF l
<1>2. \A i \in n + 1 .. l : s[i] \in Queries
      BY <1>1
<1>3. n + 1 \in Int /\ l \in Int
      BY <1>1
<1>4. /\ t \in Seq(Queries) /\ Len(t) = (IF n + 1 <= l THEN l - (n + 1) + 1 ELSE 0)
      /\ \A i \in 1 .. l - (n + 1) + 1 : t[i] = s[n + 1 + i - 1]
      BY <1>2, <1>3, SubSeqProperties
<1> HIDE DEF t
<1>5. Len(t) = l - n /\ DOMAIN t = 1 .. l - n
      BY <1>1, <1>4
<1>6. \A i \in 1 .. l - n : n + i \in 1 .. l /\ i \in Nat /\ t[i] = s[n + i]
      BY <1>1, <1>4
<1>7. QED BY <1>1, <1>4, <1>5, <1>6 DEF Suffix, t, l

-----------------------------------------------------------------------------
LEMMA PromiseHolds == Promise!Init => PromiseInv
<1> SUFFICES ASSUME Promise!Init PROVE PromiseInv
    OBVIOUS
<1>1. Range(<<>>) = {} /\ <<>> \in Seq(Queries)
      BY DEF Range
<1>2. NoRepeat(<<>>)
      BY DEF NoRepeat
<1>3. QED BY <1>1, <1>2 DEF Promise!Init, PromiseInv, PromiseType, OnceInv, TurnInv, Line, Said

LEMMA PromiseKeeps == PromiseInv /\ [Promise!Next]_(Promise!vars) => PromiseInv'
<1> SUFFICES ASSUME PromiseInv, [Promise!Next]_(Promise!vars) PROVE PromiseInv'
    OBVIOUS
<1> USE DEF PromiseInv
<1>a. Line \in Seq(Queries) /\ extract \in Seq(Queries) /\ entered \in Seq(Queries)
      BY DEF PromiseType
<1>1. ASSUME NEW q \in Queries, Promise!StandInLine(q) PROVE PromiseInv'
  <2>1. /\ q \notin Said /\ Said' = Said \cup {q} /\ extract' = extract
        /\ Line' = Append(Line, q) /\ entered' = Append(entered, q)
        BY <1>1 DEF Promise!StandInLine, Promise!Answered, Line, Said
  <2>2. /\ Range(Line') = Range(Line) \cup {q} /\ Range(entered') = Range(entered) \cup {q}
        /\ Line' \in Seq(Queries) /\ entered' \in Seq(Queries)
        BY <1>a, <2>1, Appended
  <2>3. q \notin Range(Line) /\ q \notin Range(extract)
        BY <2>1 DEF OnceInv
  <2>4. NoRepeat(Line')
    <3>1. /\ DOMAIN Line' = DOMAIN Line \cup {Len(Line) + 1}
          /\ \A i \in DOMAIN Line : Line'[i] = Line[i]
          /\ Line'[Len(Line) + 1] = q
          BY <1>a, <2>1, Appended
    <3>2. \A i \in DOMAIN Line : Line[i] # q
          BY <2>3 DEF Range
    <3>3. QED BY <3>1, <3>2 DEF NoRepeat, OnceInv
  <2>5. OnceInv'
        BY <2>1, <2>2, <2>3, <2>4 DEF OnceInv
  <2>6. ASSUME NEW p \in Range(entered'), NEW r \in Range(entered'),
               \/ Before(extract', p, r)
               \/ Before(Line', p, r)
               \/ p \in Range(extract') /\ r \in Range(Line')
        PROVE  Before(entered', p, r)
    <3>1. Before(entered', p, r) <=> Before(entered, p, r) \/ (p \in Range(entered) /\ r = q)
          BY <1>a, <2>1, AppendOrder
    <3>2. CASE Before(extract, p, r)
      <4>1. p \in Range(extract) /\ r \in Range(extract)
            BY <3>2 DEF Before, Range
      <4>2. p \in Range(entered) /\ r \in Range(entered)
            BY <2>2, <2>3, <4>1
      <4>3. QED BY <3>1, <3>2, <4>2 DEF TurnInv
    <3>3. CASE Before(Line', p, r)
      <4>1. Before(Line, p, r) \/ (p \in Range(Line) /\ r = q)
            BY <1>a, <2>1, <3>3, AppendOrder
      <4>2. CASE Before(Line, p, r)
        <5>1. p \in Range(Line) /\ r \in Range(Line)
              BY <4>2 DEF Before, Range
        <5>2. p \in Range(entered) /\ r \in Range(entered)
              BY <5>1 DEF OnceInv
        <5>3. QED BY <3>1, <4>2, <5>2 DEF TurnInv
      <4>3. CASE p \in Range(Line) /\ r = q
            BY <3>1, <4>3 DEF OnceInv
      <4>4. QED BY <4>1, <4>2, <4>3
    <3>4. CASE p \in Range(extract) /\ r \in Range(Line')
      <4>1. p \in Range(entered)
            BY <2>2, <2>3, <3>4
      <4>2. CASE r = q
            BY <3>1, <4>1, <4>2
      <4>3. CASE r \in Range(Line)
            BY <3>1, <3>4, <4>1, <4>3 DEF OnceInv, TurnInv
      <4>4. QED BY <2>2, <3>4, <4>2, <4>3
    <3>5. QED BY <2>1, <2>6, <3>2, <3>3, <3>4
  <2>7. TurnInv'
        BY <2>6 DEF TurnInv
  <2>8. QED BY <1>a, <2>1, <2>2, <2>5, <2>7 DEF PromiseType
<1>2. ASSUME NEW q \in Queries, Promise!WriteAtOnce(q) PROVE PromiseInv'
  <2>1. /\ q \notin Said /\ Said' = Said \cup {q} /\ UNCHANGED <<Line, entered>>
        BY <1>2 DEF Promise!WriteAtOnce, Promise!Answered, Line, Said
  <2>2. CASE extract' = extract
        BY <2>1, <2>2 DEF PromiseType, OnceInv, TurnInv
  <2>3. CASE extract' = Append(extract, q)
    <3>1. /\ Range(extract') = Range(extract) \cup {q} /\ extract' \in Seq(Queries)
          /\ DOMAIN extract' = DOMAIN extract \cup {Len(extract) + 1}
          /\ \A i \in DOMAIN extract : extract'[i] = extract[i]
          /\ extract'[Len(extract) + 1] = q
          BY <1>a, <2>3, Appended
    <3>2. q \notin Range(extract) /\ q \notin Range(Line) /\ q \notin Range(entered)
          BY <2>1 DEF OnceInv
    <3>3. \A i \in DOMAIN extract : extract[i] # q
          BY <3>2 DEF Range
    <3>4. NoRepeat(extract')
          BY <3>1, <3>3 DEF NoRepeat, OnceInv
    <3>5. OnceInv'
          BY <2>1, <3>1, <3>2, <3>4 DEF OnceInv
    <3>6. \A p, r \in Range(entered) : Before(extract', p, r) => Before(extract, p, r)
          BY <1>a, <2>3, <3>2, AppendOrder
    <3>7. TurnInv'
          BY <2>1, <3>1, <3>2, <3>6 DEF TurnInv
    <3>8. QED BY <1>a, <2>1, <3>1, <3>5, <3>7 DEF PromiseType
  <2>4. QED BY <1>2, <2>2, <2>3 DEF Promise!WriteAtOnce, Line, Said
<1>3. CASE Promise!WriteFirst
  <2> DEFINE h == Head(Line)
  <2>1. /\ Line # <<>> /\ extract' = Append(extract, h) /\ Line' = Tail(Line)
        /\ UNCHANGED <<Said, entered>>
        BY <1>3 DEF Promise!WriteFirst, Line, Said
  <2>2. /\ Suffix(Line, Line', 1) /\ h \in Queries /\ h \in Range(Line)
        /\ h \notin Range(Line')
        /\ \A q \in Range(Line') : Before(Line, h, q)
        /\ Range(Line) = {h} \cup Range(Line')
        BY <1>a, <2>1, TailIsSuffix DEF OnceInv
  <2> HIDE DEF h
  <2>3. /\ NoRepeat(Line') /\ \A p, q : Before(Line', p, q) => Before(Line, p, q)
        BY <1>a, <2>2, SuffixKeeps DEF OnceInv
  <2>4. /\ Range(extract') = Range(extract) \cup {h} /\ extract' \in Seq(Queries)
        /\ DOMAIN extract' = DOMAIN extract \cup {Len(extract) + 1}
        /\ \A i \in DOMAIN extract : extract'[i] = extract[i]
        /\ extract'[Len(extract) + 1] = h
        BY <1>a, <2>1, <2>2, Appended
  <2>5. h \notin Range(extract) /\ h \in Range(entered) /\ h \in Said
        BY <2>2 DEF OnceInv
  <2>6. \A i \in DOMAIN extract : extract[i] # h
        BY <2>5 DEF Range
  <2>7. NoRepeat(extract')
        BY <2>4, <2>6 DEF NoRepeat, OnceInv
  <2>8. OnceInv'
        BY <2>1, <2>2, <2>3, <2>4, <2>5, <2>7 DEF OnceInv
  <2>9. \A p, q : Before(extract', p, q) => Before(extract, p, q) \/ (p \in Range(extract) /\ q = h)
        BY <1>a, <2>1, <2>2, AppendOrder
  <2>10. TurnInv'
    <3>1. ASSUME NEW p \in Range(entered), NEW q \in Range(entered),
                 \/ Before(extract', p, q)
                 \/ Before(Line', p, q)
                 \/ p \in Range(extract') /\ q \in Range(Line')
          PROVE  Before(entered, p, q)
      <4>1. CASE Before(extract', p, q)
            BY <2>2, <2>9, <4>1 DEF TurnInv
      <4>2. CASE Before(Line', p, q)
            BY <2>3, <4>2 DEF TurnInv
      <4>3. CASE p \in Range(extract') /\ q \in Range(Line')
            BY <2>2, <2>4, <4>3 DEF TurnInv
      <4>4. QED BY <3>1, <4>1, <4>2, <4>3
    <3>2. QED BY <2>1, <3>1 DEF TurnInv
  <2>11. QED BY <1>a, <2>1, <2>2, <2>4, <2>8, <2>10 DEF PromiseType, Suffix
<1>4. CASE Promise!LoseFront
  <2>1. PICK n \in 1 .. Len(Line) : Line' = SubSeq(Line, n + 1, Len(Line))
        BY <1>4 DEF Promise!LoseFront, Line, Said
  <2>2. UNCHANGED <<extract, Said, entered>>
        BY <1>4 DEF Promise!LoseFront, Line, Said
  <2>3. Suffix(Line, Line', n)
        BY <1>a, <2>1, CutIsSuffix
  <2>4. /\ Range(Line') \subseteq Range(Line) /\ NoRepeat(Line')
        /\ \A p, q : Before(Line', p, q) => Before(Line, p, q)
        BY <1>a, <2>3, SuffixKeeps DEF OnceInv
  <2>5. OnceInv'
        BY <2>2, <2>4 DEF OnceInv
  <2>6. TurnInv'
        BY <2>2, <2>4 DEF TurnInv
  <2>7. QED BY <2>2, <2>3, <2>5, <2>6 DEF PromiseType, Suffix
<1>5. CASE Promise!Erase
  <2>1. extract' = <<>> /\ UNCHANGED <<Line, Said, entered>>
        BY <1>5 DEF Promise!Erase, Line, Said
  <2>2. Range(<<>>) = {} /\ <<>> \in Seq(Queries)
        BY DEF Range
  <2>3. OnceInv'
        BY <2>1, <2>2 DEF OnceInv, NoRepeat
  <2>4. \A p, q : ~Before(<<>>, p, q)
        BY DEF Before
  <2>5. TurnInv'
        BY <2>1, <2>2, <2>4 DEF TurnInv
  <2>6. QED BY <2>1, <2>2, <2>3, <2>5 DEF PromiseType
<1>6. CASE UNCHANGED Promise!vars
      BY <1>6 DEF Promise!vars, PromiseType, OnceInv, TurnInv, Line, Said
<1>7. QED
      BY <1>1, <1>2, <1>3, <1>4, <1>5, <1>6 DEF Promise!Next

\* Whatever keeps the promise has no query twice in the extract, and those that
\* stood in line are there in their order.
THEOREM PromiseKept == Promise!Spec => [](Promise!RowsOnce /\ Promise!RowsInTurn)
<1>1. PromiseInv => Promise!RowsOnce /\ Promise!RowsInTurn
      BY DEF PromiseInv, OnceInv, NoRepeat, TurnInv, Promise!RowsOnce, Promise!RowsInTurn,
             Promise!Before, Before, Promise!Range, Range
<1>2. QED BY <1>1, PromiseHolds, PromiseKeeps, PTL DEF Promise!Spec

LEMMA FactsHold == Spec => [](Promise!RowsOnce /\ Promise!RowsInTurn)
<1>1. QED BY ImplementsThePromise, PromiseKept, PTL DEF KeepsThePromise

\* No query has two rows, whatever closes, crashes or is taken out of the queue.
THEOREM NoRowTwice == Spec => []NeverTwice
<1>1. Promise!RowsOnce => NeverTwice
      BY DEF Promise!RowsOnce, NeverTwice
<1>2. QED BY <1>1, FactsHold, PTL

\* The queries that waited are written in the order in which they came.
THEOREM RowsKeepTheirTurn == Spec => []WaitInOrder
<1>1. Promise!RowsInTurn => WaitInOrder
      BY DEF Promise!RowsInTurn, WaitInOrder, Promise!Before, Before, Promise!Range, Range
<1>2. QED BY <1>1, FactsHold, PTL

=============================================================================
