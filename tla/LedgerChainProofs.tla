-------------------------- MODULE LedgerChainProofs --------------------------
(***************************************************************************)
(* Proofs about LedgerChain, for every bound, every kind of damage and any *)
(* interleaving of the programs that write the file.                       *)
(***************************************************************************)
EXTENDS LedgerChain, TLAPS

\* Hashes grow along the table and are all younger than the anchor.
Ordered ==
    /\ anchor < next
    /\ \A i \in DOMAIN rows : /\ anchor < rows[i].hash
                              /\ rows[i].prev < rows[i].hash
                              /\ rows[i].hash < next
    /\ \A i, j \in DOMAIN rows : i < j => rows[i].hash < rows[j].hash
    /\ head # None => head < next
    /\ \A g \in gone : g < next

\* A file without a schema mark has no head and recorded no loss.
OldFile == schema = NoHead => head = None /\ gone = {} /\ "head" \notin harm

HeadMissing == schema = HeadLost \/ (schema = SchemaHead /\ head = None)

Broken(i) == rows[i].prev # Follows(i)

\* The recorded end is never older than a row that broke the chain, nor than
\* an end that vanished; and one that is not in the chain is known to be gone.
HeadIsLast ==
    head # None =>
        /\ \A i \in DOMAIN rows : Broken(i) => rows[i].hash <= head
        /\ \A g \in gone : g <= head
        /\ head > anchor /\ ~InChain(head) => head \in gone

\* Every vanished end has left its trace in the file.
Traced(g) ==
    \/ HeadMissing
    \/ head \in gone /\ g <= head /\ ~InChain(head)
    \/ \E i \in DOMAIN rows : Broken(i) /\ rows[i].prev \in gone /\ g <= rows[i].prev

LossTraced == "count" \notin harm => \A g \in gone : Traced(g)

CountKept == "count" \notin harm /\ head # None => count # None

HeadLossInv == "head" \in harm => HeadMissing

\* Where only programs that keep the head wrote, it is where the table ends.
HeadAtTableEnd ==
    harm \subseteq {"count", "past"} => head = TableEnd \/ (head = None /\ schema = NoHead)

Unspoiled == harm \subseteq {"count", "old"} \/ harm \subseteq {"count", "past"}

Healthy ==
    Unspoiled =>
        /\ \A i \in DOMAIN rows : ~Bad(i)
        /\ ~HeadMissing
        /\ head # None => InChain(head)

ChainInv ==
    /\ TypeOK
    /\ Ordered
    /\ OldFile
    /\ HeadIsLast
    /\ CountKept
    /\ HeadLossInv

-----------------------------------------------------------------------------
\* The three ways the table changes length, element by element.
LEMMA AppendFacts ==
    ASSUME NEW S, NEW s \in Seq(S), NEW e \in S
    PROVE  /\ Append(s, e) \in Seq(S)
           /\ Append(s, e) # <<>>
           /\ Len(s) \in Nat
           /\ Len(Append(s, e)) = Len(s) + 1
           /\ DOMAIN s = 1 .. Len(s)
           /\ DOMAIN Append(s, e) = 1 .. (Len(s) + 1)
           /\ \A i \in 1 .. Len(s) : Append(s, e)[i] = s[i]
           /\ Append(s, e)[Len(s) + 1] = e
OBVIOUS

LEMMA PrefixFacts ==
    ASSUME NEW S, NEW s \in Seq(S), NEW k \in DOMAIN s
    PROVE  /\ SubSeq(s, 1, Len(s) - k) \in Seq(S)
           /\ Len(s) \in Nat
           /\ DOMAIN s = 1 .. Len(s)
           /\ Len(SubSeq(s, 1, Len(s) - k)) = Len(s) - k
           /\ DOMAIN SubSeq(s, 1, Len(s) - k) = 1 .. (Len(s) - k)
           /\ \A i \in 1 .. (Len(s) - k) : SubSeq(s, 1, Len(s) - k)[i] = s[i]
<1>1. Len(s) \in Nat /\ DOMAIN s = 1 .. Len(s) /\ k \in 1 .. Len(s)
  OBVIOUS
<1>2. \A i \in 1 .. (Len(s) - k) : s[i] \in S
  BY <1>1
<1>3. QED
  BY <1>1, <1>2

LEMMA SuffixFacts ==
    ASSUME NEW S, NEW s \in Seq(S), NEW k \in DOMAIN s
    PROVE  /\ SubSeq(s, k + 1, Len(s)) \in Seq(S)
           /\ Len(s) \in Nat
           /\ DOMAIN s = 1 .. Len(s)
           /\ Len(SubSeq(s, k + 1, Len(s))) = Len(s) - k
           /\ DOMAIN SubSeq(s, k + 1, Len(s)) = 1 .. (Len(s) - k)
           /\ \A i \in 1 .. (Len(s) - k) : SubSeq(s, k + 1, Len(s))[i] = s[k + i]
<1>1. Len(s) \in Nat /\ DOMAIN s = 1 .. Len(s) /\ k \in 1 .. Len(s)
  OBVIOUS
<1>2. \A i \in (k + 1) .. Len(s) : s[i] \in S
  BY <1>1
<1>3. QED
  BY <1>1, <1>2

-----------------------------------------------------------------------------
\* TypeOK: the table, the settings and the schema mark stay of their types
\* through every operation and every damage.
LEMMA TypeInit == Init => TypeOK
BY DEF Init, TypeOK, Genesis, Hash, NoHead, SchemaHead, HeadLost

LEMMA RowFields ==
    ASSUME TypeOK, NEW i \in DOMAIN rows
    PROVE  /\ rows[i] \in Row
           /\ rows[i].prev \in Nat
           /\ rows[i].hash \in Nat
           /\ rows[i].sound \in BOOLEAN
<1>1. rows[i] \in Row
  BY DEF TypeOK
<1>2. QED
  BY <1>1 DEF Row, Hash

LEMMA NewCountType ==
    ASSUME TypeOK PROVE NewCount \in Nat
BY AppendFacts DEF TypeOK, NewCount, HeadAtEnd, HeadGone

LEMMA NewRowType ==
    ASSUME TypeOK, ChainAssumption PROVE NewRow(IF HeadGone THEN head ELSE TableEnd) \in Row
<1>1. TableEnd \in Hash
  <2>1. CASE rows = <<>>
    BY <2>1 DEF TypeOK, TableEnd
  <2>2. CASE rows # <<>>
    <3>1. Len(rows) \in DOMAIN rows
      BY <2>2 DEF TypeOK
    <3>2. rows[Len(rows)] \in Row
      BY <3>1 DEF TypeOK
    <3>3. QED
      BY <2>2, <3>2 DEF TableEnd, Row
  <2>3. QED
    BY <2>1, <2>2
<1>2. HeadGone => head \in Hash
  BY DEF HeadGone, TypeOK
<1>3. QED
  BY <1>1, <1>2 DEF NewRow, Row, TypeOK, Hash

LEMMA TypeStep ==
    ASSUME TypeOK, [Next]_vars, ChainAssumption PROVE TypeOK'
<1> USE DEF TypeOK, Hash, NoHead, SchemaHead, HeadLost, past
<1>1. CASE AppendRow
  <2>1. rows' \in Seq(Row)
    BY <1>1, NewRowType, AppendFacts DEF AppendRow
  <2>2. QED
    BY <1>1, <2>1, NewCountType DEF AppendRow, NewSchema
<1>2. CASE OldAppend
  <2>1. NewRow(TableEnd) \in Row
    <3>1. CASE rows = <<>>
      BY <3>1 DEF TableEnd, NewRow, Row
    <3>2. CASE rows # <<>>
      <4>1. Len(rows) \in DOMAIN rows
        BY <3>2
      <4>2. rows[Len(rows)] \in Row
        BY <4>1
      <4>3. QED
        BY <3>2, <4>2 DEF TableEnd, NewRow, Row
    <3>3. QED
      BY <3>1, <3>2
  <2>2. QED
    BY <1>2, <2>1, AppendFacts DEF OldAppend
<1>3. ASSUME NEW k \in DOMAIN rows, Prune(k) PROVE TypeOK'
  <2>1. rows' \in Seq(Row) /\ k \in Nat
    BY <1>3, SuffixFacts DEF Prune
  <2>2. anchor' \in Nat
    BY <1>3, RowFields DEF Prune
  <2>3. pruned' \in Nat
    BY <1>3, <2>1 DEF Prune, PrunedAfter
  <2>4. gone' \subseteq Nat /\ harm' \subseteq Damage \cup {"old", "past"}
    BY <1>3 DEF Prune
  <2>5. QED
    BY <1>3, <2>1, <2>2, <2>3, <2>4 DEF Prune
<1>4. CASE Wipe
  BY <1>4 DEF Wipe, Genesis
<1>5. ASSUME NEW k \in DOMAIN rows, LoseRows(k) PROVE TypeOK'
  <2>1. rows' \in Seq(Row) /\ k \in Nat
    BY <1>5, PrefixFacts DEF LoseRows
  <2>2. gone' \subseteq Nat
    <3> SUFFICES ASSUME NEW h \in gone' PROVE h \in Nat
      OBVIOUS
    <3>1. h \in gone \/ \E i \in DOMAIN rows : rows[i].hash = h
      BY <1>5 DEF LoseRows
    <3>2. QED
      BY <3>1, RowFields
  <2>3. vanished' \in Nat /\ harm' \subseteq Damage \cup {"old", "past"}
    BY <1>5, <2>1 DEF LoseRows
  <2>4. QED
    BY <1>5, <2>1, <2>2, <2>3 DEF LoseRows
<1>6. CASE LoseHead
  BY <1>6 DEF LoseHead
<1>7. CASE LoseCount
  BY <1>7 DEF LoseCount
<1>8. ASSUME NEW i \in DOMAIN rows, AlterField(i) PROVE TypeOK'
  <2>1. rows[i] \in Row
    BY <1>8
  <2>2. [rows[i] EXCEPT !.sound = FALSE] \in Row
    BY <2>1 DEF Row
  <2>3. rows' \in Seq(Row)
    BY <1>8, <2>2 DEF AlterField
  <2>4. QED
    BY <1>8, <2>3 DEF AlterField
<1>9. CASE UNCHANGED vars
  BY <1>9 DEF vars
<1>10. QED
  BY <1>1, <1>2, <1>3, <1>4, <1>5, <1>6, <1>7, <1>8, <1>9 DEF Next

\* The file keeps its shape through every append, prune, wipe and damage
\* (Ledger::append, prune and wipe).
THEOREM TypeCorrect == Spec => []TypeOK
<1>1. TypeOK /\ [Next]_vars => TypeOK'
  BY TypeStep, ChainAssumption
<1>2. QED
  BY TypeInit, <1>1, PTL DEF Spec

-----------------------------------------------------------------------------
\* What each change of the table does to the links and to the chain's hashes.
LEMMA TableEndFacts ==
    ASSUME TypeOK
    PROVE  /\ Len(rows) \in Nat
           /\ DOMAIN rows = 1 .. Len(rows)
           /\ TableEnd \in Nat
           /\ InChain(TableEnd)
           /\ Follows(Len(rows) + 1) = TableEnd
           /\ \A i \in DOMAIN rows : Follows(i) \in Nat
           /\ Ordered => TableEnd < next
<1>1. Len(rows) \in Nat /\ DOMAIN rows = 1 .. Len(rows)
  BY DEF TypeOK
<1>2. CASE rows = <<>>
  BY <1>1, <1>2 DEF TypeOK, TableEnd, InChain, Follows, Ordered, Hash
<1>3. CASE rows # <<>>
  <2>1. Len(rows) \in DOMAIN rows /\ Len(rows) # 0
    BY <1>1, <1>3 DEF TypeOK
  <2>2. TableEnd \in Nat /\ InChain(TableEnd)
    BY <1>3, <2>1, RowFields DEF TableEnd, InChain
  <2>3. Follows(Len(rows) + 1) = TableEnd
    BY <1>1, <1>3, <2>1 DEF Follows, TableEnd
  <2>4. ASSUME NEW i \in DOMAIN rows PROVE Follows(i) \in Nat
    <3>1. CASE i = 1
      BY <3>1 DEF Follows, TypeOK, Hash
    <3>2. CASE i # 1
      <4>1. i - 1 \in DOMAIN rows
        BY <1>1, <3>2
      <4>2. QED
        BY <3>2, <4>1, RowFields DEF Follows
    <3>3. QED
      BY <3>1, <3>2
  <2>5. Ordered => TableEnd < next
    BY <1>3, <2>1 DEF Ordered, TableEnd
  <2>6. QED
    BY <1>1, <2>2, <2>3, <2>4, <2>5
<1>4. QED
  BY <1>2, <1>3

LEMMA GrowShape ==
    ASSUME TypeOK, NEW p \in Nat, rows' = Append(rows, NewRow(p)), anchor' = anchor
    PROVE  /\ Len(rows) + 1 \in DOMAIN rows'
           /\ DOMAIN rows' = DOMAIN rows \cup {Len(rows) + 1}
           /\ \A i \in DOMAIN rows : rows'[i] = rows[i] /\ Follows(i)' = Follows(i)
           /\ rows'[Len(rows) + 1].prev = p
           /\ rows'[Len(rows) + 1].hash = next
           /\ rows'[Len(rows) + 1].sound
           /\ \A j : j = Len(rows) + 1 => Follows(j)' = TableEnd
           /\ TableEnd' = next
           /\ \A h : InChain(h)' <=> InChain(h) \/ h = next
<1>1. NewRow(p) \in Row
  BY DEF NewRow, Row, TypeOK, Hash
<1>2. /\ Len(rows) \in Nat
      /\ Len(rows') = Len(rows) + 1
      /\ rows' # <<>>
      /\ DOMAIN rows = 1 .. Len(rows)
      /\ DOMAIN rows' = 1 .. (Len(rows) + 1)
      /\ \A i \in 1 .. Len(rows) : rows'[i] = rows[i]
      /\ rows'[Len(rows) + 1] = NewRow(p)
  BY <1>1, AppendFacts DEF TypeOK
<1>3. \A i \in DOMAIN rows : Follows(i)' = Follows(i)
  BY <1>2 DEF Follows
<1>4. ASSUME NEW j, j = Len(rows) + 1 PROVE Follows(j)' = TableEnd
  <2>1. CASE rows = <<>>
    BY <1>2, <1>4, <2>1 DEF Follows, TableEnd
  <2>2. CASE rows # <<>>
    <3>1. Len(rows) \in 1 .. Len(rows) /\ j # 1 /\ j - 1 = Len(rows)
      BY <1>2, <1>4, <2>2 DEF TypeOK
    <3>2. rows'[Len(rows)] = rows[Len(rows)]
      BY <1>2, <3>1
    <3>3. QED
      BY <2>2, <3>1, <3>2 DEF Follows, TableEnd
  <2>3. QED
    BY <2>1, <2>2
<1>5. TableEnd' = next
  BY <1>2 DEF TableEnd, NewRow
<1>6. ASSUME NEW h PROVE InChain(h)' <=> InChain(h) \/ h = next
  <2>1. (\E i \in DOMAIN rows' : rows'[i].hash = h)
           <=> (\E i \in DOMAIN rows : rows[i].hash = h) \/ h = next
    BY <1>2 DEF NewRow
  <2>2. QED
    BY <2>1 DEF InChain
<1>7. QED
  BY <1>2, <1>3, <1>4, <1>5, <1>6 DEF NewRow

LEMMA PruneShape ==
    ASSUME TypeOK, Ordered, NEW k \in DOMAIN rows, Prune(k)
    PROVE  /\ k \in Nat
           /\ Len(rows) \in Nat
           /\ DOMAIN rows = 1 .. Len(rows)
           /\ DOMAIN rows' = 1 .. (Len(rows) - k)
           /\ \A i \in DOMAIN rows' : /\ k + i \in DOMAIN rows
                                      /\ rows'[i] = rows[k + i]
                                      /\ Follows(i)' = Follows(k + i)
           /\ anchor' = rows[k].hash
           /\ TableEnd' = TableEnd
           /\ \A h : InChain(h)' => InChain(h)
           /\ \A h \in Nat : InChain(h) /\ h > anchor' => InChain(h)'
<1>1. /\ k \in Nat /\ k >= 1
      /\ Len(rows) \in Nat
      /\ DOMAIN rows = 1 .. Len(rows)
      /\ Len(rows') = Len(rows) - k
      /\ DOMAIN rows' = 1 .. (Len(rows) - k)
      /\ \A i \in 1 .. (Len(rows) - k) : rows'[i] = rows[k + i]
      /\ rows' \in Seq(Row)
      /\ anchor' = rows[k].hash
  BY SuffixFacts DEF Prune, TypeOK
<1>2. ASSUME NEW i \in DOMAIN rows' PROVE k + i \in DOMAIN rows /\ Follows(i)' = Follows(k + i)
  <2>1. k + i \in DOMAIN rows /\ k + i # 1 /\ i \in 1 .. (Len(rows) - k)
    BY <1>1, <1>2
  <2>2. CASE i = 1
    BY <1>1, <2>1, <2>2 DEF Follows
  <2>3. CASE i # 1
    <3>1. i - 1 \in 1 .. (Len(rows) - k) /\ k + (i - 1) = (k + i) - 1
      BY <1>1, <2>1, <2>3
    <3>2. rows'[i - 1] = rows[(k + i) - 1]
      BY <1>1, <3>1
    <3>3. QED
      BY <2>1, <2>3, <3>2 DEF Follows
  <2>4. QED
    BY <2>1, <2>2, <2>3
<1>3. TableEnd' = TableEnd
  <2>0. rows # <<>>
    BY <1>1
  <2>1. CASE Len(rows) = k
    BY <1>1, <2>0, <2>1 DEF TableEnd
  <2>2. CASE Len(rows) # k
    <3>1. Len(rows) - k \in 1 .. (Len(rows) - k) /\ k + (Len(rows) - k) = Len(rows)
      BY <1>1, <2>2
    <3>2. rows'[Len(rows) - k] = rows[Len(rows)]
      BY <1>1, <3>1
    <3>3. rows' # <<>>
      BY <1>1, <3>1
    <3>4. QED
      BY <1>1, <2>0, <3>2, <3>3 DEF TableEnd
  <2>3. QED
    BY <2>1, <2>2
<1>4. ASSUME NEW h, InChain(h)' PROVE InChain(h)
  <2>1. CASE h = anchor'
    BY <1>1, <2>1 DEF InChain
  <2>2. CASE \E i \in DOMAIN rows' : rows'[i].hash = h
    BY <1>1, <1>2, <2>2 DEF InChain
  <2>3. QED
    BY <1>4, <2>1, <2>2 DEF InChain
<1>5. ASSUME NEW h \in Nat, InChain(h), h > anchor' PROVE InChain(h)'
  <2>1. h # anchor
    BY <1>1, <1>5, RowFields DEF Ordered, TypeOK, Hash
  <2>2. PICK i \in DOMAIN rows : rows[i].hash = h
    BY <1>5, <2>1 DEF InChain
  <2>3. i > k
    BY <1>1, <1>5, <2>2, RowFields DEF Ordered
  <2>4. i - k \in DOMAIN rows' /\ rows'[i - k] = rows[i]
    <3>1. i - k \in 1 .. (Len(rows) - k) /\ k + (i - k) = i
      BY <1>1, <2>3
    <3>2. QED
      BY <1>1, <3>1
  <2>5. QED
    BY <2>2, <2>4 DEF InChain
<1>6. QED
  BY <1>1, <1>2, <1>3, <1>4, <1>5

LEMMA LoseShape ==
    ASSUME TypeOK, NEW k \in DOMAIN rows, LoseRows(k)
    PROVE  /\ k \in Nat /\ k >= 1
           /\ Len(rows) \in Nat
           /\ DOMAIN rows = 1 .. Len(rows)
           /\ DOMAIN rows' = 1 .. (Len(rows) - k)
           /\ \A i \in DOMAIN rows' : /\ i \in DOMAIN rows
                                      /\ rows'[i] = rows[i]
                                      /\ Follows(i)' = Follows(i)
           /\ \A h : InChain(h)' => InChain(h)
           /\ \A h : InChain(h) => \/ InChain(h)'
                                   \/ \E i \in DOMAIN rows : i > Len(rows) - k /\ rows[i].hash = h
<1>1. /\ k \in Nat /\ k >= 1
      /\ Len(rows) \in Nat
      /\ DOMAIN rows = 1 .. Len(rows)
      /\ DOMAIN rows' = 1 .. (Len(rows) - k)
      /\ \A i \in 1 .. (Len(rows) - k) : rows'[i] = rows[i]
      /\ anchor' = anchor
  BY PrefixFacts DEF LoseRows, TypeOK
<1>2. ASSUME NEW i \in DOMAIN rows' PROVE i \in DOMAIN rows /\ Follows(i)' = Follows(i)
  BY <1>1, <1>2 DEF Follows
<1>3. ASSUME NEW h, InChain(h)' PROVE InChain(h)
  BY <1>1, <1>3 DEF InChain
<1>4. ASSUME NEW h, InChain(h), ~InChain(h)'
      PROVE \E i \in DOMAIN rows : i > Len(rows) - k /\ rows[i].hash = h
  BY <1>1, <1>4 DEF InChain
<1>5. QED
  BY <1>1, <1>2, <1>3, <1>4

LEMMA AlterShape ==
    ASSUME TypeOK, NEW k \in DOMAIN rows, AlterField(k)
    PROVE  /\ DOMAIN rows' = DOMAIN rows
           /\ \A i \in DOMAIN rows : /\ rows'[i].prev = rows[i].prev
                                     /\ rows'[i].hash = rows[i].hash
                                     /\ Follows(i)' = Follows(i)
           /\ \A h : InChain(h)' <=> InChain(h)
<1>1. /\ DOMAIN rows' = DOMAIN rows
      /\ Len(rows) \in Nat
      /\ DOMAIN rows = 1 .. Len(rows)
      /\ anchor' = anchor
      /\ rows' = [rows EXCEPT ![k].sound = FALSE]
  BY DEF AlterField, TypeOK
<1>2. ASSUME NEW i \in DOMAIN rows
      PROVE rows'[i].prev = rows[i].prev /\ rows'[i].hash = rows[i].hash
  <2>1. rows[i] \in Row
    BY RowFields
  <2>2. QED
    BY <1>1, <2>1 DEF Row
<1>3. \A i \in DOMAIN rows : Follows(i)' = Follows(i)
  BY <1>1, <1>2 DEF Follows
<1>4. \A h : InChain(h)' <=> InChain(h)
  BY <1>1, <1>2 DEF InChain
<1>5. QED
  BY <1>1, <1>2, <1>3, <1>4

-----------------------------------------------------------------------------
\* The order of the hashes is kept: prefix and suffix of the table keep it,
\* and a new row is younger than everything.
LEMMA OrderedStep ==
    ASSUME ChainAssumption, TypeOK, Ordered, [Next]_vars PROVE Ordered'
<1> USE DEF past
<1>1. ASSUME NEW p \in Nat, p < next, rows' = Append(rows, NewRow(p)), anchor' = anchor,
             next' = next + 1, head' \in {head, next}, gone' = gone
      PROVE  Ordered'
  <2>1. next \in Nat /\ head \in Nat \cup {None} /\ gone \subseteq Nat /\ anchor \in Nat
    BY DEF TypeOK, Hash
  <2>2. \A i \in DOMAIN rows' : i \in DOMAIN rows \/ i = Len(rows) + 1
    BY <1>1, GrowShape
  <2>3. ASSUME NEW i \in DOMAIN rows'
        PROVE anchor < rows'[i].hash /\ rows'[i].prev < rows'[i].hash /\ rows'[i].hash < next'
    <3>1. CASE i \in DOMAIN rows
      BY <1>1, <2>1, <3>1, GrowShape, RowFields DEF Ordered
    <3>2. CASE i = Len(rows) + 1
      BY <1>1, <2>1, <3>2, GrowShape DEF Ordered
    <3>3. QED
      BY <2>2, <3>1, <3>2
  <2>4. ASSUME NEW i \in DOMAIN rows', NEW j \in DOMAIN rows', i < j
        PROVE rows'[i].hash < rows'[j].hash
    <3>1. i \in DOMAIN rows
      BY <1>1, <2>2, <2>4, GrowShape, TableEndFacts
    <3>2. CASE j \in DOMAIN rows
      BY <1>1, <2>4, <3>1, <3>2, GrowShape DEF Ordered
    <3>3. CASE j = Len(rows) + 1
      BY <1>1, <3>1, <3>3, GrowShape DEF Ordered
    <3>4. QED
      BY <2>2, <3>2, <3>3
  <2>5. (head # None => head < next)' /\ \A g \in gone' : g < next'
    BY <1>1, <2>1, ChainAssumption DEF Ordered, ChainAssumption
  <2>6. anchor' < next'
    BY <1>1, <2>1 DEF Ordered
  <2>7. QED
    BY <1>1, <2>3, <2>4, <2>5, <2>6 DEF Ordered
<1>2. CASE AppendRow
  <2>1. (IF HeadGone THEN head ELSE TableEnd) \in Nat
    BY TableEndFacts DEF HeadGone, TypeOK, Hash
  <2>2. (IF HeadGone THEN head ELSE TableEnd) < next
    BY TableEndFacts DEF HeadGone, Ordered
  <2>3. QED
    BY <1>1, <1>2, <2>1, <2>2 DEF AppendRow
<1>3. CASE OldAppend
  BY <1>1, <1>3, TableEndFacts DEF OldAppend
<1>4. ASSUME NEW k \in DOMAIN rows, Prune(k) PROVE Ordered'
  <2>1. gone' \subseteq gone /\ head' = head /\ next' = next
    BY <1>4 DEF Prune
  <2>2. \A i \in DOMAIN rows' : k + i \in DOMAIN rows /\ rows'[i] = rows[k + i] /\ k < k + i
    BY <1>4, PruneShape
  <2>3. \A i, j \in DOMAIN rows' : i < j => k + i < k + j
    BY <1>4, PruneShape
  <2>4. anchor' = rows[k].hash
    BY <1>4, PruneShape
  <2>5. QED
    BY <2>1, <2>2, <2>3, <2>4 DEF Ordered
<1>5. CASE Wipe
  BY <1>5, ChainAssumption DEF Wipe, Ordered, Genesis, TypeOK, Hash, ChainAssumption
<1>6. ASSUME NEW k \in DOMAIN rows, LoseRows(k) PROVE Ordered'
  <2>1. anchor' = anchor /\ head' = head /\ next' = next
    BY <1>6 DEF LoseRows
  <2>2. \A g \in gone' : g \in gone \/ \E i \in DOMAIN rows : rows[i].hash = g
    BY <1>6 DEF LoseRows
  <2>3. \A i \in DOMAIN rows' : i \in DOMAIN rows /\ rows'[i] = rows[i]
    BY <1>6, LoseShape
  <2>4. QED
    BY <2>1, <2>2, <2>3 DEF Ordered
<1>7. CASE LoseHead
  BY <1>7 DEF LoseHead, Ordered
<1>8. CASE LoseCount
  BY <1>8 DEF LoseCount, Ordered
<1>9. ASSUME NEW k \in DOMAIN rows, AlterField(k) PROVE Ordered'
  <2>1. anchor' = anchor /\ head' = head /\ next' = next /\ gone' = gone
    BY <1>9 DEF AlterField
  <2>2. QED
    BY <1>9, <2>1, AlterShape DEF Ordered
<1>10. CASE UNCHANGED vars
  BY <1>10 DEF vars, Ordered
<1>11. QED
  BY <1>2, <1>3, <1>4, <1>5, <1>6, <1>7, <1>8, <1>9, <1>10 DEF Next

-----------------------------------------------------------------------------
\* The schema mark never loses what it records before a wipe.
LEMMA MarksStep ==
    ASSUME ChainAssumption, TypeOK, OldFile, CountKept, HeadLossInv, [Next]_vars
    PROVE  OldFile' /\ CountKept' /\ HeadLossInv'
<1> USE DEF OldFile, CountKept, HeadLossInv, HeadMissing, NoHead, SchemaHead, HeadLost, past
<1>1. CASE AppendRow
  BY <1>1, NewCountType, ChainAssumption DEF AppendRow, NewSchema, ChainAssumption, TypeOK, Hash
<1>2. CASE OldAppend
  BY <1>2 DEF OldAppend
<1>3. ASSUME NEW k \in DOMAIN rows, Prune(k) PROVE OldFile' /\ CountKept' /\ HeadLossInv'
  BY <1>3 DEF Prune
<1>4. CASE Wipe
  BY <1>4, ChainAssumption DEF Wipe, ChainAssumption, Genesis
<1>5. ASSUME NEW k \in DOMAIN rows, LoseRows(k) PROVE OldFile' /\ CountKept' /\ HeadLossInv'
  <2>1. \A h \in DOMAIN rows : rows[h].hash # None
    BY RowFields, ChainAssumption DEF ChainAssumption
  <2>2. schema = NoHead => gone' = {}
    BY <1>5, <2>1 DEF LoseRows
  <2>3. QED
    BY <1>5, <2>2 DEF LoseRows
<1>6. CASE LoseHead
  BY <1>6 DEF LoseHead, TypeOK
<1>7. CASE LoseCount
  BY <1>7 DEF LoseCount
<1>8. ASSUME NEW k \in DOMAIN rows, AlterField(k) PROVE OldFile' /\ CountKept' /\ HeadLossInv'
  BY <1>8 DEF AlterField
<1>9. CASE UNCHANGED vars
  BY <1>9 DEF vars
<1>10. QED
  BY <1>1, <1>2, <1>3, <1>4, <1>5, <1>6, <1>7, <1>8, <1>9 DEF Next

\* A prune keeps every vanished end at least as young as one it keeps.
LEMMA PruneKeepsYounger ==
    ASSUME TypeOK, Ordered, NEW k \in DOMAIN rows, Prune(k),
           NEW g \in gone', NEW h \in gone, g <= h
    PROVE  h \in gone'
<1>1. gone \subseteq Nat /\ g \in gone /\ h \in Nat /\ g \in Nat
  BY DEF Prune, TypeOK, Hash
<1>2. ASSUME NEW i \in 1 .. k, rows[i].prev \in gone PROVE h > rows[i].prev
  <2>1. g > rows[i].prev /\ rows[i].prev \in Nat
    BY <1>1, <1>2 DEF Prune
  <2>2. QED
    BY <1>1, <2>1
<1>3. QED
  BY <1>2 DEF Prune

LEMMA HeadIsLastStep ==
    ASSUME ChainAssumption, TypeOK, Ordered, HeadIsLast, [Next]_vars
    PROVE  HeadIsLast'
<1> USE DEF past, Broken
<1>0. /\ next \in Nat /\ anchor \in Nat /\ gone \subseteq Nat /\ head \in Nat \cup {None}
      /\ None \notin Nat
  BY ChainAssumption DEF TypeOK, Hash, ChainAssumption
<1>1. CASE AppendRow
  <2> DEFINE p == IF HeadGone THEN head ELSE TableEnd
  <2>1. /\ p \in Nat /\ rows' = Append(rows, NewRow(p)) /\ anchor' = anchor
        /\ head' = next /\ gone' = gone
    BY <1>1, TableEndFacts DEF AppendRow, HeadGone, TypeOK, Hash
  <2> HIDE DEF p
  <2>2. InChain(head)'
    BY <2>1, GrowShape
  <2>3. ASSUME NEW i \in DOMAIN rows' PROVE rows'[i].hash <= head'
    <3>1. CASE i \in DOMAIN rows
      BY <1>0, <2>1, <3>1, GrowShape, RowFields DEF Ordered
    <3>2. CASE i = Len(rows) + 1
      BY <1>0, <2>1, <3>2, GrowShape
    <3>3. QED
      BY <2>1, <3>1, <3>2, GrowShape
  <2>4. \A g \in gone' : g <= head'
    BY <1>0, <2>1 DEF Ordered
  <2>5. QED
    BY <2>2, <2>3, <2>4 DEF HeadIsLast
<1>2. CASE OldAppend
  <2>1. /\ TableEnd \in Nat /\ rows' = Append(rows, NewRow(TableEnd)) /\ anchor' = anchor
        /\ head' = head /\ gone' = gone
    BY <1>2, TableEndFacts DEF OldAppend
  <2>2. ASSUME NEW i \in DOMAIN rows', Broken(i)' PROVE i \in DOMAIN rows /\ Broken(i)
    <3>1. i # Len(rows) + 1
      BY <2>1, <2>2, GrowShape
    <3>2. QED
      BY <2>1, <2>2, <3>1, GrowShape
  <2>3. \A i \in DOMAIN rows : rows'[i] = rows[i]
    BY <2>1, GrowShape
  <2>4. InChain(head) => InChain(head)'
    BY <2>1, GrowShape
  <2>5. QED
    BY <2>1, <2>2, <2>3, <2>4 DEF HeadIsLast
<1>3. ASSUME NEW k \in DOMAIN rows, Prune(k) PROVE HeadIsLast'
  <2>1. head' = head /\ gone' \subseteq gone
    BY <1>3 DEF Prune
  <2>2. ASSUME NEW i \in DOMAIN rows', Broken(i)', head # None PROVE rows'[i].hash <= head
    <3>1. k + i \in DOMAIN rows /\ Broken(k + i)
      BY <1>3, <2>2, PruneShape
    <3>2. rows'[i] = rows[k + i]
      BY <1>3, <2>2, PruneShape
    <3>3. QED
      BY <2>2, <3>1, <3>2 DEF HeadIsLast
  <2>3. ASSUME head # None, head > anchor', ~InChain(head)' PROVE head \in gone'
    <3>1. anchor < anchor' /\ anchor' \in Nat /\ head \in Nat
      BY <1>0, <1>3, <2>3, PruneShape, RowFields DEF Ordered
    <3>2. head > anchor /\ ~InChain(head)
      <4>1. head > anchor
        BY <1>0, <2>3, <3>1
      <4>2. ~InChain(head)
        BY <1>3, <2>1, <2>3, <3>1, PruneShape DEF InChain
      <4>3. QED
        BY <4>1, <4>2
    <3>3. head \in gone
      BY <2>3, <3>2 DEF HeadIsLast
    <3>4. ASSUME NEW i \in 1 .. k PROVE head > rows[i].prev
      <4>1. i \in DOMAIN rows /\ i \in Nat /\ k \in Nat /\ (i < k \/ i = k)
        BY <1>3, PruneShape
      <4>2. rows[i].prev < rows[i].hash /\ rows[i].hash <= rows[k].hash
        BY <1>3, <4>1, RowFields DEF Ordered
      <4>3. anchor' = rows[k].hash
        BY <1>3, PruneShape
      <4>4. QED
        BY <2>3, <3>1, <4>1, <4>2, <4>3, RowFields
    <3>5. QED
      BY <1>3, <3>3, <3>4 DEF Prune
  <2>4. QED
    BY <2>1, <2>2, <2>3 DEF HeadIsLast
<1>4. CASE Wipe
  BY <1>4 DEF Wipe, HeadIsLast, Genesis, InChain
<1>5. ASSUME NEW k \in DOMAIN rows, LoseRows(k) PROVE HeadIsLast'
  <2>1. head' = head /\ anchor' = anchor /\ gone \subseteq gone'
    BY <1>5 DEF LoseRows
  <2>2. \A g \in gone' : g \in gone \/ g = head
    BY <1>5 DEF LoseRows
  <2>3. ASSUME NEW i \in DOMAIN rows', Broken(i)', head # None PROVE rows'[i].hash <= head
    BY <1>5, <2>3, LoseShape DEF HeadIsLast
  <2>4. ASSUME head # None, head > anchor, ~InChain(head)' PROVE head \in gone'
    <3>1. CASE InChain(head)
      <4>1. \E i \in DOMAIN rows : i > Len(rows) - k /\ rows[i].hash = head
        BY <1>5, <2>1, <2>4, <3>1, LoseShape DEF InChain
      <4>2. QED
        BY <1>5, <4>1 DEF LoseRows
    <3>2. CASE ~InChain(head)
      BY <2>1, <2>4, <3>2 DEF HeadIsLast
    <3>3. QED
      BY <3>1, <3>2
  <2>5. QED
    BY <1>0, <2>1, <2>2, <2>3, <2>4 DEF HeadIsLast
<1>6. CASE LoseHead
  BY <1>6 DEF LoseHead, HeadIsLast
<1>7. CASE LoseCount
  BY <1>7 DEF LoseCount, HeadIsLast, Follows, InChain
<1>8. ASSUME NEW k \in DOMAIN rows, AlterField(k) PROVE HeadIsLast'
  <2>1. anchor' = anchor /\ head' = head /\ gone' = gone
    BY <1>8 DEF AlterField
  <2>2. QED
    BY <1>8, <2>1, AlterShape DEF HeadIsLast
<1>9. CASE UNCHANGED vars
  BY <1>9 DEF vars, HeadIsLast, Follows, InChain
<1>10. QED
  BY <1>1, <1>2, <1>3, <1>4, <1>5, <1>6, <1>7, <1>8, <1>9 DEF Next

-----------------------------------------------------------------------------
\* While the count can be read, every step carries over the trace of every
\* vanished end: the next append turns a head that is not in the chain into a
\* row with a broken link, and a loss that takes that row takes the head too.
LEMMA LossTracedStep ==
    ASSUME ChainAssumption, TypeOK, Ordered, OldFile, HeadIsLast, CountKept,
           LossTraced, [Next]_vars
    PROVE  LossTraced'
<1> USE DEF past, Broken, NoHead, SchemaHead, HeadLost
<1>0. /\ next \in Nat /\ anchor \in Nat /\ gone \subseteq Nat /\ head \in Nat \cup {None}
      /\ None \notin Nat
  BY ChainAssumption DEF TypeOK, Hash, ChainAssumption
<1>00. gone' = {} \/ ("count" \in harm => "count" \in harm')
  BY DEF Next, AppendRow, OldAppend, Prune, Wipe, LoseRows, LoseHead, LoseCount, AlterField, vars
<1> SUFFICES ASSUME NEW g \in gone', "count" \notin harm, "count" \notin harm' PROVE Traced(g)'
  BY <1>00 DEF LossTraced
<1>1. CASE AppendRow
  <2>1. g \in gone /\ gone' = gone /\ Traced(g) /\ schema # NoHead
    BY <1>1 DEF AppendRow, LossTraced, OldFile
  <2> DEFINE p == IF HeadGone THEN head ELSE TableEnd
  <2>2. /\ p \in Nat /\ rows' = Append(rows, NewRow(p)) /\ anchor' = anchor
    BY <1>1, TableEndFacts DEF AppendRow, HeadGone, TypeOK, Hash
  <2>3. CASE HeadMissing
    BY <1>1, <2>1, <2>3 DEF AppendRow, NewSchema, HeadMissing, Traced
  <2>4. CASE head \in gone /\ g <= head /\ ~InChain(head)
    <3>1. HeadGone /\ head # TableEnd
      BY <1>0, <2>4, TableEndFacts DEF HeadGone, CountKept
    <3>2. p = head
      BY <3>1
    <3> HIDE DEF p
    <3>3. Len(rows) + 1 \in DOMAIN rows' /\ rows'[Len(rows) + 1].prev = head
      BY <2>2, <3>2, GrowShape
    <3>4. \E i \in DOMAIN rows' : i = Len(rows) + 1 /\ rows'[i].prev = head /\ Follows(i)' = TableEnd
      BY <2>2, <3>3, GrowShape
    <3>5. QED
      BY <2>1, <2>4, <3>1, <3>4 DEF Traced
  <2>5. CASE \E i \in DOMAIN rows : Broken(i) /\ rows[i].prev \in gone /\ g <= rows[i].prev
    <3> HIDE DEF p
    <3>1. PICK i \in DOMAIN rows : Broken(i) /\ rows[i].prev \in gone /\ g <= rows[i].prev
      BY <2>5
    <3>2. i \in DOMAIN rows' /\ rows'[i] = rows[i] /\ Follows(i)' = Follows(i)
      BY <2>2, <3>1, GrowShape
    <3>3. QED
      BY <2>1, <3>1, <3>2 DEF Traced
  <2>6. QED
    BY <2>1, <2>3, <2>4, <2>5 DEF Traced
<1>2. CASE OldAppend
  <2>1. /\ g \in gone /\ gone' = gone /\ Traced(g) /\ head' = head /\ schema' = schema
        /\ rows' = Append(rows, NewRow(TableEnd)) /\ TableEnd \in Nat /\ anchor' = anchor
    BY <1>2, TableEndFacts DEF OldAppend, LossTraced
  <2>2. CASE HeadMissing
    BY <2>1, <2>2 DEF HeadMissing, Traced
  <2>3. CASE head \in gone /\ g <= head /\ ~InChain(head)
    <3>1. head # next
      BY <1>0, <2>3 DEF Ordered
    <3>2. ~InChain(head)'
      BY <2>1, <2>3, <3>1, GrowShape DEF InChain
    <3>3. QED
      BY <2>1, <2>3, <3>2 DEF Traced
  <2>4. CASE \E i \in DOMAIN rows : Broken(i) /\ rows[i].prev \in gone /\ g <= rows[i].prev
    <3>1. PICK i \in DOMAIN rows : Broken(i) /\ rows[i].prev \in gone /\ g <= rows[i].prev
      BY <2>4
    <3>2. i \in DOMAIN rows' /\ rows'[i] = rows[i] /\ Follows(i)' = Follows(i)
      BY <2>1, <3>1, GrowShape
    <3>3. QED
      BY <2>1, <3>1, <3>2 DEF Traced
  <2>5. QED
    BY <2>1, <2>2, <2>3, <2>4 DEF Traced
<1>3. ASSUME NEW k \in DOMAIN rows, Prune(k) PROVE Traced(g)'
  <2>1. g \in gone /\ Traced(g) /\ head' = head /\ schema' = schema
    BY <1>3 DEF Prune, LossTraced
  <2>2. CASE HeadMissing
    BY <2>1, <2>2 DEF HeadMissing, Traced
  <2>3. CASE head \in gone /\ g <= head /\ ~InChain(head)
    <3>1. head \in gone'
      BY <1>3, <2>3, PruneKeepsYounger
    <3>2. ~InChain(head)'
      BY <1>3, <2>1, <2>3, PruneShape DEF InChain
    <3>3. QED
      BY <2>1, <2>3, <3>1, <3>2 DEF Traced
  <2>4. CASE \E i \in DOMAIN rows : Broken(i) /\ rows[i].prev \in gone /\ g <= rows[i].prev
    <3>1. PICK i \in DOMAIN rows : Broken(i) /\ rows[i].prev \in gone /\ g <= rows[i].prev
      BY <2>4
    <3>2. rows[i].prev \in gone'
      BY <1>3, <3>1, PruneKeepsYounger
    <3>3. ~(i \in 1 .. k)
      <4>1. \A j \in 1 .. k : rows[j].prev \in gone => g > rows[j].prev
        BY <1>3 DEF Prune
      <4>2. g \in Nat /\ rows[i].prev \in Nat
        BY <1>0, <2>1, <3>1
      <4>3. QED
        BY <3>1, <4>1, <4>2
    <3>4. k \in Nat /\ i - k \in DOMAIN rows' /\ k + (i - k) = i
      <4>1. i \in 1 .. Len(rows) /\ Len(rows) \in Nat /\ k \in 1 .. Len(rows)
        BY <1>3, PruneShape
      <4>2. QED
        BY <1>3, <3>3, <4>1, PruneShape
    <3>5. \E j \in DOMAIN rows' : rows'[j] = rows[i] /\ Follows(j)' = Follows(i)
      <4>1. PICK j \in DOMAIN rows' : k + j = i
        BY <3>4
      <4>2. rows'[j] = rows[i] /\ Follows(j)' = Follows(i)
        BY <1>3, <4>1, PruneShape
      <4>3. QED
        BY <4>2
    <3>6. QED
      BY <3>1, <3>2, <3>5 DEF Traced
  <2>5. QED
    BY <2>1, <2>2, <2>3, <2>4 DEF Traced
<1>4. CASE Wipe
  BY <1>4 DEF Wipe
<1>5. ASSUME NEW k \in DOMAIN rows, LoseRows(k) PROVE Traced(g)'
  <2>1. /\ head' = head /\ schema' = schema /\ anchor' = anchor /\ gone \subseteq gone'
        /\ (g \in gone \/ (g = head /\ g \in Nat))
    <3>1. \A i \in DOMAIN rows : rows[i].hash \in Nat
      BY RowFields
    <3>2. QED
      BY <1>5, <3>1 DEF LoseRows
  <2>2. \A i \in DOMAIN rows : i > Len(rows) - k /\ rows[i].hash = head
                                  => head \in gone' /\ ~InChain(head)'
    <3>1. ASSUME NEW i \in DOMAIN rows, i > Len(rows) - k, rows[i].hash = head PROVE ~InChain(head)'
      <4>1. head # anchor
        BY <1>0, <3>1, RowFields DEF Ordered
      <4>2. \A j \in DOMAIN rows' : rows'[j].hash # head
        <5>1. ASSUME NEW j \in DOMAIN rows' PROVE rows'[j].hash # head
          <6>1. j \in DOMAIN rows /\ rows'[j] = rows[j] /\ j < i
            BY <1>5, <3>1, LoseShape
          <6>2. QED
            BY <3>1, <6>1, RowFields DEF Ordered
        <5>2. QED
          BY <5>1
      <4>3. QED
        BY <2>1, <4>1, <4>2 DEF InChain
    <3>2. QED
      BY <1>5, <3>1 DEF LoseRows
  <2>3. CASE g \notin gone
    <3>1. \E i \in DOMAIN rows : i > Len(rows) - k /\ rows[i].hash = head
      BY <1>5, <2>1, <2>3 DEF LoseRows
    <3>2. QED
      BY <2>1, <2>2, <2>3, <3>1 DEF Traced
  <2>4. CASE g \in gone
    <3>1. Traced(g) /\ g \in Nat
      BY <1>0, <2>4 DEF LossTraced
    <3>2. CASE HeadMissing
      BY <2>1, <3>2 DEF HeadMissing, Traced
    <3>3. CASE head \in gone /\ g <= head /\ ~InChain(head)
      <4>1. ~InChain(head)'
        BY <1>5, <2>1, <3>3, LoseShape DEF InChain
      <4>2. QED
        BY <2>1, <3>3, <4>1 DEF Traced
    <3>4. CASE \E i \in DOMAIN rows : Broken(i) /\ rows[i].prev \in gone /\ g <= rows[i].prev
      <4>1. PICK i \in DOMAIN rows : Broken(i) /\ rows[i].prev \in gone /\ g <= rows[i].prev
        BY <3>4
      <4>2. CASE i \in DOMAIN rows'
        <5>1. rows'[i] = rows[i] /\ Follows(i)' = Follows(i)
          BY <1>5, <4>2, LoseShape
        <5>2. QED
          BY <2>1, <4>1, <4>2, <5>1 DEF Traced
      <4>3. CASE i \notin DOMAIN rows' /\ head = None
        <5>1. schema # NoHead
          BY <2>4 DEF OldFile
        <5>2. HeadMissing
          BY <4>3, <5>1 DEF HeadMissing, TypeOK
        <5>3. QED
          BY <3>2, <5>2
      <4>4. CASE i \notin DOMAIN rows' /\ head # None
        <5>1. /\ rows[i].hash <= head /\ rows[i].hash \in Nat /\ head \in Nat
              /\ i > Len(rows) - k /\ i \in Nat /\ k \in Nat /\ Len(rows) \in Nat
          BY <1>0, <1>5, <4>1, <4>4, LoseShape, RowFields DEF HeadIsLast
        <5>2. g <= head
          BY <2>4, <4>4 DEF HeadIsLast
        <5>3. head > anchor
          BY <1>0, <5>1 DEF Ordered
        <5>4. CASE ~InChain(head)
          BY <2>4, <3>3, <4>4, <5>2, <5>3, <5>4 DEF HeadIsLast
        <5>5. CASE InChain(head)
          <6>1. PICK j \in DOMAIN rows : rows[j].hash = head
            BY <1>0, <5>3, <5>5 DEF InChain
          <6>2. j \in Nat /\ ~(j < i)
            BY <1>5, <5>1, <6>1, LoseShape, RowFields DEF Ordered
          <6>3. j > Len(rows) - k
            BY <5>1, <6>2
          <6>4. head \in gone' /\ ~InChain(head)'
            BY <2>2, <6>1, <6>3
          <6>5. QED
            BY <2>1, <5>2, <6>4 DEF Traced
        <5>6. QED
          BY <5>4, <5>5
      <4>5. QED
        BY <4>2, <4>3, <4>4
    <3>5. QED
      BY <3>1, <3>2, <3>3, <3>4 DEF Traced
  <2>5. QED
    BY <2>3, <2>4
<1>6. CASE LoseHead
  <2>1. schema # NoHead
    BY <1>6 DEF LoseHead, OldFile
  <2>2. QED
    BY <1>6, <2>1 DEF LoseHead, Traced, HeadMissing, TypeOK
<1>7. CASE LoseCount
  BY <1>7 DEF LoseCount
<1>8. ASSUME NEW k \in DOMAIN rows, AlterField(k) PROVE Traced(g)'
  <2>1. anchor' = anchor /\ head' = head /\ gone' = gone /\ schema' = schema
    BY <1>8 DEF AlterField
  <2>2. Traced(g)
    BY <2>1 DEF LossTraced
  <2>3. (~InChain(head)) => ~InChain(head)'
    BY <1>8, <2>1, AlterShape DEF InChain
  <2>4. \A i \in DOMAIN rows : /\ i \in DOMAIN rows' /\ rows'[i].prev = rows[i].prev
                              /\ Follows(i)' = Follows(i)
    BY <1>8, AlterShape
  <2>5. QED
    BY <2>1, <2>2, <2>3, <2>4 DEF Traced, HeadMissing
<1>9. CASE UNCHANGED vars
  <2>1. UNCHANGED <<rows, anchor, head, schema, gone>> /\ Traced(g)
    BY <1>9 DEF vars, LossTraced
  <2>2. QED
    BY <2>1 DEF Traced, HeadMissing, Follows, InChain
<1>10. QED
  BY <1>1, <1>2, <1>3, <1>4, <1>5, <1>6, <1>7, <1>8, <1>9 DEF Next

\* A file nobody spoiled stays whole.  An older program's rows leave the head
\* behind; a prune past it is what "past" records.
LEMMA HealthyStep ==
    ASSUME ChainAssumption, TypeOK, Ordered, OldFile, HeadAtTableEnd, Healthy, [Next]_vars
    PROVE  HeadAtTableEnd' /\ Healthy'
<1> USE DEF past, HeadMissing, NoHead, SchemaHead, HeadLost, Bad, Unspoiled
<1>0. /\ next \in Nat /\ anchor \in Nat /\ head \in Nat \cup {None} /\ None \notin Nat
  BY ChainAssumption DEF TypeOK, Hash, ChainAssumption
<1>1. ASSUME rows' = Append(rows, NewRow(TableEnd)), anchor' = anchor, Unspoiled,
             head' = head \/ head' = next
      PROVE  /\ \A i \in DOMAIN rows' : ~Bad(i)'
             /\ head' # None => InChain(head)'
             /\ TableEnd' = next
  <2>1. TableEnd \in Nat
    BY TableEndFacts
  <2>2. ASSUME NEW i \in DOMAIN rows' PROVE ~Bad(i)'
    <3>1. CASE i \in DOMAIN rows
      BY <1>1, <2>1, <3>1, GrowShape DEF Healthy
    <3>2. CASE i = Len(rows) + 1
      BY <1>1, <2>1, <3>2, GrowShape
    <3>3. QED
      BY <1>1, <2>1, <2>2, <3>1, <3>2, GrowShape
  <2>3. head' # None => InChain(head)'
    <3>1. CASE head' = next
      <4>1. \E i \in DOMAIN rows' : rows'[i].hash = next
        BY <1>1, <2>1, GrowShape
      <4>2. QED
        BY <3>1, <4>1 DEF InChain
    <3>2. CASE head' = head
      <4>1. head # None => (\A h : h = head => InChain(h)')
        BY <1>1, <2>1, GrowShape DEF Healthy
      <4>2. QED
        BY <3>2, <4>1 DEF InChain
    <3>3. QED
      BY <1>1, <3>1, <3>2
  <2>4. QED
    BY <1>1, <2>1, <2>2, <2>3, GrowShape
<1>2. CASE AppendRow
  <2>1. CASE Unspoiled
    <3>1. ~HeadGone
      BY <2>1 DEF Healthy, HeadGone
    <3>2. /\ rows' = Append(rows, NewRow(TableEnd)) /\ anchor' = anchor /\ harm' = harm
          /\ head' = next
      BY <1>2, <3>1 DEF AppendRow
    <3>3. ~HeadMissing'
      BY <1>0, <1>2, <2>1 DEF AppendRow, NewSchema, Healthy
    <3>4. QED
      BY <1>1, <2>1, <3>2, <3>3 DEF Healthy, HeadAtTableEnd
  <2>2. CASE ~Unspoiled
    BY <1>2, <2>2 DEF AppendRow, Healthy, HeadAtTableEnd
  <2>3. QED
    BY <2>1, <2>2
<1>3. CASE OldAppend
  <2>1. /\ rows' = Append(rows, NewRow(TableEnd)) /\ anchor' = anchor
        /\ harm' = harm \cup {"old"} /\ head' = head /\ schema' = schema
    BY <1>3 DEF OldAppend
  <2>2. HeadAtTableEnd'
    BY <2>1 DEF HeadAtTableEnd
  <2>3. CASE Unspoiled'
    <3>1. Unspoiled
      BY <2>1, <2>3
    <3>2. QED
      BY <1>1, <2>1, <2>2, <3>1 DEF Healthy
  <2>4. CASE ~Unspoiled'
    BY <2>2, <2>4 DEF Healthy
  <2>5. QED
    BY <2>3, <2>4
<1>4. ASSUME NEW k \in DOMAIN rows, Prune(k) PROVE HeadAtTableEnd' /\ Healthy'
  <2>1. head' = head /\ schema' = schema /\ harm \subseteq harm'
    BY <1>4 DEF Prune
  <2>2. TypeOK' /\ rows' \in Seq(Row)
    BY <1>4, TypeStep DEF TypeOK, Next
  <2>3. InChain(TableEnd)'
    <3>1. CASE rows' = <<>>
      BY <3>1 DEF InChain, TableEnd
    <3>2. CASE rows' # <<>>
      <4>1. Len(rows') \in DOMAIN rows'
        BY <2>2, <3>2
      <4>2. QED
        BY <3>2, <4>1 DEF InChain, TableEnd
    <3>3. QED
      BY <3>1, <3>2
  <2>4. TableEnd' = TableEnd
    BY <1>4, PruneShape
  <2>5. HeadAtTableEnd'
    BY <2>1, <2>4 DEF HeadAtTableEnd
  <2>6. ASSUME Unspoiled', head # None PROVE InChain(head)'
    <3>1. CASE harm \subseteq {"count", "past"}
      BY <2>1, <2>3, <2>4, <2>6, <3>1 DEF HeadAtTableEnd, InChain
    <3>2. CASE ~(harm \subseteq {"count", "past"})
      <4>1. "past" \notin harm' /\ Unspoiled
        BY <2>1, <2>6, <3>2
      <4>2. head # anchor /\ \A i \in 1 .. k - 1 : rows[i].hash # head
        BY <1>4, <4>1 DEF Prune
      <4>3. PICK i \in DOMAIN rows : rows[i].hash = head
        BY <2>6, <4>1, <4>2 DEF Healthy, InChain
      <4>4. i \in Nat /\ k \in Nat /\ Len(rows) \in Nat /\ i >= k /\ i <= Len(rows)
        BY <1>4, <4>2, <4>3, PruneShape
      <4>5. CASE i = k
        BY <1>4, <2>1, <4>3, <4>5, PruneShape DEF InChain
      <4>6. CASE i # k
        <5>1. i - k \in DOMAIN rows' /\ k + (i - k) = i
          BY <1>4, <4>4, <4>6, PruneShape
        <5>2. \E j \in DOMAIN rows' : rows'[j] = rows[i]
          BY <1>4, <5>1, PruneShape
        <5>3. QED
          BY <2>1, <4>3, <5>2 DEF InChain
      <4>7. QED
        BY <4>5, <4>6
    <3>3. QED
      BY <3>1, <3>2
  <2>7. ASSUME Unspoiled' PROVE Unspoiled
    BY <2>1, <2>7
  <2>8. Unspoiled => \A i \in DOMAIN rows' : ~Bad(i)'
    BY <1>4, PruneShape DEF Healthy
  <2>9. QED
    BY <2>1, <2>5, <2>6, <2>7, <2>8 DEF Healthy
<1>5. CASE Wipe
  BY <1>0, <1>5 DEF Wipe, Healthy, HeadAtTableEnd, Genesis, InChain, TableEnd
<1>6. ASSUME NEW k \in DOMAIN rows, LoseRows(k) PROVE HeadAtTableEnd' /\ Healthy'
  BY <1>6 DEF LoseRows, Healthy, HeadAtTableEnd
<1>7. CASE LoseHead
  BY <1>7 DEF LoseHead, Healthy, HeadAtTableEnd
<1>8. CASE LoseCount
  BY <1>8 DEF LoseCount, Healthy, HeadAtTableEnd, InChain, Follows, TableEnd
<1>9. ASSUME NEW k \in DOMAIN rows, AlterField(k) PROVE HeadAtTableEnd' /\ Healthy'
  BY <1>9 DEF AlterField, Healthy, HeadAtTableEnd
<1>10. CASE UNCHANGED vars
  BY <1>10 DEF vars, Healthy, HeadAtTableEnd, InChain, Follows, TableEnd
<1>11. QED
  BY <1>2, <1>3, <1>4, <1>5, <1>6, <1>7, <1>8, <1>9, <1>10 DEF Next

-----------------------------------------------------------------------------
LEMMA InitInv ==
    ASSUME ChainAssumption, Init
    PROVE  ChainInv /\ LossTraced /\ HeadAtTableEnd /\ Healthy
<1> USE DEF Init, Genesis, NoHead, SchemaHead, HeadLost
<1>1. TypeOK
  BY TypeInit
<1>2. Ordered /\ OldFile /\ HeadIsLast /\ CountKept /\ HeadLossInv /\ LossTraced
  BY ChainAssumption
     DEF ChainAssumption, Ordered, OldFile, HeadIsLast, CountKept, HeadLossInv, LossTraced, InChain
<1>3. HeadAtTableEnd
  BY DEF HeadAtTableEnd, TableEnd
<1>4. Healthy
  BY ChainAssumption DEF ChainAssumption, Healthy, HeadMissing, InChain
<1>5. QED
  BY <1>1, <1>2, <1>3, <1>4 DEF ChainInv

LEMMA ChainInvStep ==
    ASSUME ChainAssumption, ChainInv, [Next]_vars PROVE ChainInv'
BY TypeStep, OrderedStep, MarksStep, HeadIsLastStep DEF ChainInv

LEMMA ChainInvariant == Spec => []ChainInv
<1>1. Init => ChainInv
  BY InitInv, ChainAssumption
<1>2. ChainInv /\ [Next]_vars => ChainInv'
  BY ChainInvStep, ChainAssumption
<1>3. QED
  BY <1>1, <1>2, PTL DEF Spec

\* HeadLossStays: a file that kept a head and lost it does not verify before
\* the next wipe, whatever is appended or pruned (ledger.rs, SCHEMA_HEAD_LOST).
THEOREM HeadLossNeverHeals == Spec => []HeadLossStays
<1>1. ChainInv => HeadLossStays
  BY DEF ChainInv, HeadLossInv, HeadLossStays, HeadMissing, Check
<1>2. QED
  BY <1>1, ChainInvariant, PTL

\* LossStaysVisible: while the count stays readable, a vanished end of the
\* chain shows in `check` through every later append, until a wipe or until
\* the break itself is pruned.
THEOREM LossNeverHeals == Spec => []LossStaysVisible
<1>1. Init => LossTraced
  BY InitInv, ChainAssumption
<1>2. ChainInv /\ LossTraced /\ [Next]_vars => LossTraced'
  BY LossTracedStep, ChainAssumption DEF ChainInv
<1>3. ChainInv /\ LossTraced => LossStaysVisible
  <2> SUFFICES ASSUME ChainInv, LossTraced, "count" \notin harm, NEW g \in gone PROVE Check # "ok"
    BY DEF LossStaysVisible
  <2>1. Traced(g)
    BY DEF LossTraced
  <2>2. head \in gone => head # None
    BY ChainAssumption DEF ChainInv, TypeOK, Hash, ChainAssumption
  <2>3. QED
    BY <2>1, <2>2 DEF Traced, Check, HeadMissing, Broken, Bad
<1>4. QED
  BY <1>1, <1>2, <1>3, ChainInvariant, PTL DEF Spec

\* NoFalseAlarm: `check` passes every file nobody spoiled, unless rows of an
\* older program stay after a prune that takes the head.
THEOREM NeverAccusesAWholeFile == Spec => []NoFalseAlarm
<1>1. Init => HeadAtTableEnd /\ Healthy
  BY InitInv, ChainAssumption
<1>2. ChainInv /\ HeadAtTableEnd /\ Healthy /\ [Next]_vars => HeadAtTableEnd' /\ Healthy'
  BY HealthyStep, ChainAssumption DEF ChainInv
<1>3. Healthy => NoFalseAlarm
  BY DEF Healthy, Unspoiled, NoFalseAlarm, HeadMissing, Check
<1>4. QED
  BY <1>1, <1>2, <1>3, ChainInvariant, PTL DEF Spec

-----------------------------------------------------------------------------
\* What the record of the end knows, while every writer kept it and nothing
\* took the head or its count.
Recorded == harm \cap {"count", "old", "head"} = {}

\* Each append was counted once: the rows in the table, those a prune took and
\* those that vanished are as many as the count says.  The head is either the
\* end of the table or nowhere, so that no append counts afresh.
Accounted ==
    Recorded =>
        IF head = None
        THEN rows = <<>> /\ pruned = 0 /\ vanished = 0
        ELSE /\ count = pruned + Len(rows) + vanished
             /\ head = TableEnd \/ ~InChain(head)

LEMMA AccountedStep ==
    ASSUME ChainAssumption, ChainInv, Accounted, [Next]_vars
    PROVE  Accounted'
<1> USE DEF past
<1>0. /\ TypeOK /\ Ordered
      /\ Len(rows) \in Nat /\ pruned \in Nat /\ vanished \in Nat
      /\ count \in Nat \cup {None} /\ None \notin Nat
      /\ head \in Nat \cup {None} /\ next \in Nat
  BY ChainAssumption DEF ChainInv, TypeOK, Hash, ChainAssumption
<1>1. ASSUME Recorded, AppendRow PROVE Accounted'
  <2>1. (IF HeadGone THEN head ELSE TableEnd) \in Nat
    BY <1>0, TableEndFacts DEF HeadGone
  <2>2. head' = next /\ head' # None /\ pruned' = pruned /\ vanished' = vanished
    BY <1>0, <1>1 DEF AppendRow
  <2>3. Len(rows') = Len(rows) + 1
    <3>1. NewRow(IF HeadGone THEN head ELSE TableEnd) \in Row /\ rows \in Seq(Row)
      BY <1>0, NewRowType, ChainAssumption DEF TypeOK
    <3>2. QED
      BY <1>1, <3>1, AppendFacts DEF AppendRow
  <2>4. TableEnd' = next
    BY <1>0, <1>1, <2>1, GrowShape DEF AppendRow
  <2>5. count' = pruned + Len(rows) + 1 + vanished
    <3>1. CASE head = None
      <4>1. ~HeadAtEnd /\ ~HeadGone
        <5>1. TableEnd \in Nat
          BY <1>0, TableEndFacts
        <5>2. QED
          BY <1>0, <3>1, <5>1 DEF HeadAtEnd, HeadGone
      <4>2. vanished = 0 /\ count' = pruned + Len(rows) + 1
        BY <1>1, <3>1, <4>1 DEF Accounted, AppendRow, NewCount
      <4>3. QED
        BY <1>0, <4>2
    <3>2. CASE head # None
      <4>1. /\ count = pruned + Len(rows) + vanished
            /\ head = TableEnd \/ ~InChain(head)
        BY <1>1, <3>2 DEF Accounted
      <4>2. HeadAtEnd \/ HeadGone
        BY <1>0, <3>2, <4>1 DEF HeadAtEnd, HeadGone
      <4>3. count' = count + 1
        BY <1>1, <4>2 DEF AppendRow, NewCount
      <4>4. QED
        BY <1>0, <4>1, <4>3
    <3>3. QED
      BY <3>1, <3>2
  <2>6. QED
    BY <1>0, <2>2, <2>3, <2>4, <2>5 DEF Accounted
<1>2. ASSUME Recorded, NEW k \in DOMAIN rows, Prune(k) PROVE Accounted'
  <2>1. /\ k \in Nat /\ Len(rows') = Len(rows) - k /\ rows # <<>>
    BY <1>0, <1>2, SuffixFacts DEF Prune, TypeOK
  <2>2. /\ pruned' = pruned + k /\ vanished' = vanished /\ count' = count /\ head' = head
    BY <1>2 DEF Prune, PrunedAfter
  <2>3. /\ head # None
        /\ count = pruned + Len(rows) + vanished
        /\ head = TableEnd \/ ~InChain(head)
    BY <1>2, <2>1 DEF Accounted
  <2>4. count' = pruned' + Len(rows') + vanished'
    BY <1>0, <2>1, <2>2, <2>3
  <2>5. TableEnd' = TableEnd /\ \A h : InChain(h)' => InChain(h)
    BY <1>0, <1>2, PruneShape
  <2>6. ~InChain(head) => ~InChain(head)'
    BY <2>2, <2>5 DEF InChain
  <2>7. QED
    BY <2>2, <2>3, <2>4, <2>5, <2>6 DEF Accounted
<1>3. CASE Wipe
  BY <1>0, <1>3 DEF Wipe, Accounted, TableEnd, Genesis
<1>4. ASSUME Recorded, NEW k \in DOMAIN rows, LoseRows(k) PROVE Accounted'
  <2>1. /\ k \in Nat /\ k >= 1 /\ Len(rows') = Len(rows) - k /\ rows # <<>>
    BY <1>0, <1>4, PrefixFacts DEF LoseRows, TypeOK
  <2>2. /\ pruned' = pruned /\ vanished' = vanished + k /\ count' = count /\ head' = head
        /\ anchor' = anchor
    BY <1>4 DEF LoseRows
  <2>3. /\ head # None
        /\ count = pruned + Len(rows) + vanished
        /\ head = TableEnd \/ ~InChain(head)
    BY <1>4, <2>1 DEF Accounted
  <2>4. count' = pruned' + Len(rows') + vanished'
    BY <1>0, <2>1, <2>2, <2>3
  <2>5. ~InChain(head)'
    <3>1. CASE head = TableEnd
      <4>1. Len(rows) \in DOMAIN rows /\ head = rows[Len(rows)].hash
        BY <1>0, <2>1, <3>1 DEF TableEnd, TypeOK
      <4>2. head # anchor
        BY <1>0, <4>1, RowFields DEF Ordered, TypeOK, Hash
      <4>3. ASSUME NEW j \in DOMAIN rows' PROVE rows'[j].hash # head
        <5>1. j \in DOMAIN rows /\ rows'[j] = rows[j] /\ j < Len(rows)
          BY <1>0, <1>4, LoseShape
        <5>2. QED
          BY <1>0, <4>1, <5>1, RowFields DEF Ordered
      <4>4. QED
        BY <2>2, <4>2, <4>3 DEF InChain
    <3>2. CASE ~InChain(head)
      <4>1. \A h : InChain(h)' => InChain(h)
        BY <1>0, <1>4, LoseShape
      <4>2. QED
        BY <2>2, <3>2, <4>1 DEF InChain
    <3>3. QED
      BY <2>3, <3>1, <3>2
  <2>6. QED
    BY <2>2, <2>3, <2>4, <2>5 DEF Accounted
<1>5. ASSUME Recorded, NEW k \in DOMAIN rows, AlterField(k) PROVE Accounted'
  <2>1. UNCHANGED <<anchor, head, count, pruned, vanished>>
    BY <1>5 DEF AlterField
  <2>2. /\ DOMAIN rows' = DOMAIN rows
        /\ \A i \in DOMAIN rows : rows'[i].hash = rows[i].hash
    BY <1>0, <1>5, AlterShape
  <2>3. Len(rows') = Len(rows) /\ rows # <<>> /\ rows' # <<>>
    BY <1>0, <1>5 DEF AlterField, TypeOK
  <2>4. TableEnd' = TableEnd
    <3>1. Len(rows) \in DOMAIN rows
      BY <1>0, <2>3 DEF TypeOK
    <3>2. QED
      BY <2>2, <2>3, <3>1 DEF TableEnd
  <2>5. ~InChain(head) => ~InChain(head)'
    BY <2>1, <2>2 DEF InChain
  <2>6. QED
    BY <1>5, <2>1, <2>3, <2>4, <2>5 DEF Accounted
<1>6. CASE UNCHANGED vars
  BY <1>6 DEF vars, Accounted, Recorded, TableEnd, InChain
<1>7. CASE OldAppend \/ LoseHead \/ LoseCount
  BY <1>7 DEF OldAppend, LoseHead, LoseCount, Accounted, Recorded
<1>8. CASE Next /\ ~Recorded /\ ~Wipe
  <2>1. harm \subseteq harm'
    BY <1>8 DEF Next, AppendRow, OldAppend, Prune, LoseRows, LoseHead, LoseCount, AlterField
  <2>2. QED
    BY <1>8, <2>1 DEF Accounted, Recorded
<1>9. QED
  BY <1>1, <1>2, <1>3, <1>4, <1>5, <1>6, <1>7, <1>8 DEF Next

\* TruncationCounted: a truncation is reported with exactly the rows that
\* vanished since the wipe (ledger.rs, `check`'s saturating difference), for
\* any number of appends, prunes and losses in any order.
THEOREM TruncationTellsHowMany == Spec => []TruncationCounted
<1>1. Init => Accounted
  BY ChainAssumption DEF ChainAssumption, Init, Accounted, TableEnd, Genesis
<1>2. ChainInv /\ Accounted /\ [Next]_vars => Accounted'
  BY AccountedStep, ChainAssumption
<1>3. ChainInv /\ Accounted => TruncationCounted
  <2> SUFFICES ASSUME ChainInv, Accounted, harm \cap {"count", "old"} = {},
                      Check = "truncated", count # None
               PROVE  Missing = vanished
    BY DEF TruncationCounted
  <2>1. head # None /\ ~HeadMissing
    BY DEF Check, HeadMissing
  <2>2. Recorded
    BY <2>1 DEF ChainInv, HeadLossInv, Recorded
  <2>3. count = pruned + Len(rows) + vanished
    BY <2>1, <2>2 DEF Accounted
  <2>4. pruned \in Nat /\ Len(rows) \in Nat /\ vanished \in Nat
    BY DEF ChainInv, TypeOK
  <2>5. QED
    BY <2>3, <2>4 DEF Missing
<1>4. QED
  BY <1>1, <1>2, <1>3, ChainInvariant, PTL DEF Spec

=============================================================================
