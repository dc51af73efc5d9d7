---------------------------- MODULE EngineProofs ----------------------------
(***************************************************************************)
(* Proofs about what engine.rs keeps while it runs: its copy of the rules  *)
(* (EngineRules) and the DNS of the computer (DnsGuard).                   *)
(*                                                                         *)
(* The rules are proved for any number of queries in flight, of changes    *)
(* and of days.  The version stands for the rules when the panel alone     *)
(* writes them: the run with a terminal beside it shows that this cannot   *)
(* be dropped.  What a wipe costs before the day is bounded whoever writes.*)
(*                                                                         *)
(* The DNS is proved for any set of links.  Its two safety theorems assume *)
(* a service nobody races with (NobodyElse).  Under it the copy is always  *)
(* all the links or none, which is what makes the invariant short.         *)
(***************************************************************************)
EXTENDS EngineRules, DnsGuard, FiniteSetTheorems, TLAPS

-----------------------------------------------------------------------------
\* What a step does to the writers' and the queries' records keeps their shape.
LEMMA WriterStates ==
    ASSUME writer \in [Writers -> WriterState], NEW w \in Writers,
           NEW pc \in {"idle", "changed", "read"}, NEW v \in Nat
    PROVE  /\ [writer EXCEPT ![w].pc = pc] \in [Writers -> WriterState]
           /\ [writer EXCEPT ![w] = [pc |-> pc, seen |-> v]] \in [Writers -> WriterState]
<1>1. \A s \in WriterState : [s EXCEPT !.pc = pc] \in WriterState
  BY DEF WriterState
<1>2. [pc |-> pc, seen |-> v] \in WriterState
  BY DEF WriterState
<1> QED
  BY <1>1, <1>2

LEMMA QueryStates ==
    ASSUME query \in [Queries -> QueryState], NEW q \in Queries, NEW s \in QueryState
    PROVE  [query EXCEPT ![q] = s] \in [Queries -> QueryState]
OBVIOUS

LEMMA FreeQueryType == FreeQuery \in QueryState /\ 0 \in Days
  BY EngineRulesAssumption DEF FreeQuery, QueryState, Days

\* Every step keeps the ledger's and the world's variables what they are.
LedgerTyped ==
    /\ table \subseteq Rule /\ version \in Nat /\ made \in Nat
    /\ row \in Days \cup {None} /\ now \in Days /\ early \in Nat

LEMMA LedgerTypes ==
    ASSUME TypeOK, [Next]_vars
    PROVE  LedgerTyped'
<1> USE DEF TypeOK, LedgerTyped
<1>1. ASSUME NEW wide \in BOOLEAN, AddRule(wide) PROVE LedgerTyped'
  BY <1>1 DEF AddRule, ChangeTable, Rule
<1>2. ASSUME NEW w \in Writers, NEW r \in table, UndoRule(w, r) PROVE LedgerTyped'
  BY <1>2 DEF UndoRule, ChangeTable
<1>3. ASSUME NEW w \in Writers, WriterStep(w) PROVE LedgerTyped'
  BY <1>3 DEF WriterStep, ReadVersion, WriteVersion, BumpLost, Bumped, ledger, WriterState
<1>4. CASE Wipe
  BY <1>4 DEF Wipe, Bumped
<1>5. ASSUME NEW q \in Queries, QueryStep(q) PROVE LedgerTyped'
  <2>1. CASE Ask(q)
    <3> DEFINE kept == IF row = None THEN now ELSE row
    <3>1. kept \in Days
      OBVIOUS
    <3>2. row' \in {row, kept}
      BY <2>1 DEF Ask
    <3> QED
      BY <2>1, <3>1, <3>2 DEF Ask
  <2>2. CASE \/ AnswerDressed(q) \/ AnswerPlain(q)
             \/ \E seen \in VersionRead : CheckVersion(q, seen)
    BY <2>2 DEF AnswerDressed, AnswerPlain, CheckVersion, ledger
  <2>3. ASSUME NEW ok \in BOOLEAN, LoadRules(q, ok) PROVE LedgerTyped'
    BY <2>3 DEF LoadRules, ledger
  <2>4. CASE DecideQuery(q)
    <3>1. early' \in {early, early + 1}
      BY <2>4, Zenon DEF DecideQuery
    <3>2. UNCHANGED <<table, version, row, made, now>>
      BY <2>4, Zenon DEF DecideQuery, ledger
    <3> QED
      BY <3>1, <3>2
  <2> QED
    BY <1>5, <2>1, <2>2, <2>3, <2>4 DEF QueryStep
<1>6. CASE StartRules \/ StartVersion \/ Stop \/ TwoSeconds \/ UNCHANGED vars
  BY <1>6 DEF StartRules, StartVersion, VersionRead, Stop, TwoSeconds, vars, ledger
<1>7. CASE DayPasses
  BY <1>7, EngineRulesAssumption DEF DayPasses, Days, ledger
<1> QED
  BY <1>1, <1>2, <1>3, <1>4, <1>5, <1>6, <1>7 DEF Next

\* Every step keeps the writers and the engine's copy what they are.
EngineTyped ==
    /\ writer \in [Writers -> WriterState]
    /\ up \in {"down", "starting", "up"}
    /\ cache \subseteq Rule /\ cacheVersion \in Nat /\ due \in BOOLEAN
    /\ memory \in Days \cup {None} /\ lock \in Queries \cup {None}

LEMMA EngineTypes ==
    ASSUME TypeOK, [Next]_vars
    PROVE  EngineTyped'
<1> USE DEF TypeOK, EngineTyped
<1> Panel \in Writers
  BY DEF Writers
<1>1. ASSUME NEW w \in Writers, NEW new, ChangeTable(w, new) PROVE EngineTyped'
  BY <1>1, WriterStates DEF ChangeTable, engine
<1>2. ASSUME NEW w \in Writers, WriterStep(w) PROVE EngineTyped'
  <2>1. writer' \in [Writers -> WriterState]
    <3>1. writer' = [writer EXCEPT ![w].pc = "idle"]
            \/ writer' = [writer EXCEPT ![w] = [pc |-> "read", seen |-> version]]
      BY <1>2 DEF WriterStep, ReadVersion, WriteVersion, BumpLost
    <3>2. [writer EXCEPT ![w].pc = "idle"] \in [Writers -> WriterState]
      BY WriterStates
    <3>3. [writer EXCEPT ![w] = [pc |-> "read", seen |-> version]] \in [Writers -> WriterState]
      BY WriterStates
    <3> QED
      BY <3>1, <3>2, <3>3
  <2>2. UNCHANGED engine
    BY <1>2 DEF WriterStep, ReadVersion, WriteVersion, BumpLost
  <2> QED
    BY <2>1, <2>2 DEF engine
<1>3. CASE StartRules \/ StartVersion \/ TwoSeconds
  <2>1. CASE StartRules
    <3>1. cache' = table \/ cache' = {}
      BY <2>1 DEF StartRules
    <3> QED
      BY <2>1, <3>1 DEF StartRules
  <2>2. CASE StartVersion
    <3>1. cacheVersion' \in Nat
      BY <2>2 DEF StartVersion, VersionRead
    <3> QED
      BY <2>2, <3>1 DEF StartVersion
  <2>3. CASE TwoSeconds
    BY <2>3 DEF TwoSeconds
  <2> QED
    BY <1>3, <2>1, <2>2, <2>3
<1>4. CASE Stop
  BY <1>4, WriterStates DEF Stop
<1>5. ASSUME NEW q \in Queries, QueryStep(q) PROVE EngineTyped'
  <2>1. CASE Ask(q)
    BY <2>1 DEF Ask
  <2>2. CASE \/ AnswerDressed(q) \/ AnswerPlain(q)
             \/ \E seen \in VersionRead : CheckVersion(q, seen)
    BY <2>2 DEF AnswerDressed, AnswerPlain, CheckVersion
  <2>3. ASSUME NEW ok \in BOOLEAN, LoadRules(q, ok) PROVE EngineTyped'
    <3>1. query[q].seen \in Nat
      BY DEF QueryState
    <3> QED
      BY <2>3, <3>1 DEF LoadRules, LoadedVersion, MemoryAfterLoad
  <2>4. CASE DecideQuery(q)
    BY <2>4 DEF DecideQuery
  <2> QED
    BY <1>5, <2>1, <2>2, <2>3, <2>4 DEF QueryStep
<1>6. CASE Wipe \/ DayPasses \/ UNCHANGED vars
  BY <1>6 DEF Wipe, DayPasses, vars, engine
<1> QED
  BY <1>1, <1>2, <1>3, <1>4, <1>5, <1>6 DEF Next, AddRule, UndoRule

\* Every step keeps the queries in flight what they are.
LEMMA QueryTypes ==
    ASSUME TypeOK, [Next]_vars
    PROVE  (query \in [Queries -> QueryState])'
<1> USE DEF TypeOK
<1> Panel \in Writers
  BY DEF Writers
<1>1. ASSUME NEW w \in Writers, NEW new, ChangeTable(w, new)
      PROVE  query' = query
  BY <1>1 DEF ChangeTable, engine
<1>2. ASSUME NEW w \in Writers, WriterStep(w) PROVE query' = query
  BY <1>2 DEF WriterStep, ReadVersion, WriteVersion, BumpLost, engine
<1>3. CASE Stop
  BY <1>3, FreeQueryType DEF Stop
<1>4. ASSUME NEW q \in Queries, QueryStep(q) PROVE (query \in [Queries -> QueryState])'
  <2> query[q] \in QueryState
    OBVIOUS
  <2>1. CASE Ask(q)
    <3> DEFINE first == IF memory # None THEN memory ELSE IF row = None THEN now ELSE row
               asked == [pc |-> "asked", ts |-> now, first |-> first, seen |-> 0]
    <3>1. asked \in QueryState
      BY DEF QueryState
    <3>2. query' = [query EXCEPT ![q] = asked]
      BY <2>1 DEF Ask
    <3> HIDE DEF asked
    <3> QED
      BY <3>1, <3>2
  <2>2. CASE AnswerDressed(q)
    BY <2>2 DEF AnswerDressed, QueryState
  <2>3. CASE AnswerPlain(q)
    BY <2>3, FreeQueryType DEF AnswerPlain
  <2>4. ASSUME NEW seen \in VersionRead, CheckVersion(q, seen)
        PROVE  (query \in [Queries -> QueryState])'
    <3> DEFINE pc == NextPc(query[q].pc, due /\ seen # cacheVersion)
               checked == [query[q] EXCEPT !.pc = pc, !.seen = seen]
    <3>1. pc \in {"asked load", "asked rules", "answered load", "answered rules"}
      BY <2>4 DEF CheckVersion, NextPc
    <3>0. seen \in Nat
      BY DEF VersionRead
    <3>2. checked \in QueryState
      <4> HIDE DEF pc
      <4> QED
        BY <3>0, <3>1 DEF QueryState
    <3>3. query' = [query EXCEPT ![q] = checked]
      BY <2>4 DEF CheckVersion
    <3> HIDE DEF checked
    <3> QED
      BY <3>2, <3>3
  <2>5. ASSUME NEW ok \in BOOLEAN, LoadRules(q, ok)
        PROVE  (query \in [Queries -> QueryState])'
    BY <2>5 DEF LoadRules, QueryState
  <2>6. CASE DecideQuery(q)
    <3> DEFINE over == CutByName(q) \/ CutWidely(q) \/ query[q].pc = "answered rules"
               decided == IF over THEN FreeQuery ELSE [query[q] EXCEPT !.pc = "upstream"]
    <3>1. decided \in QueryState
      BY FreeQueryType DEF QueryState
    <3>2. query' = [query EXCEPT ![q] = decided]
      BY <2>6 DEF DecideQuery
    <3> HIDE DEF decided
    <3> QED
      BY <3>1, <3>2
  <2> QED
    BY <1>4, <2>1, <2>2, <2>3, <2>4, <2>5, <2>6 DEF QueryStep
<1>5. CASE Wipe \/ StartRules \/ StartVersion \/ TwoSeconds \/ DayPasses \/ UNCHANGED vars
  BY <1>5 DEF Wipe, StartRules, StartVersion, VersionRead, TwoSeconds, DayPasses, vars, engine
<1> QED
  BY <1>1, <1>2, <1>3, <1>4, <1>5 DEF Next, AddRule, UndoRule

LEMMA SlipType ==
    ASSUME TypeOK, [Next]_vars
    PROVE  slip' \in BOOLEAN
<1>0. slip \in BOOLEAN
  BY DEF TypeOK
<1>1. ASSUME NEW q \in Queries, NEW ok \in BOOLEAN, LoadRules(q, ok) PROVE slip' \in BOOLEAN
  BY <1>1, Zenon DEF LoadRules
<1>2. ASSUME NEW q \in Queries, QueryStep(q) PROVE slip' \in BOOLEAN
  BY <1>0, <1>1, <1>2 DEF QueryStep, Ask, AnswerDressed, AnswerPlain, CheckVersion, DecideQuery
<1>3. ASSUME NEW w \in Writers, WriterStep(w) PROVE slip' \in BOOLEAN
  BY <1>0, <1>3 DEF WriterStep, ReadVersion, WriteVersion, BumpLost
<1>4. CASE StartRules
  BY <1>4 DEF StartRules
<1>5. CASE \/ \E wide \in BOOLEAN : AddRule(wide)
           \/ \E w \in Writers, r \in table : UndoRule(w, r)
           \/ Wipe \/ StartVersion \/ Stop \/ TwoSeconds \/ DayPasses \/ UNCHANGED vars
  BY <1>0, <1>5 DEF AddRule, UndoRule, ChangeTable, Wipe, StartVersion, Stop, TwoSeconds,
                    DayPasses, vars
<1> QED
  BY <1>2, <1>3, <1>4, <1>5 DEF Next

\* The engine's copy, its memory and every query in flight keep their types,
\* whatever the panel, the terminal and the resolver interleave.
THEOREM TypeCorrect == Spec => []TypeOK
<1>1. Init => TypeOK
  <2> SUFFICES ASSUME Init PROVE TypeOK
    OBVIOUS
  <2>1. writer \in [Writers -> WriterState]
    BY DEF Init, WriterState
  <2>2. query \in [Queries -> QueryState]
    BY FreeQueryType DEF Init
  <2> QED
    BY <2>1, <2>2, FreeQueryType DEF Init, TypeOK
<1>2. TypeOK /\ [Next]_vars => TypeOK'
  BY LedgerTypes, EngineTypes, QueryTypes, SlipType DEF TypeOK, LedgerTyped, EngineTyped
<1> QED
  BY <1>1, <1>2, PTL DEF Spec

-----------------------------------------------------------------------------
\* What makes the version stand for the rules.
PanelAlone == Terminals = {}

\* The engine never holds a version the file has not reached,
VersionsBehind ==
    /\ cacheVersion <= version
    /\ \A q \in Queries : query[q].seen <= version

\* the panel writes only while the pass is up, from the version of the file,
PanelWrites ==
    /\ writer[Panel].pc # "idle" => up = "up"
    /\ writer[Panel].pc = "read" => writer[Panel].seen = version

\* and a copy with the version of the file is the table, unless a change is
\* still without its bump or something slipped.
CopyIsTable ==
    /\ up = "starting" /\ ~slip => cache = table
    /\ up = "up" /\ cacheVersion = version /\ ~slip => cache = table \/ writer[Panel].pc # "idle"

VersionInv == VersionsBehind /\ PanelWrites /\ CopyIsTable

LEMMA PanelIsTheWriter ==
    ASSUME PanelAlone
    PROVE  Writers = {Panel}
BY DEF PanelAlone, Writers

\* A change of the table: the panel has a bump to give.
LEMMA VersionAfterChange ==
    ASSUME TypeOK, VersionInv, PanelAlone, NEW w \in Writers, NEW new, ChangeTable(w, new)
    PROVE  VersionInv'
<1>1. w = Panel /\ Panel \in Writers
  BY PanelIsTheWriter
<1>2. up = "up" /\ writer'[Panel].pc = "changed"
  BY <1>1 DEF ChangeTable, Free, TypeOK
<1> QED
  BY <1>2 DEF ChangeTable, engine, VersionInv, VersionsBehind, PanelWrites, CopyIsTable

\* The bump: read, then written one higher; it is not lost.
LEMMA VersionAfterBump ==
    ASSUME TypeOK, VersionInv, PanelAlone, NEW w \in Writers, WriterStep(w)
    PROVE  VersionInv' /\ version' >= version
<1>1. w = Panel /\ Panel \in Writers
  BY PanelIsTheWriter
<1>2. CASE ReadVersion(w)
  <2>1. writer'[Panel] = [pc |-> "read", seen |-> version]
    BY <1>1, <1>2 DEF ReadVersion, TypeOK
  <2>2. UNCHANGED <<ledger, engine>> /\ writer[Panel].pc # "idle"
    BY <1>1, <1>2 DEF ReadVersion
  <2> QED
    BY <2>1, <2>2 DEF TypeOK, ledger, engine, VersionInv, VersionsBehind, PanelWrites,
                      CopyIsTable
<1>3. CASE WriteVersion(w)
  <2>1. version' = version + 1 /\ UNCHANGED <<table, engine>>
    BY <1>1, <1>3 DEF WriteVersion, Bumped, VersionInv, PanelWrites
  <2>2. writer'[Panel].pc = "idle" /\ up = "up"
    BY <1>1, <1>3 DEF WriteVersion, TypeOK, VersionInv, PanelWrites
  <2>3. version \in Nat /\ cacheVersion \in Nat
        /\ \A q \in Queries : query[q].seen \in Nat
    BY DEF TypeOK, QueryState
  <2>4. VersionsBehind'
    BY <2>1, <2>3 DEF engine, VersionInv, VersionsBehind
  <2>5. cacheVersion' # version'
    BY <2>1, <2>3 DEF engine, VersionInv, VersionsBehind
  <2> QED
    BY <2>1, <2>2, <2>3, <2>4, <2>5 DEF engine, VersionInv, PanelWrites, CopyIsTable
<1>4. CASE BumpLost(w)
  <2>1. writer'[Panel].pc = "idle" /\ slip' /\ UNCHANGED <<ledger, engine>>
    BY <1>1, <1>4 DEF BumpLost, TypeOK
  <2>2. version \in Nat
    BY DEF TypeOK
  <2> QED
    BY <2>1, <2>2 DEF ledger, engine, VersionInv, VersionsBehind, PanelWrites, CopyIsTable
<1> QED
  BY <1>2, <1>3, <1>4 DEF WriterStep

\* A query: what it loads is the table, with a version not newer than the file's.
LEMMA VersionAfterQuery ==
    ASSUME TypeOK, VersionInv, NEW q \in Queries, QueryStep(q)
    PROVE  VersionInv' /\ version' = version
<1>1. UNCHANGED <<table, version, writer, up>>
  BY DEF QueryStep, Ask, AnswerDressed, AnswerPlain, CheckVersion, LoadRules, DecideQuery, ledger
<1>2. version \in Nat /\ \A p \in Queries : query[p].seen \in Nat
  BY DEF TypeOK, QueryState
<1>3. \A p \in Queries : query'[p].seen \in {query[p].seen, version, 0}
  <2> TAKE p \in Queries
  <2>1. CASE Ask(q) \/ AnswerPlain(q) \/ AnswerDressed(q)
    <3>1. query'[q].seen \in {query[q].seen, 0}
      <4>1. CASE Ask(q)
        <5>1. query'[q] = [pc |-> "asked", ts |-> now, seen |-> 0,
                           first |-> IF memory # None THEN memory
                                     ELSE IF row = None THEN now ELSE row]
          BY <4>1 DEF Ask, TypeOK
        <5> QED
          BY <5>1
      <4>2. CASE AnswerPlain(q)
        BY <4>2 DEF AnswerPlain, FreeQuery, TypeOK
      <4>3. CASE AnswerDressed(q)
        BY <4>3 DEF AnswerDressed, TypeOK, QueryState
      <4> QED
        BY <2>1, <4>1, <4>2, <4>3
    <3>2. p # q => query'[p] = query[p]
      BY <2>1 DEF Ask, AnswerPlain, AnswerDressed, TypeOK
    <3> QED
      BY <3>1, <3>2
  <2>2. ASSUME NEW seen \in VersionRead, CheckVersion(q, seen)
        PROVE  query'[p].seen \in {query[p].seen, version, 0}
    <3>0. seen \in {version, 0}
      BY DEF VersionRead
    <3>1. query'[q].seen = seen
      BY <2>2 DEF CheckVersion, TypeOK, QueryState
    <3>2. p # q => query'[p] = query[p]
      BY <2>2 DEF CheckVersion, TypeOK
    <3> QED
      BY <3>0, <3>1, <3>2
  <2>3. ASSUME NEW ok \in BOOLEAN, LoadRules(q, ok)
        PROVE  query'[p].seen = query[p].seen
    BY <2>3 DEF LoadRules, TypeOK, QueryState
  <2>4. CASE DecideQuery(q)
    <3> DEFINE over == CutByName(q) \/ CutWidely(q) \/ query[q].pc = "answered rules"
               decided == IF over THEN FreeQuery ELSE [query[q] EXCEPT !.pc = "upstream"]
    <3>1. decided.seen \in {query[q].seen, 0}
      BY DEF FreeQuery, TypeOK, QueryState
    <3>2. query' = [query EXCEPT ![q] = decided]
      BY <2>4 DEF DecideQuery
    <3> HIDE DEF decided
    <3> QED
      BY <3>1, <3>2 DEF TypeOK
  <2> QED
    BY <2>1, <2>2, <2>3, <2>4 DEF QueryStep
<1>4. \A p \in Queries : query'[p].seen <= version
  <2> TAKE p \in Queries
  <2>1. query[p].seen <= version
    BY DEF VersionInv, VersionsBehind
  <2> QED
    BY <1>2, <1>3, <2>1
<1>5. \/ cache' = cache /\ cacheVersion' = cacheVersion /\ slip' = slip
      \/ cache' = table /\ cacheVersion' = query[q].seen
  <2>1. CASE LoadRules(q, TRUE)
    BY <2>1 DEF LoadRules, LoadedVersion
  <2>2. CASE LoadRules(q, FALSE)
    <3>1. slip' = (slip /\ TRUE)
      BY <2>2 DEF LoadRules
    <3>2. slip' = slip
      BY <3>1, Zenon DEF TypeOK
    <3> QED
      BY <2>2, <3>2 DEF LoadRules, LoadedVersion
  <2> QED
    BY <2>1, <2>2 DEF QueryStep, Ask, AnswerDressed, AnswerPlain, CheckVersion, DecideQuery
<1> QED
  BY <1>1, <1>4, <1>5 DEF VersionInv, VersionsBehind, PanelWrites, CopyIsTable

\* Every other step: a wipe bumps too, and a pass starts from the table.
LEMMA VersionAfterRest ==
    ASSUME TypeOK, VersionInv, PanelAlone,
           \/ Wipe \/ StartRules \/ StartVersion \/ Stop \/ TwoSeconds \/ DayPasses
           \/ UNCHANGED vars
    PROVE  VersionInv' /\ version' >= version
<1> USE DEF VersionInv, VersionsBehind, PanelWrites, CopyIsTable
<1>0. /\ version \in Nat /\ cacheVersion \in Nat
      /\ \A q \in Queries : query[q].seen \in Nat
      /\ Panel \in Writers
  BY PanelIsTheWriter DEF TypeOK, QueryState
<1>1. CASE Wipe
  <2>1. version' = version + 1 /\ writer[Panel].pc = "idle" /\ UNCHANGED <<writer, engine>>
    BY <1>1 DEF Wipe, Bumped, Free
  <2>2. version' >= version /\ VersionsBehind' /\ cacheVersion' # version'
    BY <1>0, <2>1 DEF engine
  <2>3. PanelWrites' /\ (up = "up")' /\ CopyIsTable'
    BY <1>1, <2>1, <2>2 DEF engine, Wipe, Free
  <2> QED
    BY <2>2, <2>3
<1>2. CASE StartRules
  <2>1. /\ ~slip' => cache' = table
        /\ up' = "starting"
        /\ UNCHANGED <<table, version, writer, cacheVersion, query>>
    BY <1>2 DEF StartRules, ledger
  <2>2. writer[Panel].pc = "idle"
    BY <1>2 DEF StartRules
  <2>3. VersionsBehind' /\ version' >= version
    BY <1>0, <2>1
  <2>4. PanelWrites' /\ CopyIsTable'
    BY <2>1, <2>2
  <2> QED
    BY <2>3, <2>4
<1>3. CASE StartVersion
  BY <1>0, <1>3 DEF StartVersion, VersionRead, ledger
<1>4. CASE Stop
  <2>1. writer'[Panel].pc = "idle" /\ up' = "down" /\ UNCHANGED <<version, cacheVersion>>
    BY <1>0, <1>4 DEF Stop, TypeOK, ledger
  <2>3. version \in Nat /\ cacheVersion <= version
    BY <1>0
  <2>2. \A q \in Queries : query'[q].seen = 0
    BY <1>4 DEF Stop, FreeQuery
  <2>4. VersionsBehind'
    BY <2>1, <2>2, <2>3
  <2>5. PanelWrites' /\ CopyIsTable'
    BY <2>1
  <2>6. version' >= version
    BY <2>1, <2>3
  <2> QED
    BY <2>4, <2>5, <2>6
<1>5. CASE TwoSeconds \/ DayPasses \/ UNCHANGED vars
  BY <1>0, <1>5 DEF TwoSeconds, DayPasses, vars, ledger, engine
<1> QED
  BY <1>1, <1>2, <1>3, <1>4, <1>5

LEMMA VersionInvStep ==
    ASSUME TypeOK, VersionInv, PanelAlone, [Next]_vars
    PROVE  VersionInv' /\ version' >= version
<1>1. ASSUME NEW w \in Writers, NEW new, ChangeTable(w, new)
      PROVE  VersionInv' /\ version' >= version
  <2>1. version' = version /\ version \in Nat
    BY <1>1 DEF ChangeTable, TypeOK
  <2> QED
    BY <1>1, <2>1, VersionAfterChange
<1>2. ASSUME NEW w \in Writers, WriterStep(w) PROVE VersionInv' /\ version' >= version
  BY <1>2, VersionAfterBump
<1>3. ASSUME NEW q \in Queries, QueryStep(q) PROVE VersionInv' /\ version' >= version
  <2>1. version \in Nat
    BY DEF TypeOK
  <2> QED
    BY <1>3, <2>1, VersionAfterQuery
<1>4. ASSUME \/ Wipe \/ StartRules \/ StartVersion \/ Stop \/ TwoSeconds \/ DayPasses
             \/ UNCHANGED vars
      PROVE  VersionInv' /\ version' >= version
  BY <1>4, VersionAfterRest
<1> Panel \in Writers
  BY DEF Writers
<1> QED
  BY <1>1, <1>2, <1>3, <1>4 DEF Next, AddRule, UndoRule

LEMMA VersionInvHolds == ASSUME PanelAlone PROVE Spec => []VersionInv
<1>1. Init => VersionInv
  BY DEF Init, VersionInv, VersionsBehind, PanelWrites, CopyIsTable, Writers, FreeQuery
<1>2. TypeOK /\ VersionInv /\ [Next]_vars => VersionInv'
  BY VersionInvStep
<1> QED
  BY <1>1, <1>2, TypeCorrect, PTL DEF Spec

\* While the panel alone writes, an engine that holds the version of the file
\* applies the rules of the file (RuleCache in engine.rs): not looking at the
\* table again is no loss, for any number of queries, unless a bump was lost or
\* the start read no rules.
THEOREM VersionStandsForRules ==
    ASSUME PanelAlone
    PROVE  Spec => []SameVersionSameRules
<1>1. VersionInv => SameVersionSameRules
  BY DEF VersionInv, CopyIsTable, SameVersionSameRules, Writers
<1> QED
  BY <1>1, VersionInvHolds, PTL

\* While the panel alone writes the version never goes back
\* (bump_rules_version in ledger.rs).
THEOREM VersionNeverReturns ==
    ASSUME PanelAlone
    PROVE  Spec => VersionGrows
<1>1. TypeOK /\ VersionInv /\ [Next]_vars => [version' >= version]_version
  BY VersionInvStep
<1> QED
  BY <1>1, TypeCorrect, VersionInvHolds, PTL DEF Spec, VersionGrows

-----------------------------------------------------------------------------
\* The queries that were asked under another first day than the row has now:
\* the only ones that may be cut early.
Suspects == {q \in Queries : query[q].pc # "free" /\ query[q].first # row}

\* A row of the table gets an id nothing had,
IdsMade == \A r \in cache \cup table : r.id <= made

\* no query lives outside a pass,
DownFree == up # "up" => \A q \in Queries : query[q].pc = "free"

\* and either the engine knows no rule in force, so nothing was cut early since
\* the wipe,
FreshStart == early = 0 /\ cache \cap table = {}

\* or what it remembers is the row's day, and each early cut has used up one of
\* the queries that were asked before.
Remembers ==
    /\ early + Cardinality(Suspects) <= Cardinality(Queries)
    /\ up = "up" => memory \in {None, row}

EarlyInv == IdsMade /\ DownFree /\ (FreshStart \/ Remembers)

LEMMA SuspectsCounted ==
    /\ IsFiniteSet(Suspects) /\ Cardinality(Suspects) \in Nat
    /\ Cardinality(Queries) \in Nat /\ Cardinality(Suspects) <= Cardinality(Queries)
<1>1. IsFiniteSet(Queries) /\ Suspects \in SUBSET Queries
  BY EngineRulesAssumption DEF Suspects
<1> QED
  BY <1>1, FS_Subset, FS_CardinalityType

LEMMA SuspectsCountedNext ==
    /\ IsFiniteSet(Suspects') /\ Cardinality(Suspects') \in Nat
    /\ Cardinality(Suspects') <= Cardinality(Queries)
<1>1. IsFiniteSet(Queries) /\ Suspects' \in SUBSET Queries
  BY EngineRulesAssumption DEF Suspects
<1> QED
  BY <1>1, FS_Subset, FS_CardinalityType

\* A step that makes no query suspect, and cuts none early, spends nothing.
LEMMA NothingSpent ==
    ASSUME TypeOK, EarlyInv, early' = early, table' \cap cache' = table \cap cache,
           Suspects' \subseteq Suspects, IdsMade', DownFree',
           Remembers => (up' = "up" => memory' \in {None, row'})
    PROVE  EarlyInv'
<1>1. CASE FreshStart
  BY <1>1 DEF FreshStart, EarlyInv
<1>2. CASE Remembers
  <2>1. Cardinality(Suspects') <= Cardinality(Suspects)
    BY SuspectsCounted, FS_Subset
  <2>2. early' + Cardinality(Suspects') <= Cardinality(Queries)
    BY <1>2, <2>1, SuspectsCounted, SuspectsCountedNext DEF Remembers, TypeOK
  <2> QED
    BY <1>2, <2>2 DEF Remembers, EarlyInv
<1> QED
  BY <1>1, <1>2 DEF EarlyInv

\* A change of the table gives the engine no rule in force.
LEMMA EarlyAfterChange ==
    ASSUME TypeOK, EarlyInv, NEW w \in Writers, NEW new, ChangeTable(w, new),
           new \cap cache \subseteq table, \A r \in new : r.id <= made + 1
    PROVE  EarlyInv'
<1>1. /\ table' = new /\ made' = made + 1 /\ cache' = cache /\ early' = early
      /\ up' = up /\ query' = query /\ memory' = memory /\ row' = row
  BY DEF ChangeTable, engine
<1>2. IdsMade'
  BY <1>1 DEF EarlyInv, IdsMade, TypeOK, Rule
<1>3. DownFree'
  BY <1>1 DEF EarlyInv, DownFree
<1>4. Suspects' = Suspects
  BY <1>1 DEF Suspects
<1>5. CASE FreshStart
  BY <1>1, <1>2, <1>3, <1>5 DEF FreshStart, EarlyInv
<1>6. CASE Remembers
  BY <1>1, <1>2, <1>3, <1>4, <1>6 DEF Remembers, EarlyInv
<1> QED
  BY <1>5, <1>6 DEF EarlyInv

LEMMA EarlyAfterAdd ==
    ASSUME TypeOK, EarlyInv, NEW wide \in BOOLEAN, AddRule(wide)
    PROVE  EarlyInv'
<1> DEFINE rule == [id |-> made + 1, wide |-> wide]
           new == table \cup {rule}
<1>1. ChangeTable(Panel, new) /\ Panel \in Writers
  BY DEF AddRule, Writers
<1>2. rule.id = made + 1
  OBVIOUS
<1>3. rule \notin cache
  BY <1>2 DEF EarlyInv, IdsMade, TypeOK, Rule
<1>4. new \cap cache \subseteq table
  BY <1>3
<1>5. \A r \in new : r.id <= made + 1
  BY <1>2 DEF EarlyInv, IdsMade, TypeOK, Rule
<1> HIDE DEF new
<1> QED
  BY <1>1, <1>4, <1>5, EarlyAfterChange

LEMMA EarlyAfterUndo ==
    ASSUME TypeOK, EarlyInv, NEW w \in Writers, NEW r \in table, UndoRule(w, r)
    PROVE  EarlyInv'
<1> DEFINE new == table \ {r}
<1>1. ChangeTable(w, new)
  BY DEF UndoRule
<1>2. \A s \in new : s.id <= made + 1
  BY DEF EarlyInv, IdsMade, TypeOK, Rule
<1>3. new \cap cache \subseteq table
  OBVIOUS
<1> HIDE DEF new
<1> QED
  BY <1>1, <1>2, <1>3, EarlyAfterChange

LEMMA QueryFields ==
    ASSUME TypeOK, NEW q \in Queries
    PROVE  /\ query[q] \in QueryState
           /\ query[q].ts \in Nat /\ query[q].first \in Nat /\ query[q].first # None
<1>1. query[q] \in QueryState
  BY DEF TypeOK
<1>2. query[q].ts \in Days /\ query[q].first \in Days
  BY <1>1 DEF QueryState
<1>3. Days \subseteq Nat /\ None \notin Nat
  BY EngineRulesAssumption DEF Days
<1> QED
  BY <1>1, <1>2, <1>3

\* A query asked now takes the day that the row has after the step.
LEMMA EarlyAfterAsk ==
    ASSUME TypeOK, EarlyInv, NEW q \in Queries, Ask(q)
    PROVE  EarlyInv'
<1> DEFINE kept == IF row = None THEN now ELSE row
           first == IF memory # None THEN memory ELSE kept
           asked == [pc |-> "asked", ts |-> now, first |-> first, seen |-> 0]
<1>1. /\ memory' = first /\ query' = [query EXCEPT ![q] = asked] /\ query[q].pc = "free"
      /\ up = "up" /\ UNCHANGED <<table, made, up, cache, early>>
  BY DEF Ask
<1>2. row' = kept \/ (memory # None /\ row' = row)
  BY DEF Ask
<1>3. IdsMade' /\ DownFree'
  BY <1>1 DEF EarlyInv, IdsMade, DownFree
<1>4. CASE FreshStart
  BY <1>1, <1>3, <1>4 DEF FreshStart, EarlyInv
<1>5. CASE Remembers
  <2>1. memory' = row' /\ (row # None => row' = row) /\ now # None
    BY <1>1, <1>2, <1>5, EngineRulesAssumption DEF Remembers, TypeOK, Days
  <2>2. query'[q].first = row'
    BY <1>1, <2>1 DEF TypeOK
  <2>3. ASSUME NEW p \in Queries, p \in Suspects' PROVE p \in Suspects
    <3>1. p # q /\ query'[p] = query[p]
      BY <1>1, <2>2, <2>3 DEF Suspects, TypeOK
    <3>2. query[p].first # None
      BY QueryFields
    <3> QED
      BY <2>1, <2>3, <3>1, <3>2 DEF Suspects
  <2>4. Suspects' \subseteq Suspects
    BY <2>3 DEF Suspects
  <2> QED
    BY <1>1, <1>3, <2>1, <2>4, NothingSpent
<1> QED
  BY <1>4, <1>5 DEF EarlyInv

\* The rules are read again: what was remembered goes, and only what is under
\* way may still be cut early.
LEMMA EarlyAfterLoad ==
    ASSUME TypeOK, EarlyInv, NEW q \in Queries, NEW ok \in BOOLEAN, LoadRules(q, ok)
    PROVE  EarlyInv'
<1>1. /\ cache' \in {table, cache} /\ memory' = None /\ query[q].pc # "free"
      /\ \E pc \in {"asked rules", "answered rules"} :
            query' = [query EXCEPT ![q].pc = pc]
      /\ UNCHANGED <<table, row, made, up, early>>
  BY DEF LoadRules, MemoryAfterLoad, ledger
<1>2. IdsMade'
  BY <1>1 DEF EarlyInv, IdsMade
<1>3. \A p \in Queries : query'[p].first = query[p].first /\ (query'[p].pc = "free" <=> query[p].pc = "free")
  <2>1. PICK pc \in {"asked rules", "answered rules"} : query' = [query EXCEPT ![q].pc = pc]
    BY <1>1
  <2>2. pc # "free" /\ query \in [Queries -> QueryState]
    BY DEF TypeOK
  <2> QED
    BY <1>1, <2>1, <2>2 DEF QueryState
<1>4. DownFree' /\ Suspects' = Suspects
  BY <1>1, <1>3 DEF EarlyInv, DownFree, Suspects
<1>5. early' + Cardinality(Suspects') <= Cardinality(Queries)
  <2>1. early + Cardinality(Suspects) <= Cardinality(Queries)
    BY SuspectsCounted DEF EarlyInv, FreshStart, Remembers
  <2>2. early' = early /\ Suspects' = Suspects
    BY <1>1, <1>4
  <2> HIDE DEF Suspects
  <2> QED
    BY <2>1, <2>2
<1> QED
  BY <1>1, <1>2, <1>4, <1>5 DEF EarlyInv, Remembers

\* A cut that comes early is of a suspect, and ends it.
LEMMA EarlyIsSuspect ==
    ASSUME TypeOK, NEW q \in Queries, DecideQuery(q), Early(q)
    PROVE  /\ q \in Suspects /\ CutWidely(q) /\ cache \cap table # {}
<1>1. query[q].pc # "free"
  BY DEF DecideQuery
<1>2. query[q].ts >= query[q].first + 1 /\ (row = None \/ query[q].ts < row + 1)
  BY DEF Early, CutWidely, Observed
<1>3. query[q].ts \in Nat /\ query[q].first \in Nat /\ query[q].first # None
  BY QueryFields
<1>4. query[q].first # row
  BY <1>2, <1>3
<1> QED
  BY <1>1, <1>4 DEF Suspects, Early

LEMMA EarlyAfterDecide ==
    ASSUME TypeOK, EarlyInv, NEW q \in Queries, DecideQuery(q)
    PROVE  EarlyInv'
<1>1. /\ query[q].pc # "free"
      /\ UNCHANGED <<table, row, made, up, cache, memory>>
  BY DEF DecideQuery, ledger
<1>2. query'[q] = FreeQuery \/ query'[q] = [query[q] EXCEPT !.pc = "upstream"]
  BY DEF DecideQuery, TypeOK
<1>3. \A p \in Queries \ {q} : query'[p] = query[p]
  BY DEF DecideQuery, TypeOK
<1>4. IdsMade' /\ DownFree'
  BY <1>1, <1>2, <1>3 DEF EarlyInv, IdsMade, DownFree
<1>5. Suspects' \subseteq Suspects
  <2>1. \A p \in Queries :
            query'[p].pc # "free" => query[p].pc # "free" /\ query'[p].first = query[p].first
    <3>1. query'[q].pc # "free" => query'[q].first = query[q].first
      <4>1. query[q] \in QueryState
        BY QueryFields
      <4>2. [query[q] EXCEPT !.pc = "upstream"].first = query[q].first
        BY <4>1 DEF QueryState
      <4>3. CASE query'[q] = FreeQuery
        BY <4>3 DEF FreeQuery
      <4>4. CASE query'[q] = [query[q] EXCEPT !.pc = "upstream"]
        BY <4>2, <4>4
      <4> QED
        BY <1>2, <4>3, <4>4
    <3> QED
      BY <1>1, <1>3, <3>1
  <2> QED
    BY <1>1, <2>1 DEF Suspects
<1>6. CASE Early(q)
  <2>1. q \in Suspects /\ CutWidely(q) /\ ~FreshStart
    BY <1>6, EarlyIsSuspect DEF FreshStart
  <2>2. query'[q] = FreeQuery /\ early' = early + 1
    BY <1>6, <2>1 DEF DecideQuery, TypeOK
  <2>3. Suspects' \subseteq Suspects \ {q}
    BY <1>5, <2>2 DEF Suspects, FreeQuery
  <2>4. /\ IsFiniteSet(Suspects \ {q})
        /\ Cardinality(Suspects \ {q}) = Cardinality(Suspects) - 1
    BY <2>1, SuspectsCounted, FS_RemoveElement
  <2>5. Cardinality(Suspects') <= Cardinality(Suspects) - 1
    BY <2>3, <2>4, FS_Subset
  <2>6. early' + Cardinality(Suspects') <= Cardinality(Queries)
    BY <2>1, <2>2, <2>5, SuspectsCounted, SuspectsCountedNext DEF EarlyInv, Remembers, TypeOK
  <2>7. up' = "up" => memory' \in {None, row'}
    BY <1>1, <2>1 DEF EarlyInv, Remembers
  <2> QED
    BY <1>4, <2>6, <2>7 DEF EarlyInv, Remembers
<1>7. CASE ~Early(q)
  <2>1. early' = early
    BY <1>7 DEF DecideQuery
  <2> QED
    BY <1>1, <1>4, <1>5, <2>1, NothingSpent DEF Remembers
<1> QED
  BY <1>6, <1>7

LEMMA EarlyAfterQuery ==
    ASSUME TypeOK, EarlyInv, NEW q \in Queries, QueryStep(q)
    PROVE  EarlyInv'
<1>1. CASE AnswerDressed(q) \/ AnswerPlain(q) \/ \E seen \in VersionRead : CheckVersion(q, seen)
  <2>1. UNCHANGED <<table, row, made, up, cache, memory, early>>
    BY <1>1 DEF AnswerDressed, AnswerPlain, CheckVersion, ledger
  <2>2. query[q].pc # "free"
    BY <1>1 DEF AnswerDressed, AnswerPlain, CheckVersion
  <2>3. \A p \in Queries : /\ query'[p].pc # "free" => query'[p].first = query[p].first
                           /\ query[p].pc = "free" => query'[p] = query[p]
    <3>1. CASE AnswerDressed(q)
      BY <3>1 DEF AnswerDressed, TypeOK, QueryState
    <3>2. CASE AnswerPlain(q)
      BY <3>2 DEF AnswerPlain, TypeOK, QueryState, FreeQuery
    <3>3. ASSUME NEW seen \in VersionRead, CheckVersion(q, seen)
          PROVE  \A p \in Queries : /\ query'[p].first = query[p].first
                                    /\ query[p].pc = "free" => query'[p] = query[p]
      <4> DEFINE pc == NextPc(query[q].pc, due /\ seen # cacheVersion)
      <4>1. query' = [query EXCEPT ![q].pc = pc, ![q].seen = seen]
        BY <3>3 DEF CheckVersion
      <4> HIDE DEF pc
      <4> QED
        BY <2>2, <4>1 DEF TypeOK, QueryState
    <3> QED
      BY <1>1, <3>1, <3>2, <3>3
  <2>4. IdsMade' /\ DownFree' /\ Suspects' \subseteq Suspects
    BY <2>1, <2>3 DEF EarlyInv, IdsMade, DownFree, Suspects
  <2> QED
    BY <2>1, <2>4, NothingSpent DEF Remembers
<1> QED
  BY <1>1, EarlyAfterAsk, EarlyAfterLoad, EarlyAfterDecide DEF QueryStep

LEMMA EarlyAfterRest ==
    ASSUME TypeOK, EarlyInv,
           \/ \E w \in Writers : WriterStep(w)
           \/ Wipe \/ StartRules \/ StartVersion \/ Stop \/ TwoSeconds \/ DayPasses
           \/ UNCHANGED vars
    PROVE  EarlyInv'
<1>1. CASE Wipe
  <2>1. IdsMade' /\ DownFree' /\ FreshStart'
    BY <1>1 DEF Wipe, EarlyInv, IdsMade, DownFree, FreshStart, engine, TypeOK, Rule
  <2> QED
    BY <2>1 DEF EarlyInv
<1>2. CASE StartRules
  <2>1. /\ cache' \subseteq table /\ up = "down" /\ up' = "starting"
        /\ UNCHANGED <<table, row, made, query, early>>
    BY <1>2 DEF StartRules, ledger
  <2>2. IdsMade' /\ DownFree' /\ Suspects' = Suspects
    BY <2>1 DEF EarlyInv, IdsMade, DownFree, Suspects
  <2>3. early' + Cardinality(Suspects') <= Cardinality(Queries)
    BY <2>1, <2>2, SuspectsCounted DEF EarlyInv, FreshStart, Remembers
  <2> QED
    BY <2>1, <2>2, <2>3 DEF EarlyInv, Remembers
<1>3. CASE StartVersion
  <2>1. /\ memory' = None /\ up = "starting"
        /\ UNCHANGED <<table, row, made, cache, query, early>>
    BY <1>3 DEF StartVersion, ledger
  <2>2. IdsMade' /\ DownFree' /\ Suspects' = Suspects
    BY <2>1 DEF EarlyInv, IdsMade, DownFree, Suspects
  <2> QED
    BY <2>1, <2>2, NothingSpent
<1>4. CASE Stop
  <2>1. /\ up' = "down" /\ query' = [q \in Queries |-> FreeQuery]
        /\ UNCHANGED <<table, row, made, cache, early>>
    BY <1>4 DEF Stop, ledger
  <2>2. IdsMade' /\ DownFree' /\ Suspects' \subseteq Suspects
    BY <2>1 DEF EarlyInv, IdsMade, DownFree, Suspects, FreeQuery
  <2> QED
    BY <2>1, <2>2, NothingSpent
<1>5. CASE \/ \E w \in Writers : WriterStep(w)
           \/ TwoSeconds \/ DayPasses \/ UNCHANGED vars
  <2>1. UNCHANGED <<table, row, made, up, cache, memory, query, early>>
    BY <1>5 DEF WriterStep, ReadVersion, WriteVersion, BumpLost, TwoSeconds, DayPasses, vars,
                ledger, engine
  <2>2. IdsMade' /\ DownFree' /\ Suspects' = Suspects
    BY <2>1 DEF EarlyInv, IdsMade, DownFree, Suspects
  <2> QED
    BY <2>1, <2>2, NothingSpent DEF Remembers
<1> QED
  BY <1>1, <1>2, <1>3, <1>4, <1>5

\* After «Borrar todo» the day is counted again (RuleCache and devices_seen in
\* engine.rs): a wide rule cuts early at most the queries that the engine was
\* already deciding or had upstream, for any number of them, of writers and of
\* wipes.
THEOREM DayIsCountedAgain == Spec => []EarlyCutsBounded
<1>1. Init => EarlyInv
  BY DEF Init, EarlyInv, IdsMade, DownFree, FreshStart, FreeQuery
<1>2. TypeOK /\ EarlyInv /\ [Next]_vars => EarlyInv'
  BY EarlyAfterAdd, EarlyAfterUndo, EarlyAfterQuery, EarlyAfterRest DEF Next
<1>3. TypeOK /\ EarlyInv => EarlyCutsBounded
  BY SuspectsCounted DEF EarlyInv, FreshStart, Remembers, EarlyCutsBounded, TypeOK
<1> QED
  BY <1>1, <1>2, <1>3, TypeCorrect, PTL DEF Spec

-----------------------------------------------------------------------------
\* The service alone: no `guardiana dns` beside it, no interface that appears later, and no
\* death in the middle of an undo the person asked for.
NobodyElse == ~Terminal /\ ~Arrives /\ "restore" \notin Crashes

job == act[Service]

\* What each step of the service's task needs of the copy and of the links.
StepInv ==
    /\ job.task = "none" => /\ job.step = "none"
                            /\ copy = {} => Pointing = {}
    /\ job.task # "none" => job.plan = Links /\ job.step \notin {"none", "check"}
    /\ job.step = "store" => copy = {} /\ Pointing = {} /\ job.task = "apply"
    /\ job.step \in {"point", "apply"} => copy = Links
    /\ job.step = "point" => job.task \in {"watch", "back"}
    /\ job.step = "apply" => job.task \in {"watch", "back", "apply"}
    /\ job.step = "clear" => job.task = "restore" /\ job.todo = Links
    /\ job.step = "undo" => /\ job.task \in {"aside", "give", "apply", "restore"}
                            /\ ~job.failed => Pointing \subseteq job.todo
                            /\ copy = Links \/ (copy = {} /\ job.task = "restore")

\* What a request that waits for the lock has seen is still so.
PanelInv ==
    panel # NoRequest => /\ phase = "up"
                         /\ job.task \notin {"apply", "restore"}
                         /\ panel.asks = "restore" => panel.seen = Links
                         /\ panel.asks # "restore" => copy = {}

\* Which tasks a phase has, and what an orderly end left.
PhaseInv ==
    /\ job.task \notin {"none", "give"} => phase \in {"starting", "up"}
    /\ job.task = "give" => phase \in {"leaving", "closed"}
    /\ phase \in {"closed", "down"} /\ orderly => Pointing = {}

GuardInv ==
    /\ GuardTypeOK
    /\ copy \in {{}, Links}
    /\ \A i \in Links : dns[i] # "absent"
    /\ StepInv /\ PanelInv /\ PhaseInv

-----------------------------------------------------------------------------
LEMMA ServiceActs == Service \in Actors /\ (~Terminal => Actors = {Service})
BY DEF Actors

LEMMA NoJobIsJob == NoJob \in Job
BY DEF NoJob, Job, Tasks, Steps

LEMMA BeginIsJob ==
    \A task \in Tasks, step \in Steps, plan \in SUBSET Links : Begin(task, step, plan) \in Job
BY DEF Begin, Job

LEMMA InitType == GuardInit => GuardTypeOK
<1> SUFFICES ASSUME GuardInit PROVE GuardTypeOK
    OBVIOUS
<1>1. dns \in [Links -> {"absent", "own", "guardian"}]
      <2>1. CASE Arrives
            BY <2>1 DEF GuardInit
      <2>2. CASE ~Arrives
            BY <2>2 DEF GuardInit
      <2>3. QED BY <2>1, <2>2
<1>2. act \in [Actors -> Job]
      BY NoJobIsJob DEF GuardInit
<1>3. QED BY <1>1, <1>2 DEF GuardInit, GuardTypeOK, Phases, NoRequest

LEMMA NextType == GuardTypeOK /\ [GuardNext]_guardVars => GuardTypeOK'
<1> SUFFICES ASSUME GuardTypeOK, [GuardNext]_guardVars PROVE GuardTypeOK'
    OBVIOUS
<1> USE ServiceActs DEF GuardTypeOK, Phases
<1>0. ASSUME NEW a \in Actors PROVE act[a] \in Job /\ act[a].task \in Tasks /\ act[a].plan \in SUBSET Links
      BY DEF Job
<1>1. CASE Start
      BY <1>1 DEF Start
<1>2. CASE Rebuild
      BY <1>2 DEF Rebuild
<1>3. CASE BeginStop
      BY <1>3 DEF BeginStop
<1>4. CASE GiveBack
  <2>1. Begin("give", "undo", copy) \in Job
        BY BeginIsJob DEF Tasks, Steps
  <2>2. QED BY <1>4, <2>1 DEF GiveBack, AfterGiving
<1>5. CASE Minute
  <2>0. /\ Begin("watch", "point", copy) \in Job
        /\ Begin("back", "point", copy) \in Job
        /\ Begin("aside", "undo", copy) \in Job
        BY BeginIsJob DEF Tasks, Steps
  <2>1. CASE Watch
        BY <2>0, <2>1 DEF Watch
  <2>2. CASE StepAside
        BY <2>0, <2>2 DEF StepAside
  <2>3. CASE StepAsideAgain
        BY <2>0, <2>3 DEF StepAsideAgain
  <2>4. CASE ComeBack
        BY <2>0, <2>4 DEF ComeBack
  <2>5. QED BY <1>5, <2>1, <2>2, <2>3, <2>4 DEF Minute
<1>6. ASSUME NEW what \in {"apply", "restore"}, PanelAsks(what) PROVE GuardTypeOK'
      BY <1>6 DEF PanelAsks
<1>7. CASE PanelBegins
  <2>1. /\ Begin("restore", "clear", panel.seen) \in Job
        /\ Begin("apply", "store", Own) \in Job
        BY BeginIsJob DEF Own, Tasks, Steps
  <2>2. act' \in [Actors -> Job]
        BY <1>7, <2>1, NoJobIsJob DEF PanelBegins
  <2>3. QED BY <1>7, <2>2 DEF PanelBegins, NoRequest
<1>8. CASE ShellApplies
  <2>1. Begin("apply", "store", Own) \in Job
        BY BeginIsJob DEF Own, Tasks, Steps
  <2>2. QED BY <1>8, <2>1 DEF ShellApplies, Actors
<1>9. CASE ShellRestores
  <2>1. Begin("restore", "clear", copy) \in Job
        BY BeginIsJob DEF Tasks, Steps
  <2>2. QED BY <1>9, <2>1 DEF ShellRestores, Actors
<1>10. ASSUME NEW a \in Actors, TaskStep(a) PROVE GuardTypeOK'
  <2>0. End(a) => act' \in [Actors -> Job] /\ phase' \in Phases
        BY NoJobIsJob DEF End, PhaseAfter, AfterGiving
  <2>1. CASE Point(a)
    <3> DEFINE joined == act[a].plan \cup Own
    <3>1. joined \in SUBSET Links /\ Begin(act[a].task, "apply", joined) \in Job
          BY <1>0, BeginIsJob DEF Own, Steps
    <3> HIDE DEF joined
    <3>2. /\ act' \in [Actors -> Job] /\ phase' \in Phases
          /\ copy' \in {copy, joined}
          BY <2>0, <2>1, <3>1 DEF Point, joined
    <3>3. UNCHANGED <<dns, aside, panel, net, orderly>>
          BY <2>1 DEF Point
    <3>4. QED BY <3>1, <3>2, <3>3
  <2>2. CASE KeepCopy(a)
    <3>1. act' \in [Actors -> Job]
          BY <2>2 DEF KeepCopy, Job, Steps
    <3>2. copy' \subseteq Links
          BY <1>0, <2>2 DEF KeepCopy
    <3>3. UNCHANGED <<dns, phase, aside, panel, net, orderly>>
          BY <2>2 DEF KeepCopy
    <3>4. QED BY <3>1, <3>2, <3>3
  <2>3. CASE ApplyDone(a)
    <3>1. act' \in [Actors -> Job] /\ phase' \in Phases
      <4>1. CASE act' = [act EXCEPT ![a].step = "check"] /\ UNCHANGED phase
            BY <4>1 DEF Job, Steps
      <4>2. QED BY <2>0, <2>3, <4>1 DEF ApplyDone
    <3>2. aside' \in BOOLEAN /\ UNCHANGED <<copy, dns, panel, net, orderly>>
          BY <2>3 DEF ApplyDone
    <3>3. QED BY <3>1, <3>2
  <2>4. CASE ShellChecks(a)
    <3>1. Begin("restore", "clear", act[a].plan) \in Job
          BY <1>0, BeginIsJob DEF Tasks, Steps
    <3>2. act' \in [Actors -> Job]
          BY <2>4, <3>1, NoJobIsJob DEF ShellChecks
    <3>3. QED BY <2>4, <3>2 DEF ShellChecks
  <2>5. CASE ClearCopy(a)
        BY <1>10, <2>5 DEF ClearCopy, Job, Steps
  <2>6. CASE UndoDone(a)
    <3>1. act[a].failed \in BOOLEAN
          BY <1>0 DEF Job
    <3>2. CopyAfterUndo(a) \in SUBSET Links
          BY <1>0 DEF CopyAfterUndo
    <3>3. QED BY <2>0, <2>6, <3>1, <3>2 DEF UndoDone
  <2>7. ASSUME NEW i \in Links, ApplyLink(a, i) PROVE GuardTypeOK'
        BY <1>10, <2>7 DEF ApplyLink, Set, Job
  <2>8. ASSUME NEW i \in Links, ApplyFails(a, i) PROVE GuardTypeOK'
    <3>1. Begin("apply", "undo", act[a].plan) \in Job
          BY <1>0, BeginIsJob DEF Tasks, Steps
    <3>2. act' \in [Actors -> Job] /\ phase' \in Phases
          BY <2>0, <2>8, <3>1 DEF ApplyFails
    <3>3. UNCHANGED <<copy, dns, aside, panel, net, orderly>>
          BY <2>8 DEF ApplyFails
    <3>4. QED BY <3>2, <3>3
  <2>9. ASSUME NEW i \in Links, UndoLink(a, i) PROVE GuardTypeOK'
        BY <1>10, <2>9 DEF UndoLink, Set, Job
  <2>10. ASSUME NEW i \in Links, UndoFails(a, i) PROVE GuardTypeOK'
    <3>1. act[a].todo \ {i} \in SUBSET Links
          BY <1>0 DEF Job
    <3>2. act' \in [Actors -> Job]
      <4> DEFINE j == [act[a] EXCEPT !.todo = @ \ {i}, !.failed = TRUE]
      <4>1. j \in Job
            BY <1>0, <3>1 DEF Job
      <4>2. act' = [act EXCEPT ![a] = j]
            BY <2>10 DEF UndoFails
      <4> HIDE DEF j
      <4>3. QED BY <4>1, <4>2
    <3>3. UNCHANGED <<copy, dns, phase, aside, panel, net, orderly>>
          BY <2>10 DEF UndoFails
    <3>4. QED BY <3>2, <3>3
  <2>11. QED BY <1>10, <2>1, <2>2, <2>3, <2>4, <2>5, <2>6, <2>7, <2>8, <2>9, <2>10 DEF TaskStep
<1>11. ASSUME NEW a \in Actors, Crash(a) PROVE GuardTypeOK'
  <2>1. act' \in [Actors -> Job]
        BY <1>11, NoJobIsJob DEF Crash
  <2>2. CASE a = Service
    <3>1. NoRequest \in [asks : {"none", "apply", "restore"}, seen : SUBSET Links]
          BY DEF NoRequest
    <3>2. /\ phase' = "down" /\ aside' = FALSE /\ panel' = NoRequest /\ orderly' = FALSE
          /\ UNCHANGED <<copy, dns, net>>
          BY <1>11, <2>2 DEF Crash
    <3>3. QED BY <2>1, <3>1, <3>2
  <2>3. CASE a # Service
        BY <1>11, <2>1, <2>3 DEF Crash
  <2>4. QED BY <2>2, <2>3
<1>12. ASSUME NEW i \in Links, Renews(i) \/ Appears(i) PROVE GuardTypeOK'
      BY <1>12 DEF Renews, Appears
<1>13. CASE NetFlips
      BY <1>13 DEF NetFlips
<1>14. CASE UNCHANGED guardVars
      BY <1>14 DEF guardVars
<1>15. QED
      BY <1>1, <1>2, <1>3, <1>4, <1>5, <1>6, <1>7, <1>8, <1>9, <1>10, <1>11, <1>12, <1>13, <1>14
      DEF GuardNext

\* Every variable keeps its type, with a terminal beside the service or not.
THEOREM GuardTypeCorrect == GuardSpec => []GuardTypeOK
BY InitType, NextType, PTL DEF GuardSpec


-----------------------------------------------------------------------------
LEMMA InitGuard == NobodyElse /\ GuardInit => GuardInv
<1> SUFFICES ASSUME NobodyElse, GuardInit PROVE GuardInv
    OBVIOUS
<1>1. GuardTypeOK
      BY InitType
<1>2. \A i \in Links : dns[i] = "own"
      BY DEF NobodyElse, GuardInit
<1>3. Pointing = {}
      BY <1>2 DEF Pointing
<1>4. job = NoJob
      BY ServiceActs DEF job, GuardInit
<1>5. QED BY <1>1, <1>2, <1>3, <1>4
          DEF GuardInv, StepInv, PanelInv, PhaseInv, GuardInit, NoJob

LEMMA NextGuard == NobodyElse /\ GuardInv /\ [GuardNext]_guardVars => GuardInv'
<1> SUFFICES ASSUME NobodyElse, GuardInv, [GuardNext]_guardVars PROVE GuardInv'
    OBVIOUS
<1> USE DEF GuardInv, StepInv, PanelInv, PhaseInv
<1>a. GuardTypeOK /\ GuardTypeOK'
      BY NextType
<1>b. /\ Actors = {Service} /\ act \in [{Service} -> Job] /\ job \in Job
      /\ panel \in [asks : {"none", "apply", "restore"}, seen : SUBSET Links]
      BY <1>a, ServiceActs DEF NobodyElse, GuardTypeOK, job
<1>c. Idle(Service) <=> job.task = "none"
      BY DEF Idle, job
<1>d. Own = Links \ Pointing /\ Pointing \subseteq Links
      BY <1>a DEF Own, Pointing, GuardTypeOK
<1>e. ASSUME UNCHANGED dns
      PROVE  Pointing' = Pointing /\ \A i \in Links : dns'[i] # "absent"
      BY <1>e DEF Pointing
<1>f. ASSUME UNCHANGED act PROVE job' = job
      BY <1>f DEF job
<1>g. job.todo \subseteq Links /\ job.failed \in BOOLEAN
      BY <1>b DEF Job
<1>1. CASE Start
      BY <1>1, <1>a, <1>e, <1>f DEF Start
<1>2. CASE Rebuild
      BY <1>2, <1>a, <1>c, <1>e, <1>f DEF Rebuild
<1>3. CASE BeginStop
      BY <1>3, <1>a, <1>c, <1>e, <1>f DEF BeginStop
<1>4. CASE GiveBack
  <2>1. CASE copy # {} /\ StillSet
    <3>1. job' = Begin("give", "undo", copy)
          BY <1>4, <1>b, <2>1 DEF GiveBack, job
    <3>2. UNCHANGED <<copy, dns, phase, panel, orderly>> /\ phase \in {"leaving", "closed"} /\ job.task = "none"
          BY <1>4, <1>c, <2>1 DEF GiveBack
    <3>3. QED BY <1>a, <1>d, <1>e, <2>1, <3>1, <3>2 DEF Begin, StillSet
  <2>2. CASE ~(copy # {} /\ StillSet)
    <3>1. /\ UNCHANGED <<act, copy, dns, panel>> /\ job.task = "none"
          /\ phase \in {"leaving", "closed"} /\ phase' \in {"closed", "down"}
          BY <1>4, <1>c, <2>2 DEF GiveBack, AfterGiving
    <3>2. QED BY <1>a, <1>d, <1>e, <1>f, <2>2, <3>1 DEF StillSet
  <2>3. QED BY <2>1, <2>2
<1>5. CASE Minute
  <2>1. CASE Watch
    <3>1. CASE copy = {}
          BY <1>a, <1>c, <1>e, <1>f, <2>1, <3>1 DEF Watch
    <3>2. CASE copy # {}
      <4>1. job' = Begin("watch", "point", copy)
            BY <1>b, <2>1, <3>2 DEF Watch, job
      <4>2. UNCHANGED <<copy, dns, phase, panel, orderly>> /\ phase \in {"starting", "up"} /\ job.task = "none"
            BY <1>c, <2>1, <3>2 DEF Watch
      <4>3. QED BY <1>a, <1>e, <3>2, <4>1, <4>2 DEF Begin
    <3>3. QED BY <3>1, <3>2
  <2>2. CASE StepAside \/ StepAsideAgain
    <3>1. UNCHANGED <<copy, dns, phase, panel, orderly>> /\ phase = "up" /\ job.task = "none"
          BY <1>c, <2>2 DEF StepAside, StepAsideAgain
    <3>2. CASE UNCHANGED act
          BY <1>a, <1>e, <1>f, <3>1, <3>2
    <3>3. CASE act' = [act EXCEPT ![Service] = Begin("aside", "undo", copy)] /\ copy # {}
      <4>1. job' = Begin("aside", "undo", copy)
            BY <1>b, <3>3 DEF job
      <4>2. QED BY <1>a, <1>d, <1>e, <3>1, <3>3, <4>1 DEF Begin
    <3>4. QED BY <2>2, <3>2, <3>3 DEF StepAside, StepAsideAgain
  <2>3. CASE ComeBack
    <3>1. UNCHANGED <<copy, dns, phase, panel, orderly>> /\ phase = "up" /\ job.task = "none"
          BY <1>c, <2>3 DEF ComeBack
    <3>2. CASE copy = {}
          BY <1>a, <1>e, <1>f, <2>3, <3>1, <3>2 DEF ComeBack
    <3>3. CASE copy # {}
      <4>1. job' = Begin("back", "point", copy)
            BY <1>b, <2>3, <3>3 DEF ComeBack, job
      <4>2. QED BY <1>a, <1>e, <3>1, <3>3, <4>1 DEF Begin
    <3>4. QED BY <3>2, <3>3
  <2>4. QED BY <1>5, <2>1, <2>2, <2>3 DEF Minute
<1>6. ASSUME NEW what \in {"apply", "restore"}, PanelAsks(what) PROVE GuardInv'
  <2>1. /\ panel' = [asks |-> what, seen |-> copy] /\ (what = "apply" <=> copy = {})
        /\ UNCHANGED <<copy, dns, phase, act, orderly>> /\ phase = "up"
        /\ job.task \notin {"apply", "restore"}
        BY <1>6 DEF PanelAsks, job
  <2>2. QED BY <1>a, <1>e, <1>f, <2>1
<1>7. CASE PanelBegins
  <2>1. /\ job.task = "none" /\ panel # NoRequest /\ phase = "up" /\ panel' = NoRequest
        /\ UNCHANGED <<copy, dns, phase, orderly>>
        BY <1>7, <1>c DEF PanelBegins
  <2>2. CASE panel.asks = "restore"
    <3>1. job' = Begin("restore", "clear", Links)
          BY <1>7, <1>b, <2>1, <2>2 DEF PanelBegins, job
    <3>2. QED BY <1>a, <1>e, <2>1, <2>2, <3>1 DEF Begin
  <2>3. CASE panel.asks # "restore"
    <3>1. copy = {} /\ Pointing = {} /\ Own = Links
          BY <1>d, <2>1, <2>3
    <3>2. job' = IF Own = {} THEN NoJob ELSE Begin("apply", "store", Own)
          BY <1>7, <1>b, <2>3 DEF PanelBegins, job
    <3>3. CASE Own = {}
          BY <1>a, <1>e, <2>1, <3>1, <3>2, <3>3 DEF NoJob
    <3>4. CASE Own # {}
          BY <1>a, <1>e, <2>1, <3>1, <3>2, <3>4 DEF Begin
    <3>5. QED BY <3>3, <3>4
  <2>4. QED BY <2>2, <2>3
<1>8. CASE ShellApplies \/ ShellRestores
      BY <1>8 DEF ShellApplies, ShellRestores, NobodyElse
<1>9. CASE TaskStep(Service)
  <2>0. End(Service) /\ UNCHANGED dns /\ job.task # "give"
           => job' = NoJob /\ phase' = IF phase = "starting" THEN "up" ELSE phase
        BY <1>b DEF End, PhaseAfter, job
  <2>1. CASE Point(Service)
    <3>1. /\ job.step = "point" /\ copy = Links /\ job.plan = Links /\ job.task \in {"watch", "back"}
          /\ UNCHANGED <<dns, panel, orderly>> /\ phase \in {"starting", "up"}
          BY <2>1 DEF Point, job
    <3>2. job.plan \cup Own = Links
          BY <1>d, <3>1
    <3>3. CASE End(Service) /\ UNCHANGED copy
          BY <1>a, <1>d, <1>e, <2>0, <3>1, <3>3 DEF NoJob
    <3>4. CASE act' = [act EXCEPT ![Service] = Begin(@.task, "apply", Links)] /\ UNCHANGED <<copy, phase>>
      <4>1. job' = Begin(job.task, "apply", Links)
            BY <1>b, <3>4 DEF job
      <4>2. QED BY <1>a, <1>e, <3>1, <3>4, <4>1 DEF Begin
    <3>5. QED BY <2>1, <3>1, <3>2, <3>3, <3>4 DEF Point, job
  <2>2. CASE KeepCopy(Service)
    <3>1. /\ job.step = "store" /\ copy' = Links /\ UNCHANGED <<dns, phase, panel, orderly>>
          /\ job' = [job EXCEPT !.step = "apply"] /\ job.task = "apply" /\ Pointing = {}
          BY <1>b, <2>2 DEF KeepCopy, job
    <3>2. job'.task = "apply" /\ job'.step = "apply" /\ job'.plan = Links
          BY <1>b, <3>1 DEF Job
    <3>3. QED BY <1>a, <1>e, <3>1, <3>2
  <2>3. CASE ApplyDone(Service)
    <3>1. /\ job.step = "apply" /\ copy = Links /\ job.task \in {"watch", "back", "apply"}
          /\ End(Service) /\ UNCHANGED <<copy, dns, panel, orderly>> /\ phase \in {"starting", "up"}
          BY <2>3 DEF ApplyDone, job, Service, Shell
    <3>2. QED BY <1>a, <1>d, <1>e, <2>0, <3>1 DEF NoJob
  <2>4. CASE ShellChecks(Service)
        BY <2>4 DEF ShellChecks, job
  <2>5. CASE ClearCopy(Service)
    <3>1. /\ job.step = "clear" /\ job.task = "restore" /\ copy' = {}
          /\ job' = [job EXCEPT !.step = "undo"] /\ UNCHANGED <<dns, phase, panel, orderly>>
          BY <1>b, <2>5 DEF ClearCopy, job
    <3>2. /\ job'.step = "undo" /\ job'.task = "restore"
          /\ job'.plan = Links /\ job'.todo = Links
          BY <1>b, <3>1 DEF Job
    <3>3. QED BY <1>a, <1>d, <1>e, <3>1, <3>2
  <2>6. CASE UndoDone(Service)
    <3>1. /\ job.step = "undo" /\ job.todo = {} /\ copy' = CopyAfterUndo(Service)
          /\ orderly' = (IF job.task = "give" THEN ~job.failed ELSE orderly)
          /\ UNCHANGED <<dns, panel>>
          /\ job' = NoJob /\ phase' = PhaseAfter(Service)
          BY <1>b, <2>6 DEF UndoDone, End, job
    <3>2. Pointing' = Pointing /\ (~job.failed => Pointing = {})
          BY <1>e, <3>1
    <3>3. job'.task = "none" /\ job'.step = "none"
          BY <3>1 DEF NoJob
    <3>4. CASE job.task = "give"
      <4>1. copy' = copy /\ copy = Links /\ phase' \in {"closed", "down"} /\ panel = NoRequest
            BY <3>1, <3>4 DEF CopyAfterUndo, PhaseAfter, AfterGiving, job
      <4>2. QED BY <1>a, <1>d, <1>e, <3>1, <3>2, <3>3, <3>4, <4>1
    <3>5. CASE job.task # "give"
      <4>1. /\ phase \in {"starting", "up"} /\ phase' = (IF phase = "starting" THEN "up" ELSE phase)
            /\ UNCHANGED orderly
            BY <3>1, <3>5 DEF PhaseAfter, job
      <4>2. copy' = Links \/ (copy' = {} /\ ~job.failed)
            BY <3>1, <3>5 DEF CopyAfterUndo, job
      <4>3. panel # NoRequest => copy' = copy
            BY <3>1, <3>5 DEF CopyAfterUndo, job
      <4>4. QED BY <1>a, <1>d, <1>e, <3>1, <3>2, <3>3, <4>1, <4>2, <4>3
    <3>6. QED BY <3>4, <3>5
  <2>7. ASSUME NEW i \in Links, ApplyLink(Service, i) PROVE GuardInv'
    <3>1. /\ job.step = "apply" /\ UNCHANGED <<copy, phase, panel, orderly>>
          /\ job' = [job EXCEPT !.todo = @ \ {i}] /\ dns' = Set(i, "guardian")
          BY <1>b, <2>7 DEF ApplyLink, job
    <3>2. job'.step = "apply" /\ job'.task = job.task /\ job'.plan = job.plan
          BY <1>b, <3>1 DEF Job
    <3>3. \A j \in Links : dns'[j] # "absent"
          BY <1>a, <3>1 DEF Set, GuardTypeOK
    <3>4. job.task \in {"watch", "back", "apply"} /\ copy = Links /\ phase \in {"starting", "up"}
          BY <3>1
    <3>5. QED BY <1>a, <3>1, <3>2, <3>3, <3>4
  <2>8. ASSUME NEW i \in Links, ApplyFails(Service, i) PROVE GuardInv'
    <3>1. /\ job.step = "apply" /\ UNCHANGED <<copy, dns, panel, orderly>> /\ copy = Links
          /\ phase \in {"starting", "up"} /\ job.plan = Links
          BY <1>b, <2>8 DEF ApplyFails, job
    <3>2. CASE job.task = "apply"
      <4>1. job' = Begin("apply", "undo", Links) /\ UNCHANGED phase
            BY <1>b, <2>8, <3>1, <3>2 DEF ApplyFails, job
      <4>2. QED BY <1>a, <1>d, <1>e, <3>1, <3>2, <4>1 DEF Begin
    <3>3. CASE job.task # "apply"
      <4>1. End(Service)
            BY <2>8, <3>3 DEF ApplyFails, job
      <4>2. job.task # "give"
            BY <3>1
      <4>3. QED BY <1>a, <1>d, <1>e, <2>0, <3>1, <4>1, <4>2 DEF NoJob
    <3>4. QED BY <3>2, <3>3
  <2>9. ASSUME NEW i \in Links, UndoLink(Service, i) PROVE GuardInv'
    <3>1. /\ job.step = "undo" /\ UNCHANGED <<copy, phase, panel, orderly>>
          /\ job' = [job EXCEPT !.todo = @ \ {i}] /\ dns' = Set(i, "own")
          BY <1>b, <2>9 DEF UndoLink, job
    <3>2. /\ job'.step = "undo" /\ job'.task = job.task /\ job'.plan = job.plan
          /\ job'.failed = job.failed /\ job'.todo = job.todo \ {i}
          BY <1>b, <3>1 DEF Job
    <3>3. (\A j \in Links : dns'[j] # "absent") /\ Pointing' = Pointing \ {i}
          BY <1>a, <3>1 DEF Set, GuardTypeOK, Pointing
    <3>4. QED BY <1>a, <3>1, <3>2, <3>3
  <2>10. ASSUME NEW i \in Links, UndoFails(Service, i) PROVE GuardInv'
    <3>1. /\ job.step = "undo" /\ UNCHANGED <<copy, dns, phase, panel, orderly>>
          /\ job' = [job EXCEPT !.todo = @ \ {i}, !.failed = TRUE]
          BY <1>b, <2>10 DEF UndoFails, job
    <3>2. /\ job'.step = "undo" /\ job'.task = job.task /\ job'.plan = job.plan
          /\ job'.failed = TRUE
          BY <1>b, <3>1 DEF Job
    <3>3. QED BY <1>a, <1>e, <3>1, <3>2
  <2>11. QED BY <1>9, <2>1, <2>2, <2>3, <2>4, <2>5, <2>6, <2>7, <2>8, <2>9, <2>10 DEF TaskStep
<1>10. CASE Crash(Service)
  <2>1. /\ job' = NoJob /\ phase' = "down" /\ panel' = NoRequest /\ orderly' = FALSE
        /\ UNCHANGED <<copy, dns>> /\ job.task # "restore"
        BY <1>10, <1>b DEF Crash, NobodyElse, job
  <2>2. copy = {} => Pointing = {}
    <3>1. CASE job.task = "none" \/ job.step = "store"
          BY <3>1
    <3>2. CASE job.task # "none" /\ job.step # "store"
      <4>1. job.step \in {"point", "apply", "clear", "undo"}
            BY <1>b, <3>2 DEF Job, Steps
      <4>2. copy = Links
            BY <2>1, <4>1
      <4>3. QED BY <1>d, <4>2
    <3>3. QED BY <3>1, <3>2
  <2>3. QED BY <1>a, <1>e, <2>1, <2>2 DEF NoJob
<1>11. ASSUME NEW i \in Links, Renews(i) PROVE GuardInv'
  <2>1. /\ UNCHANGED <<copy, phase, panel, act, orderly>>
        /\ dns' = [dns EXCEPT ![i] = "own"]
        BY <1>11 DEF Renews
  <2>2. Pointing' \subseteq Pointing /\ \A j \in Links : dns'[j] # "absent"
        BY <1>a, <2>1 DEF GuardTypeOK, Pointing
  <2>3. QED BY <1>a, <1>f, <2>1, <2>2
<1>12. ASSUME NEW i \in Links, Appears(i) PROVE GuardInv'
      BY <1>12 DEF Appears
<1>13. CASE NetFlips
      BY <1>13, <1>a, <1>e, <1>f DEF NetFlips
<1>14. CASE UNCHANGED guardVars
      BY <1>14, <1>a, <1>e, <1>f DEF guardVars
<1>15. QED
      BY <1>1, <1>2, <1>3, <1>4, <1>5, <1>6, <1>7, <1>8, <1>9, <1>10, <1>11, <1>12, <1>13, <1>14, <1>b
      DEF GuardNext

LEMMA GuardProtects == GuardInv => NothingWithoutCopy /\ StopGivesBack
<1> SUFFICES ASSUME GuardInv PROVE NothingWithoutCopy /\ StopGivesBack
    OBVIOUS
<1>1. Pointing \subseteq Links
      BY DEF Pointing
<1>2. Idle(Service) => Pointing \subseteq copy
      BY <1>1 DEF GuardInv, StepInv, Idle, job
<1>3. NothingWithoutCopy
      BY <1>2, ServiceActs DEF NothingWithoutCopy
<1>4. StopGivesBack
      BY DEF StopGivesBack, GuardInv, PhaseInv
<1>5. QED BY <1>3, <1>4

\* With the service alone, no crash, failed command, dropped resolver, rebuilt
\* pass or unlucky minute leaves a link asking Guardiana with no copy that gives
\* it back (engine.rs 1061-1162, api.rs 438-603).
THEOREM NeverWithoutCopy == ASSUME NobodyElse PROVE GuardSpec => []NothingWithoutCopy
<1>1. GuardInit => GuardInv
      BY NobodyElse, InitGuard
<1>2. GuardInv /\ [GuardNext]_guardVars => GuardInv'
      BY NobodyElse, NextGuard
<1>3. GuardInv => NothingWithoutCopy
      BY GuardProtects
<1>4. QED BY <1>1, <1>2, <1>3, PTL DEF GuardSpec

\* With the service alone, whoever stopped it is left asking his own resolvers,
\* unless a command failed in the undo of that very stop (engine.rs 983-1011).
THEOREM AStopGivesBack == ASSUME NobodyElse PROVE GuardSpec => []StopGivesBack
<1>1. GuardInit => GuardInv
      BY NobodyElse, InitGuard
<1>2. GuardInv /\ [GuardNext]_guardVars => GuardInv'
      BY NobodyElse, NextGuard
<1>3. GuardInv => StopGivesBack
      BY GuardProtects
<1>4. QED BY <1>1, <1>2, <1>3, PTL DEF GuardSpec
=============================================================================
