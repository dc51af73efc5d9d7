----------------------------- MODULE EngineRules -----------------------------
(***************************************************************************)
(* The rules as the running engine applies them (crates/cli/src/engine.rs):*)
(* a copy of the table, read again when `rules_version` moved (looked at   *)
(* every two seconds, by a query), and the memory of when the device was   *)
(* first seen, which the 24 hours of a wide rule are counted from.         *)
(*                                                                         *)
(* The table and its version belong to the ledger file and are written by  *)
(* others: the panel, inside this process and only while a pass runs, and  *)
(* the terminal, a process of its own.  A change of the table and the two  *)
(* halves of bump_rules_version are three commits.                         *)
(*                                                                         *)
(* There is one device, this computer, and one name; a rule cuts it by     *)
(* name, or widely (by category, for the whole home).  Time is in days.    *)
(***************************************************************************)
EXTENDS Naturals, FiniteSets

CONSTANTS
    None,        \* no row, no memory, nobody
    Queries,     \* queries in flight at once
    Terminals,   \* `guardiana reglas deshacer` running beside the panel
    BumpFails,   \* TRUE: after the change, the bump may fail (database busy)
    StartFails,  \* TRUE: a pass may start without having read the rules
    MaxChanges,  \* bound: changes of the table
    MaxDays      \* bound: days

ASSUME EngineRulesAssumption ==
    /\ None \notin Nat \cup Queries
    /\ IsFiniteSet(Queries)
    /\ {BumpFails, StartFails} \subseteq BOOLEAN
    /\ MaxChanges \in Nat
    /\ MaxDays \in Nat

VARIABLES
    \* the ledger
    table,        \* the rules in force
    version,      \* settings.rules_version
    row,          \* devices.first_seen of this computer
    made,         \* changes made so far; the id of the last rule
    \* who writes it
    writer,       \* [pc, seen] of the panel and of each terminal
    \* the engine
    up,           \* the pass: "down", "starting" (rules read) or "up"
    cache,        \* RuleCache.rules
    cacheVersion, \* RuleCache.version
    due,          \* two seconds went by since RuleCache.checked
    memory,       \* Inner.devices_seen of this computer
    lock,         \* the query that holds Inner
    query,        \* [pc, ts, first, seen] of each query
    \* the world
    now,
    early,        \* since the last wipe: wide cuts by a rule in force while the
                  \* row has no day yet
    slip          \* since the rules were last read: a bump was lost, or a pass
                  \* started without having read them

ledger == <<table, version, row, made>>
engine == <<up, cache, cacheVersion, due, memory, lock, query>>
vars == <<ledger, writer, engine, now, early, slip>>

Panel == "panel"
Writers == {Panel} \cup Terminals
Rule == [id : Nat, wide : BOOLEAN]
Days == 0..MaxDays
WriterState == [pc : {"idle", "changed", "read"}, seen : Nat]
QueryState ==
    [pc : {"free", "asked", "asked load", "asked rules", "upstream",
           "answered", "answered load", "answered rules"},
     ts : Days, first : Days, seen : Nat]
FreeQuery == [pc |-> "free", ts |-> 0, first |-> 0, seen |-> 0]

Init ==
    /\ table = {} /\ version = 0 /\ row = None /\ made = 0
    /\ writer = [w \in Writers |-> [pc |-> "idle", seen |-> 0]]
    /\ up = "down" /\ cache = {} /\ cacheVersion = 0 /\ due = FALSE
    /\ memory = None /\ lock = None
    /\ query = [q \in Queries |-> FreeQuery]
    /\ now = 0 /\ early = 0 /\ slip = FALSE

-----------------------------------------------------------------------------
\* The panel answers only while a pass is up.
Free(w) == writer[w].pc = "idle" /\ (w = Panel => up = "up")

\* The first commit of add_rule, undo_rule and undo_rules_since.
ChangeTable(w, new) ==
    /\ Free(w)
    /\ made < MaxChanges
    /\ table' = new
    /\ made' = made + 1
    /\ writer' = [writer EXCEPT ![w].pc = "changed"]
    /\ UNCHANGED <<version, row, engine, now, early, slip>>

\* A rule is made only from the panel; the terminal can only undo.
AddRule(wide) == ChangeTable(Panel, table \cup {[id |-> made + 1, wide |-> wide]})
UndoRule(w, r) == ChangeTable(w, table \ {r})

\* bump_rules_version: the version is read,
ReadVersion(w) ==
    /\ writer[w].pc = "changed"
    /\ writer' = [writer EXCEPT ![w] = [pc |-> "read", seen |-> version]]
    /\ UNCHANGED <<ledger, engine, now, early, slip>>

\* Mutants of Bumped: the change does not move the version; it moves backwards.
BumpedNot(v) == v
BumpedBack(v) == v - 1

Bumped(v) == v + 1

\* and written.
WriteVersion(w) ==
    /\ writer[w].pc = "read"
    /\ version' = Bumped(writer[w].seen)
    /\ writer' = [writer EXCEPT ![w].pc = "idle"]
    /\ UNCHANGED <<table, row, made, engine, now, early, slip>>

\* One of the two failed after the change was committed: the request answers an
\* error (or the terminal ends), the rule stays.
BumpLost(w) ==
    /\ BumpFails
    /\ writer[w].pc \in {"changed", "read"}
    /\ writer' = [writer EXCEPT ![w].pc = "idle"]
    /\ slip' = TRUE
    /\ UNCHANGED <<ledger, engine, now, early>>

\* «Borrar todo»: rules, device and version in one transaction.
Wipe ==
    /\ Free(Panel)
    /\ made < MaxChanges
    /\ table' = {} /\ row' = None
    /\ version' = Bumped(version)
    /\ made' = made + 1 /\ early' = 0
    /\ UNCHANGED <<writer, engine, now, slip>>

-----------------------------------------------------------------------------
\* What reading the version gives: 0 when it cannot be read.
VersionRead == {version, 0}

\* run_once: the rules are read, or there are none when they cannot be,
StartRules ==
    /\ up = "down"
    /\ cache' \in IF StartFails THEN {table, {}} ELSE {table}
    /\ slip' = (cache' # table)
    /\ up' = "starting"
    /\ UNCHANGED <<ledger, writer, cacheVersion, due, memory, lock, query, now, early>>

\* and then the version.
StartVersion ==
    /\ up = "starting"
    /\ cacheVersion' \in VersionRead
    /\ memory' = None /\ due' = FALSE
    /\ up' = "up"
    /\ UNCHANGED <<ledger, writer, cache, lock, query, now, early, slip>>

\* The pass ends, or the process dies, the panel's request with it.
Stop ==
    /\ up # "down"
    /\ up' = "down"
    /\ lock' = None
    /\ query' = [q \in Queries |-> FreeQuery]
    /\ writer' = [writer EXCEPT ![Panel].pc = "idle"]
    /\ UNCHANGED <<ledger, cache, cacheVersion, due, memory, now, early, slip>>

-----------------------------------------------------------------------------
\* `decide`, up to the refresh: when the device was first seen is remembered,
\* or read from its row, which is made if missing.  Once a minute the row is
\* written although it is remembered.
Ask(q) ==
    /\ up = "up" /\ lock = None /\ query[q].pc = "free"
    /\ LET kept == IF row = None THEN now ELSE row
           first == IF memory # None THEN memory ELSE kept
       IN  /\ memory' = first
           /\ row' \in IF memory # None THEN {row, kept} ELSE {kept}
           /\ query' = [query EXCEPT ![q] = [pc |-> "asked", ts |-> now,
                                             first |-> first, seen |-> 0]]
    /\ lock' = q
    /\ UNCHANGED <<table, version, made, writer, up, cache, cacheVersion, due, now, early, slip>>

\* after_answer: an answer that came through an alias is decided once more,
\* with the first time seen that `decide` noted in Pending.
AnswerDressed(q) ==
    /\ lock = None /\ query[q].pc = "upstream"
    /\ query' = [query EXCEPT ![q].pc = "answered"]
    /\ lock' = q
    /\ UNCHANGED <<ledger, writer, up, cache, cacheVersion, due, memory, now, early, slip>>

\* Any other answer goes to the device as it came.
AnswerPlain(q) ==
    /\ query[q].pc = "upstream"
    /\ query' = [query EXCEPT ![q] = FreeQuery]
    /\ UNCHANGED <<ledger, writer, up, cache, cacheVersion, due, memory, lock, now, early, slip>>

\* refresh_rules: nothing to do before two seconds, or when the version is the
\* one loaded; otherwise the rules are read again.
NextPc(pc, load) ==
    CASE pc = "asked" -> IF load THEN "asked load" ELSE "asked rules"
      [] pc = "answered" -> IF load THEN "answered load" ELSE "answered rules"

CheckVersion(q, seen) ==
    /\ lock = q /\ query[q].pc \in {"asked", "answered"}
    /\ due' = FALSE
    /\ query' = [query EXCEPT ![q].pc = NextPc(@, due /\ seen # cacheVersion),
                              ![q].seen = seen]
    /\ UNCHANGED <<ledger, writer, up, cache, cacheVersion, memory, lock, now, early, slip>>

\* Mutant of LoadedVersion: noted although the rules could not be read.
LoadedVersionAnyway(ok, seen) == seen

LoadedVersion(ok, seen) == IF ok THEN seen ELSE cacheVersion

\* Mutant of MemoryAfterLoad: the devices stay remembered (before 8 Oct 2026).
MemoryAfterLoadKept == memory

\* A wipe moves the version too: what was remembered is read again.
MemoryAfterLoad == None

LoadRules(q, ok) ==
    /\ lock = q /\ query[q].pc \in {"asked load", "answered load"}
    /\ cache' = IF ok THEN table ELSE cache
    /\ cacheVersion' = LoadedVersion(ok, query[q].seen)
    /\ memory' = MemoryAfterLoad
    /\ query' = [query EXCEPT ![q].pc = IF @ = "asked load" THEN "asked rules"
                                                            ELSE "answered rules"]
    /\ slip' = (slip /\ ~ok)
    /\ UNCHANGED <<ledger, writer, up, due, lock, now, early>>

Observed(q) == query[q].ts >= query[q].first + 1

CutByName(q) == query[q].pc = "asked rules" /\ \E r \in cache : ~r.wide
CutWidely(q) == Observed(q) /\ (\E r \in cache : r.wide) /\ ~CutByName(q)

\* A rule in force cuts widely what the file has not watched for a day.
Early(q) ==
    /\ CutWidely(q)
    /\ \E r \in cache \cap table : r.wide
    /\ row = None \/ query[q].ts < row + 1

\* rules::decide, or decide_cloaked when the answer came: the query is over when
\* it is cut or was answered, and goes upstream otherwise.
DecideQuery(q) ==
    /\ lock = q /\ query[q].pc \in {"asked rules", "answered rules"}
    /\ query' = [query EXCEPT ![q] =
                    IF CutByName(q) \/ CutWidely(q) \/ @.pc = "answered rules"
                    THEN FreeQuery ELSE [@ EXCEPT !.pc = "upstream"]]
    /\ early' = IF Early(q) THEN early + 1 ELSE early
    /\ lock' = None
    /\ UNCHANGED <<ledger, writer, up, cache, cacheVersion, due, memory, now, slip>>

TwoSeconds ==
    /\ ~due /\ due' = TRUE
    /\ UNCHANGED <<ledger, writer, up, cache, cacheVersion, memory, lock, query, now, early, slip>>

DayPasses ==
    /\ now < MaxDays /\ now' = now + 1
    /\ UNCHANGED <<ledger, writer, engine, early, slip>>

WriterStep(w) == ReadVersion(w) \/ WriteVersion(w) \/ BumpLost(w)

QueryStep(q) ==
    \/ Ask(q) \/ AnswerDressed(q) \/ AnswerPlain(q)
    \/ \E seen \in VersionRead : CheckVersion(q, seen)
    \/ \E ok \in BOOLEAN : LoadRules(q, ok)
    \/ DecideQuery(q)

Next ==
    \/ \E wide \in BOOLEAN : AddRule(wide)
    \/ \E w \in Writers, r \in table : UndoRule(w, r)
    \/ \E w \in Writers : WriterStep(w)
    \/ Wipe
    \/ StartRules \/ StartVersion \/ Stop
    \/ \E q \in Queries : QueryStep(q)
    \/ TwoSeconds
    \/ DayPasses

\* A writer goes on with what it began, a pass that starts is up, the devices
\* keep asking and are answered, and table and version can be read now and then.
Fairness ==
    /\ \A w \in Writers : WF_vars(WriterStep(w))
    /\ WF_vars(StartRules \/ StartVersion)
    /\ WF_vars(\E q \in Queries : QueryStep(q))
    /\ SF_vars(\E q \in Queries : due /\ CheckVersion(q, version))
    /\ SF_vars(\E q \in Queries : LoadRules(q, TRUE))
    /\ WF_vars(TwoSeconds)

Spec == Init /\ [][Next]_vars /\ Fairness

-----------------------------------------------------------------------------
\* Every variable of the ledger, the writers and the engine has its type.
TypeOK ==
    /\ table \subseteq Rule /\ version \in Nat /\ made \in Nat
    /\ row \in Days \cup {None} /\ memory \in Days \cup {None}
    /\ writer \in [Writers -> WriterState]
    /\ up \in {"down", "starting", "up"}
    /\ cache \subseteq Rule /\ cacheVersion \in Nat /\ due \in BOOLEAN
    /\ lock \in Queries \cup {None}
    /\ query \in [Queries -> QueryState]
    /\ now \in Days /\ early \in Nat
    /\ slip \in BOOLEAN

\* A version the engine has loaded stands for the rules it has: with nobody in
\* the middle of a change, an engine that sees nothing new applies the table,
\* unless a bump was lost or the start read nothing.
SameVersionSameRules ==
    /\ up = "up" /\ lock = None /\ \A w \in Writers : writer[w].pc = "idle"
    /\ cacheVersion = version /\ ~slip
    => cache = table

\* The version is a counter: two writers never take it back to a number the
\* engine may have loaded already.
VersionGrows == [][version' >= version]_version

\* Every change of the rules whose bump was not lost reaches the resolver,
\* whatever it was doing.
ChangesArrive == <>[](up = "up" /\ ~slip => cache = table)

\* After «Borrar todo» the day is counted again: a wide rule in force cuts at
\* most the queries that were already being decided or answered, and then waits.
EarlyCutsBounded == early <= Cardinality(Queries)

=============================================================================
