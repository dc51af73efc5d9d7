---------------------------- MODULE HouseholdRules ----------------------------
(***************************************************************************)
(* The table of rules and everyone who writes it: the household's panel,   *)
(* a device's own page, «Protección máxima», a cut of «Contrato vivo», the *)
(* terminal (`guardiana reglas`) and «Borrar todo» (crates/panel/src/      *)
(* api.rs, crates/core/src/contratos.rs, crates/cli/src/reglas_cmd.rs).    *)
(*                                                                         *)
(* Time is the age of a device in the extract: never seen, seen, watched   *)
(* for a day.  A handler holds the panel's ledger lock for one with_ledger *)
(* at a time, never for the whole request: what it read before may be old  *)
(* when it writes.  A step is one such hold; a call between two of them    *)
(* waits in `calls`.                                                       *)
(***************************************************************************)
EXTENDS Rules

CONSTANTS
    Self,              \* SELF_DEVICE_ID: the computer the program runs on
    Phones,            \* the other devices of the home
    Names,             \* the names rules and queries are about
    CutCategories,     \* the categories a rule may be about, Expected aside
    MaximaCategories,  \* CATEGORIAS_MAXIMA
    Contracts,         \* the sites «Contrato vivo» may cut on this computer
    NoDevice,          \* a rule for the whole home
    Calls,             \* the calls the panel may be answering at once
    Idle,              \* no request
    MaxRules           \* bound: rows of the table and rows about to be added

ASSUME HouseholdAssumption ==
    /\ Self \notin Phones
    /\ NoDevice \notin Phones \cup {Self}
    /\ Expected \notin CutCategories
    /\ MaximaCategories \subseteq CutCategories
    /\ IsFiniteSet(MaximaCategories)
    /\ Names \subseteq Seq(Labels)
    /\ Names \cap (CutCategories \cup {Expected}) = {}
    /\ Contracts \subseteq Names
    /\ IsFiniteSet(Calls)
    /\ MaxRules \in Nat

VARIABLES
    rules,   \* the table `rules`, oldest first
    age,     \* how long each device has been in the extract
    plus,    \* the licence level is Plus
    calls    \* what each call is in the middle of

vars == <<rules, age, plus, calls>>

Devices == {Self} \cup Phones
Ages == {"unknown", "new", "day"}
Kinds == {"domain", "suffix", "category"}
Actions == {"cortar", "permitir"}
Makers == {"panel", "dispositivo", "maxima", "contrato"}

\* What a request asks for, pattern and all, already as `normalizar_nombre`
\* leaves it.  Only the cut of a name carries the person's "yes".
Forms ==
    {f \in [kind : Kinds, pattern : Names \cup CutCategories \cup {Expected},
            action : Actions, confirmed : BOOLEAN] :
        /\ f.kind = "category" <=> f.pattern \notin Names
        /\ f.confirmed => f.kind # "category" /\ f.action = "cortar"}

\* Mutant of NewRule: a rule for the whole home keeps the device of the form.
NewRuleKeepsDevice(scope, d, f, by) ==
    [scope |-> scope, device |-> d, kind |-> f.kind, pattern |-> f.pattern,
     action |-> f.action, confirmed |-> f.confirmed, by |-> by, undone |-> FALSE]

NewRule(scope, d, f, by) ==
    [scope |-> scope, device |-> IF scope = "home" THEN NoDevice ELSE d,
     kind |-> f.kind, pattern |-> f.pattern, action |-> f.action,
     confirmed |-> f.confirmed, by |-> by, undone |-> FALSE]

Init ==
    /\ rules = <<>>
    /\ age = [d \in Devices |-> "unknown"]
    /\ plus \in BOOLEAN
    /\ calls = [c \in Calls |-> Idle]

-----------------------------------------------------------------------------
\* What the panel and a device's page may ask for.
PanelRows ==
    {NewRule(scope, d, f, "panel") : scope \in {"home", "device"}, d \in Devices, f \in Forms}
PageRows == {NewRule("device", d, f, "dispositivo") : d \in Devices, f \in Forms}

\* A call about a rule has passed the check of the level or all of them; `late`
\* is history: the household wrote since the page looked.  The other calls have
\* passed solo_plus on their way to «Protección máxima».
RuleCall(stage, r) == [stage |-> stage, row |-> r, late |-> FALSE]
MaximaCall(on) == [stage |-> IF on THEN "on" ELSE "off"]

AboutARule(q) == q # Idle /\ q.stage \in {"level", "checked"}
IsPageAllow(q) == AboutARule(q) /\ q.row.by = "dispositivo" /\ q.row.action = "permitir"

Room(n) == Len(rules) + Cardinality({c \in Calls : calls[c] # Idle}) + n <= MaxRules

\* The calls that may take up a request.
FreeCalls == {c \in Calls : calls[c] = Idle /\ Room(1)}

Enters(c, q) ==
    /\ c \in FreeCalls
    /\ calls' = [calls EXCEPT ![c] = q]
    /\ UNCHANGED <<rules, age, plus>>

Answered(c) == [calls EXCEPT ![c] = Idle]

\* The household writes: every page's allow that waits has looked before.
Overtaken(cs) ==
    [c \in Calls |-> IF IsPageAllow(cs[c]) THEN [cs[c] EXCEPT !.late = TRUE] ELSE cs[c]]

-----------------------------------------------------------------------------
\* observado_casa: this computer's age or, while it is not in the extract, the
\* oldest device's.
HomeWatchedADay ==
    IF age[Self] # "unknown" THEN age[Self] = "day" ELSE \E d \in Phones : age[d] = "day"

\* Mutant of NeedsYes: only the pattern itself is looked up (before 5 Oct 2026).
NeedsYesExact(r) ==
    \/ CategoryOf(r.pattern) = Expected
    \/ r.scope = "device" /\ age[r.device] # "day"

\* The cut of a name that is not made before the person says "yes": something
\* the computer needs, or a device with less than a day.
NeedsYes(r) ==
    \/ CategoryOf(r.pattern) = Expected
    \/ r.kind = "suffix" /\ ExpectedAtOrUnder(r.pattern)
    \/ r.scope = "device" /\ age[r.device] # "day"

\* create_rule lets this cut go on to the table.
CutAllowed(r) ==
    /\ r.kind = "category" => r.pattern # Expected
    /\ r.scope = "device" => age[r.device] # "unknown"
    /\ r.scope = "home" => HomeWatchedADay
    /\ r.scope = "device" /\ r.kind = "category" => age[r.device] = "day"
    /\ r.kind # "category" /\ NeedsYes(r) => r.confirmed

\* Every rule but the ones a device's page made for a device (ajenas).
OfTheHouse ==
    Without(rules, {i \in DOMAIN rules : rules[i].scope # "home" /\ rules[i].by = "dispositivo"})

\* la_casa_bloquea: the household's rules cut the name for this device.
HouseBlocks(device, name) ==
    Cuts(OfTheHouse, Query(device, name, CategoryOf(name), TRUE))

\* A new row of the table, by the household when it is no page's.
Add(r, cs) ==
    /\ rules' = Append(rules, r)
    /\ calls' = IF r.by = "dispositivo" THEN cs ELSE Overtaken(cs)
    /\ UNCHANGED <<age, plus>>

\* The name looked up for an allow is the pattern, whatever its kind; the word
\* for a category is no name of the lists.
LookedUp(r) == IF r.kind = "category" THEN <<>> ELSE r.pattern

\* POST /api/reglas from the panel, POST /api/mi-dispositivo/reglas from a
\* device's page: the cut of a category, which the level decides first ...
AsksCategoryCut(c, r) ==
    /\ r.kind = "category" /\ r.action = "cortar"
    /\ plus
    /\ Enters(c, RuleCall("level", r))

\* ... and then how long the device, or the home, has been watched.
ChecksCategoryCut(c) ==
    /\ AboutARule(calls[c]) /\ calls[c].stage = "level"
    /\ calls' = IF CutAllowed(calls[c].row) THEN [calls EXCEPT ![c].stage = "checked"]
                                            ELSE Answered(c)
    /\ UNCHANGED <<rules, age, plus>>

\* The cut of a name: only that.
AsksNameCut(c, r) ==
    /\ r.kind # "category" /\ r.action = "cortar"
    /\ CutAllowed(r)
    /\ Enters(c, RuleCall("checked", r))

\* A page's allow: the household's rules of this moment.
PageAsksAllow(c, r) ==
    /\ r.action = "permitir"
    /\ ~HouseBlocks(r.device, LookedUp(r))
    /\ Enters(c, RuleCall("checked", r))

\* The call adds its rule, whatever came in between.
Inserts(c) ==
    /\ AboutARule(calls[c]) /\ calls[c].stage = "checked"
    /\ Add(calls[c].row, Answered(c))

\* The panel's allow reads nothing before it writes.
PanelAllows(r) ==
    /\ Room(1)
    /\ r.action = "permitir"
    /\ Add(r, calls)

\* The categories «Protección máxima» has no active rule for.
MissingCategories ==
    MaximaCategories \ {rules[i].pattern : i \in {j \in DOMAIN rules :
                            ~rules[j].undone /\ rules[j].by = "maxima"}}

CategoryCut(c) ==
    [kind |-> "category", pattern |-> c, action |-> "cortar", confirmed |-> FALSE]

\* POST /api/proteccion-maxima, past the middleware that asks for the level.
AsksMaxima(c, on) == plus /\ Enters(c, MaximaCall(on))

\* On: the rules that are missing.
MaximaOn(c) ==
    LET missing == SetToSeq(MissingCategories)
    IN  /\ calls[c] = MaximaCall(TRUE)
        /\ Room(Len(missing) - 1)
        /\ rules' = rules \o [k \in DOMAIN missing |->
                                 NewRule("home", Self, CategoryCut(missing[k]), "maxima")]
        /\ calls' = Overtaken(Answered(c))
        /\ UNCHANGED <<age, plus>>

\* The rows in ids are undone; a row is never deleted, and what was undone
\* stays as it was.
Undo(ids) ==
    /\ rules' = Without(rules, ids)
    /\ UNCHANGED <<age, plus>>

\* Off: only the rules it made.
MaximaOff(c) ==
    /\ calls[c] = MaximaCall(FALSE)
    /\ Undo({i \in DOMAIN rules : rules[i].by = "maxima"})
    /\ calls' = Overtaken(Answered(c))

\* corta_aviso: the site of a company that is new in a program's contract, on
\* this computer, unless a rule of this computer already cuts it by that name.
ContractCuts(site) ==
    LET form == [kind |-> "suffix", pattern |-> site, action |-> "cortar",
                 confirmed |-> FALSE]
    IN  /\ ~\E i \in DOMAIN rules : /\ ~rules[i].undone /\ rules[i].action = "cortar"
                                    /\ rules[i].scope = "device" /\ rules[i].device = Self
                                    /\ rules[i].kind # "category" /\ rules[i].pattern = site
        /\ Room(1)
        /\ Add(NewRule("device", Self, form, "contrato"), calls)

\* deshacer_regla, and `guardiana reglas deshacer`.
UndoRule(i) == Undo({i}) /\ calls' = Overtaken(calls)

\* deshacer_hoy: what was made since some moment of the last day, which is a
\* tail of the table.
UndoSince(i) == Undo(i..Len(rules)) /\ calls' = Overtaken(calls)

\* Mutant of PhoneMayUndo: the rule carries the device's id.
PhoneMayUndoItsId(d, r) == r.scope = "device" /\ r.device = d

\* A device's page undoes only what it made for itself.
PhoneMayUndo(d, r) == r.scope = "device" /\ r.device = d /\ r.by = "dispositivo"

PhoneUndoes(d, i) == PhoneMayUndo(d, rules[i]) /\ Undo({i}) /\ UNCHANGED calls

\* The device asks for a name for the first time.
Seen(d) ==
    /\ age[d] = "unknown"
    /\ age' = [age EXCEPT ![d] = "new"]
    /\ UNCHANGED <<rules, plus, calls>>

DayPasses(d) ==
    /\ age[d] = "new"
    /\ age' = [age EXCEPT ![d] = "day"]
    /\ UNCHANGED <<rules, plus, calls>>

LevelChanges == plus' = ~plus /\ UNCHANGED <<rules, age, calls>>

\* borrar.  What is being answered goes on.
Wipe ==
    /\ rules' = <<>>
    /\ age' = [d \in Devices |-> "unknown"]
    /\ UNCHANGED <<plus, calls>>

Next ==
    \/ \E c \in FreeCalls, r \in PanelRows \cup PageRows : AsksCategoryCut(c, r)
    \/ \E c \in Calls : ChecksCategoryCut(c)
    \/ \E c \in FreeCalls, r \in PanelRows \cup PageRows : AsksNameCut(c, r)
    \/ \E c \in FreeCalls, r \in PageRows : PageAsksAllow(c, r)
    \/ \E c \in Calls : Inserts(c)
    \/ \E r \in PanelRows : PanelAllows(r)
    \/ \E c \in FreeCalls, on \in BOOLEAN : AsksMaxima(c, on)
    \/ \E c \in Calls : MaximaOn(c)
    \/ \E c \in Calls : MaximaOff(c)
    \/ \E s \in Contracts : ContractCuts(s)
    \/ \E i \in DOMAIN rules : UndoRule(i)
    \/ \E i \in DOMAIN rules : UndoSince(i)
    \/ \E d \in Devices, i \in DOMAIN rules : PhoneUndoes(d, i)
    \/ \E d \in Devices : Seen(d)
    \/ \E d \in Devices : DayPasses(d)
    \/ LevelChanges
    \/ Wipe

Spec == Init /\ [][Next]_vars

-----------------------------------------------------------------------------
\* The rules as the table holds them: a device exactly when it is for one, a
\* category exactly when it goes by category, a page's never for the home.
Rule ==
    {r \in [scope : {"home", "device"}, device : Devices \cup {NoDevice},
            kind : Kinds, pattern : Names \cup CutCategories \cup {Expected},
            action : Actions, confirmed : BOOLEAN, by : Makers, undone : BOOLEAN] :
        /\ r.scope = "home" <=> r.device = NoDevice
        /\ r.kind = "category" <=> r.pattern \notin Names
        /\ r.by = "dispositivo" => r.scope = "device"}

RuleCalls == [stage : {"level", "checked"}, row : Rule, late : BOOLEAN]

Requests == RuleCalls \cup [stage : {"on", "off"}]

ASSUME IdleAssumption == Idle \notin Requests

\* Every row is a rule, every device has an age, every call a request in hand
\* or none.
TypeOK ==
    /\ rules \in Seq(Rule)
    /\ age \in [Devices -> Ages]
    /\ plus \in BOOLEAN
    /\ calls \in [Calls -> Requests \cup {Idle}]

Queries == {Query(d, n, CategoryOf(n), o) : d \in Devices, n \in Names, o \in BOOLEAN}

\* The pass over the table that `rules::decide` makes returns the rule its
\* documentation describes, and it is a cut exactly when the table Cuts.
LoopAgrees ==
    \A q \in Queries :
        LET i == DecideLoop(rules, q)
        IN  /\ i = Decide(rules, q)
            /\ Cuts(rules, q) <=> i # 0 /\ rules[i].action = "cortar"

\* A cut by name that the panel or a page lists as active really cuts every
\* name it reaches: none is held back by the protection of what a device needs
\* (create_rule asks for the "yes" first; G4 and the pass of 5 Oct 2026).
ListedCutsCut ==
    \A i \in DOMAIN rules : \A n \in Names :
        /\ ~rules[i].undone /\ rules[i].action = "cortar" /\ rules[i].kind # "category"
        /\ rules[i].by \in {"panel", "dispositivo"}
        => LET q == Query(rules[i].device, n, CategoryOf(n), TRUE)
           IN  NameMatches(rules[i], q) => ~Protects(rules[i], q)

\* «Dejarlo pasar» undoes what cutting_rules names: after that no rule cuts the
\* name by its name, however many did.
LetThroughFrees ==
    \A n \in Names :
        LET q == Query(Self, n, CategoryOf(n), TRUE)
            left == Without(rules, CuttingRules(rules, q))
            w == Decide(left, q)
        IN  w # 0 /\ rules[w].action = "cortar" => rules[w].kind = "category"

\* A name let through by name on a device, with no cut of that name by name,
\* stays let through: neither a category nor the tracker that answers behind it
\* («Protección máxima» included) cuts it.
AllowStands ==
    \A d \in Devices, n \in Names, alias \in CutCategories \cup {Unknown} :
        LET q == Query(d, n, CategoryOf(n), TRUE)
            dressed == Query(d, n, alias, TRUE)
        IN  /\ CuttingRules(rules, q) = {}
            /\ \E i \in DOMAIN rules : /\ rules[i].action = "permitir"
                                       /\ rules[i].kind # "category"
                                       /\ Applies(rules[i], q)
            => ~Cuts(rules, q) /\ DecideCloaked(rules, dressed, CategoryOf(n)) = 0

\* The table cuts the name on device d once its day has passed.
Blocked(table, d, n) == Cuts(table, Query(d, n, CategoryOf(n), TRUE))

\* The rules no page made cut the name on device d.
HouseholdCuts(d, n) ==
    Blocked(Without(rules, {i \in DOMAIN rules : rules[i].by = "dispositivo"}), d, n)

\* The household itself cuts this very name, by an active rule for it alone.
CutByItsName(d, n) ==
    \E i \in DOMAIN rules :
        /\ rules[i].by # "dispositivo"
        /\ rules[i].action = "cortar" /\ rules[i].kind = "domain"
        /\ Applies(rules[i], Query(d, n, CategoryOf(n), TRUE))

\* An active allow of a page, by suffix or category, reaches the name.
WidelyAllowed(d, n) ==
    \E i \in DOMAIN rules :
        /\ rules[i].by = "dispositivo"
        /\ rules[i].action = "permitir" /\ rules[i].kind # "domain"
        /\ Applies(rules[i], Query(d, n, CategoryOf(n), TRUE))

PageInserts(c) == AboutARule(calls[c]) /\ calls[c].row.by = "dispositivo" /\ Inserts(c)

\* The page's step takes device d out of the household's cut of n.
Lifts(d, n) == HouseholdCuts(d, n) /\ Blocked(rules, d, n) /\ ~Blocked(rules', d, n)

\* A device's own page lifts a cut of the household in two ways only.  Its allow
\* was checked before the household wrote something (create_rule lets go of the
\* ledger between the check and the insert); or an allow of its own, by suffix
\* or category, reaches a name that was never looked up, and which the household
\* does not cut by that name.  Undoing a cut of its own lifts only what such an
\* allow, already in the table, let pass underneath.
PageLiftsNothing ==
    [][/\ \A c \in Calls : PageInserts(c) /\ ~calls[c].late =>
             LET r == calls[c].row
             IN  \A n \in Names : Lifts(r.device, n) =>
                    r.kind # "domain" /\ r.pattern # n /\ ~CutByItsName(r.device, n)
       /\ \A d \in Devices, i \in DOMAIN rules : PhoneUndoes(d, i) =>
             \A n \in Names : Lifts(d, n) => WidelyAllowed(d, n) /\ ~CutByItsName(d, n)]_vars

=============================================================================
