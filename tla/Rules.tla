-------------------------------- MODULE Rules --------------------------------
(***************************************************************************)
(* How a rule decides a query (crates/core/src/rules.rs), and how the      *)
(* lists name what a query asks for (crates/lists/src/lib.rs).  Pure       *)
(* operators: the engine, the panel and the phone's page all ask these.    *)
(*                                                                         *)
(* A name is the sequence of its labels from the root down, so that "under *)
(* it" is being a prefix.  A table of rules is the sequence of its rows in *)
(* the order they were made: the position is the id.  No rule is ever      *)
(* given an expiry by the program, so a rule is active until it is undone. *)
(***************************************************************************)
EXTENDS Naturals, Sequences, SequencesExt

CONSTANTS
    Labels,      \* what names are made of
    Entries,     \* the lists: a function from names to categories
    Unknown,     \* Category::Desconocido
    Expected     \* Category::Esperado: updates, time, messaging

ASSUME RulesAssumption ==
    /\ DOMAIN Entries \subseteq Seq(Labels)
    /\ Expected # Unknown

\* The query `rules::decide` is asked about; `observed` says whether the
\* device has been watched for the day.
Query(device, name, category, observed) ==
    [device |-> device, name |-> name, category |-> category, observed |-> observed]

Under(pattern, name) == IsPrefix(pattern, name)

\* The most specific entry at or above the name.
Closest(e, name) ==
    Under(e, name) /\ \A f \in DOMAIN Entries : Under(f, name) => Len(f) <= Len(e)

CategoryOf(name) ==
    IF \E e \in DOMAIN Entries : Closest(e, name)
    THEN Entries[CHOOSE e \in DOMAIN Entries : Closest(e, name)]
    ELSE Unknown

ExpectedAtOrUnder(pattern) ==
    \E e \in DOMAIN Entries : Entries[e] = Expected /\ Under(pattern, e)

-----------------------------------------------------------------------------
\* What reaches further than one name the person pointed at.
IsWide(r) == r.scope = "home" \/ r.kind = "category"

InScope(r, q) == r.scope = "home" \/ r.device = q.device

NameMatches(r, q) ==
    \/ r.kind = "domain" /\ q.name = r.pattern
    \/ r.kind = "suffix" /\ Under(r.pattern, q.name)
    \/ r.kind = "category" /\ q.category = r.pattern

\* What a device needs is cut by no category, and by a name only with the
\* person's "yes".
Protects(r, q) ==
    /\ q.category = Expected
    /\ r.action = "cortar"
    /\ r.kind = "category" \/ ~r.confirmed

\* The rule takes part in deciding the query.
Applies(r, q) ==
    /\ ~r.undone
    /\ q.observed \/ ~IsWide(r)
    /\ InScope(r, q)
    /\ NameMatches(r, q)
    /\ ~Protects(r, q)

Specificity(kind) ==
    CASE kind = "domain" -> 3 [] kind = "suffix" -> 2 [] kind = "category" -> 1

\* The tuple (specificity, device, permitir) in its lexicographic order.
Rank(r) ==
    4 * Specificity(r.kind) + (IF r.scope = "device" THEN 2 ELSE 0)
                            + (IF r.action = "permitir" THEN 1 ELSE 0)

\* Row i is the one `decide` returns: the highest rank and, among equals, the
\* newest.
Wins(rules, q, i) ==
    /\ Applies(rules[i], q)
    /\ \A j \in DOMAIN rules :
          Applies(rules[j], q) =>
             \/ Rank(rules[j]) < Rank(rules[i])
             \/ Rank(rules[j]) = Rank(rules[i]) /\ j <= i

\* The id of the deciding rule; 0 when no rule applies.
Decide(rules, q) ==
    IF \E i \in DOMAIN rules : Wins(rules, q, i)
    THEN CHOOSE i \in DOMAIN rules : Wins(rules, q, i)
    ELSE 0

\* Mutant of Keep: a rule of the same rank takes the place of a newer one.
KeepOnTies(rules, q, best, i) ==
    IF Applies(rules[i], q) /\ (best = 0 \/ Rank(rules[i]) >= Rank(rules[best]))
    THEN i ELSE best

\* One turn of the loop in `decide`: row i against the best so far (0: none).
Keep(rules, q, best, i) ==
    IF Applies(rules[i], q) /\ (best = 0 \/ Rank(rules[i]) > Rank(rules[best]))
    THEN i ELSE best

\* `decide` as it is written: one pass over the table, newest first, keeping
\* the first rule that nothing later outranks.
DecideLoop(rules, q) ==
    LET best[k \in 0 .. Len(rules)] ==
            IF k = 0 THEN 0 ELSE Keep(rules, q, best[k - 1], Len(rules) + 1 - k)
    IN  best[Len(rules)]

\* The table cuts the query: a cut applies that no allow outranks.
Cuts(rules, q) ==
    \E i \in DOMAIN rules :
        /\ rules[i].action = "cortar"
        /\ Applies(rules[i], q)
        /\ \A j \in DOMAIN rules :
              rules[j].action = "permitir" /\ Applies(rules[j], q)
                 => Rank(rules[j]) < Rank(rules[i])

\* Mutant of CuttingRules: only the rule that decides.
CuttingRulesDeciding(rules, q) ==
    {i \in {Decide(rules, q)} \ {0} : rules[i].action = "cortar" /\ rules[i].kind # "category"}

\* Every active cut of this name by its name: what letting it through undoes.
CuttingRules(rules, q) ==
    {i \in DOMAIN rules : /\ ~rules[i].undone
                          /\ rules[i].action = "cortar"
                          /\ rules[i].kind # "category"
                          /\ InScope(rules[i], q)
                          /\ NameMatches(rules[i], q)}

\* The category rule that cuts a name for the tracker that answered behind it:
\* q carries the category of the alias, own is the name's.
DecideCloaked(rules, q, own) ==
    LET i == Decide(rules, q)
    IN  IF own = Expected \/ q.category = Expected \/ i = 0 THEN 0
        ELSE IF rules[i].action = "cortar" /\ rules[i].kind = "category" THEN i ELSE 0

\* The table with the rows in ids undone, or left aside.
Without(rules, ids) ==
    [i \in DOMAIN rules |->
        IF i \in ids THEN [rules[i] EXCEPT !.undone = TRUE] ELSE rules[i]]

\* The rules the engine applies at a level: without Plus, none by category.
ForLevel(rules, plus) ==
    IF plus THEN rules
    ELSE Without(rules, {i \in DOMAIN rules : rules[i].kind = "category"})

=============================================================================
