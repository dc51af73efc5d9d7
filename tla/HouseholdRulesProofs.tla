------------------------ MODULE HouseholdRulesProofs ------------------------
(***************************************************************************)
(* What holds of the table of rules for every home, every list and every   *)
(* table, proved.  The table only grows or has rows undone, so each proof  *)
(* that a step keeps an invariant looks at the rule a step adds, and at    *)
(* what the call that adds it had checked.                                 *)
(***************************************************************************)
EXTENDS HouseholdRules, FiniteSetTheorems, WellFoundedInduction, TLAPS

-----------------------------------------------------------------------------
\* A request becomes a rule once it has a scope, a device and a maker.
LEMMA NewRuleType ==
    ASSUME NEW scope \in {"home", "device"}, NEW d \in Devices, NEW f,
           f.kind \in Kinds, f.action \in Actions, f.confirmed \in BOOLEAN,
           f.pattern \in Names \cup CutCategories \cup {Expected},
           f.kind = "category" <=> f.pattern \notin Names,
           NEW by \in Makers, by = "dispositivo" => scope = "device"
    PROVE  NewRule(scope, d, f, by) \in Rule
<1>1. d # NoDevice
  BY HouseholdAssumption DEF Devices
<1> QED
  BY <1>1 DEF NewRule, Rule

\* Undoing rows leaves a table of rules, row by row as it was but for the mark.
LEMMA UndoneRows ==
    ASSUME NEW table \in Seq(Rule), NEW ids
    PROVE  /\ Without(table, ids) \in Seq(Rule)
           /\ DOMAIN Without(table, ids) = DOMAIN table
           /\ \A i \in DOMAIN table :
                 LET r == Without(table, ids)[i]
                 IN  /\ i \notin ids => r = table[i]
                     /\ i \in ids => r.undone
                     /\ table[i].undone => r.undone
                     /\ r.scope = table[i].scope /\ r.device = table[i].device
                     /\ r.kind = table[i].kind /\ r.pattern = table[i].pattern
                     /\ r.action = table[i].action /\ r.confirmed = table[i].confirmed
                     /\ r.by = table[i].by
<1>1. /\ DOMAIN Without(table, ids) = DOMAIN table
      /\ \A i \in DOMAIN table :
            Without(table, ids)[i] =
                IF i \in ids THEN [table[i] EXCEPT !.undone = TRUE] ELSE table[i]
  BY DEF Without
<1>2. \A i \in DOMAIN table : table[i] \in Rule
  OBVIOUS
<1>3. \A i \in DOMAIN table : Without(table, ids)[i] \in Rule
  <2>1. \A r \in Rule : [r EXCEPT !.undone = TRUE] \in Rule
    BY DEF Rule
  <2> QED
    BY <1>1, <1>2, <2>1
<1>4. Without(table, ids) \in Seq(Rule)
  <2>1. /\ Len(table) \in Nat
        /\ DOMAIN table = 1..Len(table)
    OBVIOUS
  <2> QED
    BY <1>1, <1>3, <2>1 DEF Without
<1> QED
  BY <1>1, <1>2, <1>4 DEF Rule

-----------------------------------------------------------------------------
\* The categories «Protección máxima» lacks, as a sequence.
LEMMA MissingSequence ==
    LET missing == SetToSeq(MissingCategories)
    IN  missing \in Seq(MissingCategories)
<1>1. MissingCategories \subseteq MaximaCategories
  BY DEF MissingCategories
<1>2. IsFiniteSet(MissingCategories)
  BY <1>1, FS_Subset, HouseholdAssumption
<1>3. PICK n \in Nat : n = Cardinality(MissingCategories)
  BY <1>2, FS_CardinalityType
<1>4. \E f \in [1..n -> MissingCategories] : IsInjective(f)
  BY <1>2, <1>3, FS_CardinalityType DEF ExistsBijection, Bijection, Injection
<1>5. SetToSeq(MissingCategories) \in [1..n -> MissingCategories]
  BY <1>3, <1>4 DEF SetToSeq
<1> QED
  BY <1>3, <1>5

\* What may be asked for is a rule, of the panel or of a device's page.
LEMMA RowsAsked ==
    /\ \A r \in PanelRows : r \in Rule /\ r.by = "panel"
    /\ \A r \in PageRows : r \in Rule /\ r.by = "dispositivo"
<1>1. ASSUME NEW scope \in {"home", "device"}, NEW d \in Devices, NEW f \in Forms
      PROVE  NewRule(scope, d, f, "panel") \in Rule
  BY NewRuleType DEF Forms, Makers
<1>2. ASSUME NEW d \in Devices, NEW f \in Forms
      PROVE  NewRule("device", d, f, "dispositivo") \in Rule
  BY NewRuleType DEF Forms, Makers
<1>3. \A scope, d, f, by : NewRule(scope, d, f, by).by = by
  BY DEF NewRule
<1> QED
  BY <1>1, <1>2, <1>3 DEF PanelRows, PageRows

\* A call about a rule carries one.
LEMMA CallShape ==
    ASSUME NEW q \in Requests \cup {Idle}, AboutARule(q)
    PROVE  q \in RuleCalls
BY DEF AboutARule, Requests, RuleCalls

\* What a call's state may become in one step, and what its check had seen.
BecomesRequest(c) ==
    \E r \in Rule, stage \in {"level", "checked"} :
        /\ calls'[c] = RuleCall(stage, r)
        /\ rules' = rules
        /\ stage = "checked" /\ r.action = "cortar" => CutAllowed(r)
        /\ r.action = "permitir" => ~HouseBlocks(r.device, LookedUp(r))

PassesCheck(c) ==
    /\ AboutARule(calls[c])
    /\ calls'[c] = [calls[c] EXCEPT !.stage = "checked"]
    /\ CutAllowed(calls[c].row)
    /\ rules' = rules

IsOvertaken(c) ==
    IsPageAllow(calls[c]) /\ calls'[c] = [calls[c] EXCEPT !.late = TRUE]

CallStep(c) ==
    \/ calls'[c] = Idle
    \/ calls'[c] = calls[c]
    \/ \E on \in BOOLEAN : calls'[c] = MaximaCall(on)
    \/ BecomesRequest(c)
    \/ PassesCheck(c)
    \/ IsOvertaken(c)

\* Overtaking changes the waiting allows of pages, and nothing else.
LEMMA OvertakenCalls ==
    ASSUME NEW cs, NEW c \in Calls
    PROVE  Overtaken(cs)[c] = IF IsPageAllow(cs[c]) THEN [cs[c] EXCEPT !.late = TRUE] ELSE cs[c]
BY DEF Overtaken

LEMMA StepsOfACall ==
    ASSUME TypeOK, [Next]_vars, NEW c \in Calls
    PROVE  CallStep(c)
<1>1. /\ DOMAIN calls = Calls
      /\ \A x \in Calls : calls[x] \in Requests \cup {Idle}
  BY DEF TypeOK
<1>2. ~IsPageAllow(Idle)
  BY DEF IsPageAllow, AboutARule
<1>3. ASSUME NEW x \in Calls, calls' = Answered(x) \/ calls' = Overtaken(Answered(x))
      PROVE  CallStep(c)
  <2>1. Answered(x)[c] = IF c = x THEN Idle ELSE calls[c]
    BY <1>1 DEF Answered
  <2>2. \/ Overtaken(Answered(x))[c] \in {Idle, calls[c]}
        \/ /\ IsPageAllow(calls[c])
           /\ Overtaken(Answered(x))[c] = [calls[c] EXCEPT !.late = TRUE]
    BY <1>2, <2>1, OvertakenCalls
  <2> QED
    BY <1>3, <2>1, <2>2 DEF CallStep, IsOvertaken
<1>4. ASSUME calls' = calls \/ calls' = Overtaken(calls) PROVE CallStep(c)
  BY <1>4, OvertakenCalls DEF CallStep, IsOvertaken
<1>5. ASSUME NEW x \in Calls, NEW q, Enters(x, q)
      PROVE  calls'[c] = calls[c] \/ (c = x /\ calls'[c] = q /\ rules' = rules)
  BY <1>1, <1>5 DEF Enters
<1>6. ASSUME NEW x \in Calls, NEW r \in PanelRows \cup PageRows,
             AsksCategoryCut(x, r) \/ AsksNameCut(x, r)
      PROVE  CallStep(c)
  <2>1. r \in Rule /\ r.action = "cortar"
    BY <1>6, RowsAsked DEF AsksCategoryCut, AsksNameCut
  <2>2. CASE AsksCategoryCut(x, r)
    <3>1. calls'[c] = calls[c] \/ (calls'[c] = RuleCall("level", r) /\ rules' = rules)
      BY <1>5, <2>2 DEF AsksCategoryCut
    <3> QED
      BY <2>1, <3>1 DEF CallStep, BecomesRequest
  <2>3. CASE AsksNameCut(x, r)
    <3>1. /\ calls'[c] = calls[c] \/ (calls'[c] = RuleCall("checked", r) /\ rules' = rules)
          /\ CutAllowed(r)
      BY <1>5, <2>3 DEF AsksNameCut
    <3> QED
      BY <2>1, <3>1 DEF CallStep, BecomesRequest
  <2> QED
    BY <1>6, <2>2, <2>3
<1>7. ASSUME NEW x \in Calls, NEW r \in PageRows, PageAsksAllow(x, r) PROVE CallStep(c)
  <2>1. r \in Rule /\ r.action = "permitir" /\ ~HouseBlocks(r.device, LookedUp(r))
    BY <1>7, RowsAsked DEF PageAsksAllow
  <2>2. calls'[c] = calls[c] \/ (calls'[c] = RuleCall("checked", r) /\ rules' = rules)
    BY <1>5, <1>7 DEF PageAsksAllow
  <2> QED
    BY <2>1, <2>2 DEF CallStep, BecomesRequest
<1>8. ASSUME NEW x \in Calls, ChecksCategoryCut(x) PROVE CallStep(c)
  <2>1. CASE c = x /\ CutAllowed(calls[c].row)
    <3>1. /\ calls'[c] = [calls[c] EXCEPT !.stage = "checked"]
          /\ AboutARule(calls[c]) /\ rules' = rules
      BY <1>1, <1>8, <2>1 DEF ChecksCategoryCut
    <3> QED
      BY <2>1, <3>1 DEF CallStep, PassesCheck
  <2>2. CASE c = x /\ ~CutAllowed(calls[c].row)
    BY <1>3, <1>8, <2>2 DEF ChecksCategoryCut
  <2>3. CASE c # x
    BY <1>1, <1>8, <2>3 DEF ChecksCategoryCut, Answered, CallStep
  <2> QED
    BY <2>1, <2>2, <2>3
<1>9. ASSUME NEW x \in Calls, Inserts(x) \/ MaximaOn(x) \/ MaximaOff(x) PROVE CallStep(c)
  BY <1>3, <1>9 DEF Inserts, Add, MaximaOn, MaximaOff
<1>10. ASSUME NEW x \in Calls, NEW on \in BOOLEAN, AsksMaxima(x, on) PROVE CallStep(c)
  BY <1>5, <1>10 DEF AsksMaxima, CallStep
<1>11. ASSUME \/ \E r \in PanelRows : PanelAllows(r)
              \/ \E s \in Contracts : ContractCuts(s)
              \/ \E i \in DOMAIN rules : UndoRule(i)
              \/ \E i \in DOMAIN rules : UndoSince(i)
              \/ \E d \in Devices, i \in DOMAIN rules : PhoneUndoes(d, i)
              \/ \E d \in Devices : Seen(d)
              \/ \E d \in Devices : DayPasses(d)
              \/ LevelChanges
              \/ Wipe
              \/ UNCHANGED vars
       PROVE  CallStep(c)
  BY <1>4, <1>11 DEF PanelAllows, ContractCuts, Add, UndoRule, UndoSince, PhoneUndoes,
                     Seen, DayPasses, LevelChanges, Wipe, vars
<1>12. FreeCalls \subseteq Calls
  BY DEF FreeCalls
<1> QED
  BY <1>6, <1>7, <1>8, <1>9, <1>10, <1>11, <1>12 DEF Next

\* One step of the system either undoes rows of the table, or adds rules, an
\* allow or what a call has checked among them, or empties it, or leaves it
\* alone.
LEMMA StepsOfTheTable ==
    ASSUME TypeOK, [Next]_vars
    PROVE  \/ \E ids : rules' = Without(rules, ids)
           \/ \E r \in Rule : /\ rules' = Append(rules, r)
                              /\ \/ r.by = "contrato"
                                 \/ r.action = "permitir"
                                 \/ \E c \in Calls : /\ AboutARule(calls[c])
                                                     /\ calls[c].stage = "checked"
                                                     /\ r = calls[c].row
           \/ \E new \in Seq(Rule) : /\ rules' = rules \o new
                                     /\ \A k \in DOMAIN new : new[k].by = "maxima"
           \/ rules' = <<>>
           \/ rules' = rules
<1> DEFINE
  Undoes == \E ids : rules' = Without(rules, ids)
  Fits(r) == \/ r.by = "contrato"
             \/ r.action = "permitir"
             \/ \E c \in Calls : /\ AboutARule(calls[c]) /\ calls[c].stage = "checked"
                                 /\ r = calls[c].row
  Adds == \E r \in Rule : rules' = Append(rules, r) /\ Fits(r)
  Extends == \E new \in Seq(Rule) : /\ rules' = rules \o new
                                   /\ \A k \in DOMAIN new : new[k].by = "maxima"
<1>1. ASSUME NEW r \in PanelRows, PanelAllows(r) PROVE Adds
  BY <1>1, RowsAsked DEF PanelAllows, Add
<1>2. ASSUME NEW c \in Calls, Inserts(c) PROVE Adds
  <2>1. calls[c] \in RuleCalls
    BY <1>2, CallShape DEF TypeOK, Inserts
  <2>2. calls[c].row \in Rule
    BY <2>1 DEF RuleCalls
  <2> QED
    BY <1>2, <2>2 DEF Inserts, Add
<1>3. ASSUME NEW c \in Calls, MaximaOn(c) PROVE Extends
  <2> DEFINE missing == SetToSeq(MissingCategories)
             new == [k \in DOMAIN missing |->
                        NewRule("home", Self, CategoryCut(missing[k]), "maxima")]
  <2>1. missing \in Seq(MissingCategories)
    BY MissingSequence
  <2>2. MissingCategories \subseteq CutCategories
    BY HouseholdAssumption DEF MissingCategories
  <2>3. ASSUME NEW k \in DOMAIN missing
        PROVE  new[k] \in Rule /\ new[k].by = "maxima"
    <3>1. missing[k] \in CutCategories
      BY <2>1, <2>2
    <3>2. NewRule("home", Self, CategoryCut(missing[k]), "maxima") \in Rule
      <4> DEFINE f == CategoryCut(missing[k])
      <4>1. /\ f.kind \in Kinds /\ f.action \in Actions /\ f.confirmed \in BOOLEAN
            /\ f.pattern \in Names \cup CutCategories \cup {Expected}
            /\ f.kind = "category" <=> f.pattern \notin Names
        BY <3>1, HouseholdAssumption DEF CategoryCut, Kinds, Actions
      <4>2. Self \in Devices /\ "maxima" \in Makers
        BY DEF Devices, Makers
      <4>3. NewRule("home", Self, f, "maxima") \in Rule
        <5> HIDE DEF f
        <5> QED
          BY <4>1, <4>2, NewRuleType
      <4> QED
        BY <4>3
    <3> QED
      BY <3>2 DEF NewRule
  <2>4. new \in Seq(Rule)
    BY <2>1, <2>3
  <2> QED
    BY <1>3, <2>3, <2>4 DEF MaximaOn
<1>4. ASSUME NEW s \in Contracts, ContractCuts(s) PROVE Adds
  <2> DEFINE f == [kind |-> "suffix", pattern |-> s, action |-> "cortar",
                   confirmed |-> FALSE]
             r == NewRule("device", Self, f, "contrato")
  <2>1. /\ f.kind \in Kinds /\ f.action \in Actions /\ f.confirmed \in BOOLEAN
        /\ f.pattern \in Names \cup CutCategories \cup {Expected}
        /\ f.kind = "category" <=> f.pattern \notin Names
    BY HouseholdAssumption DEF Kinds, Actions
  <2>2. rules' = Append(rules, r)
    BY <1>4 DEF ContractCuts, Add
  <2>3. r.by = "contrato"
    BY DEF NewRule
  <2>4. Self \in Devices /\ "contrato" \in Makers
    BY DEF Devices, Makers
  <2>5. r \in Rule
    <3> HIDE DEF f
    <3> QED
      BY <2>1, <2>4, NewRuleType
  <2> QED
    BY <2>2, <2>3, <2>5
<1>5. ASSUME \/ \E c \in Calls : MaximaOff(c)
             \/ \E i \in DOMAIN rules : UndoRule(i)
             \/ \E i \in DOMAIN rules : UndoSince(i)
             \/ \E d \in Devices, i \in DOMAIN rules : PhoneUndoes(d, i)
      PROVE  Undoes
  BY <1>5 DEF MaximaOff, UndoRule, UndoSince, PhoneUndoes, Undo
<1>6. ASSUME \/ \E c \in FreeCalls, r \in PanelRows \cup PageRows :
                    AsksCategoryCut(c, r) \/ AsksNameCut(c, r)
             \/ \E c \in FreeCalls, r \in PageRows : PageAsksAllow(c, r)
             \/ \E c \in FreeCalls, on \in BOOLEAN : AsksMaxima(c, on)
             \/ \E c \in Calls : ChecksCategoryCut(c)
             \/ \E d \in Devices : Seen(d)
             \/ \E d \in Devices : DayPasses(d)
             \/ LevelChanges
             \/ UNCHANGED vars
      PROVE  rules' = rules
  BY <1>6 DEF AsksCategoryCut, AsksNameCut, PageAsksAllow, AsksMaxima, Enters,
              ChecksCategoryCut, Seen, DayPasses, LevelChanges, vars
<1>7. ASSUME Wipe PROVE rules' = <<>>
  BY <1>7 DEF Wipe
<1> QED
  <2>1. Undoes \/ Adds \/ Extends \/ rules' = <<>> \/ rules' = rules
    BY <1>1, <1>2, <1>3, <1>4, <1>5, <1>6, <1>7 DEF Next
  <2> QED
    BY <2>1

-----------------------------------------------------------------------------
\* Every table the system reaches is a table of rules, a device named exactly
\* in the rules for one, and every call is in the middle of a request or of
\* none.
THEOREM TypeCorrect == Spec => []TypeOK
<1>1. Init => TypeOK
  BY DEF Init, TypeOK, Ages
<1>2. TypeOK /\ [Next]_vars => TypeOK'
  <2> SUFFICES ASSUME TypeOK, [Next]_vars PROVE TypeOK'
    OBVIOUS
  <2>1. rules' \in Seq(Rule)
    <3>1. ASSUME NEW ids, rules' = Without(rules, ids) PROVE rules' \in Seq(Rule)
      BY <3>1, UndoneRows DEF TypeOK
    <3>2. ASSUME NEW r \in Rule, rules' = Append(rules, r) PROVE rules' \in Seq(Rule)
      BY <3>2 DEF TypeOK
    <3>3. ASSUME NEW new \in Seq(Rule), rules' = rules \o new PROVE rules' \in Seq(Rule)
      BY <3>3 DEF TypeOK
    <3>4. <<>> \in Seq(Rule) /\ rules \in Seq(Rule)
      BY DEF TypeOK
    <3> QED
      BY StepsOfTheTable, <3>1, <3>2, <3>3, <3>4
  <2>2. age' \in [Devices -> Ages] /\ plus' \in BOOLEAN
    <3> USE DEF TypeOK, Ages
    <3>1. CASE UNCHANGED <<age, plus>>
      BY <3>1
    <3>2. ASSUME NEW d \in Devices, Seen(d) \/ DayPasses(d) PROVE <2>2
      BY <3>2 DEF Seen, DayPasses
    <3>3. CASE LevelChanges
      BY <3>3 DEF LevelChanges
    <3>4. CASE Wipe
      BY <3>4 DEF Wipe
    <3>5. CASE UNCHANGED vars
      BY <3>1, <3>5 DEF vars
    <3> QED
      BY <3>1, <3>2, <3>3, <3>4, <3>5
         DEF Next, AsksCategoryCut, ChecksCategoryCut, AsksNameCut, PageAsksAllow, Enters,
             Inserts, PanelAllows, Add, AsksMaxima, MaximaOn, MaximaOff, ContractCuts,
             UndoRule, UndoSince, PhoneUndoes, Undo
  <2>3. calls' \in [Calls -> Requests \cup {Idle}]
    <3>1. ASSUME NEW c \in Calls PROVE calls'[c] \in Requests \cup {Idle}
      <4>1. calls[c] \in Requests \cup {Idle}
        BY DEF TypeOK
      <4>2. CASE BecomesRequest(c)
        BY <4>2 DEF BecomesRequest, RuleCall, Requests, RuleCalls
      <4>3. CASE PassesCheck(c)
        <5>1. calls[c] \in RuleCalls
          BY <4>1, <4>3, CallShape DEF PassesCheck
        <5> QED
          BY <4>3, <5>1 DEF PassesCheck, Requests, RuleCalls
      <4>4. CASE IsOvertaken(c)
        <5>1. calls[c] \in RuleCalls
          BY <4>1, <4>4, CallShape DEF IsOvertaken, IsPageAllow
        <5> QED
          BY <4>4, <5>1 DEF IsOvertaken, Requests, RuleCalls
      <4>5. ASSUME NEW on \in BOOLEAN, calls'[c] = MaximaCall(on)
            PROVE  calls'[c] \in Requests
        BY <4>5 DEF MaximaCall, Requests
      <4> QED
        BY <4>1, <4>2, <4>3, <4>4, <4>5, StepsOfACall DEF CallStep
    <3>2. DOMAIN calls' = Calls /\ calls' = [c \in Calls |-> calls'[c]]
      <4> DEFINE Whole(f) == DOMAIN f = Calls /\ f = [c \in Calls |-> f[c]]
      <4>1. Whole(calls)
        BY DEF TypeOK
      <4>2. \A x, q : Whole([calls EXCEPT ![x] = q])
        BY <4>1
      <4>3. (\A x : Whole(Answered(x))) /\ (\A cs : Whole(Overtaken(cs)))
        BY <4>2 DEF Answered, Overtaken
      <4> HIDE DEF Whole
      <4>4. ASSUME NEW x, NEW q, Enters(x, q) PROVE Whole(calls')
        BY <4>2, <4>4 DEF Enters
      <4>5. ASSUME NEW r, NEW cs, Whole(cs), Add(r, cs) PROVE Whole(calls')
        BY <4>3, <4>5 DEF Add
      <4>6. ASSUME NEW x, ChecksCategoryCut(x) PROVE Whole(calls')
        BY <4>2, <4>3, <4>6 DEF ChecksCategoryCut
      <4>7. ASSUME NEW x, Inserts(x) \/ MaximaOn(x) \/ MaximaOff(x) PROVE Whole(calls')
        BY <4>3, <4>5, <4>7 DEF Inserts, MaximaOn, MaximaOff
      <4>8. ASSUME NEW x, PanelAllows(x) \/ ContractCuts(x) PROVE Whole(calls')
        BY <4>1, <4>5, <4>8 DEF PanelAllows, ContractCuts
      <4>9. Whole(calls')
        BY <4>1, <4>3, <4>4, <4>6, <4>7, <4>8
           DEF Next, AsksCategoryCut, AsksNameCut, PageAsksAllow, AsksMaxima, UndoRule,
               UndoSince, PhoneUndoes, Seen, DayPasses, LevelChanges, Wipe, vars
      <4> QED
        BY <4>9 DEF Whole
    <3> QED
      BY <3>1, <3>2
  <2> QED
    BY <2>1, <2>2, <2>3 DEF TypeOK
<1> QED
  BY <1>1, <1>2, PTL DEF Spec

-----------------------------------------------------------------------------
\* An invariant that says something of each rule of the table, and of nothing
\* else, is kept by a step when it survives the undoing of a rule and holds of
\* the rules the step adds.  Two facts about the names come first.

\* A prefix, position by position.
LEMMA UnderPointwise ==
    ASSUME NEW S, NEW s \in Seq(S), NEW t \in Seq(S)
    PROVE  Under(s, t) <=> Len(s) <= Len(t) /\ \A i \in 1..Len(s) : s[i] = t[i]
<1>1. ASSUME Len(s) <= Len(t)
      PROVE  SubSeq(s, 1, Len(s)) = SubSeq(t, 1, Len(s))
                <=> \A i \in 1..Len(s) : s[i] = t[i]
  <2>1. /\ DOMAIN SubSeq(s, 1, Len(s)) = 1..Len(s)
        /\ DOMAIN SubSeq(t, 1, Len(s)) = 1..Len(s)
        /\ \A i \in 1..Len(s) : /\ SubSeq(s, 1, Len(s))[i] = s[i]
                                /\ SubSeq(t, 1, Len(s))[i] = t[i]
    BY <1>1
  <2>2. /\ SubSeq(s, 1, Len(s)) \in Seq(S) /\ SubSeq(t, 1, Len(s)) \in Seq(S)
        /\ Len(SubSeq(s, 1, Len(s))) = Len(s) /\ Len(SubSeq(t, 1, Len(s))) = Len(s)
    BY <1>1
  <2> QED
    BY <2>1, <2>2
<1> QED
  BY <1>1 DEF Under, IsPrefix

\* Of two names above the same one, the shorter is above the longer.
LEMMA UnderSame ==
    ASSUME NEW n \in Seq(Labels), NEW s \in Seq(Labels), NEW t \in Seq(Labels),
           Under(s, n), Under(t, n), Len(s) <= Len(t)
    PROVE  /\ Under(s, t)
           /\ Len(s) = Len(t) => s = t
<1>1. /\ Len(t) <= Len(n)
      /\ \A i \in 1..Len(s) : s[i] = n[i]
      /\ \A i \in 1..Len(t) : t[i] = n[i]
  BY UnderPointwise
<1>2. \A i \in 1..Len(s) : s[i] = t[i]
  BY <1>1
<1> QED
  BY <1>2, UnderPointwise

\* Being under carries over.
LEMMA UnderTransitive ==
    ASSUME NEW f \in Seq(Labels), NEW p \in Seq(Labels), NEW n \in Seq(Labels),
           Under(f, p), Under(p, n)
    PROVE  Under(f, n)
<1>1. /\ Len(f) <= Len(p) /\ Len(p) <= Len(n)
      /\ \A i \in 1..Len(f) : f[i] = p[i]
      /\ \A i \in 1..Len(p) : p[i] = n[i]
  BY UnderPointwise
<1>2. \A i \in 1..Len(f) : f[i] = n[i]
  BY <1>1
<1> QED
  BY <1>1, <1>2, UnderPointwise

\* When something a suffix reaches is expected, the lists say so of the suffix
\* or of something at or under it: what create_rule looks up is enough.
LEMMA ExpectedIsAsked ==
    ASSUME NEW p \in Seq(Labels), NEW n \in Seq(Labels),
           Under(p, n), CategoryOf(n) = Expected
    PROVE  CategoryOf(p) = Expected \/ ExpectedAtOrUnder(p)
<1>1. \A f \in DOMAIN Entries : f \in Seq(Labels)
  BY RulesAssumption
<1>2. PICK e \in DOMAIN Entries : Closest(e, n) /\ Entries[e] = Expected
  BY RulesAssumption DEF CategoryOf
<1>3. CASE Len(p) <= Len(e)
  <2>1. Under(p, e)
    BY <1>1, <1>2, <1>3, UnderSame DEF Closest
  <2> QED
    BY <1>2, <2>1 DEF ExpectedAtOrUnder
<1>4. CASE Len(e) <= Len(p)
  <2>1. Under(e, p)
    BY <1>1, <1>2, <1>4, UnderSame DEF Closest
  <2>2. Closest(e, p)
    BY <1>1, <1>2, <2>1, UnderTransitive DEF Closest
  <2>3. ASSUME NEW c \in DOMAIN Entries, Closest(c, p) PROVE c = e
    <3>1. Len(c) <= Len(e) /\ Len(e) <= Len(c) /\ Len(c) \in Nat /\ Len(e) \in Nat
      BY <1>1, <2>1, <2>2, <2>3 DEF Closest
    <3>2. Len(c) = Len(e)
      BY <3>1
    <3> QED
      BY <1>1, <2>1, <2>3, <3>2, UnderSame DEF Closest
  <2>4. (CHOOSE c \in DOMAIN Entries : Closest(c, p)) = e
    BY <2>2, <2>3
  <2> QED
    BY <1>2, <2>2, <2>4 DEF CategoryOf
<1>5. Len(p) \in Nat /\ Len(e) \in Nat
  BY <1>1, <1>2
<1> QED
  BY <1>3, <1>4, <1>5

-----------------------------------------------------------------------------
\* The "yes" a rule needs for every name it reaches, rule by rule.
HasItsYes(r) ==
    ~r.undone /\ r.action = "cortar" /\ r.kind # "category"
        /\ r.by \in {"panel", "dispositivo"}
    => \A n \in Names :
          LET q == Query(r.device, n, CategoryOf(n), TRUE)
          IN  NameMatches(r, q) => ~Protects(r, q)

\* A rule made with the guards of create_rule has it.
LEMMA GuardGivesTheYes ==
    ASSUME NEW r \in Rule,
           r.action = "cortar" /\ r.kind # "category"
              => r.confirmed \/ ~NeedsYes(r)
    PROVE  HasItsYes(r)
<1> SUFFICES ASSUME r.action = "cortar", r.kind # "category", NEW n \in Names,
                    NameMatches(r, Query(r.device, n, CategoryOf(n), TRUE)),
                    ~r.confirmed, CategoryOf(n) = Expected
             PROVE  FALSE
  BY DEF HasItsYes, Protects, Query
<1>1. /\ CategoryOf(r.pattern) # Expected
      /\ r.kind = "suffix" => ~ExpectedAtOrUnder(r.pattern)
  BY DEF NeedsYes
<1>2. CASE r.kind = "domain"
  BY <1>1, <1>2 DEF NameMatches, Query
<1>3. CASE r.kind = "suffix"
  <2>1. Under(r.pattern, n)
    BY <1>3 DEF NameMatches, Query
  <2>2. r.pattern \in Names
    BY <1>3 DEF Rule
  <2> QED
    BY <1>1, <1>3, <2>1, <2>2, ExpectedIsAsked, HouseholdAssumption
<1> QED
  BY <1>2, <1>3 DEF Rule, Kinds

\* A cut by name listed as active really cuts every name it reaches: the
\* protection of what a device needs holds none of them back, because
\* create_rule asked for the "yes" of exactly those, before the call went on to
\* the table and however long it took.
THEOREM ListedCutsAreReal == Spec => []ListedCutsCut
<1> DEFINE Listed == \A i \in DOMAIN rules : HasItsYes(rules[i])
           Waiting == \A c \in Calls : AboutARule(calls[c]) /\ calls[c].stage = "checked"
                                          => HasItsYes(calls[c].row)
           Inv == Listed /\ Waiting
<1>1. Init => Inv
  BY DEF Init, AboutARule
<1>2. TypeOK /\ Inv /\ [Next]_vars => Inv'
  <2> SUFFICES ASSUME TypeOK, Inv, [Next]_vars PROVE Inv'
    OBVIOUS
  <2> USE DEF TypeOK
  <2>1. ASSUME NEW ids, rules' = Without(rules, ids) PROVE Listed'
    BY <2>1, UndoneRows DEF HasItsYes, NameMatches, Protects, Query
  <2>2. ASSUME NEW r \in Rule, rules' = Append(rules, r), HasItsYes(r) PROVE Listed'
    BY <2>2
  <2>3. ASSUME NEW new \in Seq(Rule), rules' = rules \o new,
               \A k \in DOMAIN new : new[k].by = "maxima"
        PROVE  Listed'
    <3>1. \A k \in DOMAIN new : HasItsYes(new[k])
      BY <2>3 DEF HasItsYes
    <3> QED
      BY <2>3, <3>1
  <2>4. ASSUME rules' = <<>> \/ rules' = rules PROVE Listed'
    BY <2>4
  <2>5. ASSUME NEW r \in Rule, r.by = "contrato" \/ r.action = "permitir" PROVE HasItsYes(r)
    BY <2>5 DEF HasItsYes
  <2>6. Listed'
    <3> HIDE DEF Listed
    <3> QED
      BY StepsOfTheTable, <2>1, <2>2, <2>3, <2>4, <2>5
  <2>7. ASSUME NEW c \in Calls, AboutARule(calls'[c]), calls'[c].stage = "checked"
        PROVE  HasItsYes(calls'[c].row)
    <3>1. calls[c] \in Requests \cup {Idle}
      OBVIOUS
    <3>2. ASSUME NEW r \in Rule, r.action = "cortar" => CutAllowed(r) PROVE HasItsYes(r)
      <4>1. CASE r.action = "cortar"
        BY <3>2, <4>1, GuardGivesTheYes DEF CutAllowed
      <4> QED
        BY <4>1 DEF HasItsYes
    <3>3. CASE BecomesRequest(c)
      BY <2>7, <3>2, <3>3 DEF BecomesRequest, RuleCall
    <3>4. CASE PassesCheck(c)
      <4>1. calls[c] \in RuleCalls
        BY <3>1, <3>4, CallShape DEF PassesCheck
      <4>2. calls[c].row \in Rule /\ calls'[c].row = calls[c].row
        BY <3>4, <4>1 DEF PassesCheck, RuleCalls
      <4> QED
        BY <3>2, <3>4, <4>2 DEF PassesCheck
    <3>5. CASE IsOvertaken(c)
      <4>1. calls[c] \in RuleCalls
        BY <3>1, <3>5, CallShape DEF IsOvertaken, IsPageAllow
      <4>2. calls'[c].stage = calls[c].stage /\ calls'[c].row = calls[c].row
        BY <3>5, <4>1 DEF IsOvertaken, RuleCalls
      <4> QED
        BY <2>7, <3>5, <4>2 DEF IsOvertaken, IsPageAllow
    <3>6. CASE calls'[c] = calls[c]
      BY <2>7, <3>6
    <3>7. calls'[c] # Idle /\ \A on \in BOOLEAN : calls'[c] # MaximaCall(on)
      BY <2>7 DEF AboutARule, MaximaCall
    <3> QED
      BY <3>3, <3>4, <3>5, <3>6, <3>7, StepsOfACall DEF CallStep
  <2> QED
    BY <2>6, <2>7
<1>3. TypeOK /\ Inv => ListedCutsCut
  BY DEF ListedCutsCut, HasItsYes
<1> QED
  BY <1>1, <1>2, <1>3, TypeCorrect, PTL DEF Spec

-----------------------------------------------------------------------------
\* How far a rank says a rule goes.
LEMMA RankBounds ==
    ASSUME NEW r \in Rule
    PROVE  /\ Rank(r) \in 4..15
           /\ r.kind = "category" <=> Rank(r) < 8
           /\ r.kind = "domain" <=> Rank(r) >= 12
           /\ r.kind = "domain" /\ r.scope = "device" /\ r.action = "permitir"
                 => Rank(r) = 15
<1>1. CASE r.kind = "domain"
  BY <1>1 DEF Rank, Specificity, Rule, Actions
<1>2. CASE r.kind = "suffix"
  BY <1>2 DEF Rank, Specificity, Rule, Actions
<1>3. CASE r.kind = "category"
  BY <1>3 DEF Rank, Specificity, Rule, Actions
<1> QED
  BY <1>1, <1>2, <1>3 DEF Rule, Kinds

-----------------------------------------------------------------------------
\* Induction for a set of naturals: the least number outside it would be the
\* successor of one inside.
LEMMA LeastNat ==
    ASSUME NEW T, T \subseteq Nat, T # {}
    PROVE  \E m \in T : \A k \in T : m <= k
<1> DEFINE R == {ss \in Nat \X Nat : ss[1] < ss[2]}
<1>1. IsWellFoundedOn(R, Nat)
  BY NatLessThanWellFounded DEF OpToRel
<1>2. \A x, y \in Nat : y < x => <<y, x>> \in R
  OBVIOUS
<1> HIDE DEF R
<1>3. PICK x \in T : \A y \in T : ~(<<y, x>> \in R)
  BY <1>1, WFMin
<1>4. \A y \in T : ~(y < x)
  BY <1>2, <1>3
<1> QED
  BY <1>4

LEMMA SetInduction ==
    ASSUME NEW T, 0 \in T, \A n \in Nat : n \in T => n + 1 \in T
    PROVE  Nat \subseteq T
<1> SUFFICES ASSUME ~(Nat \subseteq T) PROVE FALSE
  OBVIOUS
<1> DEFINE U == Nat \ T
<1>1. PICK m \in U : \A k \in U : m <= k
  BY LeastNat
<1>2. m # 0 /\ m - 1 \in Nat /\ m - 1 \notin U
  BY <1>1
<1> QED
  BY <1>2

\* f is what the loop of `decide` holds after each of its first m rows.
IsPass(f, table, q, m) ==
    f = [k \in 0 .. m |->
            IF k = 0 THEN 0 ELSE Keep(table, q, f[k - 1], Len(table) + 1 - k)]

\* The loop goes on from any row to the next.
LEMMA PassExists ==
    ASSUME NEW table, NEW q, NEW m \in Nat
    PROVE  \E f : IsPass(f, table, q, m)
<1> DEFINE T == {i \in Nat : \E f : IsPass(f, table, q, i)}
<1>1. 0 \in T
  <2>1. IsPass([k \in 0 .. 0 |-> 0], table, q, 0)
    BY DEF IsPass
  <2> QED
    BY <2>1
<1>2. ASSUME NEW i \in Nat, i \in T PROVE i + 1 \in T
  <2>1. PICK f : IsPass(f, table, q, i)
    BY <1>2
  <2> DEFINE last == Keep(table, q, f[i], Len(table) + 1 - (i + 1))
             g == [k \in 0 .. (i + 1) |-> IF k <= i THEN f[k] ELSE last]
  <2>2. ASSUME NEW k \in 0 .. (i + 1)
        PROVE  g[k] = IF k = 0 THEN 0 ELSE Keep(table, q, g[k - 1], Len(table) + 1 - k)
    <3>1. CASE k = 0
      BY <2>1, <3>1 DEF IsPass
    <3>2. CASE k \in 1 .. i
      <4>1. g[k] = f[k] /\ g[k - 1] = f[k - 1]
        BY <3>2
      <4>2. f[k] = Keep(table, q, f[k - 1], Len(table) + 1 - k)
        BY <2>1, <3>2 DEF IsPass
      <4> QED
        BY <3>2, <4>1, <4>2
    <3>3. CASE k = i + 1
      <4>1. g[k] = last /\ g[k - 1] = f[i] /\ k # 0
        BY <3>3
      <4> QED
        BY <3>3, <4>1
    <3> QED
      BY <3>1, <3>2, <3>3
  <2>3. g = [k \in 0 .. (i + 1) |-> g[k]]
    OBVIOUS
  <2> HIDE DEF g
  <2>4. IsPass(g, table, q, i + 1)
    BY <2>2, <2>3 DEF IsPass
  <2> QED
    BY <2>4
<1> HIDE DEF T
<1>3. m \in T
  BY <1>1, <1>2, SetInduction
<1> QED
  BY <1>3 DEF T

LEMMA LoopIsPass ==
    ASSUME NEW table, NEW q, Len(table) \in Nat
    PROVE  \E f : IsPass(f, table, q, Len(table)) /\ DecideLoop(table, q) = f[Len(table)]
<1> DEFINE F == CHOOSE f : IsPass(f, table, q, Len(table))
<1>1. IsPass(F, table, q, Len(table))
  BY PassExists
<1>2. DecideLoop(table, q) = F[Len(table)]
  BY DEF DecideLoop, IsPass
<1> QED
  BY <1>1, <1>2

\* b is what deciding among the rows from lo on comes to.
BestFrom(b, table, q, lo) ==
    IF b = 0 THEN \A j \in lo .. Len(table) : ~Applies(table[j], q)
    ELSE /\ b \in lo .. Len(table)
         /\ Applies(table[b], q)
         /\ \A j \in lo .. Len(table) : Applies(table[j], q) =>
               \/ Rank(table[j]) < Rank(table[b])
               \/ Rank(table[j]) = Rank(table[b]) /\ j <= b

\* One turn of the loop takes in one row more.
LEMMA KeepIsBest ==
    ASSUME NEW table \in Seq(Rule), NEW q, NEW b, NEW i \in 1 .. Len(table),
           BestFrom(b, table, q, i + 1)
    PROVE  BestFrom(Keep(table, q, b, i), table, q, i)
<1>1. \A j \in 1 .. Len(table) : Rank(table[j]) \in Nat
  <2>1. ASSUME NEW j \in 1 .. Len(table) PROVE table[j] \in Rule
    OBVIOUS
  <2>2. ASSUME NEW j \in 1 .. Len(table) PROVE Rank(table[j]) \in 4 .. 15
    BY <2>1, RankBounds
  <2> QED
    BY <2>2
<1>2. /\ Len(table) \in Nat
      /\ i .. Len(table) = {i} \cup (i + 1) .. Len(table)
  OBVIOUS
<1>3. CASE b = 0
  BY <1>1, <1>2, <1>3 DEF BestFrom, Keep
<1>4. CASE b # 0
  <2>1. b \in (i + 1) .. Len(table) /\ Applies(table[b], q)
    BY <1>4 DEF BestFrom
  <2>2. \A j \in (i + 1) .. Len(table) : Applies(table[j], q) =>
           \/ Rank(table[j]) < Rank(table[b])
           \/ Rank(table[j]) = Rank(table[b]) /\ j <= b
    BY <1>4 DEF BestFrom
  <2>3. CASE Keep(table, q, b, i) = i
    <3>1. Applies(table[i], q) /\ Rank(table[i]) > Rank(table[b])
      BY <1>4, <2>1, <2>3 DEF Keep
    <3>2. \A j \in (i + 1) .. Len(table) : Applies(table[j], q)
             => Rank(table[j]) < Rank(table[i])
      BY <1>1, <1>2, <2>1, <2>2, <3>1
    <3> QED
      BY <1>1, <1>2, <2>3, <3>1, <3>2 DEF BestFrom
  <2>4. CASE Keep(table, q, b, i) # i
    <3>1. Keep(table, q, b, i) = b /\ (Applies(table[i], q) => ~(Rank(table[i]) > Rank(table[b])))
      BY <1>4, <2>4 DEF Keep
    <3>2. Applies(table[i], q) => \/ Rank(table[i]) < Rank(table[b])
                                  \/ Rank(table[i]) = Rank(table[b]) /\ i <= b
      BY <1>1, <1>2, <2>1, <3>1
    <3> QED
      BY <1>2, <1>4, <2>1, <2>2, <3>1, <3>2 DEF BestFrom
  <2> QED
    BY <2>3, <2>4
<1> QED
  BY <1>3, <1>4

\* The whole loop takes in the whole table.
LEMMA LoopIsBest ==
    ASSUME NEW table \in Seq(Rule), NEW q
    PROVE  BestFrom(DecideLoop(table, q), table, q, 1)
<1>1. Len(table) \in Nat
  OBVIOUS
<1>2. PICK f : IsPass(f, table, q, Len(table)) /\ DecideLoop(table, q) = f[Len(table)]
  BY <1>1, LoopIsPass
<1> DEFINE T == {k \in Nat : k <= Len(table) => BestFrom(f[k], table, q, Len(table) + 1 - k)}
<1>3. 0 \in T
  <2>1. f[0] = 0
    BY <1>1, <1>2 DEF IsPass
  <2> QED
    BY <1>1, <2>1 DEF BestFrom
<1>4. ASSUME NEW k \in Nat, k \in T PROVE k + 1 \in T
  <2> SUFFICES ASSUME k + 1 <= Len(table)
               PROVE  BestFrom(f[k + 1], table, q, Len(table) + 1 - (k + 1))
    OBVIOUS
  <2> DEFINE i == Len(table) + 1 - (k + 1)
  <2>1. i \in 1 .. Len(table) /\ i + 1 = Len(table) + 1 - k
    BY <1>1
  <2>2. BestFrom(f[k], table, q, i + 1)
    BY <1>1, <1>4, <2>1
  <2>3. f[k + 1] = Keep(table, q, f[k], i)
    BY <1>1, <1>2 DEF IsPass
  <2> HIDE DEF i
  <2>4. BestFrom(f[k + 1], table, q, i)
    BY <2>1, <2>2, <2>3, KeepIsBest
  <2> QED
    BY <2>4 DEF i
<1> HIDE DEF T
<1>5. Len(table) \in T
  BY <1>1, <1>3, <1>4, SetInduction
<1>6. BestFrom(f[Len(table)], table, q, Len(table) + 1 - Len(table))
  BY <1>1, <1>5 DEF T
<1>7. Len(table) + 1 - Len(table) = 1
  BY <1>1
<1> QED
  BY <1>2, <1>6, <1>7

\* Two rules of one rank do the same.
LEMMA RankTellsAction ==
    ASSUME NEW r \in Rule, NEW s \in Rule, Rank(r) = Rank(s)
    PROVE  r.action = s.action
<1>1. /\ r.kind \in {"domain", "suffix", "category"} /\ r.action \in {"cortar", "permitir"}
      /\ s.kind \in {"domain", "suffix", "category"} /\ s.action \in {"cortar", "permitir"}
  BY DEF Rule, Kinds, Actions
<1>2. Specificity(r.kind) \in 1 .. 3 /\ Specificity(s.kind) \in 1 .. 3
  BY <1>1 DEF Specificity
<1> QED
  BY <1>1, <1>2 DEF Rank

\* The pass over the table finds the rule `decide` documents, in every table
\* and for every query: the highest rank and, among equals, the newest; and it
\* is a cut exactly when a cut applies that no allow outranks (rules.rs:120-157).
THEOREM LoopFindsTheRule == Spec => []LoopAgrees
<1>1. TypeOK => LoopAgrees
  <2> SUFFICES ASSUME TypeOK, NEW q \in Queries
               PROVE  LET i == DecideLoop(rules, q)
                      IN  /\ i = Decide(rules, q)
                          /\ Cuts(rules, q) <=> i # 0 /\ rules[i].action = "cortar"
    BY DEF LoopAgrees
  <2> DEFINE i == DecideLoop(rules, q)
  <2>1. rules \in Seq(Rule) /\ Len(rules) \in Nat /\ DOMAIN rules = 1 .. Len(rules)
    BY DEF TypeOK
  <2>2. BestFrom(i, rules, q, 1)
    BY <2>1, LoopIsBest
  <2>3. \A j \in DOMAIN rules : rules[j] \in Rule /\ Rank(rules[j]) \in Nat
    <3>1. \A j \in DOMAIN rules : rules[j] \in Rule
      BY <2>1
    <3> QED
      BY <3>1, RankBounds
  <2> HIDE DEF i
  <2>4. CASE i = 0
    <3>1. \A j \in DOMAIN rules : ~Applies(rules[j], q)
      BY <2>1, <2>2, <2>4 DEF BestFrom
    <3>2. Decide(rules, q) = 0
      BY <3>1 DEF Decide, Wins
    <3>3. ~Cuts(rules, q)
      BY <3>1 DEF Cuts
    <3> QED
      BY <2>4, <3>2, <3>3 DEF i
  <2>5. CASE i # 0
    <3>1. i \in DOMAIN rules /\ Wins(rules, q, i)
      BY <2>1, <2>2, <2>5 DEF BestFrom, Wins
    <3>2. ASSUME NEW w \in DOMAIN rules, Wins(rules, q, w) PROVE w = i
      <4>1. /\ Rank(rules[w]) < Rank(rules[i]) \/ (Rank(rules[w]) = Rank(rules[i]) /\ w <= i)
            /\ Rank(rules[i]) < Rank(rules[w]) \/ (Rank(rules[i]) = Rank(rules[w]) /\ i <= w)
        BY <3>1, <3>2 DEF Wins
      <4> QED
        BY <2>1, <2>3, <3>1, <3>2, <4>1
    <3>3. Decide(rules, q) = i
      BY <3>1, <3>2 DEF Decide
    <3>4. ASSUME Cuts(rules, q) PROVE rules[i].action = "cortar"
      <4>1. PICK c \in DOMAIN rules :
               /\ Applies(rules[c], q)
               /\ rules[i].action = "permitir" => Rank(rules[i]) < Rank(rules[c])
        BY <3>1, <3>4 DEF Cuts, Wins
      <4>2. Rank(rules[c]) <= Rank(rules[i])
        <5>1. Rank(rules[c]) < Rank(rules[i]) \/ Rank(rules[c]) = Rank(rules[i])
          BY <3>1, <4>1 DEF Wins
        <5> QED
          BY <2>3, <3>1, <4>1, <5>1
      <4>3. rules[i].action # "permitir"
        BY <2>3, <3>1, <4>1, <4>2
      <4> QED
        BY <2>3, <3>1, <4>3 DEF Rule, Actions
    <3>5. ASSUME rules[i].action = "cortar" PROVE Cuts(rules, q)
      <4>1. ASSUME NEW j \in DOMAIN rules, rules[j].action = "permitir", Applies(rules[j], q)
            PROVE  Rank(rules[j]) < Rank(rules[i])
        <5>1. Rank(rules[j]) < Rank(rules[i]) \/ Rank(rules[j]) = Rank(rules[i])
          BY <3>1, <4>1 DEF Wins
        <5>2. Rank(rules[j]) # Rank(rules[i])
          BY <2>3, <3>1, <3>5, <4>1, RankTellsAction
        <5> QED
          BY <5>1, <5>2
      <4> QED
        BY <3>1, <3>5, <4>1 DEF Cuts, Wins
    <3> QED
      BY <2>5, <3>3, <3>4, <3>5 DEF i
  <2> QED
    BY <2>4, <2>5
<1> QED
  BY <1>1, TypeCorrect, PTL

-----------------------------------------------------------------------------
\* «Dejarlo pasar» leaves no cut of the name by its name, in any table: a rule
\* that still cut it would be one of those it undid (cutting_rules,
\* rules.rs:159-175).
THEOREM LetThroughAlwaysFrees == Spec => []LetThroughFrees
<1>1. TypeOK => LetThroughFrees
  <2> SUFFICES ASSUME TypeOK, NEW n \in Names
               PROVE  LET q == Query(Self, n, CategoryOf(n), TRUE)
                          left == Without(rules, CuttingRules(rules, q))
                          w == Decide(left, q)
                      IN  w # 0 /\ rules[w].action = "cortar" => rules[w].kind = "category"
    BY DEF LetThroughFrees
  <2> DEFINE q == Query(Self, n, CategoryOf(n), TRUE)
             undone == CuttingRules(rules, q)
             left == Without(rules, undone)
             w == Decide(left, q)
  <2>1. rules \in Seq(Rule)
    BY DEF TypeOK
  <2> HIDE DEF q
  <2>2. /\ DOMAIN left = DOMAIN rules
        /\ \A i \in DOMAIN rules : /\ i \in undone => left[i].undone
                                   /\ i \notin undone => left[i] = rules[i]
    BY <2>1, UndoneRows
  <2>3. w # 0 => w \in DOMAIN left /\ Applies(left[w], q)
    BY DEF Decide, Wins
  <2>4. ASSUME w # 0, rules[w].action = "cortar", rules[w].kind # "category" PROVE FALSE
    <3> HIDE DEF w, left, undone
    <3>1. w \in DOMAIN rules /\ w \notin undone /\ Applies(rules[w], q)
      BY <2>2, <2>3, <2>4 DEF Applies
    <3>2. w \in undone
      BY <2>4, <3>1 DEF undone, CuttingRules, Applies
    <3> QED
      BY <3>1, <3>2
  <2> QED
    BY <2>4 DEF q
<1> QED
  BY <1>1, TypeCorrect, PTL

-----------------------------------------------------------------------------
\* A name let through by name, and cut by name by nobody, is cut by no
\* category and under no disguise.
THEOREM AllowAlwaysStands == Spec => []AllowStands
<1>1. TypeOK => AllowStands
  <2> SUFFICES ASSUME TypeOK,
                      NEW d \in Devices, NEW n \in Names,
                      NEW alias \in CutCategories \cup {Unknown},
                      CuttingRules(rules, Query(d, n, CategoryOf(n), TRUE)) = {},
                      NEW a \in DOMAIN rules,
                      rules[a].action = "permitir", rules[a].kind # "category",
                      Applies(rules[a], Query(d, n, CategoryOf(n), TRUE))
               PROVE  /\ ~Cuts(rules, Query(d, n, CategoryOf(n), TRUE))
                      /\ DecideCloaked(rules, Query(d, n, alias, TRUE), CategoryOf(n)) = 0
    BY DEF AllowStands
  <2> DEFINE q == Query(d, n, CategoryOf(n), TRUE)
             dressed == Query(d, n, alias, TRUE)
  <2>1. \A i \in DOMAIN rules : rules[i] \in Rule
    BY DEF TypeOK
  <2>2. Rank(rules[a]) \in 8..15
    BY <2>1, RankBounds
  <2>3. ~Cuts(rules, q)
    <3> SUFFICES ASSUME NEW c \in DOMAIN rules, rules[c].action = "cortar",
                        Applies(rules[c], q), Rank(rules[a]) < Rank(rules[c])
                 PROVE  FALSE
      BY DEF Cuts
    <3>1. rules[c].kind = "category"
      BY DEF CuttingRules, Applies
    <3> QED
      BY <2>1, <2>2, <3>1, RankBounds
  <2>4. Applies(rules[a], dressed)
    BY <2>1 DEF Applies, InScope, NameMatches, Protects, Query, Rule, Kinds
  <2>5. ASSUME NEW w \in DOMAIN rules, Wins(rules, dressed, w)
        PROVE  rules[w].kind # "category"
    <3>1. Rank(rules[a]) <= Rank(rules[w])
      <4> HIDE DEF dressed
      <4>1. Rank(rules[a]) < Rank(rules[w]) \/ Rank(rules[a]) = Rank(rules[w])
        BY <2>4, <2>5 DEF Wins
      <4> QED
        BY <2>1, <4>1, RankBounds
    <3> QED
      BY <2>1, <2>2, <3>1, RankBounds
  <2>6. Decide(rules, dressed) # 0 => rules[Decide(rules, dressed)].kind # "category"
    BY <2>5 DEF Decide
  <2>7. DecideCloaked(rules, dressed, CategoryOf(n)) = 0
    BY <2>6 DEF DecideCloaked
  <2> QED
    BY <2>3, <2>7
<1> QED
  BY <1>1, TypeCorrect, PTL

-----------------------------------------------------------------------------
\* Adding to a table keeps a cut of it, unless what is added is an allow that
\* applies.
LEMMA CutsSurviveAppend ==
    ASSUME NEW table \in Seq(Rule), NEW r \in Rule, NEW q, Cuts(table, q),
           ~(r.action = "permitir" /\ Applies(r, q))
    PROVE  Cuts(Append(table, r), q)
<1>1. PICK c \in DOMAIN table :
         /\ table[c].action = "cortar"
         /\ Applies(table[c], q)
         /\ \A j \in DOMAIN table : table[j].action = "permitir" /\ Applies(table[j], q)
                                      => Rank(table[j]) < Rank(table[c])
  BY DEF Cuts
<1> DEFINE new == Append(table, r)
<1>2. /\ DOMAIN new = DOMAIN table \cup {Len(table) + 1}
      /\ \A j \in DOMAIN table : new[j] = table[j]
      /\ new[Len(table) + 1] = r
  OBVIOUS
<1>3. \A j \in DOMAIN new : new[j].action = "permitir" /\ Applies(new[j], q)
                              => Rank(new[j]) < Rank(new[c])
  BY <1>1, <1>2
<1>4. c \in DOMAIN new /\ new[c] = table[c]
  BY <1>2
<1> HIDE DEF new
<1>5. Cuts(new, q)
  BY <1>1, <1>3, <1>4 DEF Cuts
<1> QED
  BY <1>5 DEF new

\* The table without what the pages made, which is what a page's allow is
\* checked against.
House(table) ==
    Without(table, {i \in DOMAIN table : table[i].scope # "home" /\ table[i].by = "dispositivo"})

LEMMA HouseRows ==
    ASSUME NEW table \in Seq(Rule)
    PROVE  /\ DOMAIN House(table) = DOMAIN table
           /\ \A i \in DOMAIN table :
                 /\ table[i].by = "dispositivo" => House(table)[i].undone
                 /\ table[i].by # "dispositivo" => House(table)[i] = table[i]
           /\ House(table) = Without(table, {i \in DOMAIN table : table[i].by = "dispositivo"})
<1>1. \A i \in DOMAIN table : table[i].by = "dispositivo" => table[i].scope # "home"
  <2>1. \A i \in DOMAIN table : table[i] \in Rule
    OBVIOUS
  <2> QED
    BY <2>1 DEF Rule
<1> DEFINE pages == {i \in DOMAIN table : table[i].by = "dispositivo"}
<1>2. House(table) = Without(table, pages)
  BY <1>1 DEF House
<1>3. \A i \in DOMAIN table : table[i].by = "dispositivo" <=> i \in pages
  OBVIOUS
<1> HIDE DEF pages
<1>4. /\ DOMAIN House(table) = DOMAIN table
      /\ \A i \in DOMAIN table :
            /\ table[i].by = "dispositivo" => House(table)[i].undone
            /\ table[i].by # "dispositivo" => House(table)[i] = table[i]
  BY <1>2, <1>3, UndoneRows
<1> QED
  BY <1>2, <1>4 DEF pages

\* A table that differs from another in what pages made cuts for the household
\* what the other does.
LEMMA SameHouse ==
    ASSUME NEW old \in Seq(Rule), NEW new \in Seq(Rule), NEW q,
           \A i \in DOMAIN new : new[i].by # "dispositivo" => i \in DOMAIN old /\ new[i] = old[i],
           \A i \in DOMAIN old : old[i].by # "dispositivo" => i \in DOMAIN new /\ new[i] = old[i],
           Cuts(House(new), q)
    PROVE  Cuts(House(old), q)
<1>1. PICK c \in DOMAIN House(new) :
         /\ House(new)[c].action = "cortar"
         /\ Applies(House(new)[c], q)
         /\ \A j \in DOMAIN House(new) :
               House(new)[j].action = "permitir" /\ Applies(House(new)[j], q)
                  => Rank(House(new)[j]) < Rank(House(new)[c])
  BY DEF Cuts
<1>2. /\ c \in DOMAIN new /\ new[c].by # "dispositivo"
      /\ House(new)[c] = new[c]
  BY <1>1, HouseRows DEF Applies
<1>3. c \in DOMAIN House(old) /\ House(old)[c] = House(new)[c]
  BY <1>2, HouseRows
<1>4. ASSUME NEW j \in DOMAIN House(old), House(old)[j].action = "permitir",
             Applies(House(old)[j], q)
      PROVE  Rank(House(old)[j]) < Rank(House(old)[c])
  <2>1. j \in DOMAIN old /\ old[j].by # "dispositivo" /\ House(old)[j] = old[j]
    BY <1>4, HouseRows DEF Applies
  <2>2. j \in DOMAIN House(new) /\ House(new)[j] = House(old)[j]
    BY <2>1, HouseRows
  <2> QED
    BY <1>1, <1>3, <1>4, <2>2
<1> QED
  BY <1>1, <1>3, <1>4 DEF Cuts

\* The page's allow that waits and was not overtaken: the household still does
\* not cut what it looked up.
LookStands ==
    \A c \in Calls : IsPageAllow(calls[c]) /\ ~calls[c].late
        => ~HouseBlocks(calls[c].row.device, LookedUp(calls[c].row))

\* While such an allow waits, only pages write, or the table is emptied.
LEMMA OnlyPagesWrite ==
    ASSUME TypeOK, [Next]_vars, NEW c \in Calls, IsPageAllow(calls'[c]), ~calls'[c].late
    PROVE  \/ rules' = rules
           \/ rules' = <<>>
           \/ \E r \in Rule : r.by = "dispositivo" /\ rules' = Append(rules, r)
           \/ \E k \in DOMAIN rules : rules[k].by = "dispositivo" /\ rules' = Without(rules, {k})
<1>1. ASSUME NEW cs, calls' = Overtaken(cs), cs[c] \in Requests \cup {Idle} PROVE FALSE
  <2>1. IsPageAllow(cs[c]) /\ calls'[c] = [cs[c] EXCEPT !.late = TRUE]
    BY <1>1, OvertakenCalls
  <2>2. cs[c] \in RuleCalls
    BY <1>1, <2>1, CallShape DEF IsPageAllow
  <2> QED
    BY <2>1, <2>2 DEF RuleCalls
<1>2. /\ DOMAIN calls = Calls
      /\ \A x \in Calls : calls[x] \in Requests \cup {Idle}
  BY DEF TypeOK
<1>3. \A x \in Calls : Answered(x)[c] \in Requests \cup {Idle}
  BY <1>2 DEF Answered
<1>4. ASSUME NEW x \in Calls, Inserts(x)
      PROVE  \E r \in Rule : r.by = "dispositivo" /\ rules' = Append(rules, r)
  <2>1. calls[x] \in RuleCalls
    BY <1>2, <1>4, CallShape DEF Inserts
  <2>2. calls[x].row \in Rule
    BY <2>1 DEF RuleCalls
  <2>3. CASE calls[x].row.by = "dispositivo"
    BY <1>4, <2>2, <2>3 DEF Inserts, Add
  <2>4. CASE calls[x].row.by # "dispositivo"
    BY <1>1, <1>3, <1>4, <2>4 DEF Inserts, Add
  <2> QED
    BY <2>3, <2>4
<1>5. ASSUME \/ \E r \in PanelRows : PanelAllows(r)
             \/ \E s \in Contracts : ContractCuts(s)
      PROVE  FALSE
  <2>1. calls' = Overtaken(calls)
    <3>1. \A d, f : NewRule("device", d, f, "contrato").by # "dispositivo"
      BY DEF NewRule
    <3> QED
      BY <1>5, <3>1, RowsAsked DEF PanelAllows, ContractCuts, Add
  <2> QED
    BY <1>1, <1>2, <2>1
<1>6. ASSUME \/ \E x \in Calls : MaximaOn(x) \/ MaximaOff(x)
             \/ \E i \in DOMAIN rules : UndoRule(i) \/ UndoSince(i)
      PROVE  FALSE
  BY <1>1, <1>2, <1>3, <1>6 DEF MaximaOn, MaximaOff, UndoRule, UndoSince
<1>7. ASSUME NEW d \in Devices, NEW k \in DOMAIN rules, PhoneUndoes(d, k)
      PROVE  rules[k].by = "dispositivo" /\ rules' = Without(rules, {k})
  BY <1>7 DEF PhoneUndoes, PhoneMayUndo, Undo
<1>8. ASSUME \/ \E x \in FreeCalls, r \in PanelRows \cup PageRows :
                    AsksCategoryCut(x, r) \/ AsksNameCut(x, r)
             \/ \E x \in FreeCalls, r \in PageRows : PageAsksAllow(x, r)
             \/ \E x \in FreeCalls, on \in BOOLEAN : AsksMaxima(x, on)
             \/ \E x \in Calls : ChecksCategoryCut(x)
             \/ \E d \in Devices : Seen(d)
             \/ \E d \in Devices : DayPasses(d)
             \/ LevelChanges
             \/ UNCHANGED vars
      PROVE  rules' = rules
  BY <1>8 DEF AsksCategoryCut, AsksNameCut, PageAsksAllow, AsksMaxima, Enters,
              ChecksCategoryCut, Seen, DayPasses, LevelChanges, vars
<1>9. ASSUME Wipe PROVE rules' = <<>>
  BY <1>9 DEF Wipe
<1> QED
  BY <1>4, <1>5, <1>6, <1>7, <1>8, <1>9 DEF Next

\* It stays so, because what pages write is left out of the look.
LEMMA LookAlwaysStands == Spec => []LookStands
<1>1. Init => LookStands
  BY DEF Init, LookStands, IsPageAllow, AboutARule
<1>2. TypeOK /\ LookStands /\ [Next]_vars => LookStands'
  <2> SUFFICES ASSUME TypeOK, LookStands, [Next]_vars,
                      NEW c \in Calls, IsPageAllow(calls'[c]), ~calls'[c].late
               PROVE  ~HouseBlocks(calls[c].row.device, LookedUp(calls[c].row))'
    BY DEF LookStands
  <2> DEFINE r == calls'[c].row
             q == Query(r.device, LookedUp(r), CategoryOf(LookedUp(r)), TRUE)
  <2>1. /\ HouseBlocks(r.device, LookedUp(r)) <=> Cuts(House(rules), q)
        /\ HouseBlocks(calls[c].row.device, LookedUp(calls[c].row))'
              <=> Cuts(House(rules'), q)
    BY DEF HouseBlocks, OfTheHouse, House, LookedUp
  <2>2. rules \in Seq(Rule) /\ calls[c] \in Requests \cup {Idle}
    BY DEF TypeOK
  <2>3. ~Cuts(House(rules), q)
    <3>1. CASE BecomesRequest(c)
      <4>1. PICK s \in Rule, stage \in {"level", "checked"} :
               /\ calls'[c] = RuleCall(stage, s)
               /\ s.action = "permitir" => ~HouseBlocks(s.device, LookedUp(s))
        BY <3>1 DEF BecomesRequest
      <4>2. r = s /\ r.action = "permitir"
        BY <4>1 DEF RuleCall, IsPageAllow
      <4> QED
        BY <2>1, <4>1, <4>2
    <3>2. ASSUME calls[c] \in RuleCalls,
                 calls'[c] \in {calls[c], [calls[c] EXCEPT !.stage = "checked"]}
          PROVE  ~Cuts(House(rules), q)
      <4>1. calls'[c].row = calls[c].row /\ calls'[c].late = calls[c].late
        BY <3>2 DEF RuleCalls
      <4>2. IsPageAllow(calls[c]) /\ ~calls[c].late
        <5>1. calls[c] # Idle
          BY <3>2, IdleAssumption DEF Requests
        <5>2. calls[c].stage \in {"level", "checked"}
          BY <3>2 DEF RuleCalls
        <5> QED
          BY <4>1, <5>1, <5>2 DEF IsPageAllow, AboutARule
      <4> QED
        BY <2>1, <4>1, <4>2 DEF LookStands
    <3>3. CASE calls'[c] = calls[c]
      BY <2>2, <3>2, <3>3, CallShape DEF IsPageAllow
    <3>4. CASE PassesCheck(c)
      BY <2>2, <3>2, <3>4, CallShape DEF PassesCheck
    <3>5. CASE IsOvertaken(c)
      <4>1. calls[c] \in RuleCalls
        BY <2>2, <3>5, CallShape DEF IsOvertaken, IsPageAllow
      <4> QED
        BY <3>5, <4>1 DEF IsOvertaken, RuleCalls
    <3>6. calls'[c] # Idle /\ \A on \in BOOLEAN : calls'[c] # MaximaCall(on)
      BY DEF IsPageAllow, AboutARule, MaximaCall
    <3> HIDE DEF q, r
    <3> QED
      BY <3>1, <3>3, <3>4, <3>5, <3>6, StepsOfACall DEF CallStep
  <2> HIDE DEF q
  <2>4. ASSUME Cuts(House(rules'), q) PROVE Cuts(House(rules), q)
    <3>1. CASE rules' = rules
      BY <2>4, <3>1
    <3>2. CASE rules' = <<>>
      <4>1. \A t : DOMAIN House(t) = DOMAIN t
        BY DEF House, Without
      <4>2. DOMAIN rules' = {}
        BY <3>2
      <4>3. DOMAIN House(rules') = {}
        BY <4>1, <4>2
      <4> QED
        BY <2>4, <4>3 DEF Cuts
    <3>3. ASSUME NEW s \in Rule, s.by = "dispositivo", rules' = Append(rules, s)
          PROVE  Cuts(House(rules), q)
      <4>1. rules' \in Seq(Rule) /\ DOMAIN rules' = DOMAIN rules \cup {Len(rules) + 1}
        BY <2>2, <3>3
      <4>2. /\ \A i \in DOMAIN rules : i \in DOMAIN rules' /\ rules'[i] = rules[i]
            /\ rules'[Len(rules) + 1].by = "dispositivo"
        BY <2>2, <3>3, <4>1
      <4> QED
        BY <2>2, <2>4, <4>1, <4>2, SameHouse
    <3>4. ASSUME NEW k \in DOMAIN rules, rules[k].by = "dispositivo",
                 rules' = Without(rules, {k})
          PROVE  Cuts(House(rules), q)
      <4>1. /\ rules' \in Seq(Rule) /\ DOMAIN rules' = DOMAIN rules
            /\ \A i \in DOMAIN rules : i # k => rules'[i] = rules[i]
            /\ rules'[k].by = "dispositivo"
        BY <2>2, <3>4, UndoneRows
      <4> QED
        BY <2>2, <2>4, <3>4, <4>1, SameHouse
    <3> QED
      BY <3>1, <3>2, <3>3, <3>4, OnlyPagesWrite
  <2> QED
    BY <2>1, <2>3, <2>4
<1> QED
  BY <1>1, <1>2, TypeCorrect, PTL DEF Spec

\* An allow by suffix or category lifts nothing that is cut by its exact name.
LEMMA ExactCutHolds ==
    ASSUME NEW table \in Seq(Rule), NEW r \in Rule, r.kind # "domain", NEW q,
           Cuts(table, q), NEW k \in DOMAIN table,
           table[k].kind = "domain", table[k].action = "cortar", Applies(table[k], q)
    PROVE  Cuts(Append(table, r), q)
<1>1. PICK b \in DOMAIN table :
         /\ table[b].action = "cortar"
         /\ Applies(table[b], q)
         /\ \A j \in DOMAIN table : table[j].action = "permitir" /\ Applies(table[j], q)
                                      => Rank(table[j]) < Rank(table[b])
  BY DEF Cuts
<1>2. /\ \A j \in DOMAIN table : Rank(table[j]) \in Nat
      /\ Rank(r) \in Nat /\ Rank(r) < 12
      /\ Rank(table[k]) >= 12
  <2>1. \A j \in DOMAIN table : table[j] \in Rule
    OBVIOUS
  <2>2. \A j \in DOMAIN table : Rank(table[j]) \in Nat
    <3>1. ASSUME NEW j \in DOMAIN table PROVE Rank(table[j]) \in 4..15
      BY <2>1, RankBounds
    <3> QED
      BY <3>1
  <2>3. Rank(r) \in Nat /\ Rank(r) < 12
    <3>1. Rank(r) \in 4..15 /\ ~(Rank(r) >= 12)
      BY RankBounds
    <3> QED
      BY <3>1
  <2>4. Rank(table[k]) >= 12
    BY <2>1, RankBounds
  <2> QED
    BY <2>2, <2>3, <2>4
<1>3. PICK w \in DOMAIN table :
         /\ table[w].action = "cortar" /\ Applies(table[w], q)
         /\ Rank(table[w]) >= 12 /\ Rank(table[w]) >= Rank(table[b])
  <2>1. CASE Rank(table[b]) >= 12
    BY <1>1, <1>2, <2>1
  <2>2. CASE Rank(table[b]) < 12
    BY <1>1, <1>2, <2>2
  <2> QED
    BY <1>1, <1>2, <2>1, <2>2
<1> DEFINE new == Append(table, r)
<1>4. /\ DOMAIN new = DOMAIN table \cup {Len(table) + 1}
      /\ \A j \in DOMAIN table : new[j] = table[j]
      /\ new[Len(table) + 1] = r
  OBVIOUS
<1> HIDE DEF new
<1>5. \A j \in DOMAIN new : new[j].action = "permitir" /\ Applies(new[j], q)
                              => Rank(new[j]) < Rank(new[w])
  <2>1. ASSUME NEW j \in DOMAIN table, table[j].action = "permitir", Applies(table[j], q)
        PROVE  Rank(table[j]) < Rank(table[w])
    <3>1. Rank(table[j]) < Rank(table[b]) /\ Rank(table[w]) >= Rank(table[b])
      BY <1>1, <1>3, <2>1
    <3>2. Rank(table[j]) \in Nat /\ Rank(table[b]) \in Nat /\ Rank(table[w]) \in Nat
      BY <1>2
    <3> QED
      BY <3>1, <3>2
  <2>2. Rank(r) < Rank(table[w])
    BY <1>2, <1>3
  <2> QED
    BY <1>3, <1>4, <2>1, <2>2
<1>6. w \in DOMAIN new /\ new[w].action = "cortar" /\ Applies(new[w], q)
  BY <1>3, <1>4
<1>7. Cuts(new, q)
  BY <1>5, <1>6 DEF Cuts
<1> QED
  BY <1>7 DEF new

\* What the household cuts on a device stays cut there, whatever the device's
\* own page adds or undoes: but for an allow that was looked up before the
\* household wrote, and for one by suffix or category, which reaches names that
\* were never looked up and gives way to a cut by its exact name
\* (create_rule api.rs:2899-2930, 3008; phone_may_undo api.rs:3103-3111).
THEOREM PagesLiftNothing == Spec => PageLiftsNothing
<1>1. ASSUME TypeOK, LookStands, NEW c \in Calls, PageInserts(c), ~calls[c].late,
             NEW n \in Names, Lifts(calls[c].row.device, n)
      PROVE  /\ calls[c].row.kind # "domain" /\ calls[c].row.pattern # n
             /\ ~CutByItsName(calls[c].row.device, n)
  <2> DEFINE r == calls[c].row
             q == Query(r.device, n, CategoryOf(n), TRUE)
  <2>1. rules \in Seq(Rule) /\ r \in Rule
    <3>1. calls[c] \in Requests \cup {Idle} /\ rules \in Seq(Rule)
      BY <1>1 DEF TypeOK
    <3>2. calls[c] \in RuleCalls
      BY <1>1, <3>1, CallShape DEF PageInserts
    <3> QED
      BY <3>1, <3>2 DEF RuleCalls
  <2>2. rules' = Append(rules, r) /\ r.by = "dispositivo"
    BY <1>1 DEF PageInserts, Inserts, Add
  <2>3. Cuts(rules, q) /\ ~Cuts(Append(rules, r), q)
    BY <1>1, <2>2 DEF Lifts, Blocked
  <2>4. Cuts(House(rules), q)
    BY <1>1, <2>1, HouseRows DEF Lifts, HouseholdCuts, Blocked
  <2>5. r.action = "permitir" /\ Applies(r, q)
    <3> HIDE DEF r, q
    <3> QED
      BY <2>1, <2>3, CutsSurviveAppend
  <2>6. ~HouseBlocks(r.device, LookedUp(r))
    BY <1>1, <2>2, <2>5 DEF LookStands, IsPageAllow, PageInserts
  <2>7. LookedUp(r) # n
    BY <2>4, <2>6 DEF HouseBlocks, OfTheHouse, House
  <2>8. r.pattern # n
    BY <2>1, <2>7 DEF LookedUp, Rule
  <2>9. r.kind # "domain"
    BY <2>5, <2>8 DEF Applies, NameMatches, Query
  <2>10. ~CutByItsName(r.device, n)
    <3> SUFFICES ASSUME NEW k \in DOMAIN rules, rules[k].action = "cortar",
                        rules[k].kind = "domain", Applies(rules[k], q)
                 PROVE  FALSE
      BY DEF CutByItsName
    <3> HIDE DEF r, q
    <3> QED
      BY <2>1, <2>3, <2>9, ExactCutHolds
  <2> QED
    BY <2>8, <2>9, <2>10
<1>2. ASSUME TypeOK, NEW d \in Devices, NEW k \in DOMAIN rules, PhoneUndoes(d, k),
             NEW n \in Names, Lifts(d, n)
      PROVE  WidelyAllowed(d, n) /\ ~CutByItsName(d, n)
  <2> DEFINE q == Query(d, n, CategoryOf(n), TRUE)
             after == Without(rules, {k})
  <2>1. /\ rules \in Seq(Rule)
        /\ \A i \in DOMAIN rules : rules[i] \in Rule
        /\ \A i \in DOMAIN rules : Rank(rules[i]) \in Nat /\ Rank(rules[i]) <= 15
    <3>1. \A i \in DOMAIN rules : rules[i] \in Rule
      BY <1>2 DEF TypeOK
    <3>2. ASSUME NEW i \in DOMAIN rules PROVE Rank(rules[i]) \in 4..15
      BY <3>1, RankBounds
    <3> QED
      BY <1>2, <3>1, <3>2 DEF TypeOK
  <2>2. /\ rules' = after /\ rules[k].by = "dispositivo"
        /\ Cuts(rules, q) /\ ~Cuts(after, q)
    BY <1>2 DEF PhoneUndoes, Undo, PhoneMayUndo, Lifts, Blocked
  <2>3. Cuts(House(rules), q)
    BY <1>2, <2>1, HouseRows DEF Lifts, HouseholdCuts, Blocked
  <2>4. /\ DOMAIN after = DOMAIN rules
        /\ \A i \in DOMAIN rules : i # k => after[i] = rules[i]
        /\ after[k].undone
    BY <2>1, UndoneRows
  <2> HIDE DEF q, after
  <2>5. PICK c \in DOMAIN rules :
           /\ rules[c].by # "dispositivo"
           /\ rules[c].action = "cortar" /\ Applies(rules[c], q)
           /\ \A j \in DOMAIN rules : /\ rules[j].by # "dispositivo"
                                      /\ rules[j].action = "permitir" /\ Applies(rules[j], q)
                                      => Rank(rules[j]) < Rank(rules[c])
    <3>1. PICK c \in DOMAIN House(rules) :
             /\ House(rules)[c].action = "cortar"
             /\ Applies(House(rules)[c], q)
             /\ \A j \in DOMAIN House(rules) :
                   House(rules)[j].action = "permitir" /\ Applies(House(rules)[j], q)
                      => Rank(House(rules)[j]) < Rank(House(rules)[c])
      BY <2>3 DEF Cuts
    <3>2. c \in DOMAIN rules /\ rules[c].by # "dispositivo" /\ House(rules)[c] = rules[c]
      BY <2>1, <3>1, HouseRows DEF Applies
    <3> QED
      BY <2>1, <3>1, <3>2, HouseRows
  <2>6. ASSUME NEW j \in DOMAIN rules, rules[j].by = "dispositivo",
               rules[j].action = "permitir", Applies(rules[j], q)
        PROVE  rules[j].kind # "domain" /\ Rank(rules[j]) < 12
    <3>1. PICK b \in DOMAIN rules : Rank(rules[j]) < Rank(rules[b])
      BY <2>2, <2>6 DEF Cuts
    <3>2. Rank(rules[j]) # 15
      <4>1. /\ Rank(rules[j]) \in Nat
            /\ Rank(rules[b]) \in Nat /\ Rank(rules[b]) <= 15
        BY <2>1
      <4> QED
        BY <3>1, <4>1
    <3>3. rules[j] \in Rule /\ rules[j].scope = "device"
      <4>1. rules[j] \in Rule
        BY <2>1
      <4> QED
        BY <2>6, <4>1 DEF Rule
    <3>4. rules[j].kind # "domain"
      BY <2>6, <3>2, <3>3, RankBounds
    <3>5. Rank(rules[j]) \in 4..15 /\ ~(Rank(rules[j]) >= 12)
      BY <3>3, <3>4, RankBounds
    <3> QED
      BY <3>4, <3>5
  \* A cut of the household no allow outranks is left, whoever undid what.
  <2>7. ASSUME NEW w \in DOMAIN rules, rules[w].by # "dispositivo",
               rules[w].action = "cortar", Applies(rules[w], q),
               \A j \in DOMAIN rules : rules[j].action = "permitir" /\ Applies(rules[j], q)
                                          => Rank(rules[j]) < Rank(rules[w])
        PROVE  FALSE
    <3>1. w \in DOMAIN after /\ after[w] = rules[w]
      BY <2>2, <2>4, <2>7
    <3>2. ASSUME NEW j \in DOMAIN after, after[j].action = "permitir", Applies(after[j], q)
          PROVE  Rank(after[j]) < Rank(after[w])
      <4>1. j # k /\ after[j] = rules[j]
        BY <2>4, <3>2 DEF Applies
      <4> QED
        BY <2>4, <2>7, <3>1, <3>2, <4>1
    <3> QED
      BY <2>2, <2>7, <3>1, <3>2 DEF Cuts
  <2>8. WidelyAllowed(d, n)
    <3> SUFFICES ASSUME ~WidelyAllowed(d, n) PROVE FALSE
      OBVIOUS
    <3>1. ASSUME NEW j \in DOMAIN rules, rules[j].action = "permitir", Applies(rules[j], q)
          PROVE  rules[j].by # "dispositivo"
      BY <2>6, <3>1 DEF WidelyAllowed, q
    <3> QED
      BY <2>5, <2>7, <3>1
  <2>9. ~CutByItsName(d, n)
    <3> SUFFICES ASSUME NEW e \in DOMAIN rules, rules[e].by # "dispositivo",
                        rules[e].action = "cortar", rules[e].kind = "domain",
                        Applies(rules[e], q)
                 PROVE  FALSE
      BY DEF CutByItsName, q
    <3>1. Rank(rules[e]) >= 12
      BY <2>1, RankBounds
    <3>2. CASE Rank(rules[c]) >= 12
      <4>1. ASSUME NEW j \in DOMAIN rules, rules[j].action = "permitir", Applies(rules[j], q)
            PROVE  Rank(rules[j]) < Rank(rules[c])
        <5>1. Rank(rules[j]) < Rank(rules[c]) \/ Rank(rules[j]) < 12
          BY <2>5, <2>6, <4>1
        <5>2. Rank(rules[j]) \in Nat /\ Rank(rules[c]) \in Nat
          BY <2>1
        <5> QED
          BY <3>2, <5>1, <5>2
      <4> QED
        BY <2>5, <2>7, <4>1
    <3>3. CASE Rank(rules[c]) < 12
      <4>1. ASSUME NEW j \in DOMAIN rules, rules[j].action = "permitir", Applies(rules[j], q)
            PROVE  Rank(rules[j]) < Rank(rules[e])
        <5>1. Rank(rules[j]) < Rank(rules[c]) \/ Rank(rules[j]) < 12
          BY <2>5, <2>6, <4>1
        <5>2. /\ Rank(rules[j]) \in Nat /\ Rank(rules[c]) \in Nat
              /\ Rank(rules[e]) \in Nat
          BY <2>1
        <5> QED
          BY <3>1, <3>3, <5>1, <5>2
      <4> QED
        BY <2>7, <4>1
    <3>4. Rank(rules[c]) \in Nat
      BY <2>1
    <3> QED
      BY <3>2, <3>3, <3>4
  <2> QED
    BY <2>8, <2>9
<1>3. TypeOK /\ LookStands
      => /\ \A c \in Calls : PageInserts(c) /\ ~calls[c].late =>
               LET r == calls[c].row
               IN  \A n \in Names : Lifts(r.device, n) =>
                      r.kind # "domain" /\ r.pattern # n /\ ~CutByItsName(r.device, n)
         /\ \A d \in Devices, i \in DOMAIN rules : PhoneUndoes(d, i) =>
               \A n \in Names : Lifts(d, n) => WidelyAllowed(d, n) /\ ~CutByItsName(d, n)
  BY <1>1, <1>2
<1> QED
  BY <1>3, TypeCorrect, LookAlwaysStands, PTL DEF PageLiftsNothing

=============================================================================
