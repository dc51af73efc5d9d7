---------------------------- MODULE RelayProofs ----------------------------
(***************************************************************************)
(* What holds of the relay for any ends, rooms, limits and broken links:   *)
(* the types, that a TURN request for a room that keeps its place is never *)
(* told NO, and that the count of a room is that of its bridges.           *)
(***************************************************************************)
EXTENDS Relay, FiniteSetTheorems, TLAPS

USE SalasAssumption, ScenariosAssumption

(***************************************************************************)
(* Lemmas about the tables.                                                *)
(***************************************************************************)
LEMMA WithoutType ==
    ASSUME NEW table, IsTable(table), NEW r
    PROVE  IsTable(Without(table, r)) /\ DOMAIN Without(table, r) = DOMAIN table \ {r}
  BY DEF IsTable, Without, Restrict

LEMMA WithType ==
    ASSUME NEW table, IsTable(table), NEW r \in Rooms, NEW c \in Conns
    PROVE  IsTable(With(table, r, c)) /\ DOMAIN With(table, r, c) = DOMAIN table \cup {r}
  BY DEF IsTable, With

LEMMA FreshType ==
    ASSUME NEW table, IsTable(table)
    PROVE  IsTable(Fresh(table)) /\ DOMAIN Fresh(table) \subseteq DOMAIN table
  BY DEF IsTable, Fresh, Restrict

LEMMA OlderType ==
    ASSUME NEW table, IsTable(table), NEW r \in DOMAIN table, table[r].age < 2
    PROVE  IsTable(Older(table, r)) /\ DOMAIN Older(table, r) = DOMAIN table
  <1> DEFINE one == [table[r] EXCEPT !.age = @ + 1]
  <1>1. table[r] \in [link : Conns, age : 0 .. 2]
    BY DEF IsTable
  <1>2. one \in [link : Conns, age : 0 .. 2]
    BY <1>1
  <1>3. Older(table, r) = [table EXCEPT ![r] = one]
    BY DEF Older
  <1> QED BY <1>2, <1>3 DEF IsTable

LEMMA CloseType ==
    ASSUME TypeOK, NEW S, Close(S)
    PROVE  cur' \in [Ends -> Conns \cup {None}] /\ dead' \subseteq Conns
  BY DEF TypeOK, Close

LEMMA RoomType ==
    ASSUME TypeOK, NEW c \in Conns
    PROVE  Room(c) \in Rooms
  <1>1. who \in [Ends -> [kind : {"computer", "owner", "phone"}, room : Rooms]]
    BY DEF TypeOK
  <1>2. c[1] \in Ends
    BY DEF Conns
  <1> QED BY <1>1, <1>2 DEF Room

LEMMA BridgeKeepsType ==
    ASSUME TypeOK, NEW a \in Conns, NEW b \in Conns, NEW r \in Rooms, Bridge(a, b, r)
    PROVE  /\ bridges' \subseteq BridgeType
           /\ activas' \in [Rooms -> Nat]
           /\ \A x \in Rooms : activas'[x] >= activas[x]
  <1>1. Counts(r) \in BOOLEAN
    BY DEF Counts
  <1>2. bridges' \subseteq BridgeType
    BY <1>1 DEF TypeOK, Bridge, BridgeType
  <1>3. activas \in [Rooms -> Nat]
    BY DEF TypeOK
  <1>4. CASE Counts(r)
    <2>1. activas' = [activas EXCEPT ![r] = @ + 1]
      BY <1>4 DEF Bridge, Enter
    <2> QED BY <1>2, <1>3, <2>1
  <1>5. CASE ~Counts(r)
    <2>1. activas' = activas
      BY <1>5 DEF Bridge, Enter
    <2> QED BY <1>2, <1>3, <2>1
  <1> QED BY <1>4, <1>5

LEMMA TakeDownType ==
    ASSUME TypeOK, NEW b \in bridges, TakeDown(b)
    PROVE  /\ bridges' \subseteq BridgeType
           /\ activas' \in [Rooms -> Nat]
           /\ cur' \in [Ends -> Conns \cup {None}] /\ dead' \subseteq Conns
  <1>1. cur' \in [Ends -> Conns \cup {None}] /\ dead' \subseteq Conns
    BY CloseType DEF TakeDown
  <1>2. bridges' \subseteq BridgeType
    BY DEF TypeOK, TakeDown
  <1>3. activas \in [Rooms -> Nat] /\ b.room \in Rooms
    BY DEF TypeOK, BridgeType
  <1>4. activas' \in [Rooms -> Nat]
    BY <1>3 DEF TakeDown, Leave
  <1> QED BY <1>1, <1>2, <1>4

LEMMA SaysType ==
    ASSUME TypeOK, NEW b \in bridges, NEW c, NEW next \in {"second", "flow"}, Says(b, c, next)
    PROVE  bridges' \subseteq BridgeType
  <1>1. b \in BridgeType
    BY DEF TypeOK
  <1>2. [b EXCEPT !.step = next] \in BridgeType
    BY <1>1 DEF BridgeType
  <1> QED BY <1>2 DEF TypeOK, Says
-----------------------------------------------------------------------------
(***************************************************************************)
(* What one step of each kind keeps.  MayLose and MayGain say how a step   *)
(* may move the places of a room: no bridge ends in a step that touches    *)
(* the tables, and no room enters the computers' table in a step that      *)
(* touches the rest.                                                       *)
(***************************************************************************)
LoseAlone(r) == activas'[r] < activas[r] => UNCHANGED tables
GainAlone(r) ==
    r \in DOMAIN esperando' \ DOMAIN esperando => UNCHANGED <<moviles, activas>>

Moves == \A r \in Rooms : LoseAlone(r) /\ GainAlone(r)

CoreType ==
    /\ who' \in Scenarios
    /\ there' \in [Ends -> {"away", "in", "out"}]
    /\ cur' \in [Ends -> Conns \cup {None}]
    /\ drops' \in 0 .. MaxDrops
    /\ line' \subseteq Conns /\ dead' \subseteq Conns
    /\ IsTable(esperando)' /\ IsTable(moviles)'
    /\ bridges' \subseteq BridgeType
    /\ activas' \in [Rooms -> Nat]
    /\ ask' \in [at : {"idle", "esperando", "moviles", "activas", "answer"},
                 found : BOOLEAN]

LEMMA EndsStep ==
    ASSUME TypeOK, NEW e \in Ends, Come(e) \/ Knock(e) \/ Break(e) \/ GiveUp(e)
    PROVE  CoreType /\ UNCHANGED <<tables, activas, ask>>
  <1>1. CASE Come(e)
    BY <1>1 DEF Come, TypeOK, CoreType, ends, tables, IsTable
  <1>2. CASE Knock(e)
    <2>1. PICK n \in 1 .. MaxDrops + 1 :
            cur' = [cur EXCEPT ![e] = <<e, n>>] /\ line' = line \cup {<<e, n>>}
      BY <1>2 DEF Knock
    <2>2. <<e, n>> \in Conns
      BY DEF Conns
    <2> QED BY <1>2, <2>1, <2>2 DEF Knock, TypeOK, CoreType, tables, IsTable
  <1>3. CASE Break(e)
    <2>1. cur[e] \in Conns
      BY <1>3 DEF Break, TypeOK
    <2>2. drops' \in 0 .. MaxDrops
      BY <1>3 DEF Break, TypeOK
    <2> QED BY <1>3, <2>1, <2>2 DEF Break, TypeOK, CoreType, tables, IsTable
  <1>4. CASE GiveUp(e)
    <2>1. {cur[e]} \ {None} \subseteq Conns
      BY DEF TypeOK
    <2> QED BY <1>4, <2>1 DEF GiveUp, TypeOK, CoreType, tables, IsTable
  <1> QED BY <1>1, <1>2, <1>3, <1>4

LEMMA MeetStep ==
    ASSUME TypeOK, NEW c \in Conns, Meet(c)
    PROVE  CoreType /\ Moves /\ ask' = ask
  <1> DEFINE r == Room(c)
  <1>1. r \in Rooms
    BY RoomType
  <1>2. IsTable(moviles)' /\ line' \subseteq Conns
    BY DEF Meet, TypeOK, IsTable
  <1>3. CASE r \in DOMAIN esperando
    <2>1. /\ esperando' = Without(esperando, r)
          /\ Bridge(esperando[r].link, c, r)
          /\ cur' = cur /\ dead' = dead
      BY <1>3 DEF Meet
    <2>2. IsTable(esperando)' /\ DOMAIN esperando' = DOMAIN esperando \ {r}
      BY <2>1, WithoutType DEF TypeOK, IsTable
    <2>3. esperando[r].link \in Conns
      BY <1>3 DEF TypeOK, IsTable
    <2>4. /\ bridges' \subseteq BridgeType /\ activas' \in [Rooms -> Nat]
          /\ \A x \in Rooms : activas'[x] >= activas[x]
      BY <1>1, <2>1, <2>3, BridgeKeepsType
    <2>5. Moves
      <3>1. activas \in [Rooms -> Nat]
        BY DEF TypeOK
      <3> QED BY <2>2, <2>4, <3>1 DEF Moves, LoseAlone, GainAlone
    <2> QED BY <1>2, <2>1, <2>2, <2>4, <2>5 DEF Meet, TypeOK, CoreType
  <1>4. CASE /\ esperando' = With(esperando, r, c) /\ moviles' = moviles
             /\ UNCHANGED <<cur, dead, bridges, activas>>
    <2>1. IsTable(esperando)'
      BY <1>1, <1>4, WithType DEF TypeOK, IsTable
    <2> QED BY <1>2, <1>4, <2>1 DEF Meet, TypeOK, CoreType, Moves, LoseAlone, GainAlone
  <1>5. CASE Close({c}) /\ UNCHANGED <<esperando, moviles, bridges, activas>>
    <2>1. cur' \in [Ends -> Conns \cup {None}] /\ dead' \subseteq Conns
      BY <1>5, CloseType
    <2>2. IsTable(esperando)'
      BY <1>5 DEF TypeOK, IsTable
    <2> QED BY <1>2, <1>5, <2>1, <2>2
            DEF Meet, TypeOK, CoreType, Moves, LoseAlone, GainAlone, tables
  <1> QED BY <1>3, <1>4, <1>5 DEF Meet

LEMMA MeetPhoneStep ==
    ASSUME TypeOK, NEW c \in Conns, MeetPhone(c)
    PROVE  CoreType /\ Moves /\ ask' = ask
  <1> DEFINE r == Room(c)
             rest == Without(moviles, r)
             before == {moviles[x].link : x \in DOMAIN moviles \cap {r}}
  <1>1. r \in Rooms
    BY RoomType
  <1>2. IsTable(rest) /\ line' \subseteq Conns /\ esperando' = esperando /\ ask' = ask
    BY WithoutType DEF MeetPhone, TypeOK
  <1>3. /\ who' = who /\ there' = there /\ drops' = drops
    BY DEF MeetPhone
  <1>4. activas \in [Rooms -> Nat] /\ IsTable(esperando)'
    BY <1>2 DEF TypeOK, IsTable
  <1>5. CASE Pairs(c, r) /\ moviles' = rest /\ UNCHANGED <<cur, dead>>
             /\ LET d == moviles[r].link
                IN  IF Kind(c) = "owner" THEN Bridge(c, d, r) ELSE Bridge(d, c, r)
    <2>1. moviles[r].link \in Conns
      BY <1>5 DEF Pairs, TypeOK, IsTable
    <2>2. /\ bridges' \subseteq BridgeType /\ activas' \in [Rooms -> Nat]
          /\ \A x \in Rooms : activas'[x] >= activas[x]
      <3>1. CASE Kind(c) = "owner"
        BY <1>1, <1>5, <2>1, <3>1, BridgeKeepsType
      <3>2. CASE Kind(c) # "owner"
        BY <1>1, <1>5, <2>1, <3>2, BridgeKeepsType
      <3> QED BY <3>1, <3>2
    <2>3. Moves
      BY <1>2, <1>4, <2>2 DEF Moves, LoseAlone, GainAlone
    <2>4. IsTable(moviles)'
      BY <1>2, <1>5 DEF IsTable
    <2> QED BY <1>2, <1>3, <1>4, <1>5, <2>2, <2>3, <2>4 DEF TypeOK, CoreType
  <1>6. CASE /\ moviles' = With(rest, r, c)
             /\ Close(before) /\ UNCHANGED <<bridges, activas>>
    <2>1. IsTable(moviles)'
      BY <1>1, <1>2, <1>6, WithType DEF IsTable
    <2>2. cur' \in [Ends -> Conns \cup {None}] /\ dead' \subseteq Conns
      BY <1>6, CloseType
    <2> QED BY <1>2, <1>3, <1>4, <1>6, <2>1, <2>2
            DEF TypeOK, CoreType, Moves, LoseAlone, GainAlone
  <1>7. CASE /\ moviles' = rest
             /\ Close(before \cup {c}) /\ UNCHANGED <<bridges, activas>>
    <2>1. IsTable(moviles)'
      BY <1>2, <1>7 DEF IsTable
    <2>2. cur' \in [Ends -> Conns \cup {None}] /\ dead' \subseteq Conns
      BY <1>7, CloseType
    <2> QED BY <1>2, <1>3, <1>4, <1>7, <2>1, <2>2
            DEF TypeOK, CoreType, Moves, LoseAlone, GainAlone
  <1> QED BY <1>5, <1>6, <1>7 DEF MeetPhone

LEMMA BridgeStep ==
    ASSUME TypeOK, NEW b \in bridges, TellFirst(b) \/ TellSecond(b) \/ CopyEnds(b)
    PROVE  CoreType /\ Moves /\ ask' = ask
  <1>1. UNCHANGED <<who, there, drops, line, tables, ask>>
    BY DEF TellFirst, TellSecond, CopyEnds
  <1>2. IsTable(esperando)' /\ IsTable(moviles)'
    BY <1>1 DEF TypeOK, tables, IsTable
  <1>3. CASE TakeDown(b)
    BY <1>1, <1>2, <1>3, TakeDownType
       DEF TypeOK, CoreType, Moves, LoseAlone, GainAlone, tables
  <1>4. CASE \E c : \E next \in {"second", "flow"} : Says(b, c, next)
    <2>1. bridges' \subseteq BridgeType
      BY <1>4, SaysType
    <2>2. UNCHANGED <<cur, dead, activas>>
      BY <1>4 DEF Says
    <2> QED BY <1>1, <1>2, <2>1, <2>2
            DEF TypeOK, CoreType, Moves, LoseAlone, GainAlone, tables
  <1> QED BY <1>3, <1>4 DEF TellFirst, TellSecond, CopyEnds

LEMMA TimeStep ==
    ASSUME TypeOK, SweepComputers \/ SweepPhones \/ (\E r \in Rooms : Wait(r))
    PROVE  CoreType /\ Moves /\ ask' = ask
  <1>1. CASE SweepComputers
    <2>1. IsTable(esperando)' /\ DOMAIN esperando' \subseteq DOMAIN esperando
      BY <1>1, FreshType DEF SweepComputers, TypeOK, IsTable
    <2>2. cur' \in [Ends -> Conns \cup {None}] /\ dead' \subseteq Conns
      BY <1>1, CloseType DEF SweepComputers
    <2> QED BY <1>1, <2>1, <2>2
            DEF SweepComputers, TypeOK, CoreType, Moves, LoseAlone, GainAlone, IsTable
  <1>2. CASE SweepPhones
    <2>1. IsTable(moviles)'
      BY <1>2, FreshType DEF SweepPhones, TypeOK, IsTable
    <2>2. cur' \in [Ends -> Conns \cup {None}] /\ dead' \subseteq Conns
      BY <1>2, CloseType DEF SweepPhones
    <2> QED BY <1>2, <2>1, <2>2
            DEF SweepPhones, TypeOK, CoreType, Moves, LoseAlone, GainAlone, IsTable
  <1>3. ASSUME NEW r \in Rooms, Wait(r)
        PROVE  CoreType /\ Moves /\ ask' = ask
    <2>1. UNCHANGED <<ends, line, dead, bridges, activas, ask>>
      BY <1>3 DEF Wait
    <2>2. /\ IsTable(esperando)' /\ DOMAIN esperando' = DOMAIN esperando
          /\ IsTable(moviles)'
      <3>1. CASE /\ r \in DOMAIN esperando /\ esperando[r].age < 2
                 /\ esperando' = Older(esperando, r) /\ moviles' = moviles
        BY <3>1, OlderType DEF TypeOK, IsTable
      <3>2. CASE /\ r \in DOMAIN moviles /\ moviles[r].age < 2
                 /\ moviles' = Older(moviles, r) /\ esperando' = esperando
        BY <3>2, OlderType DEF TypeOK, IsTable
      <3> QED BY <1>3, <3>1, <3>2 DEF Wait
    <2> QED BY <2>1, <2>2 DEF TypeOK, CoreType, Moves, LoseAlone, GainAlone, ends
  <1> QED BY <1>1, <1>2, <1>3

LEMMA AskStep ==
    ASSUME TypeOK, Ask \/ AskComputers \/ AskPhones \/ AskBridges \/ Answer
    PROVE  CoreType /\ Moves
  <1>1. UNCHANGED <<ends, line, dead, tables, bridges, activas>>
    BY DEF Ask, AskComputers, AskPhones, AskBridges, Answer, AskNext
  <1>2. ask' \in [at : {"idle", "esperando", "moviles", "activas", "answer"}, found : BOOLEAN]
    BY DEF Ask, AskComputers, AskPhones, AskBridges, Answer, AskNext, TypeOK
  <1> QED BY <1>1, <1>2
          DEF TypeOK, CoreType, Moves, LoseAlone, GainAlone, ends, tables, IsTable
-----------------------------------------------------------------------------
(***************************************************************************)
(* The request, seen from inside: what "steady" is worth at each of its    *)
(* steps.  While the room keeps its places, the part of them not read yet  *)
(* is never empty.                                                         *)
(***************************************************************************)
Later(at) ==
    CASE at = "esperando" -> Places(Asked) > 0
      [] at = "moviles" -> Asked \in DOMAIN moviles \/ activas[Asked] > 0
      [] at = "activas" -> activas[Asked] > 0
      [] at = "answer" -> FALSE
      [] OTHER -> TRUE

TurnInv == ~ask.found /\ seen = "steady" => Later(ask.at)

IInv == TypeOK /\ TurnInv

LEMMA SeenType ==
    ASSUME Remember, seen \in {"steady", "known", "lost"}
    PROVE  seen' \in {"steady", "known", "lost"}
  BY DEF Remember, Worse

(***************************************************************************)
(* A request that stays steady across a step was steady before it, and its *)
(* room holds at least as many places after it, and one at least.          *)
(***************************************************************************)
LEMMA SteadyBack ==
    ASSUME TypeOK, CoreType, Remember, ask.at # "idle", ask'.at # "idle",
           ~ask'.found, seen' = "steady"
    PROVE  seen = "steady" /\ Places(Asked)' >= Places(Asked) /\ Places(Asked)' > 0
  <1>1. Places(Asked) \in Nat /\ Places(Asked)' \in Nat
    BY SalasAssumption DEF TypeOK, CoreType, Places
  <1>2. Worse(seen, Places(Asked), Places(Asked)') = "steady"
    BY DEF Remember
  <1> QED BY <1>1, <1>2 DEF Worse, TypeOK

LEMMA QuietStep ==
    ASSUME IInv, CoreType, Moves, ask' = ask, Remember
    PROVE  TurnInv'
  <1> SUFFICES ASSUME ~ask'.found, seen' = "steady"
               PROVE  Later(ask.at)'
    BY DEF TurnInv
  <1>1. CASE ask.at = "idle"
    BY <1>1 DEF Later
  <1>2. CASE ask.at # "idle"
    <2>1. seen = "steady" /\ Places(Asked)' >= Places(Asked) /\ Places(Asked)' > 0
      BY <1>2, SteadyBack DEF IInv
    <2>2. Later(ask.at)
      BY <2>1 DEF IInv, TurnInv
    <2>3. activas[Asked] \in Nat /\ activas'[Asked] \in Nat
      BY SalasAssumption DEF IInv, TypeOK, CoreType
    <2>4. LoseAlone(Asked) /\ GainAlone(Asked)
      BY SalasAssumption DEF Moves
    <2>5. CASE ask.at = "esperando"
      BY <2>1, <2>5 DEF Later
    <2>6. CASE ask.at = "moviles"
      <3>1. Asked \in DOMAIN moviles' \/ activas'[Asked] > 0
        BY <2>1, <2>2, <2>3, <2>4, <2>6 DEF Later, LoseAlone, GainAlone, Places, tables
      <3> QED BY <3>1, <2>6 DEF Later
    <2>7. CASE ask.at = "activas"
      <3>1. activas'[Asked] > 0
        BY <2>1, <2>2, <2>3, <2>4, <2>7 DEF Later, LoseAlone, Places, tables
      <3> QED BY <3>1, <2>7 DEF Later
    <2>8. ask.at # "answer"
      BY <2>2 DEF Later
    <2> QED BY <1>2, <2>5, <2>6, <2>7, <2>8 DEF IInv, TypeOK
  <1> QED BY <1>1, <1>2

LEMMA ReadStep ==
    ASSUME IInv, CoreType, Remember,
           Ask \/ AskComputers \/ AskPhones \/ AskBridges \/ Answer
    PROVE  TurnInv'
  <1>1. UNCHANGED <<tables, activas>>
    BY DEF Ask, AskComputers, AskPhones, AskBridges, Answer, AskNext
  <1>2. Places(Asked)' = Places(Asked)
    BY <1>1 DEF Places, tables
  <1>3. Places(Asked) \in Nat /\ activas[Asked] \in Nat
    BY SalasAssumption DEF IInv, TypeOK, Places
  <1> SUFFICES ASSUME ~ask'.found, seen' = "steady"
               PROVE  Later(ask.at)'
    BY DEF TurnInv
  <1>4. CASE Ask
    <2>1. ask'.at = "esperando" /\ ask.at = "idle"
      BY <1>4 DEF Ask, IInv, TypeOK
    <2>2. Places(Asked)' > 0
      BY <1>2, <1>3, <2>1 DEF Remember, Worse
    <2> QED BY <2>1, <2>2 DEF Later
  <1>5. CASE AskComputers
    <2>1. /\ ask.at = "esperando" /\ ask'.at = "moviles"
          /\ ~ask.found /\ Asked \notin DOMAIN esperando
      BY <1>5 DEF AskComputers, AskNext, IInv, TypeOK
    <2>2. Places(Asked)' > 0
      BY <2>1, SteadyBack DEF IInv
    <2> QED BY <1>1, <1>2, <1>3, <2>1, <2>2 DEF Later, Places, tables
  <1>6. CASE AskPhones
    <2>1. /\ ask.at = "moviles" /\ ask'.at = "activas"
          /\ ~ask.found /\ Asked \notin DOMAIN moviles
      BY <1>6 DEF AskPhones, AskNext, IInv, TypeOK
    <2>2. seen = "steady"
      BY <2>1, SteadyBack DEF IInv
    <2> QED BY <1>1, <2>1, <2>2 DEF Later, IInv, TurnInv
  <1>7. CASE AskBridges
    <2>1. /\ ask.at = "activas" /\ ask'.at = "answer"
          /\ ~ask.found /\ ~(activas[Asked] > 0)
      BY <1>7 DEF AskBridges, AskNext, IInv, TypeOK
    <2>2. seen = "steady"
      BY <2>1, SteadyBack DEF IInv
    <2> QED BY <2>1, <2>2 DEF Later, IInv, TurnInv
  <1>8. CASE Answer
    BY <1>8 DEF Answer, Later, IInv, TypeOK
  <1> QED BY <1>4, <1>5, <1>6, <1>7, <1>8

LEMMA StepKeeps ==
    ASSUME IInv, [Next]_vars
    PROVE  IInv'
  <1>1. CASE Next
    <2>1. Remember
      BY <1>1 DEF Next
    <2>2. CoreType => TypeOK'
      BY <2>1, SeenType DEF CoreType, TypeOK, IInv
    <2>3. ASSUME CoreType, Moves, ask' = ask
          PROVE  IInv'
      BY <2>1, <2>2, <2>3, QuietStep DEF IInv
    <2>4. ASSUME NEW e \in Ends, Come(e) \/ Knock(e) \/ Break(e) \/ GiveUp(e)
          PROVE  IInv'
      <3>1. CoreType /\ UNCHANGED <<tables, activas, ask>>
        BY <2>4, EndsStep DEF IInv
      <3>2. Moves
        BY <3>1 DEF Moves, LoseAlone, GainAlone, tables, IInv, TypeOK
      <3> QED BY <2>3, <3>1, <3>2
    <2>5. ASSUME NEW c \in Conns, Meet(c) \/ MeetPhone(c)
          PROVE  IInv'
      BY <2>3, <2>5, MeetStep, MeetPhoneStep DEF IInv
    <2>6. ASSUME NEW b \in bridges, TellFirst(b) \/ TellSecond(b) \/ CopyEnds(b)
          PROVE  IInv'
      BY <2>3, <2>6, BridgeStep DEF IInv
    <2>7. ASSUME SweepComputers \/ SweepPhones \/ (\E r \in Rooms : Wait(r))
          PROVE  IInv'
      BY <2>3, <2>7, TimeStep DEF IInv
    <2>8. ASSUME Ask \/ AskComputers \/ AskPhones \/ AskBridges \/ Answer
          PROVE  IInv'
      BY <2>1, <2>2, <2>8, AskStep, ReadStep DEF IInv
    <2> QED BY <1>1, <2>4, <2>5, <2>6, <2>7, <2>8 DEF Next, Step
  <1>2. CASE UNCHANGED vars
    BY <1>2 DEF vars, ends, tables, IInv, TypeOK, IsTable, TurnInv, Later, Places
  <1> QED BY <1>1, <1>2

LEMMA InitHolds ==
    ASSUME Init
    PROVE  IInv
  <1>1. IsTable(<<>>)
    BY DEF IsTable
  <1>2. TypeOK
    BY <1>1, SalasAssumption DEF Init, TypeOK
  <1>3. TurnInv
    BY DEF Init, TurnInv, Later
  <1> QED BY <1>2, <1>3 DEF IInv

(***************************************************************************)
(* Whatever the ends do, the tables, the bridges and the counts keep their *)
(* types: a count never goes below zero (lib.rs:121-135).                  *)
(***************************************************************************)
THEOREM TypeCorrect == Spec => []TypeOK
  <1>1. Init => IInv
    BY InitHolds
  <1>2. IInv /\ [Next]_vars => IInv'
    BY StepKeeps
  <1>3. IInv => TypeOK
    BY DEF IInv
  <1> QED BY <1>1, <1>2, <1>3, PTL DEF Spec

(***************************************************************************)
(* A request for a room that holds a place from its beginning to its end   *)
(* and gives none up meanwhile is told OK (lib.rs:439-460): the inductive  *)
(* fact is that the tables still to be read hold one.                      *)
(***************************************************************************)
THEOREM SteadyRoomIsTold == Spec => []TurnSeesSteadyRoom
  <1>1. Init => IInv
    BY InitHolds
  <1>2. IInv /\ [Next]_vars => IInv'
    BY StepKeeps
  <1>3. IInv => TurnSeesSteadyRoom
    BY DEF IInv, TurnInv, TurnSeesSteadyRoom, Later
  <1> QED BY <1>1, <1>2, <1>3, PTL DEF Spec
-----------------------------------------------------------------------------
(***************************************************************************)
(* Where a link is: on its way to a table, in one of them, or in a bridge, *)
(* and nowhere twice.                                                      *)
(***************************************************************************)
Apart ==
    /\ line \cap (Waiting(esperando) \cup Waiting(moviles) \cup InBridge) = {}
    /\ Waiting(esperando) \cap (Waiting(moviles) \cup InBridge) = {}
    /\ Waiting(moviles) \cap InBridge = {}

OneEach(table) == \A r, s \in DOMAIN table : table[r].link = table[s].link => r = s

BridgesApart == \A b, d \in bridges : b.one = d.one => b = d

PlaceInv == Apart /\ OneEach(esperando) /\ OneEach(moviles) /\ BridgesApart

LEMMA WaitingWithout ==
    ASSUME NEW table, OneEach(table), NEW r
    PROVE  /\ OneEach(Without(table, r))
           /\ Waiting(Without(table, r)) \subseteq Waiting(table)
           /\ r \in DOMAIN table =>
                table[r].link \in Waiting(table) \ Waiting(Without(table, r))
  BY DEF OneEach, Without, Restrict, Waiting

LEMMA WaitingWith ==
    ASSUME NEW table, OneEach(table), NEW r, NEW c, r \notin DOMAIN table, c \notin Waiting(table)
    PROVE  /\ OneEach(With(table, r, c))
           /\ Waiting(With(table, r, c)) \subseteq Waiting(table) \cup {c}
  BY DEF OneEach, With, Waiting

LEMMA WaitingFresh ==
    ASSUME NEW table, OneEach(table)
    PROVE  OneEach(Fresh(table)) /\ Waiting(Fresh(table)) \subseteq Waiting(table)
  BY DEF OneEach, Fresh, Restrict, Waiting

LEMMA WaitingOlder ==
    ASSUME NEW table, IsTable(table), OneEach(table), NEW r \in DOMAIN table
    PROVE  OneEach(Older(table, r)) /\ Waiting(Older(table, r)) = Waiting(table)
  <1>1. /\ DOMAIN Older(table, r) = DOMAIN table
        /\ \A x \in DOMAIN table : Older(table, r)[x].link = table[x].link
    BY DEF IsTable, Older
  <1> QED BY <1>1 DEF OneEach, Waiting

(***************************************************************************)
(* A bridge begins with two links that were in none, and ends with both.   *)
(***************************************************************************)
LEMMA BridgePlaces ==
    ASSUME NEW a, NEW b, NEW r, Bridge(a, b, r), BridgesApart, a \notin InBridge
    PROVE  BridgesApart' /\ InBridge' = InBridge \cup {a, b}
  <1> DEFINE new == [one |-> a, two |-> b, room |-> r, counted |-> Counts(r), step |-> "first"]
  <1>1. bridges' = bridges \cup {new} /\ new.one = a /\ new.two = b
    BY DEF Bridge
  <1>2. \A d \in bridges : d.one # a
    BY DEF InBridge
  <1> HIDE DEF new
  <1>3. BridgesApart'
    BY <1>1, <1>2 DEF BridgesApart
  <1>4. InBridge' = InBridge \cup {a, b}
    BY <1>1 DEF InBridge
  <1> QED BY <1>3, <1>4

LEMMA SaysPlaces ==
    ASSUME TypeOK, NEW b \in bridges, NEW c, NEW next, Says(b, c, next), BridgesApart
    PROVE  BridgesApart' /\ InBridge' = InBridge
  <1> DEFINE new == [b EXCEPT !.step = next]
  <1>1. bridges' = (bridges \ {b}) \cup {new}
    BY DEF Says
  <1>2. new.one = b.one /\ new.two = b.two
    BY DEF TypeOK, BridgeType
  <1> HIDE DEF new
  <1>3. BridgesApart'
    BY <1>1, <1>2 DEF BridgesApart
  <1>4. InBridge' = InBridge
    BY <1>1, <1>2 DEF InBridge
  <1> QED BY <1>3, <1>4

LEMMA TakeDownPlaces ==
    ASSUME NEW b \in bridges, TakeDown(b), BridgesApart
    PROVE  BridgesApart' /\ InBridge' \subseteq InBridge
  BY DEF TakeDown, BridgesApart, InBridge
-----------------------------------------------------------------------------
(***************************************************************************)
(* The counts.                                                             *)
(***************************************************************************)
Counted(r) == {b \in bridges : b.room = r /\ b.counted}

CountInv == IsFiniteSet(bridges) /\ \A r \in Rooms : activas[r] = Cardinality(Counted(r))

LEMMA CountedFinite ==
    ASSUME IsFiniteSet(bridges), NEW r
    PROVE  IsFiniteSet(Counted(r)) /\ Cardinality(Counted(r)) \in Nat
  <1>1. Counted(r) \in SUBSET bridges
    BY DEF Counted
  <1> QED BY <1>1, FS_Subset, FS_CardinalityType

LEMMA BridgeCounted ==
    ASSUME TypeOK, CountInv, NEW a, NEW b, NEW r \in Rooms, Bridge(a, b, r), a \notin InBridge
    PROVE  CountInv'
  <1> DEFINE new == [one |-> a, two |-> b, room |-> r, counted |-> Counts(r), step |-> "first"]
  <1>1. /\ bridges' = bridges \cup {new}
        /\ new.one = a /\ new.room = r /\ new.counted = Counts(r)
    BY DEF Bridge
  <1>2. new \notin bridges
    BY <1>1 DEF InBridge
  <1>3. activas' = IF Counts(r) THEN [activas EXCEPT ![r] = @ + 1] ELSE activas
    BY DEF Bridge, Enter
  <1> HIDE DEF new
  <1>4. IsFiniteSet(bridges')
    BY <1>1, FS_AddElement DEF CountInv
  <1>5. ASSUME NEW x \in Rooms PROVE activas'[x] = Cardinality(Counted(x)')
    <2>1. CASE x = r /\ Counts(r)
      <3>1. Counted(x)' = Counted(x) \cup {new} /\ new \notin Counted(x)
        BY <1>1, <1>2, <2>1 DEF Counted
      <3>2. Cardinality(Counted(x)') = Cardinality(Counted(x)) + 1
        BY <3>1, CountedFinite, FS_AddElement DEF CountInv
      <3> QED BY <1>3, <2>1, <3>2 DEF CountInv, TypeOK
    <2>2. CASE ~(x = r /\ Counts(r))
      <3>1. Counted(x)' = Counted(x)
        BY <1>1, <2>2 DEF Counted
      <3>2. activas'[x] = activas[x]
        BY <1>3, <2>2 DEF TypeOK
      <3> QED BY <3>1, <3>2 DEF CountInv
    <2> QED BY <2>1, <2>2
  <1> QED BY <1>4, <1>5 DEF CountInv

LEMMA SaysCounted ==
    ASSUME TypeOK, CountInv, BridgesApart, NEW b \in bridges, NEW c, NEW next, Says(b, c, next)
    PROVE  CountInv'
  <1> DEFINE new == [b EXCEPT !.step = next]
  <1>1. bridges' = (bridges \ {b}) \cup {new} /\ activas' = activas
    BY DEF Says
  <1>2. new.one = b.one /\ new.room = b.room /\ new.counted = b.counted
    BY DEF TypeOK, BridgeType
  <1> HIDE DEF new
  <1>3. new \notin bridges \ {b}
    BY <1>2 DEF BridgesApart
  <1>4. IsFiniteSet(bridges')
    BY <1>1, FS_AddElement, FS_RemoveElement DEF CountInv
  <1>5. ASSUME NEW x \in Rooms PROVE Cardinality(Counted(x)') = Cardinality(Counted(x))
    <2>1. CASE b.room = x /\ b.counted
      <3> DEFINE rest == Counted(x) \ {b}
      <3>1. b \in Counted(x) /\ Counted(x)' = rest \cup {new} /\ new \notin rest
        BY <1>1, <1>2, <1>3, <2>1 DEF Counted
      <3>2. IsFiniteSet(rest) /\ Cardinality(rest) = Cardinality(Counted(x)) - 1
        BY <3>1, CountedFinite, FS_RemoveElement DEF CountInv
      <3> HIDE DEF rest
      <3>3. Cardinality(Counted(x)') = Cardinality(rest) + 1
        BY <3>1, <3>2, FS_AddElement
      <3> QED BY <3>2, <3>3, CountedFinite DEF CountInv
    <2>2. CASE ~(b.room = x /\ b.counted)
      <3>1. Counted(x)' = Counted(x)
        BY <1>1, <1>2, <2>2 DEF Counted
      <3> QED BY <3>1
    <2> QED BY <2>1, <2>2
  <1> QED BY <1>1, <1>4, <1>5 DEF CountInv

LEMMA TakeDownCounted ==
    ASSUME TypeOK, CountInv, NEW b \in bridges, TakeDown(b)
    PROVE  CountInv'
  <1>1. /\ bridges' = bridges \ {b}
        /\ activas' = IF b.counted /\ activas[b.room] > 0
                      THEN [activas EXCEPT ![b.room] = @ - 1] ELSE activas
    BY DEF TakeDown, Leave
  <1>2. IsFiniteSet(bridges')
    BY <1>1, FS_RemoveElement DEF CountInv
  <1>3. ASSUME NEW x \in Rooms PROVE activas'[x] = Cardinality(Counted(x)')
    <2>1. CASE b.room = x /\ b.counted
      <3>1. b \in Counted(x) /\ Counted(x)' = Counted(x) \ {b}
        BY <1>1, <2>1 DEF Counted
      <3>2. Cardinality(Counted(x)') = Cardinality(Counted(x)) - 1
        <4> DEFINE C == Counted(x)
        <4>1. IsFiniteSet(C)
          BY CountedFinite DEF CountInv
        <4>2. b \in C /\ Counted(x)' = C \ {b}
          BY <3>1
        <4> HIDE DEF C
        <4>3. Cardinality(C \ {b}) = Cardinality(C) - 1
          BY <4>1, <4>2, FS_RemoveElement
        <4> QED BY <4>2, <4>3 DEF C
      <3>3. activas[x] = Cardinality(Counted(x)) /\ Cardinality(Counted(x)) # 0
        BY <3>1, CountedFinite, FS_EmptySet DEF CountInv
      <3> QED BY <1>1, <2>1, <3>2, <3>3, CountedFinite DEF CountInv, TypeOK
    <2>2. CASE ~(b.room = x /\ b.counted)
      <3>1. Counted(x)' = Counted(x)
        BY <1>1, <2>2 DEF Counted
      <3>2. activas'[x] = activas[x]
        BY <1>1, <2>2 DEF TypeOK
      <3> QED BY <3>1, <3>2 DEF CountInv
    <2> QED BY <2>1, <2>2
  <1> QED BY <1>2, <1>3 DEF CountInv
-----------------------------------------------------------------------------
(***************************************************************************)
(* The steps keep both.                                                    *)
(***************************************************************************)
PlaceIInv == TypeOK /\ PlaceInv /\ CountInv

LEMMA QuietBridges ==
    ASSUME PlaceIInv, UNCHANGED <<bridges, activas>>
    PROVE  CountInv' /\ BridgesApart' /\ InBridge' = InBridge
  BY DEF PlaceIInv, PlaceInv, CountInv, Counted, BridgesApart, InBridge

LEMMA EndsPlaces ==
    ASSUME PlaceIInv, NEW e \in Ends, Come(e) \/ Knock(e) \/ Break(e) \/ GiveUp(e)
    PROVE  PlaceInv' /\ CountInv'
  <1>1. UNCHANGED <<esperando, moviles, bridges, activas>>
    BY DEF Come, Knock, Break, GiveUp, tables
  <1>2. CountInv' /\ BridgesApart' /\ InBridge' = InBridge
    BY <1>1, QuietBridges
  <1>3. /\ OneEach(esperando)' /\ OneEach(moviles)'
        /\ Waiting(esperando)' = Waiting(esperando) /\ Waiting(moviles)' = Waiting(moviles)
    BY <1>1 DEF PlaceIInv, PlaceInv, OneEach, Waiting
  <1>4. \A c \in line' : c \in line \/ c \notin Held
    <2>1. CASE Knock(e)
      <3>1. PICK n \in 1 .. MaxDrops + 1 :
              <<e, n>> \notin Held /\ line' = line \cup {<<e, n>>}
        BY <2>1 DEF Knock
      <3> QED BY <3>1
    <2>2. CASE Come(e) \/ Break(e) \/ GiveUp(e)
      BY <2>2 DEF Come, Break, GiveUp
    <2> QED BY <2>1, <2>2
  <1>5. Apart'
    BY <1>2, <1>3, <1>4 DEF PlaceIInv, PlaceInv, Apart, Held
  <1> QED BY <1>2, <1>3, <1>5 DEF PlaceInv

LEMMA MeetPlaces ==
    ASSUME PlaceIInv, NEW c \in Conns, Meet(c)
    PROVE  PlaceInv' /\ CountInv'
  <1> DEFINE r == Room(c)
  <1>1. c \in line /\ line' = line \ {c} /\ moviles' = moviles /\ r \in Rooms
    BY RoomType DEF Meet, PlaceIInv
  <1>2. OneEach(moviles)' /\ Waiting(moviles)' = Waiting(moviles)
    BY <1>1 DEF PlaceIInv, PlaceInv, OneEach, Waiting
  <1>3. Apart /\ OneEach(esperando) /\ BridgesApart /\ TypeOK /\ CountInv
    BY DEF PlaceIInv, PlaceInv
  <1>4. CASE r \in DOMAIN esperando
    <2> DEFINE a == esperando[r].link
    <2>1. esperando' = Without(esperando, r) /\ Bridge(a, c, r)
      BY <1>4 DEF Meet
    <2>2. OneEach(esperando)' /\ Waiting(esperando)' \subseteq Waiting(esperando) \ {a}
      <3>1. OneEach(Without(esperando, r))
            /\ Waiting(Without(esperando, r)) \subseteq Waiting(esperando)
            /\ a \in Waiting(esperando) \ Waiting(Without(esperando, r))
        BY <1>3, <1>4, WaitingWithout
      <3> QED BY <2>1, <3>1 DEF OneEach, Waiting
    <2>3. a \in Waiting(esperando)
      BY <1>4 DEF Waiting
    <2> HIDE DEF a
    <2>4. a \notin InBridge
      BY <1>3, <2>3 DEF Apart
    <2>5. BridgesApart' /\ InBridge' = InBridge \cup {a, c}
      BY <1>3, <2>1, <2>4, BridgePlaces
    <2>6. CountInv'
      BY <1>1, <1>3, <2>1, <2>4, BridgeCounted
    <2>7. Apart'
      BY <1>1, <1>2, <1>3, <2>2, <2>3, <2>5 DEF Apart
    <2> QED BY <1>2, <2>2, <2>5, <2>6, <2>7 DEF PlaceInv
  <1>5. CASE r \notin DOMAIN esperando /\ esperando' = With(esperando, r, c)
             /\ UNCHANGED <<bridges, activas>>
    <2>1. CountInv' /\ BridgesApart' /\ InBridge' = InBridge
      BY <1>5, QuietBridges
    <2>2. c \notin Waiting(esperando)
      BY <1>1, <1>3 DEF Apart
    <2>3. OneEach(esperando)' /\ Waiting(esperando)' \subseteq Waiting(esperando) \cup {c}
      <3>1. OneEach(With(esperando, r, c))
            /\ Waiting(With(esperando, r, c)) \subseteq Waiting(esperando) \cup {c}
        BY <1>3, <1>5, <2>2, WaitingWith
      <3> QED BY <1>5, <3>1 DEF OneEach, Waiting
    <2>4. Apart'
      BY <1>1, <1>2, <1>3, <2>1, <2>3 DEF Apart
    <2> QED BY <1>2, <2>1, <2>3, <2>4 DEF PlaceInv
  <1>6. CASE UNCHANGED <<esperando, bridges, activas>>
    <2>1. CountInv' /\ BridgesApart' /\ InBridge' = InBridge
      BY <1>6, QuietBridges
    <2>2. OneEach(esperando)' /\ Waiting(esperando)' = Waiting(esperando)
      BY <1>3, <1>6 DEF OneEach, Waiting
    <2>3. Apart'
      BY <1>1, <1>2, <1>3, <2>1, <2>2 DEF Apart
    <2> QED BY <1>2, <2>1, <2>2, <2>3 DEF PlaceInv
  <1> QED BY <1>4, <1>5, <1>6 DEF Meet

LEMMA MeetPhonePlaces ==
    ASSUME PlaceIInv, NEW c \in Conns, MeetPhone(c)
    PROVE  PlaceInv' /\ CountInv'
  <1> DEFINE r == Room(c)
             rest == Without(moviles, r)
  <1>1. c \in line /\ line' = line \ {c} /\ esperando' = esperando /\ r \in Rooms
    BY RoomType DEF MeetPhone, PlaceIInv
  <1>2. OneEach(esperando)' /\ Waiting(esperando)' = Waiting(esperando)
    BY <1>1 DEF PlaceIInv, PlaceInv, OneEach, Waiting
  <1>3. Apart /\ OneEach(moviles) /\ BridgesApart /\ TypeOK /\ CountInv
    BY DEF PlaceIInv, PlaceInv
  <1>4. OneEach(rest) /\ Waiting(rest) \subseteq Waiting(moviles)
    BY <1>3, WaitingWithout
  <1>5. CASE Pairs(c, r) /\ moviles' = rest
             /\ LET d == moviles[r].link
                IN  IF Kind(c) = "owner" THEN Bridge(c, d, r) ELSE Bridge(d, c, r)
    <2> DEFINE d == moviles[r].link
    <2>1. d \in Waiting(moviles) \ Waiting(rest)
      BY <1>3, <1>5, WaitingWithout DEF Pairs
    <2>2. OneEach(moviles)' /\ Waiting(moviles)' = Waiting(rest)
      BY <1>4, <1>5 DEF OneEach, Waiting
    <2>3. Bridge(c, d, r) \/ Bridge(d, c, r)
      BY <1>5
    <2> HIDE DEF d, rest
    <2>4. c \notin InBridge /\ d \notin InBridge
      BY <1>1, <1>3, <2>1 DEF Apart
    <2>5. BridgesApart' /\ InBridge' = InBridge \cup {c, d}
      BY <1>3, <2>3, <2>4, BridgePlaces
    <2>6. CountInv'
      BY <1>1, <1>3, <2>3, <2>4, BridgeCounted
    <2>7. Apart'
      BY <1>1, <1>2, <1>3, <1>4, <2>1, <2>2, <2>5 DEF Apart
    <2> QED BY <1>2, <2>2, <2>5, <2>6, <2>7 DEF PlaceInv
  <1>6. CASE moviles' = With(rest, r, c) /\ UNCHANGED <<bridges, activas>>
    <2>1. CountInv' /\ BridgesApart' /\ InBridge' = InBridge
      BY <1>6, QuietBridges
    <2>2. c \notin Waiting(rest)
      BY <1>1, <1>3, <1>4 DEF Apart
    <2>3. r \notin DOMAIN rest
      BY DEF Without, Restrict
    <2>4. OneEach(moviles)' /\ Waiting(moviles)' \subseteq Waiting(rest) \cup {c}
      <3>1. OneEach(With(rest, r, c))
            /\ Waiting(With(rest, r, c)) \subseteq Waiting(rest) \cup {c}
        BY <1>4, <2>2, <2>3, WaitingWith
      <3> QED BY <1>6, <3>1 DEF OneEach, Waiting
    <2> HIDE DEF rest
    <2>5. Apart'
      BY <1>1, <1>2, <1>3, <1>4, <2>1, <2>4 DEF Apart
    <2> QED BY <1>2, <2>1, <2>4, <2>5 DEF PlaceInv
  <1>7. CASE moviles' = rest /\ UNCHANGED <<bridges, activas>>
    <2>1. CountInv' /\ BridgesApart' /\ InBridge' = InBridge
      BY <1>7, QuietBridges
    <2>2. OneEach(moviles)' /\ Waiting(moviles)' = Waiting(rest)
      BY <1>4, <1>7 DEF OneEach, Waiting
    <2> HIDE DEF rest
    <2>3. Apart'
      BY <1>1, <1>2, <1>3, <1>4, <2>1, <2>2 DEF Apart
    <2> QED BY <1>2, <2>1, <2>2, <2>3 DEF PlaceInv
  <1> QED BY <1>5, <1>6, <1>7 DEF MeetPhone

LEMMA BridgeStepPlaces ==
    ASSUME PlaceIInv, NEW b \in bridges, TellFirst(b) \/ TellSecond(b) \/ CopyEnds(b)
    PROVE  PlaceInv' /\ CountInv'
  <1>1. UNCHANGED <<line, esperando, moviles>>
    BY DEF TellFirst, TellSecond, CopyEnds, tables
  <1>2. /\ OneEach(esperando)' /\ OneEach(moviles)'
        /\ Waiting(esperando)' = Waiting(esperando) /\ Waiting(moviles)' = Waiting(moviles)
    BY <1>1 DEF PlaceIInv, PlaceInv, OneEach, Waiting
  <1>3. BridgesApart /\ TypeOK /\ CountInv
    BY DEF PlaceIInv, PlaceInv
  <1>4. TakeDown(b) \/ \E c, next : Says(b, c, next)
    BY DEF TellFirst, TellSecond, CopyEnds
  <1>5. BridgesApart' /\ InBridge' \subseteq InBridge
    BY <1>3, <1>4, TakeDownPlaces, SaysPlaces
  <1>6. CountInv'
    BY <1>3, <1>4, TakeDownCounted, SaysCounted
  <1>7. Apart'
    BY <1>1, <1>2, <1>5 DEF PlaceIInv, PlaceInv, Apart
  <1> QED BY <1>2, <1>5, <1>6, <1>7 DEF PlaceInv

LEMMA TimePlaces ==
    ASSUME PlaceIInv, SweepComputers \/ SweepPhones \/ (\E r \in Rooms : Wait(r))
    PROVE  PlaceInv' /\ CountInv'
  <1>1. line' = line /\ UNCHANGED <<bridges, activas>>
    BY DEF SweepComputers, SweepPhones, Wait
  <1>2. CountInv' /\ BridgesApart' /\ InBridge' = InBridge
    BY <1>1, QuietBridges
  <1>3. OneEach(esperando) /\ OneEach(moviles) /\ IsTable(esperando) /\ IsTable(moviles)
    BY DEF PlaceIInv, PlaceInv, TypeOK
  <1>4. \/ esperando' = esperando
        \/ esperando' = Fresh(esperando)
        \/ \E r \in DOMAIN esperando : esperando' = Older(esperando, r)
    BY DEF SweepComputers, SweepPhones, Wait
  <1>5. OneEach(esperando)' /\ Waiting(esperando)' \subseteq Waiting(esperando)
    <2>1. CASE esperando' = esperando
      BY <1>3, <2>1 DEF OneEach, Waiting
    <2>2. CASE esperando' = Fresh(esperando)
      <3>1. OneEach(Fresh(esperando)) /\ Waiting(Fresh(esperando)) \subseteq Waiting(esperando)
        BY <1>3, WaitingFresh
      <3> QED BY <2>2, <3>1 DEF OneEach, Waiting
    <2>3. ASSUME NEW r \in DOMAIN esperando, esperando' = Older(esperando, r)
          PROVE  OneEach(esperando)' /\ Waiting(esperando)' \subseteq Waiting(esperando)
      <3>1. OneEach(Older(esperando, r)) /\ Waiting(Older(esperando, r)) = Waiting(esperando)
        BY <1>3, WaitingOlder
      <3> QED BY <2>3, <3>1 DEF OneEach, Waiting
    <2> QED BY <1>4, <2>1, <2>2, <2>3
  <1>6. \/ moviles' = moviles
        \/ moviles' = Fresh(moviles)
        \/ \E r \in DOMAIN moviles : moviles' = Older(moviles, r)
    BY DEF SweepComputers, SweepPhones, Wait
  <1>7. OneEach(moviles)' /\ Waiting(moviles)' \subseteq Waiting(moviles)
    <2>1. CASE moviles' = moviles
      BY <1>3, <2>1 DEF OneEach, Waiting
    <2>2. CASE moviles' = Fresh(moviles)
      <3>1. OneEach(Fresh(moviles)) /\ Waiting(Fresh(moviles)) \subseteq Waiting(moviles)
        BY <1>3, WaitingFresh
      <3> QED BY <2>2, <3>1 DEF OneEach, Waiting
    <2>3. ASSUME NEW r \in DOMAIN moviles, moviles' = Older(moviles, r)
          PROVE  OneEach(moviles)' /\ Waiting(moviles)' \subseteq Waiting(moviles)
      <3>1. OneEach(Older(moviles, r)) /\ Waiting(Older(moviles, r)) = Waiting(moviles)
        BY <1>3, WaitingOlder
      <3> QED BY <2>3, <3>1 DEF OneEach, Waiting
    <2> QED BY <1>6, <2>1, <2>2, <2>3
  <1>8. Apart'
    BY <1>1, <1>2, <1>5, <1>7 DEF PlaceIInv, PlaceInv, Apart
  <1> QED BY <1>2, <1>5, <1>7, <1>8 DEF PlaceInv

LEMMA PlacesStep ==
    ASSUME PlaceIInv, [Next]_vars, TypeOK'
    PROVE  PlaceIInv'
  <1>1. ASSUME UNCHANGED <<line, esperando, moviles, bridges, activas>>
        PROVE  PlaceInv' /\ CountInv'
    <2>1. CountInv' /\ BridgesApart' /\ InBridge' = InBridge
      BY <1>1, QuietBridges
    <2>2. /\ OneEach(esperando)' /\ OneEach(moviles)'
          /\ Waiting(esperando)' = Waiting(esperando) /\ Waiting(moviles)' = Waiting(moviles)
      BY <1>1 DEF PlaceIInv, PlaceInv, OneEach, Waiting
    <2>3. Apart'
      BY <1>1, <2>1, <2>2 DEF PlaceIInv, PlaceInv, Apart
    <2> QED BY <2>1, <2>2, <2>3 DEF PlaceInv
  <1>2. CASE Ask \/ AskComputers \/ AskPhones \/ AskBridges \/ Answer
    BY <1>1, <1>2 DEF Ask, AskComputers, AskPhones, AskBridges, Answer, AskNext, tables, PlaceIInv
  <1>3. CASE UNCHANGED vars
    BY <1>1, <1>3 DEF vars, tables, PlaceIInv
  <1>4. CASE Next
    <2>1. ASSUME NEW e \in Ends, Come(e) \/ Knock(e) \/ Break(e) \/ GiveUp(e)
          PROVE  PlaceInv' /\ CountInv'
      BY <2>1, EndsPlaces
    <2>2. ASSUME NEW c \in Conns, Meet(c) \/ MeetPhone(c)
          PROVE  PlaceInv' /\ CountInv'
      BY <2>2, MeetPlaces, MeetPhonePlaces
    <2>3. ASSUME NEW b \in bridges, TellFirst(b) \/ TellSecond(b) \/ CopyEnds(b)
          PROVE  PlaceInv' /\ CountInv'
      BY <2>3, BridgeStepPlaces
    <2>4. CASE SweepComputers \/ SweepPhones \/ (\E r \in Rooms : Wait(r))
      BY <2>4, TimePlaces DEF PlaceIInv
    <2> QED BY <1>2, <1>4, <2>1, <2>2, <2>3, <2>4 DEF Next, Step, PlaceIInv
  <1> QED BY <1>3, <1>4

(***************************************************************************)
(* Whatever order the bridges of a room begin and end in, and however full *)
(* the table was, its count is that of its counted bridges                 *)
(* (lib.rs:108-135).  What carries it is that a link is in one place only: *)
(* a new bridge is none of those already counted.                          *)
(***************************************************************************)
THEOREM CountsAreBridges == Spec => []CountIsBridges
  <1>1. Init => PlaceIInv
    <2> SUFFICES ASSUME Init PROVE PlaceIInv
      OBVIOUS
    <2>1. TypeOK
      BY InitHolds DEF IInv
    <2>2. PlaceInv
      BY DEF Init, PlaceInv, Apart, OneEach, BridgesApart, Waiting, InBridge
    <2>3. \A r : Counted(r) = {}
      BY DEF Init, Counted
    <2>4. CountInv
      BY <2>3, FS_EmptySet DEF Init, CountInv
    <2> QED BY <2>1, <2>2, <2>4 DEF PlaceIInv
  <1>2. PlaceIInv /\ [Next]_vars /\ TypeOK' => PlaceIInv'
    BY PlacesStep
  <1>3. PlaceIInv => CountIsBridges
    BY DEF PlaceIInv, CountInv, Counted, CountIsBridges
  <1> QED BY <1>1, <1>2, <1>3, TypeCorrect, PTL DEF Spec
=============================================================================
