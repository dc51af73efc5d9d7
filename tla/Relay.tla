------------------------------- MODULE Relay -------------------------------
(***************************************************************************)
(* GUARDIANA SECURE's blind relay (crates/rele/src/lib.rs) and the ends    *)
(* that knock at it (crates/zero/src/rele.rs).                             *)
(*                                                                         *)
(* Two computers that cannot reach each other name one room: the first     *)
(* waits in the table `esperando`, the second takes it out and the relay   *)
(* copies bytes between them.  A computer and its owner's phone do the     *)
(* same through the table `moviles`, where the newest of a kind replaces   *)
(* the older.  `activas` counts the bridges of each room.  Every           *)
(* connection runs its own task, the sweep another, and a request for TURN *)
(* credentials reads the three tables under three separate locks.          *)
(*                                                                         *)
(* A connection is <<end, n>>, the n-th link of an end.  The bytes copied, *)
(* TLS and the text of the lines are abstracted; `desde` is the age of a   *)
(* wait: 0 fresh, 1 past ESPERA_MOVIL, 2 past ESPERA.  Taking a bridge     *)
(* down (its two links closed, its guard dropped) is one step.             *)
(***************************************************************************)
EXTENDS Naturals, FiniteSets, Functions

CONSTANTS
    Ends,       \* the programs that knock
    Rooms,
    Asked,      \* the room of the TURN request
    Scenarios,  \* what the ends may be: functions from Ends to [kind, room]
    MaxSalas,   \* MAX_SALAS
    MaxDrops    \* bound: links that break unseen by the relay

ASSUME SalasAssumption == MaxSalas \in Nat \ {0} /\ MaxDrops \in Nat /\ Asked \in Rooms
ASSUME ScenariosAssumption ==
    Scenarios \subseteq
        [Ends -> [kind : {"computer", "owner", "phone"}, room : Rooms]]

Conns == Ends \X (1 .. MaxDrops + 1)
None == <<>>

VARIABLES
    who,        \* what each end is: its greeting and its room
    there,      \* "away", "in" (it knocks until it is linked) or "out"
    cur,        \* the link each end holds, or None
    drops,
    line,       \* links whose greeting was read, before the table's lock
    dead,       \* links the relay holds and whose end is gone
    esperando,  \* room -> the computer that waits in it, and since when
    moviles,    \* room -> the computer or phone that waits in it, and since when
    bridges,    \* the bridges, with how far each one is
    activas,    \* room -> how many counted bridges (0: not in the table)
    ask,        \* a TURN request: the next table, what it found
    seen        \* history of the request: see Remember

ends == <<who, there, cur, drops>>
tables == <<esperando, moviles>>
vars == <<ends, line, dead, tables, bridges, activas, ask, seen>>

Kind(c) == who[c[1]].kind
Room(c) == who[c[1]].room

InBridge == UNION {{b.one, b.two} : b \in bridges}
Waiting(table) == {table[r].link : r \in DOMAIN table}
Held == line \cup Waiting(esperando) \cup Waiting(moviles) \cup InBridge

Without(table, r) == Restrict(table, DOMAIN table \ {r})

With(table, r, c) ==
    [x \in DOMAIN table \cup {r} |->
        IF x = r THEN [link |-> c, age |-> 0] ELSE table[x]]

Listed == {r \in Rooms : activas[r] > 0}

(***************************************************************************)
(* The relay drops the links S: their ends, if still there, see it.        *)
(***************************************************************************)
Close(S) ==
    /\ cur' = [e \in Ends |-> IF cur[e] \in S THEN None ELSE cur[e]]
    /\ dead' = dead \ S

(***************************************************************************)
(* EnPuente::entra, and the guard's drop.                                  *)
(***************************************************************************)
Counts(r) == activas[r] > 0 \/ Cardinality(Listed) < MaxSalas

Enter(r) == activas' = IF Counts(r) THEN [activas EXCEPT ![r] = @ + 1] ELSE activas

\* Mutant of Leave: a bridge that was never counted takes the count down too.
LeaveAnyway(b) == activas' = [activas EXCEPT ![b.room] = @ - 1]

\* Mutant of Leave: the first bridge to end forgets the room.
ForgetRoom(b) == activas' = [activas EXCEPT ![b.room] = 0]

Leave(b) ==
    activas' = IF b.counted /\ activas[b.room] > 0
               THEN [activas EXCEPT ![b.room] = @ - 1]
               ELSE activas

Bridge(a, b, r) ==
    /\ bridges' = bridges \cup
           {[one |-> a, two |-> b, room |-> r, counted |-> Counts(r), step |-> "first"]}
    /\ Enter(r)
-----------------------------------------------------------------------------
(***************************************************************************)
(* The ends: an end comes, knocks with a free link while it has none,      *)
(* loses its link without the relay hearing of it, or gives up.            *)
(***************************************************************************)
Come(e) ==
    /\ there[e] = "away"
    /\ there' = [there EXCEPT ![e] = "in"]
    /\ UNCHANGED <<who, cur, drops, line, dead, tables, bridges, activas, ask>>

Knock(e) ==
    /\ there[e] = "in" /\ cur[e] = None
    /\ \E n \in 1 .. MaxDrops + 1 :
        /\ <<e, n>> \notin Held
        /\ \A k \in 1 .. n - 1 : <<e, k>> \in Held
        /\ cur' = [cur EXCEPT ![e] = <<e, n>>]
        /\ line' = line \cup {<<e, n>>}
    /\ UNCHANGED <<who, there, drops, dead, tables, bridges, activas, ask>>

Break(e) ==
    /\ cur[e] # None /\ drops < MaxDrops
    /\ drops' = drops + 1
    /\ dead' = dead \cup {cur[e]}
    /\ cur' = [cur EXCEPT ![e] = None]
    /\ UNCHANGED <<who, there, line, tables, bridges, activas, ask>>

GiveUp(e) ==
    /\ there[e] = "in"
    /\ there' = [there EXCEPT ![e] = "out"]
    /\ dead' = dead \cup ({cur[e]} \ {None})
    /\ cur' = [cur EXCEPT ![e] = None]
    /\ UNCHANGED <<who, drops, line, tables, bridges, activas, ask>>
-----------------------------------------------------------------------------
(***************************************************************************)
(* A computer that meets a computer: one critical section of `esperando`.  *)
(***************************************************************************)
Meet(c) ==
    /\ c \in line /\ Kind(c) = "computer"
    /\ line' = line \ {c}
    /\ LET r == Room(c) IN
        \/ /\ r \in DOMAIN esperando
           /\ esperando' = Without(esperando, r)
           /\ Bridge(esperando[r].link, c, r)
           /\ UNCHANGED <<cur, dead>>
        \/ /\ r \notin DOMAIN esperando
           /\ Cardinality(DOMAIN esperando) < MaxSalas
           /\ esperando' = With(esperando, r, c)
           /\ UNCHANGED <<cur, dead, bridges, activas>>
        \/ /\ r \notin DOMAIN esperando
           /\ Cardinality(DOMAIN esperando) >= MaxSalas
           /\ Close({c})
           /\ UNCHANGED <<esperando, bridges, activas>>
    /\ UNCHANGED <<who, there, drops, moviles, ask>>

(***************************************************************************)
(* llega_movil: what waited in the room comes out first, whatever it is; a *)
(* computer and a phone pair, otherwise the newest takes the place.        *)
(***************************************************************************)
Pairs(c, r) == r \in DOMAIN moviles /\ Kind(moviles[r].link) # Kind(c)

MeetPhone(c) ==
    /\ c \in line /\ Kind(c) # "computer"
    /\ line' = line \ {c}
    /\ LET r == Room(c)
           rest == Without(moviles, r)
           before == {moviles[x].link : x \in DOMAIN moviles \cap {r}}
       IN  \/ /\ Pairs(c, r)
              /\ moviles' = rest
              /\ LET d == moviles[r].link
                 IN  IF Kind(c) = "owner" THEN Bridge(c, d, r) ELSE Bridge(d, c, r)
              /\ UNCHANGED <<cur, dead>>
           \/ /\ ~Pairs(c, r) /\ Cardinality(DOMAIN rest) < MaxSalas
              /\ moviles' = With(rest, r, c)
                 /\ Close(before)
              /\ UNCHANGED <<bridges, activas>>
           \/ /\ ~Pairs(c, r) /\ Cardinality(DOMAIN rest) >= MaxSalas
              /\ moviles' = rest
              /\ Close(before \cup {c})
              /\ UNCHANGED <<bridges, activas>>
    /\ UNCHANGED <<who, there, drops, esperando, ask>>
-----------------------------------------------------------------------------
(***************************************************************************)
(* A bridge says OK to the one that waited and then to the newcomer (on a  *)
(* phone's bridge only to the computer), then copies until a side goes.  A *)
(* write to a link whose end is gone may still be taken by the system.     *)
(***************************************************************************)
TakeDown(b) ==
    /\ bridges' = bridges \ {b}
    /\ Close({b.one, b.two})
    /\ Leave(b)

Says(b, c, next) ==
    /\ bridges' = (bridges \ {b}) \cup {[b EXCEPT !.step = next]}
    /\ UNCHANGED <<cur, dead, activas>>

TellFirst(b) ==
    /\ b.step = "first"
    /\ \/ Says(b, b.one, IF Kind(b.one) = "computer" THEN "second" ELSE "flow")
       \/ b.one \in dead /\ TakeDown(b)
    /\ UNCHANGED <<who, there, drops, line, tables, ask>>

TellSecond(b) ==
    /\ b.step = "second"
    /\ \/ Says(b, b.two, "flow")
       \/ b.two \in dead /\ TakeDown(b)
    /\ UNCHANGED <<who, there, drops, line, tables, ask>>

CopyEnds(b) ==
    /\ b.step = "flow"
    /\ {b.one, b.two} \cap dead # {}
    /\ TakeDown(b)
    /\ UNCHANGED <<who, there, drops, line, tables, ask>>
-----------------------------------------------------------------------------
(***************************************************************************)
(* Minutes pass only when no end is on its way to a table that would take  *)
(* it: ten minutes against the five seconds between two knocks.            *)
(***************************************************************************)
OnItsWay == {e \in Ends : there[e] = "in" /\ (cur[e] = None \/ cur[e] \in line)}

WouldRefuse(e) ==
    LET table == IF who[e].kind = "computer" THEN esperando ELSE moviles
    IN  /\ who[e].room \notin DOMAIN table
        /\ Cardinality(DOMAIN table) >= MaxSalas

Older(table, r) == [table EXCEPT ![r].age = @ + 1]

Wait(r) ==
    /\ \A e \in OnItsWay : WouldRefuse(e)
    /\ \/ /\ r \in DOMAIN esperando /\ esperando[r].age < 2
          /\ esperando' = Older(esperando, r)
          /\ UNCHANGED moviles
       \/ /\ r \in DOMAIN moviles /\ moviles[r].age < 2
          /\ moviles' = Older(moviles, r)
          /\ UNCHANGED esperando
    /\ UNCHANGED <<ends, line, dead, bridges, activas, ask>>

(***************************************************************************)
(* The sweep passes over one table and then the other, each under its own  *)
(* lock: two independent steps.                                            *)
(***************************************************************************)
\* Mutant of Expired: nothing is ever swept.
NeverExpired(table) == {}

Expired(table) ==
    {r \in DOMAIN table : table[r].age >= IF Kind(table[r].link) = "phone" THEN 1 ELSE 2}

Fresh(table) == Restrict(table, DOMAIN table \ Expired(table))
Stale(table) == {table[r].link : r \in Expired(table)}

SweepComputers ==
    /\ esperando' = Fresh(esperando)
    /\ Close(Stale(esperando))
    /\ UNCHANGED <<who, there, drops, line, moviles, bridges, activas, ask>>

SweepPhones ==
    /\ moviles' = Fresh(moviles)
    /\ Close(Stale(moviles))
    /\ UNCHANGED <<who, there, drops, line, esperando, bridges, activas, ask>>
-----------------------------------------------------------------------------
(***************************************************************************)
(* respuesta_turn: three tables, three locks, one after another.           *)
(***************************************************************************)
Ask ==
    /\ ask.at = "idle"
    /\ ask' = [ask EXCEPT !.at = "esperando"]
    /\ UNCHANGED <<ends, line, dead, tables, bridges, activas>>

\* Mutant of AskNext: the bridges are read first and the computers last.
AskBackwards(at, next, known) ==
    /\ ask.at = at
    /\ ask' = [at |-> next,
               found |-> \/ ask.found
                         \/ at = "esperando" /\ activas[Asked] > 0
                         \/ at = "moviles" /\ known
                         \/ at = "activas" /\ Asked \in DOMAIN esperando]
    /\ UNCHANGED <<ends, line, dead, tables, bridges, activas>>

AskNext(at, next, known) ==
    /\ ask.at = at
    /\ ask' = [ask EXCEPT !.at = next, !.found = @ \/ known]
    /\ UNCHANGED <<ends, line, dead, tables, bridges, activas>>

AskComputers == AskNext("esperando", "moviles", Asked \in DOMAIN esperando)
AskPhones == AskNext("moviles", "activas", Asked \in DOMAIN moviles)
AskBridges == AskNext("activas", "answer", activas[Asked] > 0)

Answer ==
    /\ ask.at = "answer"
    /\ ask' = [ask EXCEPT !.at = "idle", !.found = FALSE]
    /\ UNCHANGED <<ends, line, dead, tables, bridges, activas>>

(***************************************************************************)
(* What the request could have seen, while it has found nothing.  A room   *)
(* holds a place for each wait and each counted bridge; it is "steady" if  *)
(* it has held one since the request began and given none up, "known" if   *)
(* it always held one, and "lost" otherwise.                               *)
(***************************************************************************)
Places(r) ==
    (IF r \in DOMAIN esperando THEN 1 ELSE 0)
    + (IF r \in DOMAIN moviles THEN 1 ELSE 0) + activas[r]

Worse(was, before, after) ==
    IF was = "lost" \/ after = 0 THEN "lost"
    ELSE IF was = "known" \/ after < before THEN "known" ELSE "steady"

Remember ==
    seen' = IF ask'.found \/ ask'.at = "idle" THEN "steady"
            ELSE Worse(seen, IF ask.at = "idle" THEN 0 ELSE Places(Asked),
                       Places(Asked)')
-----------------------------------------------------------------------------
Init ==
    /\ who \in Scenarios
    /\ there = [e \in Ends |-> "away"]
    /\ cur = [e \in Ends |-> None]
    /\ drops = 0
    /\ line = {} /\ dead = {}
    /\ esperando = <<>> /\ moviles = <<>>
    /\ bridges = {}
    /\ activas = [r \in Rooms |-> 0]
    /\ ask = [at |-> "idle", found |-> FALSE]
    /\ seen = "steady"

Step ==
    \/ \E e \in Ends : Come(e) \/ Knock(e) \/ Break(e) \/ GiveUp(e)
    \/ \E c \in Conns : Meet(c) \/ MeetPhone(c)
    \/ \E b \in bridges : TellFirst(b) \/ TellSecond(b) \/ CopyEnds(b)
    \/ SweepComputers \/ SweepPhones
    \/ \E r \in Rooms : Wait(r)
    \/ Ask \/ AskComputers \/ AskPhones \/ AskBridges \/ Answer

Next == Step /\ Remember

Fairness ==
    /\ \A e \in Ends : WF_vars(Knock(e) /\ Remember)
    /\ \A c \in Conns : WF_vars((Meet(c) \/ MeetPhone(c)) /\ Remember)
    /\ \A r \in Rooms : WF_vars(Wait(r) /\ Remember)
    /\ WF_vars(SweepComputers /\ Remember) /\ WF_vars(SweepPhones /\ Remember)
    /\ WF_vars(\E b \in bridges : (TellFirst(b) \/ TellSecond(b) \/ CopyEnds(b)) /\ Remember)

Spec == Init /\ [][Next]_vars /\ Fairness
-----------------------------------------------------------------------------
BridgeType ==
    [one : Conns, two : Conns, room : Rooms, counted : BOOLEAN,
     step : {"first", "second", "flow"}]

IsTable(table) ==
    /\ DOMAIN table \subseteq Rooms
    /\ \A r \in DOMAIN table : table[r] \in [link : Conns, age : 0 .. 2]

TypeOK ==
    /\ who \in Scenarios
    /\ there \in [Ends -> {"away", "in", "out"}]
    /\ cur \in [Ends -> Conns \cup {None}]
    /\ drops \in 0 .. MaxDrops
    /\ line \subseteq Conns /\ dead \subseteq Conns
    /\ IsTable(esperando) /\ IsTable(moviles)
    /\ bridges \subseteq BridgeType
    /\ activas \in [Rooms -> Nat]
    /\ ask \in [at : {"idle", "esperando", "moviles", "activas", "answer"},
                found : BOOLEAN]
    /\ seen \in {"steady", "known", "lost"}

(***************************************************************************)
(* The count of a room is the number of its bridges that were counted when *)
(* they began, whatever order they begin and end in and however full the   *)
(* table was (lib.rs:108-135): a room never stays known without a bridge,  *)
(* nor is forgotten while a counted one lasts.                             *)
(***************************************************************************)
CountIsBridges ==
    \A r \in Rooms :
        activas[r] = Cardinality({b \in bridges : b.room = r /\ b.counted})

(***************************************************************************)
(* "The room counts as bridged from the moment it leaves the waiting table *)
(* (inside the same lock, so a TURN request never finds it in neither)"    *)
(* (lib.rs:260-262): a request for a room that held a place from beginning *)
(* to end and gave none up meanwhile is answered OK, although it reads the *)
(* three tables at three different moments (lib.rs:439-460).               *)
(***************************************************************************)
TurnSeesSteadyRoom ==
    ask.at = "answer" /\ ~ask.found => seen # "steady"

(***************************************************************************)
(* Two computers of one room that keep knocking end up joined, both having *)
(* heard OK, whatever links broke on the way, unseen, while they waited or *)
(* were being joined, once the others are gone (lib.rs:263-290; the        *)
(* mailbox knocks again after every failure, zero/rele.rs:193-217).  The   *)
(* same for a computer and its phone, whose OK is the open WebSocket.      *)
(***************************************************************************)
MadeFor(e, f) ==
    /\ who[e].room = who[f].room
    /\ {who[e].kind, who[f].kind} \in {{"computer"}, {"owner", "phone"}}

OnlyAPair ==
    \E e, f \in Ends :
        /\ e # f /\ MadeFor(e, f)
        /\ \A o \in Ends : there[o] = IF o \in {e, f} THEN "in" ELSE "out"

Joined ==
    \E b \in bridges :
        /\ b.step = "flow"
        /\ b.one[1] # b.two[1]
        /\ \A c \in {b.one, b.two} : cur[c[1]] = c

TheyMeet == <>[]OnlyAPair => <>[]Joined
=============================================================================
