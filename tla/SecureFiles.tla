---------------------------- MODULE SecureFiles ----------------------------
(***************************************************************************)
(* The files of one GUARDIANA SECURE conversation, from the side that      *)
(* sends to the side that receives (crates/zero/src/secure.rs, Trozos and  *)
(* Recepcion of crates/secure/src/archivo.rs), with a link that drops and  *)
(* is found again, a watch that stops a side, and a disk that fills.       *)
(*                                                                         *)
(* A file is the position of its row in `enviados`; its key is itself, and *)
(* a block opens only under its own key and as the next one.  A block is   *)
(* its file and its number.  Names are what the two sides know a file by,  *)
(* and two files may share one.                                            *)
(*                                                                         *)
(* Key, announcement and confirmations go inside Olm, which says nothing   *)
(* while its side is stopped; blocks go as they are.  The link keeps the   *)
(* order and loses a tail.  Sizes, speeds and the phone are left out; the  *)
(* conversation is over for both as soon as one side closes it.            *)
(***************************************************************************)
EXTENDS Integers, Sequences

CONSTANTS
    Names,      \* names of files, cleaned, which leaves none empty
    MaxFiles,   \* bound: files sent
    MaxBlocks,  \* bound: blocks of a file
    Every,      \* blocks between two confirmations (CONFIRMA_CADA, 64)
    MaxPend,    \* blocks that wait for their key (256)
    MaxFaults   \* bound: links that drop, stops of the watch and refused writes, together

ASSUME BoundsAssumption ==
    /\ "" \notin Names
    /\ MaxFiles \in Nat /\ MaxBlocks \in Nat \ {0} /\ Every \in Nat \ {0}
    /\ MaxPend \in Nat \ {0} /\ MaxFaults \in Nat

VARIABLES
    lista,      \* whether the conversation is open
    enlace,     \* "vivo", "ninguno" (looking at the relay) or "nuevo", of each side
    viva,       \* whether the network still carries the link
    canal,      \* what travels to each side, in order
    marcha,     \* whether each side is not stopped
    enviados,   \* sender: the files it started, and whether they are said to be there
    salida,     \* sender: the file going out, or NoFile
    envio,      \* sender: what the page looks at: "nada", "sigue" or "fin"
    entrada,    \* receiver: the file coming in, or NoEntry
    recibidos,  \* receiver: the files it has whole, in order
    alarma,     \* receiver: a block was taken for an altered one
    cortado,    \* sender: the files it gave up
    count,      \* how many drops, stops and full disks there were
    mudos       \* history: kinds of message that a stop kept from leaving

wires == <<lista, enlace, viva, marcha, count>>
sender == <<enviados, salida, envio, cortado>>
receiver == <<entrada, recibidos, alarma>>
vars == <<wires, canal, sender, receiver, mudos>>

From == 0
To == 1
Sides == {From, To}

Faults == count.drops + count.stops + count.full
-----------------------------------------------------------------------------
NoFile == [id |-> 0, hechos |-> 0, desde |-> 0, pausada |-> FALSE, llave |-> FALSE]
NoEntry == [abierta |-> FALSE, id |-> 0, sigue |-> 0, total |-> 0, de |-> 0, pend |-> <<>>]

Sending == salida.id # 0

\* "" is the name of no file.
NameOf(id) == IF id = 0 THEN "" ELSE enviados[id].nombre

Inicio(id) == [m |-> "inicio", id |-> id, n |-> 0, ultimo |-> 0]
Bloque(id, n) == [m |-> "bloque", id |-> id, n |-> n, ultimo |-> 0]
Archivo(id, total) == [m |-> "archivo", id |-> id, n |-> total, ultimo |-> 0]
Tengo(id, bloques, ultimo) == [m |-> "tengo", id |-> id, n |-> bloques, ultimo |-> ultimo]
Ok(id) == [m |-> "ok", id |-> id, n |-> 0, ultimo |-> 0]

\* What goes inside Olm does not leave a side that is stopped.
Olm(s, ms) == IF marcha[s] THEN ms ELSE <<>>

Travels(s) == enlace[s] # "ninguno" /\ viva

\* Side s has read up to `mine` of its channel; ms goes out, with what it says of `kinds`.
Sends(s, mine, ms, kinds) ==
    /\ canal' = [x \in Sides |->
                    IF x = s THEN mine
                    ELSE IF Travels(s) THEN canal[x] \o ms ELSE canal[x]]
    /\ mudos' = IF marcha[s] THEN mudos ELSE mudos \cup kinds

Says(s, mine, ms) ==
    Sends(s, mine, Olm(s, ms), {ms[i].m : i \in 1 .. Len(ms)})

JustReads(s) == Says(s, Tail(canal[s]), <<>>)
-----------------------------------------------------------------------------
(***************************************************************************)
(* The side that sends.                                                    *)
(***************************************************************************)
\* The page starts a file when the one before has left, not when it is there.
Start(nombre) ==
    /\ lista /\ Len(enviados) < MaxFiles
    /\ envio = "nada" /\ (Sending => salida.llave)
    /\ LET id == Len(enviados) + 1
       IN  /\ salida' = [NoFile EXCEPT !.id = id, !.pausada = enlace[From] = "ninguno"]
           /\ Says(From, canal[From], <<Inicio(id)>>)
    /\ enviados' = Append(enviados, [nombre |-> nombre, llego |-> FALSE])
    /\ envio' = "sigue"
    /\ UNCHANGED <<wires, cortado, receiver>>

\* One block; the last one closes the file, and its key follows.
Piece(ultimo) ==
    /\ lista /\ Sending /\ ~ salida.llave /\ salida.hechos < MaxBlocks
    /\ salida' = [salida EXCEPT !.hechos = @ + 1, !.llave = ultimo]
    /\ LET block == Bloque(salida.id, salida.hechos)
           close == Archivo(salida.id, salida.hechos + 1)
       IN  IF salida.pausada
           THEN Says(From, canal[From], <<>>)
           ELSE Sends(From, canal[From],
                      <<block>> \o (IF ultimo THEN Olm(From, <<close>>) ELSE <<>>),
                      IF ultimo THEN {"archivo"} ELSE {})
    /\ envio' = IF ultimo /\ ~ salida.pausada /\ envio # "nada" THEN "fin" ELSE envio
    /\ UNCHANGED <<wires, enviados, cortado, receiver>>

\* sigue_envio: every byte was written to the link.
Written ==
    /\ lista /\ envio = "fin" /\ enlace[From] # "ninguno"
    /\ envio' = "nada"
    /\ UNCHANGED <<wires, canal, enviados, salida, cortado, receiver, mudos>>

\* The first file of that name that is not said to be there.
Arrived(nombre) ==
    [i \in 1 .. Len(enviados) |->
        IF /\ enviados[i].nombre = nombre /\ ~ enviados[i].llego
           /\ \A j \in 1 .. i - 1 : enviados[j].nombre = nombre => enviados[j].llego
        THEN [enviados[i] EXCEPT !.llego = TRUE]
        ELSE enviados[i]]

\* Mutant of SaysWhole: a file that the other side does not name is there.
SaysOther(q) == salida.llave

\* Mutant of SaysWhole: a file that is there is not recognised.
SaysNever(q) == FALSE

SaysWhole(q) == salida.llave /\ NameOf(q.ultimo) = NameOf(salida.id)

\* Mutant of KeptFrom: the block that is still missing is let go with the others.
KeptBeyond(from, bloques) == IF from <= bloques THEN bloques + 1 ELSE from

KeptFrom(from, bloques) == IF from < bloques THEN bloques ELSE from

\* What goes out again, from the first block the other side lacks.
Again(s, anew) ==
    (IF anew THEN Olm(From, <<Inicio(s.id)>>) ELSE <<>>)
    \o [i \in 1 .. s.hechos - s.desde |-> Bloque(s.id, s.desde + i - 1)]
    \o (IF s.llave THEN Olm(From, <<Archivo(s.id, s.hechos)>>) ELSE <<>>)

SaidAgain(s, anew) ==
    (IF anew THEN {"inicio"} ELSE {}) \cup (IF s.llave THEN {"archivo"} ELSE {})

Hears(s) == lista /\ enlace[s] = "vivo" /\ canal[s] # <<>>
Message(s) == Head(canal[s])

\* archivo_tengo while the file goes out: what is there is let go.
LetGo(s, bloques) ==
    LET first == KeptFrom(s.desde, bloques)
    IN  [s EXCEPT !.desde = IF first > s.hechos THEN s.hechos ELSE first]

ReadTengo ==
    /\ Hears(From) /\ Message(From).m = "tengo"
    /\ LET q == Message(From)
           same == NameOf(q.id) = NameOf(salida.id)
           bloques == IF same THEN q.n ELSE 0
           left == LetGo(salida, bloques)
       IN  \/ \* Nothing goes out, or it is about another file.
              /\ ~ Sending \/ (~ same /\ ~ salida.pausada)
              /\ JustReads(From)
              /\ UNCHANGED sender
           \/ \* A confirmation on the way.
              /\ Sending /\ same /\ ~ salida.pausada
              /\ salida' = left
              /\ JustReads(From)
              /\ UNCHANGED <<enviados, envio, cortado>>
           \/ \* It got there whole; only the «it is here» was lost.
              /\ Sending /\ salida.pausada /\ ~ same /\ SaysWhole(q)
              /\ enviados' = Arrived(NameOf(salida.id))
              /\ salida' = NoFile /\ envio' = "nada"
              /\ JustReads(From)
              /\ UNCHANGED cortado
           \/ \* The block it lacks is not here any more.
              /\ Sending /\ salida.pausada /\ (same \/ ~ SaysWhole(q))
              /\ left.desde # bloques
              /\ salida' = NoFile /\ envio' = "nada"
              /\ cortado' = cortado \cup {salida.id}
              /\ JustReads(From)
              /\ UNCHANGED enviados
           \/ \* It goes on from there, or starts over.
              /\ Sending /\ salida.pausada /\ (same \/ ~ SaysWhole(q))
              /\ left.desde = bloques
              /\ salida' = [left EXCEPT !.pausada = FALSE]
              /\ Sends(From, Tail(canal[From]), Again(left, ~ same), SaidAgain(left, ~ same))
              /\ envio' = IF salida.llave /\ envio # "nada" THEN "fin" ELSE envio
              /\ UNCHANGED <<enviados, cortado>>
    /\ UNCHANGED <<wires, receiver>>

ReadOk ==
    /\ Hears(From) /\ Message(From).m = "ok"
    /\ LET nombre == NameOf(Message(From).id)
       IN  /\ salida' = IF NameOf(salida.id) = nombre /\ salida.llave THEN NoFile ELSE salida
           /\ enviados' = Arrived(nombre)
    /\ JustReads(From)
    /\ UNCHANGED <<wires, envio, cortado, receiver>>
-----------------------------------------------------------------------------
(***************************************************************************)
(* The side that receives.                                                 *)
(***************************************************************************)
Opens(e) == e.id # 0

Skips(e, b) == b.n < e.sigue

IsNext(e, b) == b.id = e.id /\ b.n = e.sigue

\* vacia_bloques, one block: skipped, opened as the next one, or altered.
TakeBlock(e, b) ==
    IF e.sigue < 0 \/ Skips(e, b) THEN e
    ELSE IF IsNext(e, b) THEN [e EXCEPT !.sigue = @ + 1]
    ELSE [e EXCEPT !.sigue = -1]

\* Mutant of Taken: the blocks are looked at and not taken out.
TakenKept(e) ==
    LET pass[i \in 0 .. Len(e.pend)] == IF i = 0 THEN e ELSE TakeBlock(pass[i - 1], e.pend[i])
    IN  IF Opens(e) THEN pass[Len(e.pend)] ELSE e

\* Left to right, with -1 for a block that does not open.
Taken(e) ==
    LET pass[i \in 0 .. Len(e.pend)] == IF i = 0 THEN e ELSE TakeBlock(pass[i - 1], e.pend[i])
    IN  IF Opens(e) THEN [pass[Len(e.pend)] EXCEPT !.pend = <<>>] ELSE e

\* Some block is written before any other is refused.
Writes(e) ==
    Opens(e) /\ \E i \in 1 .. Len(e.pend) :
        /\ ~ Skips(e, e.pend[i]) /\ IsNext(e, e.pend[i])
        /\ \A j \in 1 .. i - 1 : Skips(e, e.pend[j])

\* A multiple of Every was passed on the way.
Confirms(e, after) ==
    {k \in e.sigue + 1 .. after.sigue : k % Every = 0}

Complete(e) == Opens(e) /\ e.de # 0 /\ e.sigue = e.total

\* `cerrar`, on both sides: what came in is deleted, what went out is forgotten, and only
\* the rows of the screen and what the page looks at stay.  (A destruction empties the rows
\* too; they are kept here for the properties.)
Ends ==
    /\ lista' = FALSE
    /\ canal' = [s \in Sides |-> <<>>]
    /\ enlace' = [s \in Sides |-> "ninguno"]
    /\ marcha' = [s \in Sides |-> TRUE]
    /\ salida' = NoFile /\ entrada' = NoEntry /\ recibidos' = <<>>
    /\ UNCHANGED <<viva, enviados, envio, cortado, count, mudos>>

\* The blocks of e are taken; what follows of it is kept, closed or refused.
Empties(e) ==
    LET after == Taken(e)
        steps == Confirms(e, after)
        mine == Tail(canal[To])
    IN  \/ \* A block did not open: the incident, and the conversation is destroyed.
           /\ after.sigue < 0
           /\ alarma' = TRUE /\ Ends
        \/ \* Whole: it is checked against its key and said to be here.
           /\ after.sigue >= 0 /\ Complete(after)
           /\ entrada' = NoEntry
           /\ IF after.de = after.id
              THEN /\ recibidos' = Append(recibidos, after.id)
                   /\ Says(To, mine, <<Ok(after.id)>>)
              ELSE /\ JustReads(To) /\ UNCHANGED recibidos
           /\ UNCHANGED <<wires, sender, alarma>>
        \/ \* It goes on.
           /\ after.sigue >= 0 /\ ~ Complete(after)
           /\ entrada' = after
           /\ Says(To, mine,
                    IF steps = {} THEN <<>>
                    ELSE <<Tengo(after.id, CHOOSE k \in steps : \A l \in steps : l <= k, 0)>>)
           /\ UNCHANGED <<wires, sender, recibidos, alarma>>
        \/ \* The disk refuses a block that opened: the file is thrown away.
           /\ Writes(e) /\ Faults < MaxFaults
           /\ entrada' = NoEntry
           /\ count' = [count EXCEPT !.full = @ + 1]
           /\ JustReads(To)
           /\ UNCHANGED <<lista, enlace, viva, marcha, sender, recibidos, alarma>>

\* archivo_inicio: the file begins again, whatever was coming in.
ReadInicio ==
    /\ Hears(To) /\ Message(To).m = "inicio"
    /\ entrada' = [NoEntry EXCEPT !.abierta = TRUE, !.id = Message(To).id]
    /\ JustReads(To)
    /\ UNCHANGED <<wires, sender, recibidos, alarma>>

\* A block may come before its key, and then it waits; past MaxPend it is thrown away.
ReadBlock ==
    /\ Hears(To) /\ Message(To).m = "bloque"
    /\ LET q == Message(To)
       IN  IF Len(entrada.pend) >= MaxPend
           THEN JustReads(To) /\ UNCHANGED <<wires, sender, receiver>>
           ELSE Empties([entrada EXCEPT
                    !.abierta = TRUE, !.pend = Append(@, [id |-> q.id, n |-> q.n])])

\* `archivo`: the key that closes the file, or the only one that came.
ReadArchivo ==
    /\ Hears(To) /\ Message(To).m = "archivo"
    /\ LET q == Message(To)
           known == [entrada EXCEPT !.de = q.id, !.total = q.n]
       IN  Empties(IF Opens(entrada) THEN known
                   ELSE [known EXCEPT !.abierta = TRUE, !.id = q.id])
-----------------------------------------------------------------------------
(***************************************************************************)
(* The link, the watch and the end.                                        *)
(***************************************************************************)
Drop ==
    /\ lista /\ viva /\ Faults < MaxFaults
    /\ viva' = FALSE
    /\ \E a \in 0 .. Len(canal[From]), b \in 0 .. Len(canal[To]) :
        canal' = [s \in Sides |-> SubSeq(canal[s], 1, IF s = From THEN a ELSE b)]
    /\ count' = [count EXCEPT !.drops = @ + 1]
    /\ UNCHANGED <<lista, enlace, marcha, sender, receiver, mudos>>

\* Mutant of Held: a drop does not hold the file back.
HeldNot == FALSE

Held == Sending

\* empieza_reconexion, with envio_al_caer.
Notice(s) ==
    /\ lista /\ enlace[s] = "vivo" /\ ~ viva /\ canal[s] = <<>>
    /\ enlace' = [enlace EXCEPT ![s] = "ninguno"]
    /\ IF s = From
       THEN /\ salida' = [salida EXCEPT !.pausada = Held]
            /\ envio' = IF envio = "fin" THEN "sigue" ELSE envio
       ELSE UNCHANGED <<salida, envio>>
    /\ UNCHANGED <<lista, viva, canal, marcha, enviados, cortado, receiver, count, mudos>>

Meet ==
    /\ lista /\ \A s \in Sides : enlace[s] = "ninguno"
    /\ viva' = TRUE
    /\ enlace' = [s \in Sides |-> "nuevo"]
    /\ UNCHANGED <<lista, canal, marcha, sender, receiver, count, mudos>>

LastReceived == IF recibidos = <<>> THEN 0 ELSE recibidos[Len(recibidos)]

\* Mutant of WhatIHave: the side that receives says nothing of its file.
SaysNothing == <<>>

\* digo_lo_que_tengo.
WhatIHave == <<Tengo(entrada.id, entrada.sigue, LastReceived)>>

\* `Conectado` in a reconnection.
Resume(s) ==
    /\ lista /\ enlace[s] = "nuevo"
    /\ enlace' = [enlace EXCEPT ![s] = "vivo"]
    /\ Says(s, canal[s], IF s = To THEN WhatIHave ELSE <<>>)
    /\ UNCHANGED <<lista, viva, marcha, sender, receiver, count>>

Stop(s) ==
    /\ lista /\ marcha[s] /\ Faults < MaxFaults
    /\ marcha' = [marcha EXCEPT ![s] = FALSE]
    /\ count' = [count EXCEPT !.stops = @ + 1]
    /\ UNCHANGED <<lista, enlace, viva, canal, sender, receiver, mudos>>

Continue(s) ==
    /\ lista /\ ~ marcha[s]
    /\ marcha' = [marcha EXCEPT ![s] = TRUE]
    /\ UNCHANGED <<lista, enlace, viva, canal, sender, receiver, count, mudos>>

\* Somebody closes, gives up, or writes on a link whose writer has gone.
Close == lista /\ Ends /\ UNCHANGED alarma
-----------------------------------------------------------------------------
Init ==
    /\ lista = TRUE /\ viva = TRUE
    /\ enlace = [s \in Sides |-> "vivo"]
    /\ canal = [s \in Sides |-> <<>>]
    /\ marcha = [s \in Sides |-> TRUE]
    /\ enviados = <<>> /\ salida = NoFile /\ envio = "nada" /\ cortado = {}
    /\ entrada = NoEntry /\ recibidos = <<>> /\ alarma = FALSE
    /\ count = [drops |-> 0, stops |-> 0, full |-> 0]
    /\ mudos = {}

Reads == ReadTengo \/ ReadOk \/ ReadInicio \/ ReadBlock \/ ReadArchivo

Mends == Meet \/ \E s \in Sides : Notice(s) \/ Resume(s)

Next ==
    \/ \E nombre \in Names : Start(nombre)
    \/ \E ultimo \in BOOLEAN : Piece(ultimo)
    \/ Written \/ Reads \/ Drop \/ Mends \/ Close
    \/ \E s \in Sides : Stop(s) \/ Continue(s)

\* The ticks go on reading what came, and mend a link that dropped.
Fairness == WF_vars(Reads) /\ WF_vars(Mends)

Spec == Init /\ [][Next]_vars /\ Fairness
-----------------------------------------------------------------------------
KeyType == 0 .. MaxFiles

MessageType ==
    [m : {"inicio", "bloque", "archivo", "tengo", "ok"}, id : KeyType, n : Nat,
     ultimo : KeyType]

OutType == [id : KeyType, hechos : Nat, desde : Nat, pausada : BOOLEAN, llave : BOOLEAN]

EntryType ==
    [abierta : BOOLEAN, id : KeyType, sigue : Nat, total : Nat, de : KeyType,
     pend : Seq([id : KeyType, n : Nat])]

\* Every part of the state keeps its shape; what is kept ends where the file does, and only
\* a file that is coming in has blocks.
TypeOK ==
    /\ lista \in BOOLEAN /\ viva \in BOOLEAN /\ alarma \in BOOLEAN
    /\ enlace \in [Sides -> {"vivo", "ninguno", "nuevo"}]
    /\ canal \in [Sides -> Seq(MessageType)]
    /\ marcha \in [Sides -> BOOLEAN]
    /\ enviados \in Seq([nombre : Names, llego : BOOLEAN])
    /\ salida \in OutType /\ salida.desde <= salida.hechos /\ salida.id <= Len(enviados)
    /\ envio \in {"nada", "sigue", "fin"}
    /\ entrada \in EntryType
    /\ Len(entrada.pend) <= MaxPend /\ (Opens(entrada) => entrada.pend = <<>>)
    /\ recibidos \in Seq(KeyType)
    /\ cortado \subseteq KeyType /\ mudos \subseteq {"inicio", "archivo", "tengo", "ok"}
    /\ count \in [drops : Nat, stops : Nat, full : Nat]

\* No two files of the conversation have one name.
NamesDiffer ==
    \A i, j \in 1 .. Len(enviados) : i # j => enviados[i].nombre # enviados[j].nombre

\* A file may be coming in without the key that goes before it: the disk filled and its entry
\* was thrown away, or a stopped side did not say that it starts.
Keyless == count.full > 0 \/ "inicio" \in mudos

\* secure.rs:2862-2883 and 3495-3507: a file is not taken in twice, however often the link drops
\* and its end, its confirmation or its announcement is lost, while its key goes before it.
OnceOnly ==
    ~ Keyless => \A i, j \in 1 .. Len(recibidos) : recibidos[i] = recibidos[j] => i = j

IsHere(i) == \E k \in 1 .. Len(recibidos) : recibidos[k] = i

\* secure.rs:3495-3507 and 2725-2742: the screen of the sender does not say that a file got
\* there when it did not, as long as no two files have one name.
SaidIsHere ==
    lista /\ NamesDiffer => \A i \in 1 .. Len(enviados) : enviados[i].llego => IsHere(i)

\* secure.rs:2803-2857: neither a drop at any moment nor a stop makes anybody take a block for
\* an altered one, while its key goes before it and no two files have one name.
DropsAreNoTampering == alarma => ~ NamesDiffer \/ Keyless

\* secure.rs:3521-3530: what the other side lacks is still here, so no file is given up because
\* of a drop, nor because a confirmation was not said.
NothingGivenUp == cortado # {} => ~ NamesDiffer \/ Keyless

\* What the protocol does not mend: two files of one name, a disk that filled, and a message
\* that a stopped side did not send.
Unmended == ~ NamesDiffer \/ count.full > 0 \/ mudos # {}

\* secure.rs:3480-3484 and 3577-3578: a file that was closed does not stay for ever: it is said to
\* be there, unless another one starts after it or the conversation ends.
FileArrives ==
    (Sending /\ salida.llave) ~> (~ (Sending /\ salida.llave) \/ ~ lista \/ Unmended)
=============================================================================
