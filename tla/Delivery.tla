------------------------------ MODULE Delivery ------------------------------
(***************************************************************************)
(* One delivery of the Sala de entrega: its rules                          *)
(* (crates/secure/src/entrega.rs), the program that keeps it, the thread   *)
(* that waits for the receiver at the relay (crates/zero/src/entrega.rs),  *)
(* and the browser tabs that come with the link.                           *)
(*                                                                         *)
(* The program and the thread talk through two queues and know nothing of  *)
(* each other's moment: an event of a link may be handled after that link  *)
(* is gone, and an answer may find another tab.  The program handles the   *)
(* events of a tick one by one, acts first and saves after, and may die    *)
(* between the two; what `estado.bin` holds is what it comes back with.    *)
(*                                                                         *)
(* The receiver's page is not in the repository: a tab greets, gives a     *)
(* code with the token it keeps, asks for files and confirms them, and     *)
(* signs the receipt.  A file is one piece; keys are whether they exist;   *)
(* frames, sizes, names and what only the screen shows are left out.       *)
(***************************************************************************)
EXTENDS Naturals, Sequences, FiniteSets

CONSTANTS
    Tabs,         \* browser tabs that have the link
    MaxArchivos,  \* bound: files of the delivery
    INTENTOS,     \* wrong codes that destroy it (3)
    FaultSets,    \* bound: the sets of faults that one run may meet, of "corte",
                  \* "caida" and "trama"
    Puntual       \* a pause of the thread (1 s) outlasts a tick of the program (0.2 s)

ASSUME BoundsAssumption ==
    /\ MaxArchivos \in Nat \ {0} /\ INTENTOS \in Nat \ {0}
    /\ FaultSets \subseteq SUBSET {"corte", "caida", "trama"}
    /\ Puntual \in BOOLEAN

VARIABLES
    up,         \* whether the program runs
    e,          \* the delivery, as the program holds it
    carga,      \* a file is going in
    claves,     \* the program holds its keys
    acuse,      \* "no", or the receipt waits for the other signature: "espera", "vence"
    recibo,     \* "no", or signed: by this computer ("solo") or by both ("dos")
    hilo,       \* the program holds the thread's two queues
    lote,       \* events taken by this tick, to be handled
    paso,       \* what was done and is not saved yet, "" if nothing
    disco,      \* estado.bin
    sellados,   \* the sealed files on the disk, the one that is going in too
    fase,       \* the thread: "no", "rele", "sirve" or "pausa"
    tab,        \* the tab at the other end of its link
    autorizado, \* that link was told the files
    alHilo, delHilo,  \* to the thread, from it
    sube, baja, \* from the tab, to it
    roto,       \* the link is broken: what is in it is all that arrives
    pag,        \* what each tab knows
    faults,     \* kinds of fault that have happened, each once at most
    dado,       \* history: tabs whose right code was accepted
    perdido,    \* history: an answer to a right code never reached its tab
    notas       \* history: the steps the program died in, and whether a code came late

contents == <<claves, sellados, carga>>
receipt == <<acuse, recibo>>
queues == <<hilo, alHilo, delHilo>>
thread == <<fase, tab, autorizado>>
link == <<sube, baja, roto>>
history == <<perdido, notas>>
world == <<thread, link, pag, faults, history>>
vars == <<up, e, contents, receipt, queues, lote, paso, disco, dado, world>>

\* What only the tabs and the network touch beside the thread.
core == <<up, e, contents, receipt, lote, paso, disco, dado>>

None == "nadie"
Viva == {"preparando", "esperando", "abierta"}
Ended == {"entregada", "caducada", "revocada", "destruida"}
Nada == [estado |-> "nada", motivo |-> "", archivos |-> 0, fallos |-> 0,
         receptor |-> 0, recibidos |-> {}]
Files(d) == 1 .. d.archivos

\* A message that carries nothing else.
M(t) == [t |-> t]
-----------------------------------------------------------------------------
(***************************************************************************)
(* The rules: crates/secure/src/entrega.rs.                                *)
(***************************************************************************)
MayTry(d) == d.estado \in {"esperando", "abierta"}

Destroyed(d, motivo) ==
    IF d.estado \in Viva THEN [d EXCEPT !.estado = "destruida", !.motivo = motivo] ELSE d

\* Mutant: one wrong code too many.
SpentLate(fallos) == fallos > INTENTOS

Spent(fallos) == fallos >= INTENTOS

\* The tab that opened it is known by the token it keeps.
IsReceiver(d, token) == token = d.receptor

\* Mutant: any file spends the link.
OneIsEnough(d, i) == [d EXCEPT !.recibidos = @ \cup {i}, !.estado = "entregada"]

\* What a confirmed file leaves; the last one spends the link.
Confirmed(d, i) ==
    LET after == [d EXCEPT !.recibidos = @ \cup {i}] IN
    IF after.recibidos = Files(d) THEN [after EXCEPT !.estado = "entregada"] ELSE after
-----------------------------------------------------------------------------
(***************************************************************************)
(* The program: crates/zero/src/entrega.rs.  It runs one thing at a time.  *)
(***************************************************************************)
Free == up /\ paso = "" /\ lote = <<>>

\* Into the thread's queue, while there is someone at its other end.
Told(ms) == alHilo' = IF hilo /\ fase # "no" THEN alHilo \o ms ELSE alHilo

Saved == [e |-> e, claves |-> claves, recibo |-> recibo]

\* Mutant: the keys are left.
ForgetFiles(last) ==
    /\ sellados' = sellados \ Files(e) /\ carga' = FALSE /\ UNCHANGED claves
    /\ hilo' = FALSE /\ delHilo' = <<>>
    /\ Told(Append(last, M("fin")))

\* The keys, the file going in and the thread go.
Closes(last) ==
    /\ claves' = FALSE /\ carga' = FALSE
    /\ hilo' = FALSE /\ delHilo' = <<>>
    /\ Told(Append(last, M("fin")))

\* `borra_contenido`: and the sealed files on the delivery's list; one that was
\* still going in is not on it.
Forget(last) == Closes(last) /\ sellados' = sellados \ Files(e)

Arranca == hilo' = TRUE /\ fase' = "rele" /\ alHilo' = <<>> /\ delHilo' = <<>>

Archivo ==
    /\ Free /\ e.estado = "preparando" /\ ~carga /\ e.archivos < MaxArchivos
    /\ carga' = TRUE /\ sellados' = sellados \cup {e.archivos + 1}
    /\ UNCHANGED <<up, e, claves, receipt, queues, lote, paso, disco, dado, world>>

Trozo ==
    /\ Free /\ carga
    /\ carga' = FALSE /\ claves' = TRUE
    /\ e' = [e EXCEPT !.archivos = @ + 1]
    /\ UNCHANGED <<up, sellados, receipt, queues, lote, paso, dado, world>>
    /\ disco' = Saved'

Lista ==
    /\ Free /\ e.estado = "preparando" /\ ~carga /\ e.archivos > 0
    /\ e' = [e EXCEPT !.estado = "esperando"]
    /\ Arranca
    /\ UNCHANGED <<up, contents, receipt, lote, paso, dado, tab, autorizado, link,
                   pag, faults, history>>
    /\ disco' = Saved'

Guarda ==
    /\ up /\ paso # ""
    /\ disco' = Saved /\ paso' = ""
    /\ UNCHANGED <<up, e, contents, receipt, queues, lote, dado, world>>

\* An end: what can be opened goes first, and what is left is saved after.
Ends(d) ==
    /\ e' = d /\ paso' = d.estado
    /\ Forget(<<>>)
    /\ UNCHANGED <<up, receipt, disco>>

\* The sender withdraws it, or starts another one while this one is being filled.
Revoca ==
    /\ Free /\ e.estado \in Viva
    /\ Ends([e EXCEPT !.estado = "revocada"])
    /\ UNCHANGED <<lote, dado, world>>

\* A tick finds its time gone.
Caduca ==
    /\ Free /\ e.estado \in Viva
    /\ Ends([e EXCEPT !.estado = "caducada"])
    /\ UNCHANGED <<lote, dado, world>>

\* Taken off the list, which the page offers once it has ended: its whole
\* directory goes.
Olvida ==
    /\ Free /\ e.estado \in Ended
    /\ e' = Nada /\ acuse' = "no" /\ recibo' = "no"
    /\ Closes(<<>>) /\ sellados' = {}
    /\ disco' = Saved'
    /\ UNCHANGED <<up, lote, paso, dado, world>>

\* A tick takes what the thread said since the last one.
Toma ==
    /\ Free /\ hilo /\ delHilo # <<>>
    /\ lote' = delHilo /\ delHilo' = <<>>
    /\ UNCHANGED <<up, e, contents, receipt, hilo, alHilo, paso, disco, dado, world>>

Event(t) == up /\ paso = "" /\ lote # <<>> /\ Head(lote).t = t /\ lote' = Tail(lote)

\* An answer to the tab, before anything is saved.
Answers(m) == Told(<<m>>) /\ UNCHANGED <<up, contents, receipt, hilo, delHilo, disco>>

\* `intenta` looks at the clock first: a late code finds its time gone.
LateCode ==
    /\ e.estado \in Viva
    /\ e' = [e EXCEPT !.estado = "caducada"]
    /\ notas' = notas \cup {"tarde"}
    /\ Answers(M("fin")) /\ UNCHANGED <<paso, dado>>

NotOpen == ~MayTry(e) /\ Answers(M("fin")) /\ UNCHANGED <<e, paso, dado>>

WrongCode ==
    /\ MayTry(e) /\ ~Head(lote).bien
    /\ LET d == [e EXCEPT !.fallos = @ + 1] IN
       IF Spent(d.fallos) THEN Ends(Destroyed(d, "codigo_distinto"))
       ELSE e' = d /\ paso' = "mal" /\ Answers(M("mal"))
    /\ UNCHANGED dado

\* The first right code opens it and makes the token, another one in each life.
Life == IF "caida" \in faults THEN 2 ELSE 1

RightCode ==
    /\ MayTry(e) /\ Head(lote).bien
    /\ dado' = dado \cup {Head(lote).de}
    /\ IF e.receptor # 0 /\ ~IsReceiver(e, Head(lote).token)
       THEN Ends(Destroyed(e, "dispositivo_nuevo"))
       ELSE /\ e' = IF e.receptor # 0 THEN e
                    ELSE [e EXCEPT !.receptor = Life, !.estado = "abierta"]
            /\ paso' = "abierta"
            /\ Answers([t |-> "bien", token |-> e'.receptor, de |-> Head(lote).de])

Codigo ==
    /\ Event("codigo")
    /\ LateCode \/ ((NotOpen \/ WrongCode \/ RightCode) /\ UNCHANGED notas)
    /\ UNCHANGED <<thread, link, pag, faults, perdido>>

Recibido ==
    /\ Event("recibido")
    /\ e' = IF e.estado = "abierta" THEN Confirmed(e, Head(lote).i) ELSE e
    /\ IF e.estado = "abierta" /\ e'.estado = "entregada"
       THEN Told(<<M("recibo")>>) /\ acuse' = "espera"
       ELSE UNCHANGED <<alHilo, acuse>>
    /\ UNCHANGED <<up, contents, recibo, hilo, delHilo, paso, dado, world>>
    /\ disco' = IF e.estado = "abierta" THEN Saved' ELSE disco

\* `firma_recibo`: signed and sent with the end, the contents forgotten, then saved.
Firma(quien) ==
    /\ recibo' = quien /\ acuse' = "no" /\ paso' = "entregada"
    /\ Forget(<<[t |-> "final", recibo |-> quien]>>)
    /\ UNCHANGED <<up, e, disco>>

\* A signature that does not check is no receipt: this computer signs alone.
Acuse ==
    /\ Event("acuse")
    /\ IF acuse # "no" THEN \E quien \in {"solo", "dos"} : Firma(quien)
       ELSE UNCHANGED <<up, e, contents, receipt, queues, paso, disco>>
    /\ UNCHANGED <<dado, world>>

Manipulado ==
    /\ Event("manipulado")
    /\ Ends(Destroyed(e, "manipulada"))
    /\ UNCHANGED <<dado, world>>

\* Two minutes for the other signature.
Espera ==
    /\ Free /\ acuse = "espera" /\ acuse' = "vence"
    /\ UNCHANGED <<up, e, contents, recibo, queues, lote, paso, disco, dado, world>>

AcuseVence == Free /\ acuse = "vence" /\ Firma("solo") /\ UNCHANGED <<lote, dado, world>>
-----------------------------------------------------------------------------
(***************************************************************************)
(* The thread of a delivery: `bucle` and `una_vez`.                        *)
(***************************************************************************)
Says(m) == delHilo' = IF hilo THEN Append(delHilo, m) ELSE delHilo

IsBien(m) == m.t = "bien"
Lost(ms) == perdido' = (perdido \/ \E k \in DOMAIN ms : IsBien(ms[k]))

\* Mutant: it waits for the next tab.
Kept(q) == q

\* What the program says while no tab is there is thrown away, and ends the wait.
Discarded(q) == Tail(q)

Ignora ==
    /\ fase \in {"rele", "pausa"} /\ alHilo # <<>> /\ Head(alHilo).t # "fin"
    /\ alHilo' = Discarded(alHilo) /\ Lost(<<Head(alHilo)>>)
    /\ fase' = IF fase = "rele" THEN "pausa" ELSE "rele"
    /\ UNCHANGED <<core, hilo, delHilo, tab, autorizado, link, pag, faults, notas>>

Acaba ==
    /\ fase \in {"rele", "pausa"} /\ alHilo # <<>> /\ Head(alHilo).t = "fin"
    /\ fase' = "no" /\ alHilo' = <<>>
    /\ UNCHANGED <<core, hilo, delHilo, tab, autorizado, link, pag, faults, history>>

Despierta ==
    /\ fase = "pausa"
    /\ Puntual => Free /\ delHilo = <<>> /\ alHilo = <<>>
    /\ fase' = "rele"
    /\ UNCHANGED <<core, queues, tab,
                   autorizado, link, pag, faults, history>>

\* Frames come in; only after the right code of this link are files served.
Frame(t) == fase = "sirve" /\ sube # <<>> /\ Head(sube).t = t /\ sube' = Tail(sube)

ServeCode ==
    /\ Frame("codigo") /\ Says(Head(sube))
    /\ UNCHANGED <<core, hilo, alHilo, thread, baja, roto, pag, faults, history>>

ServePiece ==
    /\ Frame("pide")
    /\ baja' = IF autorizado /\ ~roto
               THEN Append(baja, IF Head(sube).i \in sellados
                                 THEN [t |-> "trozo", i |-> Head(sube).i]
                                 ELSE M("fin"))
               ELSE baja
    /\ UNCHANGED <<core, queues, thread, roto, pag, faults, history>>

ServeWord ==
    /\ Frame("recibido") \/ Frame("acuse")
    /\ IF autorizado THEN Says(Head(sube)) ELSE UNCHANGED delHilo
    /\ UNCHANGED <<core, hilo, alHilo, thread, baja, roto, pag, faults, history>>

\* The link goes: the thread rests and comes back to the relay.
Leaves == fase' = "pausa" /\ tab' = None /\ autorizado' = FALSE /\ roto' = TRUE

ServeBroken ==
    /\ Frame("rota") /\ Says(M("manipulado")) /\ Leaves
    /\ UNCHANGED <<core, hilo, alHilo, baja, pag, faults, history>>

Suelta ==
    /\ fase = "sirve" /\ roto /\ sube = <<>> /\ Leaves
    /\ UNCHANGED <<core, queues, sube, baja,
                   pag, faults, history>>

\* What the program says goes to whoever is at the other end.
Transmite ==
    /\ fase = "sirve" /\ alHilo # <<>>
    /\ LET m == Head(alHilo) IN
       /\ IF roto THEN Lost(<<m>>) /\ UNCHANGED baja
          ELSE baja' = Append(baja, m) /\ UNCHANGED perdido
       /\ IF m.t = "fin"
          THEN fase' = "no" /\ alHilo' = <<>> /\ roto' = TRUE /\ tab' = None
               /\ autorizado' = FALSE /\ sube' = <<>>
          ELSE /\ alHilo' = Tail(alHilo)
               /\ autorizado' = (autorizado \/ IsBien(m))
               /\ UNCHANGED <<fase, tab, roto, sube>>
    /\ UNCHANGED <<core, hilo, delHilo, pag, faults, notas>>
-----------------------------------------------------------------------------
(***************************************************************************)
(* The tabs of the receiver, as the program's side and its tests use them, *)
(* the network, and the life of the program.                               *)
(***************************************************************************)
Fault(kind) ==
    /\ kind \notin faults
    /\ faults' = faults \cup {kind} /\ faults' \in FaultSets

\* Into the link, while it is whole.
Puts(m) == sube' = IF roto THEN sube ELSE Append(sube, m)

Entra(t) ==
    /\ fase = "rele" /\ baja = <<>> /\ \A u \in Tabs : pag[u].at = "fuera"
    /\ ~pag[t].fin
    /\ fase' = "sirve" /\ tab' = t /\ autorizado' = FALSE
    /\ sube' = <<>> /\ roto' = FALSE
    /\ pag' = [pag EXCEPT ![t].at = "entra"]
    /\ UNCHANGED <<core, queues, baja, faults, history>>

Da(t, bien) ==
    /\ pag[t].at = "entra"
    /\ Puts([t |-> "codigo", bien |-> bien, token |-> pag[t].token, de |-> t])
    /\ pag' = [pag EXCEPT ![t].at = "espera"]
    /\ UNCHANGED <<core, queues, thread, baja, roto, faults, history>>

Pide(t, i) ==
    /\ pag[t].at = "abierta" /\ sube = <<>> /\ baja = <<>> /\ ~roto
    /\ i \notin pag[t].tiene
    /\ Puts([t |-> "pide", i |-> i])
    /\ UNCHANGED <<core, queues, thread, baja, roto, pag, faults, history>>

Confirma(t, i) ==
    /\ pag[t].at = "abierta" /\ i \in pag[t].tiene \ pag[t].dicho
    /\ Puts([t |-> "recibido", i |-> i])
    /\ pag' = [pag EXCEPT ![t].dicho = @ \cup {i}]
    /\ UNCHANGED <<core, queues, thread, baja, roto, faults, history>>

Reads(t, m) ==
    CASE m.t = "bien" -> [pag[t] EXCEPT !.at = "abierta", !.token = m.token]
      [] m.t = "mal" -> [pag[t] EXCEPT !.at = "entra"]
      [] m.t = "trozo" -> [pag[t] EXCEPT !.tiene = @ \cup {m.i}]
      [] m.t = "final" -> [pag[t] EXCEPT !.recibo = m.recibo]
      [] m.t = "fin" -> [pag[t] EXCEPT !.fin = TRUE]
      [] OTHER -> pag[t]

Lee(t) ==
    /\ pag[t].at # "fuera" /\ baja # <<>>
    /\ baja' = Tail(baja)
    /\ pag' = [pag EXCEPT ![t] = Reads(t, Head(baja))]
    /\ IF Head(baja).t = "recibo" THEN Puts(M("acuse")) ELSE UNCHANGED sube
    /\ UNCHANGED <<core, queues, thread, roto, faults, history>>

Deja(t) ==
    /\ pag[t].at # "fuera" /\ roto /\ baja = <<>>
    /\ pag' = [pag EXCEPT ![t].at = "fuera", ![t].dicho = {}]
    /\ UNCHANGED <<core, queues, thread, link, faults, history>>

\* The link breaks, or the tab goes: a part of what was on its way arrives.
Corta ==
    /\ fase = "sirve" /\ ~roto /\ Fault("corte")
    /\ roto' = TRUE
    /\ \E k \in 0 .. Len(sube) : sube' = SubSeq(sube, 1, k)
    /\ \E k \in 0 .. Len(baja) :
        baja' = SubSeq(baja, 1, k) /\ Lost(SubSeq(baja, k + 1, Len(baja)))
    /\ UNCHANGED <<core, queues, thread, pag, notas>>

\* A frame that does not open.
Manipula ==
    /\ fase = "sirve" /\ ~roto /\ Fault("trama")
    /\ sube' = Append(sube, M("rota"))
    /\ UNCHANGED <<core, queues, thread, baja, roto, pag, history>>

\* The program dies with its threads, between any two of its steps.
Muere ==
    /\ up /\ Fault("caida")
    /\ up' = FALSE
    /\ notas' = notas \cup ({paso} \ {""})
    /\ hilo' = FALSE /\ alHilo' = <<>> /\ delHilo' = <<>> /\ Lost(alHilo \o baja)
    /\ fase' = "no" /\ tab' = None /\ autorizado' = FALSE
    /\ sube' = <<>> /\ baja' = <<>> /\ roto' = TRUE
    /\ lote' = <<>> /\ paso' = "" /\ acuse' = "no" /\ carga' = FALSE
    /\ UNCHANGED <<e, claves, sellados, recibo, disco, pag, dado>>

\* Mutant: only those that nobody opened come back.
WaitsUnopened(estado) == estado = "esperando"

\* Deliveries that come back to wait for their receiver.
Waits(estado) == estado \in {"esperando", "abierta"}

\* One that was being filled is withdrawn; one that was to be signed stays so.
Vuelve ==
    /\ ~up /\ up' = TRUE
    /\ e' = IF disco.e.estado = "preparando" THEN [disco.e EXCEPT !.estado = "revocada"]
            ELSE disco.e
    /\ claves' = disco.claves /\ recibo' = disco.recibo
    /\ IF Waits(e'.estado) THEN Arranca ELSE UNCHANGED <<queues, fase>>
    /\ notas' = notas
        \cup (IF disco.e.estado = "preparando" THEN {"llenando"} ELSE {})
        \cup (IF disco.e.estado = "entregada" /\ disco.recibo = "no" THEN {"firma"} ELSE {})
    /\ UNCHANGED <<sellados, carga, acuse, lote, paso, disco, dado, tab, autorizado,
                   link, pag, faults, perdido>>

-----------------------------------------------------------------------------
Init ==
    /\ up = TRUE /\ e = [Nada EXCEPT !.estado = "preparando"]
    /\ claves = FALSE /\ sellados = {} /\ carga = FALSE
    /\ acuse = "no" /\ recibo = "no" /\ lote = <<>> /\ paso = ""
    /\ hilo = FALSE /\ alHilo = <<>> /\ delHilo = <<>>
    /\ disco = [e |-> Nada, claves |-> FALSE, recibo |-> "no"]
    /\ fase = "no" /\ tab = None /\ autorizado = FALSE
    /\ sube = <<>> /\ baja = <<>> /\ roto = TRUE
    /\ pag = [t \in Tabs |-> [at |-> "fuera", token |-> 0, tiene |-> {},
                              dicho |-> {}, recibo |-> "no", fin |-> FALSE]]
    /\ faults = {}
    /\ dado = {} /\ perdido = FALSE /\ notas = {}

Events == Codigo \/ Recibido \/ Acuse \/ Manipulado
Serves == ServeCode \/ ServePiece \/ ServeWord \/ ServeBroken

Next ==
    \/ Archivo \/ Trozo \/ Lista \/ Guarda \/ Revoca \/ Caduca \/ Olvida \/ Toma
    \/ Codigo \/ Recibido \/ Acuse \/ Manipulado \/ Espera \/ AcuseVence
    \/ Ignora \/ Acaba \/ Despierta \/ Suelta \/ Transmite
    \/ ServeCode \/ ServePiece \/ ServeWord \/ ServeBroken
    \/ Corta \/ Manipula \/ Muere \/ Vuelve
    \/ \E t \in Tabs :
        \/ Entra(t) \/ Lee(t) \/ Deja(t) \/ \E bien \in BOOLEAN : Da(t, bien)
        \/ \E i \in Files(e) : Pide(t, i) \/ Confirma(t, i)

(***************************************************************************)
(* The program ticks five times a second, waits for a signature two        *)
(* minutes and comes back when it died; the thread runs while there is one;*)
(* and a tab that has given the right code keeps at it.                    *)
(***************************************************************************)
Program == Guarda \/ Toma \/ Events \/ Espera \/ AcuseVence \/ Vuelve
Thread == Ignora \/ Acaba \/ Despierta \/ Suelta \/ Transmite \/ Serves
Receiver(t) ==
    \/ Lee(t) \/ Deja(t) \/ (t \in dado /\ (Entra(t) \/ Da(t, TRUE)))
    \/ \E i \in Files(e) : Pide(t, i) \/ Confirma(t, i)

Fairness == WF_vars(Program) /\ WF_vars(Thread) /\ \A t \in Tabs : WF_vars(Receiver(t))

Spec == Init /\ [][Next]_vars /\ Fairness
-----------------------------------------------------------------------------
DeliveryType ==
    [estado : {"nada"} \cup Viva \cup Ended,
     motivo : {"", "codigo_distinto", "dispositivo_nuevo", "manipulada"},
     archivos : 0 .. MaxArchivos, fallos : 0 .. INTENTOS,
     receptor : 0 .. 2, recibidos : SUBSET (1 .. MaxArchivos)]

TypeOK ==
    /\ up \in BOOLEAN /\ e \in DeliveryType /\ disco.e \in DeliveryType
    /\ {claves, carga, hilo, autorizado, roto, perdido, disco.claves} \subseteq BOOLEAN
    /\ sellados \subseteq 1 .. MaxArchivos
    /\ acuse \in {"no", "espera", "vence"} /\ recibo \in {"no", "solo", "dos"}
    /\ fase \in {"no", "rele", "sirve", "pausa"} /\ tab \in Tabs \cup {None}
    /\ dado \subseteq Tabs
    /\ \A t \in Tabs : /\ pag[t].at \in {"fuera", "entra", "espera", "abierta"}
                       /\ pag[t].dicho \subseteq pag[t].tiene

\* A tab that was given the files' keys.
Opened(t) == pag[t].token # 0

\* "The first receiver that gives the right code is the only one" (secure
\* entrega.rs:19): the files' keys reach a tab that gave the right code, and
\* one alone, unless the program died with the first one's token not saved; and
\* a delivery is destroyed for "a new device" only when another tab brought the
\* right code, or the token never got to the one that gave it (279-286).
OneReceiver ==
    /\ \A t \in Tabs : Opened(t) => t \in dado
    /\ Cardinality({t \in Tabs : Opened(t)}) > 1 => "abierta" \in notas
    /\ e.motivo = "dispositivo_nuevo" => perdido \/ Cardinality(dado) > 1

\* A receipt says that all was received: one tab that gave the code has every
\* file, and both sides keep the same receipt, unless the program died with it
\* sent and not saved (secure entrega.rs:4-5; zero entrega.rs:704-714).
ReceiptIsEarned ==
    /\ up /\ recibo # "no" =>
        \E t \in dado : Files(e) \subseteq pag[t].tiene
    /\ \A t \in Tabs : up /\ e.estado # "nada" /\ pag[t].recibo # "no" =>
        pag[t].recibo = recibo \/ "entregada" \in notas

\* "Nothing of the delivery can be opened any more" (zero entrega.rs:299) after
\* every end that the program handles, whatever else was on its way: no key is
\* held nor, once it is saved, on the disk, and no file of the delivery's list is
\* left.  A file that was still going in when it was withdrawn or expired may be,
\* and nothing of one that was offered.  What a late code finds expired and what
\* a restart finds withdrawn or unsigned keep everything, which the marks say.
EndForgets ==
    /\ up /\ e.estado \in Ended
    /\ acuse = "no" /\ notas \cap {"tarde", "llenando", "firma"} = {}
    => /\ ~claves /\ ~carga
       /\ paso = "" => ~disco.claves
       /\ sellados \cap Files(e) = {}
       /\ e.estado \in {"entregada", "destruida"} => sellados = {}

\* A receiver who keeps at it is not left half way: an open delivery whose files
\* are there ends, and what was delivered is signed unless a restart forgot it.
Alone == \E t \in dado : ~pag[t].fin /\ \A u \in Tabs \ {t} : pag[u].at = "fuera"

FinishesAndSigns ==
    /\ ~<>[](e.estado = "abierta" /\ Files(e) \subseteq sellados /\ Alone)
    /\ e.estado = "entregada" ~>
        (recibo # "no" \/ e.estado # "entregada" \/ "firma" \in notas)
=============================================================================
