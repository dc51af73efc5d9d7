---------------------------- MODULE SecureLayer ----------------------------
(***************************************************************************)
(* The post-quantum layer of one GUARDIANA SECURE conversation: the chains *)
(* of crates/secure/src/cuantico.rs and the way crates/zero/src/secure.rs  *)
(* drives them, with a link that drops, is found again at the relay, and a *)
(* watch that stops either side for a while.                               *)
(*                                                                         *)
(* Side 0 offers an ML-KEM key (`llave`), side 1 answers with a secret for *)
(* it (`cifrado`) and renews at once; side 0 renews when the answer comes. *)
(* A layer is its root, here the sequence of the secrets mixed into it, so *)
(* that the epoch is its length and two chains have the same keys exactly  *)
(* when their roots are equal.  The epoch's byte wraps after 256 renewals: *)
(* it names an epoch without doubt while the sides are at most one apart.  *)
(*                                                                         *)
(* Olm, the relay and the contents are abstracted: `dato` stands for every *)
(* payload that is not part of the exchange.  A link keeps the order and   *)
(* loses a tail.  Destruction on an anomaly is on, as it is by default.    *)
(***************************************************************************)
EXTENDS Integers, Sequences

CONSTANTS
    MaxData,    \* bound: payloads the persons or the program send
    MaxOffers,  \* bound: offers made by the clock or the count stop here
    MaxDrops,   \* bound: links that drop
    MaxPauses,  \* bound: stops of the watch
    Skip        \* the farthest number `abre` skips to (4096)

ASSUME BoundsAssumption ==
    /\ MaxData \in Nat /\ MaxOffers \in Nat /\ MaxDrops \in Nat /\ MaxPauses \in Nat
    /\ Skip \in Nat

VARIABLES
    fase,       \* "abriendo", "lista" or "sola" of each side
    enlace,     \* "vivo", "ninguno" (looking at the relay) or "nuevo" (not greeted)
    viva,       \* whether the network still carries the link
    canal,      \* what travels to each side, in order
    estado,     \* "marcha" or "pausada" of each side
    capa,       \* the layer of each side, or NoLayer
    visto,      \* cuantico_visto of each side
    oferta,     \* side 0: the offer without an answer, 0 if none
    count,      \* how many data, offers, drops and pauses there were
    perdidas,   \* history: kinds of message that were lost or never left
    alarma,     \* history: the incident each side blamed on the other, "" if none
    tirado      \* history: a message that arrived was thrown away in silence

history == <<perdidas, alarma, tirado>>
vars == <<fase, enlace, viva, canal, estado, capa, visto, oferta, count, history>>

Sides == {0, 1}
-----------------------------------------------------------------------------
(***************************************************************************)
(* The layer.                                                              *)
(***************************************************************************)
NoLayer == [raiz |-> <<>>, envio |-> 0, recibo |-> 0, anterior |-> {}]

HasLayer(c) == c.raiz # <<>>

\* Mutant of Renewed: what the other side sealed before is forgotten.
RenewedAlone(c, k) ==
    [raiz |-> Append(c.raiz, k), envio |-> 0, recibo |-> 0, anterior |-> {}]

\* Capa::nueva without a layer, Capa::renueva with one.
Renewed(c, k) ==
    [raiz |-> Append(c.raiz, k), envio |-> 0, recibo |-> 0,
     anterior |-> IF HasLayer(c) THEN {c.recibo} ELSE {}]

Reaches(from, n) == from <= n /\ n - from <= Skip

Current(c, q) == q.raiz = c.raiz /\ Reaches(c.recibo, q.n)

Previous(c, q) ==
    /\ c.raiz # <<>> /\ q.raiz = SubSeq(c.raiz, 1, Len(c.raiz) - 1)
    /\ \E from \in c.anterior : Reaches(from, q.n)

Moved(c, q) ==
    IF q.raiz = c.raiz THEN [c EXCEPT !.recibo = q.n + 1, !.anterior = {}]
    ELSE [c EXCEPT !.anterior = {q.n + 1}]

-----------------------------------------------------------------------------
(***************************************************************************)
(* Sending.  `manda_olm` seals with the layer of the moment, also when     *)
(* there is no link to carry it, and does nothing while stopped.           *)
(***************************************************************************)
Dato == [m |-> "dato", de |-> <<0, 0>>]
Llave(o) == [m |-> "llave", de |-> <<o, 0>>]
Cifrado(k) == [m |-> "cifrado", de |-> k]

EnMarcha(s) == estado[s] = "marcha"

Sealed(s, c, ps) ==
    IF EnMarcha(s)
    THEN [i \in 1 .. Len(ps) |->
             [m |-> ps[i].m, de |-> ps[i].de,
              sello |-> [raiz |-> c.raiz,
                         n |-> IF HasLayer(c) THEN c.envio + i - 1 ELSE 0]]]
    ELSE <<>>

AfterSealing(s, c, ps) ==
    IF EnMarcha(s) /\ HasLayer(c) THEN [c EXCEPT !.envio = @ + Len(ps)] ELSE c

Frame(kind) == [m |-> kind, de |-> <<0, 0>>, sello |-> [raiz |-> <<>>, n |-> 0]]

Travels(s) == enlace[s] # "ninguno" /\ viva /\ fase[1 - s] # "sola"

Kinds(ms) == {ms[i].m : i \in 1 .. Len(ms)} \cap {"llave", "cifrado"}

\* Side s has read `mine` of its own channel and puts `ms` into the other's.
Put(s, mine, ms) ==
    canal' = [x \in Sides |->
                 IF x = s THEN mine
                 ELSE IF Travels(s) THEN canal[x] \o ms ELSE canal[x]]

\* The payloads ps, with the channel of s at `mine` and its layer at c before.
Sends(s, mine, c, ps) ==
    /\ Put(s, mine, Sealed(s, c, ps))
    /\ perdidas' = IF EnMarcha(s) /\ Travels(s) THEN perdidas ELSE perdidas \cup Kinds(ps)

\* Mutant of Restarts: the stop outlives its conversation.
StaysStopped(s) == UNCHANGED estado

\* A pause belongs to the conversation that had the incident.
Restarts(s) == estado' = [estado EXCEPT ![s] = "marcha"]

\* `cerrar`: frames to the other side, then everything of the talk is forgotten.
Closes(s, frames, left) ==
    /\ Put(s, <<>>, frames)
    /\ fase' = [fase EXCEPT ![s] = "sola"]
    /\ enlace' = [enlace EXCEPT ![s] = "ninguno"]
    /\ Restarts(s)
    /\ capa' = [capa EXCEPT ![s] = left]
    /\ visto' = [visto EXCEPT ![s] = FALSE]
    /\ oferta' = IF s = 0 THEN 0 ELSE oferta
-----------------------------------------------------------------------------
Lista(s) == fase[s] = "lista" /\ enlace[s] # "nuevo"

\* A person writes, or the program says something of its own.
Say(s) ==
    /\ Lista(s) /\ EnMarcha(s) /\ count.data < MaxData
    /\ Sends(s, canal[s], capa[s], <<Dato>>)
    /\ capa' = [capa EXCEPT ![s] = AfterSealing(s, capa[s], <<Dato>>)]
    /\ count' = [count EXCEPT !.data = @ + 1]
    /\ UNCHANGED <<fase, enlace, viva, estado, visto, oferta, alarma, tirado>>

\* Mutant of MayOffer: a new offer does not wait for the answer to the last.
OfferAnyway == TRUE

MayOffer == oferta = 0

\* cuantico_empieza when 50 messages or ten minutes of an epoch have passed.
Renew ==
    /\ Lista(0) /\ EnMarcha(0) /\ HasLayer(capa[0]) /\ MayOffer
    /\ count.offers < MaxOffers
    /\ LET ps == <<Llave(count.offers + 1)>>
       IN  /\ Sends(0, canal[0], capa[0], ps)
           /\ capa' = [capa EXCEPT ![0] = AfterSealing(0, capa[0], ps)]
    /\ oferta' = count.offers + 1
    /\ count' = [count EXCEPT !.offers = @ + 1]
    /\ UNCHANGED <<fase, enlace, viva, estado, visto, alarma, tirado>>
-----------------------------------------------------------------------------
(***************************************************************************)
(* Receiving: `olm`, `cuantico_abre` and `carga` in one step.              *)
(***************************************************************************)
Hears(s) == fase[s] # "sola" /\ enlace[s] = "vivo" /\ canal[s] # <<>>

Message(s) == Head(canal[s])
IsSealed(q) == q.raiz # <<>>

\* A plain payload passes until the other side has used the layer.
Passes(s) ==
    LET q == Message(s).sello
    IN  IF IsSealed(q) THEN Current(capa[s], q) \/ Previous(capa[s], q)
        ELSE ~ (HasLayer(capa[s]) /\ visto[s])

Opened(s) ==
    LET q == Message(s).sello
    IN  IF IsSealed(q) THEN Moved(capa[s], q) ELSE capa[s]

SeesLayer(s) == visto' = [visto EXCEPT ![s] = @ \/ IsSealed(Message(s).sello)]

\* The first envelope opens the conversation on side 1, which says what it can do.
ReadFirst ==
    /\ Hears(1) /\ fase[1] = "abriendo" /\ Message(1).m = "dato"
    /\ fase' = [fase EXCEPT ![1] = "lista"]
    /\ Sends(1, Tail(canal[1]), capa[1], <<Dato>>)
    /\ UNCHANGED <<enlace, viva, estado, capa, visto, oferta, count, alarma, tirado>>

ReadData(s) ==
    /\ Hears(s) /\ fase[s] = "lista" /\ Message(s).m = "dato" /\ Passes(s)
    /\ Put(s, Tail(canal[s]), <<>>)
    /\ capa' = [capa EXCEPT ![s] = Opened(s)]
    /\ SeesLayer(s)
    /\ UNCHANGED <<fase, enlace, viva, estado, oferta, count, history>>

NextSecret(o, c) == <<o, Len(c.raiz) + 1>>

\* Mutant of AnswerSeal: side 1 renews before it answers.
SealAfter(c, k) == Renewed(c, k)

AnswerSeal(c, k) == c

\* pq_llave: the answer goes under the epoch of before; then the layer is renewed,
\* whether or not the answer left.
ReadKey ==
    /\ Hears(1) /\ fase[1] = "lista" /\ Message(1).m = "llave" /\ Passes(1)
    /\ LET c == Opened(1)
           k == NextSecret(Message(1).de[1], c)
       IN  /\ Sends(1, Tail(canal[1]), AnswerSeal(c, k), <<Cifrado(k)>>)
           /\ capa' = [capa EXCEPT ![1] = Renewed(c, k)]
    /\ SeesLayer(1)
    /\ UNCHANGED <<fase, enlace, viva, estado, oferta, count, alarma, tirado>>

\* The writer of a dead link refuses the answer: `cerrar`, and then a layer that stays.
ReadKeyFails ==
    /\ Hears(1) /\ fase[1] = "lista" /\ Message(1).m = "llave" /\ Passes(1)
    /\ ~ viva /\ EnMarcha(1)
    /\ Closes(1, <<>>, Renewed(NoLayer, NextSecret(Message(1).de[1], NoLayer)))
    /\ perdidas' = perdidas \cup {"cifrado"}
    /\ UNCHANGED <<viva, count, alarma, tirado>>

\* pq_cifrado: a ciphertext for another key gives another secret, not an error.
Decapsulated(k) == IF k[1] = oferta THEN k ELSE <<oferta, 0>>

\* Mutant of Taken: the offer is read and left where it was.
OfferKept == oferta

Taken == 0

ReadAnswer ==
    /\ Hears(0) /\ Message(0).m = "cifrado" /\ Passes(0)
    /\ Put(0, Tail(canal[0]), <<>>)
    /\ capa' = [capa EXCEPT
           ![0] = IF oferta = 0 THEN Opened(0)
                  ELSE Renewed(Opened(0), Decapsulated(Message(0).de))]
    /\ oferta' = Taken
    /\ SeesLayer(0)
    /\ UNCHANGED <<fase, enlace, viva, estado, count, history>>

\* Sealed, and this side has no layer yet: nothing is said.
Discard(s) ==
    /\ Hears(s) /\ fase[s] = "lista"
    /\ IsSealed(Message(s).sello) /\ ~ HasLayer(capa[s])
    /\ Put(s, Tail(canal[s]), <<>>)
    /\ tirado' = TRUE
    /\ UNCHANGED <<fase, enlace, viva, estado, capa, visto, oferta, count, perdidas, alarma>>

\* cuantico_mal and cuantico_degradado: the incident, and the conversation is destroyed.
Refuse(s) ==
    /\ Hears(s) /\ fase[s] = "lista" /\ Message(s).m \notin {"adios", "destruir"}
    /\ HasLayer(capa[s]) /\ ~ Passes(s)
    /\ alarma' = [alarma EXCEPT
           ![s] = IF IsSealed(Message(s).sello) THEN "mal" ELSE "degradado"]
    /\ Closes(s, <<Frame("destruir"), Frame("adios")>>, NoLayer)
    /\ UNCHANGED <<viva, count, perdidas, tirado>>

ReadEnd(s) ==
    /\ Hears(s) /\ Message(s).m \in {"adios", "destruir"}
    /\ Closes(s, <<Frame("adios")>>, NoLayer)
    /\ UNCHANGED <<viva, count, history>>
-----------------------------------------------------------------------------
(***************************************************************************)
(* The link, the watch and the end.                                        *)
(***************************************************************************)
\* The network takes the tail of what travels in each direction.
Drop ==
    /\ viva /\ count.drops < MaxDrops
    /\ viva' = FALSE
    /\ \E kept \in [Sides -> 0 .. Len(canal[0]) + Len(canal[1])] :
        /\ \A s \in Sides : kept[s] <= Len(canal[s])
        /\ canal' = [s \in Sides |-> SubSeq(canal[s], 1, kept[s])]
        /\ perdidas' = perdidas \cup
               UNION {Kinds(SubSeq(canal[s], kept[s] + 1, Len(canal[s]))) : s \in Sides}
    /\ count' = [count EXCEPT !.drops = @ + 1]
    /\ UNCHANGED <<fase, enlace, estado, capa, visto, oferta, alarma, tirado>>

\* `Cerrado` after the last frame that came: empieza_reconexion keeps the layer and the
\* offer.  A conversation that was not open yet is closed.
Notice(s) ==
    /\ enlace[s] = "vivo" /\ ~ viva /\ canal[s] = <<>> /\ fase[s] # "sola"
    /\ IF fase[s] = "lista"
       THEN /\ enlace' = [enlace EXCEPT ![s] = "ninguno"]
            /\ UNCHANGED <<fase, canal, estado, capa, visto, oferta>>
       ELSE Closes(s, <<Frame("adios")>>, NoLayer)
    /\ UNCHANGED <<viva, count, history>>

\* Both derive the same room and the relay joins them.
Meet ==
    /\ \A s \in Sides : fase[s] = "lista" /\ enlace[s] = "ninguno"
    /\ viva' = TRUE
    /\ enlace' = [s \in Sides |-> "nuevo"]
    /\ UNCHANGED <<fase, canal, estado, capa, visto, oferta, count, history>>

\* `Conectado` in a reconnection: the device is said again, side 0 offers unless an offer
\* waits, and an offer made while stopped never leaves.
Resume(s) ==
    /\ enlace[s] = "nuevo"
    /\ enlace' = [enlace EXCEPT ![s] = "vivo"]
    /\ LET offers == s = 0 /\ MayOffer
           ps == IF offers THEN <<Dato, Llave(count.offers + 1)>> ELSE <<Dato>>
       IN  /\ Sends(s, canal[s], capa[s], ps)
           /\ capa' = [capa EXCEPT ![s] = AfterSealing(s, capa[s], ps)]
           /\ oferta' = IF offers THEN count.offers + 1 ELSE oferta
           /\ count' = IF offers THEN [count EXCEPT !.offers = @ + 1] ELSE count
    /\ UNCHANGED <<fase, viva, estado, visto, alarma, tirado>>

\* `vigia`: a program already at the microphone stops the talk while it goes on.
Pause(s) ==
    /\ Lista(s) /\ EnMarcha(s) /\ count.pauses < MaxPauses
    /\ estado' = [estado EXCEPT ![s] = "pausada"]
    /\ count' = [count EXCEPT !.pauses = @ + 1]
    /\ UNCHANGED <<fase, enlace, viva, canal, capa, visto, oferta, history>>

Continue(s) ==
    /\ Lista(s) /\ ~ EnMarcha(s)
    /\ estado' = [estado EXCEPT ![s] = "marcha"]
    /\ UNCHANGED <<fase, enlace, viva, canal, capa, visto, oferta, count, history>>

\* The person closes; a frame sent on a link whose writer has gone; five minutes alone.
Close(s) ==
    /\ Lista(s) /\ enlace[s] = "vivo" /\ viva
    /\ Closes(s, <<Frame("adios")>>, NoLayer)
    /\ UNCHANGED <<viva, count, history>>

SendFails(s) ==
    /\ fase[s] = "lista" /\ enlace[s] = "vivo" /\ ~ viva
    /\ Closes(s, <<>>, NoLayer)
    /\ UNCHANGED <<viva, count, history>>

GiveUp(s) ==
    /\ fase[s] = "lista" /\ enlace[s] = "ninguno"
    /\ Closes(s, <<>>, NoLayer)
    /\ UNCHANGED <<viva, count, history>>
-----------------------------------------------------------------------------
\* Side 0 has opened the conversation: its greeting and its first offer are on their way.
Init ==
    /\ fase = [s \in Sides |-> IF s = 0 THEN "lista" ELSE "abriendo"]
    /\ enlace = [s \in Sides |-> "vivo"]
    /\ viva = TRUE
    /\ canal = [s \in Sides |->
           IF s = 0 THEN <<>>
           ELSE <<[m |-> "dato", de |-> <<0, 0>>, sello |-> [raiz |-> <<>>, n |-> 0]],
                  [m |-> "llave", de |-> <<1, 0>>, sello |-> [raiz |-> <<>>, n |-> 0]]>>]
    /\ estado = [s \in Sides |-> "marcha"]
    /\ capa = [s \in Sides |-> NoLayer]
    /\ visto = [s \in Sides |-> FALSE]
    /\ oferta = 1
    /\ count = [data |-> 0, offers |-> 1, drops |-> 0, pauses |-> 0]
    /\ perdidas = {}
    /\ alarma = [s \in Sides |-> ""]
    /\ tirado = FALSE

Reads(s) == ReadData(s) \/ Discard(s) \/ Refuse(s) \/ ReadEnd(s)

Next ==
    \/ Renew \/ ReadFirst \/ ReadKey \/ ReadKeyFails \/ ReadAnswer \/ Drop \/ Meet
    \/ \E s \in Sides :
        \/ Reads(s) \/ Say(s) \/ Notice(s) \/ Resume(s) \/ Pause(s) \/ Continue(s)
        \/ Close(s) \/ SendFails(s) \/ GiveUp(s)

\* Each side's tick goes on reading what came and greeting a new link.
Fairness ==
    /\ WF_vars(ReadFirst) /\ WF_vars(ReadKey) /\ WF_vars(ReadAnswer)
    /\ \A s \in Sides : WF_vars(Reads(s)) /\ WF_vars(Resume(s)) /\ WF_vars(Notice(s))

Spec == Init /\ [][Next]_vars /\ Fairness
-----------------------------------------------------------------------------
\* A secret: the offer it answers and which one of the layer it is.
Secret == Nat \X Nat

SealType == [raiz : Seq(Secret), n : Nat]

LayerType == [raiz : Seq(Secret), envio : Nat, recibo : Nat, anterior : SUBSET Nat]

MessageType ==
    [m : {"dato", "llave", "cifrado", "adios", "destruir"}, de : Secret, sello : SealType]

\* Every part of the state keeps its shape; a side that is alone has no link and is
\* not stopped.
TypeOK ==
    /\ fase \in [Sides -> {"abriendo", "lista", "sola"}]
    /\ enlace \in [Sides -> {"vivo", "ninguno", "nuevo"}]
    /\ viva \in BOOLEAN
    /\ canal \in [Sides -> Seq(MessageType)]
    /\ estado \in [Sides -> {"marcha", "pausada"}]
    /\ capa \in [Sides -> LayerType]
    /\ visto \in [Sides -> BOOLEAN]
    /\ oferta \in Nat
    /\ count \in [data : Nat, offers : Nat, drops : Nat, pauses : Nat]
    /\ perdidas \subseteq {"llave", "cifrado"}
    /\ alarma \in [Sides -> {"", "mal", "degradado"}]
    /\ tirado \in BOOLEAN
    /\ \A s \in Sides : fase[s] = "sola" => enlace[s] = "ninguno" /\ estado[s] = "marcha"

\* cuantico.rs:170-183, secure.rs:2401-2411: whatever is dropped, stopped or renewed, the two
\* sides of an open conversation mix the same secrets in the same order, and side 1 is never
\* behind nor more than one ahead: the epoch's byte is enough to tell the epochs apart.
RootsNeverFork ==
    \A c \in {capa[0].raiz}, d \in {capa[1].raiz} :
        fase[0] = "lista" /\ fase[1] = "lista" =>
            /\ Len(c) <= Len(d) /\ Len(d) <= Len(c) + 1
            /\ c = SubSeq(d, 1, Len(c))

\* cuantico.rs:112-114 and 247-297: a renewal in the middle of a talk refuses nothing and
\* throws nothing away, unless the answer of side 1 was lost with a link or, because side 1
\* was stopped, never left.
NothingRefused ==
    "cifrado" \notin perdidas => ~ tirado /\ \A s \in Sides : alarma[s] = ""

\* secure.rs:2313-2324: an offer is answered, unless one of the two messages never got there
\* or the conversation ended.
OfferAnswered ==
    (oferta # 0) ~> (oferta = 0 \/ perdidas # {} \/ \E s \in Sides : fase[s] = "sola")
=============================================================================
