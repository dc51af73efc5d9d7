------------------------- MODULE SecureLayerProofs -------------------------
(***************************************************************************)
(* What holds of the post-quantum layer for every number of payloads,      *)
(* offers, drops and pauses: the state keeps its type, the secrets the two *)
(* sides mix never fork, and nothing that travels is refused.              *)
(*                                                                         *)
(* The last needs to know of every message on its way that its reader can  *)
(* open it: in which order the messages of one root come and with which    *)
(* numbers (Rising, Comes0, Comes1), what the two sides know of each other *)
(* (Sync), and that no number is farther than a layer skips (Numbers).     *)
(***************************************************************************)
EXTENDS SecureLayer, TLAPS

CountType == [data : Nat, offers : Nat, drops : Nat, pauses : Nat]

Payload == [m : {"dato", "llave", "cifrado"}, de : Secret]

\* No message of this kind in q; and at most one, which carries d.
NoneOf(q, kind) == \A i \in 1 .. Len(q) : q[i].m # kind

Once(q, kind, d) ==
    \A i \in 1 .. Len(q) : q[i].m = kind =>
        q[i].de = d /\ \A j \in 1 .. Len(q) : q[j].m = kind => j = i

-----------------------------------------------------------------------------
\* What reading the first message leaves (`try_recv`).
LEMMA TailKeeps ==
    ASSUME NEW q \in Seq(MessageType), q # <<>>, NEW kind, NEW d
    PROVE  /\ Head(q) \in MessageType /\ Head(q) = q[1] /\ Tail(q) \in Seq(MessageType)
           /\ NoneOf(q, kind) => Head(q).m # kind /\ NoneOf(Tail(q), kind)
           /\ Once(q, kind, d) => Once(Tail(q), kind, d)
           /\ Once(q, kind, d) /\ Head(q).m = kind =>
                  Head(q).de = d /\ NoneOf(Tail(q), kind)
<1>1. /\ Len(q) \in Nat /\ Len(q) # 0 /\ Len(Tail(q)) = Len(q) - 1
      /\ Head(q) \in MessageType /\ Head(q) = q[1] /\ Tail(q) \in Seq(MessageType)
  OBVIOUS
<1>2. \A i \in 1 .. Len(Tail(q)) : Tail(q)[i] = q[i + 1] /\ i + 1 \in 1 .. Len(q)
  BY <1>1
<1>3. 1 \in 1 .. Len(q)
  BY <1>1
<1>4. NoneOf(q, kind) => Head(q).m # kind /\ NoneOf(Tail(q), kind)
  BY <1>1, <1>2, <1>3 DEF NoneOf
<1>5. Once(q, kind, d) => Once(Tail(q), kind, d)
  <2>1. ASSUME Once(q, kind, d), NEW i \in 1 .. Len(Tail(q)), Tail(q)[i].m = kind
        PROVE  Tail(q)[i].de = d
    BY <2>1, <1>2 DEF Once
  <2>2. ASSUME Once(q, kind, d), NEW i \in 1 .. Len(Tail(q)), Tail(q)[i].m = kind,
               NEW j \in 1 .. Len(Tail(q)), Tail(q)[j].m = kind
        PROVE  j = i
    <3>1. j + 1 = i + 1
      BY <2>2, <1>2 DEF Once
    <3> QED
      BY <3>1, <1>1
  <2> QED
    BY <2>1, <2>2 DEF Once
<1>6. Once(q, kind, d) /\ Head(q).m = kind => Head(q).de = d /\ NoneOf(Tail(q), kind)
  <2>1. ASSUME Once(q, kind, d), q[1].m = kind, NEW i \in 1 .. Len(Tail(q)),
               Tail(q)[i].m = kind
        PROVE  FALSE
    <3>1. i + 1 = 1
      BY <2>1, <1>2, <1>3 DEF Once
    <3> QED
      BY <3>1, <1>1
  <2>2. Once(q, kind, d) /\ q[1].m = kind => q[1].de = d
    BY <1>3 DEF Once
  <2> QED
    BY <2>1, <2>2, <1>1 DEF NoneOf
<1> QED
  BY <1>1, <1>4, <1>5, <1>6

\* What sending leaves: the new messages come after the ones that travel already.
LEMMA JoinKeeps ==
    ASSUME NEW q \in Seq(MessageType), NEW r \in Seq(MessageType), NEW kind, NEW d
    PROVE  /\ q \o r \in Seq(MessageType)
           /\ NoneOf(q, kind) /\ NoneOf(r, kind) => NoneOf(q \o r, kind)
           /\ Once(q, kind, d) /\ NoneOf(r, kind) => Once(q \o r, kind, d)
           /\ NoneOf(q, kind) /\ Once(r, kind, d) => Once(q \o r, kind, d)
<1> DEFINE w == q \o r
<1>1. /\ w \in Seq(MessageType) /\ Len(w) = Len(q) + Len(r)
      /\ Len(q) \in Nat /\ Len(r) \in Nat
  OBVIOUS
<1>2. \A i \in 1 .. Len(w) :
          \/ i \in 1 .. Len(q) /\ w[i] = q[i]
          \/ i - Len(q) \in 1 .. Len(r) /\ w[i] = r[i - Len(q)]
  BY <1>1
<1>3. NoneOf(q, kind) /\ NoneOf(r, kind) => NoneOf(w, kind)
  <2> HIDE DEF w
  <2> QED
    BY <1>2 DEF NoneOf
<1>4. Once(q, kind, d) /\ NoneOf(r, kind) => Once(w, kind, d)
  <2> HIDE DEF w
  <2> QED
    BY <1>2 DEF NoneOf, Once
<1>5. NoneOf(q, kind) /\ Once(r, kind, d) => Once(w, kind, d)
  <2> HIDE DEF w
  <2>1. ASSUME NoneOf(q, kind), Once(r, kind, d), NEW i \in 1 .. Len(w), w[i].m = kind
        PROVE  w[i].de = d
    BY <2>1, <1>2 DEF NoneOf, Once
  <2>2. ASSUME NoneOf(q, kind), Once(r, kind, d), NEW i \in 1 .. Len(w), w[i].m = kind,
               NEW j \in 1 .. Len(w), w[j].m = kind
        PROVE  j = i
    <3>1. /\ i - Len(q) \in 1 .. Len(r) /\ r[i - Len(q)].m = kind
          /\ j - Len(q) \in 1 .. Len(r) /\ r[j - Len(q)].m = kind
      BY <2>2, <1>2 DEF NoneOf
    <3>2. i - Len(q) = j - Len(q)
      BY <2>2, <3>1 DEF Once
    <3> QED
      BY <3>2, <1>1
  <2> QED
    BY <2>1, <2>2 DEF Once
<1> QED
  BY <1>1, <1>3, <1>4, <1>5

\* What a dropped link leaves: a prefix of what travelled.
LEMMA CutKeeps ==
    ASSUME NEW q \in Seq(MessageType), NEW n \in 0 .. Len(q), NEW kind, NEW d
    PROVE  /\ SubSeq(q, 1, n) \in Seq(MessageType)
           /\ NoneOf(q, kind) => NoneOf(SubSeq(q, 1, n), kind)
           /\ Once(q, kind, d) => Once(SubSeq(q, 1, n), kind, d)
<1> DEFINE w == SubSeq(q, 1, n)
<1>1. w \in Seq(MessageType) /\ Len(w) = n /\ Len(q) \in Nat
  OBVIOUS
<1>2. \A i \in 1 .. Len(w) : i \in 1 .. Len(q) /\ w[i] = q[i]
  BY <1>1
<1> HIDE DEF w
<1>3. NoneOf(q, kind) => NoneOf(w, kind)
  BY <1>2 DEF NoneOf
<1>4. Once(q, kind, d) => Once(w, kind, d)
  BY <1>2 DEF Once
<1> QED
  BY <1>1, <1>3, <1>4 DEF w
-----------------------------------------------------------------------------
\* What `abre`, `sella` and `renueva` do to a layer.
LEMMA LayerKeeps ==
    ASSUME NEW c \in LayerType
    PROVE  /\ \A q \in SealType : Moved(c, q) \in LayerType /\ Moved(c, q).raiz = c.raiz
           /\ \A k \in Secret : Renewed(c, k) \in LayerType /\ Renewed(c, k).raiz = Append(c.raiz, k)
           /\ \A s, ps : Len(ps) \in Nat =>
                  /\ AfterSealing(s, c, ps) \in LayerType
                  /\ AfterSealing(s, c, ps).raiz = c.raiz
<1>1. ASSUME NEW q \in SealType PROVE Moved(c, q) \in LayerType /\ Moved(c, q).raiz = c.raiz
  <2>1. q.n + 1 \in Nat /\ {q.n + 1} \in SUBSET Nat
    BY DEF SealType
  <2> DEFINE n == q.n + 1
             x == [c EXCEPT !.recibo = n, !.anterior = {}]
             y == [c EXCEPT !.anterior = {n}]
  <2>2. Moved(c, q) \in {x, y}
    BY DEF Moved
  <2>3. /\ x \in LayerType /\ x.raiz = c.raiz
        /\ y \in LayerType /\ y.raiz = c.raiz
    <3> HIDE DEF n
    <3>1. n \in Nat
      BY <2>1 DEF n
    <3> QED
      BY <3>1 DEF LayerType
  <2> HIDE DEF x, y
  <2> QED
    BY <2>2, <2>3
<1>2. ASSUME NEW k \in Secret
      PROVE  Renewed(c, k) \in LayerType /\ Renewed(c, k).raiz = Append(c.raiz, k)
  BY DEF Renewed, LayerType
<1>3. ASSUME NEW s, NEW ps, Len(ps) \in Nat
      PROVE  AfterSealing(s, c, ps) \in LayerType /\ AfterSealing(s, c, ps).raiz = c.raiz
  BY <1>3 DEF AfterSealing, LayerType
<1> QED
  BY <1>1, <1>2, <1>3

LEMMA NoLayerType == NoLayer \in LayerType /\ NoLayer.raiz = <<>>
  BY DEF NoLayer, LayerType, Secret

\* A sealed payload says what the payload said.
LEMMA SealedKeeps ==
    ASSUME NEW s, NEW c \in LayerType, NEW ps \in Seq(Payload), NEW kind, NEW d
    PROVE  /\ Sealed(s, c, ps) \in Seq(MessageType)
           /\ NoneOf(ps, kind) => NoneOf(Sealed(s, c, ps), kind)
           /\ Once(ps, kind, d) => Once(Sealed(s, c, ps), kind, d)
<1>1. CASE EnMarcha(s)
  <2> DEFINE w == Sealed(s, c, ps)
             num(i) == IF HasLayer(c) THEN c.envio + i - 1 ELSE 0
  <2>1. w = [i \in 1 .. Len(ps) |->
                [m |-> ps[i].m, de |-> ps[i].de,
                 sello |-> [raiz |-> c.raiz, n |-> num(i)]]]
    BY <1>1 DEF Sealed
  <2>2. \A i \in 1 .. Len(ps) : num(i) \in Nat
    BY DEF LayerType
  <2>3. \A i \in 1 .. Len(ps) : ps[i] \in Payload
    OBVIOUS
  <2>4. \A i \in 1 .. Len(ps) :
            [m |-> ps[i].m, de |-> ps[i].de, sello |-> [raiz |-> c.raiz, n |-> num(i)]]
                \in MessageType
    <3> HIDE DEF num
    <3> QED
      BY <2>2, <2>3 DEF MessageType, Payload, SealType, LayerType
  <2>5. Len(ps) \in Nat
    OBVIOUS
  <2> HIDE DEF num
  <2>6. w \in Seq(MessageType) /\ Len(w) = Len(ps)
    <3>1. w \in [1 .. Len(ps) -> MessageType]
      BY <2>1, <2>4
    <3> HIDE DEF w
    <3> QED
      BY <3>1, <2>5
  <2>7. \A i \in 1 .. Len(ps) : w[i].m = ps[i].m /\ w[i].de = ps[i].de
    BY <2>1
  <2> HIDE DEF w
  <2> QED
    BY <2>6, <2>7 DEF NoneOf, Once, w
<1>2. CASE ~ EnMarcha(s)
  <2>1. Sealed(s, c, ps) = <<>>
    BY <1>2 DEF Sealed
  <2>2. <<>> \in Seq(MessageType) /\ Len(<<>>) = 0
    OBVIOUS
  <2> QED
    BY <2>1, <2>2 DEF NoneOf, Once
<1> QED
  BY <1>1, <1>2

LEMMA PutKeeps ==
    ASSUME TypeOK, NEW s \in Sides, NEW mine \in Seq(MessageType),
           NEW ms \in Seq(MessageType), Put(s, mine, ms)
    PROVE  /\ canal' \in [Sides -> Seq(MessageType)]
           /\ canal'[s] = mine /\ 1 - s \in Sides
           /\ canal'[1 - s] \in {canal[1 - s], canal[1 - s] \o ms}
<1>1. 1 - s \in Sides /\ 1 - s # s /\ canal \in [Sides -> Seq(MessageType)]
  <2>1. canal \in [Sides -> Seq(MessageType)]
    BY DEF TypeOK
  <2>2. s = 0 \/ s = 1
    BY DEF Sides
  <2>3. 1 - s \in {0, 1} /\ 1 - s # s
    BY <2>2
  <2> QED
    BY <2>1, <2>3 DEF Sides
<1>2. \A x \in Sides : canal[x] \o ms \in Seq(MessageType) /\ canal[x] \in Seq(MessageType)
  BY <1>1
<1> QED
  BY <1>1, <1>2 DEF Put

\* One step of `manda_olm`: what the other side's channel carries afterwards.
LEMMA SendsKeeps ==
    ASSUME TypeOK, NEW s \in Sides, NEW mine \in Seq(MessageType), NEW c \in LayerType,
           NEW ps \in Seq(Payload), Sends(s, mine, c, ps), NEW kind, NEW d
    PROVE  /\ canal' \in [Sides -> Seq(MessageType)] /\ canal'[s] = mine
           /\ perdidas' \subseteq {"llave", "cifrado"}
           /\ NoneOf(canal[1 - s], kind) /\ NoneOf(ps, kind) => NoneOf(canal'[1 - s], kind)
           /\ Once(canal[1 - s], kind, d) /\ NoneOf(ps, kind) => Once(canal'[1 - s], kind, d)
           /\ NoneOf(canal[1 - s], kind) /\ Once(ps, kind, d) => Once(canal'[1 - s], kind, d)
<1> DEFINE ms == Sealed(s, c, ps)
<1>1. /\ ms \in Seq(MessageType)
      /\ NoneOf(ps, kind) => NoneOf(ms, kind)
      /\ Once(ps, kind, d) => Once(ms, kind, d)
  BY SealedKeeps
<1>2. Put(s, mine, ms) /\ perdidas' \subseteq {"llave", "cifrado"}
  BY DEF Sends, TypeOK, Kinds
<1> HIDE DEF ms
<1>3. /\ canal' \in [Sides -> Seq(MessageType)]
      /\ canal'[s] = mine /\ 1 - s \in Sides
      /\ canal'[1 - s] \in {canal[1 - s], canal[1 - s] \o ms}
  BY <1>1, <1>2, PutKeeps
<1>4. canal[1 - s] \in Seq(MessageType)
  BY <1>3 DEF TypeOK
<1>5. NoneOf(canal[1 - s], kind) => Once(canal[1 - s], kind, d)
  BY DEF NoneOf, Once
<1>6. /\ NoneOf(canal[1 - s], kind) /\ NoneOf(ms, kind) => NoneOf(canal[1 - s] \o ms, kind)
      /\ Once(canal[1 - s], kind, d) /\ NoneOf(ms, kind) => Once(canal[1 - s] \o ms, kind, d)
      /\ NoneOf(canal[1 - s], kind) /\ Once(ms, kind, d) => Once(canal[1 - s] \o ms, kind, d)
  BY <1>1, <1>4, JoinKeeps
<1> HIDE DEF ms
<1>7. CASE canal'[1 - s] = canal[1 - s]
  BY <1>1, <1>2, <1>3, <1>5, <1>7
<1>8. CASE canal'[1 - s] = canal[1 - s] \o ms
  BY <1>1, <1>2, <1>3, <1>6, <1>8
<1> QED
  BY <1>3, <1>7, <1>8
-----------------------------------------------------------------------------
LEMMA FrameType ==
    ASSUME NEW kind \in {"adios", "destruir"}
    PROVE  Frame(kind) \in MessageType
  BY DEF Frame, MessageType, Secret, SealType

\* What the head of a channel is, and the layer after it was opened.
LEMMA MessageKeeps ==
    ASSUME TypeOK, NEW s \in Sides, Hears(s)
    PROVE  /\ canal[s] \in Seq(MessageType) /\ canal[s] # <<>>
           /\ Message(s) \in MessageType /\ Tail(canal[s]) \in Seq(MessageType)
           /\ Message(s).sello \in SealType /\ Message(s).de \in Secret
           /\ Message(s).de[1] \in Nat
           /\ Opened(s) \in LayerType /\ Opened(s).raiz = capa[s].raiz
<1>1. canal[s] \in Seq(MessageType) /\ canal[s] # <<>> /\ capa[s] \in LayerType
  BY DEF TypeOK, Hears
<1>2. Message(s) \in MessageType /\ Tail(canal[s]) \in Seq(MessageType)
  BY <1>1, TailKeeps DEF Message
<1>3. Message(s).sello \in SealType /\ Message(s).de \in Secret
  BY <1>2 DEF MessageType
<1>4. Message(s).de[1] \in Nat
  BY <1>3 DEF Secret
<1>5. Opened(s) \in LayerType /\ Opened(s).raiz = capa[s].raiz
  <2>1. Opened(s) \in {capa[s], Moved(capa[s], Message(s).sello)}
    BY DEF Opened
  <2> QED
    BY <2>1, <1>1, <1>3, LayerKeeps
<1> QED
  BY <1>1, <1>2, <1>3, <1>4, <1>5

LEMMA ClosesKeeps ==
    ASSUME TypeOK, NEW s \in Sides, NEW frames \in Seq(MessageType), NEW left \in LayerType,
           Closes(s, frames, left)
    PROVE  /\ fase' \in [Sides -> {"abriendo", "lista", "sola"}]
           /\ enlace' \in [Sides -> {"vivo", "ninguno", "nuevo"}]
           /\ canal' \in [Sides -> Seq(MessageType)]
           /\ estado' \in [Sides -> {"marcha", "pausada"}]
           /\ capa' \in [Sides -> LayerType]
           /\ visto' \in [Sides -> BOOLEAN]
           /\ oferta' \in Nat
           /\ fase'[s] = "sola"
           /\ \A x \in Sides : fase'[x] = "sola" => enlace'[x] = "ninguno" /\ estado'[x] = "marcha"
<1>1. canal' \in [Sides -> Seq(MessageType)]
  <2>1. <<>> \in Seq(MessageType) /\ Put(s, <<>>, frames)
    BY DEF Closes
  <2> QED
    BY <2>1, PutKeeps
<1> QED
  BY <1>1 DEF TypeOK, Closes, Restarts

LEMMA PayloadTypes ==
    /\ <<Dato>> \in Seq(Payload)
    /\ \A o \in Nat : Llave(o) \in Payload /\ <<Llave(o)>> \in Seq(Payload)
    /\ \A k \in Secret : <<Cifrado(k)>> \in Seq(Payload)
    /\ \A o \in Nat : <<Dato, Llave(o)>> \in Seq(Payload)
<1>1. Dato \in Payload
  BY DEF Dato, Payload, Secret
<1>2. \A o \in Nat : Llave(o) \in Payload
  BY DEF Llave, Payload, Secret
<1>3. \A k \in Secret : Cifrado(k) \in Payload
  BY DEF Cifrado, Payload
<1> QED
  BY <1>1, <1>2, <1>3

LEMMA SecretTypes ==
    ASSUME TypeOK, NEW o \in Nat, NEW c \in LayerType, NEW k \in Secret
    PROVE  NextSecret(o, c) \in Secret /\ Decapsulated(k) \in Secret
<1>1. Len(c.raiz) + 1 \in Nat /\ oferta \in Nat
  <2>1. c.raiz \in Seq(Secret) /\ oferta \in Nat
    BY DEF LayerType, TypeOK
  <2> QED
    BY <2>1
<1> QED
  BY <1>1 DEF NextSecret, Decapsulated, Secret
-----------------------------------------------------------------------------
\* A step that sends leaves the type when the layer it leaves has one.
LEMMA SendingType ==
    ASSUME TypeOK, NEW s \in Sides, NEW mine \in Seq(MessageType), NEW c \in LayerType,
           NEW ps \in Seq(Payload), Sends(s, mine, c, ps)
    PROVE  /\ canal' \in [Sides -> Seq(MessageType)]
           /\ perdidas' \subseteq {"llave", "cifrado"}
<1> QED
  BY SendsKeeps

LEMMA CountKeeps ==
    ASSUME NEW c \in CountType
    PROVE  /\ [c EXCEPT !.data = @ + 1] \in CountType
           /\ [c EXCEPT !.offers = @ + 1] \in CountType
           /\ [c EXCEPT !.drops = @ + 1] \in CountType
           /\ [c EXCEPT !.pauses = @ + 1] \in CountType
  BY DEF CountType

\* crates/zero/src/secure.rs: the state of a conversation keeps its type in every step.
THEOREM TypeCorrect == Spec => []TypeOK
<1>1. Init => TypeOK
  <2> SUFFICES ASSUME Init PROVE TypeOK
    OBVIOUS
  <2>1. canal \in [Sides -> Seq(MessageType)]
    <3> DEFINE m1 == [m |-> "dato", de |-> <<0, 0>>, sello |-> [raiz |-> <<>>, n |-> 0]]
               m2 == [m |-> "llave", de |-> <<1, 0>>, sello |-> [raiz |-> <<>>, n |-> 0]]
    <3>1. m1 \in MessageType /\ m2 \in MessageType
      BY DEF MessageType, SealType, Secret
    <3>2. canal = [s \in Sides |-> IF s = 0 THEN <<>> ELSE <<m1, m2>>]
      BY DEF Init
    <3> HIDE DEF m1, m2
    <3> QED
      BY <3>1, <3>2
  <2>2. capa \in [Sides -> LayerType]
    BY NoLayerType DEF Init
  <2>3. count \in CountType
    BY DEF Init, CountType
  <2> QED
    BY <2>1, <2>2, <2>3 DEF Init, TypeOK, CountType
<1>2. TypeOK /\ [Next]_vars => TypeOK'
  <2> SUFFICES ASSUME TypeOK, [Next]_vars PROVE TypeOK'
    OBVIOUS
  <2>a. /\ canal \in [Sides -> Seq(MessageType)] /\ capa \in [Sides -> LayerType]
        /\ count \in CountType
        /\ count.offers + 1 \in Nat /\ 0 \in Sides /\ 1 \in Sides
    <3>1. count \in CountType
      BY DEF TypeOK, CountType
    <3>2. count.offers \in Nat
      BY <3>1 DEF CountType
    <3>3. canal \in [Sides -> Seq(MessageType)] /\ capa \in [Sides -> LayerType]
      BY DEF TypeOK
    <3>4. 0 \in Sides /\ 1 \in Sides
      BY DEF Sides
    <3> QED
      BY <3>1, <3>2, <3>3, <3>4
  <2>b. <<>> \in Seq(MessageType) /\ <<Frame("adios")>> \in Seq(MessageType)
        /\ <<Frame("destruir"), Frame("adios")>> \in Seq(MessageType)
    BY FrameType
  <2>1. CASE Renew
    <3> DEFINE ps == <<Llave(count.offers + 1)>>
    <3>1. ps \in Seq(Payload) /\ Len(ps) \in Nat
      BY <2>a, PayloadTypes
    <3>2. canal[0] \in Seq(MessageType) /\ capa[0] \in LayerType
      BY <2>a
    <3>3. Sends(0, canal[0], capa[0], ps) /\ capa' = [capa EXCEPT ![0] = AfterSealing(0, capa[0], ps)]
      BY <2>1 DEF Renew
    <3> HIDE DEF ps
    <3>4. canal' \in [Sides -> Seq(MessageType)] /\ perdidas' \subseteq {"llave", "cifrado"}
      BY <3>1, <3>2, <3>3, <2>a, SendingType
    <3>5. capa' \in [Sides -> LayerType]
      BY <3>1, <3>2, <3>3, <2>a, LayerKeeps
    <3>6. count' \in CountType
      BY <2>1, <2>a, CountKeeps DEF Renew
    <3> QED
      BY <3>4, <3>5, <3>6, <2>a, <2>1 DEF Renew, TypeOK, CountType
  <2>2. CASE ReadFirst
    <3>1. Hears(1) /\ Sends(1, Tail(canal[1]), capa[1], <<Dato>>)
      BY <2>2 DEF ReadFirst
    <3>2. Tail(canal[1]) \in Seq(MessageType)
      BY <3>1, <2>a, MessageKeeps
    <3>3. canal' \in [Sides -> Seq(MessageType)] /\ perdidas' \subseteq {"llave", "cifrado"}
      BY <3>1, <3>2, <2>a, PayloadTypes, SendingType
    <3>4. /\ fase' \in [Sides -> {"abriendo", "lista", "sola"}]
          /\ \A x \in Sides : fase'[x] = "sola" => fase[x] = "sola"
      BY <2>2, <2>a DEF ReadFirst, TypeOK
    <3>5. UNCHANGED <<enlace, viva, estado, capa, visto, oferta, count, alarma, tirado>>
      BY <2>2 DEF ReadFirst
    <3> QED
      BY <3>3, <3>4, <3>5 DEF TypeOK, CountType
  <2>3. CASE ReadKey
    <3> DEFINE c == Opened(1)
               k == NextSecret(Message(1).de[1], c)
               ps == <<Cifrado(k)>>
    <3>1. /\ Hears(1) /\ Sends(1, Tail(canal[1]), c, ps)
          /\ capa' = [capa EXCEPT ![1] = Renewed(c, k)]
      BY <2>3 DEF ReadKey, AnswerSeal
    <3>2. /\ Tail(canal[1]) \in Seq(MessageType) /\ c \in LayerType
          /\ Message(1).de[1] \in Nat /\ Message(1).de \in Secret
      BY <3>1, <2>a, MessageKeeps
    <3>3. k \in Secret
      BY <3>2, SecretTypes
    <3>4. ps \in Seq(Payload)
      BY <3>3, PayloadTypes
    <3> HIDE DEF c, k, ps
    <3>5. canal' \in [Sides -> Seq(MessageType)] /\ perdidas' \subseteq {"llave", "cifrado"}
      BY <3>1, <3>2, <3>4, <2>a, SendingType
    <3>6. capa' \in [Sides -> LayerType]
      BY <3>1, <3>2, <3>3, <2>a, LayerKeeps
    <3> QED
      BY <3>5, <3>6, <2>3 DEF ReadKey, SeesLayer, IsSealed, TypeOK, CountType
  <2>4. CASE ReadKeyFails
    <3> DEFINE k == NextSecret(Message(1).de[1], NoLayer)
    <3>1. Hears(1) /\ Closes(1, <<>>, Renewed(NoLayer, k))
      BY <2>4 DEF ReadKeyFails
    <3>2. Message(1).de[1] \in Nat /\ Message(1).de \in Secret
      BY <3>1, <2>a, MessageKeeps
    <3>3. Renewed(NoLayer, k) \in LayerType
      BY <3>2, SecretTypes, NoLayerType, LayerKeeps
    <3> HIDE DEF k
    <3>4. perdidas' \subseteq {"llave", "cifrado"}
      BY <2>4 DEF ReadKeyFails, TypeOK, CountType
    <3> QED
      BY <3>1, <3>3, <3>4, <2>a, <2>b, <2>4, ClosesKeeps DEF ReadKeyFails, TypeOK, CountType
  <2>5. CASE ReadAnswer
    <3>1. /\ Hears(0) /\ Put(0, Tail(canal[0]), <<>>)
          /\ capa' = [capa EXCEPT
                 ![0] = IF oferta = 0 THEN Opened(0)
                        ELSE Renewed(Opened(0), Decapsulated(Message(0).de))]
      BY <2>5 DEF ReadAnswer
    <3>2. /\ Tail(canal[0]) \in Seq(MessageType) /\ Opened(0) \in LayerType
          /\ Message(0).de \in Secret
      BY <3>1, <2>a, MessageKeeps
    <3>3. canal' \in [Sides -> Seq(MessageType)]
      BY <3>1, <3>2, <2>a, <2>b, PutKeeps
    <3>4. Renewed(Opened(0), Decapsulated(Message(0).de)) \in LayerType
      BY <3>2, <2>a, SecretTypes, LayerKeeps
    <3>5. capa' \in [Sides -> LayerType]
      BY <3>1, <3>2, <3>4, <2>a
    <3> QED
      BY <3>3, <3>5, <2>5 DEF ReadAnswer, Taken, SeesLayer, IsSealed, TypeOK, history, CountType
  <2>6. CASE Drop
    <3>1. PICK kept \in [Sides -> 0 .. Len(canal[0]) + Len(canal[1])] :
              /\ \A s \in Sides : kept[s] <= Len(canal[s])
              /\ canal' = [s \in Sides |-> SubSeq(canal[s], 1, kept[s])]
              /\ perdidas' = perdidas \cup
                     UNION {Kinds(SubSeq(canal[s], kept[s] + 1, Len(canal[s]))) : s \in Sides}
      BY <2>6 DEF Drop
    <3>2. \A s \in Sides : SubSeq(canal[s], 1, kept[s]) \in Seq(MessageType)
      <4> SUFFICES ASSUME NEW s \in Sides PROVE SubSeq(canal[s], 1, kept[s]) \in Seq(MessageType)
        OBVIOUS
      <4>1. canal[s] \in Seq(MessageType) /\ Len(canal[s]) \in Nat
        BY <2>a
      <4>2. kept[s] \in 0 .. Len(canal[s])
        <5>1. kept[s] \in 0 .. Len(canal[0]) + Len(canal[1]) /\ kept[s] <= Len(canal[s])
          BY <3>1
        <5> QED
          BY <5>1, <4>1
      <4> QED
        BY <4>1, <4>2, CutKeeps
    <3>3. canal' \in [Sides -> Seq(MessageType)]
      BY <3>1, <3>2
    <3>4. perdidas' \subseteq {"llave", "cifrado"}
      <4>1. \A s \in Sides : Kinds(SubSeq(canal[s], kept[s] + 1, Len(canal[s])))
                                  \subseteq {"llave", "cifrado"}
        BY DEF Kinds
      <4>2. perdidas \subseteq {"llave", "cifrado"}
        BY DEF TypeOK
      <4> QED
        BY <3>1, <4>1, <4>2, Zenon
    <3>5. count' \in CountType
      BY <2>6, <2>a, CountKeeps DEF Drop
    <3> QED
      BY <3>3, <3>4, <3>5, <2>6 DEF Drop, TypeOK, CountType
  <2>7. CASE Meet
    BY <2>7 DEF Meet, TypeOK, history, CountType
  <2>8. ASSUME NEW s \in Sides, ReadData(s) PROVE TypeOK'
    <3>1. Hears(s) /\ Put(s, Tail(canal[s]), <<>>) /\ capa' = [capa EXCEPT ![s] = Opened(s)]
      BY <2>8 DEF ReadData
    <3>2. Tail(canal[s]) \in Seq(MessageType) /\ Opened(s) \in LayerType
      BY <3>1, MessageKeeps
    <3>3. canal' \in [Sides -> Seq(MessageType)]
      BY <3>1, <3>2, <2>b, PutKeeps
    <3>4. capa' \in [Sides -> LayerType]
      BY <3>1, <3>2, <2>a
    <3> QED
      BY <3>3, <3>4, <2>8 DEF ReadData, SeesLayer, IsSealed, TypeOK, history, CountType
  <2>9. ASSUME NEW s \in Sides, Discard(s) PROVE TypeOK'
    <3>1. Hears(s) /\ Put(s, Tail(canal[s]), <<>>)
      BY <2>9 DEF Discard
    <3>2. Tail(canal[s]) \in Seq(MessageType)
      BY <3>1, MessageKeeps
    <3>3. canal' \in [Sides -> Seq(MessageType)]
      BY <3>1, <3>2, <2>b, PutKeeps
    <3> QED
      BY <3>3, <2>9 DEF Discard, TypeOK, CountType
  <2>10. ASSUME NEW s \in Sides, Refuse(s) PROVE TypeOK'
    <3>1. Closes(s, <<Frame("destruir"), Frame("adios")>>, NoLayer)
      BY <2>10 DEF Refuse
    <3>2. alarma' \in [Sides -> {"", "mal", "degradado"}]
      BY <2>10 DEF Refuse, TypeOK, CountType
    <3> QED
      BY <3>1, <3>2, <2>b, <2>10, NoLayerType, ClosesKeeps DEF Refuse, TypeOK, CountType
  <2>11. ASSUME NEW s \in Sides, ReadEnd(s) \/ Close(s) PROVE TypeOK'
    <3>1. Closes(s, <<Frame("adios")>>, NoLayer) /\ UNCHANGED <<viva, count, history>>
      BY <2>11 DEF ReadEnd, Close
    <3> QED
      BY <3>1, <2>b, NoLayerType, ClosesKeeps DEF TypeOK, history, CountType
  <2>12. ASSUME NEW s \in Sides, SendFails(s) \/ GiveUp(s) PROVE TypeOK'
    <3>1. Closes(s, <<>>, NoLayer) /\ UNCHANGED <<viva, count, history>>
      BY <2>12 DEF SendFails, GiveUp
    <3> QED
      BY <3>1, <2>b, NoLayerType, ClosesKeeps DEF TypeOK, history, CountType
  <2>13. ASSUME NEW s \in Sides, Say(s) PROVE TypeOK'
    <3>1. /\ Sends(s, canal[s], capa[s], <<Dato>>)
          /\ capa' = [capa EXCEPT ![s] = AfterSealing(s, capa[s], <<Dato>>)]
          /\ Len(<<Dato>>) \in Nat
      BY <2>13 DEF Say
    <3>2. canal' \in [Sides -> Seq(MessageType)] /\ perdidas' \subseteq {"llave", "cifrado"}
      BY <3>1, <2>a, PayloadTypes, SendingType
    <3>3. capa' \in [Sides -> LayerType]
      BY <3>1, <2>a, LayerKeeps
    <3>4. count' \in CountType
      BY <2>13, <2>a, CountKeeps DEF Say
    <3> QED
      BY <3>2, <3>3, <3>4, <2>13 DEF Say, TypeOK, CountType
  <2>14. ASSUME NEW s \in Sides, Notice(s) PROVE TypeOK'
    <3>1. CASE fase[s] = "lista"
      BY <3>1, <2>14 DEF Notice, TypeOK, history, CountType
    <3>2. CASE fase[s] # "lista"
      <4>1. Closes(s, <<Frame("adios")>>, NoLayer) /\ UNCHANGED <<viva, count, history>>
        BY <3>2, <2>14 DEF Notice
      <4> QED
        BY <4>1, <2>b, NoLayerType, ClosesKeeps DEF TypeOK, history, CountType
    <3> QED
      BY <3>1, <3>2
  <2>15. ASSUME NEW s \in Sides, Resume(s) PROVE TypeOK'
    <3> DEFINE offers == s = 0 /\ MayOffer
               ps == IF offers THEN <<Dato, Llave(count.offers + 1)>> ELSE <<Dato>>
    <3>1. /\ Sends(s, canal[s], capa[s], ps)
          /\ capa' = [capa EXCEPT ![s] = AfterSealing(s, capa[s], ps)]
          /\ oferta' = IF offers THEN count.offers + 1 ELSE oferta
          /\ count' = IF offers THEN [count EXCEPT !.offers = @ + 1] ELSE count
      BY <2>15 DEF Resume
    <3>2. ps \in Seq(Payload)
      <4>1. CASE offers
        BY <4>1, <2>a, PayloadTypes
      <4>2. CASE ~ offers
        BY <4>2, PayloadTypes
      <4> QED
        BY <4>1, <4>2
    <3>3. Len(ps) \in Nat
      BY <3>2
    <3> HIDE DEF ps, offers
    <3>4. canal' \in [Sides -> Seq(MessageType)] /\ perdidas' \subseteq {"llave", "cifrado"}
      BY <3>1, <3>2, <2>a, SendingType
    <3>5. capa' \in [Sides -> LayerType]
      BY <3>1, <3>3, <2>a, LayerKeeps
    <3>6. oferta' \in Nat /\ count' \in CountType
      BY <3>1, <2>a, CountKeeps DEF TypeOK
    <3>7. \A x \in Sides : fase[x] = "sola" => enlace'[x] = "ninguno"
      BY <2>15 DEF Resume, TypeOK, CountType
    <3> QED
      BY <3>4, <3>5, <3>6, <3>7, <2>15 DEF Resume, TypeOK, CountType
  <2>16. ASSUME NEW s \in Sides, Pause(s) PROVE TypeOK'
    <3>1. count' \in CountType
      BY <2>16, <2>a, CountKeeps DEF Pause
    <3> QED
      BY <3>1, <2>16 DEF Pause, Lista, TypeOK, history, CountType
  <2>17. ASSUME NEW s \in Sides, Continue(s) PROVE TypeOK'
    BY <2>17 DEF Continue, Lista, TypeOK, history, CountType
  <2>18. CASE UNCHANGED vars
    BY <2>18 DEF vars, history, TypeOK, CountType
  <2> QED
    BY <2>1, <2>2, <2>3, <2>4, <2>5, <2>6, <2>7, <2>8, <2>9, <2>10, <2>11, <2>12, <2>13,
       <2>14, <2>15, <2>16, <2>17, <2>18 DEF Next, Reads
<1> QED
  BY <1>1, <1>2, PTL DEF Spec
-----------------------------------------------------------------------------
\* The exchange while nobody has closed: either both sides have mixed the same secrets, no
\* answer travels and at most one key does, for the offer that waits; or side 1 is one
\* secret ahead, no key travels and at most the answer with that secret does.
Even ==
    /\ capa[0].raiz = capa[1].raiz
    /\ NoneOf(canal[0], "cifrado")
    /\ Once(canal[1], "llave", <<oferta, 0>>)
    /\ oferta = 0 => NoneOf(canal[1], "llave")

NewSecret == <<oferta, Len(capa[0].raiz) + 1>>

Ahead ==
    /\ oferta # 0
    /\ capa[1].raiz = Append(capa[0].raiz, NewSecret)
    /\ NoneOf(canal[1], "llave")
    /\ Once(canal[0], "cifrado", NewSecret)

BothIn == fase[0] = "lista" /\ fase[1] # "sola"

Exchange == BothIn => Even \/ Ahead

LEMMA PayloadKinds ==
    /\ NoneOf(<<Dato>>, "llave") /\ NoneOf(<<Dato>>, "cifrado")
    /\ \A o : /\ NoneOf(<<Llave(o)>>, "cifrado") /\ Once(<<Llave(o)>>, "llave", <<o, 0>>)
              /\ NoneOf(<<Dato, Llave(o)>>, "cifrado")
              /\ Once(<<Dato, Llave(o)>>, "llave", <<o, 0>>)
    /\ \A k : NoneOf(<<Cifrado(k)>>, "llave") /\ Once(<<Cifrado(k)>>, "cifrado", k)
<1>1. NoneOf(<<Dato>>, "llave") /\ NoneOf(<<Dato>>, "cifrado")
  BY DEF NoneOf, Dato
<1>2. ASSUME NEW o
      PROVE  /\ NoneOf(<<Llave(o)>>, "cifrado") /\ Once(<<Llave(o)>>, "llave", <<o, 0>>)
             /\ NoneOf(<<Dato, Llave(o)>>, "cifrado")
             /\ Once(<<Dato, Llave(o)>>, "llave", <<o, 0>>)
  <2>1. NoneOf(<<Llave(o)>>, "cifrado") /\ Once(<<Llave(o)>>, "llave", <<o, 0>>)
    BY DEF NoneOf, Once, Llave
  <2>2. NoneOf(<<Dato, Llave(o)>>, "cifrado") /\ Once(<<Dato, Llave(o)>>, "llave", <<o, 0>>)
    BY DEF NoneOf, Once, Dato, Llave
  <2> QED
    BY <2>1, <2>2
<1>3. ASSUME NEW k PROVE NoneOf(<<Cifrado(k)>>, "llave") /\ Once(<<Cifrado(k)>>, "cifrado", k)
  BY DEF NoneOf, Once, Cifrado
<1> QED
  BY <1>1, <1>2, <1>3

\* A step that reads no key and no answer and sends none.
Quiet ==
    \A x \in Sides, kind \in {"llave", "cifrado"} :
        /\ NoneOf(canal[x], kind) => NoneOf(canal'[x], kind)
        /\ \A d : Once(canal[x], kind, d) => Once(canal'[x], kind, d)

LEMMA QuietKeeps ==
    ASSUME Exchange, BothIn' => BothIn, Quiet, oferta' = oferta,
           capa'[0].raiz = capa[0].raiz, capa'[1].raiz = capa[1].raiz
    PROVE  Exchange'
<1>1. NewSecret' = NewSecret
  BY DEF NewSecret
<1>2. Even => Even'
  BY DEF Even, Quiet, Sides
<1>3. Ahead => Ahead'
  <2>1. Once(canal[0], "cifrado", NewSecret) => Once(canal'[0], "cifrado", NewSecret)
    BY DEF Quiet, Sides
  <2>2. NoneOf(canal[1], "llave") => NoneOf(canal'[1], "llave")
    BY DEF Quiet, Sides
  <2> QED
    BY <1>1, <2>1, <2>2 DEF Ahead
<1> QED
  BY <1>2, <1>3 DEF Exchange

LEMMA OtherSide ==
    ASSUME NEW s \in Sides
    PROVE  1 - s \in Sides /\ \A x \in Sides : x = s \/ x = 1 - s
<1>1. s = 0 \/ s = 1
  BY DEF Sides
<1> QED
  BY <1>1 DEF Sides

\* Sending data alone, having read nothing or one message, is quiet.
LEMMA SendsQuiet ==
    ASSUME TypeOK, NEW s \in Sides, NEW mine, NEW c \in LayerType,
           mine = canal[s] \/ (canal[s] # <<>> /\ mine = Tail(canal[s])),
           Sends(s, mine, c, <<Dato>>)
    PROVE  Quiet
<1>1. canal[s] \in Seq(MessageType) /\ <<Dato>> \in Seq(Payload)
  BY PayloadTypes DEF TypeOK
<1>2. mine \in Seq(MessageType)
  <2>1. canal[s] # <<>> => Tail(canal[s]) \in Seq(MessageType)
    BY <1>1
  <2> QED
    BY <1>1, <2>1
<1> SUFFICES ASSUME NEW x \in Sides, NEW kind \in {"llave", "cifrado"}, NEW d
             PROVE  /\ NoneOf(canal[x], kind) => NoneOf(canal'[x], kind)
                    /\ Once(canal[x], kind, d) => Once(canal'[x], kind, d)
  BY DEF Quiet
<1>3. NoneOf(<<Dato>>, kind)
  BY PayloadKinds
<1>4. CASE x = s
  <2>1. canal'[s] = mine
    BY <1>1, <1>2, SendsKeeps
  <2>2. CASE mine = canal[s]
    <3>1. canal'[x] = canal[x]
      BY <1>4, <2>1, <2>2
    <3> QED
      BY <3>1
  <2>3. CASE canal[s] # <<>> /\ mine = Tail(canal[s])
    <3>1. /\ canal'[x] = Tail(canal[x]) /\ canal[x] # <<>>
          /\ canal[x] \in Seq(MessageType)
      BY <1>1, <1>4, <2>1, <2>3
    <3> QED
      BY <3>1, TailKeeps
  <2> QED
    BY <2>2, <2>3
<1>5. CASE x = 1 - s
  BY <1>1, <1>2, <1>3, <1>5, SendsKeeps
<1> QED
  BY <1>4, <1>5, OtherSide

\* So is reading one message and sending nothing.
LEMMA ReadsQuiet ==
    ASSUME TypeOK, NEW s \in Sides, canal[s] # <<>>, Put(s, Tail(canal[s]), <<>>)
    PROVE  Quiet
<1>1. canal[s] \in Seq(MessageType) /\ <<>> \in Seq(MessageType)
  <2>1. canal \in [Sides -> Seq(MessageType)]
    BY DEF TypeOK
  <2>2. <<>> \in Seq(MessageType)
    OBVIOUS
  <2> QED
    BY <2>1, <2>2
<1>2. Tail(canal[s]) \in Seq(MessageType)
  BY <1>1, TailKeeps
<1>3. /\ canal'[s] = Tail(canal[s]) /\ 1 - s \in Sides
      /\ canal'[1 - s] \in {canal[1 - s], canal[1 - s] \o <<>>}
  BY <1>1, <1>2, PutKeeps
<1>4. canal[1 - s] \in Seq(MessageType)
  BY <1>3 DEF TypeOK
<1>5. canal[1 - s] \o <<>> = canal[1 - s]
  BY <1>4
<1> SUFFICES ASSUME NEW x \in Sides, NEW kind \in {"llave", "cifrado"}, NEW d
             PROVE  /\ NoneOf(canal[x], kind) => NoneOf(canal'[x], kind)
                    /\ Once(canal[x], kind, d) => Once(canal'[x], kind, d)
  BY DEF Quiet
<1>6. CASE x = s
  BY <1>1, <1>3, <1>6, TailKeeps
<1>7. CASE x = 1 - s
  BY <1>3, <1>5, <1>7
<1> QED
  BY <1>6, <1>7, OtherSide
-----------------------------------------------------------------------------
LEMMA ExchangeInit == Init => Exchange
<1> SUFFICES ASSUME Init PROVE Even
  BY DEF Exchange
<1> DEFINE seal == [raiz |-> <<>>, n |-> 0]
           m1 == [m |-> "dato", de |-> <<0, 0>>, sello |-> seal]
           m2 == [m |-> "llave", de |-> <<1, 0>>, sello |-> seal]
<1>1. canal[0] = <<>> /\ canal[1] = <<m1, m2>> /\ oferta = 1 /\ capa[0].raiz = capa[1].raiz
  <2>1. canal = [s \in Sides |-> IF s = 0 THEN <<>> ELSE <<m1, m2>>]
    BY DEF Init
  <2>2. oferta = 1 /\ capa = [s \in Sides |-> NoLayer]
    BY DEF Init
  <2>3. 0 \in Sides /\ 1 \in Sides
    BY DEF Sides
  <2> HIDE DEF m1, m2
  <2> QED
    BY <2>1, <2>2, <2>3
<1>2. NoneOf(<<>>, "cifrado")
  BY DEF NoneOf
<1>3. m1.m = "dato" /\ m2.m = "llave" /\ m2.de = <<1, 0>>
  OBVIOUS
<1> HIDE DEF m1, m2
<1>4. Once(<<m1, m2>>, "llave", <<1, 0>>)
  BY <1>3 DEF Once
<1> QED
  BY <1>1, <1>2, <1>4 DEF Even

LEMMA ExchangeStep == TypeOK /\ Exchange /\ [Next]_vars => Exchange'
<1> SUFFICES ASSUME TypeOK, Exchange, [Next]_vars PROVE Exchange'
  OBVIOUS
<1>a. /\ canal \in [Sides -> Seq(MessageType)] /\ capa \in [Sides -> LayerType]
      /\ oferta \in Nat
  BY DEF TypeOK
<1>b. 0 \in Sides /\ 1 \in Sides /\ 1 - 0 = 1 /\ 1 - 1 = 0
  BY DEF Sides
<1>c. count.offers + 1 \in Nat /\ count.offers + 1 # 0
  <2>1. count \in CountType
    BY DEF TypeOK, CountType
  <2>2. count.offers \in Nat
    BY <2>1 DEF CountType
  <2> QED
    BY <2>2
<1>d. \A s \in Sides : capa[s] \in LayerType /\ canal[s] \in Seq(MessageType)
  BY <1>a
<1>1. CASE Renew
  <2> DEFINE o == count.offers + 1
  <2>1. /\ oferta = 0 /\ oferta' = o /\ fase' = fase
        /\ Sends(0, canal[0], capa[0], <<Llave(o)>>)
        /\ capa' = [capa EXCEPT ![0] = AfterSealing(0, capa[0], <<Llave(o)>>)]
        /\ Len(<<Llave(o)>>) \in Nat
    BY <1>1 DEF Renew, MayOffer
  <2> HIDE DEF o
  <2>2. BothIn => Even
    BY <2>1 DEF Exchange, Ahead
  <2>3. capa'[0].raiz = capa[0].raiz /\ capa'[1].raiz = capa[1].raiz
    BY <2>1, <1>a, <1>b, <1>d, LayerKeeps
  <2>4. o \in Nat /\ o # 0
    BY <1>c DEF o
  <2>5. <<Llave(o)>> \in Seq(Payload)
    BY <2>4, PayloadTypes
  <2>6. /\ canal'[0] = canal[0]
        /\ NoneOf(canal[1], "llave") => Once(canal'[1], "llave", <<o, 0>>)
    <3>1. Once(<<Llave(o)>>, "llave", <<o, 0>>)
      BY PayloadKinds
    <3> QED
      BY <3>1, <2>1, <2>5, <1>b, <1>d, SendsKeeps
  <2>7. BothIn => Even'
    BY <2>1, <2>2, <2>3, <2>4, <2>6 DEF Even
  <2> QED
    BY <2>1, <2>7 DEF Exchange, BothIn
<1>2. CASE ReadFirst
  <2>1. /\ canal[1] # <<>> /\ Sends(1, Tail(canal[1]), capa[1], <<Dato>>)
        /\ fase[1] = "abriendo" /\ fase'[0] = fase[0] /\ UNCHANGED <<capa, oferta>>
    <3>1. fase \in [Sides -> {"abriendo", "lista", "sola"}]
      BY DEF TypeOK
    <3>2. fase'[0] = fase[0]
      BY <3>1, <1>2, <1>b DEF ReadFirst
    <3> QED
      BY <3>2, <1>2 DEF ReadFirst, Hears
  <2>2. Quiet
    BY <2>1, <1>b, <1>d, SendsQuiet
  <2> QED
    BY <2>1, <2>2, QuietKeeps DEF BothIn
<1>3. CASE ReadKey
  <2> DEFINE c == Opened(1)
             k == NextSecret(Message(1).de[1], c)
  <2>1. /\ Hears(1) /\ Sends(1, Tail(canal[1]), c, <<Cifrado(k)>>)
        /\ capa' = [capa EXCEPT ![1] = Renewed(c, k)]
        /\ oferta' = oferta /\ fase' = fase /\ Message(1).m = "llave"
    BY <1>3 DEF ReadKey, AnswerSeal
  <2>2. /\ canal[1] # <<>> /\ Tail(canal[1]) \in Seq(MessageType) /\ c \in LayerType
        /\ Message(1).de[1] \in Nat /\ c.raiz = capa[1].raiz /\ Message(1) = canal[1][1]
    BY <2>1, <1>b, <1>d, MessageKeeps, TailKeeps DEF Message
  <2>3. k \in Secret /\ <<Cifrado(k)>> \in Seq(Payload)
    BY <2>2, <2>1, <1>b, SecretTypes, MessageKeeps, PayloadTypes
  <2>4. Message(1) = Head(canal[1])
    BY DEF Message
  <2>5. BothIn => Even
    <3>1. ~ NoneOf(canal[1], "llave")
      <4>1. canal[1] \in Seq(MessageType) /\ canal[1] # <<>>
        BY <2>2, <1>b, <1>d
      <4>2. 1 \in 1 .. Len(canal[1])
        BY <4>1
      <4> QED
        BY <4>2, <2>1, <2>2 DEF NoneOf
    <3> QED
      BY <3>1 DEF Exchange, Ahead
  <2>6. ASSUME BothIn PROVE Ahead'
    <3>1. Even
      BY <2>5, <2>6
    <3>2. /\ oferta # 0 /\ Message(1).de = <<oferta, 0>>
          /\ NoneOf(Tail(canal[1]), "llave")
      <4>1. oferta # 0
        BY <3>1, <2>1, <2>2, <2>4, <1>b, <1>d, TailKeeps DEF Even
      <4>2. Message(1).de = <<oferta, 0>> /\ NoneOf(Tail(canal[1]), "llave")
        BY <3>1, <2>1, <2>2, <2>4, <1>b, <1>d, TailKeeps DEF Even
      <4> QED
        BY <4>1, <4>2
    <3>3. k = NewSecret
      BY <3>1, <3>2, <2>2 DEF NextSecret, NewSecret, Even
    <3> HIDE DEF k, c
    <3>4. /\ capa'[1].raiz = Append(capa[0].raiz, NewSecret)
          /\ capa'[0] = capa[0]
      <4>1. Renewed(c, k).raiz = Append(c.raiz, k)
        BY <2>2, <2>3, LayerKeeps
      <4>2. capa'[1] = Renewed(c, k) /\ capa'[0] = capa[0]
        BY <2>1, <1>a, <1>b
      <4> QED
        BY <4>1, <4>2, <3>1, <3>3, <2>2 DEF Even
    <3>5. canal'[1] = Tail(canal[1]) /\ Once(canal'[0], "cifrado", k)
      <4>1. Once(<<Cifrado(k)>>, "cifrado", k)
        BY PayloadKinds
      <4>2. NoneOf(canal[0], "cifrado")
        BY <3>1 DEF Even
      <4> QED
        BY <4>1, <4>2, <2>1, <2>2, <2>3, <1>b, SendsKeeps
    <3>6. NewSecret' = NewSecret
      BY <3>4, <2>1 DEF NewSecret
    <3> QED
      BY <3>2, <3>3, <3>4, <3>5, <3>6, <2>1 DEF Ahead
  <2> QED
    BY <2>1, <2>6 DEF Exchange, BothIn
<1>4. CASE ReadAnswer
  <2>1. /\ Hears(0) /\ Put(0, Tail(canal[0]), <<>>) /\ Message(0).m = "cifrado"
        /\ capa' = [capa EXCEPT
               ![0] = IF oferta = 0 THEN Opened(0)
                      ELSE Renewed(Opened(0), Decapsulated(Message(0).de))]
        /\ oferta' = 0 /\ fase' = fase
    BY <1>4 DEF ReadAnswer, Taken
  <2>2. /\ canal[0] # <<>> /\ Tail(canal[0]) \in Seq(MessageType) /\ Opened(0) \in LayerType
        /\ Message(0).de \in Secret /\ Opened(0).raiz = capa[0].raiz
        /\ Message(0) = Head(canal[0])
    BY <2>1, <1>b, MessageKeeps DEF Message
  <2>3. BothIn => Ahead
    <3>1. ~ NoneOf(canal[0], "cifrado")
      <4>1. canal[0] \in Seq(MessageType) /\ canal[0] # <<>>
        BY <2>2, <1>b, <1>d
      <4>2. 1 \in 1 .. Len(canal[0]) /\ Head(canal[0]) = canal[0][1]
        BY <4>1
      <4> QED
        BY <4>2, <2>1, <2>2 DEF NoneOf
    <3> QED
      BY <3>1 DEF Exchange, Even
  <2>4. ASSUME BothIn PROVE Even'
    <3>1. Ahead
      BY <2>3, <2>4
    <3>2. Message(0).de = NewSecret /\ NoneOf(Tail(canal[0]), "cifrado")
      BY <3>1, <2>1, <2>2, <1>b, <1>d, TailKeeps DEF Ahead
    <3>3. Decapsulated(Message(0).de) = NewSecret
      BY <3>2 DEF Decapsulated, NewSecret
    <3>4. NewSecret \in Secret
      BY <3>2, <2>2
    <3>5. capa'[0].raiz = Append(capa[0].raiz, NewSecret) /\ capa'[1] = capa[1]
      <4>1. Renewed(Opened(0), NewSecret).raiz = Append(capa[0].raiz, NewSecret)
        BY <2>2, <3>4, LayerKeeps
      <4>2. oferta # 0
        BY <3>1 DEF Ahead
      <4>3. capa'[0] = Renewed(Opened(0), NewSecret) /\ capa'[1] = capa[1]
        BY <4>2, <3>3, <2>1, <1>a, <1>b
      <4> QED
        BY <4>1, <4>3
    <3>6. canal'[0] = Tail(canal[0])
      <4>1. <<>> \in Seq(MessageType)
        OBVIOUS
      <4> QED
        BY <4>1, <2>1, <2>2, <1>b, PutKeeps
    <3>7. NoneOf(canal'[1], "llave")
      <4>1. Quiet
        BY <2>1, <2>2, <1>b, ReadsQuiet
      <4> QED
        BY <4>1, <3>1, <1>b DEF Quiet, Ahead
    <3>8. Once(canal'[1], "llave", <<oferta', 0>>)
      BY <3>7 DEF NoneOf, Once
    <3> QED
      BY <3>1, <3>2, <3>5, <3>6, <3>7, <3>8 DEF Even, Ahead
  <2> QED
    BY <2>1, <2>4 DEF Exchange, BothIn
<1>5. CASE Drop
  <2>1. PICK kept \in [Sides -> 0 .. Len(canal[0]) + Len(canal[1])] :
            /\ \A s \in Sides : kept[s] <= Len(canal[s])
            /\ canal' = [s \in Sides |-> SubSeq(canal[s], 1, kept[s])]
    BY <1>5 DEF Drop
  <2>2. Quiet
    <3> SUFFICES ASSUME NEW x \in Sides, NEW kind \in {"llave", "cifrado"}, NEW d
                 PROVE  /\ NoneOf(canal[x], kind) => NoneOf(canal'[x], kind)
                        /\ Once(canal[x], kind, d) => Once(canal'[x], kind, d)
      BY DEF Quiet
    <3>1. canal[x] \in Seq(MessageType) /\ Len(canal[x]) \in Nat
      BY <1>d
    <3>2. kept[x] \in 0 .. Len(canal[x])
      <4>1. kept[x] \in 0 .. Len(canal[0]) + Len(canal[1]) /\ kept[x] <= Len(canal[x])
        BY <2>1
      <4> QED
        BY <4>1, <3>1
    <3>3. canal'[x] = SubSeq(canal[x], 1, kept[x])
      BY <2>1
    <3> QED
      BY <3>1, <3>2, <3>3, CutKeeps
  <2> QED
    BY <2>2, <1>5, QuietKeeps DEF Drop, BothIn
<1>6. ASSUME NEW s \in Sides, Say(s) PROVE Exchange'
  <2>1. /\ Sends(s, canal[s], capa[s], <<Dato>>)
        /\ capa' = [capa EXCEPT ![s] = AfterSealing(s, capa[s], <<Dato>>)]
        /\ oferta' = oferta /\ fase' = fase /\ Len(<<Dato>>) \in Nat
    BY <1>6 DEF Say
  <2>2. Quiet
    BY <2>1, <1>d, SendsQuiet
  <2>3. capa'[0].raiz = capa[0].raiz /\ capa'[1].raiz = capa[1].raiz
    BY <2>1, <1>a, <1>b, <1>d, LayerKeeps
  <2> QED
    BY <2>1, <2>2, <2>3, QuietKeeps DEF BothIn
<1>7. ASSUME NEW s \in Sides, ReadData(s) PROVE Exchange'
  <2>1. /\ Hears(s) /\ Put(s, Tail(canal[s]), <<>>) /\ canal[s] # <<>>
        /\ capa' = [capa EXCEPT ![s] = Opened(s)] /\ oferta' = oferta /\ fase' = fase
    BY <1>7 DEF ReadData, Hears
  <2>2. Quiet
    BY <2>1, ReadsQuiet
  <2>3. capa'[0].raiz = capa[0].raiz /\ capa'[1].raiz = capa[1].raiz
    BY <2>1, <1>a, <1>b, MessageKeeps
  <2> QED
    BY <2>1, <2>2, <2>3, QuietKeeps DEF BothIn
<1>8. ASSUME NEW s \in Sides, Discard(s) PROVE Exchange'
  <2>1. Put(s, Tail(canal[s]), <<>>) /\ canal[s] # <<>> /\ UNCHANGED <<fase, capa, oferta>>
    BY <1>8 DEF Discard, Hears
  <2>2. Quiet
    BY <2>1, ReadsQuiet
  <2> QED
    BY <2>1, <2>2, QuietKeeps DEF BothIn
<1>9. ASSUME NEW s \in Sides, UNCHANGED <<fase, canal, capa, oferta>> PROVE Exchange'
  BY <1>9 DEF Exchange, BothIn, Even, Ahead, NewSecret
<1>10. ASSUME NEW s \in Sides, NEW frames, NEW left, Closes(s, frames, left)
       PROVE  Exchange'
  <2>1. fase' = [fase EXCEPT ![s] = "sola"]
    BY <1>10 DEF Closes
  <2>2. s = 0 \/ s = 1
    BY DEF Sides
  <2>3. fase \in [Sides -> {"abriendo", "lista", "sola"}]
    BY DEF TypeOK
  <2>4. fase'[s] = "sola"
    BY <2>1, <2>3
  <2> QED
    BY <2>2, <2>4 DEF Exchange, BothIn
<1>11. ASSUME NEW s \in Sides, Resume(s) PROVE Exchange'
  <2> DEFINE o == count.offers + 1
             offers == s = 0 /\ MayOffer
             ps == IF offers THEN <<Dato, Llave(o)>> ELSE <<Dato>>
  <2>1. /\ Sends(s, canal[s], capa[s], ps)
        /\ capa' = [capa EXCEPT ![s] = AfterSealing(s, capa[s], ps)]
        /\ oferta' = IF offers THEN o ELSE oferta
        /\ fase' = fase
    BY <1>11 DEF Resume
  <2>2. ps \in Seq(Payload)
    BY <1>c, PayloadTypes
  <2>3. Len(ps) \in Nat
    BY <2>2
  <2>4. o \in Nat /\ o # 0
    BY <1>c
  <2> HIDE DEF o
  <2>5. capa'[0].raiz = capa[0].raiz /\ capa'[1].raiz = capa[1].raiz
    <3> HIDE DEF ps
    <3> QED
      BY <2>1, <2>3, <1>a, <1>b, <1>d, LayerKeeps
  <2>6. CASE offers
    <3>1. ps = <<Dato, Llave(o)>> /\ s = 0 /\ oferta = 0 /\ oferta' = o
      BY <2>1, <2>6 DEF MayOffer
    <3> HIDE DEF ps, offers
    <3>2. BothIn => Even
      BY <3>1 DEF Exchange, Ahead
    <3>3. /\ canal'[0] = canal[0]
          /\ NoneOf(canal[1], "llave") => Once(canal'[1], "llave", <<o, 0>>)
      <4>1. Once(ps, "llave", <<o, 0>>)
        BY <3>1, PayloadKinds
      <4> QED
        BY <4>1, <3>1, <2>1, <2>2, <1>b, <1>d, SendsKeeps
    <3>4. BothIn => Even'
      BY <2>4, <2>5, <3>1, <3>2, <3>3 DEF Even
    <3> QED
      BY <2>1, <3>4 DEF Exchange, BothIn
  <2>7. CASE ~ offers
    <3>1. ps = <<Dato>> /\ oferta' = oferta
      BY <2>1, <2>7
    <3> HIDE DEF ps, offers
    <3>2. Quiet
      BY <2>1, <3>1, <1>d, SendsQuiet
    <3> QED
      BY <2>1, <2>5, <3>1, <3>2, QuietKeeps DEF BothIn
  <2> QED
    BY <2>6, <2>7
<1>12. ASSUME NEW s \in Sides, Notice(s) PROVE Exchange'
  <2>1. CASE fase[s] = "lista"
    BY <1>9, <1>12, <2>1 DEF Notice
  <2>2. CASE fase[s] # "lista"
    BY <1>10, <1>12, <2>2 DEF Notice
  <2> QED
    BY <2>1, <2>2
<1>13. ASSUME NEW s \in Sides,
              ReadKeyFails \/ Refuse(s) \/ ReadEnd(s) \/ Close(s) \/ SendFails(s) \/ GiveUp(s)
       PROVE  Exchange'
  <2>1. \E x \in Sides : \E frames, left : Closes(x, frames, left)
    BY <1>13, <1>b DEF ReadKeyFails, Refuse, ReadEnd, Close, SendFails, GiveUp
  <2> QED
    BY <2>1, <1>10
<1>14. ASSUME NEW s \in Sides, Meet \/ Pause(s) \/ Continue(s) \/ UNCHANGED vars
       PROVE  Exchange'
  BY <1>9, <1>14 DEF Meet, Pause, Continue, vars
<1> QED
  BY <1>1, <1>2, <1>3, <1>4, <1>5, <1>6, <1>7, <1>8, <1>11, <1>12, <1>13, <1>14, <1>b
  DEF Next, Reads

\* cuantico.rs:170-183, secure.rs:2401-2436: the secrets the two sides of an open
\* conversation mix never fork, and side 1 is level with side 0 or one ahead.
THEOREM SecretsStayTogether == Spec => []RootsNeverFork
<1>1. TypeOK /\ Exchange => RootsNeverFork
  <2> SUFFICES ASSUME TypeOK, Exchange, fase[0] = "lista", fase[1] = "lista"
               PROVE  /\ Len(capa[0].raiz) <= Len(capa[1].raiz)
                      /\ Len(capa[1].raiz) <= Len(capa[0].raiz) + 1
                      /\ capa[0].raiz = SubSeq(capa[1].raiz, 1, Len(capa[0].raiz))
    BY DEF RootsNeverFork
  <2> DEFINE c == capa[0].raiz
             d == capa[1].raiz
  <2>1. c \in Seq(Secret) /\ d \in Seq(Secret) /\ Len(c) \in Nat /\ oferta \in Nat
    <3>1. capa[0] \in LayerType /\ capa[1] \in LayerType /\ oferta \in Nat
      BY DEF TypeOK, Sides
    <3>2. c \in Seq(Secret) /\ d \in Seq(Secret)
      BY <3>1 DEF LayerType
    <3> QED
      BY <3>1, <3>2
  <2>2. CASE Even
    <3>1. c = d
      BY <2>2 DEF Even
    <3> HIDE DEF c, d
    <3>2. c = SubSeq(c, 1, Len(c)) /\ Len(c) <= Len(c) + 1
      BY <2>1
    <3> QED
      BY <2>1, <3>1, <3>2 DEF c, d
  <2>3. CASE Ahead
    <3>1. d = Append(c, NewSecret) /\ NewSecret \in Secret
      <4>1. d = Append(c, NewSecret)
        BY <2>3 DEF Ahead
      <4> QED
        BY <4>1, <2>1 DEF NewSecret, Secret
    <3> HIDE DEF c, d
    <3>2. Len(d) = Len(c) + 1 /\ c = SubSeq(d, 1, Len(c))
      BY <2>1, <3>1
    <3> QED
      BY <2>1, <3>2 DEF c, d
  <2> QED
    BY <2>2, <2>3 DEF Exchange, BothIn
<1> QED
  BY <1>1, ExchangeInit, ExchangeStep, TypeCorrect, PTL DEF Spec

\* A message of the exchange or sealed: what a side may take for altered.
Said(x) == x.m \notin {"adios", "destruir"} \/ IsSealed(x.sello)

\* Under one root the numbers of q rise.
Rising(q) ==
    \A i \in 1 .. Len(q) : \A j \in 1 .. i - 1 :
        IsSealed(q[i].sello) /\ q[j].sello.raiz = q[i].sello.raiz =>
            q[j].sello.n < q[i].sello.n

\* What q holds under the root of c was sealed with the numbers before c.envio.
Below(q, c) ==
    \A i \in 1 .. Len(q) :
        IsSealed(q[i].sello) /\ q[i].sello.raiz = c.raiz => q[i].sello.n < c.envio

Behind(c, x) == IsSealed(x.sello) => c.recibo <= x.sello.n

Old(c) == SubSeq(c.raiz, 1, Len(c.raiz) - 1)

NextOf(o, c) == <<o, Len(c.raiz) + 1>>

\* Some answer is among the first n messages of q.
Answered(q, n) == \E j \in 1 .. n : q[j].m = "cifrado"

\* Side 0 can open what comes: under its root up to the answer, and with the secret of
\* the answer after it.
Comes0(q, c, o) ==
    \A i \in 1 .. Len(q) : Said(q[i]) =>
        /\ q[i].sello.n <= Skip
        /\ q[i].m = "cifrado" => o # 0 /\ q[i].de = NextOf(o, c)
        /\ Answered(q, i - 1) =>
               q[i].sello.raiz = Append(c.raiz, NextOf(o, c)) /\ q[i].m # "cifrado"
        /\ ~ Answered(q, i - 1) => q[i].sello.raiz = c.raiz /\ Behind(c, q[i])

\* Side 1 can open what comes: first what was sealed before its last renewal, then what
\* was sealed under its root.
Before(c, v, x) ==
    /\ c.raiz # <<>> /\ x.sello.raiz = Old(c) /\ x.m # "llave"
    /\ IsSealed(x.sello) => \E a \in c.anterior : a <= x.sello.n
    /\ ~ IsSealed(x.sello) => ~ v

NoneUnder(q, n, c) == \A j \in 1 .. n : Said(q[j]) => q[j].sello.raiz # c.raiz

Comes1(q, c, v) ==
    \A i \in 1 .. Len(q) : Said(q[i]) =>
        /\ q[i].sello.n <= Skip
        /\ q[i].m = "llave" => \A j \in 1 .. i - 1 : q[j].m # "llave"
        /\ q[i].sello.raiz = c.raiz => Behind(c, q[i])
        /\ q[i].sello.raiz # c.raiz => Before(c, v, q[i]) /\ NoneUnder(q, i - 1, c)

\* The layer after a message was opened with it.
After(c, x) == IF IsSealed(x.sello) THEN Moved(c, x.sello) ELSE c

-----------------------------------------------------------------------------
LEMMA SeqPlaces ==
    ASSUME NEW q \in Seq(MessageType)
    PROVE  /\ Len(q) \in Nat /\ \A i \in 1 .. Len(q) : q[i] \in MessageType
           /\ q # <<>> =>
                /\ Len(q) # 0 /\ 1 \in 1 .. Len(q) /\ Head(q) = q[1]
                /\ Tail(q) \in Seq(MessageType) /\ Len(Tail(q)) = Len(q) - 1
                /\ \A i \in 1 .. Len(Tail(q)) : Tail(q)[i] = q[i + 1] /\ i + 1 \in 1 .. Len(q)
           /\ \A x \in MessageType :
                /\ Append(q, x) \in Seq(MessageType) /\ Len(Append(q, x)) = Len(q) + 1
                /\ \A i \in 1 .. Len(q) : Append(q, x)[i] = q[i]
                /\ Append(q, x)[Len(q) + 1] = x
           /\ \A n \in 0 .. Len(q) :
                /\ SubSeq(q, 1, n) \in Seq(MessageType) /\ Len(SubSeq(q, 1, n)) = n
                /\ \A i \in 1 .. n : SubSeq(q, 1, n)[i] = q[i] /\ i \in 1 .. Len(q)
<1>1. Len(q) \in Nat /\ \A i \in 1 .. Len(q) : q[i] \in MessageType
  OBVIOUS
<1>2. ASSUME q # <<>>
      PROVE  /\ Len(q) # 0 /\ 1 \in 1 .. Len(q) /\ Head(q) = q[1]
             /\ Tail(q) \in Seq(MessageType) /\ Len(Tail(q)) = Len(q) - 1
             /\ \A i \in 1 .. Len(Tail(q)) : Tail(q)[i] = q[i + 1] /\ i + 1 \in 1 .. Len(q)
  <2>1. Len(q) # 0 /\ Len(Tail(q)) = Len(q) - 1 /\ Tail(q) \in Seq(MessageType)
    BY <1>2
  <2> QED
    BY <1>1, <1>2, <2>1
<1>3. ASSUME NEW x \in MessageType
      PROVE  /\ Append(q, x) \in Seq(MessageType) /\ Len(Append(q, x)) = Len(q) + 1
             /\ \A i \in 1 .. Len(q) : Append(q, x)[i] = q[i]
             /\ Append(q, x)[Len(q) + 1] = x
  BY <1>1
<1>4. ASSUME NEW n \in 0 .. Len(q)
      PROVE  /\ SubSeq(q, 1, n) \in Seq(MessageType) /\ Len(SubSeq(q, 1, n)) = n
             /\ \A i \in 1 .. n : SubSeq(q, 1, n)[i] = q[i] /\ i \in 1 .. Len(q)
  BY <1>1
<1> QED
  BY <1>1, <1>2, <1>3, <1>4

\* What a message is.
LEMMA MessageParts ==
    ASSUME NEW x \in MessageType
    PROVE  /\ x.sello \in SealType /\ x.sello.raiz \in Seq(Secret) /\ x.sello.n \in Nat
           /\ x.de \in Secret
           /\ x.m \in {"dato", "llave", "cifrado", "adios", "destruir"}
  BY DEF MessageType, SealType

\* A root with one more secret is another root, and the older one is left without it.
LEMMA RootGrows ==
    ASSUME NEW r \in Seq(Secret), NEW k \in Secret
    PROVE  /\ Append(r, k) \in Seq(Secret) /\ Append(r, k) # r /\ Append(r, k) # <<>>
           /\ SubSeq(Append(r, k), 1, Len(Append(r, k)) - 1) = r
<1> DEFINE w == Append(r, k)
<1>1. /\ w \in Seq(Secret) /\ Len(w) = Len(r) + 1 /\ Len(r) \in Nat
      /\ \A i \in 1 .. Len(r) : w[i] = r[i]
  OBVIOUS
<1>2. w # r /\ w # <<>>
  BY <1>1
<1>3. SubSeq(w, 1, Len(w) - 1) = r
  <2> HIDE DEF w
  <2>1. Len(w) - 1 = Len(r)
    BY <1>1
  <2>2. SubSeq(w, 1, Len(r)) \in Seq(Secret) /\ Len(SubSeq(w, 1, Len(r))) = Len(r)
    BY <1>1
  <2>3. \A i \in 1 .. Len(r) : SubSeq(w, 1, Len(r))[i] = r[i]
    BY <1>1
  <2> QED
    BY <2>1, <2>2, <2>3
<1> QED
  BY <1>1, <1>2, <1>3

\* An older root is not the root.
LEMMA OldIsOther ==
    ASSUME NEW c \in LayerType, c.raiz # <<>>
    PROVE  Old(c) # c.raiz /\ Old(c) \in Seq(Secret)
<1>1. c.raiz \in Seq(Secret) /\ Len(c.raiz) \in Nat
  BY DEF LayerType
<1>2. Len(c.raiz) # 0
  BY <1>1
<1>3. Len(c.raiz) - 1 \in 0 .. Len(c.raiz)
  BY <1>1, <1>2
<1>4. Old(c) \in Seq(Secret) /\ Len(Old(c)) = Len(c.raiz) - 1
  BY <1>1, <1>3 DEF Old
<1> QED
  BY <1>1, <1>4
-----------------------------------------------------------------------------
LEMMA RisingKeeps ==
    ASSUME NEW q \in Seq(MessageType), Rising(q)
    PROVE  /\ q # <<>> =>
                /\ Rising(Tail(q))
                /\ \A i \in 1 .. Len(Tail(q)) :
                      IsSealed(Head(q).sello) /\ Tail(q)[i].sello.raiz = Head(q).sello.raiz =>
                          Head(q).sello.n < Tail(q)[i].sello.n
           /\ \A x \in MessageType :
                (IsSealed(x.sello) => \A j \in 1 .. Len(q) :
                    q[j].sello.raiz = x.sello.raiz => q[j].sello.n < x.sello.n)
                => Rising(Append(q, x))
           /\ \A n \in 0 .. Len(q) : Rising(SubSeq(q, 1, n))
<1>1. ASSUME q # <<>>
      PROVE  /\ Rising(Tail(q))
             /\ \A i \in 1 .. Len(Tail(q)) :
                    IsSealed(Head(q).sello) /\ Tail(q)[i].sello.raiz = Head(q).sello.raiz =>
                        Head(q).sello.n < Tail(q)[i].sello.n
  <2> DEFINE w == Tail(q)
  <2>1. /\ Len(q) \in Nat /\ Len(w) = Len(q) - 1 /\ Head(q) = q[1]
        /\ \A i \in 1 .. Len(w) : w[i] = q[i + 1] /\ i + 1 \in 1 .. Len(q)
    BY <1>1, SeqPlaces
  <2> HIDE DEF w
  <2>2. ASSUME NEW i \in 1 .. Len(w), NEW j \in 1 .. i - 1, IsSealed(w[i].sello),
               w[j].sello.raiz = w[i].sello.raiz
        PROVE  w[j].sello.n < w[i].sello.n
    <3>1. j \in 1 .. Len(w) /\ j + 1 \in 1 .. (i + 1) - 1
      BY <2>1
    <3>2. w[i] = q[i + 1] /\ w[j] = q[j + 1] /\ i + 1 \in 1 .. Len(q)
      BY <2>1, <3>1
    <3> QED
      BY <2>2, <3>1, <3>2 DEF Rising
  <2>3. ASSUME NEW i \in 1 .. Len(w), IsSealed(q[1].sello), w[i].sello.raiz = q[1].sello.raiz
        PROVE  q[1].sello.n < w[i].sello.n
    <3>1. i + 1 \in 1 .. Len(q) /\ 1 \in 1 .. (i + 1) - 1 /\ w[i] = q[i + 1]
      BY <2>1
    <3>2. IsSealed(w[i].sello)
      BY <2>3 DEF IsSealed
    <3> QED
      BY <2>3, <3>1, <3>2 DEF Rising
  <2>4. Rising(w)
    BY <2>2 DEF Rising
  <2> QED
    BY <2>1, <2>3, <2>4 DEF w
<1>2. ASSUME NEW x \in MessageType,
             IsSealed(x.sello) => \A j \in 1 .. Len(q) :
                 q[j].sello.raiz = x.sello.raiz => q[j].sello.n < x.sello.n
      PROVE  Rising(Append(q, x))
  <2> DEFINE w == Append(q, x)
  <2>1. /\ Len(q) \in Nat /\ Len(w) = Len(q) + 1 /\ w[Len(q) + 1] = x
        /\ \A i \in 1 .. Len(q) : w[i] = q[i]
    BY SeqPlaces
  <2> HIDE DEF w
  <2> SUFFICES ASSUME NEW i \in 1 .. Len(w), NEW j \in 1 .. i - 1, IsSealed(w[i].sello),
                      w[j].sello.raiz = w[i].sello.raiz
               PROVE  w[j].sello.n < w[i].sello.n
    BY DEF Rising, w
  <2>2. j \in 1 .. Len(q) /\ w[j] = q[j]
    BY <2>1
  <2>3. CASE i \in 1 .. Len(q)
    BY <2>1, <2>2, <2>3 DEF Rising
  <2>4. CASE i = Len(q) + 1
    BY <1>2, <2>1, <2>2, <2>4
  <2> QED
    BY <2>1, <2>3, <2>4
<1>3. ASSUME NEW n \in 0 .. Len(q)
      PROVE  Rising(SubSeq(q, 1, n))
  <2> DEFINE w == SubSeq(q, 1, n)
  <2>1. Len(w) = n /\ \A i \in 1 .. n : w[i] = q[i] /\ i \in 1 .. Len(q)
    BY SeqPlaces
  <2> HIDE DEF w
  <2> SUFFICES ASSUME NEW i \in 1 .. Len(w), NEW j \in 1 .. i - 1, IsSealed(w[i].sello),
                      w[j].sello.raiz = w[i].sello.raiz
               PROVE  w[j].sello.n < w[i].sello.n
    BY DEF Rising, w
  <2>2. j \in 1 .. n /\ i \in 1 .. n
    BY <2>1
  <2> QED
    BY <2>1, <2>2 DEF Rising
<1> QED
  BY <1>1, <1>2, <1>3

LEMMA BelowKeeps ==
    ASSUME NEW q \in Seq(MessageType), NEW c, Below(q, c)
    PROVE  /\ q # <<>> => Below(Tail(q), c)
           /\ \A x \in MessageType :
                (IsSealed(x.sello) /\ x.sello.raiz = c.raiz => x.sello.n < c.envio)
                => Below(Append(q, x), c)
           /\ \A n \in 0 .. Len(q) : Below(SubSeq(q, 1, n), c)
<1>1. ASSUME q # <<>> PROVE Below(Tail(q), c)
  <2>1. \A i \in 1 .. Len(Tail(q)) : Tail(q)[i] = q[i + 1] /\ i + 1 \in 1 .. Len(q)
    BY <1>1, SeqPlaces
  <2> QED
    BY <2>1 DEF Below
<1>2. ASSUME NEW x \in MessageType,
             IsSealed(x.sello) /\ x.sello.raiz = c.raiz => x.sello.n < c.envio
      PROVE  Below(Append(q, x), c)
  <2> DEFINE w == Append(q, x)
  <2>1. /\ Len(q) \in Nat /\ Len(w) = Len(q) + 1 /\ w[Len(q) + 1] = x
        /\ \A i \in 1 .. Len(q) : w[i] = q[i]
    BY SeqPlaces
  <2>2. \A i \in 1 .. Len(w) : i \in 1 .. Len(q) \/ i = Len(q) + 1
    BY <2>1
  <2> HIDE DEF w
  <2>3. Below(w, c)
    BY <1>2, <2>1, <2>2 DEF Below
  <2> QED
    BY <2>3 DEF w
<1>3. ASSUME NEW n \in 0 .. Len(q) PROVE Below(SubSeq(q, 1, n), c)
  <2>1. /\ Len(SubSeq(q, 1, n)) = n
        /\ \A i \in 1 .. n : SubSeq(q, 1, n)[i] = q[i] /\ i \in 1 .. Len(q)
    BY SeqPlaces
  <2> QED
    BY <2>1 DEF Below
<1> QED
  BY <1>1, <1>2, <1>3

LEMMA AfterKeeps ==
    ASSUME NEW c \in LayerType, NEW x \in MessageType
    PROVE  /\ After(c, x) \in LayerType /\ After(c, x).raiz = c.raiz
           /\ After(c, x).envio = c.envio
           /\ ~ IsSealed(x.sello) => After(c, x) = c
           /\ IsSealed(x.sello) /\ x.sello.raiz = c.raiz =>
                  After(c, x).recibo = x.sello.n + 1 /\ After(c, x).anterior = {}
           /\ IsSealed(x.sello) /\ x.sello.raiz # c.raiz =>
                  After(c, x).recibo = c.recibo /\ After(c, x).anterior = {x.sello.n + 1}
<1>1. x.sello \in SealType
  BY MessageParts
<1>2. Moved(c, x.sello) \in LayerType /\ Moved(c, x.sello).raiz = c.raiz
  BY <1>1, LayerKeeps
<1>3. /\ Moved(c, x.sello).envio = c.envio
      /\ x.sello.raiz = c.raiz =>
            Moved(c, x.sello).recibo = x.sello.n + 1 /\ Moved(c, x.sello).anterior = {}
      /\ x.sello.raiz # c.raiz =>
            Moved(c, x.sello).recibo = c.recibo /\ Moved(c, x.sello).anterior = {x.sello.n + 1}
  BY DEF Moved, LayerType
<1> QED
  BY <1>2, <1>3 DEF After

\* Until the answer, side 0 opens whatever comes, and what is left can be opened too.
LEMMA Comes0Read ==
    ASSUME NEW q \in Seq(MessageType), NEW c \in LayerType, NEW o,
           q # <<>>, Rising(q), Comes0(q, c, o)
    PROVE  /\ Said(q[1]) =>
                /\ q[1].sello.raiz = c.raiz /\ Behind(c, q[1]) /\ q[1].sello.n <= Skip
           /\ q[1].m # "cifrado" => Comes0(Tail(q), After(c, q[1]), o)
<1> DEFINE w == Tail(q)
           h == q[1]
           d == After(c, h)
<1>1. /\ Len(q) \in Nat /\ Len(w) = Len(q) - 1 /\ 1 \in 1 .. Len(q) /\ Head(q) = q[1]
      /\ \A i \in 1 .. Len(w) : w[i] = q[i + 1] /\ i + 1 \in 1 .. Len(q)
      /\ \A i \in 1 .. Len(q) : q[i] \in MessageType
  BY SeqPlaces
<1>2. \A i \in 1 .. Len(w) :
          IsSealed(h.sello) /\ w[i].sello.raiz = h.sello.raiz => h.sello.n < w[i].sello.n
  BY <1>1, RisingKeeps
<1>3. ~ Answered(q, 1 - 1)
  BY DEF Answered
<1>4. Said(h) => h.sello.raiz = c.raiz /\ Behind(c, h) /\ h.sello.n <= Skip
  BY <1>1, <1>3 DEF Comes0
<1>5. ASSUME h.m # "cifrado" PROVE Comes0(w, d, o)
  <2>1. /\ d.raiz = c.raiz
        /\ ~ IsSealed(h.sello) => d = c
        /\ IsSealed(h.sello) /\ h.sello.raiz = c.raiz => d.recibo = h.sello.n + 1
    BY <1>1, AfterKeeps
  <2> SUFFICES ASSUME NEW i \in 1 .. Len(w), Said(w[i])
               PROVE  /\ w[i].sello.n <= Skip
                      /\ w[i].m = "cifrado" => o # 0 /\ w[i].de = NextOf(o, d)
                      /\ Answered(w, i - 1) =>
                             w[i].sello.raiz = Append(d.raiz, NextOf(o, d)) /\ w[i].m # "cifrado"
                      /\ ~ Answered(w, i - 1) => w[i].sello.raiz = d.raiz /\ Behind(d, w[i])
    BY DEF Comes0
  <2>2. w[i] = q[i + 1] /\ i + 1 \in 1 .. Len(q) /\ (i + 1) - 1 = i
    BY <1>1
  <2> HIDE DEF w, d
  <2>3. Answered(w, i - 1) <=> Answered(q, i)
    <3>1. ASSUME NEW j \in 1 .. i - 1, w[j].m = "cifrado" PROVE Answered(q, i)
      <4>1. j \in 1 .. Len(w) /\ j + 1 \in 1 .. i
        BY <1>1
      <4>2. q[j + 1].m = "cifrado"
        BY <4>1, <3>1, <1>1
      <4> QED
        BY <4>1, <4>2 DEF Answered
    <3>2. ASSUME NEW j \in 1 .. i, q[j].m = "cifrado" PROVE Answered(w, i - 1)
      <4>1. j # 1
        BY <3>2, <1>5
      <4>2. j - 1 \in 1 .. i - 1 /\ j - 1 \in 1 .. Len(w) /\ (j - 1) + 1 = j
        BY <4>1, <1>1
      <4>3. w[j - 1].m = "cifrado"
        BY <4>2, <3>2, <1>1
      <4> QED
        BY <4>2, <4>3 DEF Answered
    <3> QED
      BY <3>1, <3>2 DEF Answered
  <2>4. NextOf(o, d) = NextOf(o, c)
    BY <2>1 DEF NextOf
  <2>5. /\ w[i].sello.n <= Skip
        /\ w[i].m = "cifrado" => o # 0 /\ w[i].de = NextOf(o, c)
        /\ Answered(w, i - 1) =>
               w[i].sello.raiz = Append(c.raiz, NextOf(o, c)) /\ w[i].m # "cifrado"
        /\ ~ Answered(w, i - 1) => w[i].sello.raiz = c.raiz /\ Behind(c, w[i])
    BY <2>2, <2>3 DEF Comes0
  <2>6. ASSUME ~ Answered(w, i - 1) PROVE Behind(d, w[i])
    <3>1. CASE IsSealed(h.sello)
      <4>1. h.sello.raiz = c.raiz /\ w[i].sello.raiz = c.raiz
        BY <2>5, <2>6, <3>1, <1>4 DEF Said
      <4>2. h.sello.n < w[i].sello.n /\ d.recibo = h.sello.n + 1
        BY <4>1, <3>1, <1>2, <2>1
      <4>3. h.sello.n \in Nat /\ w[i].sello.n \in Nat
        BY <1>1, <2>2, MessageParts
      <4> QED
        BY <4>2, <4>3 DEF Behind
    <3>2. CASE ~ IsSealed(h.sello)
      BY <3>2, <2>1, <2>5, <2>6
    <3> QED
      BY <3>1, <3>2
  <2> QED
    BY <2>1, <2>4, <2>5, <2>6
<1> QED
  BY <1>4, <1>5

\* The answer renews, and what comes behind it was sealed with the new secret.
LEMMA Comes0Answer ==
    ASSUME NEW q \in Seq(MessageType), NEW c \in LayerType, NEW o \in Nat,
           q # <<>>, Rising(q), Comes0(q, c, o), q[1].m = "cifrado",
           NEW d \in LayerType, d.raiz = c.raiz
    PROVE  /\ o # 0 /\ q[1].de = NextOf(o, c)
           /\ Comes0(Tail(q), Renewed(d, NextOf(o, c)), 0)
<1> DEFINE w == Tail(q)
           k == NextOf(o, c)
           e == Renewed(d, k)
<1>1. /\ Len(q) \in Nat /\ Len(w) = Len(q) - 1 /\ 1 \in 1 .. Len(q)
      /\ \A i \in 1 .. Len(w) : w[i] = q[i + 1] /\ i + 1 \in 1 .. Len(q)
      /\ \A i \in 1 .. Len(q) : q[i] \in MessageType
  BY SeqPlaces
<1>2. o # 0 /\ q[1].de = NextOf(o, c)
  BY <1>1 DEF Comes0, Said
<1>3. e.raiz = Append(c.raiz, k) /\ e.recibo = 0
  BY DEF Renewed
<1> HIDE DEF w, e, k
<1>4. ASSUME NEW i \in 1 .. Len(w), Said(w[i])
      PROVE  w[i].sello.n <= Skip /\ w[i].sello.raiz = e.raiz /\ w[i].m # "cifrado"
  <2>1. w[i] = q[i + 1] /\ i + 1 \in 1 .. Len(q) /\ 1 \in 1 .. (i + 1) - 1
    BY <1>1
  <2>2. Answered(q, (i + 1) - 1)
    BY <2>1 DEF Answered
  <2> QED
    BY <1>4, <2>1, <2>2, <1>3 DEF Comes0, k
<1>5. ASSUME NEW i \in 1 .. Len(w) PROVE ~ Answered(w, i - 1)
  <2> SUFFICES ASSUME NEW j \in 1 .. i - 1, w[j].m = "cifrado" PROVE FALSE
    BY DEF Answered
  <2>1. j \in 1 .. Len(w) /\ Said(w[j])
    BY <1>1 DEF Said
  <2> QED
    BY <2>1, <1>4
<1>6. \A i \in 1 .. Len(w) : Behind(e, w[i])
  <2>1. \A i \in 1 .. Len(w) : w[i].sello.n \in Nat
    BY <1>1, MessageParts
  <2> QED
    BY <2>1, <1>3 DEF Behind
<1>7. Comes0(w, e, 0)
  BY <1>4, <1>5, <1>6 DEF Comes0
<1> QED
  BY <1>2, <1>7 DEF w, e, k

\* One more message at the end, for side 0.
LEMMA Comes0Add ==
    ASSUME NEW q \in Seq(MessageType), NEW c, NEW o, NEW x \in MessageType, Comes0(q, c, o),
           Said(x) =>
               /\ x.sello.n <= Skip
               /\ x.m = "cifrado" => o # 0 /\ x.de = NextOf(o, c)
               /\ ~ NoneOf(q, "cifrado") =>
                      x.sello.raiz = Append(c.raiz, NextOf(o, c)) /\ x.m # "cifrado"
               /\ NoneOf(q, "cifrado") => x.sello.raiz = c.raiz /\ Behind(c, x)
    PROVE  Comes0(Append(q, x), c, o)
<1> DEFINE w == Append(q, x)
<1>1. /\ Len(q) \in Nat /\ Len(w) = Len(q) + 1 /\ w[Len(q) + 1] = x
      /\ \A i \in 1 .. Len(q) : w[i] = q[i]
  BY SeqPlaces
<1> HIDE DEF w
<1>2. \A i \in 1 .. Len(w) : Answered(w, i - 1) <=> Answered(q, i - 1)
  <2>1. \A i \in 1 .. Len(w) : \A j \in 1 .. i - 1 : w[j] = q[j]
    BY <1>1
  <2> QED
    BY <2>1 DEF Answered
<1>3. Answered(q, (Len(q) + 1) - 1) <=> ~ NoneOf(q, "cifrado")
  <2>1. (Len(q) + 1) - 1 = Len(q)
    BY <1>1
  <2> QED
    BY <2>1 DEF Answered, NoneOf
<1> SUFFICES ASSUME NEW i \in 1 .. Len(w), Said(w[i])
             PROVE  /\ w[i].sello.n <= Skip
                    /\ w[i].m = "cifrado" => o # 0 /\ w[i].de = NextOf(o, c)
                    /\ Answered(w, i - 1) =>
                           w[i].sello.raiz = Append(c.raiz, NextOf(o, c)) /\ w[i].m # "cifrado"
                    /\ ~ Answered(w, i - 1) => w[i].sello.raiz = c.raiz /\ Behind(c, w[i])
  BY DEF Comes0, w
<1>4. CASE i \in 1 .. Len(q)
  BY <1>1, <1>2, <1>4 DEF Comes0
<1>5. CASE i = Len(q) + 1
  BY <1>1, <1>2, <1>3, <1>5
<1> QED
  BY <1>1, <1>4, <1>5

LEMMA Comes0Cut ==
    ASSUME NEW q \in Seq(MessageType), NEW c, NEW o, NEW n \in 0 .. Len(q), Comes0(q, c, o)
    PROVE  Comes0(SubSeq(q, 1, n), c, o)
<1> DEFINE w == SubSeq(q, 1, n)
<1>1. Len(w) = n /\ \A i \in 1 .. n : w[i] = q[i] /\ i \in 1 .. Len(q)
  BY SeqPlaces
<1>2. Len(q) \in Nat
  BY SeqPlaces
<1> HIDE DEF w
<1>3. \A i \in 1 .. Len(w) : Answered(w, i - 1) <=> Answered(q, i - 1)
  <2>1. \A i \in 1 .. Len(w) : \A j \in 1 .. i - 1 : w[j] = q[j]
    BY <1>1, <1>2
  <2> QED
    BY <2>1 DEF Answered
<1>4. Comes0(w, c, o)
  BY <1>1, <1>3 DEF Comes0
<1> QED
  BY <1>4 DEF w

\* An offer is made when no answer travels.
LEMMA Comes0Offer ==
    ASSUME NEW q \in Seq(MessageType), NEW c, NEW o, Comes0(q, c, 0)
    PROVE  Comes0(q, c, o)
<1>0. Len(q) \in Nat
  BY SeqPlaces
<1>1. \A i \in 1 .. Len(q) : q[i].m # "cifrado"
  BY DEF Comes0, Said
<1>2. \A i \in 1 .. Len(q) : ~ Answered(q, i - 1)
  <2> SUFFICES ASSUME NEW i \in 1 .. Len(q), NEW j \in 1 .. i - 1, q[j].m = "cifrado"
               PROVE  FALSE
    BY DEF Answered
  <2>1. j \in 1 .. Len(q)
    BY <1>0
  <2> QED
    BY <2>1, <1>1
<1> QED
  BY <1>1, <1>2 DEF Comes0

\* What the layer seals says nothing of what it opens.
LEMMA ComesSame ==
    ASSUME NEW q \in Seq(MessageType), NEW c, NEW d, NEW o, NEW v,
           d.raiz = c.raiz, d.recibo = c.recibo, d.anterior = c.anterior
    PROVE  Comes0(q, c, o) => Comes0(q, d, o)
<1>1. NextOf(o, d) = NextOf(o, c) /\ \A x : Behind(d, x) <=> Behind(c, x)
  BY DEF NextOf, Behind
<1> QED
  BY <1>1 DEF Comes0

\* What reading leaves of `nothing before it was sealed under the root`.
LEMMA NoneUnderTail ==
    ASSUME NEW q \in Seq(MessageType), q # <<>>, NEW c, NEW d, d.raiz = c.raiz,
           NEW i \in 1 .. Len(Tail(q)), NoneUnder(q, i, c)
    PROVE  NoneUnder(Tail(q), i - 1, d)
<1>1. /\ Len(q) \in Nat /\ Len(Tail(q)) = Len(q) - 1
      /\ \A j \in 1 .. Len(Tail(q)) : Tail(q)[j] = q[j + 1]
  BY SeqPlaces
<1>2. \A j \in 1 .. i - 1 : j + 1 \in 1 .. i /\ j \in 1 .. Len(Tail(q))
  BY <1>1
<1> QED
  BY <1>1, <1>2 DEF NoneUnder

\* Side 1 opens whatever comes, and what is left can be opened too.
LEMMA Comes1Read ==
    ASSUME NEW q \in Seq(MessageType), NEW c \in LayerType, NEW v \in BOOLEAN,
           q # <<>>, Rising(q), Comes1(q, c, v)
    PROVE  /\ Said(q[1]) =>
                /\ q[1].sello.n <= Skip
                /\ q[1].sello.raiz = c.raiz => Behind(c, q[1])
                /\ q[1].sello.raiz # c.raiz => Before(c, v, q[1])
           /\ Comes1(Tail(q), After(c, q[1]), v \/ IsSealed(q[1].sello))
<1> DEFINE w == Tail(q)
           h == q[1]
           d == After(c, h)
           u == v \/ IsSealed(h.sello)
<1>1. /\ Len(q) \in Nat /\ Len(w) = Len(q) - 1 /\ 1 \in 1 .. Len(q) /\ Head(q) = q[1]
      /\ \A i \in 1 .. Len(w) : w[i] = q[i + 1] /\ i + 1 \in 1 .. Len(q)
      /\ \A i \in 1 .. Len(q) : q[i] \in MessageType
  BY SeqPlaces
<1>2. \A i \in 1 .. Len(w) :
          IsSealed(h.sello) /\ w[i].sello.raiz = h.sello.raiz => h.sello.n < w[i].sello.n
  BY <1>1, RisingKeeps
<1>3. Said(h) => /\ h.sello.n <= Skip
                 /\ h.sello.raiz = c.raiz => Behind(c, h)
                 /\ h.sello.raiz # c.raiz => Before(c, v, h)
  BY <1>1 DEF Comes1
<1>4. /\ d.raiz = c.raiz
      /\ ~ IsSealed(h.sello) => d = c
      /\ IsSealed(h.sello) /\ h.sello.raiz = c.raiz => d.recibo = h.sello.n + 1
      /\ IsSealed(h.sello) /\ h.sello.raiz # c.raiz =>
             d.recibo = c.recibo /\ d.anterior = {h.sello.n + 1}
  BY <1>1, AfterKeeps
<1>5. IsSealed(h.sello) => Said(h)
  BY DEF Said
<1>6. Comes1(w, d, u)
  <2> SUFFICES ASSUME NEW i \in 1 .. Len(w), Said(w[i])
               PROVE  /\ w[i].sello.n <= Skip
                      /\ w[i].m = "llave" => \A j \in 1 .. i - 1 : w[j].m # "llave"
                      /\ w[i].sello.raiz = d.raiz => Behind(d, w[i])
                      /\ w[i].sello.raiz # d.raiz =>
                             Before(d, u, w[i]) /\ NoneUnder(w, i - 1, d)
    BY DEF Comes1
  <2> DEFINE x == w[i]
  <2>1. x = q[i + 1] /\ i + 1 \in 1 .. Len(q) /\ (i + 1) - 1 = i /\ x \in MessageType
    BY <1>1
  <2>2. /\ x.sello.n <= Skip
        /\ x.m = "llave" => \A j \in 1 .. i : q[j].m # "llave"
        /\ x.sello.raiz = c.raiz => Behind(c, x)
        /\ x.sello.raiz # c.raiz => Before(c, v, x) /\ NoneUnder(q, i, c)
    BY <2>1 DEF Comes1
  <2>3. x.sello.n \in Nat /\ h.sello.n \in Nat
    BY <1>1, <2>1, MessageParts
  <2>4. ASSUME x.m = "llave", NEW j \in 1 .. i - 1 PROVE w[j].m # "llave"
    <3>1. j + 1 \in 1 .. i /\ j \in 1 .. Len(w)
      BY <1>1
    <3> QED
      BY <3>1, <2>2, <2>4, <1>1
  <2>5. NoneUnder(q, i, c) => NoneUnder(w, i - 1, d)
    BY <1>4, NoneUnderTail
  <2> HIDE DEF w, d, x, u
  <2>6. ASSUME x.sello.raiz = c.raiz PROVE Behind(d, x)
    <3>1. CASE IsSealed(h.sello) /\ h.sello.raiz = c.raiz
      <4>1. h.sello.n < x.sello.n /\ d.recibo = h.sello.n + 1
        BY <2>6, <3>1, <1>2, <1>4 DEF x
      <4> QED
        BY <4>1, <2>3 DEF Behind
    <3>2. CASE ~ (IsSealed(h.sello) /\ h.sello.raiz = c.raiz)
      <4>1. d.recibo = c.recibo
        BY <3>2, <1>4
      <4> QED
        BY <4>1, <2>2, <2>6 DEF Behind
    <3> QED
      BY <3>1, <3>2
  <2>7. ASSUME x.sello.raiz # c.raiz PROVE Before(d, u, x)
    <3>1. Before(c, v, x) /\ NoneUnder(q, i, c)
      BY <2>2, <2>7
    <3>2. Said(h) => h.sello.raiz # c.raiz
      <4>1. 1 \in 1 .. i
        OBVIOUS
      <4> QED
        BY <4>1, <3>1 DEF NoneUnder
    <3>3. Old(d) = Old(c) /\ d.raiz # <<>> /\ x.sello.raiz = Old(d) /\ x.m # "llave"
      BY <3>1, <1>4 DEF Before, Old
    <3>4. CASE ~ IsSealed(h.sello)
      BY <3>1, <3>4, <1>4 DEF u
    <3>5. CASE IsSealed(h.sello)
      <4>1. Said(h) /\ h.sello.raiz # c.raiz /\ Before(c, v, h)
        BY <3>2, <3>5, <1>3, <1>5
      <4>2. h.sello.raiz = x.sello.raiz /\ d.anterior = {h.sello.n + 1}
        BY <3>1, <3>5, <4>1, <1>4 DEF Before
      <4>3. IsSealed(x.sello) /\ h.sello.n < x.sello.n
        BY <4>2, <3>5, <1>2 DEF IsSealed, x
      <4>4. h.sello.n + 1 <= x.sello.n
        BY <4>3, <2>3
      <4> QED
        BY <3>3, <4>2, <4>3, <4>4 DEF Before
    <3> QED
      BY <3>4, <3>5
  <2> QED
    BY <2>2, <2>4, <2>5, <2>6, <2>7, <1>4 DEF x
<1> QED
  BY <1>3, <1>6

\* A key renews, and what comes behind it was sealed before that renewal.
LEMMA Comes1Key ==
    ASSUME NEW q \in Seq(MessageType), NEW c \in LayerType, NEW v \in BOOLEAN,
           q # <<>>, Rising(q), Comes1(q, c, v), q[1].m = "llave", v => HasLayer(c),
           NEW k \in Secret
    PROVE  /\ q[1].sello.raiz = c.raiz
           /\ Comes1(Tail(q), Renewed(After(c, q[1]), k), v \/ IsSealed(q[1].sello))
           /\ NoneUnder(Tail(q), Len(Tail(q)), Renewed(After(c, q[1]), k))
<1> DEFINE w == Tail(q)
           h == q[1]
           d == After(c, h)
           u == v \/ IsSealed(h.sello)
           e == Renewed(d, k)
<1>1. /\ Len(q) \in Nat /\ Len(w) = Len(q) - 1 /\ 1 \in 1 .. Len(q) /\ Head(q) = q[1]
      /\ \A i \in 1 .. Len(w) : w[i] = q[i + 1] /\ i + 1 \in 1 .. Len(q)
      /\ \A i \in 1 .. Len(q) : q[i] \in MessageType
  BY SeqPlaces
<1>2. \A i \in 1 .. Len(w) :
          IsSealed(h.sello) /\ w[i].sello.raiz = h.sello.raiz => h.sello.n < w[i].sello.n
  BY <1>1, RisingKeeps
<1>3. Said(h) /\ h.sello.raiz = c.raiz
  <2>1. Said(h)
    BY DEF Said
  <2> QED
    BY <2>1, <1>1 DEF Comes1, Before
<1>4. /\ d \in LayerType /\ d.raiz = c.raiz
      /\ ~ IsSealed(h.sello) => d = c
      /\ IsSealed(h.sello) => d.recibo = h.sello.n + 1
  BY <1>1, <1>3, AfterKeeps
<1>5. c.raiz \in Seq(Secret)
  BY DEF LayerType
<1>6. /\ e.raiz = Append(c.raiz, k) /\ e.raiz # c.raiz /\ e.raiz # <<>> /\ Old(e) = c.raiz
      /\ e.anterior = IF HasLayer(d) THEN {d.recibo} ELSE {}
  <2>1. /\ e.raiz = Append(c.raiz, k)
        /\ e.anterior = IF HasLayer(d) THEN {d.recibo} ELSE {}
    BY <1>4 DEF Renewed
  <2> QED
    BY <2>1, <1>5, RootGrows DEF Old
<1> HIDE DEF w, d, e, u
<1>7. ASSUME NEW i \in 1 .. Len(w), Said(w[i])
      PROVE  /\ w[i].sello.n <= Skip /\ w[i].m # "llave" /\ w[i].sello.raiz = c.raiz
             /\ Before(e, u, w[i])
  <2> DEFINE x == w[i]
  <2>1. /\ x = q[i + 1] /\ i + 1 \in 1 .. Len(q) /\ (i + 1) - 1 = i /\ x \in MessageType
        /\ 1 \in 1 .. i
    BY <1>1
  <2>2. /\ x.sello.n <= Skip /\ x.m # "llave"
        /\ x.sello.raiz # c.raiz => NoneUnder(q, i, c)
    BY <2>1, <1>7 DEF Comes1
  <2>3. x.sello.raiz = c.raiz
    BY <2>1, <2>2, <1>3 DEF NoneUnder
  <2>4. x.sello.n \in Nat /\ h.sello.n \in Nat
    BY <1>1, <2>1, MessageParts
  <2>5. ASSUME IsSealed(x.sello) PROVE \E a \in e.anterior : a <= x.sello.n
    <3>1. IsSealed(h.sello) /\ HasLayer(d)
      BY <2>3, <2>5, <1>3, <1>4 DEF IsSealed, HasLayer
    <3>2. h.sello.n < x.sello.n /\ e.anterior = {h.sello.n + 1}
      BY <3>1, <2>3, <1>2, <1>3, <1>4, <1>6
    <3>3. h.sello.n + 1 <= x.sello.n
      BY <3>2, <2>4
    <3> QED
      BY <3>2, <3>3
  <2>6. ASSUME ~ IsSealed(x.sello) PROVE ~ u
    <3>1. c.raiz = <<>> /\ ~ IsSealed(h.sello)
      BY <2>3, <2>6, <1>3 DEF IsSealed
    <3> QED
      BY <3>1 DEF u, HasLayer
  <2> QED
    BY <2>2, <2>3, <2>5, <2>6, <1>6 DEF Before
<1>8. \A n \in 0 .. Len(w) : NoneUnder(w, n, e)
  <2>1. \A n \in 0 .. Len(w) : \A j \in 1 .. n : j \in 1 .. Len(w)
    BY <1>1
  <2> QED
    BY <2>1, <1>6, <1>7 DEF NoneUnder
<1>9. Comes1(w, e, u)
  <2>1. \A i \in 1 .. Len(w) : i - 1 \in 0 .. Len(w)
    BY <1>1
  <2> QED
    BY <2>1, <1>6, <1>7, <1>8 DEF Comes1
<1>10. Len(w) \in 0 .. Len(w)
  BY <1>1
<1> QED
  BY <1>3, <1>8, <1>9, <1>10 DEF w, e, d, u

\* One more message at the end, for side 1.
LEMMA Comes1Add ==
    ASSUME NEW q \in Seq(MessageType), NEW c, NEW v, NEW x \in MessageType, Comes1(q, c, v),
           Said(x) =>
               /\ x.sello.n <= Skip
               /\ x.m = "llave" => NoneOf(q, "llave")
               /\ x.sello.raiz = c.raiz => Behind(c, x)
               /\ x.sello.raiz # c.raiz => Before(c, v, x) /\ NoneUnder(q, Len(q), c)
    PROVE  Comes1(Append(q, x), c, v)
<1> DEFINE w == Append(q, x)
<1>1. /\ Len(q) \in Nat /\ Len(w) = Len(q) + 1 /\ w[Len(q) + 1] = x
      /\ \A i \in 1 .. Len(q) : w[i] = q[i]
  BY SeqPlaces
<1> HIDE DEF w
<1>2. \A i \in 1 .. Len(w) : \A j \in 1 .. i - 1 : w[j] = q[j] /\ j \in 1 .. Len(q)
  BY <1>1
<1>3. \A i \in 1 .. Len(w) : NoneUnder(q, i - 1, c) => NoneUnder(w, i - 1, c)
  BY <1>2 DEF NoneUnder
<1> SUFFICES ASSUME NEW i \in 1 .. Len(w), Said(w[i])
             PROVE  /\ w[i].sello.n <= Skip
                    /\ w[i].m = "llave" => \A j \in 1 .. i - 1 : w[j].m # "llave"
                    /\ w[i].sello.raiz = c.raiz => Behind(c, w[i])
                    /\ w[i].sello.raiz # c.raiz =>
                           Before(c, v, w[i]) /\ NoneUnder(w, i - 1, c)
  BY DEF Comes1, w
<1>4. CASE i \in 1 .. Len(q)
  <2>1. w[i] = q[i] /\ \A j \in 1 .. i - 1 : w[j] = q[j]
    BY <1>1, <1>2, <1>4
  <2> QED
    BY <2>1, <1>3, <1>4 DEF Comes1
<1>5. CASE i = Len(q) + 1
  <2>1. w[i] = x /\ i - 1 = Len(q)
    BY <1>1, <1>5
  <2>2. x.m = "llave" => \A j \in 1 .. i - 1 : w[j].m # "llave"
    BY <1>2, <1>5, <2>1 DEF NoneOf
  <2> QED
    BY <2>1, <2>2, <1>3
<1> QED
  BY <1>1, <1>4, <1>5

LEMMA Comes1Cut ==
    ASSUME NEW q \in Seq(MessageType), NEW c, NEW v, NEW n \in 0 .. Len(q), Comes1(q, c, v)
    PROVE  Comes1(SubSeq(q, 1, n), c, v)
<1> DEFINE w == SubSeq(q, 1, n)
<1>1. Len(w) = n /\ \A i \in 1 .. n : w[i] = q[i] /\ i \in 1 .. Len(q)
  BY SeqPlaces
<1>2. Len(q) \in Nat
  BY SeqPlaces
<1> HIDE DEF w
<1>3. \A i \in 1 .. Len(w) : \A j \in 1 .. i - 1 : w[j] = q[j]
  BY <1>1, <1>2
<1>4. \A i \in 1 .. Len(w) : NoneUnder(q, i - 1, c) => NoneUnder(w, i - 1, c)
  BY <1>3 DEF NoneUnder
<1>5. Comes1(w, c, v)
  <2> SUFFICES ASSUME NEW i \in 1 .. Len(w), Said(w[i])
               PROVE  /\ w[i].sello.n <= Skip
                      /\ w[i].m = "llave" => \A j \in 1 .. i - 1 : w[j].m # "llave"
                      /\ w[i].sello.raiz = c.raiz => Behind(c, w[i])
                      /\ w[i].sello.raiz # c.raiz =>
                             Before(c, v, w[i]) /\ NoneUnder(w, i - 1, c)
    BY DEF Comes1
  <2>1. w[i] = q[i] /\ i \in 1 .. Len(q)
    BY <1>1
  <2> QED
    BY <2>1, <1>3, <1>4 DEF Comes1
<1> QED
  BY <1>5 DEF w

LEMMA Comes1Same ==
    ASSUME NEW q \in Seq(MessageType), NEW c, NEW d, NEW v, Comes1(q, c, v),
           d.raiz = c.raiz, d.recibo = c.recibo, d.anterior = c.anterior
    PROVE  Comes1(q, d, v)
<1>1. /\ \A x : Behind(d, x) <=> Behind(c, x)
      /\ \A x : Before(d, v, x) <=> Before(c, v, x)
      /\ \A n : NoneUnder(q, n, d) <=> NoneUnder(q, n, c)
  BY DEF Behind, Before, NoneUnder, Old
<1> QED
  BY <1>1 DEF Comes1

\* What the two sides know of each other while the conversation is open for both: with the
\* same root no side has opened more than the other sealed; while side 1 is one secret ahead
\* the answer travels, and what side 0 seals is expected; and numbers are not used twice.
Sync(q0, q1, c0, c1, v) ==
    /\ c0.raiz = c1.raiz => c0.recibo <= c1.envio /\ c1.recibo <= c0.envio
    /\ c0.raiz # c1.raiz =>
         /\ ~ NoneOf(q0, "cifrado") /\ c1.recibo = 0 /\ NoneUnder(q1, Len(q1), c1)
         /\ HasLayer(c0) => \E a \in c1.anterior : a <= c0.envio
         /\ ~ HasLayer(c0) => ~ v
    /\ Below(q1, c0) /\ Below(q0, c1)

\* d is c after it sealed.
Sealing(c, d) ==
    d.raiz = c.raiz /\ d.recibo = c.recibo /\ d.anterior = c.anterior /\ c.envio <= d.envio

LEMMA EnvioNat ==
    ASSUME NEW c \in LayerType
    PROVE  c.envio \in Nat /\ c.recibo \in Nat /\ c.raiz \in Seq(Secret) /\ c.anterior \subseteq Nat
  BY DEF LayerType

LEMMA BelowSealing ==
    ASSUME NEW q \in Seq(MessageType), NEW c \in LayerType, NEW d \in LayerType,
           Sealing(c, d), Below(q, c)
    PROVE  Below(q, d)
<1>1. \A i \in 1 .. Len(q) : q[i].sello.n \in Nat
  BY SeqPlaces, MessageParts
<1>2. c.envio \in Nat /\ d.envio \in Nat
  BY EnvioNat
<1> QED
  BY <1>1, <1>2 DEF Below, Sealing

LEMMA SyncSealing ==
    ASSUME NEW q0 \in Seq(MessageType), NEW q1 \in Seq(MessageType),
           NEW c0 \in LayerType, NEW c1 \in LayerType, NEW v,
           NEW d0 \in LayerType, NEW d1 \in LayerType,
           Sync(q0, q1, c0, c1, v), Sealing(c0, d0), Sealing(c1, d1)
    PROVE  Sync(q0, q1, d0, d1, v)
<1>1. Below(q1, d0) /\ Below(q0, d1)
  BY BelowSealing DEF Sync
<1>2. /\ c0.envio \in Nat /\ c1.envio \in Nat /\ d0.envio \in Nat /\ d1.envio \in Nat
      /\ c0.recibo \in Nat /\ c1.recibo \in Nat /\ c1.anterior \subseteq Nat
  BY EnvioNat
<1>3. c0.raiz = c1.raiz => d0.recibo <= d1.envio /\ d1.recibo <= d0.envio
  BY <1>2 DEF Sync, Sealing
<1>4. ASSUME c0.raiz # c1.raiz
      PROVE  /\ ~ NoneOf(q0, "cifrado") /\ d1.recibo = 0 /\ NoneUnder(q1, Len(q1), d1)
             /\ HasLayer(d0) => \E a \in d1.anterior : a <= d0.envio
             /\ ~ HasLayer(d0) => ~ v
  <2>1. NoneUnder(q1, Len(q1), c1) <=> NoneUnder(q1, Len(q1), d1)
    BY DEF NoneUnder, Sealing
  <2>2. HasLayer(d0) <=> HasLayer(c0)
    BY DEF HasLayer, Sealing
  <2>3. ASSUME HasLayer(c0) PROVE \E a \in d1.anterior : a <= d0.envio
    <3>1. PICK a \in c1.anterior : a <= c0.envio
      BY <1>4, <2>3 DEF Sync
    <3>2. a \in d1.anterior /\ a <= d0.envio
      BY <3>1, <1>2 DEF Sealing
    <3> QED
      BY <3>2
  <2> QED
    BY <1>4, <2>1, <2>2, <2>3 DEF Sync, Sealing
<1>5. d0.raiz = c0.raiz /\ d1.raiz = c1.raiz
  BY DEF Sealing
<1> QED
  BY <1>1, <1>3, <1>4, <1>5 DEF Sync

LEMMA NoneUnderAdd ==
    ASSUME NEW q \in Seq(MessageType), NEW x \in MessageType, NEW c,
           NoneUnder(q, Len(q), c), Said(x) => x.sello.raiz # c.raiz
    PROVE  NoneUnder(Append(q, x), Len(Append(q, x)), c)
<1>1. /\ Len(q) \in Nat /\ Len(Append(q, x)) = Len(q) + 1 /\ Append(q, x)[Len(q) + 1] = x
      /\ \A i \in 1 .. Len(q) : Append(q, x)[i] = q[i]
  BY SeqPlaces
<1>2. \A i \in 1 .. Len(q) + 1 : i \in 1 .. Len(q) \/ i = Len(q) + 1
  BY <1>1
<1> QED
  BY <1>1, <1>2 DEF NoneUnder

LEMMA NoneOfAdd ==
    ASSUME NEW q \in Seq(MessageType), NEW x \in MessageType, NEW kind
    PROVE  NoneOf(Append(q, x), kind) <=> NoneOf(q, kind) /\ x.m # kind
<1>1. /\ Len(q) \in Nat /\ Len(Append(q, x)) = Len(q) + 1 /\ Append(q, x)[Len(q) + 1] = x
      /\ \A i \in 1 .. Len(q) : Append(q, x)[i] = q[i]
  BY SeqPlaces
<1>2. \A i \in 1 .. Len(q) + 1 : i \in 1 .. Len(q) \/ i = Len(q) + 1
  BY <1>1
<1>3. Len(q) + 1 \in 1 .. Len(q) + 1 /\ \A i \in 1 .. Len(q) : i \in 1 .. Len(q) + 1
  BY <1>1
<1> QED
  BY <1>1, <1>2, <1>3 DEF NoneOf

\* Side 0 says one thing to side 1.
LEMMA SyncSay1 ==
    ASSUME NEW q0 \in Seq(MessageType), NEW q1 \in Seq(MessageType),
           NEW c0 \in LayerType, NEW c1 \in LayerType, NEW v, NEW d0 \in LayerType,
           Sync(q0, q1, c0, c1, v), Sealing(c0, d0), NEW x \in MessageType,
           Said(x) => x.sello.raiz = c0.raiz, IsSealed(x.sello) => x.sello.n < d0.envio
    PROVE  Sync(q0, Append(q1, x), d0, c1, v)
<1>1. Sealing(c1, c1)
  BY EnvioNat DEF Sealing
<1>2. Sync(q0, q1, d0, c1, v)
  BY <1>1, SyncSealing
<1>3. Below(Append(q1, x), d0)
  BY <1>2, BelowKeeps DEF Sync
<1>4. ASSUME d0.raiz # c1.raiz PROVE NoneUnder(Append(q1, x), Len(Append(q1, x)), c1)
  <2>1. Said(x) => x.sello.raiz # c1.raiz
    BY <1>4 DEF Sealing
  <2> QED
    BY <1>2, <1>4, <2>1, NoneUnderAdd DEF Sync
<1> QED
  BY <1>2, <1>3, <1>4 DEF Sync

\* Side 1 says one thing to side 0.
LEMMA SyncSay0 ==
    ASSUME NEW q0 \in Seq(MessageType), NEW q1 \in Seq(MessageType),
           NEW c0 \in LayerType, NEW c1 \in LayerType, NEW v, NEW d1 \in LayerType,
           Sync(q0, q1, c0, c1, v), Sealing(c1, d1), NEW x \in MessageType,
           IsSealed(x.sello) => x.sello.n < d1.envio
    PROVE  Sync(Append(q0, x), q1, c0, d1, v)
<1>1. Sealing(c0, c0)
  BY EnvioNat DEF Sealing
<1>2. Sync(q0, q1, c0, d1, v)
  BY <1>1, SyncSealing
<1>3. Below(Append(q0, x), d1)
  BY <1>2, BelowKeeps DEF Sync
<1>4. ~ NoneOf(q0, "cifrado") => ~ NoneOf(Append(q0, x), "cifrado")
  BY NoneOfAdd
<1> QED
  BY <1>2, <1>3, <1>4 DEF Sync

\* Side 0 opens something that is not the answer.
LEMMA SyncRead0 ==
    ASSUME NEW q0 \in Seq(MessageType), NEW q1 \in Seq(MessageType),
           NEW c0 \in LayerType, NEW c1 \in LayerType, NEW v,
           Sync(q0, q1, c0, c1, v), q0 # <<>>, q0[1].m # "cifrado",
           Said(q0[1]) => q0[1].sello.raiz = c0.raiz
    PROVE  Sync(Tail(q0), q1, After(c0, q0[1]), c1, v)
<1> DEFINE h == q0[1]
           d == After(c0, h)
<1>1. /\ h \in MessageType /\ 1 \in 1 .. Len(q0) /\ Len(q0) \in Nat
      /\ Len(Tail(q0)) = Len(q0) - 1
      /\ \A i \in 1 .. Len(Tail(q0)) : Tail(q0)[i] = q0[i + 1]
  BY SeqPlaces
<1>2. /\ d.raiz = c0.raiz /\ d.envio = c0.envio
      /\ ~ IsSealed(h.sello) => d = c0
      /\ IsSealed(h.sello) /\ h.sello.raiz = c0.raiz => d.recibo = h.sello.n + 1
  BY <1>1, AfterKeeps
<1> HIDE DEF d
<1>3. Below(Tail(q0), c1) /\ Below(q1, d)
  BY <1>2, BelowKeeps DEF Sync, Below
<1>4. ~ NoneOf(q0, "cifrado") => ~ NoneOf(Tail(q0), "cifrado")
  <2> SUFFICES ASSUME NEW i \in 1 .. Len(q0), q0[i].m = "cifrado"
               PROVE  ~ NoneOf(Tail(q0), "cifrado")
    BY DEF NoneOf
  <2>1. i # 1
    OBVIOUS
  <2>2. i - 1 \in 1 .. Len(Tail(q0)) /\ (i - 1) + 1 = i
    BY <1>1, <2>1
  <2>3. Tail(q0)[i - 1] = q0[i]
    BY <1>1, <2>2
  <2> QED
    BY <2>2, <2>3 DEF NoneOf
<1>5. ASSUME c0.raiz = c1.raiz PROVE d.recibo <= c1.envio /\ c1.recibo <= d.envio
  <2>1. CASE IsSealed(h.sello)
    <3>1. h.sello.raiz = c0.raiz
      BY <2>1 DEF Said
    <3>2. h.sello.n < c1.envio
      BY <3>1, <2>1, <1>1, <1>5 DEF Sync, Below
    <3>3. h.sello.n \in Nat /\ c1.envio \in Nat
      BY <1>1, MessageParts, EnvioNat
    <3>4. d.recibo <= c1.envio
      BY <3>1, <3>2, <3>3, <2>1, <1>2
    <3> QED
      BY <3>4, <1>2, <1>5 DEF Sync
  <2>2. CASE ~ IsSealed(h.sello)
    BY <2>2, <1>2, <1>5 DEF Sync
  <2> QED
    BY <2>1, <2>2
<1>6. HasLayer(d) <=> HasLayer(c0)
  BY <1>2 DEF HasLayer
<1>7. Sync(Tail(q0), q1, d, c1, v)
  BY <1>2, <1>3, <1>4, <1>5, <1>6 DEF Sync
<1> QED
  BY <1>7 DEF d

\* Side 1 opens something that is not a key.
LEMMA SyncRead1 ==
    ASSUME NEW q0 \in Seq(MessageType), NEW q1 \in Seq(MessageType),
           NEW c0 \in LayerType, NEW c1 \in LayerType, NEW v \in BOOLEAN,
           Sync(q0, q1, c0, c1, v), q1 # <<>>,
           Said(q1[1]) /\ q1[1].sello.raiz # c1.raiz => Before(c1, v, q1[1]),
           c0.raiz # c1.raiz => c0.raiz = Old(c1)
    PROVE  Sync(q0, Tail(q1), c0, After(c1, q1[1]), v \/ IsSealed(q1[1].sello))
<1> DEFINE h == q1[1]
           d == After(c1, h)
           u == v \/ IsSealed(h.sello)
<1>1. /\ h \in MessageType /\ 1 \in 1 .. Len(q1) /\ Len(q1) \in Nat
      /\ Len(Tail(q1)) = Len(q1) - 1 /\ Tail(q1) \in Seq(MessageType)
      /\ \A i \in 1 .. Len(Tail(q1)) : Tail(q1)[i] = q1[i + 1]
  BY SeqPlaces
<1>2. /\ d.raiz = c1.raiz /\ d.envio = c1.envio
      /\ ~ IsSealed(h.sello) => d = c1
      /\ IsSealed(h.sello) /\ h.sello.raiz = c1.raiz => d.recibo = h.sello.n + 1
      /\ IsSealed(h.sello) /\ h.sello.raiz # c1.raiz =>
             d.recibo = c1.recibo /\ d.anterior = {h.sello.n + 1}
  BY <1>1, AfterKeeps
<1>3. h.sello.n \in Nat /\ c0.envio \in Nat
  BY <1>1, MessageParts, EnvioNat
<1> HIDE DEF d, u
<1>4. Below(Tail(q1), c0) /\ Below(q0, d)
  BY <1>2, BelowKeeps DEF Sync, Below
<1>5. h.sello.raiz = c0.raiz /\ IsSealed(h.sello) => h.sello.n + 1 <= c0.envio
  <2>1. h.sello.raiz = c0.raiz /\ IsSealed(h.sello) => h.sello.n < c0.envio
    BY <1>1 DEF Sync, Below
  <2> QED
    BY <2>1, <1>3
<1>6. ASSUME c0.raiz = c1.raiz PROVE c0.recibo <= d.envio /\ d.recibo <= c0.envio
  <2>1. CASE IsSealed(h.sello) /\ h.sello.raiz = c1.raiz
    BY <2>1, <1>2, <1>5, <1>6 DEF Sync
  <2>2. CASE ~ (IsSealed(h.sello) /\ h.sello.raiz = c1.raiz)
    <3>1. d.recibo = c1.recibo
      BY <2>2, <1>2
    <3> QED
      BY <3>1, <1>2, <1>6 DEF Sync
  <2> QED
    BY <2>1, <2>2
<1>7. ASSUME c0.raiz # c1.raiz
      PROVE  /\ d.recibo = 0 /\ NoneUnder(Tail(q1), Len(Tail(q1)), d)
             /\ HasLayer(c0) => \E a \in d.anterior : a <= c0.envio
             /\ ~ HasLayer(c0) => ~ u
  <2>1. /\ c1.recibo = 0 /\ NoneUnder(q1, Len(q1), c1)
        /\ HasLayer(c0) => \E a \in c1.anterior : a <= c0.envio
        /\ ~ HasLayer(c0) => ~ v
    BY <1>7 DEF Sync
  <2>2. NoneUnder(Tail(q1), Len(Tail(q1)), d)
    <3>1. \A j \in 1 .. Len(Tail(q1)) : j + 1 \in 1 .. Len(q1)
      BY <1>1
    <3> QED
      BY <3>1, <2>1, <1>1, <1>2 DEF NoneUnder
  <2>3. Said(h) => h.sello.raiz # c1.raiz /\ h.sello.raiz = c0.raiz
    <3>1. Said(h) => h.sello.raiz # c1.raiz
      BY <2>1, <1>1 DEF NoneUnder
    <3>2. Said(h) => h.sello.raiz = Old(c1)
      BY <3>1 DEF Before
    <3> QED
      BY <3>1, <3>2, <1>7
  <2>4. CASE IsSealed(h.sello)
    <3>1. h.sello.raiz # c1.raiz /\ h.sello.raiz = c0.raiz
      BY <2>3, <2>4 DEF Said
    <3>2. d.recibo = 0 /\ d.anterior = {h.sello.n + 1} /\ h.sello.n + 1 <= c0.envio
      BY <3>1, <2>1, <2>4, <1>2, <1>5
    <3>3. HasLayer(c0)
      BY <3>1, <2>4 DEF HasLayer, IsSealed
    <3> QED
      BY <3>2, <3>3, <2>2
  <2>5. CASE ~ IsSealed(h.sello)
    BY <2>1, <2>2, <2>5, <1>2 DEF u
  <2> QED
    BY <2>4, <2>5
<1>8. Sync(q0, Tail(q1), c0, d, u)
  BY <1>2, <1>4, <1>6, <1>7 DEF Sync
<1> QED
  BY <1>8 DEF d, u

\* Side 1 takes a key and answers it under the root it had.
LEMMA SyncKey ==
    ASSUME NEW q0 \in Seq(MessageType), NEW q1 \in Seq(MessageType),
           NEW c0 \in LayerType, NEW c1 \in LayerType, NEW v \in BOOLEAN, NEW o,
           Sync(q0, q1, c0, c1, v), Comes0(q0, c0, o), Comes1(q1, c1, v), Rising(q1),
           q1 # <<>>, q1[1].m = "llave", v => HasLayer(c1), c0.raiz = c1.raiz,
           NoneOf(q0, "cifrado"), NEW k \in Secret, NEW x \in MessageType,
           x.m = "cifrado", x.sello.raiz = c1.raiz
    PROVE  Sync(Append(q0, x), Tail(q1), c0, Renewed(After(c1, q1[1]), k),
                v \/ IsSealed(q1[1].sello))
<1> DEFINE h == q1[1]
           d == After(c1, h)
           e == Renewed(d, k)
           u == v \/ IsSealed(h.sello)
<1>1. /\ h \in MessageType /\ 1 \in 1 .. Len(q1) /\ Len(q0) \in Nat
      /\ \A i \in 1 .. Len(q0) : q0[i] \in MessageType
  BY SeqPlaces
<1>2. h.sello.raiz = c1.raiz /\ NoneUnder(Tail(q1), Len(Tail(q1)), e)
  BY Comes1Key
<1>3. /\ d.raiz = c1.raiz
      /\ ~ IsSealed(h.sello) => d = c1
      /\ IsSealed(h.sello) => d.recibo = h.sello.n + 1
  BY <1>1, <1>2, AfterKeeps
<1>4. /\ e.raiz = Append(c1.raiz, k) /\ e.recibo = 0 /\ e.envio = 0
      /\ HasLayer(d) => e.anterior = {d.recibo}
  BY <1>3 DEF Renewed
<1>5. e.raiz # c1.raiz
  BY <1>4, EnvioNat, RootGrows
<1>6. h.sello.n \in Nat /\ c0.envio \in Nat
  BY <1>1, MessageParts, EnvioNat
<1> HIDE DEF d, e, u
<1>7. ~ NoneOf(Append(q0, x), "cifrado")
  BY NoneOfAdd
<1>8. ASSUME HasLayer(c0) PROVE \E a \in e.anterior : a <= c0.envio
  <2>1. IsSealed(h.sello) /\ HasLayer(d)
    BY <1>2, <1>3, <1>8 DEF HasLayer, IsSealed
  <2>2. h.sello.n < c0.envio
    BY <2>1, <1>1, <1>2 DEF Sync, Below
  <2>3. e.anterior = {h.sello.n + 1} /\ h.sello.n + 1 <= c0.envio
    BY <2>1, <2>2, <1>3, <1>4, <1>6
  <2> QED
    BY <2>3
<1>9. ~ HasLayer(c0) => ~ u
  BY <1>2 DEF HasLayer, IsSealed, u
<1>10. Below(Tail(q1), c0)
  BY BelowKeeps DEF Sync
<1>11. Below(Append(q0, x), e)
  <2>1. \A i \in 1 .. Len(q0) : ~ Answered(q0, i - 1)
    <3> SUFFICES ASSUME NEW i \in 1 .. Len(q0), NEW j \in 1 .. i - 1, q0[j].m = "cifrado"
                 PROVE  FALSE
      BY DEF Answered
    <3>1. j \in 1 .. Len(q0)
      BY <1>1
    <3> QED
      BY <3>1 DEF NoneOf
  <2>2. \A i \in 1 .. Len(q0) : Said(q0[i]) => q0[i].sello.raiz # e.raiz
    BY <2>1, <1>5 DEF Comes0
  <2>3. Below(q0, e)
    BY <2>2 DEF Below, Said
  <2> QED
    BY <2>3, <1>5, BelowKeeps
<1>12. Sync(Append(q0, x), Tail(q1), c0, e, u)
  BY <1>2, <1>4, <1>5, <1>7, <1>8, <1>9, <1>10, <1>11 DEF Sync
<1> QED
  BY <1>12 DEF d, e, u

\* Side 0 takes the answer and has the root of side 1.
LEMMA SyncAnswer ==
    ASSUME NEW q0 \in Seq(MessageType), NEW q1 \in Seq(MessageType),
           NEW c0 \in LayerType, NEW c1 \in LayerType, NEW v, NEW k \in Secret,
           Sync(q0, q1, c0, c1, v), c1.raiz = Append(c0.raiz, k), q0 # <<>>,
           NEW d \in LayerType, d.raiz = c0.raiz
    PROVE  Sync(Tail(q0), q1, Renewed(d, k), c1, v)
<1> DEFINE e == Renewed(d, k)
<1>1. e.raiz = c1.raiz /\ e.recibo = 0 /\ e.envio = 0
  BY DEF Renewed
<1> HIDE DEF e
<1>2. c0.raiz # c1.raiz
  BY EnvioNat, RootGrows
<1>3. c1.recibo = 0 /\ NoneUnder(q1, Len(q1), c1)
  BY <1>2 DEF Sync
<1>4. Below(q1, e)
  BY <1>1, <1>3 DEF Below, NoneUnder, Said
<1>5. Below(Tail(q0), c1)
  BY BelowKeeps DEF Sync
<1>6. c1.envio \in Nat
  BY EnvioNat
<1>7. Sync(Tail(q0), q1, e, c1, v)
  BY <1>1, <1>3, <1>4, <1>5, <1>6 DEF Sync
<1> QED
  BY <1>7 DEF e

\* The link drops and takes no answer with it.
LEMMA SyncCut ==
    ASSUME NEW q0 \in Seq(MessageType), NEW q1 \in Seq(MessageType),
           NEW c0 \in LayerType, NEW c1 \in LayerType, NEW v,
           NEW n0 \in 0 .. Len(q0), NEW n1 \in 0 .. Len(q1), Sync(q0, q1, c0, c1, v),
           NoneOf(SubSeq(q0, 1, n0), "cifrado") => NoneOf(q0, "cifrado")
    PROVE  Sync(SubSeq(q0, 1, n0), SubSeq(q1, 1, n1), c0, c1, v)
<1>1. Below(SubSeq(q1, 1, n1), c0) /\ Below(SubSeq(q0, 1, n0), c1)
  BY BelowKeeps DEF Sync
<1>2. NoneUnder(q1, Len(q1), c1) => NoneUnder(SubSeq(q1, 1, n1), Len(SubSeq(q1, 1, n1)), c1)
  <2>1. /\ Len(SubSeq(q1, 1, n1)) = n1
        /\ \A i \in 1 .. n1 : SubSeq(q1, 1, n1)[i] = q1[i] /\ i \in 1 .. Len(q1)
    BY SeqPlaces
  <2> QED
    BY <2>1 DEF NoneUnder
<1> QED
  BY <1>1, <1>2 DEF Sync

\* The number of the last message that travels under a root is behind the next one.
LEMMA RisingSay ==
    ASSUME NEW q \in Seq(MessageType), NEW c \in LayerType, Rising(q), Below(q, c),
           NEW x \in MessageType, IsSealed(x.sello) => x.sello.raiz = c.raiz /\ c.envio <= x.sello.n
    PROVE  Rising(Append(q, x))
<1>1. \A j \in 1 .. Len(q) : q[j].sello.n \in Nat
  BY SeqPlaces, MessageParts
<1>2. c.envio \in Nat /\ x.sello.n \in Nat
  BY EnvioNat, MessageParts
<1>3. ASSUME IsSealed(x.sello), NEW j \in 1 .. Len(q), q[j].sello.raiz = x.sello.raiz
      PROVE  q[j].sello.n < x.sello.n
  <2>1. IsSealed(q[j].sello) /\ q[j].sello.raiz = c.raiz
    BY <1>3 DEF IsSealed
  <2>2. q[j].sello.n < c.envio
    BY <2>1 DEF Below
  <2> QED
    BY <2>2, <1>1, <1>2, <1>3
<1> QED
  BY <1>3, RisingKeeps

\* What side 0 says can be opened by side 1.
LEMMA Say1Comes ==
    ASSUME NEW q0 \in Seq(MessageType), NEW q1 \in Seq(MessageType),
           NEW c0 \in LayerType, NEW c1 \in LayerType, NEW v \in BOOLEAN,
           Sync(q0, q1, c0, c1, v), Comes1(q1, c1, v), Rising(q1),
           c0.raiz # c1.raiz => c0.raiz = Old(c1) /\ c1.raiz # <<>>,
           NEW x \in MessageType, x.sello.raiz = c0.raiz, x.sello.n <= Skip,
           IsSealed(x.sello) => c0.envio <= x.sello.n,
           x.m = "llave" => c0.raiz = c1.raiz /\ NoneOf(q1, "llave")
    PROVE  Comes1(Append(q1, x), c1, v) /\ Rising(Append(q1, x))
<1>1. Rising(Append(q1, x))
  BY RisingSay DEF Sync
<1>2. x.sello.n \in Nat /\ c0.envio \in Nat /\ c1.recibo \in Nat /\ c1.anterior \subseteq Nat
  BY MessageParts, EnvioNat
<1>3. x.sello.raiz = c1.raiz => Behind(c1, x)
  BY <1>2 DEF Sync, Behind
<1>4. ASSUME x.sello.raiz # c1.raiz PROVE Before(c1, v, x) /\ NoneUnder(q1, Len(q1), c1)
  <2>1. NoneUnder(q1, Len(q1), c1) /\ c1.raiz # <<>> /\ x.sello.raiz = Old(c1)
    BY <1>4 DEF Sync
  <2>2. ASSUME IsSealed(x.sello) PROVE \E a \in c1.anterior : a <= x.sello.n
    <3>1. HasLayer(c0)
      BY <2>2 DEF HasLayer, IsSealed
    <3>2. PICK a \in c1.anterior : a <= c0.envio
      BY <3>1, <1>4 DEF Sync
    <3>3. a <= x.sello.n
      BY <3>2, <2>2, <1>2
    <3> QED
      BY <3>3
  <2>3. ~ IsSealed(x.sello) => ~ v
    BY <1>4 DEF Sync, HasLayer, IsSealed
  <2> QED
    BY <1>4, <2>1, <2>2, <2>3 DEF Before
<1>5. Comes1(Append(q1, x), c1, v)
  BY <1>3, <1>4, Comes1Add
<1> QED
  BY <1>1, <1>5

\* What side 1 says can be opened by side 0.
LEMMA Say0Comes ==
    ASSUME NEW q0 \in Seq(MessageType), NEW q1 \in Seq(MessageType),
           NEW c0 \in LayerType, NEW c1 \in LayerType, NEW v, NEW o,
           Sync(q0, q1, c0, c1, v), Comes0(q0, c0, o), Rising(q0),
           c0.raiz = c1.raiz => NoneOf(q0, "cifrado"),
           c0.raiz # c1.raiz => c1.raiz = Append(c0.raiz, NextOf(o, c0)),
           NEW x \in MessageType, x.sello.raiz = c1.raiz, x.sello.n <= Skip,
           IsSealed(x.sello) => c1.envio <= x.sello.n,
           x.m = "cifrado" => c0.raiz = c1.raiz /\ o # 0 /\ x.de = NextOf(o, c0)
    PROVE  Comes0(Append(q0, x), c0, o) /\ Rising(Append(q0, x))
<1>1. Rising(Append(q0, x))
  BY RisingSay DEF Sync
<1>2. x.sello.n \in Nat /\ c1.envio \in Nat /\ c0.recibo \in Nat
  BY MessageParts, EnvioNat
<1>3. x.sello.raiz = c0.raiz => Behind(c0, x)
  BY <1>2 DEF Sync, Behind
<1>4. ~ NoneOf(q0, "cifrado") => x.sello.raiz = Append(c0.raiz, NextOf(o, c0)) /\ x.m # "cifrado"
  OBVIOUS
<1>5. NoneOf(q0, "cifrado") => x.sello.raiz = c0.raiz
  BY DEF Sync
<1>6. Comes0(Append(q0, x), c0, o)
  BY <1>3, <1>4, <1>5, Comes0Add
<1> QED
  BY <1>1, <1>6

\* Greetings that side s has still to say: for the link it has, and for the one after it.
Links(s) == (IF enlace[s] = "nuevo" THEN 1 ELSE 0) + (IF viva THEN 0 ELSE 1)

\* How many messages a side may have sealed since it renewed.
Numbers ==
    /\ count.data <= MaxData /\ count.drops <= MaxDrops
    /\ count.offers + Links(0) <= MaxOffers + 1 + count.drops
    /\ \A s \in Sides :
        /\ fase[s] = "lista" /\ enlace[s] = "ninguno" => ~ viva
        /\ Links(s) <= count.drops
        /\ capa[s].envio + Links(s) <= count.data + count.offers + count.drops

LEMMA CountParts ==
    ASSUME TypeOK
    PROVE  /\ count.data \in Nat /\ count.offers \in Nat /\ count.drops \in Nat
           /\ \A s \in Sides : capa[s] \in LayerType /\ capa[s].envio \in Nat
           /\ \A s \in Sides : Links(s) \in {0, 1, 2}
           /\ 0 \in Sides /\ 1 \in Sides
<1>1. count \in CountType /\ \A s \in Sides : capa[s] \in LayerType
  BY DEF TypeOK, CountType
<1>2. count.data \in Nat /\ count.offers \in Nat /\ count.drops \in Nat
  BY <1>1 DEF CountType
<1>3. \A s \in Sides : Links(s) \in {0, 1, 2}
  BY DEF Links
<1> QED
  BY <1>1, <1>2, <1>3, EnvioNat DEF Sides

LEMMA SealsKeeps ==
    ASSUME NEW s, NEW c \in LayerType, NEW ps, Len(ps) \in Nat
    PROVE  /\ AfterSealing(s, c, ps) \in LayerType /\ Sealing(c, AfterSealing(s, c, ps))
           /\ AfterSealing(s, c, ps).envio <= c.envio + Len(ps)
           /\ EnMarcha(s) /\ HasLayer(c) => AfterSealing(s, c, ps).envio = c.envio + Len(ps)
           /\ ~ EnMarcha(s) => AfterSealing(s, c, ps) = c
<1> DEFINE d == [c EXCEPT !.envio = @ + Len(ps)]
<1>1. c.envio \in Nat
  BY EnvioNat
<1>2. d.raiz = c.raiz /\ d.recibo = c.recibo /\ d.anterior = c.anterior /\ d.envio = c.envio + Len(ps)
  BY DEF LayerType
<1> HIDE DEF d
<1>3. Sealing(c, d) /\ Sealing(c, c) /\ c.envio <= c.envio + Len(ps)
  BY <1>1, <1>2 DEF Sealing
<1>4. AfterSealing(s, c, ps) = IF EnMarcha(s) /\ HasLayer(c) THEN d ELSE c
  BY DEF AfterSealing, d
<1> QED
  BY <1>1, <1>2, <1>3, <1>4, LayerKeeps

\* A step that leaves the links and the counters, and starts no number anew but from zero.
LEMMA NumbersQuiet ==
    ASSUME TypeOK, Numbers, enlace' = enlace, viva' = viva,
           \A s \in Sides : fase'[s] = fase[s] \/ enlace[s] # "ninguno",
           count'.data = count.data, count'.offers = count.offers, count'.drops = count.drops,
           \A s \in Sides : capa'[s].envio = capa[s].envio \/ capa'[s].envio = 0
    PROVE  Numbers'
<1>1. /\ count.data \in Nat /\ count.offers \in Nat /\ count.drops \in Nat
      /\ \A s \in Sides : capa[s].envio \in Nat /\ Links(s) \in Nat
  BY CountParts
<1>2. \A s : Links(s)' = Links(s)
  BY DEF Links
<1> SUFFICES ASSUME NEW s \in Sides
             PROVE  /\ fase'[s] = "lista" /\ enlace'[s] = "ninguno" => ~ viva'
                    /\ Links(s)' <= count'.drops
                    /\ capa'[s].envio + Links(s)' <= count'.data + count'.offers + count'.drops
  BY <1>1, <1>2 DEF Numbers
<1>3. /\ Links(s) <= count.drops
      /\ capa[s].envio + Links(s) <= count.data + count.offers + count.drops
      /\ fase[s] = "lista" /\ enlace[s] = "ninguno" => ~ viva
  BY DEF Numbers
<1>4. capa'[s].envio + Links(s) <= count.data + count.offers + count.drops
  <2> DEFINE a == capa'[s].envio
             b == capa[s].envio
             l == Links(s)
  <2>1. (a = b \/ a = 0) /\ b \in Nat /\ l \in Nat
    BY <1>1
  <2> HIDE DEF a, b, l
  <2>2. b + l <= count.data + count.offers + count.drops
    BY <1>3 DEF b, l
  <2>3. a + l <= count.data + count.offers + count.drops
    BY <2>1, <2>2, <1>1
  <2> QED
    BY <2>3 DEF a, l
<1> QED
  BY <1>2, <1>3, <1>4

\* A side sends n messages, paid for by what it counts.
LEMMA NumbersSends ==
    ASSUME TypeOK, Numbers, NEW s \in Sides, NEW n \in Nat, viva' = viva, fase' = fase,
           NEW d \in LayerType, capa' = [capa EXCEPT ![s] = d], d.envio <= capa[s].envio + n,
           \A x \in Sides : x # s => enlace'[x] = enlace[x],
           enlace'[s] # "ninguno" \/ enlace'[s] = enlace[s],
           count'.data \in Nat, count'.offers \in Nat, count'.drops = count.drops,
           count.data <= count'.data, count'.data <= MaxData, count.offers <= count'.offers,
           count'.offers + Links(0)' <= MaxOffers + 1 + count.drops,
           Links(s)' <= Links(s),
           n + Links(s)' + count.data + count.offers <= Links(s) + count'.data + count'.offers
    PROVE  Numbers'
<1>1. /\ count.data \in Nat /\ count.offers \in Nat /\ count.drops \in Nat
      /\ \A x \in Sides : capa[x].envio \in Nat /\ Links(x) \in Nat
  BY CountParts
<1>2. /\ capa'[s] = d /\ d.envio \in Nat /\ Links(s)' \in Nat
      /\ \A x \in Sides : x # s => capa'[x] = capa[x]
  <2>1. capa \in [Sides -> LayerType]
    BY DEF TypeOK
  <2>2. Links(s)' \in {0, 1, 2}
    BY DEF Links
  <2> QED
    BY <2>1, <2>2, EnvioNat
<1>3. count'.drops <= MaxDrops /\ count'.data <= MaxData
      /\ count'.offers + Links(0)' <= MaxOffers + 1 + count'.drops
  BY DEF Numbers
<1> SUFFICES ASSUME NEW x \in Sides
             PROVE  /\ fase'[x] = "lista" /\ enlace'[x] = "ninguno" => ~ viva'
                    /\ Links(x)' <= count'.drops
                    /\ capa'[x].envio + Links(x)' <= count'.data + count'.offers + count'.drops
  BY <1>3 DEF Numbers
<1>4. /\ Links(x) <= count.drops
      /\ capa[x].envio + Links(x) <= count.data + count.offers + count.drops
      /\ fase[x] = "lista" /\ enlace[x] = "ninguno" => ~ viva
  BY DEF Numbers
<1>5. CASE x # s
  <2>1. Links(x)' = Links(x) /\ capa'[x] = capa[x] /\ enlace'[x] = enlace[x]
    BY <1>2, <1>5 DEF Links
  <2>2. capa[x].envio \in Nat /\ Links(x) \in Nat
    BY <1>1
  <2> QED
    BY <1>1, <1>4, <2>1, <2>2
<1>6. CASE x = s
  <2> DEFINE l == Links(s)
             m == Links(s)'
             b == capa[s].envio
             a == d.envio
  <2>1. l \in Nat /\ m \in Nat /\ a \in Nat /\ b \in Nat /\ m <= l /\ a <= b + n
    BY <1>1, <1>2
  <2>2. /\ l <= count.drops /\ b + l <= count.data + count.offers + count.drops
        /\ n + m + count.data + count.offers <= l + count'.data + count'.offers
    BY <1>4, <1>6
  <2>3. capa'[x].envio = a /\ Links(x)' = m
    BY <1>2, <1>6
  <2> HIDE DEF l, m, a, b
  <2>4. m <= count.drops /\ a + m <= count'.data + count'.offers + count.drops
    BY <1>1, <2>1, <2>2
  <2> QED
    BY <1>4, <1>6, <2>3, <2>4
<1> QED
  BY <1>5, <1>6

LEMMA NumbersCloses ==
    ASSUME TypeOK, Numbers, NEW s \in Sides, NEW frames, NEW left \in LayerType,
           Closes(s, frames, left), left.envio = 0, viva' = viva, count' = count
    PROVE  Numbers'
<1>1. /\ count.data \in Nat /\ count.offers \in Nat /\ count.drops \in Nat
      /\ \A x \in Sides : capa[x].envio \in Nat /\ Links(x) \in Nat
      /\ 0 \in Sides
  BY CountParts
<1>2. /\ fase' = [fase EXCEPT ![s] = "sola"] /\ enlace' = [enlace EXCEPT ![s] = "ninguno"]
      /\ capa' = [capa EXCEPT ![s] = left]
      /\ DOMAIN fase = Sides /\ DOMAIN enlace = Sides /\ DOMAIN capa = Sides
      /\ fase \in [Sides -> {"abriendo", "lista", "sola"}]
      /\ enlace \in [Sides -> {"vivo", "ninguno", "nuevo"}] /\ capa \in [Sides -> LayerType]
  BY DEF Closes, TypeOK
<1>3. /\ fase'[s] = "sola" /\ enlace'[s] = "ninguno" /\ capa'[s].envio = 0
      /\ \A x \in Sides : x # s =>
            fase'[x] = fase[x] /\ enlace'[x] = enlace[x] /\ capa'[x] = capa[x]
  BY <1>2
<1>4. \A x \in Sides : Links(x)' <= Links(x) /\ Links(x)' \in Nat
  BY <1>3 DEF Links
<1>5. count.offers + Links(0)' <= MaxOffers + 1 + count.drops
  <2> DEFINE l == Links(0)
             m == Links(0)'
  <2>1. l \in Nat /\ m \in Nat /\ m <= l
    BY <1>1, <1>4
  <2>2. count.offers + l <= MaxOffers + 1 + count.drops
    BY DEF Numbers
  <2> HIDE DEF l, m
  <2>3. count.offers + m <= MaxOffers + 1 + count.drops
    BY <2>1, <2>2, <1>1, BoundsAssumption
  <2> QED
    BY <2>3 DEF m
<1> SUFFICES ASSUME NEW x \in Sides
             PROVE  /\ fase'[x] = "lista" /\ enlace'[x] = "ninguno" => ~ viva'
                    /\ Links(x)' <= count'.drops
                    /\ capa'[x].envio + Links(x)' <= count'.data + count'.offers + count'.drops
  BY <1>5 DEF Numbers
<1>6. /\ Links(x) <= count.drops
      /\ capa[x].envio + Links(x) <= count.data + count.offers + count.drops
      /\ fase[x] = "lista" /\ enlace[x] = "ninguno" => ~ viva
  BY DEF Numbers
<1>7. capa'[x].envio = capa[x].envio \/ capa'[x].envio = 0
  BY <1>3
<1>8. fase'[x] = "lista" => fase[x] = "lista" /\ enlace'[x] = enlace[x]
  BY <1>3
<1>9. Links(x)' <= count.drops
      /\ capa'[x].envio + Links(x)' <= count.data + count.offers + count.drops
  <2> DEFINE l == Links(x)
             m == Links(x)'
             b == capa[x].envio
             a == capa'[x].envio
  <2>1. l \in Nat /\ m \in Nat /\ m <= l /\ b \in Nat /\ (a = b \/ a = 0)
    BY <1>1, <1>4, <1>7
  <2>2. l <= count.drops /\ b + l <= count.data + count.offers + count.drops
    BY <1>6
  <2> HIDE DEF l, m, a, b
  <2>3. m <= count.drops /\ a + m <= count.data + count.offers + count.drops
    BY <2>1, <2>2, <1>1
  <2> QED
    BY <2>3 DEF m, a
<1> QED
  BY <1>6, <1>8, <1>9

LEMMA NumbersInit == Init => Numbers
<1> SUFFICES ASSUME Init PROVE Numbers
  OBVIOUS
<1>1. /\ count.data = 0 /\ count.offers = 1 /\ count.drops = 0 /\ viva = TRUE
      /\ enlace = [s \in Sides |-> "vivo"] /\ capa = [s \in Sides |-> NoLayer]
  BY DEF Init
<1>2. \A s \in Sides : Links(s) = 0 /\ capa[s].envio = 0
  BY <1>1 DEF Links, NoLayer
<1>3. 0 \in Sides
  BY DEF Sides
<1> QED
  BY <1>1, <1>2, <1>3, BoundsAssumption DEF Numbers

LEMMA SetLayer ==
    ASSUME TypeOK, NEW s \in Sides, NEW d, capa' = [capa EXCEPT ![s] = d]
    PROVE  capa'[s] = d /\ \A x \in Sides : x # s => capa'[x] = capa[x]
<1>1. capa \in [Sides -> LayerType]
  BY DEF TypeOK
<1> QED
  BY <1>1

\* A layer that is opened or renewed seals with the number it had, or from zero.
LEMMA OpenedEnvio ==
    ASSUME TypeOK, NEW s \in Sides, Hears(s)
    PROVE  /\ Opened(s) = After(capa[s], canal[s][1]) /\ Opened(s) \in LayerType
           /\ Opened(s).envio = capa[s].envio /\ Message(s) = canal[s][1]
           /\ canal[s][1] \in MessageType /\ Opened(s).raiz = capa[s].raiz
           /\ \A c, k : Renewed(c, k).envio = 0
<1>1. /\ canal[s] \in Seq(MessageType) /\ canal[s] # <<>> /\ capa[s] \in LayerType
      /\ Opened(s) \in LayerType /\ Opened(s).raiz = capa[s].raiz
  BY MessageKeeps DEF TypeOK
<1>2. Message(s) = canal[s][1] /\ canal[s][1] \in MessageType
  BY <1>1, SeqPlaces DEF Message
<1>3. Opened(s) = After(capa[s], canal[s][1])
  BY <1>2 DEF Opened, After
<1>4. \A c, k : Renewed(c, k).envio = 0
  BY DEF Renewed
<1>5. After(capa[s], canal[s][1]).envio = capa[s].envio
  BY <1>1, <1>2, AfterKeeps
<1> QED
  BY <1>1, <1>2, <1>3, <1>4, <1>5

LEMMA NumbersStep == TypeOK /\ Numbers /\ [Next]_vars => Numbers'
<1> SUFFICES ASSUME TypeOK, Numbers, [Next]_vars PROVE Numbers'
  OBVIOUS
<1>a. /\ count.data \in Nat /\ count.offers \in Nat /\ count.drops \in Nat
      /\ \A s \in Sides : capa[s] \in LayerType /\ capa[s].envio \in Nat
      /\ \A s \in Sides : Links(s) \in Nat
      /\ 0 \in Sides /\ 1 \in Sides /\ count \in CountType
  <2>1. count \in CountType
    BY DEF TypeOK, CountType
  <2>2. \A s \in Sides : Links(s) \in Nat
    BY DEF Links
  <2> QED
    BY <2>1, <2>2, CountParts
<1>b. /\ count.data <= MaxData /\ count.drops <= MaxDrops
      /\ count.offers + Links(0) <= MaxOffers + 1 + count.drops
      /\ \A s \in Sides : Links(s) <= count.drops
  BY DEF Numbers
<1>c. fase \in [Sides -> {"abriendo", "lista", "sola"}] /\ enlace \in [Sides -> {"vivo", "ninguno", "nuevo"}]
  BY DEF TypeOK
<1>d. NoLayer \in LayerType /\ NoLayer.envio = 0
  BY NoLayerType DEF NoLayer
<1>1. CASE Renew
  <2> DEFINE ps == <<Llave(count.offers + 1)>>
             d == AfterSealing(0, capa[0], ps)
  <2>1. /\ capa' = [capa EXCEPT ![0] = d] /\ count.offers < MaxOffers
        /\ count' = [count EXCEPT !.offers = @ + 1]
        /\ fase' = fase /\ enlace' = enlace /\ viva' = viva
    BY <1>1 DEF Renew
  <2>2. Len(ps) = 1 /\ Len(ps) \in Nat
    OBVIOUS
  <2> HIDE DEF ps
  <2>3. d \in LayerType /\ d.envio <= capa[0].envio + 1
    BY <2>2, <1>a, SealsKeeps
  <2> HIDE DEF d
  <2>4. count'.offers = count.offers + 1 /\ count'.data = count.data /\ count'.drops = count.drops
    BY <2>1, <1>a DEF CountType
  <2>5. \A s : Links(s)' = Links(s)
    BY <2>1 DEF Links
  <2>6. /\ count'.offers + Links(0) <= MaxOffers + 1 + count.drops
        /\ 1 + Links(0) + count.data + count.offers <= Links(0) + count.data + count'.offers
        /\ Links(0) <= Links(0)
    <3> DEFINE l == Links(0)
    <3>1. l \in Nat /\ l <= count.drops
      BY <1>a, <1>b
    <3> HIDE DEF l
    <3>2. /\ count'.offers + l <= MaxOffers + 1 + count.drops /\ l <= l
          /\ 1 + l + count.data + count.offers <= l + count.data + count'.offers
      BY <3>1, <2>1, <2>4, <1>a, BoundsAssumption
    <3> QED
      BY <3>2 DEF l
  <2>7. /\ count'.data \in Nat /\ count'.offers \in Nat /\ count.data <= count'.data
        /\ count'.data <= MaxData /\ count.offers <= count'.offers /\ 1 \in Nat
    BY <2>4, <1>a, <1>b
  <2> QED
    BY <2>1, <2>3, <2>4, <2>5, <2>6, <2>7, <1>a, NumbersSends
<1>2. ASSUME NEW s \in Sides, Say(s) PROVE Numbers'
  <2> DEFINE d == AfterSealing(s, capa[s], <<Dato>>)
  <2>1. /\ capa' = [capa EXCEPT ![s] = d] /\ count.data < MaxData
        /\ count' = [count EXCEPT !.data = @ + 1]
        /\ fase' = fase /\ enlace' = enlace /\ viva' = viva
    BY <1>2 DEF Say
  <2>2. Len(<<Dato>>) = 1
    OBVIOUS
  <2>3. d \in LayerType /\ d.envio <= capa[s].envio + 1
    BY <2>2, <1>a, SealsKeeps
  <2> HIDE DEF d
  <2>4. count'.offers = count.offers /\ count'.data = count.data + 1 /\ count'.drops = count.drops
    BY <2>1, <1>a DEF CountType
  <2>5. \A x : Links(x)' = Links(x)
    BY <2>1 DEF Links
  <2>6. /\ count'.offers + Links(0) <= MaxOffers + 1 + count.drops
        /\ 1 + Links(s) + count.data + count.offers <= Links(s) + count'.data + count'.offers
        /\ Links(s) <= Links(s)
    <3> DEFINE l == Links(s)
    <3>1. l \in Nat
      BY <1>a
    <3> HIDE DEF l
    <3>2. l <= l /\ 1 + l + count.data + count.offers <= l + count'.data + count'.offers
      BY <3>1, <2>4, <1>a
    <3> QED
      BY <3>2, <2>4, <1>b DEF l
  <2>7. /\ count'.data \in Nat /\ count'.offers \in Nat /\ count.data <= count'.data
        /\ count'.data <= MaxData /\ count.offers <= count'.offers /\ 1 \in Nat
    BY <2>1, <2>4, <1>a, BoundsAssumption
  <2> QED
    BY <2>1, <2>3, <2>4, <2>5, <2>6, <2>7, NumbersSends
<1>3. ASSUME NEW s \in Sides, Resume(s) PROVE Numbers'
  <2> DEFINE offers == s = 0 /\ MayOffer
             ps == IF offers THEN <<Dato, Llave(count.offers + 1)>> ELSE <<Dato>>
             n == IF offers THEN 2 ELSE 1
             d == AfterSealing(s, capa[s], ps)
  <2>1. /\ capa' = [capa EXCEPT ![s] = d] /\ enlace[s] = "nuevo"
        /\ enlace' = [enlace EXCEPT ![s] = "vivo"]
        /\ count' = IF offers THEN [count EXCEPT !.offers = @ + 1] ELSE count
        /\ fase' = fase /\ viva' = viva
    BY <1>3 DEF Resume
  <2>2. Len(ps) = n /\ n \in Nat
    OBVIOUS
  <2>0. offers => s = 0
    OBVIOUS
  <2> HIDE DEF ps, offers
  <2>3. d \in LayerType /\ d.envio <= capa[s].envio + n
    <3>1. Len(ps) \in Nat /\ Len(ps) = n
      BY <2>2
    <3> HIDE DEF n
    <3> QED
      BY <3>1, <1>a, SealsKeeps
  <2> HIDE DEF d
  <2>4. /\ count'.offers = count.offers + n - 1 /\ count'.data = count.data
        /\ count'.drops = count.drops
    <3>1. CASE offers
      BY <3>1, <2>1, <1>a DEF CountType
    <3>2. CASE ~ offers
      BY <3>2, <2>1, <1>a DEF CountType
    <3> QED
      BY <3>1, <3>2
  <2>5. /\ enlace'[s] = "vivo" /\ \A x \in Sides : x # s => enlace'[x] = enlace[x]
        /\ Links(s) = Links(s)' + 1 /\ Links(s)' \in Nat
        /\ \A x \in Sides : x # s => Links(x)' = Links(x)
    <3>1. enlace'[s] = "vivo" /\ \A x \in Sides : x # s => enlace'[x] = enlace[x]
      BY <2>1, <1>c
    <3> QED
      BY <3>1, <2>1 DEF Links
  <2>6. count'.offers + Links(0)' <= MaxOffers + 1 + count.drops
    <3> DEFINE l == Links(0)
               m == Links(0)'
    <3>1. CASE s = 0
      <4>1. l = m + 1 /\ m \in Nat /\ count.offers + l <= MaxOffers + 1 + count.drops
        BY <3>1, <2>5, <1>b
      <4> HIDE DEF l, m
      <4>2. count'.offers + m <= MaxOffers + 1 + count.drops
        BY <4>1, <2>4, <1>a, BoundsAssumption
      <4> QED
        BY <4>2 DEF m
    <3>2. CASE s # 0
      <4>1. n = 1 /\ Links(0)' = Links(0)
        BY <3>2, <2>0, <2>5, <1>a
      <4> QED
        BY <4>1, <2>4, <1>a, <1>b
    <3> QED
      BY <3>1, <3>2
  <2>7. /\ Links(s)' <= Links(s)
        /\ n + Links(s)' + count.data + count.offers <= Links(s) + count'.data + count'.offers
    <3> DEFINE l == Links(s)
               m == Links(s)'
    <3>1. l = m + 1 /\ m \in Nat
      BY <2>5
    <3> HIDE DEF l, m
    <3>2. m <= l /\ n + m + count.data + count.offers <= l + count'.data + count'.offers
      BY <3>1, <2>4, <1>a
    <3> QED
      BY <3>2 DEF l, m
  <2>8. /\ count'.data \in Nat /\ count'.offers \in Nat /\ count.data <= count'.data
        /\ count'.data <= MaxData /\ count.offers <= count'.offers
    BY <2>4, <1>a, <1>b
  <2> HIDE DEF n
  <2> QED
    BY <2>1, <2>2, <2>3, <2>4, <2>5, <2>6, <2>7, <2>8, NumbersSends
<1>4. ASSUME NEW s \in Sides, NEW frames, NEW left \in LayerType, Closes(s, frames, left),
             left.envio = 0, viva' = viva, count' = count
      PROVE  Numbers'
  BY <1>4, NumbersCloses
<1>5. ASSUME NEW s \in Sides,
             Refuse(s) \/ ReadEnd(s) \/ Close(s) \/ SendFails(s) \/ GiveUp(s)
                 \/ (Notice(s) /\ fase[s] # "lista")
      PROVE  Numbers'
  <2>1. viva' = viva /\ count' = count /\ \E frames : Closes(s, frames, NoLayer)
    BY <1>5 DEF Refuse, ReadEnd, Close, SendFails, GiveUp, Notice
  <2> QED
    BY <2>1, <1>4, <1>d
<1>6. CASE ReadKeyFails
  <2> DEFINE d == Renewed(NoLayer, NextSecret(Message(1).de[1], NoLayer))
  <2>1. viva' = viva /\ count' = count /\ Closes(1, <<>>, d) /\ Hears(1)
    BY <1>6 DEF ReadKeyFails
  <2>2. d \in LayerType /\ d.envio = 0
    <3>1. NextSecret(Message(1).de[1], NoLayer) \in Secret
      <4>1. Message(1).de[1] \in Nat /\ Message(1).de \in Secret
        BY <2>1, <1>a, MessageKeeps
      <4> QED
        BY <4>1, <1>d, SecretTypes
    <3>2. \A k : Renewed(NoLayer, k).envio = 0
      BY <2>1, <1>a, OpenedEnvio
    <3> QED
      BY <3>1, <3>2, <1>d, LayerKeeps
  <2> QED
    BY <2>1, <2>2, <1>4, <1>a
<1>7. ASSUME enlace' = enlace, viva' = viva, fase' = fase,
             count'.data = count.data, count'.offers = count.offers, count'.drops = count.drops,
             NEW s \in Sides, NEW d, d.envio = capa[s].envio \/ d.envio = 0,
             capa' = [capa EXCEPT ![s] = d]
      PROVE  Numbers'
  <2>1. \A x \in Sides : capa'[x].envio = capa[x].envio \/ capa'[x].envio = 0
    BY <1>7, SetLayer
  <2> QED
    BY <2>1, <1>7, NumbersQuiet
<1>8. CASE ReadKey
  <2>1. /\ Hears(1) /\ enlace' = enlace /\ viva' = viva /\ fase' = fase /\ count' = count
        /\ \E k : capa' = [capa EXCEPT ![1] = Renewed(Opened(1), k)]
    BY <1>8 DEF ReadKey
  <2>2. PICK k : capa' = [capa EXCEPT ![1] = Renewed(Opened(1), k)]
    BY <2>1
  <2>3. Renewed(Opened(1), k).envio = 0
    BY <2>1, <1>a, OpenedEnvio
  <2> QED
    BY <2>1, <2>2, <2>3, <1>7, <1>a
<1>9. CASE ReadAnswer
  <2>1. /\ Hears(0) /\ enlace' = enlace /\ viva' = viva /\ fase' = fase /\ count' = count
        /\ capa' = [capa EXCEPT
               ![0] = IF oferta = 0 THEN Opened(0)
                      ELSE Renewed(Opened(0), Decapsulated(Message(0).de))]
    BY <1>9 DEF ReadAnswer
  <2>2. PICK d : /\ capa' = [capa EXCEPT ![0] = d]
                 /\ d = Opened(0) \/ \E k : d = Renewed(Opened(0), k)
    BY <2>1
  <2>3. d.envio = capa[0].envio \/ d.envio = 0
    BY <2>1, <2>2, <1>a, OpenedEnvio
  <2> QED
    BY <2>1, <2>2, <2>3, <1>7, <1>a
<1>10. ASSUME NEW s \in Sides, ReadData(s) PROVE Numbers'
  <2>1. /\ Hears(s) /\ enlace' = enlace /\ viva' = viva /\ fase' = fase /\ count' = count
        /\ capa' = [capa EXCEPT ![s] = Opened(s)]
    BY <1>10 DEF ReadData
  <2> QED
    BY <2>1, <1>7, OpenedEnvio
<1>11. ASSUME NEW s \in Sides, Discard(s) \/ Pause(s) \/ Continue(s) \/ UNCHANGED vars PROVE Numbers'
  <2>1. /\ enlace' = enlace /\ viva' = viva /\ fase' = fase /\ capa' = capa
        /\ count'.data = count.data /\ count'.offers = count.offers /\ count'.drops = count.drops
    BY <1>11, <1>a DEF Discard, Pause, Continue, vars, CountType
  <2> QED
    BY <2>1, NumbersQuiet
<1>12. CASE ReadFirst
  <2>1. /\ enlace[1] = "vivo" /\ fase' = [fase EXCEPT ![1] = "lista"]
        /\ enlace' = enlace /\ viva' = viva /\ capa' = capa /\ count' = count
    BY <1>12 DEF ReadFirst, Hears
  <2>2. \A s \in Sides : fase'[s] = fase[s] \/ enlace[s] # "ninguno"
    BY <2>1, <1>c
  <2> QED
    BY <2>1, <2>2, NumbersQuiet
<1>13. CASE Drop
  <2>1. /\ viva /\ viva' = FALSE /\ count.drops < MaxDrops
        /\ count' = [count EXCEPT !.drops = @ + 1]
        /\ fase' = fase /\ enlace' = enlace /\ capa' = capa
    BY <1>13 DEF Drop
  <2>2. /\ count'.drops = count.drops + 1 /\ count'.data = count.data
        /\ count'.offers = count.offers
    BY <2>1, <1>a DEF CountType
  <2>3. \A s \in Sides : Links(s)' = Links(s) + 1
    BY <2>1 DEF Links
  <2>4. count'.drops <= MaxDrops /\ count'.data <= MaxData
    BY <2>1, <2>2, <1>a, <1>b, BoundsAssumption
  <2>5. count'.offers + Links(0)' <= MaxOffers + 1 + count'.drops
    BY <2>2, <2>3, <1>a, <1>b, BoundsAssumption
  <2>6. ASSUME NEW s \in Sides
        PROVE  /\ Links(s)' <= count'.drops
               /\ capa'[s].envio + Links(s)' <= count'.data + count'.offers + count'.drops
    <3> DEFINE l == Links(s)
               b == capa[s].envio
    <3>1. /\ l \in Nat /\ b \in Nat /\ l <= count.drops
          /\ b + l <= count.data + count.offers + count.drops
      BY <1>a DEF Numbers
    <3>2. Links(s)' = l + 1 /\ capa'[s].envio = b
      BY <2>1, <2>3
    <3> HIDE DEF l, b
    <3> QED
      BY <3>1, <3>2, <2>2, <1>a
  <2> QED
    BY <2>1, <2>4, <2>5, <2>6 DEF Numbers
<1>14. CASE Meet
  <2>1. /\ \A s \in Sides : fase[s] = "lista" /\ enlace[s] = "ninguno"
        /\ viva' = TRUE /\ enlace' = [s \in Sides |-> "nuevo"]
        /\ fase' = fase /\ capa' = capa /\ count' = count
    BY <1>14 DEF Meet
  <2>2. \A s \in Sides : Links(s)' = Links(s)
    BY <2>1 DEF Links, Numbers
  <2>3. \A s \in Sides : enlace'[s] # "ninguno"
    BY <2>1
  <2> QED
    BY <2>1, <2>2, <2>3, <1>a DEF Numbers
<1>15. ASSUME NEW s \in Sides, Notice(s), fase[s] = "lista" PROVE Numbers'
  <2>1. /\ enlace[s] = "vivo" /\ ~ viva /\ enlace' = [enlace EXCEPT ![s] = "ninguno"]
        /\ fase' = fase /\ viva' = viva /\ capa' = capa /\ count' = count
    BY <1>15 DEF Notice
  <2>2. \A x \in Sides : Links(x)' = Links(x)
    BY <2>1, <1>c DEF Links
  <2> QED
    BY <2>1, <2>2, <1>a DEF Numbers
<1> QED
  BY <1>1, <1>2, <1>3, <1>5, <1>6, <1>8, <1>9, <1>10, <1>11, <1>12, <1>13, <1>14, <1>15, <1>a
  DEF Next, Reads

\* A payload as it travels, with the number n of the layer, and the layer after it.
Carried(p, c, n) ==
    [m |-> p.m, de |-> p.de, sello |-> [raiz |-> c.raiz, n |-> IF HasLayer(c) THEN n ELSE 0]]

Used(c) == IF HasLayer(c) THEN [c EXCEPT !.envio = @ + 1] ELSE c

LEMMA CarriedType ==
    ASSUME NEW p \in Payload, NEW c \in LayerType, NEW n \in Nat
    PROVE  /\ Carried(p, c, n) \in MessageType /\ Carried(p, c, n).m = p.m
           /\ Carried(p, c, n).de = p.de /\ Carried(p, c, n).sello.raiz = c.raiz
           /\ IsSealed(Carried(p, c, n).sello) => Carried(p, c, n).sello.n = n
           /\ Carried(p, c, n).sello.n <= n
  BY DEF Carried, MessageType, Payload, SealType, LayerType, IsSealed, HasLayer

LEMMA UsedKeeps ==
    ASSUME NEW c \in LayerType
    PROVE  /\ Used(c) \in LayerType /\ Sealing(c, Used(c))
           /\ HasLayer(c) => Used(c).envio = c.envio + 1
           /\ HasLayer(Used(c)) <=> HasLayer(c)
<1>1. c.envio \in Nat
  BY EnvioNat
<1> DEFINE d == [c EXCEPT !.envio = @ + 1]
<1>2. /\ d.raiz = c.raiz /\ d.recibo = c.recibo /\ d.anterior = c.anterior
      /\ d.envio = c.envio + 1 /\ d \in LayerType
  BY <1>1 DEF LayerType
<1> HIDE DEF d
<1>3. Sealing(c, d) /\ Sealing(c, c)
  BY <1>1, <1>2 DEF Sealing
<1>4. Used(c) = IF HasLayer(c) THEN d ELSE c
  BY DEF Used, d
<1> QED
  BY <1>2, <1>3, <1>4 DEF HasLayer

\* The message that carries one payload after c sealed another is the next one.
LEMMA CarriedNext ==
    ASSUME NEW p, NEW c \in LayerType
    PROVE  Carried(p, c, c.envio + 1) = Carried(p, Used(c), Used(c).envio)
<1>1. Used(c).raiz = c.raiz /\ (HasLayer(Used(c)) <=> HasLayer(c))
  BY UsedKeeps DEF Sealing
<1>2. HasLayer(c) => Used(c).envio = c.envio + 1
  BY UsedKeeps
<1> QED
  BY <1>1, <1>2 DEF Carried

LEMMA SealsOne ==
    ASSUME NEW s, NEW c \in LayerType, NEW p, EnMarcha(s)
    PROVE  /\ Sealed(s, c, <<p>>) = <<Carried(p, c, c.envio)>>
           /\ AfterSealing(s, c, <<p>>) = Used(c)
<1>1. c.envio \in Nat
  BY EnvioNat
<1>2. c.envio + 1 - 1 = c.envio /\ Len(<<p>>) = 1
  BY <1>1
<1>3. Sealed(s, c, <<p>>) = [i \in 1 .. 1 |-> Carried(p, c, c.envio)]
  BY <1>2 DEF Sealed, Carried
<1>4. AfterSealing(s, c, <<p>>) = Used(c)
  BY DEF AfterSealing, Used
<1> HIDE DEF Carried
<1> QED
  BY <1>3, <1>4

LEMMA SealsTwo ==
    ASSUME NEW s, NEW c \in LayerType, NEW p, NEW r, EnMarcha(s)
    PROVE  /\ Sealed(s, c, <<p, r>>) = <<Carried(p, c, c.envio), Carried(r, c, c.envio + 1)>>
           /\ AfterSealing(s, c, <<p, r>>) = Used(Used(c))
<1>1. c.envio \in Nat
  BY EnvioNat
<1>2. c.envio + 1 - 1 = c.envio /\ c.envio + 2 - 1 = c.envio + 1 /\ Len(<<p, r>>) = 2
  BY <1>1
<1>3. Sealed(s, c, <<p, r>>) =
          [i \in 1 .. 2 |-> IF i = 1 THEN Carried(p, c, c.envio) ELSE Carried(r, c, c.envio + 1)]
  <2> DEFINE ps == <<p, r>>
             f(i) == [m |-> ps[i].m, de |-> ps[i].de,
                      sello |-> [raiz |-> c.raiz,
                                 n |-> IF HasLayer(c) THEN c.envio + i - 1 ELSE 0]]
  <2>1. Sealed(s, c, <<p, r>>) = [i \in 1 .. 2 |-> f(i)]
    BY <1>2 DEF Sealed
  <2>2. f(1) = Carried(p, c, c.envio) /\ f(2) = Carried(r, c, c.envio + 1)
    BY <1>2 DEF Carried
  <2>3. \A i \in 1 .. 2 : i = 1 \/ i = 2
    OBVIOUS
  <2> HIDE DEF f
  <2> QED
    BY <2>1, <2>2, <2>3
<1>4. AfterSealing(s, c, <<p, r>>) = Used(Used(c))
  <2>1. [c EXCEPT !.envio = @ + 2] = [[c EXCEPT !.envio = @ + 1] EXCEPT !.envio = @ + 1]
    <3> DEFINE d == [c EXCEPT !.envio = @ + 1]
    <3>1. /\ d.envio = c.envio + 1 /\ d.raiz = c.raiz /\ d.recibo = c.recibo
          /\ d.anterior = c.anterior /\ d \in LayerType
      BY <1>1 DEF LayerType
    <3>2. (c.envio + 1) + 1 = c.envio + 2
      BY <1>1
    <3>3. \A n \in Nat : [c EXCEPT !.envio = n] = [d EXCEPT !.envio = n]
      BY DEF LayerType
    <3>4. [d EXCEPT !.envio = @ + 1] = [d EXCEPT !.envio = c.envio + 2]
      BY <3>1, <3>2
    <3> HIDE DEF d
    <3>5. [c EXCEPT !.envio = @ + 2] = [d EXCEPT !.envio = @ + 1]
      BY <3>3, <3>4, <1>1
    <3> QED
      BY <3>5 DEF d
  <2>2. HasLayer(c) => HasLayer([c EXCEPT !.envio = @ + 1])
    BY DEF HasLayer, LayerType
  <2> QED
    BY <1>2, <2>1, <2>2 DEF AfterSealing, Used
<1> QED
  BY <1>3, <1>4

\* One payload sent: it is in the other channel, or it went nowhere.
LEMMA OneSent ==
    ASSUME TypeOK, NEW s \in Sides, NEW o \in Sides, o # s, NEW mine \in Seq(MessageType),
           NEW c \in LayerType, NEW p \in Payload, Sends(s, mine, c, <<p>>)
    PROVE  /\ canal'[s] = mine
           /\ \/ canal'[o] = canal[o] /\ (p.m = "cifrado" => "cifrado" \in perdidas')
              \/ /\ fase[o] # "sola" /\ EnMarcha(s)
                 /\ canal'[o] = Append(canal[o], Carried(p, c, c.envio))
<1>1. /\ Put(s, mine, Sealed(s, c, <<p>>)) /\ 1 - s = o
      /\ perdidas' = IF EnMarcha(s) /\ Travels(s) THEN perdidas ELSE perdidas \cup Kinds(<<p>>)
  BY OtherSide DEF Sends, Sides
<1>2. /\ canal'[s] = mine
      /\ canal'[o] = IF Travels(s) THEN canal[o] \o Sealed(s, c, <<p>>) ELSE canal[o]
  BY <1>1 DEF Put
<1>3. canal[o] \in Seq(MessageType)
  BY <1>1 DEF TypeOK
<1>0. Travels(s) => fase[o] # "sola"
  BY <1>1 DEF Travels
<1>4. p.m = "cifrado" => "cifrado" \in Kinds(<<p>>)
  BY DEF Kinds
<1>5. CASE Travels(s) /\ EnMarcha(s)
  <2>1. Carried(p, c, c.envio) \in MessageType
    BY CarriedType, EnvioNat
  <2>2. canal'[o] = canal[o] \o <<Carried(p, c, c.envio)>>
    BY <1>2, <1>5, SealsOne
  <2>3. canal'[o] = Append(canal[o], Carried(p, c, c.envio))
    <3> DEFINE x == Carried(p, c, c.envio)
               q == canal[o]
    <3>1. x \in MessageType /\ q \in Seq(MessageType)
      BY <2>1, <1>3
    <3> HIDE DEF x, q
    <3>2. q \o <<x>> = Append(q, x)
      BY <3>1
    <3> QED
      BY <3>2, <2>2 DEF x, q
  <2> QED
    BY <2>3, <1>0, <1>2, <1>5
<1>6. CASE ~ (Travels(s) /\ EnMarcha(s))
  <2>1. canal'[o] = canal[o]
    <3>1. CASE ~ Travels(s)
      BY <3>1, <1>2
    <3>2. CASE ~ EnMarcha(s)
      <4>1. Sealed(s, c, <<p>>) = <<>>
        BY <3>2 DEF Sealed
      <4>2. canal[o] \o <<>> = canal[o]
        BY <1>3
      <4> QED
        BY <4>1, <4>2, <1>2
    <3> QED
      BY <3>1, <3>2, <1>6
  <2> QED
    BY <2>1, <1>1, <1>2, <1>4, <1>6
<1> QED
  BY <1>5, <1>6

LEMMA TwoSent ==
    ASSUME TypeOK, NEW s \in Sides, NEW o \in Sides, o # s, NEW c \in LayerType,
           NEW p \in Payload, NEW r \in Payload, Sends(s, canal[s], c, <<p, r>>)
    PROVE  /\ canal'[s] = canal[s]
           /\ \/ canal'[o] = canal[o]
              \/ /\ fase[o] # "sola" /\ EnMarcha(s)
                 /\ canal'[o] = Append(Append(canal[o], Carried(p, c, c.envio)),
                                           Carried(r, Used(c), Used(c).envio))
<1>1. Put(s, canal[s], Sealed(s, c, <<p, r>>)) /\ 1 - s = o
  BY OtherSide DEF Sends, Sides
<1>2. /\ canal'[s] = canal[s]
      /\ canal'[o] = IF Travels(s) THEN canal[o] \o Sealed(s, c, <<p, r>>) ELSE canal[o]
  BY <1>1 DEF Put
<1>3. canal[o] \in Seq(MessageType)
  BY <1>1 DEF TypeOK
<1>0. Travels(s) => fase[o] # "sola"
  BY <1>1 DEF Travels
<1>4. CASE Travels(s) /\ EnMarcha(s)
  <2> DEFINE x == Carried(p, c, c.envio)
             y == Carried(r, Used(c), Used(c).envio)
             q == canal[o]
  <2>1. x \in MessageType /\ y \in MessageType
    BY CarriedType, UsedKeeps, EnvioNat
  <2>2. canal'[o] = q \o <<x, y>>
    <3>1. Sealed(s, c, <<p, r>>) = <<x, Carried(r, c, c.envio + 1)>>
      BY <1>4, SealsTwo
    <3>2. Carried(r, c, c.envio + 1) = y
      BY CarriedNext
    <3> HIDE DEF x, y
    <3> QED
      BY <1>2, <1>4, <3>1, <3>2
  <2> HIDE DEF x, y, q
  <2>3. q \in Seq(MessageType)
    BY <1>3 DEF q
  <2>4. q \o <<x, y>> = Append(Append(q, x), y)
    BY <2>1, <2>3
  <2> QED
    BY <2>2, <2>4, <1>0, <1>2, <1>4 DEF x, y, q
<1>5. CASE ~ Travels(s)
  BY <1>2, <1>5
<1>6. CASE ~ EnMarcha(s)
  <2>1. Sealed(s, c, <<p, r>>) = <<>>
    BY <1>6 DEF Sealed
  <2>2. canal[o] \o <<>> = canal[o]
    BY <1>3
  <2> QED
    BY <2>1, <2>2, <1>2
<1> QED
  BY <1>4, <1>5, <1>6
-----------------------------------------------------------------------------
\* What side 0 says in an open conversation, in the channel of side 1.
LEMMA Side0Says ==
    ASSUME NEW q0 \in Seq(MessageType), NEW q1 \in Seq(MessageType),
           NEW c0 \in LayerType, NEW c1 \in LayerType, NEW v \in BOOLEAN,
           Sync(q0, q1, c0, c1, v), Comes1(q1, c1, v), Rising(q1),
           c0.raiz # c1.raiz => c0.raiz = Old(c1) /\ c1.raiz # <<>>,
           NEW p \in Payload, c0.envio <= Skip,
           p.m = "llave" => c0.raiz = c1.raiz /\ NoneOf(q1, "llave")
    PROVE  LET x == Carried(p, c0, c0.envio)
           IN  /\ x \in MessageType
               /\ Sync(q0, Append(q1, x), Used(c0), c1, v)
               /\ Comes1(Append(q1, x), c1, v) /\ Rising(Append(q1, x))
<1> DEFINE x == Carried(p, c0, c0.envio)
<1>1. c0.envio \in Nat
  BY EnvioNat
<1>2. /\ x \in MessageType /\ x.m = p.m /\ x.sello.raiz = c0.raiz
      /\ IsSealed(x.sello) => x.sello.n = c0.envio
      /\ x.sello.n <= c0.envio
  BY <1>1, CarriedType
<1> HIDE DEF x
<1>3. x.sello.n \in Nat
  BY <1>2, MessageParts
<1>4. x.sello.n <= Skip
  BY <1>1, <1>2, <1>3, BoundsAssumption
<1>5. Used(c0) \in LayerType /\ Sealing(c0, Used(c0))
  BY UsedKeeps
<1>6. IsSealed(x.sello) => x.sello.n < Used(c0).envio /\ c0.envio <= x.sello.n
  <2>1. IsSealed(x.sello) => HasLayer(c0)
    BY <1>2 DEF IsSealed, HasLayer
  <2> QED
    BY <2>1, <1>1, <1>2, UsedKeeps
<1>7. Comes1(Append(q1, x), c1, v) /\ Rising(Append(q1, x))
  BY <1>2, <1>4, <1>6, Say1Comes
<1>8. Sync(q0, Append(q1, x), Used(c0), c1, v)
  BY <1>2, <1>5, <1>6, SyncSay1
<1> QED
  BY <1>2, <1>7, <1>8 DEF x

\* What side 1 says that is no answer, in the channel of side 0.
LEMMA Side1Says ==
    ASSUME NEW q0 \in Seq(MessageType), NEW q1 \in Seq(MessageType),
           NEW c0 \in LayerType, NEW c1 \in LayerType, NEW v, NEW o,
           Sync(q0, q1, c0, c1, v), Comes0(q0, c0, o), Rising(q0),
           c0.raiz = c1.raiz => NoneOf(q0, "cifrado"),
           c0.raiz # c1.raiz => c1.raiz = Append(c0.raiz, NextOf(o, c0)),
           NEW p \in Payload, p.m # "cifrado", c1.envio <= Skip
    PROVE  LET x == Carried(p, c1, c1.envio)
           IN  /\ Sync(Append(q0, x), q1, c0, Used(c1), v)
               /\ Comes0(Append(q0, x), c0, o) /\ Rising(Append(q0, x))
<1> DEFINE x == Carried(p, c1, c1.envio)
<1>1. c1.envio \in Nat
  BY EnvioNat
<1>2. /\ x \in MessageType /\ x.m = p.m /\ x.sello.raiz = c1.raiz
      /\ IsSealed(x.sello) => x.sello.n = c1.envio
      /\ x.sello.n <= c1.envio
  BY <1>1, CarriedType
<1> HIDE DEF x
<1>3. x.sello.n \in Nat
  BY <1>2, MessageParts
<1>4. x.sello.n <= Skip
  BY <1>1, <1>2, <1>3, BoundsAssumption
<1>5. Used(c1) \in LayerType /\ Sealing(c1, Used(c1))
  BY UsedKeeps
<1>6. IsSealed(x.sello) => x.sello.n < Used(c1).envio /\ c1.envio <= x.sello.n
  <2>1. IsSealed(x.sello) => HasLayer(c1)
    BY <1>2 DEF IsSealed, HasLayer
  <2> QED
    BY <2>1, <1>1, <1>2, UsedKeeps
<1>7. Comes0(Append(q0, x), c0, o) /\ Rising(Append(q0, x))
  BY <1>2, <1>4, <1>6, Say0Comes
<1>8. Sync(Append(q0, x), q1, c0, Used(c1), v)
  BY <1>2, <1>5, <1>6, SyncSay0
<1> QED
  BY <1>7, <1>8 DEF x

\* Side 1 has no layer before the first envelope, and sees one only when it has it.
Apart ==
    /\ fase[0] # "abriendo"
    /\ fase[1] = "abriendo" => capa[1] = NoLayer
    /\ visto[1] => HasLayer(capa[1])

\* Whatever travels can be opened by the side it travels to.
InTime ==
    /\ fase[0] # "sola" => Rising(canal[0]) /\ Comes0(canal[0], capa[0], oferta)
    /\ fase[1] # "sola" => Rising(canal[1]) /\ Comes1(canal[1], capa[1], visto[1])
    /\ BothIn => Sync(canal[0], canal[1], capa[0], capa[1], visto[1])

Reach == MaxData + MaxOffers + 1 + 2 * MaxDrops <= Skip

LEMMA SkipReaches ==
    ASSUME Reach, TypeOK, Numbers, NEW s \in Sides
    PROVE  capa[s].envio + Links(s) <= Skip
<1> DEFINE l == Links(s)
           z == Links(0)
           b == capa[s].envio
<1>1. /\ count.data \in Nat /\ count.offers \in Nat /\ count.drops \in Nat
      /\ l \in {0, 1, 2} /\ z \in {0, 1, 2} /\ b \in Nat
  BY CountParts
<1>2. /\ count.data <= MaxData /\ count.drops <= MaxDrops
      /\ count.offers + z <= MaxOffers + 1 + count.drops
      /\ b + l <= count.data + count.offers + count.drops
  BY DEF Numbers
<1> HIDE DEF l, z, b
<1>3. l \in Nat /\ z \in Nat
  BY <1>1
<1>4. b + l <= Skip
  BY <1>1, <1>2, <1>3, BoundsAssumption DEF Reach
<1> QED
  BY <1>4 DEF l, b

LEMMA Parts ==
    ASSUME TypeOK
    PROVE  /\ canal[0] \in Seq(MessageType) /\ canal[1] \in Seq(MessageType)
           /\ capa[0] \in LayerType /\ capa[1] \in LayerType /\ visto[1] \in BOOLEAN
           /\ oferta \in Nat /\ 0 \in Sides /\ 1 \in Sides /\ 1 - 0 = 1 /\ 1 - 1 = 0
           /\ fase[0] \in {"abriendo", "lista", "sola"} /\ fase[1] \in {"abriendo", "lista", "sola"}
           /\ NextOf(oferta, capa[0]) \in Secret
<1>1. 0 \in Sides /\ 1 \in Sides
  BY DEF Sides
<1>2. capa[0] \in LayerType /\ oferta \in Nat
  BY <1>1 DEF TypeOK
<1>3. Len(capa[0].raiz) + 1 \in Nat
  <2>1. capa[0].raiz \in Seq(Secret)
    BY <1>2, EnvioNat
  <2> QED
    BY <2>1
<1>4. NextOf(oferta, capa[0]) \in Secret
  BY <1>2, <1>3 DEF NextOf, Secret
<1>5. /\ canal[0] \in Seq(MessageType) /\ canal[1] \in Seq(MessageType) /\ capa[1] \in LayerType
      /\ visto[1] \in BOOLEAN
      /\ fase[0] \in {"abriendo", "lista", "sola"} /\ fase[1] \in {"abriendo", "lista", "sola"}
  BY <1>1 DEF TypeOK
<1>6. 1 - 0 = 1 /\ 1 - 1 = 0
  OBVIOUS
<1> QED
  BY <1>1, <1>2, <1>4, <1>5, <1>6

\* Which of the two states the exchange is in is told by the roots.
LEMMA ByRoots ==
    ASSUME TypeOK, Exchange, BothIn
    PROVE  /\ capa[0].raiz = capa[1].raiz => Even
           /\ capa[0].raiz # capa[1].raiz =>
                 /\ Ahead /\ capa[1].raiz = Append(capa[0].raiz, NextOf(oferta, capa[0]))
                 /\ capa[0].raiz = Old(capa[1]) /\ capa[1].raiz # <<>>
<1>1. capa[0].raiz \in Seq(Secret) /\ NextOf(oferta, capa[0]) \in Secret
  BY Parts, EnvioNat
<1>2. Ahead => capa[1].raiz = Append(capa[0].raiz, NextOf(oferta, capa[0]))
  BY DEF Ahead, NewSecret, NextOf
<1>3. Ahead => /\ capa[0].raiz # capa[1].raiz /\ capa[1].raiz # <<>>
               /\ capa[0].raiz = Old(capa[1])
  BY <1>1, <1>2, RootGrows DEF Old
<1>4. Even => capa[0].raiz = capa[1].raiz
  BY DEF Even
<1> QED
  BY <1>2, <1>3, <1>4 DEF Exchange

\* What passes a side with no layer is not sealed.
LEMMA PassesLayer ==
    ASSUME TypeOK, NEW s \in Sides, Hears(s), Passes(s), IsSealed(Message(s).sello)
    PROVE  HasLayer(Opened(s)) /\ HasLayer(capa[s])
<1>1. HasLayer(capa[s])
  BY DEF Passes, Current, Previous, HasLayer, IsSealed
<1> QED
  BY <1>1, OpenedEnvio DEF HasLayer

LEMMA RenewedLayer == \A c, k : c.raiz \in Seq(Secret) /\ k \in Secret => HasLayer(Renewed(c, k))
<1> SUFFICES ASSUME NEW c, NEW k, c.raiz \in Seq(Secret), k \in Secret
             PROVE  HasLayer(Renewed(c, k))
  OBVIOUS
<1>1. Renewed(c, k).raiz = Append(c.raiz, k)
  BY DEF Renewed
<1> QED
  BY <1>1, RootGrows DEF HasLayer

LEMMA ApartInit == Init => Apart
  BY DEF Init, Apart, Sides

LEMMA ApartStep == TypeOK /\ Apart /\ [Next]_vars => Apart'
<1> SUFFICES ASSUME TypeOK, Apart, [Next]_vars PROVE Apart'
  OBVIOUS
<1>a. /\ fase \in [Sides -> {"abriendo", "lista", "sola"}] /\ capa \in [Sides -> LayerType]
      /\ visto \in [Sides -> BOOLEAN] /\ 0 \in Sides /\ 1 \in Sides
  BY Parts DEF TypeOK
<1>b. \A s \in Sides : capa[s] \in LayerType
  BY <1>a
\* A side that seals keeps its root, and without a layer nothing changes.
<1>1. ASSUME NEW s \in Sides, NEW ps, Len(ps) \in Nat, fase' = fase, visto' = visto,
             capa' = [capa EXCEPT ![s] = AfterSealing(s, capa[s], ps)]
      PROVE  Apart'
  <2> DEFINE d == AfterSealing(s, capa[s], ps)
  <2>0. d.raiz = capa[s].raiz
    <3>1. capa[s] \in LayerType /\ Len(ps) \in Nat
      BY <1>1, <1>b
    <3>2. Sealing(capa[s], d)
      BY <3>1, SealsKeeps
    <3> QED
      BY <3>2 DEF Sealing
  <2>3. capa[s] = NoLayer => d = NoLayer
    BY DEF AfterSealing, HasLayer, NoLayer
  <2>4. capa' = [capa EXCEPT ![s] = d]
    BY <1>1
  <2> HIDE DEF d
  <2>5. capa'[s] = d /\ \A x \in Sides : x # s => capa'[x] = capa[x]
    BY <2>4, SetLayer
  <2>1. capa'[1].raiz = capa[1].raiz
    BY <2>0, <2>5, <1>a
  <2>2. capa[1] = NoLayer => capa'[1] = NoLayer
    BY <2>3, <2>5, <1>a
  <2> QED
    BY <1>1, <2>1, <2>2 DEF Apart, HasLayer
<1>2. CASE Renew
  <2> DEFINE ps == <<Llave(count.offers + 1)>>
  <2>1. /\ fase' = fase /\ visto' = visto
        /\ capa' = [capa EXCEPT ![0] = AfterSealing(0, capa[0], ps)]
    BY <1>2 DEF Renew
  <2>2. Len(ps) \in Nat /\ 0 \in Sides
    BY DEF Sides
  <2> HIDE DEF ps
  <2> QED
    BY <1>1, <2>1, <2>2
<1>3. ASSUME NEW s \in Sides, Say(s) PROVE Apart'
  <2>1. /\ fase' = fase /\ visto' = visto
        /\ capa' = [capa EXCEPT ![s] = AfterSealing(s, capa[s], <<Dato>>)]
    BY <1>3 DEF Say
  <2>2. Len(<<Dato>>) \in Nat
    OBVIOUS
  <2> QED
    BY <1>1, <2>1, <2>2
<1>4. ASSUME NEW s \in Sides, Resume(s) PROVE Apart'
  <2>1. PICK ps : /\ Len(ps) \in Nat /\ capa' = [capa EXCEPT ![s] = AfterSealing(s, capa[s], ps)]
                  /\ fase' = fase /\ visto' = visto
    <3> DEFINE two == <<Dato, Llave(count.offers + 1)>>
    <3>1. Len(<<Dato>>) \in Nat /\ Len(two) \in Nat
      OBVIOUS
    <3> HIDE DEF two
    <3>2. \E ps \in {two, <<Dato>>} : capa' = [capa EXCEPT ![s] = AfterSealing(s, capa[s], ps)]
      BY <1>4 DEF Resume, two
    <3> QED
      BY <3>1, <3>2, <1>4 DEF Resume
  <2> QED
    BY <1>1, <2>1
\* A side that opens a message.
<1>5. ASSUME NEW s \in Sides, Hears(s), Passes(s), fase[s] # "abriendo", fase' = fase,
             SeesLayer(s), NEW d, capa' = [capa EXCEPT ![s] = d], HasLayer(Opened(s)) => HasLayer(d)
      PROVE  Apart'
  <2>1. CASE s = 1
    <3>1. capa'[1] = d /\ visto'[1] = (visto[1] \/ IsSealed(Message(1).sello))
      BY <2>1, <1>5, <1>a DEF SeesLayer
    <3>2. IsSealed(Message(1).sello) => HasLayer(Opened(1))
      BY <2>1, <1>5, PassesLayer
    <3>3. visto[1] => HasLayer(Opened(1))
      BY <2>1, <1>5, OpenedEnvio DEF Apart, HasLayer
    <3> QED
      BY <2>1, <3>1, <3>2, <3>3, <1>5 DEF Apart
  <2>2. CASE s # 1
    <3>1. capa'[1] = capa[1] /\ visto'[1] = visto[1]
      BY <2>2, <1>5, <1>a DEF SeesLayer
    <3> QED
      BY <3>1, <1>5 DEF Apart
  <2> QED
    BY <2>1, <2>2
<1>6. ASSUME NEW s \in Sides, ReadData(s) PROVE Apart'
  <2>1. /\ Hears(s) /\ Passes(s) /\ fase[s] # "abriendo" /\ fase' = fase /\ SeesLayer(s)
        /\ capa' = [capa EXCEPT ![s] = Opened(s)]
    BY <1>6 DEF ReadData
  <2> QED
    BY <2>1, <1>5
<1>7. CASE ReadKey
  <2>1. PICK k : capa' = [capa EXCEPT ![1] = Renewed(Opened(1), k)] /\ k = NextSecret(Message(1).de[1], Opened(1))
    BY <1>7 DEF ReadKey
  <2>2. Hears(1) /\ Passes(1) /\ fase[1] # "abriendo" /\ fase' = fase /\ SeesLayer(1)
    BY <1>7 DEF ReadKey
  <2>3. HasLayer(Renewed(Opened(1), k))
    <3>1. Opened(1) \in LayerType /\ Message(1).de[1] \in Nat /\ Message(1).de \in Secret
      BY <2>2, <1>a, MessageKeeps
    <3>2. k \in Secret
      BY <3>1, <2>1, SecretTypes
    <3> QED
      BY <3>1, <3>2, EnvioNat, RenewedLayer
  <2> QED
    BY <2>1, <2>2, <2>3, <1>5, <1>a
<1>8. CASE ReadAnswer
  <2>1. /\ fase' = fase /\ SeesLayer(0)
        /\ \E d : capa' = [capa EXCEPT ![0] = d]
    BY <1>8 DEF ReadAnswer
  <2>2. capa'[1] = capa[1] /\ visto'[1] = visto[1]
    BY <2>1, <1>a DEF SeesLayer
  <2> QED
    BY <2>1, <2>2 DEF Apart
<1>9. ASSUME NEW s \in Sides, NEW frames, NEW left, Closes(s, frames, left) PROVE Apart'
  <2>1. /\ fase'[s] = "sola" /\ visto'[s] = FALSE
        /\ \A x \in Sides : x # s =>
               fase'[x] = fase[x] /\ capa'[x] = capa[x] /\ visto'[x] = visto[x]
    BY <1>9, <1>a DEF Closes
  <2> QED
    BY <2>1, <1>a DEF Apart
<1>10. ASSUME NEW s \in Sides,
              ReadKeyFails \/ Refuse(s) \/ ReadEnd(s) \/ Close(s) \/ SendFails(s) \/ GiveUp(s)
                  \/ (Notice(s) /\ fase[s] # "lista")
       PROVE  Apart'
  <2>1. \E x \in Sides : \E frames, left : Closes(x, frames, left)
    BY <1>10, <1>a DEF ReadKeyFails, Refuse, ReadEnd, Close, SendFails, GiveUp, Notice
  <2> QED
    BY <2>1, <1>9
<1>11. ASSUME UNCHANGED <<fase, capa, visto>> PROVE Apart'
  BY <1>11 DEF Apart
<1>12. ASSUME NEW s \in Sides,
              Drop \/ Meet \/ Discard(s) \/ Pause(s) \/ Continue(s) \/ UNCHANGED vars
                  \/ (Notice(s) /\ fase[s] = "lista")
       PROVE  Apart'
  BY <1>11, <1>12 DEF Drop, Meet, Discard, Pause, Continue, Notice, vars
<1>13. CASE ReadFirst
  <2>1. fase' = [fase EXCEPT ![1] = "lista"] /\ capa' = capa /\ visto' = visto
    BY <1>13 DEF ReadFirst
  <2>2. fase'[0] = fase[0] /\ fase'[1] = "lista"
    BY <2>1, <1>a
  <2> QED
    BY <2>1, <2>2 DEF Apart
<1> QED
  BY <1>2, <1>3, <1>4, <1>6, <1>7, <1>8, <1>10, <1>12, <1>13, <1>a DEF Next, Reads

\* Side 0 says a thing that is no offer, and another.
LEMMA Side0SaysTwice ==
    ASSUME NEW q0 \in Seq(MessageType), NEW q1 \in Seq(MessageType),
           NEW c0 \in LayerType, NEW c1 \in LayerType, NEW v \in BOOLEAN,
           Sync(q0, q1, c0, c1, v), Comes1(q1, c1, v), Rising(q1),
           c0.raiz # c1.raiz => c0.raiz = Old(c1) /\ c1.raiz # <<>>,
           NEW p \in Payload, NEW r \in Payload, c0.envio <= Skip, Used(c0).envio <= Skip,
           p.m # "llave",
           r.m = "llave" => c0.raiz = c1.raiz /\ NoneOf(q1, "llave")
    PROVE  LET w == Append(Append(q1, Carried(p, c0, c0.envio)),
                           Carried(r, Used(c0), Used(c0).envio))
           IN  Rising(w) /\ Comes1(w, c1, v) /\ Sync(q0, w, Used(Used(c0)), c1, v)
<1> DEFINE x == Carried(p, c0, c0.envio)
           e0 == Used(c0)
           y == Carried(r, e0, e0.envio)
           q == Append(q1, x)
<1>1. /\ x \in MessageType /\ Sync(q0, q, e0, c1, v)
      /\ Comes1(q, c1, v) /\ Rising(q)
  BY Side0Says
<1>2. e0 \in LayerType /\ e0.raiz = c0.raiz
  BY UsedKeeps DEF Sealing
<1>3. q \in Seq(MessageType)
  BY <1>1, SeqPlaces
<1>4. x.m # "llave"
  BY DEF Carried
<1>5. r.m = "llave" => NoneOf(q, "llave")
  <2> HIDE DEF x
  <2> QED
    BY <1>1, <1>4, NoneOfAdd
<1>6. e0.raiz # c1.raiz => e0.raiz = Old(c1) /\ c1.raiz # <<>>
  BY <1>2
<1>7. r.m = "llave" => e0.raiz = c1.raiz /\ NoneOf(q, "llave")
  BY <1>2, <1>5
<1>8. e0.envio <= Skip
  OBVIOUS
<1> HIDE DEF x, e0, q
<1>9. Sync(q0, Append(q, y), Used(e0), c1, v) /\ Comes1(Append(q, y), c1, v)
      /\ Rising(Append(q, y))
  BY <1>1, <1>2, <1>3, <1>6, <1>7, <1>8, Side0Says
<1> QED
  BY <1>9 DEF x, e0, q

\* Side 0 says nothing, one thing, or two, and has read nothing.
LEMMA Send0 ==
    ASSUME TypeOK, TypeOK', InTime, Exchange, fase[0] = "lista", fase' = fase, visto' = visto,
           canal'[0] = canal[0], capa'[1] = capa[1], Sealing(capa[0], capa'[0]),
           oferta' = oferta \/ oferta = 0,
           NEW p \in Payload, NEW r \in Payload,
           p.m = "llave" => oferta = 0, r.m = "llave" => oferta = 0,
           \/ canal'[1] = canal[1]
           \/ /\ fase[1] # "sola" /\ capa'[0] = Used(capa[0]) /\ capa[0].envio <= Skip
              /\ canal'[1] = Append(canal[1], Carried(p, capa[0], capa[0].envio))
           \/ /\ fase[1] # "sola" /\ capa'[0] = Used(Used(capa[0])) /\ p.m # "llave"
              /\ capa[0].envio <= Skip /\ Used(capa[0]).envio <= Skip
              /\ canal'[1] = Append(Append(canal[1], Carried(p, capa[0], capa[0].envio)),
                                    Carried(r, Used(capa[0]), Used(capa[0]).envio))
    PROVE  InTime'
<1> DEFINE q0 == canal[0]
           q1 == canal[1]
           c0 == capa[0]
           c1 == capa[1]
           v == visto[1]
           d0 == capa'[0]
           w1 == canal'[1]
<1>1. /\ q0 \in Seq(MessageType) /\ q1 \in Seq(MessageType) /\ c0 \in LayerType /\ c1 \in LayerType
      /\ v \in BOOLEAN /\ oferta \in Nat /\ d0 \in LayerType
  BY Parts DEF TypeOK, Sides
<1>2. Rising(q0) /\ Comes0(q0, d0, oferta')
  <2>1. Rising(q0) /\ Comes0(q0, c0, oferta)
    BY DEF InTime
  <2>2. Comes0(q0, c0, oferta')
    BY <1>1, <2>1, Comes0Offer
  <2> QED
    BY <1>1, <2>1, <2>2, ComesSame DEF Sealing
<1>3. BothIn <=> fase[1] # "sola"
  BY DEF BothIn
<1>4. BothIn' <=> BothIn
  BY DEF BothIn
<1>5. ASSUME fase[1] # "sola"
      PROVE  /\ Sync(q0, q1, c0, c1, v) /\ Comes1(q1, c1, v) /\ Rising(q1)
             /\ c0.raiz # c1.raiz => c0.raiz = Old(c1) /\ c1.raiz # <<>>
             /\ p.m = "llave" => c0.raiz = c1.raiz /\ NoneOf(q1, "llave")
             /\ r.m = "llave" => c0.raiz = c1.raiz /\ NoneOf(q1, "llave")
  <2>1. Sync(q0, q1, c0, c1, v) /\ Comes1(q1, c1, v) /\ Rising(q1)
    BY <1>3, <1>5 DEF InTime
  <2>2. c0.raiz # c1.raiz => c0.raiz = Old(c1) /\ c1.raiz # <<>> /\ oferta # 0
    BY <1>3, <1>5, ByRoots DEF Ahead
  <2>3. oferta = 0 /\ c0.raiz = c1.raiz => NoneOf(q1, "llave")
    BY <1>3, <1>5, ByRoots DEF Even
  <2> QED
    BY <2>1, <2>2, <2>3
<1>6. ASSUME fase[1] # "sola"
      PROVE  Rising(w1) /\ Comes1(w1, c1, v) /\ Sync(q0, w1, d0, c1, v)
  <2>1. CASE w1 = q1
    <3>1. Sealing(c1, c1)
      BY <1>1, EnvioNat DEF Sealing
    <3>2. Sync(q0, q1, d0, c1, v)
      BY <1>1, <1>5, <1>6, <3>1, SyncSealing
    <3> QED
      BY <2>1, <3>2, <1>5, <1>6
  <2>2. CASE /\ d0 = Used(c0) /\ c0.envio <= Skip
             /\ w1 = Append(q1, Carried(p, c0, c0.envio))
    <3> HIDE DEF q0, q1, c0, c1, v, d0, w1
    <3> QED
      BY <2>2, <1>1, <1>5, <1>6, Side0Says
  <2>3. CASE /\ d0 = Used(Used(c0)) /\ p.m # "llave" /\ c0.envio <= Skip /\ Used(c0).envio <= Skip
             /\ w1 = Append(Append(q1, Carried(p, c0, c0.envio)),
                            Carried(r, Used(c0), Used(c0).envio))
    <3> HIDE DEF q0, q1, c0, c1, v, d0, w1
    <3> QED
      BY <2>3, <1>1, <1>5, <1>6, Side0SaysTwice
  <2> QED
    BY <1>6, <2>1, <2>2, <2>3
<1> QED
  BY <1>2, <1>3, <1>4, <1>6 DEF InTime

\* Side 1 says nothing or one thing that is no answer, having read what left q.
LEMMA Send1 ==
    ASSUME TypeOK, TypeOK', InTime, Exchange, fase[1] # "sola", fase'[0] = fase[0],
           fase'[1] # "sola", visto' = visto, oferta' = oferta, capa'[0] = capa[0],
           canal'[1] \in Seq(MessageType),
           Rising(canal'[1]) /\ Comes1(canal'[1], capa[1], visto[1]),
           BothIn => Sync(canal[0], canal'[1], capa[0], capa[1], visto[1]),
           Sealing(capa[1], capa'[1]), NEW p \in Payload, p.m # "cifrado",
           \/ canal'[0] = canal[0]
           \/ /\ fase[0] # "sola" /\ fase[0] # "abriendo" /\ capa'[1] = Used(capa[1])
              /\ capa[1].envio <= Skip
              /\ canal'[0] = Append(canal[0], Carried(p, capa[1], capa[1].envio))
    PROVE  InTime'
<1> DEFINE q0 == canal[0]
           q1 == canal'[1]
           c0 == capa[0]
           c1 == capa[1]
           v == visto[1]
           d1 == capa'[1]
           w0 == canal'[0]
           o == oferta
<1>1. /\ q0 \in Seq(MessageType) /\ q1 \in Seq(MessageType) /\ c0 \in LayerType /\ c1 \in LayerType
      /\ v \in BOOLEAN /\ o \in Nat /\ d1 \in LayerType
      /\ fase[0] \in {"abriendo", "lista", "sola"}
  BY Parts DEF TypeOK, Sides
<1>2. BothIn' <=> BothIn
  BY DEF BothIn
<1>3. Comes1(q1, d1, v)
  BY <1>1, Comes1Same DEF Sealing
<1>4. ASSUME BothIn
      PROVE  /\ Sync(q0, q1, c0, c1, v) /\ Comes0(q0, c0, o) /\ Rising(q0)
             /\ c0.raiz = c1.raiz => NoneOf(q0, "cifrado")
             /\ c0.raiz # c1.raiz => c1.raiz = Append(c0.raiz, NextOf(o, c0))
  BY <1>4, ByRoots DEF InTime, BothIn, Even
<1>5. CASE w0 = q0
  <2>1. Sealing(c0, c0)
    BY <1>1, EnvioNat DEF Sealing
  <2>2. BothIn => Sync(q0, q1, c0, d1, v)
    BY <1>1, <1>4, <2>1, SyncSealing
  <2> QED
    BY <1>2, <1>3, <1>5, <2>2 DEF InTime
<1>6. CASE /\ fase[0] # "sola" /\ fase[0] # "abriendo" /\ d1 = Used(c1) /\ c1.envio <= Skip
           /\ w0 = Append(q0, Carried(p, c1, c1.envio))
  <2>1. BothIn
    BY <1>1, <1>6 DEF BothIn
  <2>2. /\ Sync(w0, q1, c0, d1, v) /\ Comes0(w0, c0, o) /\ Rising(w0)
    <3> HIDE DEF q0, q1, c0, c1, v, d1, w0, o
    <3> QED
      BY <2>1, <1>1, <1>4, <1>6, Side1Says
  <2> QED
    BY <1>3, <2>2 DEF InTime
<1> QED
  BY <1>5, <1>6

LEMMA ReadEmpty ==
    ASSUME TypeOK, NEW s \in Sides, canal[s] # <<>>, Put(s, Tail(canal[s]), <<>>)
    PROVE  /\ canal'[s] = Tail(canal[s]) /\ Tail(canal[s]) \in Seq(MessageType)
           /\ canal'[1 - s] = canal[1 - s]
<1>1. canal[s] \in Seq(MessageType) /\ 1 - s \in Sides /\ canal[1 - s] \in Seq(MessageType)
  BY OtherSide DEF TypeOK
<1>2. Tail(canal[s]) \in Seq(MessageType) /\ <<>> \in Seq(MessageType)
  <2>1. Tail(canal[s]) \in Seq(MessageType)
    BY <1>1, SeqPlaces
  <2> QED
    BY <2>1
<1>3. canal'[s] = Tail(canal[s]) /\ canal'[1 - s] \in {canal[1 - s], canal[1 - s] \o <<>>}
  BY <1>2, PutKeeps
<1>4. canal[1 - s] \o <<>> = canal[1 - s]
  BY <1>1
<1> QED
  BY <1>2, <1>3, <1>4

LEMMA SetSeen ==
    ASSUME TypeOK, NEW s \in Sides, NEW d, visto' = [visto EXCEPT ![s] = @ \/ d]
    PROVE  visto'[s] = (visto[s] \/ d) /\ \A x \in Sides : x # s => visto'[x] = visto[x]
<1>1. visto \in [Sides -> BOOLEAN]
  BY DEF TypeOK
<1> QED
  BY <1>1

LEMMA NumbersReach ==
    ASSUME NEW a \in Nat, NEW n \in Nat, a <= n, n <= Skip
    PROVE  Reaches(a, n)
  BY BoundsAssumption DEF Reaches

\* What comes passes.
LEMMA CanOpen ==
    ASSUME TypeOK, InTime, NEW s \in Sides, Hears(s), Said(Message(s))
    PROVE  Passes(s) /\ (IsSealed(Message(s).sello) => HasLayer(capa[s]))
<1> DEFINE h == canal[s][1]
           c == capa[s]
           n == h.sello.n
<1>1. /\ Message(s) = h /\ h \in MessageType /\ canal[s] \in Seq(MessageType) /\ canal[s] # <<>>
      /\ c \in LayerType
  BY OpenedEnvio DEF TypeOK, Hears
<1>2. n \in Nat /\ c.recibo \in Nat /\ c.anterior \subseteq Nat
  BY <1>1, MessageParts, EnvioNat
<1>3. fase[s] # "sola"
  BY DEF Hears
<1> HIDE DEF h, c
<1>4. CASE s = 0
  <2>1. h.sello.raiz = c.raiz /\ Behind(c, h) /\ n <= Skip
    BY <1>1, <1>3, <1>4, Comes0Read DEF InTime, h, c
  <2>2. IsSealed(h.sello) => Reaches(c.recibo, n)
    BY <1>2, <2>1, NumbersReach DEF Behind
  <2> QED
    BY <1>1, <2>1, <2>2 DEF Passes, Current, HasLayer, IsSealed, c
<1>5. CASE s = 1
  <2>1. /\ n <= Skip
        /\ h.sello.raiz = c.raiz => Behind(c, h)
        /\ h.sello.raiz # c.raiz => Before(c, visto[1], h)
    BY <1>1, <1>3, <1>5, Comes1Read, Parts DEF InTime, h, c
  <2>2. CASE h.sello.raiz = c.raiz
    <3>1. IsSealed(h.sello) => Reaches(c.recibo, n)
      BY <1>2, <2>1, <2>2, NumbersReach DEF Behind
    <3> QED
      BY <1>1, <2>2, <3>1 DEF Passes, Current, HasLayer, IsSealed, c
  <2>3. CASE h.sello.raiz # c.raiz
    <3>1. Before(c, visto[1], h)
      BY <2>1, <2>3
    <3>2. ASSUME IsSealed(h.sello) PROVE Previous(c, h.sello)
      <4>1. PICK a \in c.anterior : a <= n
        BY <3>1, <3>2 DEF Before
      <4>2. Reaches(a, n)
        BY <4>1, <1>2, <2>1, NumbersReach
      <4> QED
        BY <3>1, <4>1, <4>2 DEF Previous, Before, Old
    <3>3. ~ IsSealed(h.sello) => ~ visto[1]
      BY <3>1 DEF Before
    <3> QED
      BY <1>1, <1>5, <3>1, <3>2, <3>3 DEF Passes, Before, HasLayer, c
  <2> QED
    BY <2>2, <2>3
<1> QED
  BY <1>4, <1>5 DEF Sides

LEMMA InTimeReadData0 ==
    ASSUME TypeOK, TypeOK', InTime, Exchange, ReadData(0)
    PROVE  InTime'
<1> DEFINE q0 == canal[0]
           q1 == canal[1]
           c0 == capa[0]
           c1 == capa[1]
           v == visto[1]
<1>1. /\ q0 \in Seq(MessageType) /\ q1 \in Seq(MessageType) /\ c0 \in LayerType /\ c1 \in LayerType
      /\ v \in BOOLEAN /\ oferta \in Nat /\ 0 \in Sides /\ 1 \in Sides /\ 1 - 0 = 1
  BY Parts
<1>2. /\ Hears(0) /\ Message(0).m = "dato" /\ Put(0, Tail(q0), <<>>) /\ q0 # <<>>
      /\ capa' = [capa EXCEPT ![0] = Opened(0)] /\ fase' = fase /\ oferta' = oferta
      /\ visto' = [visto EXCEPT ![0] = @ \/ IsSealed(Message(0).sello)] /\ fase[0] = "lista"
  BY DEF ReadData, SeesLayer, Hears
<1>3. canal'[0] = Tail(q0) /\ canal'[1] = q1
  BY <1>1, <1>2, ReadEmpty
<1>4. Opened(0) = After(c0, q0[1]) /\ Message(0) = q0[1]
  BY <1>1, <1>2, OpenedEnvio
<1>5. capa'[0] = After(c0, q0[1]) /\ capa'[1] = c1 /\ visto'[1] = v
  <2>0. capa' = [capa EXCEPT ![0] = Opened(0)] /\ 0 \in Sides /\ 1 \in Sides /\ 1 # 0
    BY <1>1, <1>2
  <2>1. capa'[0] = Opened(0) /\ capa'[1] = c1
    BY <2>0, SetLayer
  <2>2. visto'[1] = v
    BY <1>1, <1>2, SetSeen
  <2> QED
    BY <2>1, <2>2, <1>4
<1>6. Rising(q0) /\ Comes0(q0, c0, oferta)
  BY <1>2 DEF InTime
<1>7. Rising(Tail(q0)) /\ Comes0(Tail(q0), After(c0, q0[1]), oferta)
  <2>1. Rising(Tail(q0))
    BY <1>1, <1>2, <1>6, RisingKeeps
  <2> QED
    BY <2>1, <1>1, <1>2, <1>4, <1>6, Comes0Read
<1>8. q0[1].sello.raiz = c0.raiz /\ q0[1].m # "cifrado"
  <2>1. Said(q0[1]) /\ q0[1].m # "cifrado"
    BY <1>2, <1>4 DEF Said
  <2> QED
    BY <2>1, <1>1, <1>2, <1>6, Comes0Read
<1>9. BothIn => Sync(Tail(q0), q1, After(c0, q0[1]), c1, v)
  <2> HIDE DEF q0, q1, c0, c1, v
  <2>1. BothIn => Sync(q0, q1, c0, c1, v)
    BY DEF InTime, q0, q1, c0, c1, v
  <2> QED
    BY <2>1, <1>1, <1>2, <1>8, SyncRead0
<1>10. BothIn' <=> BothIn
  BY <1>2 DEF BothIn
<1> QED
  BY <1>2, <1>3, <1>5, <1>7, <1>9, <1>10 DEF InTime

\* Side 1 reads: what is left in its channel, with the layer it opened it with.
LEMMA Reading1 ==
    ASSUME TypeOK, InTime, Exchange, Hears(1)
    PROVE  LET d == After(capa[1], canal[1][1])
               u == visto[1] \/ IsSealed(canal[1][1].sello)
           IN  /\ Rising(Tail(canal[1])) /\ Comes1(Tail(canal[1]), d, u)
               /\ BothIn => Sync(canal[0], Tail(canal[1]), capa[0], d, u)
<1> DEFINE q0 == canal[0]
           q1 == canal[1]
           c0 == capa[0]
           c1 == capa[1]
           v == visto[1]
           h == q1[1]
<1>1. /\ q0 \in Seq(MessageType) /\ q1 \in Seq(MessageType) /\ c0 \in LayerType /\ c1 \in LayerType
      /\ v \in BOOLEAN /\ q1 # <<>>
  BY Parts DEF Hears
<1>2. Rising(q1) /\ Comes1(q1, c1, v)
  BY DEF InTime, Hears
<1>3. BothIn => Sync(q0, q1, c0, c1, v)
  BY DEF InTime
<1>4. BothIn => (c0.raiz # c1.raiz => c0.raiz = Old(c1))
  BY ByRoots
<1> HIDE DEF q0, q1, c0, c1, v
<1>5. Rising(Tail(q1))
  BY <1>1, <1>2, RisingKeeps
<1>6. Comes1(Tail(q1), After(c1, h), v \/ IsSealed(h.sello))
      /\ (Said(h) /\ h.sello.raiz # c1.raiz => Before(c1, v, h))
  BY <1>1, <1>2, Comes1Read
<1>7. BothIn => Sync(q0, Tail(q1), c0, After(c1, h), v \/ IsSealed(h.sello))
  BY <1>1, <1>3, <1>4, <1>6, SyncRead1
<1> QED
  BY <1>5, <1>6, <1>7 DEF q0, q1, c0, c1, v

LEMMA InTimeReadData1 ==
    ASSUME TypeOK, TypeOK', InTime, Exchange, ReadData(1)
    PROVE  InTime'
<1>1. /\ canal[1] \in Seq(MessageType) /\ 0 \in Sides /\ 1 \in Sides /\ 1 - 1 = 0
  BY Parts
<1>2. /\ Hears(1) /\ Put(1, Tail(canal[1]), <<>>) /\ canal[1] # <<>>
      /\ capa' = [capa EXCEPT ![1] = Opened(1)] /\ fase' = fase /\ oferta' = oferta
      /\ visto' = [visto EXCEPT ![1] = @ \/ IsSealed(Message(1).sello)]
  BY DEF ReadData, SeesLayer, Hears
<1>3. canal'[1] = Tail(canal[1]) /\ canal'[0] = canal[0]
  BY <1>1, <1>2, ReadEmpty
<1>4. Opened(1) = After(capa[1], canal[1][1]) /\ Message(1) = canal[1][1]
  BY <1>1, <1>2, OpenedEnvio
<1>5. /\ capa'[1] = After(capa[1], canal[1][1]) /\ capa'[0] = capa[0]
      /\ visto'[1] = (visto[1] \/ IsSealed(canal[1][1].sello))
  <2>0. /\ capa' = [capa EXCEPT ![1] = Opened(1)] /\ 0 \in Sides /\ 1 \in Sides /\ 1 # 0
        /\ visto' = [visto EXCEPT ![1] = @ \/ IsSealed(Message(1).sello)]
    BY <1>1, <1>2
  <2>1. capa'[1] = Opened(1) /\ capa'[0] = capa[0]
    BY <2>0, SetLayer
  <2>2. visto'[1] = (visto[1] \/ IsSealed(Message(1).sello))
    <3>1. visto \in [Sides -> BOOLEAN]
      BY DEF TypeOK
    <3> QED
      BY <2>0, <3>1
  <2> QED
    BY <2>1, <2>2, <1>4
<1>6. BothIn' <=> BothIn
  BY <1>2 DEF BothIn
<1> QED
  BY <1>2, <1>3, <1>5, <1>6, Reading1 DEF InTime

\* What one side sends is in the channel of the other.
LEMMA Side1Sends ==
    ASSUME TypeOK, NEW mine \in Seq(MessageType), NEW c \in LayerType,
           NEW p \in Payload, Sends(1, mine, c, <<p>>)
    PROVE  /\ canal'[1] = mine
           /\ \/ canal'[0] = canal[0] /\ (p.m = "cifrado" => "cifrado" \in perdidas')
              \/ /\ fase[0] # "sola" /\ EnMarcha(1)
                 /\ canal'[0] = Append(canal[0], Carried(p, c, c.envio))
<1>1. 0 \in Sides /\ 1 \in Sides /\ 0 # 1
  BY DEF Sides
<1> QED
  BY <1>1, OneSent

LEMMA Side0Sends ==
    ASSUME TypeOK, NEW mine \in Seq(MessageType), NEW c \in LayerType,
           NEW p \in Payload, Sends(0, mine, c, <<p>>)
    PROVE  /\ canal'[0] = mine
           /\ \/ canal'[1] = canal[1] /\ (p.m = "cifrado" => "cifrado" \in perdidas')
              \/ /\ fase[1] # "sola" /\ EnMarcha(0)
                 /\ canal'[1] = Append(canal[1], Carried(p, c, c.envio))
<1>1. 0 \in Sides /\ 1 \in Sides /\ 0 # 1
  BY DEF Sides
<1> QED
  BY <1>1, OneSent

LEMMA Side0SendsTwo ==
    ASSUME TypeOK, NEW c \in LayerType,
           NEW p \in Payload, NEW r \in Payload, Sends(0, canal[0], c, <<p, r>>)
    PROVE  /\ canal'[0] = canal[0]
           /\ \/ canal'[1] = canal[1]
              \/ /\ fase[1] # "sola" /\ EnMarcha(0)
                 /\ canal'[1] = Append(Append(canal[1], Carried(p, c, c.envio)),
                                       Carried(r, Used(c), Used(c).envio))
<1>1. 0 \in Sides /\ 1 \in Sides /\ 0 # 1
  BY DEF Sides
<1> QED
  BY <1>1, TwoSent

LEMMA InTimeReadFirst ==
    ASSUME TypeOK, TypeOK', InTime, Exchange, Apart, ReadFirst
    PROVE  InTime'
<1>1. /\ canal[1] \in Seq(MessageType) /\ 0 \in Sides /\ 1 \in Sides /\ 1 - 1 = 0
      /\ capa[1] \in LayerType
  BY Parts
<1>2. /\ Hears(1) /\ Message(1).m = "dato" /\ fase[1] = "abriendo" /\ canal[1] # <<>>
      /\ fase' = [fase EXCEPT ![1] = "lista"] /\ capa' = capa /\ visto' = visto
      /\ oferta' = oferta /\ Sends(1, Tail(canal[1]), capa[1], <<Dato>>)
  BY DEF ReadFirst, Hears
<1>3. capa[1] = NoLayer /\ fase[0] # "abriendo"
  BY <1>2 DEF Apart
<1>4. ~ HasLayer(capa[1])
  BY <1>3 DEF HasLayer, NoLayer
<1>5. Message(1) = canal[1][1] /\ canal[1][1] \in MessageType
  BY <1>1, <1>2, OpenedEnvio
<1>6. ~ IsSealed(canal[1][1].sello)
  BY <1>1, <1>2, <1>4, <1>5, CanOpen DEF Said
<1>7. After(capa[1], canal[1][1]) = capa[1]
  BY <1>6 DEF After
<1>8. /\ Rising(Tail(canal[1])) /\ Comes1(Tail(canal[1]), capa[1], visto[1])
      /\ BothIn => Sync(canal[0], Tail(canal[1]), capa[0], capa[1], visto[1])
  <2>1. (visto[1] \/ IsSealed(canal[1][1].sello)) = visto[1]
    <3>1. visto[1] \in BOOLEAN
      BY Parts
    <3> QED
      BY <3>1, <1>6
  <2> QED
    BY <2>1, <1>2, <1>7, Reading1
<1>9. Dato \in Payload /\ Dato.m # "cifrado" /\ Tail(canal[1]) \in Seq(MessageType)
  BY <1>1, <1>2, SeqPlaces DEF Dato, Payload, Secret
<1>10. /\ canal'[1] = Tail(canal[1])
       /\ \/ canal'[0] = canal[0]
          \/ /\ fase[0] # "sola"
             /\ canal'[0] = Append(canal[0], Carried(Dato, capa[1], capa[1].envio))
  <2>1. Sends(1, Tail(canal[1]), capa[1], <<Dato>>) /\ 0 # 1
    BY <1>2
  <2> QED
    BY <2>1, <1>1, <1>9, Side1Sends
<1>11. capa'[1] = Used(capa[1]) /\ Sealing(capa[1], capa'[1]) /\ capa[1].envio <= Skip
  <2>1. Used(capa[1]) = capa[1]
    BY <1>4 DEF Used
  <2>2. capa[1].envio = 0 /\ 0 <= Skip
    BY <1>3, BoundsAssumption DEF NoLayer
  <2> QED
    BY <2>1, <2>2, <1>1, <1>2, UsedKeeps
<1>12. fase'[0] = fase[0] /\ fase'[1] # "sola" /\ fase[1] # "sola"
  <2>1. fase \in [Sides -> {"abriendo", "lista", "sola"}]
    BY DEF TypeOK
  <2> QED
    BY <2>1, <1>1, <1>2
<1>13. capa'[0] = capa[0]
  BY <1>2
<1> QED
  BY <1>2, <1>3, <1>8, <1>9, <1>10, <1>11, <1>12, <1>13, Send1

LEMMA InTimeReadKey ==
    ASSUME TypeOK, TypeOK', InTime, Exchange, Apart, ReadKey, capa[1].envio <= Skip,
           "cifrado" \notin perdidas'
    PROVE  InTime'
<1> DEFINE q0 == canal[0]
           q1 == canal[1]
           c0 == capa[0]
           c1 == capa[1]
           v == visto[1]
           h == q1[1]
           d == After(c1, h)
           u == v \/ IsSealed(h.sello)
           k == NextOf(oferta, c0)
           x == Carried(Cifrado(k), d, d.envio)
<1>1. /\ q0 \in Seq(MessageType) /\ q1 \in Seq(MessageType) /\ c0 \in LayerType /\ c1 \in LayerType
      /\ v \in BOOLEAN /\ oferta \in Nat /\ 0 \in Sides /\ 1 \in Sides /\ 1 - 1 = 0 /\ 1 # 0
      /\ k \in Secret /\ fase[0] \in {"abriendo", "lista", "sola"}
  BY Parts
<1>2. /\ Hears(1) /\ Message(1).m = "llave" /\ fase[1] = "lista" /\ q1 # <<>>
      /\ fase' = fase /\ oferta' = oferta
      /\ visto' = [visto EXCEPT ![1] = @ \/ IsSealed(Message(1).sello)]
      /\ Sends(1, Tail(q1), Opened(1), <<Cifrado(NextSecret(Message(1).de[1], Opened(1)))>>)
      /\ capa' = [capa EXCEPT ![1] = Renewed(Opened(1), NextSecret(Message(1).de[1], Opened(1)))]
  BY DEF ReadKey, SeesLayer, Hears, AnswerSeal
<1>3. /\ Opened(1) = d /\ Message(1) = h /\ d \in LayerType /\ d.raiz = c1.raiz
      /\ d.envio = c1.envio /\ h \in MessageType
  BY <1>1, <1>2, OpenedEnvio
<1>4. /\ Rising(q1) /\ Comes1(q1, c1, v) /\ (v => HasLayer(c1)) /\ fase[0] # "abriendo"
  BY <1>2 DEF InTime, Apart
<1>5. 1 \in 1 .. Len(q1) /\ Tail(q1) \in Seq(MessageType)
  BY <1>1, <1>2, SeqPlaces
<1>6. LET j == NextSecret(Message(1).de[1], Opened(1))
      IN  /\ fase[0] # "sola"
          /\ canal'[0] = Append(q0, Carried(Cifrado(j), d, d.envio))
  <2> DEFINE j == NextSecret(Message(1).de[1], Opened(1))
  <2>1. j \in Secret
    <3>1. Message(1).de \in Secret /\ Message(1).de[1] \in Nat /\ Opened(1) \in LayerType
      BY <1>1, <1>2, MessageKeeps
    <3> QED
      BY <3>1, SecretTypes
  <2>2. Sends(1, Tail(q1), d, <<Cifrado(j)>>)
    BY <1>2, <1>3
  <2> HIDE DEF j, d
  <2>3. Cifrado(j) \in Payload /\ Cifrado(j).m = "cifrado"
    BY <2>1 DEF Cifrado, Payload
  <2>4. \/ canal'[0] = canal[0] /\ "cifrado" \in perdidas'
        \/ /\ fase[0] # "sola"
           /\ canal'[0] = Append(canal[0], Carried(Cifrado(j), d, d.envio))
    <3>1. /\ 0 \in Sides /\ 1 \in Sides /\ 0 # 1 /\ Tail(q1) \in Seq(MessageType)
          /\ d \in LayerType
      BY <1>1, <1>3, <1>5
    <3> QED
      BY <3>1, <2>2, <2>3, Side1Sends
  <2> QED
    BY <2>4 DEF j
<1>7. BothIn
  BY <1>1, <1>2, <1>4, <1>6 DEF BothIn
<1>8. c0.raiz = c1.raiz /\ NoneOf(q0, "cifrado") /\ oferta # 0 /\ h.de = <<oferta, 0>>
  <2>1. ~ NoneOf(q1, "llave")
    BY <1>2, <1>3, <1>5 DEF NoneOf
  <2>2. Even
    BY <2>1, <1>7, ByRoots DEF Ahead
  <2> QED
    BY <2>1, <2>2, <1>2, <1>3, <1>5 DEF Even, Once
<1>9. NextSecret(Message(1).de[1], Opened(1)) = k
  BY <1>3, <1>8 DEF NextSecret, NextOf
<1>10. canal'[0] = Append(q0, x) /\ canal'[1] = Tail(q1)
  <2>1. canal'[1] = Tail(q1)
    <3>1. Put(1, Tail(q1), Sealed(1, Opened(1), <<Cifrado(NextSecret(Message(1).de[1], Opened(1)))>>))
      BY <1>2 DEF Sends
    <3> QED
      BY <3>1, <1>1 DEF Put
  <2> QED
    BY <2>1, <1>6, <1>9
<1>11. capa'[1] = Renewed(d, k) /\ capa'[0] = c0
  <2>1. capa' = [capa EXCEPT ![1] = Renewed(d, k)]
    BY <1>2, <1>3, <1>9
  <2> QED
    BY <2>1, <1>1, SetLayer
<1>12. visto'[1] = u
  <2>1. visto \in [Sides -> BOOLEAN]
    BY DEF TypeOK
  <2>2. visto'[1] = (visto[1] \/ IsSealed(Message(1).sello))
    BY <2>1, <1>1, <1>2
  <2> QED
    BY <2>2, <1>3
<1>13. Cifrado(k) \in Payload /\ Cifrado(k).m = "cifrado" /\ Cifrado(k).de = k
  BY <1>1 DEF Cifrado, Payload
<1>14. /\ x \in MessageType /\ x.m = "cifrado" /\ x.de = k /\ x.sello.raiz = c1.raiz
       /\ IsSealed(x.sello) => x.sello.n = c1.envio
       /\ x.sello.n <= c1.envio
  BY <1>3, <1>13, CarriedType, EnvioNat
<1>15. /\ x.sello.n <= Skip /\ (IsSealed(x.sello) => c1.envio <= x.sello.n)
  <2>1. x.sello.n \in Nat /\ c1.envio \in Nat
    BY <1>1, <1>14, MessageParts, EnvioNat
  <2> QED
    BY <2>1, <1>14, BoundsAssumption
<1>16. Rising(q0) /\ Comes0(q0, c0, oferta) /\ Sync(q0, q1, c0, c1, v)
  BY <1>6, <1>7 DEF InTime
<1> HIDE DEF q0, q1, c0, c1, v, d, u, k, x
<1>17. Comes0(Append(q0, x), c0, oferta) /\ Rising(Append(q0, x))
  <2>1. x.de = NextOf(oferta, c0)
    BY <1>14 DEF k
  <2> QED
    BY <2>1, <1>1, <1>8, <1>14, <1>15, <1>16, Say0Comes
<1>18. Rising(Tail(q1)) /\ Comes1(Tail(q1), Renewed(d, k), u)
  <2>1. Rising(Tail(q1))
    BY <1>1, <1>2, <1>4, RisingKeeps
  <2> QED
    BY <2>1, <1>1, <1>2, <1>3, <1>4, Comes1Key DEF d, u
<1>19. Sync(Append(q0, x), Tail(q1), c0, Renewed(d, k), u)
  BY <1>1, <1>2, <1>3, <1>4, <1>8, <1>14, <1>16, SyncKey DEF d, u
<1> QED
  BY <1>2, <1>10, <1>11, <1>12, <1>17, <1>18, <1>19 DEF InTime, BothIn, c0

LEMMA InTimeReadAnswer ==
    ASSUME TypeOK, TypeOK', InTime, Exchange, Apart, ReadAnswer
    PROVE  InTime'
<1> DEFINE q0 == canal[0]
           q1 == canal[1]
           c0 == capa[0]
           c1 == capa[1]
           v == visto[1]
           h == q0[1]
           d == After(c0, h)
           k == NextOf(oferta, c0)
<1>1. /\ q0 \in Seq(MessageType) /\ q1 \in Seq(MessageType) /\ c0 \in LayerType /\ c1 \in LayerType
      /\ v \in BOOLEAN /\ oferta \in Nat /\ 0 \in Sides /\ 1 \in Sides /\ 1 - 0 = 1 /\ 1 # 0
      /\ k \in Secret
  BY Parts
<1>2. /\ Hears(0) /\ Message(0).m = "cifrado" /\ fase[0] # "sola" /\ q0 # <<>>
      /\ fase' = fase /\ oferta' = 0 /\ Put(0, Tail(q0), <<>>)
      /\ visto' = [visto EXCEPT ![0] = @ \/ IsSealed(Message(0).sello)]
      /\ capa' = [capa EXCEPT
             ![0] = IF oferta = 0 THEN Opened(0)
                    ELSE Renewed(Opened(0), Decapsulated(Message(0).de))]
  BY DEF ReadAnswer, SeesLayer, Hears, Taken
<1>3. /\ Opened(0) = d /\ Message(0) = h /\ d \in LayerType /\ d.raiz = c0.raiz
      /\ h \in MessageType
  BY <1>1, <1>2, OpenedEnvio
<1>4. Rising(q0) /\ Comes0(q0, c0, oferta)
  BY <1>2 DEF InTime
<1>5. oferta # 0 /\ h.de = k /\ Comes0(Tail(q0), Renewed(d, k), 0)
  <2> HIDE DEF q0, c0, d
  <2> QED
    BY <1>1, <1>2, <1>3, <1>4, Comes0Answer
<1>6. capa'[0] = Renewed(d, k) /\ capa'[1] = c1
  <2>1. Decapsulated(Message(0).de) = k
    BY <1>3, <1>5 DEF Decapsulated, NextOf
  <2>2. capa' = [capa EXCEPT ![0] = Renewed(d, k)]
    BY <2>1, <1>2, <1>3, <1>5
  <2> QED
    BY <2>2, <1>1, SetLayer
<1>7. visto'[1] = v
  BY <1>1, <1>2, SetSeen
<1>8. canal'[0] = Tail(q0) /\ canal'[1] = q1
  BY <1>1, <1>2, ReadEmpty
<1>9. Rising(Tail(q0))
  BY <1>1, <1>2, <1>4, RisingKeeps
<1>10. BothIn => c1.raiz = Append(c0.raiz, k)
  <2>1. 1 \in 1 .. Len(q0)
    BY <1>1, <1>2, SeqPlaces
  <2>2. ~ NoneOf(q0, "cifrado")
    BY <2>1, <1>2, <1>3 DEF NoneOf
  <2> QED
    BY <2>2, ByRoots DEF Even
<1>11. BothIn => Sync(Tail(q0), q1, Renewed(d, k), c1, v)
  <2>1. BothIn => Sync(q0, q1, c0, c1, v)
    BY DEF InTime
  <2> HIDE DEF q0, q1, c0, c1, v, d, k
  <2> QED
    BY <2>1, <1>1, <1>2, <1>3, <1>10, SyncAnswer
<1> QED
  BY <1>2, <1>5, <1>6, <1>7, <1>8, <1>9, <1>11 DEF InTime, BothIn

LEMMA InTimeInit == Init => InTime
<1> SUFFICES ASSUME Init PROVE InTime
  OBVIOUS
<1> DEFINE none == [raiz |-> <<>>, n |-> 0]
           x == [m |-> "dato", de |-> <<0, 0>>, sello |-> none]
           y == [m |-> "llave", de |-> <<1, 0>>, sello |-> none]
<1>1. /\ canal[0] = <<>> /\ canal[1] = <<x, y>> /\ capa[0] = NoLayer /\ capa[1] = NoLayer
      /\ visto[1] = FALSE /\ oferta = 1
  <2>1. canal = [s \in Sides |-> IF s = 0 THEN <<>> ELSE <<x, y>>] /\ oferta = 1
    BY DEF Init
  <2>2. capa = [s \in Sides |-> NoLayer] /\ visto = [s \in Sides |-> FALSE]
    BY DEF Init
  <2> HIDE DEF x, y
  <2> QED
    BY <2>1, <2>2 DEF Sides
<1>2. /\ x.m = "dato" /\ y.m = "llave" /\ x.sello.raiz = <<>> /\ y.sello.raiz = <<>>
      /\ x.sello.n = 0 /\ y.sello.n = 0
      /\ ~ IsSealed(x.sello) /\ ~ IsSealed(y.sello)
  BY DEF IsSealed
<1>3. NoLayer.raiz = <<>> /\ NoLayer.recibo = 0 /\ 0 <= Skip
  BY BoundsAssumption DEF NoLayer
<1> HIDE DEF x, y
<1> DEFINE q == <<x, y>>
<1>4. Len(q) = 2 /\ q[1] = x /\ q[2] = y
  OBVIOUS
<1>5. \A i \in 1 .. Len(q) : (i = 1 /\ q[i] = x) \/ (i = 2 /\ q[i] = y)
  BY <1>4
<1> HIDE DEF q
<1>6. Rising(q)
  BY <1>5, <1>2 DEF Rising
<1>7. Comes1(q, NoLayer, FALSE)
  <2> SUFFICES ASSUME NEW i \in 1 .. Len(q)
               PROVE  /\ q[i].sello.n <= Skip
                      /\ q[i].m = "llave" => \A j \in 1 .. i - 1 : q[j].m # "llave"
                      /\ q[i].sello.raiz = NoLayer.raiz /\ Behind(NoLayer, q[i])
    BY DEF Comes1
  <2>1. /\ q[i].sello.n <= Skip /\ q[i].sello.raiz = NoLayer.raiz /\ ~ IsSealed(q[i].sello)
    BY <1>2, <1>3, <1>5
  <2>2. q[i].m = "llave" => i = 2
    BY <1>2, <1>5
  <2>3. q[i].m = "llave" => \A j \in 1 .. i - 1 : q[j].m # "llave"
    BY <2>2, <1>2, <1>4
  <2> QED
    BY <2>1, <2>3 DEF Behind
<1>8. Rising(<<>>) /\ Comes0(<<>>, NoLayer, 1)
  BY DEF Rising, Comes0
<1>9. Sync(<<>>, q, NoLayer, NoLayer, FALSE)
  <2>1. Below(q, NoLayer) /\ Below(<<>>, NoLayer)
    BY <1>2, <1>5 DEF Below
  <2>2. NoLayer.recibo <= NoLayer.envio
    BY DEF NoLayer
  <2> QED
    BY <2>1, <2>2 DEF Sync
<1> QED
  BY <1>1, <1>6, <1>7, <1>8, <1>9 DEF InTime, q

-----------------------------------------------------------------------------
\* What side 0 says on its own.
LEMMA InTimeSay0 ==
    ASSUME TypeOK, TypeOK', InTime, Exchange, fase[0] = "lista", fase' = fase, visto' = visto,
           oferta' = oferta \/ oferta = 0, NEW p \in Payload, p.m = "llave" => oferta = 0,
           Sends(0, canal[0], capa[0], <<p>>), capa[0].envio <= Skip,
           capa' = [capa EXCEPT ![0] = AfterSealing(0, capa[0], <<p>>)]
    PROVE  InTime'
<1>1. canal[0] \in Seq(MessageType) /\ capa[0] \in LayerType /\ 0 \in Sides /\ 1 \in Sides /\ 1 # 0
  BY Parts
<1>2. capa'[0] = AfterSealing(0, capa[0], <<p>>) /\ capa'[1] = capa[1]
  BY <1>1, SetLayer
<1>3. Sealing(capa[0], capa'[0])
  <2> DEFINE ps == <<p>>
  <2>1. Len(ps) \in Nat
    OBVIOUS
  <2>2. capa'[0] = AfterSealing(0, capa[0], ps)
    BY <1>2
  <2> HIDE DEF ps
  <2>3. Sealing(capa[0], AfterSealing(0, capa[0], ps))
    BY <2>1, <1>1, SealsKeeps
  <2> QED
    BY <2>2, <2>3
<1>4. EnMarcha(0) => capa'[0] = Used(capa[0])
  BY <1>1, <1>2, SealsOne
<1>5. /\ canal'[0] = canal[0]
      /\ \/ canal'[1] = canal[1]
         \/ /\ fase[1] # "sola" /\ EnMarcha(0)
            /\ canal'[1] = Append(canal[1], Carried(p, capa[0], capa[0].envio))
  BY <1>1, Side0Sends
<1> QED
  BY <1>2, <1>3, <1>4, <1>5, Send0

LEMMA InTimeGreet0 ==
    ASSUME TypeOK, TypeOK', InTime, Exchange, fase[0] = "lista", fase' = fase, visto' = visto,
           oferta = 0, NEW r \in Payload,
           Sends(0, canal[0], capa[0], <<Dato, r>>), capa[0].envio + 1 <= Skip,
           capa' = [capa EXCEPT ![0] = AfterSealing(0, capa[0], <<Dato, r>>)]
    PROVE  InTime'
<1>1. canal[0] \in Seq(MessageType) /\ capa[0] \in LayerType /\ 0 \in Sides /\ 1 \in Sides /\ 1 # 0
  BY Parts
<1>2. capa'[0] = AfterSealing(0, capa[0], <<Dato, r>>) /\ capa'[1] = capa[1]
  BY <1>1, SetLayer
<1>3. Sealing(capa[0], capa'[0])
  <2> DEFINE ps == <<Dato, r>>
  <2>1. Len(ps) \in Nat
    OBVIOUS
  <2>2. capa'[0] = AfterSealing(0, capa[0], ps)
    BY <1>2
  <2> HIDE DEF ps
  <2>3. Sealing(capa[0], AfterSealing(0, capa[0], ps))
    BY <2>1, <1>1, SealsKeeps
  <2> QED
    BY <2>2, <2>3
<1>4. EnMarcha(0) => capa'[0] = Used(Used(capa[0]))
  BY <1>1, <1>2, SealsTwo
<1>5. Dato \in Payload /\ Dato.m # "llave"
  BY DEF Dato, Payload, Secret
<1>6. /\ canal'[0] = canal[0]
      /\ \/ canal'[1] = canal[1]
         \/ /\ fase[1] # "sola" /\ EnMarcha(0)
            /\ canal'[1] = Append(Append(canal[1], Carried(Dato, capa[0], capa[0].envio)),
                                  Carried(r, Used(capa[0]), Used(capa[0]).envio))
  BY <1>1, <1>5, Side0SendsTwo
<1>7. capa[0].envio <= Skip /\ Used(capa[0]).envio <= Skip
  <2>1. capa[0].envio \in Nat
    BY <1>1, EnvioNat
  <2>2. capa[0].envio <= Skip
    BY <2>1, BoundsAssumption
  <2>3. Used(capa[0]).envio = capa[0].envio + 1 \/ Used(capa[0]) = capa[0]
    BY <1>1, UsedKeeps DEF Used
  <2> QED
    BY <2>2, <2>3
<1> QED
  BY <1>2, <1>3, <1>4, <1>5, <1>6, <1>7, Send0

\* What side 1 says on its own.
LEMMA InTimeSay1 ==
    ASSUME TypeOK, TypeOK', InTime, Exchange, Apart, fase[1] # "sola", fase' = fase,
           visto' = visto, oferta' = oferta, Sends(1, canal[1], capa[1], <<Dato>>),
           capa[1].envio <= Skip,
           capa' = [capa EXCEPT ![1] = AfterSealing(1, capa[1], <<Dato>>)]
    PROVE  InTime'
<1>1. canal[1] \in Seq(MessageType) /\ capa[1] \in LayerType /\ 0 \in Sides /\ 1 \in Sides /\ 1 # 0
  BY Parts
<1>2. capa'[1] = AfterSealing(1, capa[1], <<Dato>>) /\ capa'[0] = capa[0]
  BY <1>1, SetLayer
<1>3. Sealing(capa[1], capa'[1])
  <2> DEFINE ps == <<Dato>>
  <2>1. Len(ps) \in Nat
    OBVIOUS
  <2>2. capa'[1] = AfterSealing(1, capa[1], ps)
    BY <1>2
  <2> HIDE DEF ps
  <2>3. Sealing(capa[1], AfterSealing(1, capa[1], ps))
    BY <2>1, <1>1, SealsKeeps
  <2> QED
    BY <2>2, <2>3
<1>4. EnMarcha(1) => capa'[1] = Used(capa[1])
  BY <1>1, <1>2, SealsOne
<1>5. Dato \in Payload /\ Dato.m # "cifrado"
  BY DEF Dato, Payload, Secret
<1>6. /\ canal'[1] = canal[1]
      /\ \/ canal'[0] = canal[0]
         \/ /\ fase[0] # "sola" /\ EnMarcha(1)
            /\ canal'[0] = Append(canal[0], Carried(Dato, capa[1], capa[1].envio))
  BY <1>1, <1>5, Side1Sends
<1>7. /\ Rising(canal[1]) /\ Comes1(canal[1], capa[1], visto[1]) /\ fase[0] # "abriendo"
      /\ BothIn => Sync(canal[0], canal[1], capa[0], capa[1], visto[1])
  BY DEF InTime, Apart
<1> QED
  BY <1>1, <1>2, <1>3, <1>4, <1>5, <1>6, <1>7, Send1

\* A farewell is neither sealed nor of the exchange: what comes after it is as it was.
LEMMA Farewell ==
    ASSUME NEW q \in Seq(MessageType), NEW x \in MessageType, ~ Said(x), NEW c, NEW o, NEW v
    PROVE  /\ Append(q, x) \in Seq(MessageType)
           /\ Rising(q) => Rising(Append(q, x))
           /\ Comes0(q, c, o) => Comes0(Append(q, x), c, o)
           /\ Comes1(q, c, v) => Comes1(Append(q, x), c, v)
<1>1. ~ IsSealed(x.sello)
  BY DEF Said
<1>2. Append(q, x) \in Seq(MessageType)
  BY SeqPlaces
<1>3. Rising(q) => Rising(Append(q, x))
  BY <1>1, RisingKeeps
<1>4. Comes0(q, c, o) => Comes0(Append(q, x), c, o)
  BY Comes0Add
<1>5. Comes1(q, c, v) => Comes1(Append(q, x), c, v)
  BY Comes1Add
<1> QED
  BY <1>2, <1>3, <1>4, <1>5

Farewells == {<<>>, <<Frame("adios")>>, <<Frame("destruir"), Frame("adios")>>}

LEMMA FarewellsKeep ==
    ASSUME NEW q \in Seq(MessageType), NEW frames \in Farewells, NEW c, NEW o, NEW v
    PROVE  /\ q \o frames \in Seq(MessageType)
           /\ Rising(q) => Rising(q \o frames)
           /\ Comes0(q, c, o) => Comes0(q \o frames, c, o)
           /\ Comes1(q, c, v) => Comes1(q \o frames, c, v)
<1> DEFINE x == Frame("adios")
           y == Frame("destruir")
<1>1. x \in MessageType /\ y \in MessageType
  BY FrameType
<1>2. ~ Said(x) /\ ~ Said(y)
  BY DEF Said, Frame, IsSealed
<1>3. frames = <<>> \/ frames = <<x>> \/ frames = <<y, x>>
  BY DEF Farewells
<1> HIDE DEF x, y
<1>4. CASE frames = <<>>
  <2>1. q \o <<>> = q
    OBVIOUS
  <2> QED
    BY <1>4, <2>1
<1>5. CASE frames = <<x>>
  <2>1. q \o <<x>> = Append(q, x)
    BY <1>1
  <2> QED
    BY <1>1, <1>2, <1>5, <2>1, Farewell
<1>6. CASE frames = <<y, x>>
  <2> DEFINE w == Append(q, y)
  <2>1. q \o <<y, x>> = Append(w, x)
    BY <1>1
  <2>2. /\ w \in Seq(MessageType) /\ (Rising(q) => Rising(w))
        /\ Comes0(q, c, o) => Comes0(w, c, o)
        /\ Comes1(q, c, v) => Comes1(w, c, v)
    BY <1>1, <1>2, Farewell
  <2> HIDE DEF w
  <2>3. /\ Append(w, x) \in Seq(MessageType) /\ (Rising(w) => Rising(Append(w, x)))
        /\ Comes0(w, c, o) => Comes0(Append(w, x), c, o)
        /\ Comes1(w, c, v) => Comes1(Append(w, x), c, v)
    BY <2>2, <1>1, <1>2, Farewell
  <2> QED
    BY <1>6, <2>1, <2>2, <2>3
<1> QED
  BY <1>3, <1>4, <1>5, <1>6

\* A side that is left alone: what travels to the other one is still what it can open.
LEMMA InTimeCloses ==
    ASSUME TypeOK, InTime, NEW s \in Sides, NEW frames \in Farewells, NEW left,
           Closes(s, frames, left)
    PROVE  InTime'
<1> PICK o \in Sides : o # s /\ o = 1 - s
  BY OtherSide DEF Sides
<1>1. canal[o] \in Seq(MessageType)
  BY DEF TypeOK
<1>2. canal'[o] = canal[o] \/ canal'[o] = canal[o] \o frames
  BY DEF Closes, Put
<1>3. /\ fase' = [fase EXCEPT ![s] = "sola"] /\ capa' = [capa EXCEPT ![s] = left]
      /\ visto' = [visto EXCEPT ![s] = FALSE] /\ oferta' = IF s = 0 THEN 0 ELSE oferta
  BY DEF Closes
<1>4. /\ fase \in [Sides -> {"abriendo", "lista", "sola"}] /\ capa \in [Sides -> LayerType]
      /\ visto \in [Sides -> BOOLEAN]
  BY DEF TypeOK
<1>5. /\ fase'[s] = "sola" /\ fase'[o] = fase[o] /\ capa'[o] = capa[o] /\ visto'[o] = visto[o]
      /\ s # 0 => oferta' = oferta
  BY <1>3, <1>4
<1>6. \A c, m, v :
          /\ Rising(canal[o]) => Rising(canal'[o])
          /\ Comes0(canal[o], c, m) => Comes0(canal'[o], c, m)
          /\ Comes1(canal[o], c, v) => Comes1(canal'[o], c, v)
  BY <1>1, <1>2, FarewellsKeep
<1>7. CASE s = 0 /\ o = 1
  <2>1. fase'[0] = "sola" /\ fase'[1] = fase[1] /\ capa'[1] = capa[1] /\ visto'[1] = visto[1]
    BY <1>5, <1>7
  <2>2. fase[1] # "sola" => Rising(canal[1]) /\ Comes1(canal[1], capa[1], visto[1])
    BY DEF InTime
  <2>3. fase[1] # "sola" => Rising(canal'[1]) /\ Comes1(canal'[1], capa[1], visto[1])
    BY <2>2, <1>6, <1>7
  <2>4. ~ BothIn'
    BY <2>1 DEF BothIn
  <2> QED
    BY <2>1, <2>3, <2>4 DEF InTime
<1>8. CASE s = 1 /\ o = 0
  <2>1. fase'[1] = "sola" /\ fase'[0] = fase[0] /\ capa'[0] = capa[0] /\ oferta' = oferta
    BY <1>5, <1>8
  <2>2. fase[0] # "sola" => Rising(canal[0]) /\ Comes0(canal[0], capa[0], oferta)
    BY DEF InTime
  <2>3. fase[0] # "sola" => Rising(canal'[0]) /\ Comes0(canal'[0], capa[0], oferta)
    BY <2>2, <1>6, <1>8
  <2>4. ~ BothIn'
    BY <2>1 DEF BothIn
  <2> QED
    BY <2>1, <2>3, <2>4 DEF InTime
<1> QED
  BY <1>7, <1>8 DEF Sides

\* The network takes the tails: an answer it takes is known to be lost.
LEMMA InTimeDrop ==
    ASSUME TypeOK, InTime, Drop, "cifrado" \notin perdidas'
    PROVE  InTime'
<1>1. PICK kept \in [Sides -> 0 .. Len(canal[0]) + Len(canal[1])] :
          /\ \A s \in Sides : kept[s] <= Len(canal[s])
          /\ canal' = [s \in Sides |-> SubSeq(canal[s], 1, kept[s])]
          /\ perdidas' = perdidas \cup
                 UNION {Kinds(SubSeq(canal[s], kept[s] + 1, Len(canal[s]))) : s \in Sides}
  BY DEF Drop
<1> DEFINE n0 == kept[0]
           n1 == kept[1]
           q0 == canal[0]
           q1 == canal[1]
<1>2. /\ q0 \in Seq(MessageType) /\ q1 \in Seq(MessageType) /\ capa[0] \in LayerType
      /\ capa[1] \in LayerType /\ 0 \in Sides /\ 1 \in Sides
  BY Parts
<1>3. n0 \in 0 .. Len(q0) /\ n1 \in 0 .. Len(q1)
  <2>1. Len(q0) \in Nat /\ Len(q1) \in Nat
    BY <1>2, SeqPlaces
  <2>2. n0 \in 0 .. Len(q0) + Len(q1) /\ n1 \in 0 .. Len(q0) + Len(q1)
    BY <1>1, <1>2
  <2>3. n0 <= Len(q0) /\ n1 <= Len(q1)
    BY <1>1, <1>2
  <2> QED
    BY <2>1, <2>2, <2>3
<1>4. canal'[0] = SubSeq(q0, 1, n0) /\ canal'[1] = SubSeq(q1, 1, n1)
  BY <1>1, <1>2
<1>5. fase' = fase /\ capa' = capa /\ visto' = visto /\ oferta' = oferta
  BY DEF Drop
<1>6. NoneOf(SubSeq(q0, 1, n0), "cifrado") => NoneOf(q0, "cifrado")
  <2> SUFFICES ASSUME NoneOf(SubSeq(q0, 1, n0), "cifrado"),
                      NEW i \in 1 .. Len(q0), q0[i].m = "cifrado"
               PROVE  FALSE
    BY DEF NoneOf
  <2> DEFINE d == SubSeq(q0, n0 + 1, Len(q0))
  <2>1. Kinds(d) \subseteq perdidas'
    BY <1>1, <1>2
  <2>2. ~ i \in 1 .. n0
    <3>1. \A j \in 1 .. n0 : SubSeq(q0, 1, n0)[j] = q0[j] /\ Len(SubSeq(q0, 1, n0)) = n0
      BY <1>2, <1>3, SeqPlaces
    <3> QED
      BY <3>1 DEF NoneOf
  <2>3. i - n0 \in 1 .. Len(d) /\ d[i - n0] = q0[i]
    <3> HIDE DEF q0, n0
    <3> QED
      BY <1>2, <1>3, <2>2
  <2>4. "cifrado" \in Kinds(d)
    <3> HIDE DEF d
    <3> QED
      BY <2>3 DEF Kinds
  <2> QED
    BY <2>1, <2>4
<1> HIDE DEF n0, n1
<1>7. \A c, o, v :
         /\ Rising(q0) => Rising(SubSeq(q0, 1, n0))
         /\ Rising(q1) => Rising(SubSeq(q1, 1, n1))
         /\ Comes0(q0, c, o) => Comes0(SubSeq(q0, 1, n0), c, o)
         /\ Comes1(q1, c, v) => Comes1(SubSeq(q1, 1, n1), c, v)
  BY <1>2, <1>3, RisingKeeps, Comes0Cut, Comes1Cut
<1>8. BothIn => Sync(SubSeq(q0, 1, n0), SubSeq(q1, 1, n1), capa[0], capa[1], visto[1])
  <2>1. BothIn => Sync(q0, q1, capa[0], capa[1], visto[1])
    BY DEF InTime
  <2> HIDE DEF q0, q1
  <2> QED
    BY <2>1, <1>2, <1>3, <1>6, SyncCut
<1>9. /\ fase[0] # "sola" => Rising(q0) /\ Comes0(q0, capa[0], oferta)
      /\ fase[1] # "sola" => Rising(q1) /\ Comes1(q1, capa[1], visto[1])
  BY DEF InTime
<1> QED
  BY <1>4, <1>5, <1>7, <1>8, <1>9 DEF InTime, BothIn

\* What was lost is not forgotten.
LEMMA LostGrows == [Next]_vars => perdidas \subseteq perdidas'
<1> SUFFICES ASSUME [Next]_vars PROVE perdidas \subseteq perdidas'
  OBVIOUS
<1>1. ASSUME NEW s \in Sides, NEW mine, NEW c, NEW ps, Sends(s, mine, c, ps)
      PROVE  perdidas \subseteq perdidas'
  BY <1>1 DEF Sends
<1>2. CASE UNCHANGED vars
  BY <1>2 DEF vars, history
<1>3. 0 \in Sides /\ 1 \in Sides
  BY DEF Sides
<1>4. CASE ReadFirst \/ ReadKey \/ Renew \/ \E s \in Sides : Say(s) \/ Resume(s)
  BY <1>1, <1>3, <1>4 DEF ReadFirst, ReadKey, Renew, Say, Resume
<1>5. CASE ReadKeyFails \/ Drop
  BY <1>5 DEF ReadKeyFails, Drop
<1>6. CASE ReadAnswer \/ Meet
  BY <1>6 DEF ReadAnswer, Meet, history
<1>7. ASSUME NEW s \in Sides,
             \/ ReadData(s) \/ Discard(s) \/ Refuse(s) \/ ReadEnd(s) \/ Notice(s)
             \/ Pause(s) \/ Continue(s) \/ Close(s) \/ SendFails(s) \/ GiveUp(s)
      PROVE  perdidas \subseteq perdidas'
  BY <1>7 DEF ReadData, Discard, Refuse, ReadEnd, Notice, Pause, Continue, Close, SendFails,
              GiveUp, history
<1> QED
  BY <1>2, <1>4, <1>5, <1>6, <1>7 DEF Next, Reads

Unblamed == ~ tirado /\ \A s \in Sides : alarma[s] = ""

\* While everything can be opened in time no side throws a message away nor blames the other.
LEMMA UnblamedStep == TypeOK /\ InTime /\ Unblamed /\ [Next]_vars => Unblamed'
<1> SUFFICES ASSUME TypeOK, InTime, Unblamed, [Next]_vars PROVE Unblamed'
  OBVIOUS
<1>1. ASSUME NEW s \in Sides, Discard(s) PROVE FALSE
  <2>1. /\ Hears(s) /\ IsSealed(Message(s).sello) /\ ~ HasLayer(capa[s])
    BY <1>1 DEF Discard
  <2>2. Said(Message(s))
    BY <2>1 DEF Said
  <2> QED
    BY <2>1, <2>2, CanOpen
<1>2. ASSUME NEW s \in Sides, Refuse(s) PROVE FALSE
  <2>1. /\ Hears(s) /\ Message(s).m \notin {"adios", "destruir"} /\ ~ Passes(s)
    BY <1>2 DEF Refuse
  <2>2. Said(Message(s))
    BY <2>1 DEF Said
  <2> QED
    BY <2>1, <2>2, CanOpen
<1>3. CASE UNCHANGED <<alarma, tirado>>
  BY <1>3 DEF Unblamed
<1>4. CASE UNCHANGED vars
  BY <1>3, <1>4 DEF vars, history
<1>5. CASE ReadFirst \/ ReadKey \/ Renew \/ ReadKeyFails \/ Drop \/ ReadAnswer \/ Meet
  BY <1>3, <1>5 DEF ReadFirst, ReadKey, Renew, ReadKeyFails, Drop, ReadAnswer, Meet, history
<1>6. ASSUME NEW s \in Sides,
             \/ ReadData(s) \/ ReadEnd(s) \/ Notice(s) \/ Say(s) \/ Resume(s)
             \/ Pause(s) \/ Continue(s) \/ Close(s) \/ SendFails(s) \/ GiveUp(s)
      PROVE  Unblamed'
  BY <1>3, <1>6 DEF ReadData, ReadEnd, Notice, Say, Resume, Pause, Continue, Close, SendFails,
                    GiveUp, history
<1> QED
  BY <1>1, <1>2, <1>4, <1>5, <1>6 DEF Next, Reads

LEMMA InTimeStep ==
    ASSUME Reach, TypeOK, TypeOK', Exchange, Numbers, Apart, InTime, [Next]_vars,
           "cifrado" \notin perdidas'
    PROVE  InTime'
<1>1. /\ 0 \in Sides /\ 1 \in Sides /\ oferta \in Nat /\ count.offers \in Nat
      /\ capa[0] \in LayerType /\ capa[1] \in LayerType
  BY Parts, CountParts
<1>2. \A s \in Sides : capa[s].envio \in Nat /\ Links(s) \in {0, 1, 2}
                       /\ capa[s].envio + Links(s) <= Skip
  BY SkipReaches, CountParts
<1>3. capa[0].envio <= Skip /\ capa[1].envio <= Skip
  BY <1>1, <1>2, BoundsAssumption
<1>4. Dato \in Payload /\ Dato.m # "llave"
  BY DEF Dato, Payload, Secret
<1>5. \A o \in Nat : Llave(o) \in Payload
  BY PayloadTypes
<1>6. fase \in [Sides -> {"abriendo", "lista", "sola"}] /\ fase[0] # "abriendo"
  BY DEF TypeOK, Apart
\* Nothing is said: what was there is there.
<1>7. ASSUME fase' = fase, canal' = canal, capa' = capa, visto' = visto, oferta' = oferta
      PROVE  InTime'
  BY <1>7 DEF InTime, BothIn
<1>8. ASSUME NEW s \in Sides, NEW frames \in Farewells, NEW left, Closes(s, frames, left)
      PROVE  InTime'
  BY <1>8, InTimeCloses
<1>9. CASE ReadFirst
  BY <1>9, InTimeReadFirst
<1>10. CASE ReadKey
  BY <1>3, <1>10, InTimeReadKey
<1>11. CASE ReadAnswer
  BY <1>11, InTimeReadAnswer
<1>12. CASE Drop
  BY <1>12, InTimeDrop
<1>13. ASSUME NEW s \in Sides, ReadData(s) PROVE InTime'
  BY <1>13, InTimeReadData0, InTimeReadData1 DEF Sides
<1>14. ASSUME NEW s \in Sides, Discard(s) \/ Refuse(s) PROVE InTime'
  <2>1. /\ Hears(s) /\ Said(Message(s))
        /\ ~ Passes(s) \/ (IsSealed(Message(s).sello) /\ ~ HasLayer(capa[s]))
    BY <1>14 DEF Discard, Refuse, Said
  <2> QED
    BY <2>1, CanOpen
<1>15. CASE Renew
  <2> DEFINE p == Llave(count.offers + 1)
  <2>1. /\ fase[0] = "lista" /\ fase' = fase /\ visto' = visto /\ oferta = 0
        /\ Sends(0, canal[0], capa[0], <<p>>)
        /\ capa' = [capa EXCEPT ![0] = AfterSealing(0, capa[0], <<p>>)]
    BY <1>15 DEF Renew, Lista, MayOffer
  <2>2. p \in Payload
    BY <1>1, <1>5
  <2> HIDE DEF p
  <2> QED
    BY <2>1, <2>2, <1>3, InTimeSay0
<1>16. ASSUME NEW s \in Sides, Say(s) PROVE InTime'
  <2>1. /\ fase[s] = "lista" /\ fase' = fase /\ visto' = visto /\ oferta' = oferta
        /\ Sends(s, canal[s], capa[s], <<Dato>>)
        /\ capa' = [capa EXCEPT ![s] = AfterSealing(s, capa[s], <<Dato>>)]
    BY <1>16 DEF Say, Lista
  <2>2. CASE s = 0
    BY <2>1, <2>2, <1>3, <1>4, InTimeSay0
  <2>3. CASE s = 1
    BY <2>1, <2>3, <1>3, InTimeSay1
  <2> QED
    BY <2>2, <2>3 DEF Sides
<1>17. ASSUME NEW s \in Sides, Resume(s) PROVE InTime'
  <2>1. enlace[s] = "nuevo" /\ fase' = fase /\ visto' = visto
    BY <1>17 DEF Resume
  <2>2. fase[s] # "sola"
    BY <2>1 DEF TypeOK
  <2>3. CASE s = 0 /\ oferta = 0
    <3> DEFINE p == Llave(count.offers + 1)
    <3>1. /\ Sends(0, canal[0], capa[0], <<Dato, p>>)
          /\ capa' = [capa EXCEPT ![0] = AfterSealing(0, capa[0], <<Dato, p>>)]
      BY <1>17, <2>3 DEF Resume, MayOffer
    <3>2. p \in Payload
      BY <1>1, <1>5
    <3>3. capa[0].envio + 1 <= Skip
      <4>1. Links(0) # 0
        BY <2>1, <2>3 DEF Links
      <4> DEFINE l == Links(0)
                 b == capa[0].envio
      <4>2. l \in {1, 2} /\ b \in Nat /\ b + l <= Skip
        BY <1>1, <1>2, <4>1
      <4> HIDE DEF l, b
      <4>3. b + 1 <= Skip
        BY <4>2, BoundsAssumption
      <4> QED
        BY <4>3 DEF b
    <3>4. fase[0] = "lista"
      BY <1>1, <1>6, <2>2, <2>3
    <3> HIDE DEF p
    <3> QED
      BY <2>1, <2>3, <3>1, <3>2, <3>3, <3>4, InTimeGreet0
  <2>4. CASE s = 0 /\ oferta # 0
    <3>1. /\ Sends(0, canal[0], capa[0], <<Dato>>) /\ oferta' = oferta
          /\ capa' = [capa EXCEPT ![0] = AfterSealing(0, capa[0], <<Dato>>)]
      BY <1>17, <2>4 DEF Resume, MayOffer
    <3>2. fase[0] = "lista"
      BY <1>1, <1>6, <2>2, <2>4
    <3> QED
      BY <2>1, <3>1, <3>2, <1>3, <1>4, InTimeSay0
  <2>5. CASE s = 1
    <3>1. /\ Sends(1, canal[1], capa[1], <<Dato>>) /\ oferta' = oferta
          /\ capa' = [capa EXCEPT ![1] = AfterSealing(1, capa[1], <<Dato>>)]
      BY <1>17, <2>5 DEF Resume
    <3> QED
      BY <2>1, <2>2, <2>5, <3>1, <1>3, InTimeSay1
  <2> QED
    BY <2>3, <2>4, <2>5 DEF Sides
<1>18. ASSUME NEW s \in Sides,
              Pause(s) \/ Continue(s) \/ (Notice(s) /\ fase[s] = "lista")
       PROVE  InTime'
  BY <1>7, <1>18 DEF Pause, Continue, Notice
<1>19. ASSUME NEW s \in Sides,
              ReadEnd(s) \/ Close(s) \/ SendFails(s) \/ GiveUp(s)
                  \/ (Notice(s) /\ fase[s] # "lista")
       PROVE  InTime'
  BY <1>8, <1>19 DEF ReadEnd, Close, SendFails, GiveUp, Notice, Farewells
<1>20. CASE ReadKeyFails
  BY <1>1, <1>8, <1>20 DEF ReadKeyFails, Farewells
<1>21. CASE Meet \/ UNCHANGED vars
  BY <1>7, <1>21 DEF Meet, vars
<1> QED
  BY <1>9, <1>10, <1>11, <1>12, <1>13, <1>14, <1>15, <1>16, <1>17, <1>18, <1>19, <1>20, <1>21
     DEF Next, Reads

-----------------------------------------------------------------------------
\* cuantico.rs:112-114, 247-297 and 300-345: while no more is said in the whole talk than a
\* layer skips, a renewal in the middle of it refuses nothing and throws nothing away, in
\* whatever order the two sides read, stop, drop and meet again, unless an answer of side 1
\* was lost or never left.
THEOREM NothingIsRefused == ASSUME Reach PROVE Spec => []NothingRefused
<1> DEFINE Good ==
        /\ Exchange /\ Numbers /\ Apart
        /\ "cifrado" \notin perdidas => InTime /\ Unblamed
<1>1. Init => Good
  <2>1. Init => Unblamed
    BY DEF Init, Unblamed
  <2> QED
    BY <2>1, ExchangeInit, NumbersInit, ApartInit, InTimeInit
<1>2. TypeOK /\ TypeOK' /\ Good /\ [Next]_vars => Good'
  <2> SUFFICES ASSUME TypeOK, TypeOK', Good, [Next]_vars PROVE Good'
    OBVIOUS
  <2>1. Exchange' /\ Numbers' /\ Apart'
    BY ExchangeStep, NumbersStep, ApartStep
  <2>2. ASSUME "cifrado" \notin perdidas' PROVE InTime' /\ Unblamed'
    <3>1. InTime /\ Unblamed
      BY <2>2, LostGrows
    <3> QED
      BY <2>2, <3>1, InTimeStep, UnblamedStep
  <2> QED
    BY <2>1, <2>2
<1>3. Good => NothingRefused
  BY DEF NothingRefused, Unblamed
<1> QED
  BY <1>1, <1>2, <1>3, TypeCorrect, PTL DEF Spec
=============================================================================
