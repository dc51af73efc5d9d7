--------------------------- MODULE DeliveryProofs ---------------------------
(***************************************************************************)
(* What holds of a delivery for every number of tabs, files and wrong      *)
(* codes: the state keeps its type, an end leaves no keys and no file of   *)
(* the delivery's list, and, while a pause of the thread outlasts a tick,  *)
(* one receiver alone gets in and a receipt is earned.                     *)
(*                                                                         *)
(* The type invariant is Shape.  What an end leaves needs what the disk    *)
(* has of it (ForgetsInv), that a delivery that is being filled has nobody *)
(* at its door (Idle) and which files may lie outside the list (Listed).   *)
(* The other two need the conversation itself:                             *)
(* that a tab has one question or one answer on its way (Turns), that what *)
(* is on its way is of the tab at the other end of the link (Owners), and  *)
(* who was given the token of each life of the program and what is saved   *)
(* of it (Tokens).  On these rest what was confirmed is at the tab that    *)
(* has the token (Confirmations) and the two copies of the receipt agree   *)
(* (Receipts).                                                             *)
(***************************************************************************)
EXTENDS Delivery, SequenceTheorems, FiniteSetTheorems, TLAPS

Pieces == 1 .. MaxArchivos

\* What the program says to the thread, what the thread says to the program, and what
\* goes in each direction of the link.
CodeType == [t : {"codigo"}, bien : BOOLEAN, token : 0 .. 2, de : Tabs]

Answer ==
    [t : {"fin", "mal", "recibo"}] \cup [t : {"bien"}, token : 1 .. 2, de : Tabs]
        \cup [t : {"final"}, recibo : {"solo", "dos"}]

Word == [t : {"acuse", "manipulado"}] \cup CodeType \cup [t : {"recibido"}, i : Pieces]

FrameUp == [t : {"acuse", "rota"}] \cup CodeType \cup [t : {"recibido", "pide"}, i : Pieces]

FrameDown == Answer \cup [t : {"trozo"}, i : Pieces]

PageType ==
    [at : {"fuera", "entra", "espera", "abierta"}, token : 0 .. 2, tiene : SUBSET Pieces,
     dicho : SUBSET Pieces, recibo : {"no", "solo", "dos"}, fin : BOOLEAN]

\* A delivery that lives has attempts left.
AttemptsLeft(d) == d.estado \in Viva => d.fallos < INTENTOS

DiskType == [e : DeliveryType, claves : BOOLEAN, recibo : {"no", "solo", "dos"}]

StepNames == {"", "mal", "nada", "preparando", "esperando", "abierta"} \cup Ended

DeliveryShape ==
    /\ up \in BOOLEAN /\ e \in DeliveryType /\ AttemptsLeft(e)
    /\ disco \in DiskType /\ AttemptsLeft(disco.e)
    /\ acuse \in {"no", "espera", "vence"} /\ recibo \in {"no", "solo", "dos"}
    /\ paso \in StepNames
    /\ claves \in BOOLEAN /\ sellados \subseteq Pieces /\ carga \in BOOLEAN
    /\ carga => up /\ e.archivos < MaxArchivos

TalkShape ==
    /\ hilo \in BOOLEAN /\ alHilo \in Seq(Answer) /\ delHilo \in Seq(Word) /\ lote \in Seq(Word)
    /\ sube \in Seq(FrameUp) /\ baja \in Seq(FrameDown) /\ roto \in BOOLEAN
    /\ fase \in {"no", "rele", "sirve", "pausa"} /\ tab \in Tabs \cup {None}
    /\ autorizado \in BOOLEAN /\ perdido \in BOOLEAN
    /\ pag \in [Tabs -> PageType] /\ dado \subseteq Tabs
    /\ \A t \in Tabs : pag[t].dicho \subseteq pag[t].tiene

Shape == DeliveryShape /\ TalkShape

Here(t) == pag[t].at # "fuera"

\* A delivery that is being filled has nobody at its door, a program that died left
\* nothing on its way, and there is no link without its thread.
Idle ==
    /\ up /\ e.estado = "preparando" =>
        /\ e.receptor = 0 /\ e.recibidos = {} /\ fase = "no" /\ alHilo = <<>>
        /\ delHilo = <<>> /\ lote = <<>> /\ sube = <<>> /\ baja = <<>>
        /\ \A t \in Tabs : pag[t].token = 0 /\ ~ Here(t) /\ pag[t].recibo = "no"
    /\ ~ up =>
        /\ lote = <<>> /\ alHilo = <<>> /\ delHilo = <<>> /\ sube = <<>> /\ baja = <<>>
        /\ paso = "" /\ fase = "no" /\ "caida" \in faults
    /\ fase # "sirve" => roto

Untold == notas \cap {"tarde", "llenando", "firma"} = {}

\* What an end leaves, and what of it is saved.
Emptied ==
    /\ carga => up /\ e.estado = "preparando"
    /\ acuse # "no" => up /\ e.estado = "entregada" /\ recibo = "no"
    /\ up /\ recibo # "no" => e.estado = "entregada"
    /\ disco.recibo # "no" => disco.e.estado = "entregada"
    /\ up /\ e.estado = "preparando" => disco.e.estado \in {"nada", "preparando"}
    /\ disco.e.estado \in Ended /\ Untold
          /\ ~ (disco.e.estado = "entregada" /\ disco.recibo = "no")
       => ~ disco.claves /\ sellados \cap Files(disco.e) = {}
    /\ up /\ paso = "" => disco.claves = claves

\* A delivery that was offered has only the files of its list; the one going in while
\* it is filled comes next.
Offered == {"esperando", "abierta", "entregada", "destruida"}

Listed ==
    /\ up /\ e.estado = "preparando" /\ ~ carga => sellados \subseteq Files(e)
    /\ up /\ carga => sellados \subseteq Files(e) \cup {e.archivos + 1}
    /\ up /\ e.estado \in Offered => sellados \subseteq Files(e)
    /\ disco.e.estado \in Offered => sellados \subseteq Files(disco.e)

EndsEmpty ==
    up /\ e.estado \in Ended /\ acuse = "no" /\ Untold
        => ~ claves /\ sellados \cap Files(e) = {}

ForgetsInv == Emptied /\ EndsEmpty

-----------------------------------------------------------------------------
\* What is in a queue, whether something of some kinds is, and whether one at most.
In(q) == {q[k] : k \in DOMAIN q}

Some(q, kinds) == \E m \in In(q) : m.t \in kinds

One(q, kinds) == \A k, l \in DOMAIN q : q[k].t \in kinds /\ q[l].t \in kinds => k = l

Code == {"codigo"}
Result == {"bien", "mal"}

Asks(q) == Some(q, Code)
Replies(q) == Some(q, Result)
Answered == Replies(alHilo) \/ Replies(baja)

\* While a code may be tried the thread is there, and its tab has one question on its
\* way or one answer, and none of them while it may ask.  The thread waits for a tab
\* with nothing left to handle.
Turns ==
    up /\ MayTry(e) =>
        /\ hilo /\ fase # "no"
        /\ One(sube, Code) /\ One(delHilo, Code) /\ One(lote, Code) /\ One(baja, Result)
        /\ Asks(lote) => ~ Asks(delHilo) /\ ~ Asks(sube) /\ ~ Answered
        /\ Asks(delHilo) => ~ Asks(sube) /\ ~ Answered
        /\ Asks(sube) => ~ Answered
        /\ Replies(alHilo) => ~ Replies(baja)
        /\ alHilo # <<>> => Replies(alHilo) /\ Tail(alHilo) = <<>>
        /\ fase = "rele" => ~ Asks(delHilo) /\ ~ Asks(lote) /\ alHilo = <<>>
        /\ \A t \in Tabs : pag[t].at = "entra" /\ ~ roto =>
              ~ Asks(sube) /\ ~ Asks(delHilo) /\ ~ Asks(lote) /\ ~ Answered

\* Who is at the other end of the link.
OneAtATime == \A t, u \in Tabs : Here(t) /\ Here(u) => t = u

Bien(q) == {m \in In(q) : m.t = "bien"}

\* Only its first message may be the answer to a right code.
FirstOnly(q) == \A k \in DOMAIN q : q[k].t = "bien" => k = 1

Codigos == {m \in In(sube) \cup In(delHilo) \cup In(lote) : m.t = "codigo"}

Owners ==
    /\ OneAtATime
    /\ fase = "sirve" =>
        /\ tab \in Tabs /\ (\A t \in Tabs : Here(t) => t = tab) /\ (~ roto => Here(tab))
        /\ \A m \in Bien(alHilo) : m.de = tab
    /\ fase = "rele" => Bien(alHilo) = {}
    /\ FirstOnly(alHilo)
    /\ \A m \in Bien(baja) : Here(m.de)
    /\ up /\ MayTry(e) =>
          \A m \in Codigos : m.token = pag[m.de].token /\ (fase = "sirve" => m.de = tab)

-----------------------------------------------------------------------------
\* The answers to a right code that are on their way; a tab holds the token of a life,
\* or is to be told it.
Promises == Bien(alHilo) \cup Bien(baja)

Holds(n, t) == pag[t].token = n \/ \E m \in Promises : m.de = t /\ m.token = n

Nobody(n) == \A t \in Tabs : ~ Holds(n, t)

KnownTo(n) == perdido \/ \E t \in dado : Holds(n, t)

Blamed(d) == d.motivo = "dispositivo_nuevo" => perdido \/ \E t, u \in dado : t # u

\* The disk is behind the program by a step at most.
Behind ==
    /\ up => disco.e.receptor \in {0, e.receptor}
    /\ up /\ e.estado = "nada" => disco.e.estado = "nada"

\* A token is for a tab that gave the code, and for one.
Given ==
    /\ IsFiniteSet(dado)
    /\ \A t \in Tabs : Opened(t) => t \in dado
    /\ \A m \in Promises : m.de \in dado /\ (up => e.estado = "nada" \/ m.token = e.receptor)
    /\ \A n \in 1 .. 2 : \A t, u \in Tabs : Holds(n, t) /\ Holds(n, u) => t = u

\* Nobody has the token that the next right code makes, nor has anybody the other one
\* unless the program died with the first receiver not saved.
Fresh ==
    /\ ~ up \/ "caida" \notin faults \/ (MayTry(e) /\ e.receptor = 0) => Nobody(2)
    /\ up /\ MayTry(e) /\ e.receptor = 0 /\ ("caida" \notin faults \/ "abierta" \notin notas)
          => Nobody(1)
    /\ "abierta" \notin notas => Nobody(1) \/ Nobody(2)
    /\ /\ "abierta" \notin notas /\ (up => paso # "abierta")
       /\ MayTry(disco.e) /\ disco.e.receptor = 0
       => Nobody(1)

\* The receiver of a delivery that is open is a tab that gave the code, or it was never
\* told.
Met ==
    /\ up /\ MayTry(e) /\ e.receptor # 0 => KnownTo(e.receptor)
    /\ MayTry(disco.e) /\ disco.e.receptor # 0 => KnownTo(disco.e.receptor)
    /\ Blamed(e) /\ Blamed(disco.e)

Tokens == Behind /\ Given /\ Fresh /\ Met

-----------------------------------------------------------------------------
\* The confirmations that are on their way, and what is at the tab with that token.
Said == {m \in In(sube) \cup In(delHilo) \cup In(lote) : m.t = "recibido"}

Has(n, i) == n # 0 /\ \E t \in dado : pag[t].token = n /\ i \in pag[t].tiene

\* A delivery that was delivered has every file confirmed.
Complete(d) == d.estado = "entregada" => d.recibidos = Files(d) /\ d.recibidos # {}

\* What is confirmed is at the tab that has the receiver's token.
Confirmations ==
    /\ \A t \in Tabs : pag[t].at = "abierta" =>
          pag[t].token # 0 /\ (~ roto => pag[t].token = e.receptor \/ e.estado = "nada")
    /\ up => /\ e.estado # "nada" => \A m \in Said : Has(e.receptor, m.i)
             /\ \A i \in e.recibidos : Has(e.receptor, i)
             /\ e.estado = "nada" => e.recibidos = {}
             /\ Complete(e)
    /\ \A i \in disco.e.recibidos : Has(disco.e.receptor, i)
    /\ disco.e.estado = "nada" => disco.e.recibidos = {}
    /\ Complete(disco.e)

\* The receipts that are on their way.
Finals == {m \in In(alHilo) \cup In(baja) : m.t = "final"}

\* A receipt that is on its way or was read is the one this computer keeps, and has saved
\* with its next step.
Receipts ==
    /\ up /\ e.estado # "nada" =>
          /\ \A m \in Finals : m.recibo = recibo \/ "entregada" \in notas
          /\ \A t \in Tabs : pag[t].recibo # "no" => pag[t].recibo = recibo \/ "entregada" \in notas
    /\ up /\ recibo # "no" /\ paso # "entregada" => disco.recibo = recibo
    /\ ~ up /\ disco.e.estado # "nada" =>
          \A t \in Tabs : pag[t].recibo # "no" =>
              pag[t].recibo = disco.recibo \/ "entregada" \in notas

-----------------------------------------------------------------------------
(***************************************************************************)
(* Queues, seen as the set of what is in them.                             *)
(***************************************************************************)
LEMMA Empties == ASSUME NEW T PROVE <<>> \in Seq(T) /\ In(<<>>) = {}
  BY DEF In

LEMMA Appends ==
    ASSUME NEW T, NEW q \in Seq(T), NEW m \in T
    PROVE  /\ Append(q, m) \in Seq(T)
           /\ In(Append(q, m)) = In(q) \cup {m}
<1> DEFINE r == Append(q, m)
<1>1. r \in Seq(T) /\ Len(q) \in Nat /\ Len(r) = Len(q) + 1 /\ DOMAIN r = 1 .. Len(r)
      /\ DOMAIN q = 1 .. Len(q)
  OBVIOUS
<1>2. r[Len(r)] = m /\ \A k \in 1 .. Len(q) : r[k] = q[k]
  BY <1>1
<1>3. In(r) \subseteq In(q) \cup {m}
  <2>1. ASSUME NEW k \in 1 .. Len(r) PROVE r[k] \in In(q) \cup {m}
    <3>1. k = Len(r) \/ k \in 1 .. Len(q)
      BY <1>1
    <3> QED
      BY <3>1, <1>1, <1>2 DEF In
  <2> QED
    BY <2>1, <1>1 DEF In
<1>4. In(q) \cup {m} \subseteq In(r)
  <2>1. Len(r) \in 1 .. Len(r) /\ 1 .. Len(q) \subseteq 1 .. Len(r)
    BY <1>1
  <2> QED
    BY <2>1, <1>1, <1>2 DEF In
<1> QED
  BY <1>1, <1>3, <1>4

LEMMA Tails ==
    ASSUME NEW T, NEW q \in Seq(T), q # <<>>
    PROVE  /\ Tail(q) \in Seq(T) /\ Head(q) \in T
           /\ In(q) = In(Tail(q)) \cup {Head(q)}
<1> DEFINE r == Tail(q)
<1>1. /\ r \in Seq(T) /\ Head(q) \in T /\ Len(q) \in Nat /\ Len(q) # 0 /\ Len(r) = Len(q) - 1
      /\ DOMAIN r = 1 .. Len(r) /\ DOMAIN q = 1 .. Len(q) /\ Head(q) = q[1]
  OBVIOUS
<1>2. \A k \in 1 .. Len(r) : r[k] = q[k + 1] /\ k + 1 \in 1 .. Len(q)
  BY <1>1
<1>3. In(r) \cup {Head(q)} \subseteq In(q)
  <2>1. 1 \in 1 .. Len(q)
    BY <1>1
  <2> QED
    BY <2>1, <1>1, <1>2 DEF In
<1>4. In(q) \subseteq In(r) \cup {Head(q)}
  <2>1. ASSUME NEW k \in 1 .. Len(q) PROVE q[k] \in In(r) \cup {Head(q)}
    <3>1. CASE k = 1
      BY <3>1, <1>1
    <3>2. CASE k # 1
      <4>1. k - 1 \in 1 .. Len(r) /\ (k - 1) + 1 = k
        BY <3>2, <1>1
      <4>2. q[k] = r[k - 1]
        BY <4>1, <1>2
      <4> QED
        BY <4>1, <4>2, <1>1 DEF In
    <3> QED
      BY <3>1, <3>2
  <2> QED
    BY <2>1, <1>1 DEF In
<1> QED
  BY <1>1, <1>3, <1>4

LEMMA Joins ==
    ASSUME NEW T, NEW q \in Seq(T), NEW r \in Seq(T)
    PROVE  q \o r \in Seq(T) /\ In(q \o r) = In(q) \cup In(r)
<1> DEFINE s == q \o r
<1>1. /\ s \in Seq(T) /\ Len(s) = Len(q) + Len(r) /\ Len(q) \in Nat /\ Len(r) \in Nat
      /\ DOMAIN q = 1 .. Len(q) /\ DOMAIN r = 1 .. Len(r) /\ DOMAIN s = 1 .. Len(s)
  OBVIOUS
<1>2. \A k \in 1 .. Len(s) : s[k] = IF k <= Len(q) THEN q[k] ELSE r[k - Len(q)]
  BY <1>1
<1>3. In(s) \subseteq In(q) \cup In(r)
  <2>1. ASSUME NEW k \in 1 .. Len(s) PROVE s[k] \in In(q) \cup In(r)
    <3>1. k \in 1 .. Len(q) \/ (k > Len(q) /\ k - Len(q) \in 1 .. Len(r))
      BY <1>1
    <3>2. CASE k \in 1 .. Len(q)
      BY <3>2, <1>1, <1>2 DEF In
    <3>3. CASE k > Len(q) /\ k - Len(q) \in 1 .. Len(r)
      <4>1. s[k] = r[k - Len(q)]
        BY <3>3, <1>1, <1>2
      <4> QED
        BY <4>1, <3>3, <1>1 DEF In
    <3> QED
      BY <3>1, <3>2, <3>3
  <2> QED
    BY <2>1, <1>1 DEF In
<1>4. In(q) \subseteq In(s)
  <2>1. \A k \in 1 .. Len(q) : k \in 1 .. Len(s) /\ s[k] = q[k]
    BY <1>1, <1>2
  <2> QED
    BY <2>1, <1>1 DEF In
<1>5. In(r) \subseteq In(s)
  <2>1. ASSUME NEW k \in 1 .. Len(r) PROVE r[k] \in In(s)
    <3>1. k + Len(q) \in 1 .. Len(s) /\ ~ (k + Len(q) <= Len(q)) /\ (k + Len(q)) - Len(q) = k
      BY <1>1
    <3>2. s[k + Len(q)] = r[k]
      BY <3>1, <1>2
    <3> QED
      BY <3>1, <3>2, <1>1 DEF In
  <2> QED
    BY <2>1, <1>1 DEF In
<1> QED
  BY <1>1, <1>3, <1>4, <1>5

\* A link that breaks: what arrives and what does not.
LEMMA Cuts ==
    ASSUME NEW T, NEW q \in Seq(T), NEW k \in 0 .. Len(q)
    PROVE  /\ SubSeq(q, 1, k) \in Seq(T) /\ SubSeq(q, k + 1, Len(q)) \in Seq(T)
           /\ In(q) = In(SubSeq(q, 1, k)) \cup In(SubSeq(q, k + 1, Len(q)))
<1> DEFINE a == SubSeq(q, 1, k)
           b == SubSeq(q, k + 1, Len(q))
<1>1. Len(q) \in Nat /\ k \in Nat /\ k <= Len(q) /\ DOMAIN q = 1 .. Len(q)
      /\ \A i \in 1 .. Len(q) : q[i] \in T
  OBVIOUS
<1>2. /\ a \in Seq(T) /\ Len(a) = k /\ DOMAIN a = 1 .. k
      /\ \A i \in 1 .. k : a[i] = q[i]
  BY <1>1, SubSeqProperties
<1>3. /\ b \in Seq(T) /\ Len(b) = Len(q) - k /\ DOMAIN b = 1 .. Len(q) - k
      /\ \A i \in 1 .. Len(q) - k : b[i] = q[k + i]
  <2> DEFINE m == k + 1
             n == Len(q)
             c == SubSeq(q, m, n)
  <2>1. m \in Int /\ n \in Int /\ \A i \in m .. n : q[i] \in T
    BY <1>1
  <2>2. m = k + 1 /\ n = Len(q) /\ b = c
    OBVIOUS
  <2> HIDE DEF m, n, b
  <2>3. /\ c \in Seq(T)
        /\ Len(c) = IF m <= n THEN n - m + 1 ELSE 0
        /\ \A i \in 1 .. n - m + 1 : c[i] = q[m + i - 1]
    BY <2>1, SubSeqProperties
  <2> HIDE DEF c
  <2>4. Len(c) = n - k /\ n - m + 1 = n - k
    BY <2>2, <2>3, <1>1
  <2>5. \A i \in 1 .. n - k : m + i - 1 = k + i
    BY <2>2, <1>1
  <2>6. DOMAIN c = 1 .. n - k
    BY <2>3, <2>4
  <2>7. \A i \in 1 .. n - k : c[i] = q[k + i]
    BY <2>3, <2>4, <2>5
  <2> QED
    BY <2>2, <2>3, <2>4, <2>6, <2>7
<1>4. In(a) \subseteq In(q)
  <2>1. 1 .. k \subseteq 1 .. Len(q)
    BY <1>1
  <2> QED
    BY <2>1, <1>1, <1>2 DEF In
<1>5. In(b) \subseteq In(q)
  <2>1. \A i \in 1 .. Len(q) - k : k + i \in 1 .. Len(q)
    BY <1>1
  <2> QED
    BY <2>1, <1>1, <1>3 DEF In
<1>6. In(q) \subseteq In(a) \cup In(b)
  <2>1. ASSUME NEW i \in 1 .. Len(q) PROVE q[i] \in In(a) \cup In(b)
    <3>1. CASE i <= k
      <4>1. i \in 1 .. k
        BY <3>1, <1>1
      <4> QED
        BY <4>1, <1>2 DEF In
    <3>2. CASE ~ (i <= k)
      <4>1. i - k \in 1 .. Len(q) - k /\ k + (i - k) = i
        BY <3>2, <1>1
      <4>2. b[i - k] = q[i]
        BY <4>1, <1>3
      <4> QED
        BY <4>1, <4>2, <1>3 DEF In
    <3> QED
      BY <3>1, <3>2
  <2> QED
    BY <2>1, <1>1 DEF In
<1> QED
  BY <1>2, <1>3, <1>4, <1>5, <1>6

LEMMA Nothing == ASSUME NEW K PROVE ~ Some(<<>>, K) /\ One(<<>>, K) /\ Bien(<<>>) = {}
  BY DEF Some, One, Bien, In

LEMMA Grows ==
    ASSUME NEW T, NEW q \in Seq(T), NEW m \in T, NEW K
    PROVE  /\ Some(Append(q, m), K) <=> Some(q, K) \/ m.t \in K
           /\ One(q, K) /\ (m.t \notin K \/ ~ Some(q, K)) => One(Append(q, m), K)
           /\ Bien(Append(q, m)) = IF m.t = "bien" THEN Bien(q) \cup {m} ELSE Bien(q)
<1> DEFINE r == Append(q, m)
<1>1. /\ Len(q) \in Nat /\ Len(r) = Len(q) + 1 /\ DOMAIN r = 1 .. Len(r) /\ DOMAIN q = 1 .. Len(q)
      /\ r[Len(r)] = m /\ \A k \in 1 .. Len(q) : r[k] = q[k]
  OBVIOUS
<1>2. In(r) = In(q) \cup {m}
  BY Appends
<1>3. ASSUME One(q, K), m.t \notin K \/ ~ Some(q, K) PROVE One(r, K)
  <2>1. ASSUME NEW k \in DOMAIN r, NEW l \in DOMAIN r, r[k].t \in K, r[l].t \in K PROVE k = l
    <3>1. \A i \in DOMAIN r : i \in DOMAIN q \/ i = Len(r)
      BY <1>1
    <3>2. \A i \in DOMAIN q : r[i] = q[i] /\ q[i] \in In(q)
      BY <1>1 DEF In
    <3>3. CASE k \in DOMAIN q /\ l \in DOMAIN q
      BY <1>3, <2>1, <3>2, <3>3 DEF One
    <3>4. CASE k = Len(r) /\ l = Len(r)
      BY <3>4
    <3>5. CASE (k = Len(r) /\ l \in DOMAIN q) \/ (l = Len(r) /\ k \in DOMAIN q)
      <4>1. m.t \in K /\ Some(q, K)
        BY <2>1, <3>2, <3>5, <1>1 DEF Some
      <4> QED
        BY <4>1, <1>3
    <3> QED
      BY <3>1, <3>3, <3>4, <3>5
  <2> QED
    BY <2>1 DEF One
<1>4. Some(r, K) <=> Some(q, K) \/ m.t \in K
  BY <1>2 DEF Some
<1>5. Bien(r) = IF m.t = "bien" THEN Bien(q) \cup {m} ELSE Bien(q)
  BY <1>2 DEF Bien
<1> QED
  BY <1>3, <1>4, <1>5

LEMMA Shrinks ==
    ASSUME NEW T, NEW q \in Seq(T), q # <<>>, NEW K
    PROVE  /\ Some(q, K) <=> Some(Tail(q), K) \/ Head(q).t \in K
           /\ One(q, K) => One(Tail(q), K) /\ (Head(q).t \in K => ~ Some(Tail(q), K))
           /\ Bien(q) = IF Head(q).t = "bien" THEN Bien(Tail(q)) \cup {Head(q)} ELSE Bien(Tail(q))
<1> DEFINE r == Tail(q)
<1>1. /\ Len(q) \in Nat /\ Len(q) # 0 /\ Len(r) = Len(q) - 1
      /\ DOMAIN r = 1 .. Len(r) /\ DOMAIN q = 1 .. Len(q) /\ Head(q) = q[1] /\ 1 \in 1 .. Len(q)
  OBVIOUS
<1>2. \A k \in 1 .. Len(r) : r[k] = q[k + 1] /\ k + 1 \in 1 .. Len(q) /\ k + 1 # 1
  BY <1>1
<1>3. In(q) = In(r) \cup {Head(q)}
  BY Tails
<1>4. ASSUME One(q, K) PROVE One(r, K)
  <2>1. ASSUME NEW k \in 1 .. Len(r), NEW l \in 1 .. Len(r), r[k].t \in K, r[l].t \in K PROVE k = l
    <3>1. k + 1 = l + 1
      BY <1>1, <1>2, <1>4, <2>1 DEF One
    <3> QED
      BY <3>1, <1>1
  <2> QED
    BY <2>1, <1>1 DEF One
<1>5. ASSUME One(q, K), Head(q).t \in K PROVE ~ Some(r, K)
  <2>1. ASSUME NEW k \in 1 .. Len(r), r[k].t \in K PROVE FALSE
    BY <1>1, <1>2, <1>5, <2>1 DEF One
  <2> QED
    BY <2>1, <1>1 DEF Some, In
<1>6. Some(q, K) <=> Some(r, K) \/ Head(q).t \in K
  BY <1>3 DEF Some
<1>7. Bien(q) = IF Head(q).t = "bien" THEN Bien(r) \cup {Head(q)} ELSE Bien(r)
  BY <1>3 DEF Bien
<1> QED
  BY <1>4, <1>5, <1>6, <1>7

LEMMA Breaks ==
    ASSUME NEW T, NEW q \in Seq(T), NEW k \in 0 .. Len(q), NEW K
    PROVE  /\ Some(SubSeq(q, 1, k), K) => Some(q, K)
           /\ One(q, K) => One(SubSeq(q, 1, k), K)
           /\ Bien(q) = Bien(SubSeq(q, 1, k)) \cup Bien(SubSeq(q, k + 1, Len(q)))
<1> DEFINE a == SubSeq(q, 1, k)
<1>1. In(q) = In(a) \cup In(SubSeq(q, k + 1, Len(q)))
  BY Cuts
<1>2. DOMAIN a \subseteq DOMAIN q /\ \A i \in DOMAIN a : a[i] = q[i]
  <2>1. Len(q) \in Nat /\ k \in Nat /\ k <= Len(q) /\ \A i \in 1 .. Len(q) : q[i] \in T
    OBVIOUS
  <2>2. Len(a) = k /\ a \in Seq(T) /\ \A i \in 1 .. k : a[i] = q[i]
    BY <2>1, SubSeqProperties
  <2> QED
    BY <2>1, <2>2
<1> HIDE DEF a
<1>3. One(q, K) => One(a, K)
  BY <1>2 DEF One
<1>4. Some(a, K) => Some(q, K)
  BY <1>1 DEF Some
<1>5. Bien(q) = Bien(a) \cup Bien(SubSeq(q, k + 1, Len(q)))
  BY <1>1 DEF Bien
<1> QED
  BY <1>3, <1>4, <1>5 DEF a

LEMMA Single ==
    ASSUME NEW T, NEW m \in T, NEW K
    PROVE  /\ Some(<<m>>, K) <=> m.t \in K
           /\ Tail(<<m>>) = <<>> /\ <<m>> # <<>>
           /\ Bien(<<m>>) = IF m.t = "bien" THEN {m} ELSE {}
  BY DEF Some, Bien, In

LEMMA Wider == Seq(Answer) \subseteq Seq(FrameDown)
  BY DEF FrameDown

-----------------------------------------------------------------------------
(***************************************************************************)
(* The state keeps its type.                                               *)
(***************************************************************************)
LEMMA Messages ==
    /\ M("fin") \in Answer /\ M("mal") \in Answer /\ M("recibo") \in Answer
    /\ M("acuse") \in FrameUp /\ M("rota") \in FrameUp /\ M("manipulado") \in Word
    /\ \A r \in {"solo", "dos"} : [t |-> "final", recibo |-> r] \in Answer
    /\ \A n \in 1 .. 2, t \in Tabs : [t |-> "bien", token |-> n, de |-> t] \in Answer
    /\ \A b \in BOOLEAN, n \in 0 .. 2, t \in Tabs :
          [t |-> "codigo", bien |-> b, token |-> n, de |-> t] \in FrameUp
    /\ \A i \in Pieces : /\ [t |-> "pide", i |-> i] \in FrameUp
                         /\ [t |-> "recibido", i |-> i] \in FrameUp
                         /\ [t |-> "trozo", i |-> i] \in FrameDown
    /\ Answer \subseteq FrameDown
<1>1. M("fin") \in Answer /\ M("mal") \in Answer /\ M("recibo") \in Answer
  BY DEF M, Answer
<1>2. M("acuse") \in FrameUp /\ M("rota") \in FrameUp /\ M("manipulado") \in Word
  BY DEF M, FrameUp, Word
<1>3. \A r \in {"solo", "dos"} : [t |-> "final", recibo |-> r] \in Answer
  BY DEF Answer
<1>4. \A n \in 1 .. 2, t \in Tabs : [t |-> "bien", token |-> n, de |-> t] \in Answer
  BY DEF Answer
<1>5. \A b \in BOOLEAN, n \in 0 .. 2, t \in Tabs :
          [t |-> "codigo", bien |-> b, token |-> n, de |-> t] \in FrameUp
  BY DEF FrameUp, CodeType
<1>6. \A i \in Pieces : /\ [t |-> "pide", i |-> i] \in FrameUp
                        /\ [t |-> "recibido", i |-> i] \in FrameUp
                        /\ [t |-> "trozo", i |-> i] \in FrameDown
  BY DEF FrameUp, FrameDown
<1> QED
  BY <1>1, <1>2, <1>3, <1>4, <1>5, <1>6 DEF FrameDown

\* What a message carries goes by its kind.
LEMMA Carried ==
    /\ \A m \in Word : /\ m.t = "codigo" => m \in CodeType
                       /\ m.t = "recibido" => m.i \in Pieces
    /\ \A m \in CodeType : m.bien \in BOOLEAN /\ m.token \in 0 .. 2 /\ m.de \in Tabs
    /\ \A m \in FrameUp : /\ m.t \in {"codigo", "recibido", "acuse"} => m \in Word
                          /\ m.t \in {"recibido", "pide"} => m.i \in Pieces
    /\ \A m \in FrameDown :
          /\ m.t = "bien" => m.token \in 1 .. 2 /\ m.de \in Tabs
          /\ m.t = "final" => m.recibo \in {"solo", "dos"}
          /\ m.t = "trozo" => m.i \in Pieces
          /\ m.t # "trozo" => m \in Answer
<1>1. \A m \in Word : /\ m.t = "codigo" => m \in CodeType
                      /\ m.t = "recibido" => m.i \in Pieces
  BY DEF Word, CodeType
<1>2. \A m \in CodeType : m.bien \in BOOLEAN /\ m.token \in 0 .. 2 /\ m.de \in Tabs
  BY DEF CodeType
<1>3. \A m \in FrameUp : /\ m.t \in {"codigo", "recibido", "acuse"} => m \in Word
                         /\ m.t \in {"recibido", "pide"} => m.i \in Pieces
  BY DEF FrameUp, Word, CodeType
<1>4. \A m \in FrameDown :
          /\ m.t = "bien" => m.token \in 1 .. 2 /\ m.de \in Tabs
          /\ m.t = "final" => m.recibo \in {"solo", "dos"}
          /\ m.t = "trozo" => m.i \in Pieces
          /\ m.t # "trozo" => m \in Answer
  BY DEF FrameDown, Answer
<1> QED
  BY <1>1, <1>2, <1>3, <1>4

\* What the program tells the thread, and how it forgets.
LEMMA Tells ==
    ASSUME TalkShape, NEW ms \in Seq(Answer), Told(ms)
    PROVE  alHilo' \in Seq(Answer) /\ In(alHilo') \subseteq In(alHilo) \cup In(ms)
<1>1. alHilo \o ms \in Seq(Answer) /\ In(alHilo \o ms) = In(alHilo) \cup In(ms)
  BY Joins DEF TalkShape
<1> QED
  BY <1>1 DEF Told, TalkShape

LEMMA OneWord == ASSUME NEW T, NEW m \in T PROVE <<m>> \in Seq(T) /\ In(<<m>>) = {m}
  BY DEF In

LEMMA Forgets ==
    ASSUME TalkShape, NEW last \in Seq(Answer), Closes(last)
    PROVE  /\ claves' = FALSE /\ carga' = FALSE
           /\ hilo' = FALSE /\ delHilo' = <<>>
           /\ alHilo' \in Seq(Answer) /\ In(alHilo') \subseteq In(alHilo) \cup In(last) \cup {M("fin")}
<1>1. Append(last, M("fin")) \in Seq(Answer) /\ In(Append(last, M("fin"))) = In(last) \cup {M("fin")}
  BY Appends, Messages
<1> QED
  BY <1>1, Tells DEF Closes

LEMMA Changes ==
    ASSUME NEW d \in DeliveryType
    PROVE  /\ \A s \in Viva \cup Ended : [d EXCEPT !.estado = s] \in DeliveryType
           /\ \A s \in Viva \cup Ended, n \in 1 .. 2 :
                 [d EXCEPT !.receptor = n, !.estado = s] \in DeliveryType
           /\ \A n \in 0 .. INTENTOS : [d EXCEPT !.fallos = n] \in DeliveryType
           /\ \A n \in 0 .. MaxArchivos : [d EXCEPT !.archivos = n] \in DeliveryType
           /\ \A why \in {"codigo_distinto", "dispositivo_nuevo", "manipulada"} :
                 Destroyed(d, why) \in DeliveryType
           /\ \A i \in Pieces : Confirmed(d, i) \in DeliveryType
           /\ Files(d) \subseteq Pieces
<1> USE DEF DeliveryType
<1>1. \A s \in Viva \cup Ended : [d EXCEPT !.estado = s] \in DeliveryType
  OBVIOUS
<1>1a. \A c \in DeliveryType : \A s \in Viva \cup Ended : [c EXCEPT !.estado = s] \in DeliveryType
  OBVIOUS
<1>2. \A s \in Viva \cup Ended, n \in 1 .. 2 :
          [d EXCEPT !.receptor = n, !.estado = s] \in DeliveryType
  <2> TAKE s \in Viva \cup Ended, n \in 1 .. 2
  <2>0. n \in 0 .. 2
    <3> HIDE DEF DeliveryType
    <3>1. n = 1 \/ n = 2
      OBVIOUS
    <3> QED
      BY <3>1
  <2>1. [d EXCEPT !.receptor = n] \in DeliveryType
    BY <2>0
  <2>2. [d EXCEPT !.receptor = n, !.estado = s] = [[d EXCEPT !.receptor = n] EXCEPT !.estado = s]
    OBVIOUS
  <2> HIDE DEF DeliveryType
  <2> QED
    BY <2>1, <2>2, <1>1a
<1>3. \A n \in 0 .. INTENTOS : [d EXCEPT !.fallos = n] \in DeliveryType
  OBVIOUS
<1>4. \A n \in 0 .. MaxArchivos : [d EXCEPT !.archivos = n] \in DeliveryType
  OBVIOUS
<1>5. \A why \in {"codigo_distinto", "dispositivo_nuevo", "manipulada"} :
          Destroyed(d, why) \in DeliveryType
  BY DEF Destroyed, Ended
<1>6. \A i \in Pieces : Confirmed(d, i) \in DeliveryType
  BY DEF Confirmed, Pieces, Ended
<1>7. Files(d) \subseteq Pieces
  <2>1. d.archivos \in 0 .. MaxArchivos /\ MaxArchivos \in Nat
    BY BoundsAssumption
  <2> HIDE DEF DeliveryType
  <2>2. \A i \in 1 .. d.archivos : i \in 1 .. MaxArchivos
    BY <2>1
  <2> QED
    BY <2>2 DEF Files, Pieces
<1> QED
  BY <1>1, <1>2, <1>3, <1>4, <1>5, <1>6, <1>7 DEF Destroyed

LEMMA NothingIsADelivery ==
    Nada \in DeliveryType /\ [Nada EXCEPT !.estado = "preparando"] \in DeliveryType
<1>1. 0 \in 0 .. MaxArchivos /\ 0 \in 0 .. INTENTOS /\ 0 \in 0 .. 2
      /\ {} \in SUBSET (1 .. MaxArchivos)
  BY BoundsAssumption
<1>2. Nada \in DeliveryType
  BY <1>1 DEF Nada, DeliveryType
<1> QED
  BY <1>2, Changes DEF Viva

LEMMA InitShape == Init => Shape
<1> SUFFICES ASSUME Init PROVE Shape
  OBVIOUS
<1>1. DeliveryShape
  <2> DEFINE d == [Nada EXCEPT !.estado = "preparando"]
  <2>1. d \in DeliveryType /\ Nada \in DeliveryType /\ d.fallos = 0 /\ Nada.estado = "nada"
    BY NothingIsADelivery DEF Nada
  <2>2. e = d /\ disco = [e |-> Nada, claves |-> FALSE, recibo |-> "no"]
    BY DEF Init
  <2>3. disco \in DiskType /\ disco.e = Nada
    BY <2>1, <2>2 DEF DiskType
  <2>4. 0 < INTENTOS
    BY BoundsAssumption
  <2> HIDE DEF d
  <2> QED
    BY <2>1, <2>2, <2>3, <2>4 DEF Init, DeliveryShape, StepNames, AttemptsLeft, Viva
<1>2. TalkShape
  <2>1. pag \in [Tabs -> PageType]
    <3>1. [at |-> "fuera", token |-> 0, tiene |-> {}, dicho |-> {}, recibo |-> "no",
           fin |-> FALSE] \in PageType
      BY DEF PageType
    <3> QED
      BY <3>1 DEF Init
  <2>2. \A t \in Tabs : pag[t].dicho \subseteq pag[t].tiene
    BY DEF Init
  <2>3. alHilo \in Seq(Answer) /\ delHilo \in Seq(Word) /\ lote \in Seq(Word)
        /\ sube \in Seq(FrameUp) /\ baja \in Seq(FrameDown)
    BY Empties DEF Init
  <2> QED
    BY <2>1, <2>2, <2>3 DEF Init, TalkShape
<1> QED
  BY <1>1, <1>2 DEF Shape

\* What the rules and the program do to the delivery keeps its type.
LEMMA DeliveryStep == Shape /\ [Next]_vars => DeliveryShape'
<1> SUFFICES ASSUME Shape, [Next]_vars PROVE DeliveryShape'
  OBVIOUS
<1> USE DEF Shape
<1>t. /\ up \in BOOLEAN /\ e \in DeliveryType /\ disco.e \in DeliveryType
      /\ disco.claves \in BOOLEAN /\ disco.recibo \in {"no", "solo", "dos"}
  BY DEF DeliveryShape, DiskType
<1>s. ASSUME e' \in DeliveryType, claves' \in BOOLEAN, recibo' \in {"no", "solo", "dos"}
      PROVE  Saved' \in DiskType /\ Saved'.e = e'
  BY <1>s DEF Saved, DiskType
<1>f. \A last : Closes(last) => claves' = FALSE /\ carga' = FALSE
  BY DEF Closes
<1>c. ASSUME UNCHANGED core PROVE DeliveryShape'
  BY <1>c DEF core, contents, receipt, DeliveryShape, AttemptsLeft, Viva
<1>e. ASSUME NEW d \in DeliveryType, AttemptsLeft(d), Ends(d) PROVE DeliveryShape'
  <2>1. d.estado \in StepNames
    BY <1>e DEF DeliveryType, StepNames, Viva
  <2> QED
    BY <1>e, <1>f, <2>1 DEF Ends, Forget, receipt, DeliveryShape, AttemptsLeft
<1>g. ASSUME NEW quien \in {"solo", "dos"}, Firma(quien) PROVE DeliveryShape'
  BY <1>g, <1>f DEF Firma, Forget, DeliveryShape, AttemptsLeft, StepNames, Ended
<1>d. ASSUME NEW why \in {"codigo_distinto", "dispositivo_nuevo", "manipulada"},
             Ends(Destroyed(e, why))
      PROVE  DeliveryShape'
  <2>1. Destroyed(e, why) \in DeliveryType
    BY <1>t, Changes
  <2>2. Destroyed(e, why).estado \notin Viva
    BY <1>t DEF Destroyed, DeliveryType, Viva
  <2> QED
    BY <1>e, <1>d, <2>1, <2>2 DEF AttemptsLeft
<1>h. ASSUME NEW s \in Ended, Ends([e EXCEPT !.estado = s]) PROVE DeliveryShape'
  <2>1. [e EXCEPT !.estado = s] \in DeliveryType
    BY <1>t, Changes
  <2>2. [e EXCEPT !.estado = s].estado \notin Viva
    BY <1>t DEF DeliveryType, Viva, Ended
  <2> QED
    BY <1>e, <1>h, <2>1, <2>2 DEF AttemptsLeft
<1>a. ASSUME NEW m, Answers(m) PROVE UNCHANGED <<up, contents, receipt, disco>>
  BY <1>a DEF Answers
<1>1. CASE Archivo
  <2>1. e.archivos + 1 \in Pieces
    <3>1. e.archivos \in 0 .. MaxArchivos /\ e.archivos < MaxArchivos /\ MaxArchivos \in Nat
      BY <1>1, <1>t, BoundsAssumption DEF Archivo, DeliveryType
    <3> QED
      BY <3>1 DEF Pieces
  <2> QED
    BY <1>1, <2>1 DEF Archivo, Free, receipt, DeliveryShape, AttemptsLeft, Viva
<1>2. CASE Trozo
  <2>1. e.archivos + 1 \in 0 .. MaxArchivos
    <3>1. e.archivos \in 0 .. MaxArchivos /\ e.archivos < MaxArchivos /\ MaxArchivos \in Nat
      BY <1>2, <1>t, BoundsAssumption DEF Trozo, DeliveryType, DeliveryShape
    <3> QED
      BY <3>1
  <2>2. e' \in DeliveryType
    BY <1>2, <1>t, <2>1, Changes DEF Trozo
  <2>3. e'.estado = e.estado /\ e'.fallos = e.fallos
    BY <1>2, <1>t DEF Trozo, DeliveryType
  <2>4. disco' \in DiskType /\ disco'.e = e'
    BY <2>2, <1>2, <1>s DEF Trozo, receipt, DeliveryShape
  <2> QED
    BY <1>2, <2>2, <2>3, <2>4 DEF Trozo, receipt, DeliveryShape, AttemptsLeft, Viva
<1>3. CASE Lista
  <2>1. e' \in DeliveryType
    BY <1>3, <1>t, Changes DEF Lista, Viva
  <2>2. e'.fallos = e.fallos
    BY <1>3, <1>t DEF Lista, DeliveryType
  <2>3. disco' \in DiskType /\ disco'.e = e'
    BY <2>1, <1>3, <1>s DEF Lista, receipt, contents, DeliveryShape
  <2> QED
    BY <1>3, <2>1, <2>2, <2>3 DEF Lista, contents, receipt, DeliveryShape, AttemptsLeft, Viva
<1>4. CASE Guarda
  BY <1>4, <1>t DEF Guarda, contents, receipt, Saved, DiskType, DeliveryShape, AttemptsLeft,
     StepNames
<1>5. CASE Revoca
  BY <1>5, <1>h DEF Revoca, Ended
<1>6. CASE Caduca
  BY <1>6, <1>h DEF Caduca, Ended
<1>7. CASE Olvida
  <2>1. disco' \in DiskType /\ disco'.e = e'
    BY <1>7, <1>f, <1>s, NothingIsADelivery DEF Olvida
  <2>2. e' = Nada /\ Nada.estado = "nada" /\ acuse' = "no" /\ recibo' = "no"
        /\ UNCHANGED <<up, paso>>
    BY <1>7 DEF Olvida, Nada
  <2>3. claves' = FALSE /\ sellados' = {} /\ carga' = FALSE
    BY <1>7, <1>f DEF Olvida
  <2> QED
    BY <2>1, <2>2, <2>3, NothingIsADelivery DEF DeliveryShape, AttemptsLeft, Viva
<1>8. CASE Toma
  BY <1>8 DEF Toma, contents, receipt, DeliveryShape, AttemptsLeft
<1>9. CASE Codigo
  <2>h. /\ Head(lote) \in CodeType
        /\ LateCode \/ NotOpen \/ WrongCode \/ RightCode
    <3>1. Head(lote) \in Word /\ Head(lote).t = "codigo"
      BY <1>9, Tails DEF Codigo, Event, TalkShape
    <3> QED
      BY <1>9, <3>1, Carried DEF Codigo
  <2>1. CASE LateCode
    <3>1. e' \in DeliveryType
      BY <2>1, <1>t, Changes DEF LateCode, Ended
    <3>2. e'.estado \notin Viva /\ e'.archivos = e.archivos
      BY <2>1, <1>t DEF LateCode, DeliveryType, Viva
    <3>3. UNCHANGED <<up, contents, receipt, disco, paso>>
      BY <2>1, <1>a DEF LateCode
    <3> QED
      BY <3>1, <3>2, <3>3 DEF contents, receipt, DeliveryShape, AttemptsLeft
  <2>2. CASE NotOpen
    <3>1. UNCHANGED <<up, e, contents, receipt, disco, paso>>
      BY <2>2, <1>a DEF NotOpen
    <3> QED
      BY <3>1 DEF contents, receipt, DeliveryShape, AttemptsLeft
  <2>3. CASE WrongCode
    <3> DEFINE d == [e EXCEPT !.fallos = @ + 1]
    <3>1. e.fallos + 1 \in 0 .. INTENTOS /\ e.estado \in Viva
      <4>1. e.fallos \in 0 .. INTENTOS /\ INTENTOS \in Nat /\ e.estado \in Viva
        BY <2>3, <1>t, BoundsAssumption DEF WrongCode, MayTry, DeliveryType, Viva
      <4>2. e.fallos < INTENTOS
        BY <4>1 DEF DeliveryShape, AttemptsLeft
      <4> QED
        BY <4>1, <4>2
    <3>2. d \in DeliveryType /\ d.fallos = e.fallos + 1 /\ d.archivos = e.archivos
      BY <1>t, <3>1, Changes DEF DeliveryType
    <3>3. CASE Spent(d.fallos)
      <4>1. Ends(Destroyed(d, "codigo_distinto"))
        BY <2>3, <3>3 DEF WrongCode
      <4>2. Destroyed(d, "codigo_distinto") \in DeliveryType
        BY <3>2, Changes
      <4>3. Destroyed(d, "codigo_distinto").estado \notin Viva
        BY <3>2 DEF Destroyed, DeliveryType, Viva
      <4> QED
        BY <1>e, <4>1, <4>2, <4>3 DEF AttemptsLeft
    <3>4. CASE ~ Spent(d.fallos)
      <4>1. e' = d /\ paso' = "mal" /\ UNCHANGED <<up, contents, receipt, disco>>
        BY <2>3, <3>4, <1>a DEF WrongCode
      <4>2. d.fallos < INTENTOS
        <5>1. d.fallos \in Nat /\ INTENTOS \in Nat
          BY <3>1, <3>2, BoundsAssumption
        <5> QED
          BY <3>4, <5>1 DEF Spent
      <4> QED
        BY <3>2, <4>1, <4>2 DEF contents, receipt, DeliveryShape, AttemptsLeft, StepNames
    <3> QED
      BY <3>3, <3>4
  <2>4. CASE RightCode
    <3>1. CASE e.receptor # 0 /\ ~ IsReceiver(e, Head(lote).token)
      BY <2>4, <3>1, <1>d DEF RightCode
    <3>2. CASE ~ (e.receptor # 0 /\ ~ IsReceiver(e, Head(lote).token))
      <4>1. /\ e' = IF e.receptor # 0 THEN e
                    ELSE [e EXCEPT !.receptor = Life, !.estado = "abierta"]
            /\ paso' = "abierta" /\ UNCHANGED <<up, contents, receipt, disco>>
        BY <2>4, <3>2, <1>a DEF RightCode
      <4>2. Life \in 1 .. 2
        BY DEF Life
      <4>3. e' \in DeliveryType
        BY <4>1, <4>2, <1>t, Changes DEF Viva
      <4>4. e'.fallos = e.fallos /\ e.fallos < INTENTOS /\ e'.archivos = e.archivos
        BY <4>1, <2>4, <1>t DEF RightCode, MayTry, DeliveryType, DeliveryShape, AttemptsLeft, Viva
      <4> QED
        BY <4>1, <4>3, <4>4 DEF contents, receipt, DeliveryShape, AttemptsLeft, StepNames
    <3> QED
      BY <3>1, <3>2
  <2> QED
    BY <2>h, <2>1, <2>2, <2>3, <2>4
<1>10. CASE Recibido
  <2>1. Head(lote).i \in Pieces
    <3>1. Head(lote) \in Word /\ Head(lote).t = "recibido"
      BY <1>10, Tails DEF Recibido, Event, TalkShape
    <3> QED
      BY <3>1, Carried
  <2>2. e' \in DeliveryType
    BY <1>10, <1>t, <2>1, Changes DEF Recibido
  <2>3. e'.fallos = e.fallos /\ e'.archivos = e.archivos /\ (e'.estado \in Viva => e.estado \in Viva)
    BY <1>10, <1>t DEF Recibido, Confirmed, DeliveryType, Viva
  <2>4. UNCHANGED <<up, contents, recibo, paso>>
    BY <1>10 DEF Recibido
  <2>5. disco' \in DiskType /\ (disco' = disco \/ disco'.e = e')
    BY <1>10, <2>2, <2>4, <1>s DEF Recibido, contents, DeliveryShape
  <2>6. acuse' \in {"no", "espera", "vence"}
    BY <1>10 DEF Recibido, DeliveryShape
  <2> QED
    BY <2>2, <2>3, <2>4, <2>5, <2>6 DEF contents, DeliveryShape, AttemptsLeft
<1>11. CASE Acuse
  <2>1. CASE acuse # "no"
    BY <1>11, <2>1, <1>g DEF Acuse
  <2>2. CASE acuse = "no"
    <3>1. UNCHANGED <<up, e, contents, receipt, paso, disco>>
      BY <1>11, <2>2 DEF Acuse
    <3> QED
      BY <3>1 DEF contents, receipt, DeliveryShape, AttemptsLeft
  <2> QED
    BY <2>1, <2>2
<1>12. CASE Manipulado
  BY <1>12, <1>d DEF Manipulado
<1>13. CASE Espera
  BY <1>13 DEF Espera, contents, DeliveryShape, AttemptsLeft
<1>14. CASE AcuseVence
  BY <1>14, <1>g DEF AcuseVence
<1>15. CASE Muere
  BY <1>15 DEF Muere, DeliveryShape, AttemptsLeft, StepNames
<1>16. CASE Vuelve
  <2>1. e' \in DeliveryType
    BY <1>16, <1>t, Changes DEF Vuelve, Ended
  <2>2. e'.estado \in Viva => e' = disco.e
    BY <1>16, <1>t DEF Vuelve, DeliveryType, Viva
  <2> QED
    BY <1>16, <1>t, <2>1, <2>2 DEF Vuelve, DeliveryShape, AttemptsLeft
<1>17. CASE Ignora \/ Acaba \/ Despierta \/ Suelta \/ Transmite
  BY <1>17, <1>c DEF Ignora, Acaba, Despierta, Suelta, Transmite
<1>18. CASE ServeCode \/ ServePiece \/ ServeWord \/ ServeBroken \/ Corta \/ Manipula
  BY <1>18, <1>c DEF ServeCode, ServePiece, ServeWord, ServeBroken, Corta, Manipula
<1>19. ASSUME NEW t \in Tabs,
              Entra(t) \/ Lee(t) \/ Deja(t) \/ (\E bien \in BOOLEAN : Da(t, bien))
                \/ \E i \in Files(e) : Pide(t, i) \/ Confirma(t, i)
       PROVE  DeliveryShape'
  BY <1>19, <1>c DEF Entra, Lee, Deja, Da, Pide, Confirma
<1>20. CASE UNCHANGED vars
  BY <1>20, <1>c DEF vars, core
<1> QED
  BY <1>1, <1>2, <1>3, <1>4, <1>5, <1>6, <1>7, <1>8, <1>9, <1>10, <1>11, <1>12, <1>13, <1>14,
     <1>15, <1>16, <1>17, <1>18, <1>19, <1>20 DEF Next
LEMMA ReadsWell ==
    ASSUME NEW t, NEW m \in FrameDown, pag[t] \in PageType, pag[t].dicho \subseteq pag[t].tiene
    PROVE  Reads(t, m) \in PageType /\ Reads(t, m).dicho \subseteq Reads(t, m).tiene
<1> DEFINE p == pag[t]
<1>1. /\ m.t = "bien" => m.token \in 0 .. 2
      /\ m.t = "final" => m.recibo \in {"no", "solo", "dos"}
      /\ m.t = "trozo" => m.i \in Pieces
  BY Carried
<1>2. p \in PageType /\ p.dicho \subseteq p.tiene
  OBVIOUS
<1> HIDE DEF p
<1>3. CASE m.t = "bien"
  <2>1. Reads(t, m) = [p EXCEPT !.at = "abierta", !.token = m.token]
    BY <1>3 DEF Reads, p
  <2> QED
    BY <1>1, <1>2, <1>3, <2>1 DEF PageType
<1>4. CASE m.t = "mal"
  <2>1. Reads(t, m) = [p EXCEPT !.at = "entra"]
    BY <1>4 DEF Reads, p
  <2> QED
    BY <1>2, <2>1 DEF PageType
<1>5. CASE m.t = "trozo"
  <2>1. Reads(t, m) = [p EXCEPT !.tiene = @ \cup {m.i}]
    BY <1>5 DEF Reads, p
  <2> QED
    BY <1>1, <1>2, <1>5, <2>1 DEF PageType
<1>6. CASE m.t = "final"
  <2>1. Reads(t, m) = [p EXCEPT !.recibo = m.recibo]
    BY <1>6 DEF Reads, p
  <2> QED
    BY <1>1, <1>2, <1>6, <2>1 DEF PageType
<1>7. CASE m.t = "fin"
  <2>1. Reads(t, m) = [p EXCEPT !.fin = TRUE]
    BY <1>7 DEF Reads, p
  <2> QED
    BY <1>2, <2>1 DEF PageType
<1>8. CASE m.t \notin {"bien", "mal", "trozo", "final", "fin"}
  <2>1. Reads(t, m) = p
    BY <1>8 DEF Reads, p
  <2> QED
    BY <1>2, <2>1
<1> QED
  BY <1>3, <1>4, <1>5, <1>6, <1>7, <1>8

\* What the thread, the link and the tabs do keeps the type of what they say.
LEMMA TalkStep == Shape /\ [Next]_vars => TalkShape'
<1> SUFFICES ASSUME Shape, [Next]_vars PROVE TalkShape'
  OBVIOUS
<1>t. TalkShape /\ e \in DeliveryType
  BY DEF Shape, DeliveryShape
<1>q. ASSUME NEW T, NEW q \in Seq(T), q # <<>> PROVE Tail(q) \in Seq(T) /\ Head(q) \in T
  BY <1>q, Tails
<1>e. <<>> \in Seq(Answer) /\ <<>> \in Seq(Word) /\ <<>> \in Seq(FrameUp) /\ <<>> \in Seq(FrameDown)
  BY Empties
<1>p. \A t \in Tabs : /\ pag[t] \in PageType /\ pag[t].dicho \subseteq pag[t].tiene
                      /\ pag[t].token \in 0 .. 2
  BY <1>t DEF TalkShape, PageType
<1>u. ASSUME UNCHANGED <<world, hilo, delHilo, lote, dado>>, alHilo' \in Seq(Answer) PROVE TalkShape'
  BY <1>u, <1>t DEF TalkShape, world, thread, link, history
<1>g. ASSUME UNCHANGED <<link, pag, perdido, lote, dado>>, alHilo' \in Seq(Answer),
             fase' \in {"no", "rele", "sirve", "pausa"}, tab' \in Tabs \cup {None},
             autorizado' \in BOOLEAN, hilo' \in BOOLEAN, delHilo' \in Seq(Word)
      PROVE  TalkShape'
  BY <1>g, <1>t DEF TalkShape, link
<1>m. ASSUME NEW m \in Answer PROVE <<m>> \in Seq(Answer)
  BY OneWord
<1>a. ASSUME NEW m \in Answer, Answers(m)
      PROVE  alHilo' \in Seq(Answer) /\ UNCHANGED <<hilo, delHilo>>
  BY <1>a, <1>m, <1>t, Tells DEF Answers
<1>f. ASSUME NEW last \in Seq(Answer), Closes(last)
      PROVE  alHilo' \in Seq(Answer) /\ hilo' = FALSE /\ delHilo' = <<>>
  BY <1>f, <1>t, Forgets
<1>w. ASSUME NEW m \in Word, Says(m) PROVE delHilo' \in Seq(Word)
  BY <1>w, <1>t, Appends DEF Says, TalkShape
<1>x. ASSUME NEW m \in FrameUp, Puts(m) PROVE sube' \in Seq(FrameUp)
  BY <1>x, <1>t, Appends DEF Puts, TalkShape
\* A tick that ends the delivery or signs it.
<1>h. ASSUME NEW last \in Seq(Answer), Closes(last), lote' \in Seq(Word), dado' \subseteq Tabs,
             UNCHANGED <<thread, link, pag, perdido>>
      PROVE  TalkShape'
  BY <1>h, <1>f, <1>t, <1>e DEF TalkShape, thread, link
<1>1. CASE Archivo \/ Trozo \/ Guarda \/ Espera
  BY <1>1, <1>t DEF Archivo, Trozo, Guarda, Espera, queues, world, thread, link, history, TalkShape
<1>2. CASE Lista
  BY <1>2, <1>t, <1>e DEF Lista, Arranca, TalkShape, link, history
<1>3. CASE Revoca \/ Caduca \/ Olvida \/ AcuseVence
  <2>1. ASSUME NEW last \in Seq(Answer), Closes(last), UNCHANGED <<lote, dado, world>>
        PROVE  TalkShape'
    BY <1>h, <2>1, <1>t DEF world, history, TalkShape
  <2>2. CASE Revoca \/ Caduca \/ Olvida
    BY <1>3, <2>1, <2>2, <1>e DEF Revoca, Caduca, Olvida, Ends, Forget
  <2>3. CASE AcuseVence
    <3>1. [t |-> "final", recibo |-> "solo"] \in Answer
      BY Messages
    <3>2. <<[t |-> "final", recibo |-> "solo"]>> \in Seq(Answer)
      BY <3>1, <1>m
    <3> QED
      BY <2>3, <2>1, <3>2 DEF AcuseVence, Firma, Forget
  <2> QED
    BY <1>3, <2>2, <2>3
<1>4. CASE Toma
  BY <1>4, <1>t, <1>e DEF Toma, TalkShape, world, thread, link, history
<1>v. ASSUME NEW t, Event(t)
      PROVE  /\ Head(lote) \in Word /\ Head(lote).t = t /\ lote' \in Seq(Word)
             /\ t = "codigo" => Head(lote) \in CodeType
  <2>1. Head(lote) \in Word /\ Head(lote).t = t /\ lote' \in Seq(Word)
    BY <1>v, <1>t, Tails DEF Event, TalkShape
  <2> QED
    BY <2>1, Carried
<1>5. CASE Codigo
  <2>1. Head(lote) \in CodeType /\ Head(lote).de \in Tabs /\ lote' \in Seq(Word)
        /\ UNCHANGED <<thread, link, pag, perdido>>
    BY <1>5, <1>v, Carried DEF Codigo
  <2>2. ASSUME NEW m \in Answer, Answers(m), dado' \subseteq Tabs PROVE TalkShape'
    BY <2>1, <2>2, <1>a, <1>t DEF TalkShape, thread, link
  <2>3. CASE LateCode \/ NotOpen
    BY <2>2, <2>3, Messages, <1>t DEF LateCode, NotOpen, TalkShape
  <2>4. CASE WrongCode
    <3>1. dado' \subseteq Tabs
      BY <2>4, <1>t DEF WrongCode, TalkShape
    <3>2. Answers(M("mal")) \/ Closes(<<>>)
      BY <2>4 DEF WrongCode, Ends, Forget
    <3> QED
      BY <2>1, <2>2, <3>1, <3>2, <1>h, <1>e, Messages
  <2>5. CASE RightCode
    <3>1. dado' \subseteq Tabs
      BY <2>5, <2>1, <1>t DEF RightCode, TalkShape
    <3>2. CASE e.receptor # 0 /\ ~ IsReceiver(e, Head(lote).token)
      BY <2>5, <3>1, <3>2, <2>1, <1>h, <1>e DEF RightCode, Ends, Forget
    <3>3. CASE ~ (e.receptor # 0 /\ ~ IsReceiver(e, Head(lote).token))
      <4>1. e'.receptor \in 1 .. 2
        <5>1. Life \in 1 .. 2
          BY DEF Life
        <5>2. e.receptor \in 0 .. 2
          BY <1>t DEF DeliveryType
        <5>3. CASE e.receptor # 0
          BY <2>5, <3>3, <5>2, <5>3 DEF RightCode
        <5>4. CASE e.receptor = 0
          BY <2>5, <3>3, <1>t, <5>1, <5>4 DEF RightCode, DeliveryType
        <5> QED
          BY <5>3, <5>4
      <4>2. [t |-> "bien", token |-> e'.receptor, de |-> Head(lote).de] \in Answer
        BY <4>1, <2>1, Messages
      <4> QED
        BY <2>5, <3>1, <3>3, <4>2, <2>2 DEF RightCode
    <3> QED
      BY <3>2, <3>3
  <2> QED
    BY <1>5, <2>3, <2>4, <2>5 DEF Codigo
<1>6. CASE Recibido
  <2>1. alHilo' \in Seq(Answer)
    BY <1>6, <1>t, <1>m, Tells, Messages DEF Recibido, TalkShape
  <2> QED
    BY <1>6, <2>1, <1>v, <1>t DEF Recibido, TalkShape, world, thread, link, history
<1>7. CASE Acuse
  <2>1. lote' \in Seq(Word) /\ UNCHANGED <<dado, world>>
    BY <1>7, <1>v DEF Acuse
  <2>2. CASE acuse # "no"
    <3>1. PICK quien \in {"solo", "dos"} : Firma(quien)
      BY <1>7, <2>2 DEF Acuse
    <3>2. <<[t |-> "final", recibo |-> quien]>> \in Seq(Answer)
      BY Messages, <1>m
    <3> QED
      BY <3>1, <3>2, <2>1, <1>h, <1>t DEF Firma, Forget, world, history, TalkShape
  <2>3. CASE acuse = "no"
    BY <1>7, <2>1, <2>3, <1>t DEF Acuse, queues, world, thread, link, history, TalkShape
  <2> QED
    BY <2>2, <2>3
<1>8. CASE Manipulado
  BY <1>8, <1>v, <1>h, <1>e, <1>t DEF Manipulado, Ends, Forget, world, history, TalkShape
<1>9. CASE Ignora \/ Acaba \/ Despierta \/ Suelta
  BY <1>9, <1>t, <1>q, <1>e
     DEF Ignora, Acaba, Despierta, Suelta, Leaves, Lost, Discarded, core, queues, link, history,
         TalkShape
<1>10. CASE Transmite
  <2>1. Head(alHilo) \in Answer /\ Tail(alHilo) \in Seq(Answer) /\ Answer \subseteq FrameDown
    BY <1>10, <1>q, <1>t, Messages DEF Transmite, TalkShape
  <2>2. baja' \in Seq(FrameDown)
    <3>1. baja' = baja \/ baja' = Append(baja, Head(alHilo))
      BY <1>10 DEF Transmite
    <3>2. Head(alHilo) \in FrameDown /\ baja \in Seq(FrameDown)
      BY <2>1, <1>t DEF TalkShape
    <3>3. Append(baja, Head(alHilo)) \in Seq(FrameDown)
      BY <3>2, Appends
    <3> QED
      BY <3>1, <3>2, <3>3
  <2>3. alHilo' \in Seq(Answer) /\ sube' \in Seq(FrameUp)
    BY <1>10, <2>1, <1>t, <1>e DEF Transmite, TalkShape
  <2>4. /\ fase' \in {"no", "rele", "sirve", "pausa"} /\ tab' \in Tabs \cup {None}
        /\ autorizado' \in BOOLEAN /\ perdido' \in BOOLEAN /\ roto' \in BOOLEAN
    BY <1>10, <1>t DEF Transmite, TalkShape, Lost, IsBien
  <2> QED
    BY <1>10, <2>2, <2>3, <2>4, <1>t DEF Transmite, core, TalkShape
<1>r. ASSUME NEW t, Frame(t)
      PROVE  Head(sube) \in FrameUp /\ Head(sube).t = t /\ sube' \in Seq(FrameUp)
  BY <1>r, <1>t, Tails DEF Frame, TalkShape
<1>11. CASE ServeCode \/ ServeWord
  <2>1. Says(Head(sube)) => delHilo' \in Seq(Word)
    BY <1>11, <1>r, <1>w, Carried DEF ServeCode, ServeWord
  <2>2. sube' \in Seq(FrameUp) /\ delHilo' \in Seq(Word)
    BY <1>11, <2>1, <1>r, <1>t DEF ServeCode, ServeWord, TalkShape
  <2> QED
    BY <1>11, <2>2, <1>t DEF ServeCode, ServeWord, core, thread, history, TalkShape
<1>12. CASE ServePiece
  <2>1. sube' \in Seq(FrameUp) /\ [t |-> "trozo", i |-> Head(sube).i] \in FrameDown
        /\ M("fin") \in FrameDown
    BY <1>12, <1>r, Carried, Messages DEF ServePiece
  <2>2. baja' \in Seq(FrameDown)
    <3>1. \A m \in FrameDown : Append(baja, m) \in Seq(FrameDown)
      BY <1>t, Appends DEF TalkShape
    <3> DEFINE m == IF Head(sube).i \in sellados THEN [t |-> "trozo", i |-> Head(sube).i] ELSE M("fin")
    <3>2. m \in FrameDown
      BY <2>1
    <3>3. baja' = baja \/ baja' = Append(baja, m)
      BY <1>12 DEF ServePiece
    <3> HIDE DEF m
    <3> QED
      BY <3>1, <3>2, <3>3, <1>t DEF TalkShape
  <2> QED
    BY <1>12, <2>1, <2>2, <1>t DEF ServePiece, core, queues, thread, history, TalkShape
<1>13. CASE ServeBroken
  <2>1. sube' \in Seq(FrameUp) /\ delHilo' \in Seq(Word)
    BY <1>13, <1>r, <1>w, Messages DEF ServeBroken
  <2> QED
    BY <1>13, <2>1, <1>t DEF ServeBroken, Leaves, core, history, TalkShape
<1>14. CASE Corta
  <2>1. sube' \in Seq(FrameUp) /\ baja' \in Seq(FrameDown)
    BY <1>14, <1>t, Cuts DEF Corta, TalkShape
  <2>2. perdido' \in BOOLEAN
    BY <1>14, <1>t DEF Corta, Lost, IsBien, TalkShape
  <2> QED
    BY <1>14, <2>1, <2>2, <1>t DEF Corta, core, queues, thread, TalkShape
<1>15. CASE Manipula
  <2>1. sube' \in Seq(FrameUp)
    BY <1>15, <1>t, Messages, Appends DEF Manipula, TalkShape
  <2> QED
    BY <1>15, <2>1, <1>t DEF Manipula, core, queues, thread, history, TalkShape
<1>16. CASE Muere
  <2>1. perdido' \in BOOLEAN
    BY <1>16, <1>t DEF Muere, Lost, IsBien, TalkShape
  <2> QED
    BY <1>16, <2>1, <1>t, <1>e DEF Muere, TalkShape
<1>17. CASE Vuelve
  BY <1>17, <1>t, <1>e DEF Vuelve, Arranca, queues, link, TalkShape
<1>18. ASSUME NEW t \in Tabs, Entra(t) PROVE TalkShape'
  <2>1. [pag[t] EXCEPT !.at = "entra"] \in PageType
    BY <1>p DEF PageType
  <2>2. pag' \in [Tabs -> PageType] /\ \A u \in Tabs : pag'[u].dicho \subseteq pag'[u].tiene
    BY <1>18, <2>1, <1>t, <1>p DEF Entra, TalkShape, PageType
  <2> QED
    BY <1>18, <2>2, <1>t, <1>e DEF Entra, core, queues, history, TalkShape
<1>19. ASSUME NEW t \in Tabs, NEW bien \in BOOLEAN, Da(t, bien) PROVE TalkShape'
  <2>1. [pag[t] EXCEPT !.at = "espera"] \in PageType
    BY <1>p DEF PageType
  <2>2. pag' \in [Tabs -> PageType] /\ \A u \in Tabs : pag'[u].dicho \subseteq pag'[u].tiene
    BY <1>19, <2>1, <1>t, <1>p DEF Da, TalkShape, PageType
  <2>3. sube' \in Seq(FrameUp)
    BY <1>19, <1>p, <1>x, Messages DEF Da
  <2> QED
    BY <1>19, <2>2, <2>3, <1>t DEF Da, core, queues, thread, history, TalkShape
<1>20. ASSUME NEW t \in Tabs, NEW i \in Files(e), Pide(t, i) PROVE TalkShape'
  <2>1. sube' \in Seq(FrameUp)
    BY <1>20, <1>t, <1>x, Changes, Messages DEF Pide
  <2> QED
    BY <1>20, <2>1, <1>t DEF Pide, core, queues, thread, history, TalkShape
<1>21. ASSUME NEW t \in Tabs, NEW i \in Files(e), Confirma(t, i) PROVE TalkShape'
  <2>1. i \in Pieces
    BY <1>t, Changes
  <2>2. [pag[t] EXCEPT !.dicho = @ \cup {i}] \in PageType
    BY <1>p, <2>1 DEF PageType
  <2>3. pag' \in [Tabs -> PageType] /\ \A u \in Tabs : pag'[u].dicho \subseteq pag'[u].tiene
    BY <1>21, <2>2, <1>t, <1>p DEF Confirma, TalkShape, PageType
  <2>4. sube' \in Seq(FrameUp)
    BY <1>21, <2>1, <1>x, Messages DEF Confirma
  <2> QED
    BY <1>21, <2>3, <2>4, <1>t DEF Confirma, core, queues, thread, history, TalkShape
<1>22. ASSUME NEW t \in Tabs, Lee(t) PROVE TalkShape'
  <2>1. Head(baja) \in FrameDown /\ baja' \in Seq(FrameDown)
    BY <1>22, <1>t, <1>q DEF Lee, TalkShape
  <2>2. Reads(t, Head(baja)) \in PageType
        /\ Reads(t, Head(baja)).dicho \subseteq Reads(t, Head(baja)).tiene
    BY <2>1, <1>p, ReadsWell
  <2>3. pag' \in [Tabs -> PageType] /\ \A u \in Tabs : pag'[u].dicho \subseteq pag'[u].tiene
    BY <1>22, <2>2, <1>t DEF Lee, TalkShape
  <2>4. sube' \in Seq(FrameUp)
    BY <1>22, <1>x, <1>t, Messages DEF Lee, TalkShape
  <2> QED
    BY <1>22, <2>1, <2>3, <2>4, <1>t DEF Lee, core, queues, thread, history, TalkShape
<1>23. ASSUME NEW t \in Tabs, Deja(t) PROVE TalkShape'
  <2>1. [pag[t] EXCEPT !.at = "fuera", !.dicho = {}] \in PageType
    BY <1>p DEF PageType
  <2>2. pag' \in [Tabs -> PageType] /\ \A u \in Tabs : pag'[u].dicho \subseteq pag'[u].tiene
    BY <1>23, <2>1, <1>t, <1>p DEF Deja, TalkShape, PageType
  <2> QED
    BY <1>23, <2>2, <1>t DEF Deja, core, queues, thread, link, history, TalkShape
<1>24. CASE UNCHANGED vars
  BY <1>24, <1>u, <1>t DEF vars, queues, TalkShape
<1> QED
  BY <1>1, <1>2, <1>3, <1>4, <1>5, <1>6, <1>7, <1>8, <1>9, <1>10, <1>11, <1>12, <1>13, <1>14,
     <1>15, <1>16, <1>17, <1>18, <1>19, <1>20, <1>21, <1>22, <1>23, <1>24 DEF Next

LEMMA ShapeHolds == Spec => []Shape
<1>1. Shape /\ [Next]_vars => Shape'
  BY DeliveryStep, TalkStep DEF Shape
<1> QED
  BY InitShape, <1>1, PTL DEF Spec

\* Every handler of the delivery keeps the record, the two threads' queues and
\* the tabs in their types, whatever is lost or restarted; and no tab tells
\* `recibido` of a file its own decoder has not finished.
THEOREM TypeCorrect == Spec => []TypeOK
<1>1. Shape => TypeOK
  BY DEF Shape, DeliveryShape, TalkShape, TypeOK, DiskType, PageType, Pieces
<1> QED
  BY ShapeHolds, <1>1, PTL
-----------------------------------------------------------------------------
(***************************************************************************)
(* What each step of the program does to the delivery, in the terms of the *)
(* proofs: the ways a code ends, what an end leaves as it was.             *)
(***************************************************************************)
\* The same receiver, files and reason.
Kin(c, d) ==
    c.receptor = d.receptor /\ c.recibidos = d.recibidos /\ c.archivos = d.archivos

LEMMA Destroys ==
    ASSUME NEW d \in DeliveryType, NEW why
    PROVE  /\ Kin(Destroyed(d, why), d)
           /\ d.estado \in Viva =>
                 Destroyed(d, why).estado = "destruida" /\ Destroyed(d, why).motivo = why
           /\ d.estado \notin Viva => Destroyed(d, why) = d
  BY DEF Destroyed, DeliveryType, Kin

Quiet == UNCHANGED <<claves, sellados, carga, hilo, delHilo>>

Right == MayTry(e) /\ Head(lote).bien = TRUE /\ dado' = dado \cup {Head(lote).de}
Wrong == MayTry(e) /\ Head(lote).bien = FALSE /\ dado' = dado

Late == /\ e.estado \in Viva /\ e'.estado = "caducada" /\ e'.motivo = e.motivo /\ Kin(e', e)
        /\ "tarde" \in notas' /\ Told(<<M("fin")>>) /\ Quiet /\ UNCHANGED <<paso, dado>>

Closed == /\ ~ MayTry(e) /\ e' = e /\ Told(<<M("fin")>>) /\ Quiet /\ UNCHANGED <<paso, dado, notas>>

Missed == /\ Wrong /\ e'.estado = e.estado /\ e'.motivo = e.motivo /\ Kin(e', e)
          /\ paso' = "mal" /\ Told(<<M("mal")>>) /\ Quiet /\ UNCHANGED notas

Burnt == /\ Wrong /\ e'.estado = "destruida" /\ e'.motivo = "codigo_distinto" /\ Kin(e', e)
         /\ paso' = "destruida" /\ Closes(<<>>) /\ sellados' = sellados \ Files(e) /\ UNCHANGED notas

Stranger == /\ Right /\ e.receptor # 0 /\ Head(lote).token # e.receptor
            /\ e'.estado = "destruida" /\ e'.motivo = "dispositivo_nuevo" /\ Kin(e', e)
            /\ paso' = "destruida" /\ Closes(<<>>) /\ sellados' = sellados \ Files(e) /\ UNCHANGED notas

First == /\ Right /\ e.receptor = 0 /\ e'.receptor = Life /\ e'.estado = "abierta"
         /\ e'.motivo = e.motivo /\ e'.recibidos = e.recibidos /\ e'.archivos = e.archivos
         /\ paso' = "abierta" /\ Quiet /\ UNCHANGED notas
         /\ Told(<<[t |-> "bien", token |-> Life, de |-> Head(lote).de]>>)

Again == /\ Right /\ e.receptor # 0 /\ Head(lote).token = e.receptor /\ e' = e
         /\ paso' = "abierta" /\ Quiet /\ UNCHANGED notas
         /\ Told(<<[t |-> "bien", token |-> e.receptor, de |-> Head(lote).de]>>)

Context ==
    /\ up = TRUE /\ up' = TRUE /\ paso = "" /\ lote # <<>> /\ lote' = Tail(lote)
    /\ Head(lote) \in Word /\ Head(lote) \in In(lote) /\ In(lote') \subseteq In(lote)
    /\ lote' \in Seq(Word)

\* Every event is the first word of the thread's, and is taken out.
LEMMA EventContext ==
    ASSUME Shape, NEW t, Event(t), up' = up
    PROVE  Context /\ Head(lote).t = t
<1>1. lote \in Seq(Word) /\ up \in BOOLEAN
  BY DEF Shape, DeliveryShape, TalkShape
<1>2. up = TRUE /\ paso = "" /\ lote # <<>> /\ Head(lote).t = t /\ lote' = Tail(lote)
  BY <1>1 DEF Event
<1>3. /\ Tail(lote) \in Seq(Word) /\ Head(lote) \in Word
      /\ In(lote) = In(Tail(lote)) \cup {Head(lote)}
  BY <1>1, <1>2, Tails
<1> QED
  BY <1>2, <1>3 DEF Context

LEMMA Codes ==
    ASSUME Shape, Codigo
    PROVE  /\ Context /\ Head(lote).t = "codigo" /\ Head(lote).de \in Tabs
           /\ Head(lote).bien \in BOOLEAN /\ Head(lote).token \in 0 .. 2
           /\ UNCHANGED <<thread, link, pag, faults, perdido, acuse, recibo, disco>>
           /\ notas \subseteq notas'
           /\ Late \/ Closed \/ Missed \/ Burnt \/ Stranger \/ First \/ Again
<1>t. e \in DeliveryType /\ up \in BOOLEAN /\ lote \in Seq(Word)
  BY DEF Shape, DeliveryShape, TalkShape
<1>1. Context /\ Head(lote).t = "codigo"
  <2>1. Event("codigo")
    BY DEF Codigo
  <2>2. up' = up
    BY DEF Codigo, LateCode, NotOpen, WrongCode, RightCode, Answers, Ends, Forget
  <2> QED
    BY <2>1, <2>2, EventContext
<1>2. Head(lote) \in CodeType /\ Head(lote).de \in Tabs /\ Head(lote).bien \in BOOLEAN
      /\ Head(lote).token \in 0 .. 2
  BY <1>1, Carried DEF Context
<1>3. UNCHANGED <<thread, link, pag, faults, perdido>> /\ notas \subseteq notas'
  BY DEF Codigo, LateCode
<1>a. \A m : Answers(m) => Told(<<m>>) /\ Quiet /\ UNCHANGED <<acuse, recibo, disco>>
  BY DEF Answers, Quiet, contents, receipt
<1>e. \A d : Ends(d) => e' = d /\ paso' = d.estado /\ Closes(<<>>) /\ sellados' = sellados \ Files(e)
             /\ UNCHANGED <<acuse, recibo, disco>>
  BY DEF Ends, Forget, receipt
<1>4. UNCHANGED <<acuse, recibo, disco>>
  BY <1>a, <1>e DEF Codigo, LateCode, NotOpen, WrongCode, RightCode
<1>5. CASE LateCode
  <2>1. e'.estado = "caducada" /\ e'.motivo = e.motivo /\ Kin(e', e)
    BY <1>5, <1>t DEF LateCode, DeliveryType, Kin
  <2> QED
    BY <1>5, <2>1, <1>a, <1>1, <1>2, <1>3, <1>4 DEF LateCode, Late
<1>6. CASE NotOpen /\ UNCHANGED notas
  BY <1>6, <1>a, <1>1, <1>2, <1>3, <1>4 DEF NotOpen, Closed
<1>7. CASE WrongCode /\ UNCHANGED notas
  <2> DEFINE d == [e EXCEPT !.fallos = @ + 1]
  <2>w. Wrong /\ e.estado \in Viva
    BY <1>7, <1>2 DEF WrongCode, Wrong, MayTry, Viva
  <2>1. d.estado = e.estado /\ d.motivo = e.motivo /\ Kin(d, e)
    BY <1>t DEF DeliveryType, Kin
  <2>2. CASE e' = d /\ paso' = "mal" /\ Answers(M("mal"))
    <3>1. Missed
      BY <1>7, <2>2, <2>1, <2>w, <1>a DEF Missed
    <3> QED
      BY <3>1, <1>1, <1>2, <1>3, <1>4
  <2>3. CASE Ends(Destroyed(d, "codigo_distinto"))
    <3>1. Destroyed(d, "codigo_distinto") = [d EXCEPT !.estado = "destruida", !.motivo = "codigo_distinto"]
      BY <2>1, <2>w DEF Destroyed
    <3>2. Destroyed(d, "codigo_distinto").estado = "destruida"
          /\ Destroyed(d, "codigo_distinto").motivo = "codigo_distinto"
          /\ Kin(Destroyed(d, "codigo_distinto"), e)
      BY <3>1, <1>t DEF DeliveryType, Kin
    <3>3. Burnt
      BY <1>7, <2>3, <3>2, <2>w, <1>e DEF Burnt
    <3> QED
      BY <3>3, <1>1, <1>2, <1>3, <1>4
  <2> QED
    BY <1>7, <2>2, <2>3 DEF WrongCode
<1>8. CASE RightCode /\ UNCHANGED notas
  <2>r. Right /\ e.estado \in Viva
    BY <1>8, <1>2 DEF RightCode, Right, MayTry, Viva
  <2>1. CASE e.receptor # 0 /\ ~ IsReceiver(e, Head(lote).token)
    <3>1. Ends(Destroyed(e, "dispositivo_nuevo"))
      BY <1>8, <2>1 DEF RightCode
    <3>2. Stranger
      BY <1>8, <2>1, <3>1, <2>r, <1>e, <1>t, Destroys DEF Stranger, IsReceiver
    <3> QED
      BY <3>2, <1>1, <1>2, <1>3, <1>4
  <2>2. CASE e.receptor # 0 /\ IsReceiver(e, Head(lote).token)
    <3>1. /\ e' = e /\ paso' = "abierta"
          /\ Answers([t |-> "bien", token |-> e.receptor, de |-> Head(lote).de])
      BY <1>8, <2>2 DEF RightCode
    <3>2. Again
      BY <1>8, <2>2, <3>1, <2>r, <1>a DEF Again, IsReceiver
    <3> QED
      BY <3>2, <1>1, <1>2, <1>3, <1>4
  <2>3. CASE e.receptor = 0
    <3>1. /\ e' = [e EXCEPT !.receptor = Life, !.estado = "abierta"] /\ paso' = "abierta"
          /\ Answers([t |-> "bien", token |-> e'.receptor, de |-> Head(lote).de])
      BY <1>8, <2>3 DEF RightCode
    <3>2. /\ e'.receptor = Life /\ e'.estado = "abierta" /\ e'.motivo = e.motivo
          /\ e'.recibidos = e.recibidos /\ e'.archivos = e.archivos
      BY <3>1, <1>t DEF DeliveryType
    <3>3. First
      BY <1>8, <2>3, <3>1, <3>2, <2>r, <1>a DEF First
    <3> QED
      BY <3>3, <1>1, <1>2, <1>3, <1>4
  <2> QED
    BY <2>1, <2>2, <2>3
<1> QED
  BY <1>5, <1>6, <1>7, <1>8 DEF Codigo

\* An end by hand, by time or by a frame that does not open.
Finish(d) == e' = d /\ paso' = d.estado /\ Closes(<<>>) /\ sellados' = sellados \ Files(e)
             /\ UNCHANGED <<up, acuse, recibo, disco>>

LEMMA HandEnds ==
    ASSUME Shape, Revoca \/ Caduca
    PROVE  /\ up = TRUE /\ up' = TRUE /\ paso = "" /\ lote = <<>> /\ e.estado \in Viva
           /\ e'.estado \in {"revocada", "caducada"} /\ e'.motivo = e.motivo /\ Kin(e', e)
           /\ Finish(e') /\ UNCHANGED <<lote, dado, world>>
<1>t. e \in DeliveryType /\ up \in BOOLEAN
  BY DEF Shape, DeliveryShape
<1>1. \A s : /\ [e EXCEPT !.estado = s].estado = s /\ [e EXCEPT !.estado = s].motivo = e.motivo
             /\ Kin([e EXCEPT !.estado = s], e)
  BY <1>t DEF DeliveryType, Kin
<1> QED
  BY <1>t, <1>1 DEF Revoca, Caduca, Free, Ends, Forget, Finish, receipt

LEMMA FrameEnds ==
    ASSUME Shape, Manipulado
    PROVE  /\ Context /\ Finish(e') /\ Kin(e', e) /\ UNCHANGED <<dado, world>>
           /\ \/ e.estado \in Viva /\ e'.estado = "destruida" /\ e'.motivo = "manipulada"
              \/ e.estado \notin Viva /\ e' = e
<1>t. e \in DeliveryType /\ up \in BOOLEAN /\ lote \in Seq(Word)
  BY DEF Shape, DeliveryShape, TalkShape
<1>1. Context
  <2>1. Event("manipulado") /\ up' = up
    BY DEF Manipulado, Ends, Forget
  <2> QED
    BY <2>1, EventContext
<1> QED
  BY <1>t, <1>1, Destroys DEF Manipulado, Ends, Forget, Finish, receipt

\* A confirmed file: what is kept and whether it was the last.
LEMMA FileEffects ==
    ASSUME Shape, Recibido
    PROVE  /\ Context /\ Head(lote).t = "recibido" /\ Head(lote).i \in Pieces
           /\ UNCHANGED <<claves, sellados, carga, recibo, hilo, delHilo, paso, dado, world>>
           /\ e'.receptor = e.receptor /\ e'.archivos = e.archivos /\ e'.motivo = e.motivo
           /\ \/ e.estado # "abierta" /\ e' = e /\ UNCHANGED <<alHilo, acuse, disco>>
              \/ /\ e.estado = "abierta" /\ e'.estado = "abierta"
                 /\ e'.recibidos = e.recibidos \cup {Head(lote).i}
                 /\ disco' = Saved' /\ UNCHANGED <<alHilo, acuse>>
              \/ /\ e.estado = "abierta" /\ e'.estado = "entregada"
                 /\ e'.recibidos = e.recibidos \cup {Head(lote).i} /\ e'.recibidos = Files(e')
                 /\ disco' = Saved' /\ Told(<<M("recibo")>>) /\ acuse' = "espera"
<1>t. e \in DeliveryType /\ up \in BOOLEAN /\ lote \in Seq(Word)
  BY DEF Shape, DeliveryShape, TalkShape
<1>1. Context /\ Head(lote).t = "recibido"
  <2>1. Event("recibido") /\ up' = up
    BY DEF Recibido
  <2> QED
    BY <2>1, EventContext
<1>2. Head(lote).i \in Pieces
  BY <1>1, Carried DEF Context
<1>3. UNCHANGED <<claves, sellados, carga, recibo, hilo, delHilo, paso, dado, world>>
  BY DEF Recibido, contents
<1>4. CASE e.estado # "abierta"
  BY <1>1, <1>2, <1>3, <1>4 DEF Recibido
<1>5. CASE e.estado = "abierta"
  <2> DEFINE d == [e EXCEPT !.recibidos = @ \cup {Head(lote).i}]
  <2>6. e' = Confirmed(e, Head(lote).i)
    BY <1>5 DEF Recibido
  <2>1. /\ d.receptor = e.receptor /\ d.archivos = e.archivos /\ d.motivo = e.motivo
        /\ d.estado = "abierta" /\ d.recibidos = e.recibidos \cup {Head(lote).i}
    BY <1>5, <1>t DEF DeliveryType
  <2>2. CASE d.recibidos = Files(d)
    <3>1. e' = [d EXCEPT !.estado = "entregada"]
      BY <2>1, <2>6, <2>2 DEF Confirmed, Files
    <3>2. /\ e'.receptor = e.receptor /\ e'.archivos = e.archivos /\ e'.motivo = e.motivo
          /\ e'.estado = "entregada" /\ e'.recibidos = d.recibidos
      BY <3>1, <1>t DEF DeliveryType
    <3>3. e'.recibidos = Files(e')
      BY <2>1, <2>2, <3>2 DEF Files
    <3> QED
      BY <1>1, <1>2, <1>3, <1>5, <2>1, <3>2, <3>3 DEF Recibido
  <2>3. CASE d.recibidos # Files(d)
    <3>1. e' = d
      BY <2>1, <2>6, <2>3 DEF Confirmed, Files
    <3> QED
      BY <1>1, <1>2, <1>3, <1>5, <2>1, <3>1 DEF Recibido
  <2> QED
    BY <2>2, <2>3
<1> QED
  BY <1>4, <1>5

Signs(quien) ==
    /\ recibo' = quien /\ acuse' = "no" /\ paso' = "entregada"
    /\ Closes(<<[t |-> "final", recibo |-> quien]>>) /\ sellados' = sellados \ Files(e)
    /\ UNCHANGED <<up, e, disco, dado, world>>

LEMMA Signatures ==
    ASSUME Shape, Acuse
    PROVE  /\ Context
           /\ \/ acuse # "no" /\ \E quien \in {"solo", "dos"} : Signs(quien)
              \/ acuse = "no" /\ UNCHANGED <<up, e, contents, receipt, queues, paso, disco, dado, world>>
<1>t. up \in BOOLEAN /\ lote \in Seq(Word)
  BY DEF Shape, DeliveryShape, TalkShape
<1>1. up' = up
  BY DEF Acuse, Firma, Forget
<1>e. Event("acuse")
  BY DEF Acuse
<1>2. Context
  BY <1>1, <1>e, EventContext
<1>3. CASE acuse # "no"
  BY <1>2, <1>3 DEF Acuse, Firma, Forget, Signs
<1>4. CASE acuse = "no"
  BY <1>2, <1>4 DEF Acuse
<1> QED
  BY <1>3, <1>4

LEMMA Overdue ==
    ASSUME Shape, AcuseVence
    PROVE  up = TRUE /\ up' = TRUE /\ paso = "" /\ acuse = "vence" /\ lote = <<>> /\ lote' = lote /\ Signs("solo")
  BY DEF Shape, DeliveryShape, AcuseVence, Firma, Forget, Free, Signs

-----------------------------------------------------------------------------
(***************************************************************************)
(* When nothing is on its way.                                             *)
(***************************************************************************)
LEMMA InitIdle == Init => Idle
<1> SUFFICES ASSUME Init PROVE Idle
  OBVIOUS
<1>1. e.receptor = 0 /\ e.recibidos = {}
  BY DEF Init, Nada
<1>2. \A t \in Tabs : pag[t].token = 0 /\ ~ Here(t) /\ pag[t].recibo = "no"
  BY DEF Init, Here
<1> QED
  BY <1>1, <1>2 DEF Init, Idle

LEMMA IdleStep == Shape /\ Idle /\ [Next]_vars => Idle'
<1> SUFFICES ASSUME Shape, Idle, [Next]_vars PROVE Idle'
  OBVIOUS
<1> USE DEF Idle
<1>t. e \in DeliveryType /\ disco.e \in DeliveryType /\ carga \in BOOLEAN /\ up \in BOOLEAN
      /\ pag \in [Tabs -> PageType]
  BY DEF Shape, DeliveryShape, DiskType, TalkShape
<1>h. UNCHANGED pag => \A t \in Tabs : Here(t)' = Here(t)
  BY DEF Here
\* A step of the program that was not filling it.
<1>p. ASSUME up', e'.estado # "preparando", UNCHANGED <<thread, link>> PROVE Idle'
  BY <1>p DEF thread, link
<1>1. CASE Archivo
  BY <1>1, <1>h DEF Archivo, queues, world, thread, link
<1>2. CASE Trozo
  <2>1. e'.receptor = e.receptor /\ e'.recibidos = e.recibidos /\ e'.estado = e.estado
    BY <1>2, <1>t DEF Trozo, DeliveryType
  <2> QED
    BY <1>2, <2>1, <1>h DEF Trozo, queues, world, thread, link
<1>3. CASE Lista
  <2>1. e'.estado = "esperando" /\ e.estado = "preparando" /\ up' /\ up
    BY <1>3, <1>t DEF Lista, Free, DeliveryType
  <2> QED
    BY <1>3, <2>1 DEF Lista, link
<1>4. CASE Guarda \/ Espera \/ Toma
  BY <1>4, <1>h DEF Guarda, Espera, Toma, Free, queues, world, thread, link
<1>5. CASE Revoca \/ Caduca
  BY <1>5, <1>p, HandEnds DEF world
<1>6. CASE Olvida
  <2>1. e'.estado = "nada"
    BY <1>6 DEF Olvida, Nada
  <2> QED
    BY <1>6, <2>1, <1>p DEF Olvida, Free, world
<1>7. CASE Codigo
  <2>1. up' /\ e.estado # "preparando" /\ UNCHANGED <<thread, link>>
    BY <1>7, Codes DEF Context
  <2>2. e'.estado # "preparando"
    BY <1>7, <2>1, Codes DEF Late, Closed, Missed, Burnt, Stranger, First, Again
  <2> QED
    BY <2>1, <2>2, <1>p
<1>8. CASE Recibido
  BY <1>8, <1>p, FileEffects DEF Context, world
<1>9. CASE Acuse
  BY <1>9, <1>p, Signatures DEF Context, world, Signs
<1>10. CASE Manipulado
  BY <1>10, <1>p, FrameEnds DEF Context, world
<1>11. CASE AcuseVence
  <2>1. /\ up' /\ UNCHANGED <<up, e, thread, link, pag, lote>> /\ delHilo' = <<>>
        /\ fase = "no" => alHilo' = alHilo
    BY <1>11, Overdue DEF Signs, world, Closes, Told, thread
  <2> QED
    BY <2>1, <1>h DEF thread, link
<1>12. CASE Ignora \/ Acaba \/ Despierta \/ Suelta \/ Transmite
  BY <1>12 DEF Ignora, Acaba, Despierta, Suelta, Transmite, Leaves, core, link
<1>13. CASE ServeCode \/ ServePiece \/ ServeWord \/ ServeBroken \/ Corta \/ Manipula
  BY <1>13 DEF ServeCode, ServePiece, ServeWord, ServeBroken, Corta, Manipula, Frame, Leaves,
     core, thread
<1>14. CASE Muere
  BY <1>14 DEF Muere, Fault
<1>15. CASE Vuelve
  <2>1. e'.estado # "preparando" /\ up'
    BY <1>15, <1>t DEF Vuelve, DeliveryType
  <2>2. fase' # "sirve" /\ roto'
    BY <1>15 DEF Vuelve, Arranca, queues, link
  <2> QED
    BY <2>1, <2>2
<1>16. ASSUME NEW t \in Tabs, Entra(t) PROVE Idle'
  BY <1>16 DEF Entra, core
<1>17. ASSUME NEW t \in Tabs, NEW bien, Da(t, bien) PROVE Idle'
  <2>1. up => e.estado # "preparando"
    BY <1>17 DEF Da, Here
  <2>2. roto => sube' = sube
    BY <1>17 DEF Da, Puts
  <2> QED
    BY <1>17, <2>1, <2>2 DEF Da, core, queues, thread
<1>18. ASSUME NEW t \in Tabs, NEW i, Pide(t, i) \/ Confirma(t, i) PROVE Idle'
  <2>1. up => e.estado # "preparando"
    BY <1>18 DEF Pide, Confirma, Here
  <2>2. roto => sube' = sube
    BY <1>18 DEF Pide, Confirma, Puts
  <2>3. UNCHANGED <<up, e, lote, paso, alHilo, delHilo, fase, baja, roto, faults>>
    BY <1>18 DEF Pide, Confirma, core, queues, thread
  <2> QED
    BY <2>1, <2>2, <2>3
<1>19. ASSUME NEW t \in Tabs, Lee(t) PROVE Idle'
  <2>1. up /\ e.estado # "preparando"
    BY <1>19, <1>t DEF Lee
  <2> QED
    BY <1>19, <2>1 DEF Lee, core, queues, thread
<1>20. ASSUME NEW t \in Tabs, Deja(t) PROVE Idle'
  <2>1. up => e.estado # "preparando"
    BY <1>20 DEF Deja, Here
  <2> QED
    BY <1>20, <2>1 DEF Deja, core, queues, thread, link
<1>21. CASE UNCHANGED vars
  BY <1>21, <1>h DEF vars, queues, world, thread, link
<1> QED
  BY <1>1, <1>2, <1>3, <1>4, <1>5, <1>6, <1>7, <1>8, <1>9, <1>10, <1>11, <1>12, <1>13, <1>14,
     <1>15, <1>16, <1>17, <1>18, <1>19, <1>20, <1>21 DEF Next

-----------------------------------------------------------------------------
(***************************************************************************)
(* What an end leaves.  A save follows it, so the disk must be known too:  *)
(* a restart takes its delivery from there and the sealed files stay.      *)
(***************************************************************************)
LEMMA InitForgets == Init => ForgetsInv
<1> SUFFICES ASSUME Init PROVE ForgetsInv
  OBVIOUS
<1>1. /\ e.estado = "preparando" /\ disco.e.estado = "nada" /\ disco.recibo = "no"
      /\ disco.claves = FALSE /\ claves = FALSE /\ carga = FALSE /\ acuse = "no" /\ recibo = "no" /\ up = TRUE
  BY DEF Init, Nada
<1> QED
  BY <1>1 DEF ForgetsInv, Emptied, EndsEmpty, Ended

LEMMA ForgetsStep == Shape /\ Idle /\ ForgetsInv /\ [Next]_vars => ForgetsInv'
<1> SUFFICES ASSUME Shape, Idle, ForgetsInv, [Next]_vars PROVE ForgetsInv'
  OBVIOUS
<1> USE DEF ForgetsInv, Emptied, EndsEmpty, Untold
<1>t. e \in DeliveryType /\ disco.e \in DeliveryType
  BY DEF Shape, DeliveryShape, DiskType
<1>s. Saved'.e = e' /\ Saved'.claves = claves' /\ Saved'.recibo = recibo'
  BY DEF Saved
<1>v. Viva \cap Ended = {} /\ "entregada" \in Ended /\ "preparando" \notin Ended
      /\ "abierta" \notin Ended /\ "esperando" \notin Ended /\ "nada" \notin Ended \cup Viva
      /\ "entregada" \notin Viva /\ "" \notin Ended \cup Viva
  BY DEF Viva, Ended
<1>f. \A last : Closes(last) => claves' = FALSE /\ carga' = FALSE
  BY DEF Closes
<1>i. \A c, d : c.archivos = d.archivos => Files(c) = Files(d)
  BY DEF Files
<1>n. world' = world => notas' = notas
  BY DEF world, history
<1>c. ASSUME UNCHANGED core, notas \subseteq notas' PROVE ForgetsInv'
  BY <1>c DEF core, contents, receipt
\* An end that is handled; if it had already come, nothing changes but the contents.
<1>e. ASSUME up, up', notas \subseteq notas', UNCHANGED <<acuse, recibo, disco>>,
             claves' = FALSE, sellados' = sellados \ Files(e), carga' = FALSE,
             e'.archivos = e.archivos, paso' = e'.estado,
             e' = e \/ (e.estado \in Viva /\ e'.estado \in Ended)
      PROVE  ForgetsInv'
  <2>1. sellados' \cap Files(e') = {} /\ sellados' \subseteq sellados /\ Files(disco'.e) = Files(disco.e)
    BY <1>e, <1>i
  <2>2. paso' # ""
    BY <1>e, <1>t, <1>v DEF DeliveryType
  <2> QED
    BY <1>e, <1>v, <2>1, <2>2
<1>g. ASSUME NEW quien \in {"solo", "dos"}, Signs(quien), up, acuse # "no" PROVE ForgetsInv'
  <2>1. sellados' \cap Files(e') = {} /\ sellados' \subseteq sellados /\ Files(disco'.e) = Files(disco.e)
    BY <1>g, <1>i DEF Signs
  <2> QED
    BY <1>g, <1>f, <1>v, <1>n, <2>1 DEF Signs
<1>1. CASE Archivo
  BY <1>1, <1>v, <1>n DEF Archivo, Free, receipt
<1>2. CASE Trozo
  <2>1. e'.estado = "preparando" /\ e.estado = "preparando" /\ up
    BY <1>2, <1>t DEF Trozo, Free, DeliveryType
  <2> QED
    BY <1>2, <2>1, <1>v, <1>s, <1>n DEF Trozo, receipt
<1>3. CASE Lista
  <2>1. e'.estado = "esperando" /\ e.estado = "preparando" /\ up
    BY <1>3, <1>t DEF Lista, Free, DeliveryType
  <2> QED
    BY <1>3, <2>1, <1>v, <1>s DEF Lista, receipt, contents, history
<1>4. CASE Guarda
  <2>1. disco'.e = e /\ disco'.claves = claves /\ disco'.recibo = recibo
    BY <1>4 DEF Guarda, Saved
  <2> QED
    BY <1>4, <2>1, <1>v, <1>n DEF Guarda, receipt, contents
<1>5. CASE Revoca \/ Caduca
  <2>1. {"revocada", "caducada"} \subseteq Ended
    BY DEF Ended
  <2> QED
    BY <1>5, <2>1, <1>e, <1>f, <1>n, HandEnds DEF Finish, Kin
<1>6. CASE Olvida
  <2>1. e' = Nada /\ disco' = Saved' /\ recibo' = "no" /\ acuse' = "no" /\ Closes(<<>>)
        /\ disco'.claves = claves'
    BY <1>6, <1>s DEF Olvida
  <2>2. e'.estado = "nada" /\ disco'.e.estado = "nada" /\ disco'.recibo = "no"
    <3>1. Nada.estado = "nada"
      BY DEF Nada
    <3>2. disco'.e = e' /\ disco'.recibo = recibo'
      BY <2>1, <1>s
    <3> QED
      BY <2>1, <3>1, <3>2
  <2> QED
    BY <2>1, <2>2, <1>v, <1>f
<1>7. CASE Toma
  BY <1>7, <1>n DEF Toma, receipt, contents
<1>7a. CASE Espera
  BY <1>7a, <1>n DEF Espera, Free, contents
<1>8. CASE Codigo
  <2>1. up /\ up' /\ UNCHANGED <<acuse, recibo, disco>> /\ notas \subseteq notas'
        /\ e.estado # "preparando" /\ paso = "" /\ disco.claves = claves
    BY <1>8, Codes DEF Context, Idle
  <2>2. CASE Late
    BY <2>1, <2>2, <1>v DEF Late, Quiet
  <2>3. CASE Closed \/ Again
    <3>1. e' = e /\ Quiet
      BY <2>3 DEF Closed, Again
    <3> QED
      BY <3>1, <2>1 DEF Quiet
  <2>4. CASE Missed \/ First
    <3>1. e.estado \in Viva /\ e'.estado \in Viva /\ e'.estado # "preparando" /\ Quiet
      BY <2>1, <2>4 DEF Missed, First, Right, Wrong, MayTry, Viva
    <3> QED
      BY <3>1, <2>1, <1>v DEF Quiet
  <2>5. CASE Burnt \/ Stranger
    <3>1. /\ e.estado \in Viva /\ e'.estado \in Ended /\ Closes(<<>>) /\ e'.archivos = e.archivos
          /\ sellados' = sellados \ Files(e) /\ paso' = e'.estado
      BY <2>5 DEF Burnt, Stranger, Right, Wrong, MayTry, Viva, Ended, Kin
    <3> QED
      BY <3>1, <2>1, <1>e, <1>f
  <2> QED
    BY <1>8, <2>2, <2>3, <2>4, <2>5, Codes
<1>9. CASE Recibido
  <2>1. up /\ up' /\ UNCHANGED <<claves, sellados, carga, recibo, notas, paso>>
        /\ (disco' = Saved' => disco'.claves = claves')
    BY <1>9, <1>n, <1>s, FileEffects DEF Context
  <2>2. CASE e' = e /\ UNCHANGED <<acuse, disco>>
    BY <2>1, <2>2
  <2>3. CASE e.estado = "abierta" /\ e'.estado = "abierta" /\ disco' = Saved' /\ UNCHANGED acuse
    BY <2>1, <2>3, <1>s, <1>v
  <2>4. CASE e.estado = "abierta" /\ e'.estado = "entregada" /\ disco' = Saved' /\ acuse' = "espera"
    BY <2>1, <2>4, <1>s, <1>v
  <2> QED
    BY <1>9, <2>2, <2>3, <2>4, FileEffects
<1>10. CASE Acuse
  <2>1. CASE UNCHANGED <<up, e, contents, receipt, queues, paso, disco, dado, world>>
    BY <2>1, <1>n DEF contents, receipt
  <2> QED
    BY <1>10, <2>1, <1>g, Signatures DEF Context
<1>11. CASE Manipulado
  <2>1. "destruida" \in Ended
    BY DEF Ended
  <2> QED
    BY <1>11, <2>1, <1>e, <1>f, <1>n, FrameEnds DEF Context, Finish, Kin
<1>12. CASE AcuseVence
  BY <1>12, <1>g, Overdue
<1>13. CASE Muere
  BY <1>13 DEF Muere
<1>14. CASE Vuelve
  <2>1. CASE disco.e.estado = "preparando"
    <3>1. "llenando" \in notas' /\ e'.estado = "revocada" /\ UNCHANGED <<disco, sellados, carga, acuse>>
          /\ recibo' = disco.recibo /\ claves' = disco.claves /\ ~ up /\ up'
      BY <1>14, <2>1, <1>t DEF Vuelve, DeliveryType
    <3>2. /\ ~ Untold' /\ disco.e.estado \notin Ended /\ disco.recibo = "no"
          /\ acuse = "no" /\ carga = FALSE
      BY <3>1, <2>1, <1>v DEF Shape, DeliveryShape
    <3> QED
      BY <3>1, <3>2, <1>v
  <2>2. CASE disco.e.estado # "preparando"
    <3>1. /\ e' = disco.e /\ claves' = disco.claves /\ recibo' = disco.recibo
          /\ UNCHANGED <<disco, sellados, carga, acuse>> /\ notas \subseteq notas' /\ ~ up /\ up'
          /\ disco.e.estado = "entregada" /\ disco.recibo = "no" => "firma" \in notas'
      BY <1>14, <2>2 DEF Vuelve
    <3> QED
      BY <3>1, <2>2, <1>v
  <2> QED
    BY <2>1, <2>2
<1>15. CASE Ignora \/ Acaba \/ Despierta \/ Suelta \/ Transmite
  BY <1>15, <1>c DEF Ignora, Acaba, Despierta, Suelta, Transmite, history
<1>16. CASE ServeCode \/ ServePiece \/ ServeWord \/ ServeBroken \/ Corta \/ Manipula
  BY <1>16, <1>c DEF ServeCode, ServePiece, ServeWord, ServeBroken, Corta, Manipula, history
<1>17. ASSUME NEW t \in Tabs,
              Entra(t) \/ Lee(t) \/ Deja(t) \/ (\E bien \in BOOLEAN : Da(t, bien))
                \/ \E i \in Files(e) : Pide(t, i) \/ Confirma(t, i)
       PROVE  ForgetsInv'
  BY <1>17, <1>c DEF Entra, Lee, Deja, Da, Pide, Confirma, history
<1>18. CASE UNCHANGED vars
  BY <1>18, <1>c, <1>n DEF vars, core
<1> QED
  BY <1>1, <1>2, <1>3, <1>4, <1>5, <1>6, <1>7, <1>7a, <1>8, <1>9, <1>10, <1>11, <1>12, <1>13, <1>14,
     <1>15, <1>16, <1>17, <1>18 DEF Next

LEMMA EndsHold == Spec => [](Shape /\ Idle /\ ForgetsInv)
<1> DEFINE IInv == Shape /\ Idle /\ ForgetsInv
<1>1. Init => IInv
  BY InitShape, InitIdle, InitForgets
<1>2. IInv /\ [Next]_vars => IInv'
  BY DeliveryStep, TalkStep, IdleStep, ForgetsStep DEF Shape
<1> QED
  BY <1>1, <1>2, PTL DEF Spec

LEMMA ListedStep == Shape /\ Idle /\ ForgetsInv /\ Listed /\ [Next]_vars => Listed'
<1> SUFFICES ASSUME Shape, Idle, ForgetsInv, Listed, [Next]_vars PROVE Listed'
  OBVIOUS
<1> USE DEF Listed, Offered
<1>t. e \in DeliveryType /\ disco.e \in DeliveryType /\ up \in BOOLEAN /\ carga \in BOOLEAN
  BY DEF Shape, DeliveryShape, DiskType
<1>i. \A c, d : c.archivos = d.archivos => Files(c) = Files(d)
  BY DEF Files
<1>s. Saved'.e = e'
  BY DEF Saved
<1>l. carga => e.estado = "preparando"
  BY DEF ForgetsInv, Emptied
\* Steps that leave the files, and at most change the state of an offered delivery.
<1>c. ASSUME UNCHANGED core PROVE Listed'
  BY <1>c DEF core, contents
<1>p. ASSUME up = TRUE, up' = TRUE, UNCHANGED <<sellados, carga>>, e'.archivos = e.archivos,
             disco' = disco \/ disco'.e = e',
             e' = e \/ (e.estado \in Offered /\ e'.estado # "preparando")
      PROVE  Listed'
  <2>1. Files(e') = Files(e) /\ (disco' = disco => Files(disco'.e) = Files(disco.e))
    BY <1>p, <1>i
  <2> QED
    BY <1>p, <1>l, <2>1
\* Ends: what stays was not on the list, and there is none of it once it was offered.
<1>e. ASSUME up = TRUE, up' = TRUE, carga' = FALSE, sellados' = sellados \ Files(e), disco' = disco,
             e'.archivos = e.archivos, e'.estado # "preparando",
             e.estado \in Offered \/ e'.estado \notin Offered
      PROVE  Listed'
  BY <1>e, <1>i
<1>f. \A last : Closes(last) => carga' = FALSE
  BY DEF Closes
<1>g. ASSUME NEW quien \in {"solo", "dos"}, Signs(quien), up = TRUE, acuse # "no" PROVE Listed'
  <2>1. e.estado = "entregada"
    BY <1>g DEF ForgetsInv, Emptied
  <2> QED
    BY <1>g, <2>1, <1>e, <1>f DEF Signs
<1>1. CASE Archivo
  <2>1. /\ up = TRUE /\ up' = TRUE /\ e' = e /\ disco' = disco /\ e.estado = "preparando"
        /\ carga = FALSE /\ carga' = TRUE /\ sellados' = sellados \cup {e.archivos + 1}
    BY <1>1, <1>t DEF Archivo, Free
  <2>2. disco.e.estado \in {"nada", "preparando"}
    BY <2>1 DEF ForgetsInv, Emptied
  <2> QED
    BY <2>1, <2>2
<1>2. CASE Trozo
  <2>1. /\ up = TRUE /\ up' = TRUE /\ carga = TRUE /\ carga' = FALSE /\ sellados' = sellados
        /\ e'.estado = e.estado /\ e'.archivos = e.archivos + 1 /\ disco'.e = e'
    BY <1>2, <1>t, <1>s DEF Trozo, Free, DeliveryType
  <2>2. Files(e') = Files(e) \cup {e.archivos + 1}
    <3>1. e.archivos \in Nat
      <4>1. e.archivos \in 0 .. MaxArchivos /\ MaxArchivos \in Nat
        BY <1>t, BoundsAssumption DEF DeliveryType
      <4> QED
        BY <4>1
    <3>2. \A n \in Nat : 1 .. (n + 1) = 1 .. n \cup {n + 1}
      OBVIOUS
    <3> QED
      BY <2>1, <3>1, <3>2 DEF Files
  <2> QED
    BY <2>1, <2>2, <1>l
<1>3. CASE Lista
  <2>1. /\ up = TRUE /\ up' = TRUE /\ carga = FALSE /\ UNCHANGED <<carga, sellados>>
        /\ e.estado = "preparando" /\ e'.estado = "esperando" /\ e'.archivos = e.archivos
        /\ disco'.e = e'
    BY <1>3, <1>t, <1>s DEF Lista, Free, contents, DeliveryType
  <2> QED
    BY <2>1, <1>i
<1>4. CASE Guarda
  <2>1. up = TRUE /\ up' = TRUE /\ UNCHANGED <<e, sellados, carga>> /\ disco'.e = e'
    BY <1>4, <1>t, <1>s DEF Guarda, contents, Saved
  <2> QED
    BY <2>1, <1>p
<1>5. CASE Revoca \/ Caduca
  BY <1>5, <1>e, <1>f, HandEnds DEF Finish, Kin
<1>6. CASE Olvida
  <2>1. up' = up /\ carga' = FALSE /\ sellados' = {} /\ e'.estado = "nada"
    BY <1>6, <1>f DEF Olvida, Nada
  <2> QED
    BY <2>1
<1>7. CASE Toma \/ Espera
  BY <1>7, <1>t, <1>p DEF Toma, Espera, Free, contents
<1>8. CASE Codigo
  <2>1. up = TRUE /\ up' = TRUE /\ disco' = disco /\ e.estado # "preparando"
    BY <1>8, Codes DEF Context, Idle
  <2>2. CASE Late \/ Closed \/ Missed \/ First \/ Again
    <3>1. /\ UNCHANGED <<sellados, carga>> /\ e'.archivos = e.archivos
          /\ e' = e \/ (e.estado \in Offered /\ e'.estado # "preparando")
      BY <2>1, <2>2 DEF Late, Closed, Missed, First, Again, Right, Wrong, Kin, MayTry, Viva, Quiet
    <3> QED
      BY <2>1, <3>1, <1>p
  <2>3. CASE Burnt \/ Stranger
    <3>1. /\ carga' = FALSE /\ sellados' = sellados \ Files(e) /\ e'.archivos = e.archivos
          /\ e'.estado = "destruida" /\ e.estado \in Offered
      BY <2>3, <1>f DEF Burnt, Stranger, Right, Wrong, Kin, MayTry
    <3> QED
      BY <2>1, <3>1, <1>e
  <2> QED
    BY <1>8, <2>2, <2>3, Codes
<1>9. CASE Recibido
  <2>1. /\ up = TRUE /\ up' = TRUE /\ UNCHANGED <<sellados, carga>> /\ e'.archivos = e.archivos
        /\ disco' = disco \/ disco'.e = e'
        /\ e' = e \/ (e.estado \in Offered /\ e'.estado # "preparando")
    BY <1>9, <1>s, FileEffects DEF Context
  <2> QED
    BY <2>1, <1>p
<1>10. CASE Acuse
  <2>1. CASE UNCHANGED <<up, e, contents, receipt, queues, paso, disco, dado, world>>
    BY <1>10, <2>1, <1>p, Signatures DEF contents, Context
  <2> QED
    BY <1>10, <2>1, <1>g, Signatures DEF Context
<1>11. CASE Manipulado
  <2>1. /\ up = TRUE /\ up' = TRUE /\ disco' = disco /\ carga' = FALSE
        /\ sellados' = sellados \ Files(e) /\ e'.archivos = e.archivos
    BY <1>11, <1>f, FrameEnds DEF Context, Finish, Kin
  <2>2. e.estado # "preparando"
    BY <1>11, <2>1, FrameEnds DEF Context, Idle
  <2>3. e'.estado # "preparando" /\ (e.estado \in Offered \/ e'.estado \notin Offered)
    BY <1>11, <2>2, FrameEnds DEF Viva
  <2> QED
    BY <2>1, <2>3, <1>e
<1>12. CASE AcuseVence
  BY <1>12, <1>g, Overdue
<1>13. CASE Muere
  BY <1>13 DEF Muere
<1>14. CASE Vuelve
  <2>1. /\ UNCHANGED <<sellados, carga, disco>> /\ carga = FALSE
    BY <1>14, <1>t DEF Vuelve, ForgetsInv, Emptied
  <2>2. CASE disco.e.estado = "preparando"
    <3>1. e'.estado = "revocada"
      BY <1>14, <2>2, <1>t DEF Vuelve, DeliveryType
    <3> QED
      BY <2>1, <3>1
  <2>3. CASE disco.e.estado # "preparando"
    <3>1. e' = disco.e
      BY <1>14, <2>3 DEF Vuelve
    <3> QED
      BY <2>1, <2>3, <3>1
  <2> QED
    BY <2>2, <2>3
<1>15. CASE Ignora \/ Acaba \/ Despierta \/ Suelta \/ Transmite
  BY <1>15, <1>c DEF Ignora, Acaba, Despierta, Suelta, Transmite
<1>16. CASE ServeCode \/ ServePiece \/ ServeWord \/ ServeBroken \/ Corta \/ Manipula
  BY <1>16, <1>c DEF ServeCode, ServePiece, ServeWord, ServeBroken, Corta, Manipula
<1>17. ASSUME NEW t \in Tabs,
              Entra(t) \/ Lee(t) \/ Deja(t) \/ (\E bien \in BOOLEAN : Da(t, bien))
                \/ \E i \in Files(e) : Pide(t, i) \/ Confirma(t, i)
       PROVE  Listed'
  BY <1>17, <1>c DEF Entra, Lee, Deja, Da, Pide, Confirma
<1>18. CASE UNCHANGED vars
  BY <1>18, <1>c DEF vars, core
<1> QED
  BY <1>1, <1>2, <1>3, <1>4, <1>5, <1>6, <1>7, <1>8, <1>9, <1>10, <1>11, <1>12, <1>13, <1>14,
     <1>15, <1>16, <1>17, <1>18 DEF Next

LEMMA ListedHolds == Spec => []Listed
<1>1. Init => Listed
  BY DEF Init, Listed, Nada, Offered
<1>2. (Shape /\ Idle /\ ForgetsInv) /\ Listed /\ [Next]_vars => Listed'
  BY ListedStep
<1> QED
  BY <1>1, <1>2, EndsHold, PTL DEF Spec

\* After every end that the program handles, whatever was on its way and wherever it
\* died: no key is held or, once that is saved, on the disk, and no file of the list is
\* left; of one that was offered, no file at all.
THEOREM EndAlwaysForgets == Spec => []EndForgets
<1>1. ForgetsInv /\ Listed => EndForgets
  <2> SUFFICES ASSUME ForgetsInv, Listed, up, e.estado \in Ended, acuse = "no",
                      notas \cap {"tarde", "llenando", "firma"} = {}
               PROVE  /\ ~claves /\ ~carga
                      /\ paso = "" => ~disco.claves
                      /\ sellados \cap Files(e) = {}
                      /\ e.estado \in {"entregada", "destruida"} => sellados = {}
    BY DEF EndForgets
  <2>1. ~claves /\ sellados \cap Files(e) = {}
    BY DEF ForgetsInv, EndsEmpty, Untold
  <2>2. ~carga /\ (paso = "" => ~disco.claves)
    BY <2>1 DEF ForgetsInv, Emptied, Ended
  <2>3. e.estado \in {"entregada", "destruida"} => sellados = {}
    BY <2>1 DEF Listed, Offered
  <2> QED
    BY <2>1, <2>2, <2>3
<1> QED
  BY EndsHold, ListedHolds, <1>1, PTL

-----------------------------------------------------------------------------
(***************************************************************************)
(* Whose turn it is: one question or one answer on its way.                *)
(***************************************************************************)
LEMMA InitTurns == Init => Turns
<1> SUFFICES ASSUME Init PROVE ~ MayTry(e)
  BY DEF Turns
<1> QED
  BY DEF Init, MayTry, Nada

LEMMA TurnsStep ==
    ASSUME Puntual, Shape, Idle, ForgetsInv, Turns, Owners, [Next]_vars
    PROVE  Turns'
<1> SUFFICES ASSUME up' = TRUE, MayTry(e') PROVE Turns'
  BY DEF Turns, Shape, DeliveryShape
<1> DEFINE Q == /\ hilo /\ fase # "no"
                /\ One(sube, Code) /\ One(delHilo, Code) /\ One(lote, Code) /\ One(baja, Result)
                /\ Asks(lote) => ~ Asks(delHilo) /\ ~ Asks(sube) /\ ~ Answered
                /\ Asks(delHilo) => ~ Asks(sube) /\ ~ Answered
                /\ Asks(sube) => ~ Answered
                /\ Replies(alHilo) => ~ Replies(baja)
                /\ alHilo # <<>> => Replies(alHilo) /\ Tail(alHilo) = <<>>
                /\ fase = "rele" => ~ Asks(delHilo) /\ ~ Asks(lote) /\ alHilo = <<>>
           Q1 == \A t \in Tabs : pag[t].at = "entra" /\ ~ roto =>
                    ~ Asks(sube) /\ ~ Asks(delHilo) /\ ~ Asks(lote) /\ ~ Answered
<1>q. up = TRUE /\ MayTry(e) => Q /\ Q1
  BY DEF Turns
<1>z. Q' /\ Q1' => Turns'
  BY DEF Turns
<1>t. /\ e \in DeliveryType /\ disco.e \in DeliveryType /\ up \in BOOLEAN
      /\ alHilo \in Seq(Answer) /\ delHilo \in Seq(Word) /\ lote \in Seq(Word)
      /\ sube \in Seq(FrameUp) /\ baja \in Seq(FrameDown) /\ pag \in [Tabs -> PageType]
      /\ roto \in BOOLEAN
  BY DEF Shape, DeliveryShape, TalkShape, DiskType
<1>n. \A K : ~ Some(<<>>, K) /\ One(<<>>, K)
  BY Nothing
<1>v. /\ MayTry(e) => e.estado \in Viva /\ e.estado # "preparando"
      /\ \A d : d.estado \in Ended \cup {"nada", "preparando"} => ~ MayTry(d)
  BY DEF MayTry, Viva, Ended
<1>u. ASSUME up = TRUE, MayTry(e), UNCHANGED <<hilo, alHilo, delHilo, lote, thread, link, pag>> PROVE Turns'
  BY <1>u, <1>q DEF Turns, thread, link, Answered
<1>1. CASE Archivo \/ Trozo
  <2>1. up = TRUE /\ MayTry(e)
    BY <1>1, <1>t DEF Archivo, Trozo, Free, DeliveryType, MayTry
  <2> QED
    BY <1>1, <2>1, <1>u DEF Archivo, Trozo, queues, world
<1>2. CASE Lista
  <2>1. /\ delHilo' = <<>> /\ alHilo' = <<>> /\ lote' = <<>> /\ sube' = <<>> /\ baja' = <<>>
        /\ hilo' = TRUE /\ fase' = "rele" /\ roto'
    BY <1>2 DEF Lista, Arranca, Free, Idle, link
  <2> QED
    BY <2>1, <1>n, <1>z DEF Asks, Replies, Answered
<1>3. CASE Guarda \/ Espera
  BY <1>3, <1>t, <1>u DEF Guarda, Espera, Free, queues, world
<1>4. CASE Revoca \/ Caduca \/ Olvida
  <2>1. e'.estado \in Ended \cup {"nada"}
    <3>1. CASE Olvida
      <4>1. e' = Nada
        BY <3>1 DEF Olvida
      <4> QED
        BY <4>1 DEF Nada
    <3>2. CASE Revoca \/ Caduca
      BY <3>2, HandEnds DEF Ended
    <3> QED
      BY <1>4, <3>1, <3>2
  <2> QED
    BY <2>1, <1>v
<1>5. CASE Manipulado
  <2>1. e'.estado = "destruida" \/ (e' = e /\ e.estado \notin Viva)
    BY <1>5, FrameEnds
  <2> QED
    BY <2>1, <1>v DEF Ended
<1>6. CASE AcuseVence
  <2>1. e.estado = "entregada" /\ e' = e
    BY <1>6, Overdue DEF Signs, ForgetsInv, Emptied
  <2> QED
    BY <2>1, <1>v DEF Ended
<1>7. CASE Toma
  <2>1. /\ up = TRUE /\ MayTry(e) /\ lote = <<>> /\ lote' = delHilo /\ delHilo' = <<>>
        /\ UNCHANGED <<hilo, alHilo, thread, link, pag>>
    BY <1>7, <1>t DEF Toma, Free, world
  <2> QED
    BY <2>1, <1>n, <1>q, <1>z DEF Asks, Replies, Answered, thread, link
\* The event at the front goes, and what was said of it.
<1>e. ASSUME Context, UNCHANGED <<thread, link, pag>>
      PROVE  /\ One(lote, Code) => One(lote', Code) /\ (Head(lote).t = "codigo" => ~ Asks(lote'))
             /\ Asks(lote) <=> Asks(lote') \/ Head(lote).t = "codigo"
  BY <1>e, <1>t, Shrinks DEF Context, Asks, Code
<1>8. CASE Codigo
  <2>1. Context /\ Head(lote).t = "codigo" /\ UNCHANGED <<thread, link, pag>>
    BY <1>8, Codes
  <2>2. Missed \/ First \/ Again
    BY <1>8, Codes, <1>v DEF Late, Closed, Burnt, Stranger, Ended, MayTry
  <2>3. MayTry(e) /\ up = TRUE /\ Quiet
    BY <2>1, <2>2 DEF Missed, First, Again, Right, Wrong, Context
  <2>4. /\ Asks(lote) /\ ~ Asks(delHilo) /\ ~ Asks(sube) /\ ~ Answered /\ alHilo = <<>>
        /\ ~ Asks(lote') /\ One(lote', Code) /\ fase # "rele"
        /\ \A t \in Tabs : ~ (pag[t].at = "entra" /\ ~ roto)
    BY <2>1, <2>3, <1>e, <1>q DEF Answered
  <2>5. PICK m : m.t \in Result /\ m \in Answer /\ Told(<<m>>)
    <3>1. CASE Missed
      BY <3>1, Messages DEF Missed, Result, M
    <3>2. CASE First \/ Again
      <4>1. Life \in 1 .. 2 /\ (e.receptor # 0 => e.receptor \in 1 .. 2)
        <5>1. Life \in 1 .. 2
          BY DEF Life
        <5>2. e.receptor \in 0 .. 2
          BY <1>t DEF DeliveryType
        <5> QED
          BY <5>1, <5>2
      <4>2. PICK n \in 1 .. 2 : Told(<<[t |-> "bien", token |-> n, de |-> Head(lote).de]>>)
        BY <3>2, <4>1 DEF First, Again
      <4>3. [t |-> "bien", token |-> n, de |-> Head(lote).de] \in Answer
        BY <1>8, Messages, Codes
      <4> QED
        BY <4>2, <4>3 DEF Result
    <3> QED
      BY <2>2, <3>1, <3>2
  <2>6. alHilo' = <<m>> /\ Replies(alHilo') /\ Tail(alHilo') = <<>>
    <3>1. <<>> \o <<m>> = <<m>>
      BY <2>5
    <3>2. alHilo' = <<m>>
      BY <2>3, <2>4, <2>5, <3>1, <1>q DEF Told
    <3> QED
      BY <2>5, <3>2, Single DEF Replies
  <2> QED
    BY <2>1, <2>3, <2>4, <2>6, <1>q, <1>z DEF Answered, Quiet, thread, link
<1>9. CASE Recibido
  <2>1. /\ Context /\ UNCHANGED <<hilo, delHilo, thread, link, pag, alHilo>>
        /\ MayTry(e) /\ Head(lote).t = "recibido"
    <3>1. e'.estado # "entregada"
      BY <1>v DEF Ended
    <3> QED
      BY <1>9, <3>1, <1>v, FileEffects DEF world, MayTry
  <2> QED
    BY <2>1, <1>e, <1>q, <1>z DEF Answered, thread, link, Context
<1>10. CASE Acuse
  <2>1. acuse = "no"
    <3>1. acuse # "no" => e.estado = "entregada" /\ e' = e
      BY <1>10, Signatures DEF Signs, ForgetsInv, Emptied
    <3> QED
      BY <3>1, <1>v DEF Ended
  <2>2. Context /\ UNCHANGED <<e, hilo, delHilo, alHilo, thread, link, pag>>
    BY <1>10, <2>1, Signatures DEF world, queues
  <2> QED
    BY <2>2, <1>e, <1>q, <1>z DEF Answered, thread, link, Context
<1>11. CASE Muere
  BY <1>11 DEF Muere
<1>12. CASE Vuelve
  <2>1. up = FALSE
    BY <1>12, <1>t DEF Vuelve
  <2>2. Waits(e'.estado)
    BY DEF Waits, MayTry
  <2>3. /\ delHilo' = <<>> /\ alHilo' = <<>> /\ lote' = <<>> /\ sube' = <<>> /\ baja' = <<>>
        /\ hilo' = TRUE /\ fase' = "rele" /\ roto'
    BY <1>12, <2>1, <2>2 DEF Vuelve, Arranca, Idle, link
  <2> QED
    BY <2>3, <1>n, <1>z DEF Asks, Replies, Answered
<1> DEFINE Same == UNCHANGED <<up, e, lote>>
<1>c. UNCHANGED core => Same
  BY DEF core
<1>o. ASSUME Same PROVE up = TRUE /\ MayTry(e) /\ Q /\ Q1
  BY <1>o, <1>q
<1>h. ASSUME alHilo # <<>>
      PROVE  /\ Head(alHilo) \in Answer /\ Tail(alHilo) \in Seq(Answer)
             /\ Replies(alHilo) <=> Replies(Tail(alHilo)) \/ Head(alHilo).t \in Result
  BY <1>h, <1>t, Tails, Shrinks DEF Replies
<1>13. CASE Ignora
  <2>1. Same /\ alHilo # <<>> /\ alHilo' = Tail(alHilo) /\ fase \in {"rele", "pausa"}
        /\ UNCHANGED <<hilo, delHilo, link, pag>> /\ fase' \in {"rele", "pausa"}
    BY <1>13, <1>c DEF Ignora, Discarded
  <2>2. alHilo' = <<>> /\ ~ Asks(delHilo) /\ ~ Asks(lote) /\ ~ Replies(alHilo')
    BY <2>1, <1>o, <1>n DEF Answered, Replies
  <2> QED
    BY <2>1, <2>2, <1>o, <1>z DEF Answered, link
<1>14. CASE Acaba
  <2>1. Same /\ alHilo # <<>> /\ Head(alHilo).t = "fin"
    BY <1>14, <1>c DEF Acaba
  <2>2. Replies(alHilo) /\ ~ Replies(Tail(alHilo))
    BY <2>1, <1>o, <1>n DEF Replies
  <2> QED
    BY <2>1, <2>2, <1>h DEF Result
<1>15. CASE Despierta
  <2>1. /\ Same /\ delHilo = <<>> /\ alHilo = <<>> /\ lote = <<>> /\ fase' = "rele"
        /\ UNCHANGED <<hilo, delHilo, alHilo, link, pag>>
    BY <1>15, <1>c DEF Despierta, Free, queues
  <2> QED
    BY <2>1, <1>o, <1>n, <1>z DEF Answered, link, Asks
<1>16. CASE Suelta
  <2>1. Same /\ fase' = "pausa" /\ roto' = TRUE /\ UNCHANGED <<hilo, delHilo, alHilo, sube, baja, pag>>
    BY <1>16, <1>c DEF Suelta, Leaves, queues
  <2> QED
    BY <2>1, <1>o, <1>z DEF Answered
<1>17. CASE Transmite
  <2>1. Same /\ alHilo # <<>> /\ UNCHANGED <<hilo, delHilo, pag>> /\ fase = "sirve"
    BY <1>17, <1>c DEF Transmite
  <2>2. /\ Replies(alHilo) /\ Tail(alHilo) = <<>> /\ ~ Replies(baja) /\ ~ Asks(sube)
        /\ ~ Asks(delHilo) /\ ~ Asks(lote) /\ Head(alHilo).t \in Result
        /\ \A t \in Tabs : ~ (pag[t].at = "entra" /\ ~ roto)
    <3>1. Replies(alHilo) /\ Tail(alHilo) = <<>> /\ ~ Replies(Tail(alHilo))
      BY <2>1, <1>o, <1>n DEF Replies
    <3> QED
      BY <2>1, <3>1, <1>o, <1>h DEF Answered
  <2>3. /\ alHilo' = <<>> /\ UNCHANGED <<fase, roto, sube>>
        /\ baja' = baja \/ baja' = Append(baja, Head(alHilo))
    BY <1>17, <2>2 DEF Transmite, Result
  <2>4. One(baja', Result)
    <3>1. Head(alHilo) \in FrameDown
      BY <2>1, <1>h, Messages
    <3>2. ~ Some(baja, Result) /\ One(baja, Result)
      BY <2>1, <2>2, <1>o DEF Replies
    <3>3. One(Append(baja, Head(alHilo)), Result)
      BY <3>1, <3>2, <1>t, Grows
    <3> QED
      BY <2>3, <3>2, <3>3
  <2>5. ~ Replies(alHilo')
    BY <2>3, <1>n DEF Replies
  <2> QED
    BY <2>1, <2>2, <2>3, <2>4, <2>5, <1>o, <1>z DEF Answered
\* A frame comes in.
<1>f. ASSUME NEW k, Frame(k)
      PROVE  /\ Head(sube) \in FrameUp /\ Head(sube).t = k /\ fase = "sirve"
             /\ One(sube, Code) => One(sube', Code) /\ (k = "codigo" => ~ Asks(sube'))
             /\ Asks(sube) <=> Asks(sube') \/ k = "codigo"
  BY <1>f, <1>t, Tails, Shrinks DEF Frame, Asks, Code
\* The thread says a word.
<1>s. ASSUME NEW m \in Word, Says(m)
      PROVE  /\ Asks(delHilo') => Asks(delHilo) \/ m.t = "codigo"
             /\ One(delHilo, Code) /\ (m.t # "codigo" \/ ~ Asks(delHilo)) => One(delHilo', Code)
  <2>1. /\ Some(Append(delHilo, m), Code) <=> Some(delHilo, Code) \/ m.t \in Code
        /\ One(delHilo, Code) /\ (m.t \notin Code \/ ~ Some(delHilo, Code)) => One(Append(delHilo, m), Code)
    BY <1>s, <1>t, Grows
  <2> QED
    BY <1>s, <2>1 DEF Says, Asks, Code
<1>18. CASE ServeCode
  <2>1. /\ Same /\ Frame("codigo") /\ Says(Head(sube))
        /\ UNCHANGED <<hilo, alHilo, fase, baja, roto, pag>>
    BY <1>18, <1>c DEF ServeCode, thread
  <2>2. Head(sube) \in Word /\ Head(sube).t = "codigo" /\ fase = "sirve" /\ Asks(sube) /\ ~ Asks(sube')
        /\ One(sube', Code)
    BY <2>1, <1>f, <1>o, Carried
  <2>3. ~ Asks(delHilo) /\ ~ Asks(lote) /\ ~ Answered /\ One(delHilo', Code)
        /\ \A t \in Tabs : ~ (pag[t].at = "entra" /\ ~ roto)
    BY <2>1, <2>2, <1>o, <1>s
  <2> QED
    BY <2>1, <2>2, <2>3, <1>o, <1>z DEF Answered
<1>19. CASE ServePiece
  <2>1. /\ Same /\ Frame("pide") /\ UNCHANGED <<hilo, alHilo, delHilo, fase, roto, pag>>
    BY <1>19, <1>c DEF ServePiece, thread, queues
  <2>2. One(baja', Result) /\ (Replies(baja') <=> Replies(baja))
    <3> DEFINE m == IF Head(sube).i \in sellados THEN [t |-> "trozo", i |-> Head(sube).i] ELSE M("fin")
    <3>1. m \in FrameDown /\ m.t \notin Result
      BY <2>1, <1>f, Carried, Messages DEF M, Result
    <3>2. baja' = baja \/ baja' = Append(baja, m)
      BY <1>19 DEF ServePiece
    <3> HIDE DEF m
    <3>3. /\ Some(Append(baja, m), Result) <=> Some(baja, Result)
          /\ One(baja, Result) => One(Append(baja, m), Result)
      BY <3>1, <1>t, Grows
    <3> QED
      BY <2>1, <3>2, <3>3, <1>o DEF Replies
  <2> QED
    BY <2>1, <2>2, <1>f, <1>o, <1>z DEF Answered
<1>20. CASE ServeWord
  <2>1. /\ Same /\ (Frame("recibido") \/ Frame("acuse")) /\ UNCHANGED <<hilo, alHilo, fase, baja, roto, pag>>
        /\ Says(Head(sube)) \/ UNCHANGED delHilo
    BY <1>20, <1>c DEF ServeWord, thread
  <2>2. /\ Head(sube) \in Word /\ Head(sube).t # "codigo" /\ fase = "sirve"
        /\ Asks(sube) <=> Asks(sube')
        /\ One(sube, Code) => One(sube', Code)
    BY <2>1, <1>f, Carried
  <2>3. One(delHilo', Code) /\ (Asks(delHilo') => Asks(delHilo))
    BY <2>1, <2>2, <1>s, <1>o
  <2> QED
    BY <2>1, <2>2, <2>3, <1>o, <1>z DEF Answered
<1>21. CASE ServeBroken
  <2>1. /\ Same /\ Frame("rota") /\ UNCHANGED <<hilo, alHilo, baja, pag>> /\ fase' = "pausa"
        /\ Says(M("manipulado")) /\ roto' = TRUE
    BY <1>21, <1>c DEF ServeBroken, Leaves
  <2>2. One(delHilo', Code) /\ (Asks(delHilo') => Asks(delHilo))
    <3>1. M("manipulado").t # "codigo"
      BY DEF M
    <3> QED
      BY <2>1, <3>1, <1>s, <1>o, Messages
  <2> QED
    BY <2>1, <2>2, <1>f, <1>o, <1>z DEF Answered
<1>22. CASE Corta
  <2>1. Same /\ UNCHANGED <<hilo, alHilo, delHilo, fase, pag>> /\ roto' = TRUE
    BY <1>22, <1>c DEF Corta, queues, thread
  <2>2. One(sube', Code) /\ (Asks(sube') => Asks(sube))
    BY <1>22, <2>1, <1>o, <1>t, Breaks DEF Corta, Asks
  <2>3. One(baja', Result) /\ (Replies(baja') => Replies(baja))
    BY <1>22, <2>1, <1>o, <1>t, Breaks DEF Corta, Replies
  <2> QED
    BY <2>1, <2>2, <2>3, <1>o, <1>z DEF Answered
\* A tab puts a frame in the link.
<1>p. ASSUME NEW m \in FrameUp, Puts(m)
      PROVE  /\ Asks(sube') => Asks(sube) \/ (m.t = "codigo" /\ ~ roto)
             /\ One(sube, Code) /\ (m.t # "codigo" \/ ~ Asks(sube)) => One(sube', Code)
  <2>1. /\ Some(Append(sube, m), Code) <=> Some(sube, Code) \/ m.t \in Code
        /\ One(sube, Code) /\ (m.t \notin Code \/ ~ Some(sube, Code)) => One(Append(sube, m), Code)
    BY <1>p, <1>t, Grows
  <2> QED
    BY <1>p, <2>1 DEF Puts, Asks, Code
<1>23. CASE Manipula
  <2>1. Same /\ UNCHANGED <<hilo, alHilo, delHilo, fase, baja, roto, pag>> /\ Puts(M("rota"))
    BY <1>23, <1>c DEF Manipula, queues, thread, Puts
  <2>2. One(sube', Code) /\ (Asks(sube') => Asks(sube))
    <3>1. M("rota").t # "codigo"
      BY DEF M
    <3> QED
      BY <2>1, <3>1, <1>p, <1>o, Messages
  <2> QED
    BY <2>1, <2>2, <1>o, <1>z DEF Answered
<1>24. ASSUME NEW t \in Tabs, Entra(t) PROVE Turns'
  <2>1. Same /\ UNCHANGED <<hilo, alHilo, delHilo, baja>> /\ fase = "rele" /\ fase' = "sirve"
        /\ baja = <<>> /\ sube' = <<>>
    BY <1>24, <1>c DEF Entra, queues
  <2>2. ~ Asks(delHilo) /\ ~ Asks(lote) /\ alHilo = <<>> /\ ~ Asks(sube') /\ One(sube', Code)
    BY <2>1, <1>o, <1>n DEF Asks
  <2>3. ~ Replies(baja) /\ ~ Replies(alHilo)
    BY <2>1, <2>2, <1>n DEF Replies
  <2> QED
    BY <2>1, <2>2, <2>3, <1>o, <1>z DEF Answered
<1>25. ASSUME NEW t \in Tabs, NEW bien \in BOOLEAN, Da(t, bien) PROVE Turns'
  <2> DEFINE m == [t |-> "codigo", bien |-> bien, token |-> pag[t].token, de |-> t]
  <2>1. /\ Same /\ UNCHANGED <<hilo, alHilo, delHilo, fase, baja, roto>> /\ pag[t].at = "entra"
        /\ Puts(m) /\ pag' = [pag EXCEPT ![t].at = "espera"]
    BY <1>25, <1>c DEF Da, queues, thread
  <2>2. m \in FrameUp
    BY <1>t, Messages DEF PageType
  <2>3. /\ pag'[t].at = "espera"
        /\ \A u \in Tabs : pag'[u].at = "entra" => u # t /\ pag[u].at = "entra"
    BY <2>1, <1>t DEF PageType
  <2>4. \A u \in Tabs : pag'[u].at # "entra"
    BY <2>1, <2>3 DEF Owners, OneAtATime, Here
  <2>5. roto = FALSE => ~ Asks(sube) /\ ~ Asks(delHilo) /\ ~ Asks(lote) /\ ~ Answered
    BY <2>1, <1>o
  <2> HIDE DEF m
  <2>6. Asks(sube') => Asks(sube) \/ (~ Asks(sube) /\ ~ Asks(delHilo) /\ ~ Asks(lote) /\ ~ Answered)
    BY <2>1, <2>2, <2>5, <1>p, <1>t
  <2>7. One(sube', Code)
    <3>1. CASE roto = TRUE
      BY <2>1, <3>1, <1>o DEF Puts
    <3>2. CASE roto = FALSE
      BY <2>1, <2>2, <2>5, <3>2, <1>p, <1>o
    <3> QED
      BY <3>1, <3>2, <1>t
  <2> QED
    BY <2>1, <2>4, <2>6, <2>7, <1>o, <1>z DEF Answered
<1>26. ASSUME NEW t \in Tabs, NEW i \in Files(e), Pide(t, i) \/ Confirma(t, i) PROVE Turns'
  <2>1. /\ Same /\ UNCHANGED <<hilo, alHilo, delHilo, fase, baja, roto>>
        /\ pag' = pag \/ pag' = [pag EXCEPT ![t].dicho = @ \cup {i}]
        /\ Puts([t |-> "pide", i |-> i]) \/ Puts([t |-> "recibido", i |-> i])
    BY <1>26, <1>c DEF Pide, Confirma, queues, thread
  <2>2. \A u \in Tabs : pag'[u].at = pag[u].at
    <3>1. CASE pag' = pag
      BY <3>1
    <3>2. CASE pag' = [pag EXCEPT ![t].dicho = @ \cup {i}]
      BY <3>2, <1>t DEF PageType
    <3> QED
      BY <2>1, <3>1, <3>2
  <2>3. One(sube', Code) /\ (Asks(sube') => Asks(sube))
    <3>1. i \in Pieces
      BY <1>t, Changes
    <3>2. [t |-> "pide", i |-> i] \in FrameUp /\ [t |-> "recibido", i |-> i] \in FrameUp
      BY <3>1, Messages
    <3> QED
      BY <2>1, <3>2, <1>p, <1>o
  <2> QED
    BY <2>1, <2>2, <2>3, <1>o, <1>z DEF Answered
<1>27. ASSUME NEW t \in Tabs, Lee(t) PROVE Turns'
  <2> DEFINE m == Head(baja)
  <2>1. /\ Same /\ UNCHANGED <<hilo, alHilo, delHilo, fase, roto>> /\ baja # <<>>
        /\ baja' = Tail(baja) /\ pag' = [pag EXCEPT ![t] = Reads(t, m)]
        /\ Puts(M("acuse")) \/ UNCHANGED sube
    BY <1>27, <1>c DEF Lee, queues, thread
  <2>2. /\ One(baja, Result) => One(baja', Result) /\ (m.t \in Result => ~ Replies(baja'))
        /\ Replies(baja) <=> Replies(baja') \/ m.t \in Result
    BY <2>1, <1>t, Shrinks DEF Replies
  <2>3. One(sube', Code) /\ (Asks(sube') => Asks(sube))
    <3>1. M("acuse").t # "codigo"
      BY DEF M
    <3> QED
      BY <2>1, <3>1, <1>p, <1>o, Messages
  <2>4. pag'[t].at = "entra" => m.t = "mal" \/ pag[t].at = "entra"
    <3>1. pag[t] \in PageType /\ pag'[t] = Reads(t, m)
      BY <2>1, <1>t
    <3> HIDE DEF m
    <3> QED
      BY <3>1 DEF Reads, PageType
  <2>5. \A u \in Tabs : u # t => pag'[u] = pag[u]
    BY <2>1, <1>t
  <2> HIDE DEF m
  <2> QED
    BY <2>1, <2>2, <2>3, <2>4, <2>5, <1>o, <1>z DEF Answered, Result
<1>28. ASSUME NEW t \in Tabs, Deja(t) PROVE Turns'
  <2>1. /\ Same /\ UNCHANGED <<hilo, alHilo, delHilo, fase, sube, baja, roto>>
        /\ pag' = [pag EXCEPT ![t].at = "fuera", ![t].dicho = {}]
    BY <1>28, <1>c DEF Deja, queues, thread, link
  <2>2. \A u \in Tabs : pag'[u].at = "entra" => pag[u].at = "entra"
    BY <2>1, <1>t DEF PageType
  <2> QED
    BY <2>1, <2>2, <1>o, <1>z DEF Answered
<1>29. CASE UNCHANGED vars
  BY <1>29, <1>u DEF vars, queues, world
<1> QED
  BY <1>1, <1>2, <1>3, <1>4, <1>5, <1>6, <1>7, <1>8, <1>9, <1>10, <1>11, <1>12, <1>13, <1>14,
     <1>15, <1>16, <1>17, <1>18, <1>19, <1>20, <1>21, <1>22, <1>23, <1>24, <1>25, <1>26, <1>27,
     <1>28, <1>29 DEF Next

LEMMA Firsts ==
    ASSUME NEW T, NEW q \in Seq(T)
    PROVE  /\ Bien(q) = {} => FirstOnly(q)
           /\ \A m \in T : FirstOnly(<<m>>)
           /\ q # <<>> /\ FirstOnly(q) => Bien(Tail(q)) = {} /\ FirstOnly(Tail(q))
           /\ \A r \in Seq(T) : Bien(r) = {} =>
                 Bien(q \o r) = Bien(q) /\ (FirstOnly(q) => FirstOnly(q \o r))
<1>1. Bien(q) = {} => FirstOnly(q)
  BY DEF Bien, In, FirstOnly
<1>2. \A m \in T : FirstOnly(<<m>>)
  BY DEF FirstOnly
<1>3. ASSUME q # <<>>, FirstOnly(q) PROVE Bien(Tail(q)) = {} /\ FirstOnly(Tail(q))
  <2>1. /\ Len(q) \in Nat /\ Len(q) # 0 /\ Len(Tail(q)) = Len(q) - 1
        /\ DOMAIN Tail(q) = 1 .. Len(Tail(q)) /\ DOMAIN q = 1 .. Len(q)
    BY <1>3
  <2>2. \A k \in 1 .. Len(Tail(q)) : Tail(q)[k] = q[k + 1] /\ k + 1 \in 1 .. Len(q) /\ k + 1 # 1
    BY <1>3, <2>1
  <2>3. \A k \in DOMAIN Tail(q) : Tail(q)[k].t # "bien"
    BY <1>3, <2>1, <2>2 DEF FirstOnly
  <2> QED
    BY <2>3 DEF FirstOnly, Bien, In
<1>4. ASSUME NEW r \in Seq(T), Bien(r) = {}
      PROVE  Bien(q \o r) = Bien(q) /\ (FirstOnly(q) => FirstOnly(q \o r))
  <2> DEFINE s == q \o r
  <2>1. In(s) = In(q) \cup In(r)
    BY Joins
  <2>2. /\ Len(s) = Len(q) + Len(r) /\ Len(q) \in Nat /\ Len(r) \in Nat
        /\ DOMAIN q = 1 .. Len(q) /\ DOMAIN r = 1 .. Len(r) /\ DOMAIN s = 1 .. Len(s)
    OBVIOUS
  <2>3. \A k \in 1 .. Len(s) : s[k] = IF k <= Len(q) THEN q[k] ELSE r[k - Len(q)]
    BY <2>2
  <2>4. ASSUME FirstOnly(q), NEW k \in 1 .. Len(s), s[k].t = "bien" PROVE k = 1
    <3>1. CASE k <= Len(q)
      BY <2>2, <2>3, <2>4, <3>1 DEF FirstOnly
    <3>2. CASE ~ (k <= Len(q))
      <4>1. k - Len(q) \in 1 .. Len(r) /\ s[k] = r[k - Len(q)]
        BY <2>2, <2>3, <3>2
      <4> QED
        BY <4>1, <2>2, <2>4, <1>4 DEF Bien, In
    <3> QED
      BY <3>1, <3>2
  <2>5. FirstOnly(q) => FirstOnly(s)
    BY <2>2, <2>4 DEF FirstOnly
  <2>6. Bien(s) = Bien(q)
    BY <2>1, <1>4 DEF Bien
  <2> QED
    BY <2>5, <2>6
<1> QED
  BY <1>1, <1>2, <1>3, <1>4

LEMMA Plain ==
    /\ Bien(<<M("fin")>>) = {} /\ Bien(<<M("mal")>>) = {} /\ Bien(<<M("recibo")>>) = {}
    /\ <<M("fin")>> \in Seq(Answer) /\ <<M("mal")>> \in Seq(Answer) /\ <<M("recibo")>> \in Seq(Answer)
    /\ Bien(Append(<<>>, M("fin"))) = {} /\ Append(<<>>, M("fin")) \in Seq(Answer)
    /\ \A quien \in {"solo", "dos"} :
          LET last == <<[t |-> "final", recibo |-> quien]>>
          IN  Bien(Append(last, M("fin"))) = {} /\ Append(last, M("fin")) \in Seq(Answer)
<1>0. M("fin").t = "fin" /\ M("mal").t = "mal" /\ M("recibo").t = "recibo"
  BY DEF M
<1>1. M("fin") \in Answer /\ M("mal") \in Answer /\ M("recibo") \in Answer
  BY Messages
<1>2. \A m \in Answer : m.t # "bien" => Bien(<<m>>) = {} /\ <<m>> \in Seq(Answer)
  <2> TAKE m \in Answer
  <2>1. Bien(<<m>>) = IF m.t = "bien" THEN {m} ELSE {}
    BY Single
  <2> QED
    BY <2>1, OneWord
<1>3. \A q \in Seq(Answer) : Bien(q) = {} =>
          Bien(Append(q, M("fin"))) = {} /\ Append(q, M("fin")) \in Seq(Answer)
  BY <1>0, <1>1, Grows, Appends
<1>4. \A quien \in {"solo", "dos"} :
          /\ Bien(<<[t |-> "final", recibo |-> quien]>>) = {}
          /\ <<[t |-> "final", recibo |-> quien]>> \in Seq(Answer)
  BY <1>2, Messages
<1>5. <<>> \in Seq(Answer) /\ Bien(<<>>) = {}
  BY Nothing, Empties
<1> QED
  BY <1>0, <1>1, <1>2, <1>3, <1>4, <1>5

\* What is said that is not the answer to a right code.
LEMMA SaysPlain ==
    ASSUME TalkShape, NEW ms \in Seq(Answer), Bien(ms) = {}, Told(ms)
    PROVE  Bien(alHilo') = Bien(alHilo) /\ (FirstOnly(alHilo) => FirstOnly(alHilo'))
  BY Firsts DEF Told, TalkShape

LEMMA ForgetsPlain ==
    /\ TalkShape /\ Closes(<<>>) =>
          Bien(alHilo') = Bien(alHilo) /\ (FirstOnly(alHilo) => FirstOnly(alHilo'))
          /\ delHilo' = <<>> /\ hilo' = FALSE
    /\ \A quien \in {"solo", "dos"} : TalkShape /\ Signs(quien) =>
          Bien(alHilo') = Bien(alHilo) /\ (FirstOnly(alHilo) => FirstOnly(alHilo'))
          /\ delHilo' = <<>> /\ hilo' = FALSE
  BY SaysPlain, Plain DEF Closes, Signs

-----------------------------------------------------------------------------
(***************************************************************************)
(* Who is at the other end of the link.                                    *)
(***************************************************************************)
LEMMA InitOwners == Init => Owners
<1> SUFFICES ASSUME Init PROVE Owners
  OBVIOUS
<1>1. \A t \in Tabs : ~ Here(t)
  BY DEF Init, Here
<1>2. Bien(alHilo) = {} /\ Bien(baja) = {} /\ FirstOnly(alHilo) /\ ~ MayTry(e)
  <2>1. alHilo = <<>> /\ baja = <<>> /\ e.estado = "preparando"
    BY DEF Init, Nada
  <2> QED
    BY <2>1, Nothing DEF FirstOnly, MayTry
<1> QED
  BY <1>1, <1>2 DEF Init, Owners, OneAtATime

LEMMA OwnersStep ==
    ASSUME Puntual, Shape, Idle, ForgetsInv, Turns, Owners, [Next]_vars
    PROVE  Owners'
<1> DEFINE P2 == fase = "sirve" =>
                    /\ tab \in Tabs /\ (\A t \in Tabs : Here(t) => t = tab) /\ (~ roto => Here(tab))
                    /\ \A m \in Bien(alHilo) : m.de = tab
           P3 == fase = "rele" => Bien(alHilo) = {}
           P5 == \A m \in Bien(baja) : Here(m.de)
           P6 == up /\ MayTry(e) =>
                    \A m \in Codigos : m.token = pag[m.de].token /\ (fase = "sirve" => m.de = tab)
<1>p. OneAtATime /\ P2 /\ P3 /\ FirstOnly(alHilo) /\ P5 /\ P6
  BY DEF Owners
<1>z. OneAtATime' /\ P2' /\ P3' /\ FirstOnly(alHilo') /\ P5' /\ P6' => Owners'
  BY DEF Owners
<1>t. /\ e \in DeliveryType /\ disco.e \in DeliveryType /\ up \in BOOLEAN /\ TalkShape
      /\ alHilo \in Seq(Answer) /\ delHilo \in Seq(Word) /\ lote \in Seq(Word)
      /\ sube \in Seq(FrameUp) /\ baja \in Seq(FrameDown) /\ pag \in [Tabs -> PageType]
      /\ roto \in BOOLEAN
  BY DEF Shape, DeliveryShape, TalkShape, DiskType
<1>h. UNCHANGED pag => (\A t : Here(t)' = Here(t)) /\ OneAtATime'
  BY <1>p DEF Here, OneAtATime
<1>c. ASSUME In(sube') \cup In(delHilo') \cup In(lote') \subseteq In(sube) \cup In(delHilo) \cup In(lote)
      PROVE  Codigos' \subseteq Codigos
  BY <1>c DEF Codigos
<1>n. In(<<>>) = {} /\ Bien(<<>>) = {} /\ FirstOnly(<<>>)
  BY Nothing DEF In, FirstOnly
<1>v. /\ \A d : MayTry(d) => d.estado \in Viva /\ d.estado # "preparando"
      /\ \A d : d.estado \in Ended \cup {"nada", "preparando"} => ~ MayTry(d)
  BY DEF MayTry, Viva, Ended
\* A step of the program that says nothing new of a right code.
<1>g. ASSUME UNCHANGED <<thread, link, pag>>, Bien(alHilo') = Bien(alHilo), FirstOnly(alHilo'),
             up' /\ MayTry(e') => up /\ MayTry(e) /\ Codigos' \subseteq Codigos
      PROVE  Owners'
  <2>1. P2' /\ P3' /\ P5' /\ OneAtATime'
    BY <1>g, <1>h, <1>p DEF thread, link
  <2>2. P6'
    BY <1>g, <1>p DEF thread
  <2> QED
    BY <1>g, <2>1, <2>2, <1>z
<1>k. MayTry(e) <=> e.estado \in {"esperando", "abierta"}
  BY DEF MayTry
<1>1. CASE Archivo \/ Trozo \/ Guarda \/ Espera
  <2>1. UNCHANGED <<up, thread, link, pag, alHilo, sube, delHilo, lote>> /\ (MayTry(e') => MayTry(e))
    BY <1>1, <1>t DEF Archivo, Trozo, Guarda, Espera, queues, world, link, DeliveryType, MayTry
  <2> QED
    BY <2>1, <1>g, <1>c, <1>p
<1>2. CASE Lista
  <2>1. /\ delHilo' = <<>> /\ alHilo' = <<>> /\ lote' = <<>> /\ sube' = <<>> /\ baja' = <<>>
        /\ fase' = "rele" /\ UNCHANGED pag
    BY <1>2 DEF Lista, Arranca, Free, Idle, link
  <2> QED
    BY <2>1, <1>n, <1>h, <1>z DEF Codigos
<1>3. CASE Revoca \/ Caduca
  <2>1. Finish(e') /\ UNCHANGED <<thread, link, pag>> /\ e'.estado \in Ended
    BY <1>3, HandEnds DEF world, Ended
  <2> QED
    BY <2>1, <1>g, <1>v, <1>t, <1>p, ForgetsPlain DEF Finish
<1>4. CASE Olvida
  <2>1. e'.estado = "nada" /\ Closes(<<>>) /\ UNCHANGED <<thread, link, pag>>
    BY <1>4 DEF Olvida, Nada, world
  <2> QED
    BY <2>1, <1>g, <1>v, <1>t, <1>p, ForgetsPlain
<1>5. CASE Manipulado
  <2>1. Finish(e') /\ UNCHANGED <<thread, link, pag>>
        /\ (e'.estado = "destruida" \/ (e' = e /\ e.estado \notin Viva))
    BY <1>5, FrameEnds DEF world
  <2>2. ~ MayTry(e')
    BY <2>1, <1>v DEF Ended
  <2> QED
    BY <2>1, <2>2, <1>g, <1>t, <1>p, ForgetsPlain DEF Finish
<1>s. ASSUME NEW quien \in {"solo", "dos"}, Signs(quien), up, acuse # "no" PROVE Owners'
  <2>1. ~ MayTry(e') /\ UNCHANGED <<thread, link, pag>>
    BY <1>s, <1>v DEF Signs, ForgetsInv, Emptied, Ended, world
  <2> QED
    BY <1>s, <2>1, <1>g, <1>t, <1>p, ForgetsPlain
<1>6. CASE AcuseVence
  BY <1>6, <1>s, Overdue
<1>7. CASE Toma
  <2>1. /\ lote' = delHilo /\ delHilo' = <<>> /\ UNCHANGED <<up, e, sube, alHilo, thread, link, pag>>
    BY <1>7 DEF Toma, world, link
  <2> QED
    BY <2>1, <1>n, <1>g, <1>c, <1>p
<1>8. CASE Codigo
  <2>1. /\ Context /\ UNCHANGED <<thread, link, pag, sube>> /\ Head(lote).t = "codigo" /\ Head(lote).de \in Tabs
    BY <1>8, Codes DEF link
  <2>2. CASE Late \/ Closed
    <3>1. Told(<<M("fin")>>) /\ ~ MayTry(e')
      BY <2>2, <1>v DEF Late, Closed, Ended
    <3> QED
      BY <2>1, <3>1, <1>g, <1>t, <1>p, SaysPlain, Plain
  <2>3. CASE Missed
    <3>1. Told(<<M("mal")>>) /\ delHilo' = delHilo /\ MayTry(e) /\ up
      BY <2>1, <2>3 DEF Missed, Wrong, Quiet, Context
    <3> QED
      BY <2>1, <3>1, <1>g, <1>c, <1>t, <1>p, SaysPlain, Plain DEF Context
  <2>4. CASE Burnt \/ Stranger
    <3>1. Closes(<<>>) /\ ~ MayTry(e')
      BY <2>4, <1>v DEF Burnt, Stranger, Ended
    <3> QED
      BY <2>1, <3>1, <1>g, <1>t, <1>p, ForgetsPlain
  <2>5. CASE First \/ Again
    <3>1. PICK n \in 1 .. 2 : Told(<<[t |-> "bien", token |-> n, de |-> Head(lote).de]>>)
      <4>1. Life \in 1 .. 2
        BY DEF Life
      <4>2. e.receptor \in 0 .. 2
        BY <1>t DEF DeliveryType
      <4> QED
        BY <2>5, <4>1, <4>2 DEF First, Again
    <3> DEFINE m == [t |-> "bien", token |-> n, de |-> Head(lote).de]
    <3>2. MayTry(e) /\ up /\ delHilo' = delHilo /\ Asks(lote)
      BY <2>1, <2>5 DEF First, Again, Right, Quiet, Context, Asks, Some, Code
    <3>3. alHilo = <<>> /\ fase # "rele"
      BY <3>2 DEF Turns, Answered
    <3>4. m \in Answer /\ m.t = "bien" /\ m.de = Head(lote).de
      BY <2>1, Messages
    <3>5. alHilo' = <<m>> \/ alHilo' = <<>>
      <4>1. <<>> \o <<m>> = <<m>>
        BY <3>4
      <4> QED
        BY <3>1, <3>3, <4>1 DEF Told
    <3> HIDE DEF m
    <3>6. Bien(alHilo') \subseteq {m} /\ FirstOnly(alHilo')
      <4>1. CASE alHilo' = <<m>>
        <5>1. Bien(<<m>>) = {m} /\ FirstOnly(<<m>>)
          BY <3>4, Single, Firsts, Empties
        <5> QED
          BY <4>1, <5>1
      <4>2. CASE alHilo' = <<>>
        BY <4>2, <1>n
      <4> QED
        BY <3>5, <4>1, <4>2
    <3>7. Codigos' \subseteq Codigos /\ Head(lote) \in Codigos
      BY <2>1, <3>2, <1>c DEF Context, Codigos
    <3>8. fase = "sirve" => m.de = tab
      BY <3>2, <3>4, <3>7, <1>p
    <3>9. P2' /\ P3' /\ P5' /\ OneAtATime'
      BY <2>1, <3>3, <3>6, <3>8, <1>h, <1>p DEF thread, link
    <3>10. P6'
      BY <2>1, <3>2, <3>7, <1>p DEF thread
    <3> QED
      BY <3>6, <3>9, <3>10, <1>z
  <2> QED
    BY <1>8, <2>2, <2>3, <2>4, <2>5, Codes
<1>9. CASE Recibido
  <2>1. Context /\ UNCHANGED <<delHilo, thread, link, pag, sube>>
    BY <1>9, FileEffects DEF world, link
  <2>2. alHilo' = alHilo \/ Told(<<M("recibo")>>)
    BY <1>9, FileEffects
  <2>3. MayTry(e') => MayTry(e)
    BY <1>9, FileEffects, <1>v, <1>k DEF Ended
  <2>4. Codigos' \subseteq Codigos
    BY <2>1, <1>c DEF Context
  <2> QED
    BY <2>1, <2>2, <2>3, <2>4, <1>g, <1>t, <1>p, SaysPlain, Plain DEF Context
<1>10. CASE Acuse
  <2>1. CASE acuse # "no"
    BY <1>10, <2>1, <1>s, Signatures DEF Context
  <2>2. CASE acuse = "no"
    <3>1. Context /\ UNCHANGED <<e, delHilo, alHilo, thread, link, pag, sube>>
      BY <1>10, <2>2, Signatures DEF world, link, queues
    <3>2. Codigos' \subseteq Codigos
      BY <3>1, <1>c DEF Context
    <3> QED
      BY <3>1, <3>2, <1>g, <1>p DEF Context
  <2> QED
    BY <2>1, <2>2
<1>11. CASE Muere
  <2>1. alHilo' = <<>> /\ baja' = <<>> /\ fase' = "no" /\ up' = FALSE /\ UNCHANGED pag
    BY <1>11 DEF Muere
  <2> QED
    BY <2>1, <1>n, <1>h, <1>z
<1>12. CASE Vuelve
  <2>1. up = FALSE /\ UNCHANGED <<link, pag, lote, tab>>
    BY <1>12, <1>t DEF Vuelve
  <2>2. /\ delHilo' = <<>> /\ alHilo' = <<>> /\ lote' = <<>> /\ sube' = <<>> /\ baja' = <<>>
        /\ fase' \in {"rele", "no"}
    BY <1>12, <2>1 DEF Vuelve, Arranca, Idle, link, queues
  <2> QED
    BY <2>1, <2>2, <1>n, <1>h, <1>z DEF Codigos
<1>f. alHilo # <<>> => /\ Bien(Tail(alHilo)) = {} /\ FirstOnly(Tail(alHilo))
                       /\ Head(alHilo) \in FrameDown /\ Head(alHilo) \in In(alHilo)
  BY <1>t, <1>p, Firsts, Tails, Messages
<1>e. UNCHANGED core => UNCHANGED <<up, e, lote>>
  BY DEF core
<1>13. CASE Ignora \/ Acaba \/ Despierta \/ Suelta
  <2>1. /\ UNCHANGED <<up, e, lote, delHilo, sube, baja, pag>> /\ fase' # "sirve"
        /\ alHilo' = alHilo \/ alHilo' = <<>> \/ (alHilo # <<>> /\ alHilo' = Tail(alHilo))
    BY <1>13, <1>e DEF Ignora, Acaba, Despierta, Suelta, Leaves, Discarded, queues, link
  <2>2. FirstOnly(alHilo')
    BY <2>1, <1>f, <1>n, <1>p
  <2>3. fase' = "rele" => Bien(alHilo') = {}
    BY <1>13, <1>f, <1>n, <1>p
       DEF Ignora, Acaba, Despierta, Suelta, Leaves, Discarded, queues
  <2>4. Codigos' = Codigos
    BY <2>1 DEF Codigos
  <2>5. P5' /\ P6' /\ P2' /\ OneAtATime'
    BY <2>1, <2>4, <1>h, <1>p
  <2> QED
    BY <2>2, <2>3, <2>5, <1>z
<1>14. CASE Transmite
  <2>1. /\ UNCHANGED <<up, e, lote, delHilo, pag>> /\ fase = "sirve" /\ alHilo # <<>>
        /\ (roto = FALSE /\ baja' = Append(baja, Head(alHilo))) \/ baja' = baja
        /\ \/ fase' = "no" /\ alHilo' = <<>> /\ sube' = <<>>
           \/ UNCHANGED <<fase, tab, roto, sube>> /\ alHilo' = Tail(alHilo)
    BY <1>14, <1>e, <1>t DEF Transmite
  <2>2. Bien(alHilo') = {} /\ FirstOnly(alHilo')
    BY <2>1, <1>f, <1>n
  <2>3. P5'
    <3>1. CASE baja' = baja
      BY <2>1, <3>1, <1>h, <1>p
    <3>2. CASE roto = FALSE /\ baja' = Append(baja, Head(alHilo))
      <4>1. Bien(baja') \subseteq Bien(baja) \cup {Head(alHilo)}
        BY <2>1, <3>2, <1>f, <1>t, Grows
      <4>2. Head(alHilo).t = "bien" => Here(Head(alHilo).de)
        BY <2>1, <3>2, <1>f, <1>p DEF Bien
      <4>3. \A m \in Bien(baja') : m.t = "bien"
        BY DEF Bien
      <4> QED
        BY <2>1, <4>1, <4>2, <4>3, <1>h, <1>p
    <3> QED
      BY <2>1, <3>1, <3>2
  <2>4. Codigos' \subseteq Codigos
    BY <2>1, <1>c, <1>n
  <2>5. P6' /\ P2' /\ P3' /\ OneAtATime'
    BY <2>1, <2>2, <2>4, <1>h, <1>p
  <2> QED
    BY <2>2, <2>3, <2>5, <1>z
\* A frame comes in: a code goes on, or nothing that bears on one does.
<1>m. ASSUME NEW k, Frame(k)
      PROVE  /\ Head(sube) \in FrameUp /\ Head(sube) \in In(sube) /\ Head(sube).t = k /\ fase = "sirve"
             /\ In(sube') \subseteq In(sube)
  BY <1>m, <1>t, Tails DEF Frame
<1>w. ASSUME NEW m \in Word, Says(m) PROVE In(delHilo') \subseteq In(delHilo) \cup {m}
  BY <1>w, <1>t, Appends DEF Says
<1>15. CASE ServeCode \/ ServeWord
  <2>1. /\ UNCHANGED <<up, e, lote, alHilo, thread, baja, roto, pag>>
        /\ Frame("codigo") \/ Frame("recibido") \/ Frame("acuse")
        /\ Says(Head(sube)) \/ UNCHANGED delHilo
    BY <1>15, <1>e DEF ServeCode, ServeWord
  <2>2. Head(sube) \in Word
    BY <2>1, <1>m, Carried
  <2>3. Codigos' \subseteq Codigos
    <3>1. In(delHilo') \subseteq In(delHilo) \cup {Head(sube)}
      BY <2>1, <2>2, <1>w
    <3> QED
      BY <2>1, <3>1, <1>m, <1>c
  <2>4. P2' /\ P3' /\ P5' /\ OneAtATime' /\ FirstOnly(alHilo')
    BY <2>1, <1>h, <1>p DEF thread
  <2>5. P6'
    BY <2>1, <2>3, <1>p DEF thread
  <2> QED
    BY <2>4, <2>5, <1>z
<1>16. CASE ServePiece
  <2>1. /\ UNCHANGED <<up, e, lote, alHilo, delHilo, thread, roto, pag>> /\ Frame("pide")
    BY <1>16, <1>e DEF ServePiece, queues
  <2>2. Bien(baja') = Bien(baja)
    <3> DEFINE m == IF Head(sube).i \in sellados THEN [t |-> "trozo", i |-> Head(sube).i] ELSE M("fin")
    <3>1. m \in FrameDown /\ m.t # "bien"
      BY <2>1, <1>m, Carried, Messages DEF M
    <3>2. baja' = baja \/ baja' = Append(baja, m)
      BY <1>16 DEF ServePiece
    <3> HIDE DEF m
    <3> QED
      BY <3>1, <3>2, <1>t, Grows
  <2>3. Codigos' \subseteq Codigos
    BY <2>1, <1>m, <1>c
  <2>4. P2' /\ P3' /\ P5' /\ OneAtATime' /\ FirstOnly(alHilo')
    BY <2>1, <2>2, <1>h, <1>p DEF thread
  <2>5. P6'
    BY <2>1, <2>3, <1>p DEF thread
  <2> QED
    BY <2>4, <2>5, <1>z
<1>17. CASE ServeBroken
  <2>1. /\ UNCHANGED <<up, e, lote, alHilo, baja, pag>> /\ Frame("rota") /\ fase' = "pausa"
        /\ Says(M("manipulado"))
    BY <1>17, <1>e DEF ServeBroken, Leaves
  <2>2. Codigos' \subseteq Codigos
    <3>1. In(delHilo') \subseteq In(delHilo) \cup {M("manipulado")} /\ M("manipulado").t # "codigo"
      BY <2>1, <1>w, Messages DEF M
    <3> QED
      BY <2>1, <3>1, <1>m DEF Codigos
  <2>3. P2' /\ P3' /\ P5' /\ P6' /\ OneAtATime' /\ FirstOnly(alHilo')
    BY <2>1, <2>2, <1>h, <1>p
  <2> QED
    BY <2>3, <1>z
<1>18. CASE Corta
  <2>1. UNCHANGED <<up, e, lote, alHilo, delHilo, thread, pag>> /\ roto' = TRUE
    BY <1>18, <1>e DEF Corta, queues
  <2>2. In(sube') \subseteq In(sube) /\ Bien(baja') \subseteq Bien(baja)
    <3>1. PICK k \in 0 .. Len(sube) : sube' = SubSeq(sube, 1, k)
      BY <1>18 DEF Corta
    <3>2. PICK l \in 0 .. Len(baja) : baja' = SubSeq(baja, 1, l)
      BY <1>18 DEF Corta
    <3>3. In(sube) = In(sube') \cup In(SubSeq(sube, k + 1, Len(sube)))
      BY <3>1, <1>t, Cuts
    <3>4. Bien(baja) = Bien(baja') \cup Bien(SubSeq(baja, l + 1, Len(baja)))
      BY <3>2, <1>t, Breaks
    <3> QED
      BY <3>3, <3>4
  <2>3. Codigos' \subseteq Codigos
    BY <2>1, <2>2, <1>c
  <2>4. P2' /\ P3' /\ P5' /\ P6' /\ OneAtATime' /\ FirstOnly(alHilo')
    BY <2>1, <2>2, <2>3, <1>h, <1>p DEF thread
  <2> QED
    BY <2>4, <1>z
\* A tab puts a frame in the link.
<1>u. ASSUME NEW m \in FrameUp, Puts(m) PROVE In(sube') \subseteq In(sube) \cup {m}
  BY <1>u, <1>t, Appends DEF Puts
<1>19. CASE Manipula
  <2>1. UNCHANGED <<up, e, lote, alHilo, delHilo, thread, baja, roto, pag>> /\ Puts(M("rota"))
    BY <1>19, <1>e DEF Manipula, queues, Puts
  <2>2. Codigos' \subseteq Codigos
    <3>1. In(sube') \subseteq In(sube) \cup {M("rota")} /\ M("rota").t # "codigo"
      BY <2>1, <1>u, Messages DEF M
    <3> QED
      BY <2>1, <3>1 DEF Codigos
  <2>3. P2' /\ P3' /\ P5' /\ P6' /\ OneAtATime' /\ FirstOnly(alHilo')
    BY <2>1, <2>2, <1>h, <1>p DEF thread
  <2> QED
    BY <2>3, <1>z
<1>20. ASSUME NEW t \in Tabs, Entra(t) PROVE Owners'
  <2>1. /\ UNCHANGED <<up, e, lote, alHilo, delHilo, baja>> /\ fase = "rele" /\ fase' = "sirve"
        /\ baja = <<>> /\ sube' = <<>> /\ tab' = t /\ pag' = [pag EXCEPT ![t].at = "entra"]
        /\ \A u \in Tabs : pag[u].at = "fuera"
    BY <1>20, <1>e DEF Entra, queues
  <2>2. /\ \A u \in Tabs : Here(u)' <=> u = t
        /\ \A u \in Tabs : pag'[u].token = pag[u].token
    BY <2>1, <1>t DEF Here, PageType
  <2>3. P2' /\ P3' /\ P5' /\ OneAtATime' /\ FirstOnly(alHilo')
    BY <2>1, <2>2, <1>n, <1>p DEF OneAtATime
  <2>4. P6'
    <3>1. ASSUME up, MayTry(e) PROVE Codigos' = {}
      <4>1. ~ Asks(delHilo) /\ ~ Asks(lote)
        BY <2>1, <3>1 DEF Turns
      <4> QED
        BY <2>1, <4>1, <1>n DEF Asks, Some, Code, Codigos
    <3> QED
      BY <2>1, <3>1
  <2> QED
    BY <2>3, <2>4, <1>z
\* What is on its way names tabs.
<1>d. /\ \A m \in Codigos : m.de \in Tabs
      /\ \A m \in Bien(baja) : m.de \in Tabs
  <2>1. \A m \in FrameUp \cup Word : m.t = "codigo" => m.de \in Tabs
    BY Carried
  <2>2. In(sube) \subseteq FrameUp /\ In(delHilo) \cup In(lote) \subseteq Word /\ In(baja) \subseteq FrameDown
    BY <1>t DEF In
  <2>3. \A m \in Codigos : m.de \in Tabs
    BY <2>1, <2>2 DEF Codigos
  <2>4. \A m \in Bien(baja) : m.de \in Tabs
    BY <2>2, Carried DEF Bien
  <2> QED
    BY <2>3, <2>4
\* A tab goes on, where it was and with the token it had.
<1>a. ASSUME UNCHANGED <<up, e, lote, alHilo, delHilo, thread, roto>>,
             \A t \in Tabs : (pag'[t].at # "fuera" <=> pag[t].at # "fuera") /\ pag'[t].token = pag[t].token,
             Bien(baja') \subseteq Bien(baja),
             up /\ MayTry(e) => \A m \in Codigos' : m \in Codigos \/
                (m.de \in Tabs /\ m.de = tab /\ m.token = pag[m.de].token)
      PROVE  Owners'
  <2>h. \A t \in Tabs : Here(t)' <=> Here(t)
    BY <1>a DEF Here
  <2>1. P2' /\ P3' /\ OneAtATime' /\ FirstOnly(alHilo')
    BY <1>a, <2>h, <1>p DEF thread, OneAtATime
  <2>2. P5'
    BY <1>a, <2>h, <1>d, <1>p
  <2>3. P6'
    BY <1>a, <1>d, <1>p DEF thread
  <2> QED
    BY <2>1, <2>2, <2>3, <1>z
<1>21. ASSUME NEW t \in Tabs, NEW bien \in BOOLEAN, Da(t, bien) PROVE Owners'
  <2> DEFINE m == [t |-> "codigo", bien |-> bien, token |-> pag[t].token, de |-> t]
  <2>1. /\ UNCHANGED <<up, e, lote, alHilo, delHilo, thread, baja, roto>> /\ pag[t].at = "entra"
        /\ Puts(m) /\ pag' = [pag EXCEPT ![t].at = "espera"]
    BY <1>21, <1>e DEF Da, queues
  <2>2. m \in FrameUp /\ m.de = t /\ m.token = pag[t].token
    BY <1>t, Messages DEF PageType
  <2>3. \A u \in Tabs : (pag'[u].at # "fuera" <=> pag[u].at # "fuera") /\ pag'[u].token = pag[u].token
    BY <2>1, <1>t DEF PageType
  <2> HIDE DEF m
  <2>4. \A c \in Codigos' : c \in Codigos \/ (c = m /\ ~ roto)
    <3>1. In(sube') \subseteq In(sube) \cup {m} /\ (roto => sube' = sube)
      BY <2>1, <2>2, <1>u DEF Puts
    <3> QED
      BY <2>1, <3>1 DEF Codigos
  <2>5. ~ roto => tab = t
    <3>1. ~ roto => fase = "sirve"
      BY DEF Idle
    <3> QED
      BY <2>1, <3>1, <1>p DEF Here
  <2> QED
    BY <2>1, <2>2, <2>3, <2>4, <2>5, <1>a
<1>22. ASSUME NEW t \in Tabs, NEW i \in Files(e), Pide(t, i) \/ Confirma(t, i) PROVE Owners'
  <2>1. /\ UNCHANGED <<up, e, lote, alHilo, delHilo, thread, baja, roto>>
        /\ pag' = pag \/ pag' = [pag EXCEPT ![t].dicho = @ \cup {i}]
        /\ Puts([t |-> "pide", i |-> i]) \/ Puts([t |-> "recibido", i |-> i])
    BY <1>22, <1>e DEF Pide, Confirma, queues
  <2>2. \A u \in Tabs : pag'[u].at = pag[u].at /\ pag'[u].token = pag[u].token
    <3>1. CASE pag' = pag
      BY <3>1
    <3>2. CASE pag' = [pag EXCEPT ![t].dicho = @ \cup {i}]
      BY <3>2, <1>t DEF PageType
    <3> QED
      BY <2>1, <3>1, <3>2
  <2>3. Codigos' \subseteq Codigos
    <3>1. i \in Pieces
      BY <1>t, Changes
    <3>2. [t |-> "pide", i |-> i] \in FrameUp /\ [t |-> "recibido", i |-> i] \in FrameUp
      BY <3>1, Messages
    <3>3. PICK m : m.t # "codigo" /\ In(sube') \subseteq In(sube) \cup {m}
      BY <2>1, <3>2, <1>u
    <3> QED
      BY <2>1, <3>3 DEF Codigos
  <2> QED
    BY <2>1, <2>2, <2>3, <1>a
<1>23. ASSUME NEW t \in Tabs, Lee(t) PROVE Owners'
  <2> DEFINE m == Head(baja)
  <2>1. /\ UNCHANGED <<up, e, lote, alHilo, delHilo, thread, roto>> /\ baja # <<>> /\ baja' = Tail(baja)
        /\ pag' = [pag EXCEPT ![t] = Reads(t, m)] /\ pag[t].at # "fuera"
        /\ Puts(M("acuse")) \/ UNCHANGED sube
    BY <1>23, <1>e DEF Lee, queues
  <2>2. Codigos' \subseteq Codigos
    <3>1. In(sube') \subseteq In(sube) \cup {M("acuse")} /\ M("acuse").t # "codigo"
      BY <2>1, <1>u, Messages DEF M
    <3> QED
      BY <2>1, <3>1 DEF Codigos
  <2>3. Bien(baja') \subseteq Bien(baja)
    BY <2>1, <1>t, Shrinks
  <2>4. pag'[t].at # "fuera" /\ (m.t = "bien" \/ pag'[t].token = pag[t].token)
    <3>1. pag[t] \in PageType /\ pag'[t] = Reads(t, m)
      BY <2>1, <1>t
    <3> HIDE DEF m
    <3>2. pag[t].at # "fuera"
      BY <2>1
    <3> QED
      BY <3>1, <3>2 DEF Reads, PageType
  <2>5. \A u \in Tabs : u # t => pag'[u] = pag[u]
    BY <2>1, <1>t
  <2>6. CASE m.t # "bien"
    <3> HIDE DEF m
    <3> QED
      BY <2>1, <2>2, <2>3, <2>4, <2>5, <2>6, <1>a
  <2>7. CASE m.t = "bien"
    <3>1. \A u \in Tabs : Here(u)' <=> Here(u)
      BY <2>1, <2>4, <2>5 DEF Here
    <3>2. P2' /\ P3' /\ P5' /\ OneAtATime' /\ FirstOnly(alHilo')
      BY <2>1, <2>3, <3>1, <1>d, <1>p DEF thread, OneAtATime
    <3>3. ASSUME up, MayTry(e) PROVE Codigos = {}
      <4>1. Replies(baja)
        BY <2>1, <2>7, <1>t, Shrinks DEF Replies, Result
      <4>2. ~ Asks(lote) /\ ~ Asks(delHilo) /\ ~ Asks(sube)
        BY <3>3, <4>1 DEF Turns, Answered
      <4> QED
        BY <4>2 DEF Codigos, Asks, Some, Code
    <3>4. P6'
      BY <2>1, <2>2, <3>3
    <3> QED
      BY <3>2, <3>4, <1>z
  <2> QED
    BY <2>6, <2>7
<1>24. ASSUME NEW t \in Tabs, Deja(t) PROVE Owners'
  <2>1. /\ UNCHANGED <<up, e, lote, alHilo, delHilo, thread, sube, baja, roto>> /\ baja = <<>> /\ roto
        /\ pag' = [pag EXCEPT ![t].at = "fuera", ![t].dicho = {}]
    BY <1>24, <1>e DEF Deja, queues, link
  <2>2. \A u \in Tabs : pag'[u].token = pag[u].token /\ (pag'[u].at # "fuera" => pag[u].at # "fuera")
    BY <2>1, <1>t DEF PageType
  <2>3. P2' /\ P3' /\ P5' /\ OneAtATime' /\ FirstOnly(alHilo')
    BY <2>1, <2>2, <1>n, <1>p DEF thread, Here, OneAtATime
  <2>4. Codigos' = Codigos
    BY <2>1 DEF Codigos
  <2>5. P6'
    BY <2>1, <2>2, <2>4, <1>d, <1>p DEF thread
  <2> QED
    BY <2>3, <2>5, <1>z
<1>25. CASE UNCHANGED vars
  BY <1>25, <1>g, <1>c, <1>p DEF vars, queues, world, link
<1> QED
  BY <1>1, <1>2, <1>3, <1>4, <1>5, <1>6, <1>7, <1>8, <1>9, <1>10, <1>11, <1>12, <1>13, <1>14,
     <1>15, <1>16, <1>17, <1>18, <1>19, <1>20, <1>21, <1>22, <1>23, <1>24, <1>25 DEF Next

-----------------------------------------------------------------------------
(***************************************************************************)
(* Who has the token of the receiver.                                      *)
(***************************************************************************)
LEMMA InitTokens == Init => Tokens
<1> SUFFICES ASSUME Init PROVE Tokens
  OBVIOUS
<1>1. /\ alHilo = <<>> /\ baja = <<>> /\ e.estado = "preparando" /\ e.receptor = 0 /\ e.motivo = ""
      /\ disco.e.estado = "nada" /\ disco.e.receptor = 0 /\ disco.e.motivo = ""
      /\ dado = {} /\ \A t \in Tabs : pag[t].token = 0
  BY DEF Init, Nada
<1>2. Promises = {}
  BY <1>1, Nothing DEF Promises
<1>0. ASSUME NEW n \in 1 .. 2, NEW t \in Tabs PROVE ~ Holds(n, t)
  <2>1. pag[t].token = 0
    BY <1>1
  <2>2. n # 0
    OBVIOUS
  <2> QED
    BY <2>1, <2>2, <1>2 DEF Holds
<1>3. Nobody(1) /\ Nobody(2)
  BY <1>0 DEF Nobody
<1>4. ~ MayTry(e) /\ ~ MayTry(disco.e)
  BY <1>1 DEF MayTry
<1>5. Given
  BY <1>0, <1>1, <1>2, FS_EmptySet DEF Given, Opened
<1> QED
  BY <1>1, <1>3, <1>4, <1>5 DEF Tokens, Behind, Fresh, Met, Blamed

LEMMA TokensStep ==
    ASSUME Puntual, Shape, Idle, ForgetsInv, Turns, Owners, Tokens, [Next]_vars
    PROVE  Tokens'
<1>t. /\ e \in DeliveryType /\ disco.e \in DeliveryType /\ up \in BOOLEAN /\ TalkShape
      /\ alHilo \in Seq(Answer) /\ delHilo \in Seq(Word) /\ lote \in Seq(Word)
      /\ sube \in Seq(FrameUp) /\ baja \in Seq(FrameDown) /\ pag \in [Tabs -> PageType]
      /\ dado \subseteq Tabs /\ perdido \in BOOLEAN /\ hilo \in BOOLEAN /\ roto \in BOOLEAN
  BY DEF Shape, DeliveryShape, TalkShape, DiskType
<1>p. Behind /\ Given /\ Fresh /\ Met
  BY DEF Tokens
<1>s. Saved'.e = e'
  BY DEF Saved
<1>v. /\ \A d : d.estado \in Ended \cup {"nada", "preparando"} => ~ MayTry(d)
      /\ "nada" \notin Ended \cup Viva
  BY DEF MayTry, Ended, Viva
\* A step of the program that gives nobody a token.
<1>g. ASSUME up, up', Promises' = Promises, UNCHANGED <<pag, perdido, faults>>, notas \subseteq notas',
             dado \subseteq dado', IsFiniteSet(dado'),
             MayTry(e') => \/ MayTry(e) /\ e'.receptor = e.receptor
                           \/ e'.receptor = 0 /\ Nobody(1) /\ Nobody(2),
             e.estado = "nada" => e'.estado = "nada",
             e'.estado = "nada" => e.estado = "nada" \/ disco' = Saved',
             e'.receptor = e.receptor \/ (e'.estado = "nada" /\ disco' = Saved'),
             \/ disco' = Saved'
             \/ disco' = disco /\ (paso' # "abierta" => paso # "abierta"),
             Blamed(e)'
      PROVE  Tokens'
  <2>h. /\ \A n, t : Holds(n, t)' <=> Holds(n, t)
        /\ \A n : Nobody(n)' <=> Nobody(n)
        /\ \A n : KnownTo(n) => KnownTo(n)'
        /\ \A t : Opened(t)' <=> Opened(t)
    BY <1>g DEF Holds, Nobody, KnownTo, Opened
  <2>1. Behind'
    BY <1>g, <1>s, <1>p DEF Behind
  <2>2. Given'
    <3>1. \A m \in Promises' : m.de \in dado' /\ (e'.estado = "nada" \/ m.token = e'.receptor)
      BY <1>g, <1>p DEF Given
    <3>2. \A t \in Tabs : Opened(t)' => t \in dado'
      BY <1>g, <2>h, <1>p DEF Given
    <3>3. \A n \in 1 .. 2 : \A t, u \in Tabs : Holds(n, t)' /\ Holds(n, u)' => t = u
      BY <2>h, <1>p DEF Given
    <3> QED
      BY <1>g, <3>1, <3>2, <3>3 DEF Given
  <2>3. ("caida" \notin faults' \/ (MayTry(e') /\ e'.receptor = 0)) => Nobody(2)'
    BY <1>g, <2>h, <1>p DEF Fresh
  <2>4. MayTry(e') /\ e'.receptor = 0 /\ ("caida" \notin faults' \/ "abierta" \notin notas') => Nobody(1)'
    BY <1>g, <2>h, <1>p DEF Fresh
  <2>5. "abierta" \notin notas' => Nobody(1)' \/ Nobody(2)'
    BY <1>g, <2>h, <1>p DEF Fresh
  <2>6. "abierta" \notin notas' /\ paso' # "abierta" /\ MayTry(disco'.e) /\ disco'.e.receptor = 0 => Nobody(1)'
    <3>1. CASE disco' = Saved'
      BY <3>1, <1>s, <2>4
    <3>2. CASE disco' = disco /\ (paso' # "abierta" => paso # "abierta")
      BY <1>g, <3>2, <2>h, <1>p DEF Fresh
    <3> QED
      BY <1>g, <3>1, <3>2
  <2>7. Fresh'
    BY <1>g, <2>3, <2>4, <2>5, <2>6 DEF Fresh
  <2>8. MayTry(e') /\ e'.receptor # 0 => KnownTo(e.receptor)'
    <3>1. ASSUME MayTry(e'), e'.receptor # 0 PROVE KnownTo(e.receptor)'
      <4>1. MayTry(e) /\ e'.receptor = e.receptor
        BY <1>g, <3>1
      <4>2. KnownTo(e.receptor)
        BY <1>g, <3>1, <4>1, <1>p DEF Met
      <4> QED
        BY <1>g, <4>1, <4>2 DEF KnownTo, Holds
    <3> QED
      BY <3>1
  <2>9. MayTry(disco'.e) /\ disco'.e.receptor # 0 => KnownTo(disco.e.receptor)'
    <3>1. CASE disco' = Saved'
      BY <3>1, <1>s, <2>8 DEF KnownTo, Holds
    <3>2. CASE disco' = disco
      BY <1>g, <3>2, <1>p DEF Met, KnownTo, Holds
    <3> QED
      BY <1>g, <3>1, <3>2
  <2>10. Blamed(disco.e)'
    <3>1. CASE disco' = Saved'
      BY <1>g, <3>1, <1>s DEF Blamed
    <3>2. CASE disco' = disco
      BY <1>g, <3>2, <1>p DEF Met, Blamed
    <3> QED
      BY <1>g, <3>1, <3>2
  <2>11. Met'
    BY <1>g, <2>8, <2>9, <2>10 DEF Met
  <2> QED
    BY <2>1, <2>2, <2>7, <2>11 DEF Tokens
\* A step of the thread, of a tab or of the network that gives nobody a token.
<1>w. ASSUME UNCHANGED core, notas' = notas, "caida" \in faults' <=> "caida" \in faults,
             Promises' \subseteq Promises, perdido => perdido',
             \A n \in 1 .. 2, t \in Tabs : Holds(n, t)' => Holds(n, t),
             \A t \in Tabs : Opened(t)' => Opened(t) \/ t \in dado,
             \A n \in 1 .. 2 : \/ up /\ MayTry(e) /\ n = e.receptor
                               \/ MayTry(disco.e) /\ n = disco.e.receptor
                            => (KnownTo(n) => KnownTo(n)')
      PROVE  Tokens'
  <2>c. UNCHANGED <<up, e, lote, paso, disco, dado>>
    BY <1>w DEF core
  <2>h. \A n \in 1 .. 2 : Nobody(n) => Nobody(n)'
    BY <1>w DEF Nobody
  <2>1. Behind'
    BY <2>c, <1>p DEF Behind
  <2>2. Given'
    <3>1. \A m \in Promises' : m.de \in dado' /\ (up' => e'.estado = "nada" \/ m.token = e'.receptor)
      BY <1>w, <2>c, <1>p DEF Given
    <3>2. \A t \in Tabs : Opened(t)' => t \in dado'
      BY <1>w, <2>c, <1>p DEF Given
    <3>3. \A n \in 1 .. 2 : \A t, u \in Tabs : Holds(n, t)' /\ Holds(n, u)' => t = u
      BY <1>w, <1>p DEF Given
    <3> QED
      BY <2>c, <3>1, <3>2, <3>3, <1>p DEF Given
  <2>3. Fresh'
    <3>1. 1 \in 1 .. 2 /\ 2 \in 1 .. 2
      OBVIOUS
    <3>2. (Nobody(1) => Nobody(1)') /\ (Nobody(2) => Nobody(2)')
      BY <3>1, <2>h
    <3> QED
      BY <1>w, <2>c, <3>2, <1>p DEF Fresh
  <2>4. Blamed(e)' /\ Blamed(disco.e)'
    BY <1>w, <2>c, <1>p DEF Met, Blamed
  <2>5. up' /\ MayTry(e') /\ e'.receptor # 0 => KnownTo(e.receptor)'
    <3>1. ASSUME up, MayTry(e), e.receptor # 0, NEW n, n = e.receptor PROVE KnownTo(n)'
      <4>1. e.receptor \in 0 .. 2
        BY <1>t DEF DeliveryType
      <4>2. n \in 1 .. 2
        BY <3>1, <4>1
      <4>3. KnownTo(n)
        BY <3>1, <1>p DEF Met, KnownTo
      <4> QED
        BY <1>w, <3>1, <4>2, <4>3
    <3> QED
      BY <2>c, <3>1 DEF KnownTo, Holds
  <2>6. MayTry(disco'.e) /\ disco'.e.receptor # 0 => KnownTo(disco.e.receptor)'
    <3>1. ASSUME MayTry(disco.e), disco.e.receptor # 0, NEW n, n = disco.e.receptor PROVE KnownTo(n)'
      <4>1. disco.e.receptor \in 0 .. 2
        BY <1>t DEF DeliveryType
      <4>2. n \in 1 .. 2
        BY <3>1, <4>1
      <4>3. KnownTo(n)
        BY <3>1, <1>p DEF Met, KnownTo
      <4> QED
        BY <1>w, <3>1, <4>2, <4>3
    <3> QED
      BY <2>c, <3>1 DEF KnownTo, Holds
  <2> QED
    BY <2>1, <2>2, <2>3, <2>4, <2>5, <2>6 DEF Tokens, Met
\* The tabs keep what they have, and what was on its way still is or is known lost.
<1>x. ASSUME UNCHANGED core, notas' = notas, "caida" \in faults' <=> "caida" \in faults,
             \A t \in Tabs : pag'[t].token = pag[t].token,
             Promises' \subseteq Promises, perdido => perdido', perdido' \/ Promises \subseteq Promises'
      PROVE  Tokens'
  <2>1. \A n, t : t \in Tabs /\ Holds(n, t)' => Holds(n, t)
    BY <1>x DEF Holds
  <2>2. \A t \in Tabs : Opened(t)' => Opened(t)
    BY <1>x DEF Opened
  <2>3. \A n : KnownTo(n) => KnownTo(n)'
    <3>1. CASE perdido'
      BY <3>1 DEF KnownTo
    <3>2. CASE Promises \subseteq Promises' /\ ~ perdido'
      <4>1. dado' = dado
        BY <1>x DEF core
      <4>2. \A n, t : t \in Tabs /\ Holds(n, t) => Holds(n, t)'
        BY <1>x, <3>2 DEF Holds
      <4> QED
        BY <1>x, <3>2, <4>1, <4>2, <1>t DEF KnownTo
    <3> QED
      BY <1>x, <3>1, <3>2
  <2> QED
    BY <1>x, <1>w, <2>1, <2>2, <2>3
<1>b. ASSUME e'.motivo = e.motivo \/ e'.motivo # "dispositivo_nuevo", perdido' = perdido, dado \subseteq dado'
      PROVE  Blamed(e)'
  BY <1>b, <1>p DEF Met, Blamed
<1>f. IsFiniteSet(dado)
  BY <1>p DEF Given
<1>q. UNCHANGED <<alHilo, baja>> => Promises' = Promises
  BY DEF Promises
<1>a. ASSUME Bien(alHilo') = Bien(alHilo), baja' = baja PROVE Promises' = Promises
  BY <1>a DEF Promises
<1>1. CASE Archivo \/ Trozo \/ Guarda \/ Espera \/ Toma
  <2>1. /\ up /\ up' /\ UNCHANGED <<alHilo, baja, pag, perdido, faults, notas, dado>>
        /\ \/ disco' = Saved'
           \/ disco' = disco /\ (paso' # "abierta" => paso # "abierta")
    <3>1. up /\ UNCHANGED <<up, alHilo, baja, pag, perdido, faults, notas, dado>>
      BY <1>1 DEF Archivo, Trozo, Guarda, Espera, Toma, Free, queues, world, link, history
    <3>2. CASE Archivo \/ Espera \/ Toma
      BY <3>1, <3>2 DEF Archivo, Espera, Toma
    <3>3. CASE Trozo
      BY <3>1, <3>3 DEF Trozo
    <3>4. CASE Guarda
      <4>1. disco' = Saved /\ UNCHANGED <<e, claves, recibo>>
        BY <3>4 DEF Guarda, contents, receipt
      <4>2. Saved' = Saved
        BY <4>1 DEF Saved
      <4> QED
        BY <3>1, <4>1, <4>2
    <3> QED
      BY <1>1, <3>2, <3>3, <3>4
  <2>2. e'.receptor = e.receptor /\ e'.estado = e.estado /\ e'.motivo = e.motivo
    BY <1>1, <1>t DEF Archivo, Trozo, Guarda, Espera, Toma, DeliveryType
  <2>3. MayTry(e') => MayTry(e)
    BY <2>2 DEF MayTry
  <2>4. Blamed(e)' /\ Promises' = Promises
    BY <2>1, <2>2, <1>b, <1>q
  <2> QED
    BY <2>1, <2>2, <2>3, <2>4, <1>f, <1>g
<1>2. CASE Lista
  <2>1. /\ up = TRUE /\ up' = TRUE /\ e.estado = "preparando" /\ alHilo' = <<>> /\ baja' = baja
        /\ UNCHANGED <<pag, perdido, faults, notas, dado>> /\ disco' = Saved'
    BY <1>2, <1>t DEF Lista, Arranca, Free, history, link
  <2>2. alHilo = <<>> /\ baja = <<>> /\ e.receptor = 0 /\ \A t \in Tabs : pag[t].token = 0
    BY <2>1 DEF Idle
  <2>3. e'.receptor = e.receptor /\ e'.estado = "esperando" /\ e'.motivo = e.motivo
    BY <1>2, <1>t DEF Lista, DeliveryType
  <2>4. Promises = {} /\ Promises' = Promises
    BY <2>1, <2>2, Nothing DEF Promises
  <2>5. Nobody(1) /\ Nobody(2)
    BY <2>2, <2>4 DEF Nobody, Holds
  <2>6. Blamed(e)'
    BY <2>1, <2>3, <1>b
  <2> QED
    BY <2>1, <2>2, <2>3, <2>4, <2>5, <2>6, <1>f, <1>g
<1>3. CASE Revoca \/ Caduca
  <2>1. /\ up /\ up' /\ paso = "" /\ e.estado \in Viva /\ e'.estado \in Ended /\ e'.motivo = e.motivo
        /\ e'.receptor = e.receptor /\ Finish(e') /\ UNCHANGED <<dado, world>>
    BY <1>3, HandEnds DEF Ended, Kin
  <2>2. Promises' = Promises
    BY <2>1, <1>t, <1>a, ForgetsPlain DEF Finish, world, link
  <2>3. Blamed(e)'
    BY <2>1, <1>b DEF world, history
  <2> QED
    BY <2>1, <2>2, <2>3, <1>f, <1>g, <1>v DEF world, history, Finish
<1>4. CASE Olvida
  <2>1. /\ up /\ up' /\ e'.estado = "nada" /\ e'.motivo = "" /\ Closes(<<>>) /\ disco' = Saved'
        /\ e'.receptor = 0 /\ UNCHANGED <<dado, world>>
    BY <1>4 DEF Olvida, Free, Nada
  <2>2. Promises' = Promises
    BY <2>1, <1>t, <1>a, ForgetsPlain DEF world, link
  <2>3. Blamed(e)'
    BY <2>1, <1>b DEF world, history
  <2> QED
    BY <2>1, <2>2, <2>3, <1>f, <1>g, <1>v DEF world, history
<1>5. CASE Manipulado
  <2>1. /\ up /\ up' /\ paso = "" /\ Finish(e') /\ e'.receptor = e.receptor /\ UNCHANGED <<dado, world>>
        /\ \/ e.estado \in Viva /\ e'.estado = "destruida" /\ e'.motivo = "manipulada"
           \/ e.estado \notin Viva /\ e' = e
    BY <1>5, FrameEnds DEF Context, Kin
  <2>2. Promises' = Promises
    BY <2>1, <1>t, <1>a, ForgetsPlain DEF Finish, world, link
  <2>3. Blamed(e)'
    BY <2>1, <1>b DEF world, history
  <2>4. MayTry(e') => MayTry(e)
    BY <2>1, <1>v DEF Ended
  <2>5. (e.estado = "nada" => e'.estado = "nada") /\ (e'.estado = "nada" => e.estado = "nada")
    BY <2>1, <1>v
  <2> QED
    BY <2>1, <2>2, <2>3, <2>4, <2>5, <1>f, <1>g DEF world, history, Finish
<1>6. ASSUME NEW quien \in {"solo", "dos"}, Signs(quien), up, paso = "" PROVE Tokens'
  <2>1. UNCHANGED <<up, e, disco, dado, world>>
    BY <1>6 DEF Signs
  <2>2. Promises' = Promises
    BY <1>6, <2>1, <1>t, <1>a, ForgetsPlain DEF world, link
  <2>3. Blamed(e)'
    BY <2>1, <1>b DEF world, history
  <2> QED
    BY <1>6, <2>1, <2>2, <2>3, <1>f, <1>g DEF world, history
<1>7. CASE Acuse
  <2>1. CASE acuse = "no" /\ UNCHANGED <<up, e, contents, receipt, queues, paso, disco, dado, world>>
    <3>1. UNCHANGED <<up, e, alHilo, baja, pag, perdido, faults, notas, dado, paso, disco>> /\ up
      BY <1>7, <2>1, Signatures DEF queues, world, link, history, Context
    <3>2. Blamed(e)' /\ Promises' = Promises
      BY <3>1, <1>b, <1>q
    <3> QED
      BY <3>1, <3>2, <1>f, <1>g
  <2> QED
    BY <1>7, <2>1, <1>6, Signatures DEF Context
<1>8. CASE AcuseVence
  BY <1>8, <1>6, Overdue
<1>9. CASE Recibido
  <2>1. /\ up /\ up' /\ paso = "" /\ e'.receptor = e.receptor /\ e'.motivo = e.motivo
        /\ UNCHANGED <<dado, world>> /\ (disco' = Saved' \/ disco' = disco)
        /\ e.estado = "nada" <=> e'.estado = "nada"
        /\ e'.estado \in {e.estado, "entregada"}
    BY <1>9, FileEffects DEF Context
  <2>2. Promises' = Promises
    <3>1. alHilo' = alHilo \/ Told(<<M("recibo")>>)
      BY <1>9, FileEffects
    <3> QED
      BY <2>1, <3>1, <1>t, <1>a, SaysPlain, Plain DEF world, link
  <2>3. Blamed(e)'
    BY <2>1, <1>b DEF world, history
  <2>4. MayTry(e') => MayTry(e)
    BY <2>1, <1>v DEF Ended, MayTry
  <2> QED
    BY <2>1, <2>2, <2>3, <2>4, <1>f, <1>g DEF world, history
<1>10. CASE Codigo
  <2> DEFINE de == Head(lote).de
  <2>1. /\ Context /\ UNCHANGED <<thread, link, pag, faults, perdido, disco>> /\ notas \subseteq notas'
        /\ Head(lote).t = "codigo" /\ de \in Tabs /\ Head(lote) \in Codigos
    BY <1>10, Codes DEF Context, Codigos
  <2>2. dado \subseteq dado' /\ IsFiniteSet(dado')
    <3>1. dado' = dado \/ dado' = dado \cup {de}
      BY <1>10, Codes DEF Late, Closed, Missed, Burnt, Stranger, First, Again, Right, Wrong
    <3> QED
      BY <3>1, <1>f, FS_AddElement
  <2>3. CASE Late \/ Closed \/ Missed \/ Burnt
    <3>1. /\ (e.estado = "nada" => e'.estado = "nada")
          /\ (e'.estado = "nada" => e.estado = "nada")
          /\ (MayTry(e') => MayTry(e))
      BY <2>3, <1>v DEF Late, Closed, Missed, Burnt, Wrong, Kin, Ended, MayTry, Viva
    <3>2. e'.receptor = e.receptor /\ (e'.motivo = e.motivo \/ e'.motivo # "dispositivo_nuevo")
      BY <2>3 DEF Late, Closed, Missed, Burnt, Kin
    <3>3. Promises' = Promises
      <4>1. Told(<<M("fin")>>) \/ Told(<<M("mal")>>) \/ Closes(<<>>)
        BY <2>3 DEF Late, Closed, Missed, Burnt
      <4> QED
        BY <2>1, <4>1, <1>t, <1>a, SaysPlain, ForgetsPlain, Plain DEF link
    <3>4. Blamed(e)'
      BY <2>1, <2>2, <3>2, <1>b
    <3> QED
      BY <2>1, <2>2, <3>1, <3>2, <3>3, <3>4, <1>g DEF Context
  <2>o. MayTry(e) => /\ ~ Answered /\ Promises = {} /\ alHilo = <<>> /\ hilo /\ fase # "no"
                     /\ Head(lote).token = pag[de].token
    <3>1. SUFFICES ASSUME MayTry(e) PROVE /\ ~ Answered /\ Promises = {} /\ alHilo = <<>> /\ hilo
                                          /\ fase # "no" /\ Head(lote).token = pag[de].token
      OBVIOUS
    <3>2. Asks(lote)
      BY <2>1 DEF Context, Asks, Some, Code
    <3>3. ~ Answered /\ alHilo = <<>> /\ hilo /\ fase # "no"
      BY <2>1, <3>1, <3>2 DEF Turns, Context, Answered
    <3>4. Promises = {}
      BY <3>3 DEF Answered, Replies, Some, Result, Promises, Bien
    <3>5. Head(lote).token = pag[de].token
      BY <2>1, <3>1 DEF Owners, Context
    <3> QED
      BY <3>3, <3>4, <3>5
  <2>4. CASE Stranger
    <3>1. /\ MayTry(e) /\ e.receptor # 0 /\ Head(lote).token # e.receptor /\ dado' = dado \cup {de}
          /\ e'.estado = "destruida" /\ e'.receptor = e.receptor /\ Closes(<<>>)
      BY <2>4 DEF Stranger, Right, Kin
    <3>2. Promises' = Promises
      BY <2>1, <3>1, <1>t, <1>a, ForgetsPlain DEF link
    <3>3. perdido' \/ \E t, u \in dado' : t # u
      <4>1. KnownTo(e.receptor)
        BY <2>1, <3>1, <1>p DEF Met, Context
      <4>2. CASE perdido
        BY <4>2, <2>1
      <4>3. CASE \E t \in dado : Holds(e.receptor, t)
        <5>1. PICK t \in dado : Holds(e.receptor, t)
          BY <4>3
        <5>2. pag[t].token = e.receptor
          BY <2>o, <3>1, <5>1 DEF Holds
        <5>3. t # de
          BY <2>o, <3>1, <5>2
        <5> QED
          BY <3>1, <5>1, <5>3
      <4> QED
        BY <4>1, <4>2, <4>3 DEF KnownTo
    <3>4. Blamed(e)'
      BY <3>3 DEF Blamed
    <3> QED
      BY <2>1, <2>2, <3>1, <3>2, <3>4, <1>g, <1>v DEF Context, Ended, MayTry
  <2>5. CASE First \/ Again
    <3>1. /\ MayTry(e) /\ dado' = dado \cup {de} /\ paso' = "abierta" /\ e'.motivo = e.motivo
          /\ up /\ up' /\ e.estado # "nada" /\ e'.estado # "nada"
      BY <2>1, <2>5, <1>v DEF First, Again, Right, Context, MayTry
    <3>2. PICK n \in 1 .. 2 :
            /\ Told(<<[t |-> "bien", token |-> n, de |-> de]>>) /\ e'.receptor = n
            /\ \/ e.receptor = 0 /\ n = Life
               \/ e.receptor = n /\ pag[de].token = n
      <4>1. Life \in 1 .. 2
        BY DEF Life
      <4>2. e.receptor \in 0 .. 2
        BY <1>t DEF DeliveryType
      <4>3. CASE First
        BY <4>1, <4>3 DEF First
      <4>4. CASE Again
        <5>1. e.receptor \in 1 .. 2
          BY <4>2, <4>4 DEF Again
        <5>2. pag[de].token = e.receptor /\ e'.receptor = e.receptor
          BY <2>o, <3>1, <4>4 DEF Again
        <5> QED
          BY <5>1, <5>2, <4>4 DEF Again
      <4> QED
        BY <2>5, <4>3, <4>4
    <3> DEFINE m == [t |-> "bien", token |-> n, de |-> de]
    <3>3. m \in Answer /\ m.t = "bien" /\ m.de = de /\ m.token = n
      BY <2>1, Messages
    <3>4. alHilo' = <<m>>
      <4>1. <<>> \o <<m>> = <<m>>
        BY <3>3
      <4> QED
        BY <2>o, <3>1, <3>2, <4>1 DEF Told
    <3> HIDE DEF m, de
    <3>5. Promises' = {m}
      <4>1. Bien(<<m>>) = {m}
        BY <3>3, Single
      <4>2. baja' = baja /\ Bien(baja) = {}
        BY <2>1, <2>o, <3>1 DEF link, Promises
      <4> QED
        BY <3>4, <4>1, <4>2 DEF Promises
    <3>6. \A k, t : Holds(k, t)' <=> Holds(k, t) \/ (k = n /\ t = de)
      BY <2>1, <2>o, <3>1, <3>3, <3>5 DEF Holds
    <3>7. \A k : k # n => (Nobody(k)' <=> Nobody(k))
      BY <3>6 DEF Nobody
    <3>8. e.receptor = 0 => Nobody(n)
      <4>1. ASSUME e.receptor = 0, "caida" \in faults PROVE Nobody(2) /\ n = 2
        BY <3>1, <3>2, <4>1, <1>p DEF Fresh, Life
      <4>2. ASSUME e.receptor = 0, "caida" \notin faults PROVE Nobody(1) /\ n = 1
        BY <3>1, <3>2, <4>2, <1>p DEF Fresh, Life
      <4> QED
        BY <4>1, <4>2
    <3>9. Behind'
      BY <2>1, <3>1, <3>2, <1>p DEF Behind
    <3>10. Given'
      <4>1. \A t \in Tabs : Opened(t)' => t \in dado'
        BY <2>1, <2>2, <1>p DEF Given, Opened
      <4>2. \A c \in Promises' : c.de \in dado' /\ c.token = e'.receptor
        BY <3>1, <3>2, <3>3, <3>5
      <4>3. ASSUME NEW k \in 1 .. 2, NEW t \in Tabs, NEW u \in Tabs, Holds(k, t)', Holds(k, u)' PROVE t = u
        <5>1. CASE k # n
          BY <3>6, <4>3, <5>1, <1>p DEF Given
        <5>2. CASE k = n /\ e.receptor = 0
          BY <3>6, <3>8, <4>3, <5>2 DEF Nobody
        <5>3. CASE k = n /\ e.receptor = n /\ pag[de].token = n
          <6>1. Holds(n, de)
            BY <5>3 DEF Holds
          <6> QED
            BY <2>1, <3>6, <4>3, <5>3, <6>1, <1>p DEF Given
        <5> QED
          BY <3>2, <5>1, <5>2, <5>3
      <4> QED
        BY <2>2, <4>1, <4>2, <4>3 DEF Given
    <3>11. Fresh'
      <4>1. e'.receptor # 0
        BY <3>2
      <4>2. "caida" \notin faults' => Nobody(2)'
        <5>1. ASSUME "caida" \notin faults PROVE Nobody(2) /\ n # 2
          <6>1. Nobody(2)
            BY <5>1, <1>p DEF Fresh
          <6>2. CASE e.receptor = 0
            BY <3>2, <5>1, <6>1, <6>2 DEF Life
          <6>3. CASE pag[de].token = n
            <7>1. ~ Holds(2, de)
              BY <2>1, <6>1 DEF Nobody
            <7> QED
              BY <6>1, <6>3, <7>1 DEF Holds
          <6> QED
            BY <3>2, <6>2, <6>3
        <5> QED
          BY <2>1, <3>7, <5>1
      <4>3. "abierta" \notin notas' => Nobody(1)' \/ Nobody(2)'
        <5>1. SUFFICES ASSUME "abierta" \notin notas PROVE Nobody(1)' \/ Nobody(2)'
          BY <2>1
        <5>2. CASE e.receptor = 0
          <6>1. CASE "caida" \in faults
            <7>1. n = 2 /\ Nobody(1)
              BY <3>1, <3>2, <5>1, <5>2, <6>1, <1>p DEF Fresh, Life
            <7> QED
              BY <7>1, <3>7
          <6>2. CASE "caida" \notin faults
            BY <2>1, <4>2, <6>2
          <6> QED
            BY <6>1, <6>2
        <5>3. CASE pag[de].token = n
          <6>1. \A k : Nobody(k)' <=> Nobody(k)
            <7>1. Holds(n, de)
              BY <5>3 DEF Holds
            <7> QED
              BY <3>6, <7>1 DEF Nobody
          <6> QED
            BY <5>1, <6>1, <1>p DEF Fresh
        <5> QED
          BY <3>2, <5>2, <5>3
      <4> QED
        BY <3>1, <4>1, <4>2, <4>3 DEF Fresh
    <3>12. Met'
      <4>1. KnownTo(e.receptor)'
        <5>1. PICK x \in dado' : x = de
          BY <3>1
        <5>2. Holds(n, x)'
          BY <3>6, <5>1
        <5> QED
          BY <3>2, <5>1, <5>2 DEF KnownTo, Holds
      <4>2. MayTry(disco'.e) /\ disco'.e.receptor # 0 => KnownTo(disco.e.receptor)'
        <5>1. \A k : KnownTo(k) => KnownTo(k)'
          BY <2>1, <2>2, <3>6 DEF KnownTo
        <5> QED
          BY <2>1, <5>1, <1>p DEF Met, KnownTo, Holds
      <4>3. Blamed(e)' /\ Blamed(disco.e)'
        BY <2>1, <2>2, <3>1, <1>p DEF Met, Blamed
      <4> QED
        BY <4>1, <4>2, <4>3 DEF Met
    <3> QED
      BY <3>9, <3>10, <3>11, <3>12 DEF Tokens
  <2> QED
    BY <1>10, <2>3, <2>4, <2>5, Codes
<1>11. CASE Muere
  <2>1. /\ up' = FALSE /\ "caida" \notin faults /\ alHilo' = <<>> /\ baja' = <<>> /\ Lost(alHilo \o baja)
        /\ UNCHANGED <<e, disco, pag, dado>> /\ notas' = notas \cup ({paso} \ {""}) /\ up
    BY <1>11 DEF Muere, Fault
  <2>2. Promises' = {}
    BY <2>1, Nothing DEF Promises
  <2>3. perdido => perdido'
    BY <2>1 DEF Lost
  <2>4. Promises = {} \/ perdido'
    <3>1. alHilo \in Seq(FrameDown) /\ In(alHilo \o baja) = In(alHilo) \cup In(baja)
      BY <1>t, Joins, Wider
    <3>2. \A m \in Promises : \E k \in DOMAIN (alHilo \o baja) : (alHilo \o baja)[k] = m /\ m.t = "bien"
      BY <3>1 DEF Promises, Bien, In
    <3> QED
      BY <2>1, <3>2 DEF Lost, IsBien
  <2>5. \A n, t : Holds(n, t)' => Holds(n, t)
    BY <2>1, <2>2 DEF Holds
  <2>6. \A n : Nobody(n) => Nobody(n)'
    BY <2>5 DEF Nobody
  <2>7. Behind' /\ Blamed(e)' /\ Blamed(disco.e)'
    BY <2>1, <2>3, <1>p DEF Behind, Met, Blamed
  <2>8. Given'
    <3>1. \A t \in Tabs : Opened(t)' => t \in dado'
      BY <2>1, <1>p DEF Given, Opened
    <3> QED
      BY <2>1, <2>2, <2>5, <3>1, <1>p DEF Given
  <2>9. Fresh'
    <3>1. Nobody(2)'
      BY <2>1, <2>6, <1>p DEF Fresh
    <3>2. "abierta" \notin notas' => "abierta" \notin notas /\ paso # "abierta"
      BY <2>1
    <3>3. "abierta" \notin notas' /\ MayTry(disco'.e) /\ disco'.e.receptor = 0 => Nobody(1)'
      BY <2>1, <2>6, <3>2, <1>p DEF Fresh
    <3> QED
      BY <2>1, <3>1, <3>3 DEF Fresh
  <2>10. MayTry(disco'.e) /\ disco'.e.receptor # 0 => KnownTo(disco.e.receptor)'
    <3>1. CASE perdido'
      BY <3>1 DEF KnownTo
    <3>2. CASE Promises = {}
      BY <2>1, <2>2, <2>3, <3>2, <1>p DEF Met, KnownTo, Holds
    <3> QED
      BY <2>4, <3>1, <3>2
  <2> QED
    BY <2>1, <2>7, <2>8, <2>9, <2>10 DEF Tokens, Met
<1>12. CASE Vuelve
  <2>1. /\ up = FALSE /\ up' = TRUE /\ UNCHANGED <<disco, pag, dado, faults, perdido, paso, baja>>
        /\ notas \subseteq notas' /\ ("abierta" \in notas' <=> "abierta" \in notas)
    BY <1>12, <1>t DEF Vuelve, link
  <2>2. alHilo = <<>> /\ baja = <<>> /\ "caida" \in faults /\ paso = ""
    BY <2>1 DEF Idle
  <2>3. alHilo' = <<>>
    BY <1>12, <2>2 DEF Vuelve, Arranca, queues
  <2>4. Promises = {} /\ Promises' = {}
    BY <2>1, <2>2, <2>3, Nothing DEF Promises
  <2>5. /\ e'.receptor = disco.e.receptor /\ e'.motivo = disco.e.motivo
        /\ e'.estado = "nada" => disco.e.estado = "nada"
        /\ MayTry(e') => MayTry(disco.e)
    <3>1. CASE disco.e.estado = "preparando"
      <4>1. e' = [disco.e EXCEPT !.estado = "revocada"]
        BY <1>12, <3>1 DEF Vuelve
      <4>2. e'.receptor = disco.e.receptor /\ e'.motivo = disco.e.motivo /\ e'.estado = "revocada"
        BY <4>1, <1>t DEF DeliveryType
      <4> QED
        BY <4>2 DEF MayTry
    <3>2. CASE disco.e.estado # "preparando"
      BY <1>12, <3>2 DEF Vuelve
    <3> QED
      BY <3>1, <3>2
  <2>6. \A n, t : Holds(n, t)' <=> Holds(n, t)
    BY <2>1, <2>4 DEF Holds
  <2>7. \A n : (Nobody(n)' <=> Nobody(n)) /\ (KnownTo(n) => KnownTo(n)')
    BY <2>1, <2>6 DEF Nobody, KnownTo
  <2>8. Behind'
    BY <2>1, <2>5 DEF Behind
  <2>9. Given'
    <3>1. \A t \in Tabs : Opened(t)' => t \in dado'
      BY <2>1, <1>p DEF Given, Opened
    <3> QED
      BY <2>1, <2>4, <2>6, <3>1, <1>p DEF Given
  <2>10. Fresh'
    <3>1. Nobody(2)'
      BY <2>1, <2>7, <1>p DEF Fresh
    <3>2. "abierta" \notin notas /\ MayTry(disco.e) /\ disco.e.receptor = 0 => Nobody(1)'
      BY <2>1, <2>7, <1>p DEF Fresh
    <3> QED
      BY <2>1, <2>2, <2>5, <3>1, <3>2 DEF Fresh
  <2>11. MayTry(disco.e) /\ disco.e.receptor # 0 =>
            KnownTo(e.receptor)' /\ KnownTo(disco.e.receptor)'
    <3>1. ASSUME MayTry(disco.e), disco.e.receptor # 0, NEW n, n = disco.e.receptor PROVE KnownTo(n)'
      BY <3>1, <2>7, <1>p DEF Met, KnownTo
    <3> QED
      BY <2>1, <2>5, <3>1 DEF KnownTo, Holds
  <2>12. Met'
    BY <2>1, <2>5, <2>11, <1>p DEF Met, Blamed
  <2> QED
    BY <2>8, <2>9, <2>10, <2>12 DEF Tokens
\* What the thread takes out of its queue.
<1>h. alHilo # <<>> =>
        /\ Bien(Tail(alHilo)) = {} /\ Head(alHilo) \in FrameDown
        /\ Bien(alHilo) = IF Head(alHilo).t = "bien" THEN {Head(alHilo)} ELSE {}
  <2>1. SUFFICES ASSUME alHilo # <<>>
                 PROVE  /\ Bien(Tail(alHilo)) = {} /\ Head(alHilo) \in FrameDown
                        /\ Bien(alHilo) = IF Head(alHilo).t = "bien" THEN {Head(alHilo)} ELSE {}
    OBVIOUS
  <2>2. Bien(Tail(alHilo)) = {}
    BY <2>1, <1>t, Firsts DEF Owners
  <2>3. Bien(alHilo) = IF Head(alHilo).t = "bien" THEN Bien(Tail(alHilo)) \cup {Head(alHilo)}
                       ELSE Bien(Tail(alHilo))
    BY <2>1, <1>t, Shrinks
  <2>4. Head(alHilo) \in FrameDown
    BY <2>1, <1>t, Tails, Messages
  <2> QED
    BY <2>2, <2>3, <2>4
<1>l. \A m : Lost(<<m>>) => (perdido => perdido') /\ (m.t = "bien" => perdido')
  <2>1. \A m : 1 \in DOMAIN <<m>> /\ <<m>>[1] = m
    OBVIOUS
  <2> QED
    BY <2>1 DEF Lost, IsBien
<1>13. CASE Ignora
  <2>1. /\ alHilo # <<>> /\ alHilo' = Tail(alHilo) /\ Lost(<<Head(alHilo)>>)
        /\ UNCHANGED <<core, baja, pag, faults, notas>>
    BY <1>13 DEF Ignora, Discarded, link
  <2>2. Promises' = Bien(baja)
    BY <2>1, <1>h DEF Promises
  <2>3. perdido' \/ Promises \subseteq Promises'
    BY <2>1, <2>2, <1>h, <1>l DEF Promises
  <2> QED
    BY <2>1, <2>2, <2>3, <1>l, <1>x DEF Promises
<1>14. CASE Acaba
  <2>1. /\ alHilo # <<>> /\ alHilo' = <<>> /\ Head(alHilo).t = "fin"
        /\ UNCHANGED <<core, baja, pag, faults, perdido, notas>>
    BY <1>14 DEF Acaba, link, history
  <2>2. Promises' = Promises
    BY <2>1, <1>h, Nothing DEF Promises
  <2> QED
    BY <2>1, <2>2, <1>x
<1>15. CASE Transmite
  <2>1. /\ alHilo # <<>> /\ (alHilo' = Tail(alHilo) \/ alHilo' = <<>>)
        /\ UNCHANGED <<core, pag, faults, notas>>
        /\ \/ Lost(<<Head(alHilo)>>) /\ baja' = baja
           \/ baja' = Append(baja, Head(alHilo)) /\ perdido' = perdido
    BY <1>15, <1>t DEF Transmite
  <2>2. Bien(alHilo') = {}
    BY <2>1, <1>h, Nothing
  <2>3. CASE Lost(<<Head(alHilo)>>) /\ baja' = baja
    <3>1. Promises' = Bien(baja)
      BY <2>2, <2>3 DEF Promises
    <3>2. perdido' \/ Promises \subseteq Promises'
      BY <2>1, <2>3, <3>1, <1>h, <1>l DEF Promises
    <3> QED
      BY <2>1, <2>3, <3>1, <3>2, <1>l, <1>x DEF Promises
  <2>4. CASE baja' = Append(baja, Head(alHilo)) /\ perdido' = perdido
    <3>1. Bien(baja') = IF Head(alHilo).t = "bien" THEN Bien(baja) \cup {Head(alHilo)} ELSE Bien(baja)
      BY <2>1, <2>4, <1>h, <1>t, Grows
    <3>2. Promises' = Promises
      BY <2>1, <2>2, <3>1, <1>h DEF Promises
    <3> QED
      BY <2>1, <2>4, <3>2, <1>x
  <2> QED
    BY <2>1, <2>3, <2>4
<1>16. CASE Despierta \/ Suelta \/ ServeCode \/ ServeWord \/ ServeBroken \/ Manipula
  <2>1. /\ UNCHANGED <<core, alHilo, baja, pag, perdido, notas>>
        /\ "caida" \in faults' <=> "caida" \in faults
    BY <1>16 DEF Despierta, Suelta, ServeCode, ServeWord, ServeBroken, Manipula, queues, link, history,
       Leaves, Fault
  <2> QED
    BY <2>1, <1>q, <1>x
<1>17. CASE ServePiece
  <2>1. UNCHANGED <<core, alHilo, pag, faults, perdido, notas>> /\ Frame("pide")
    BY <1>17 DEF ServePiece, queues, history
  <2>2. Bien(baja') = Bien(baja)
    <3> DEFINE m == IF Head(sube).i \in sellados THEN [t |-> "trozo", i |-> Head(sube).i] ELSE M("fin")
    <3>0. Head(sube) \in FrameUp /\ Head(sube).t = "pide"
      BY <2>1, <1>t, Tails DEF Frame
    <3>1. m \in FrameDown /\ m.t # "bien"
      BY <3>0, Carried, Messages DEF M
    <3>2. baja' = baja \/ baja' = Append(baja, m)
      BY <1>17 DEF ServePiece
    <3> HIDE DEF m
    <3> QED
      BY <3>1, <3>2, <1>t, Grows
  <2>3. Promises' = Promises
    BY <2>1, <2>2 DEF Promises
  <2> QED
    BY <2>1, <2>3, <1>x
<1>18. CASE Corta
  <2>1. UNCHANGED <<core, alHilo, pag, notas>> /\ ("caida" \in faults' <=> "caida" \in faults)
    BY <1>18 DEF Corta, queues, Fault
  <2>2. PICK k \in 0 .. Len(baja) :
           baja' = SubSeq(baja, 1, k) /\ Lost(SubSeq(baja, k + 1, Len(baja)))
    BY <1>18 DEF Corta
  <2> DEFINE rest == SubSeq(baja, k + 1, Len(baja))
  <2>3. Bien(baja) = Bien(baja') \cup Bien(rest)
    BY <2>2, <1>t, Breaks
  <2> HIDE DEF rest
  <2>4. (perdido => perdido') /\ (perdido' \/ Bien(rest) = {})
    <3>1. Lost(rest)
      BY <2>2 DEF rest
    <3> QED
      BY <3>1 DEF Lost, IsBien, Bien, In
  <2>5. Promises' \subseteq Promises /\ (perdido' \/ Promises \subseteq Promises')
    BY <2>1, <2>3, <2>4 DEF Promises
  <2> QED
    BY <2>1, <2>4, <2>5, <1>x
<1>19. ASSUME NEW t \in Tabs,
              \/ Entra(t) \/ Deja(t) \/ \E bien \in BOOLEAN : Da(t, bien)
              \/ \E i \in Files(e) : Pide(t, i) \/ Confirma(t, i)
       PROVE  Tokens'
  <2>1. UNCHANGED <<core, alHilo, baja, faults, perdido, notas>>
    BY <1>19 DEF Entra, Deja, Da, Pide, Confirma, queues, link, history
  <2>2. \A u \in Tabs : pag'[u].token = pag[u].token
    <3>1. CASE Entra(t)
      BY <3>1, <1>t DEF Entra, PageType
    <3>2. CASE Deja(t)
      BY <3>2, <1>t DEF Deja, PageType
    <3>3. ASSUME NEW bien \in BOOLEAN, Da(t, bien) PROVE \A u \in Tabs : pag'[u].token = pag[u].token
      BY <3>3, <1>t DEF Da, PageType
    <3>4. ASSUME NEW i \in Files(e), Pide(t, i) PROVE pag' = pag
      BY <3>4 DEF Pide
    <3>5. ASSUME NEW i \in Files(e), Confirma(t, i) PROVE \A u \in Tabs : pag'[u].token = pag[u].token
      BY <3>5, <1>t DEF Confirma, PageType
    <3> QED
      BY <1>19, <3>1, <3>2, <3>3, <3>4, <3>5
  <2> QED
    BY <2>1, <2>2, <1>q, <1>x
<1>20. ASSUME NEW t \in Tabs, Lee(t) PROVE Tokens'
  <2> DEFINE m == Head(baja)
  <2>1. /\ UNCHANGED <<core, alHilo, faults, perdido, notas>> /\ baja # <<>> /\ baja' = Tail(baja)
        /\ pag' = [pag EXCEPT ![t] = Reads(t, m)] /\ Here(t)
    BY <1>20 DEF Lee, queues, history, Here
  <2>2. Bien(baja) = IF m.t = "bien" THEN Bien(baja') \cup {m} ELSE Bien(baja')
    BY <2>1, <1>t, Shrinks
  <2>3. \A u \in Tabs : u # t => pag'[u] = pag[u]
    BY <2>1, <1>t
  <2>4. pag'[t].token = IF m.t = "bien" THEN m.token ELSE pag[t].token
    <3>1. pag[t] \in PageType /\ pag'[t] = Reads(t, m)
      BY <2>1, <1>t
    <3> HIDE DEF m
    <3> QED
      BY <3>1 DEF Reads, PageType
  <2>5. CASE m.t # "bien"
    <3> HIDE DEF m
    <3>1. \A u \in Tabs : pag'[u].token = pag[u].token
      BY <2>3, <2>4, <2>5
    <3>2. Promises' = Promises
      BY <2>1, <2>2, <2>5 DEF Promises
    <3> QED
      BY <2>1, <3>1, <3>2, <1>x
  <2>6. CASE m.t = "bien"
    <3> HIDE DEF m
    <3>1. m \in Promises /\ Promises' \subseteq Promises /\ Promises \subseteq Promises' \cup {m}
      BY <2>1, <2>2, <2>6 DEF Promises
    <3>2. m \in Bien(baja)
      BY <2>2, <2>6
    <3>3. m.de = t
      <4>1. m \in FrameDown
        BY <2>1, <1>t, Tails DEF m
      <4>2. m.de \in Tabs /\ Here(m.de)
        BY <3>2, <4>1, <2>6, Carried DEF Owners
      <4> QED
        BY <2>1, <4>2 DEF Owners, OneAtATime
    <3>4. m.de \in dado /\ up /\ (e.estado = "nada" \/ m.token = e.receptor)
      <4>1. up
        BY <2>1, <1>t DEF Idle
      <4> QED
        BY <3>1, <4>1, <1>p DEF Given
    <3>5. \A n \in 1 .. 2, u \in Tabs : Holds(n, u)' => Holds(n, u)
      <4>1. ASSUME NEW n \in 1 .. 2, NEW u \in Tabs, Holds(n, u)' PROVE Holds(n, u)
        <5>1. CASE pag'[u].token = n /\ u = t
          BY <2>4, <2>6, <3>1, <3>3, <5>1 DEF Holds
        <5>2. CASE pag'[u].token = n /\ u # t
          BY <2>3, <5>2 DEF Holds
        <5>3. CASE \E c \in Promises' : c.de = u /\ c.token = n
          BY <3>1, <5>3 DEF Holds
        <5> QED
          BY <4>1, <5>1, <5>2, <5>3 DEF Holds
      <4> QED
        BY <4>1
    <3>6. \A u \in Tabs : Opened(u)' => Opened(u) \/ u \in dado
      BY <2>3, <3>3, <3>4 DEF Opened
    <3>7. ASSUME NEW n \in 1 .. 2,
                 \/ up /\ MayTry(e) /\ n = e.receptor
                 \/ MayTry(disco.e) /\ n = disco.e.receptor
          PROVE  KnownTo(n)'
      <4>1. e.estado # "nada"
        BY <3>4, <3>7, <1>p DEF Behind, MayTry
      <4>2. m.token = e.receptor /\ n = m.token
        BY <3>4, <3>7, <4>1, <1>p DEF Behind
      <4>3. Holds(n, t)' /\ t \in dado'
        BY <2>1, <2>4, <2>6, <3>3, <3>4, <4>2 DEF Holds, core
      <4> QED
        BY <4>3 DEF KnownTo
    <3> QED
      BY <2>1, <3>1, <3>5, <3>6, <3>7, <1>w
  <2> QED
    BY <2>5, <2>6
<1>21. CASE UNCHANGED vars
  BY <1>21, <1>q, <1>x DEF vars, core, queues, world, link, history
<1> QED
  BY <1>1, <1>2, <1>3, <1>4, <1>5, <1>7, <1>8, <1>9, <1>10, <1>11, <1>12, <1>13, <1>14,
     <1>15, <1>16, <1>17, <1>18, <1>19, <1>20, <1>21 DEF Next
LEMMA TokensHold ==
    ASSUME Puntual
    PROVE  Spec => [](Shape /\ Idle /\ ForgetsInv /\ Turns /\ Owners /\ Tokens)
<1> DEFINE IInv == Shape /\ Idle /\ ForgetsInv /\ Turns /\ Owners /\ Tokens
<1>1. Init => IInv
  BY InitShape, InitIdle, InitForgets, InitTurns, InitOwners, InitTokens
<1>2. IInv /\ [Next]_vars => IInv'
  BY DeliveryStep, TalkStep, IdleStep, ForgetsStep, TurnsStep, OwnersStep, TokensStep DEF Shape
<1> QED
  BY <1>1, <1>2, PTL DEF Spec

LEMMA OneHasIt == Shape /\ Tokens => OneReceiver
<1> SUFFICES ASSUME Shape, Tokens PROVE OneReceiver
  OBVIOUS
<1>t. pag \in [Tabs -> PageType]
  BY DEF Shape, TalkShape
<1>p. Given /\ Fresh /\ Met
  BY DEF Tokens
<1> DEFINE S == {t \in Tabs : Opened(t)}
<1>1. \A t \in Tabs : Opened(t) => t \in dado
  BY <1>p DEF Given
<1>2. ASSUME "abierta" \notin notas PROVE ~ (Cardinality(S) > 1)
  <2>1. PICK n \in 1 .. 2 : \A k \in 1 .. 2 : k = n \/ Nobody(k)
    <3>1. CASE Nobody(1)
      BY <3>1
    <3>2. CASE Nobody(2)
      BY <3>2
    <3> QED
      BY <1>2, <1>p, <3>1, <3>2 DEF Fresh
  <2>2. \A t \in S : Holds(n, t)
    <3>1. ASSUME NEW t \in S PROVE Holds(n, t)
      <4>1. pag[t].token \in 0 .. 2 /\ pag[t].token # 0
        BY <1>t DEF PageType, Opened
      <4>2. Holds(pag[t].token, t) /\ pag[t].token \in 1 .. 2
        BY <4>1 DEF Holds
      <4> QED
        BY <2>1, <4>2 DEF Nobody
    <3> QED
      BY <3>1
  <2>3. \A t, u \in S : t = u
    BY <2>2, <1>p DEF Given
  <2>4. S = {} \/ \E t : S = {t}
    BY <2>3
  <2> HIDE DEF S
  <2>5. Cardinality(S) = 0 \/ Cardinality(S) = 1
    BY <2>4, FS_EmptySet, FS_Singleton
  <2> QED
    BY <2>5
<1>3. ASSUME e.motivo = "dispositivo_nuevo", ~ perdido PROVE Cardinality(dado) > 1
  <2>1. PICK t \in dado, u \in dado : t # u
    BY <1>3, <1>p DEF Met, Blamed
  <2>2. IsFiniteSet({t}) /\ Cardinality({t}) = 1
    BY FS_Singleton
  <2>3. Cardinality({t} \cup {u}) = 2
    BY <2>1, <2>2, FS_AddElement
  <2>4. {t} \cup {u} \in SUBSET dado /\ IsFiniteSet(dado)
    BY <1>p DEF Given
  <2>5. 2 <= Cardinality(dado) /\ Cardinality(dado) \in Nat
    BY <2>3, <2>4, FS_Subset, FS_CardinalityType
  <2> QED
    BY <2>5
<1> QED
  BY <1>1, <1>2, <1>3 DEF OneReceiver

\* The first receiver that gives the right code is the only one, unless the program died
\* with its token not saved; and nobody else's device is blamed for a token that was lost.
THEOREM OneReceiverOnly ==
    ASSUME Puntual
    PROVE  Spec => []OneReceiver
<1>1. Shape /\ Tokens => OneReceiver
  BY OneHasIt
<1> QED
  BY TokensHold, <1>1, PTL

-----------------------------------------------------------------------------
(***************************************************************************)
(* What the tab that has the token has received.                           *)
(***************************************************************************)
LEMMA InitConfirmations == Init => Confirmations
<1> SUFFICES ASSUME Init PROVE Confirmations
  OBVIOUS
<1>1. /\ sube = <<>> /\ delHilo = <<>> /\ lote = <<>> /\ e.estado = "preparando" /\ e.recibidos = {}
      /\ disco.e.estado = "nada" /\ disco.e.recibidos = {}
  BY DEF Init, Nada
<1>2. \A t \in Tabs : pag[t].at = "fuera"
  BY DEF Init
<1>3. Said = {}
  BY <1>1, Empties DEF Said
<1> QED
  BY <1>1, <1>2, <1>3 DEF Confirmations, Complete

LEMMA ConfirmationsStep ==
    ASSUME Shape, Idle, ForgetsInv, Behind, Given, Confirmations, [Next]_vars
    PROVE  Confirmations'
<1>t. /\ e \in DeliveryType /\ disco.e \in DeliveryType /\ up \in BOOLEAN /\ TalkShape
      /\ alHilo \in Seq(Answer) /\ delHilo \in Seq(Word) /\ lote \in Seq(Word)
      /\ sube \in Seq(FrameUp) /\ baja \in Seq(FrameDown) /\ pag \in [Tabs -> PageType]
      /\ dado \subseteq Tabs /\ hilo \in BOOLEAN /\ roto \in BOOLEAN
  BY DEF Shape, DeliveryShape, TalkShape, DiskType
<1> DEFINE C1 == \A t \in Tabs : pag[t].at = "abierta" =>
                    pag[t].token # 0 /\ (~ roto => pag[t].token = e.receptor \/ e.estado = "nada")
           C2 == up /\ e.estado # "nada" => \A m \in Said : Has(e.receptor, m.i)
           C3 == up => \A i \in e.recibidos : Has(e.receptor, i)
           C4 == /\ \A i \in disco.e.recibidos : Has(disco.e.receptor, i)
                 /\ disco.e.estado = "nada" => disco.e.recibidos = {}
                 /\ Complete(disco.e)
           C5 == up => /\ e.estado = "nada" => e.recibidos = {}
                       /\ Complete(e)
<1>p. C1 /\ C2 /\ C3 /\ C4 /\ C5
  BY DEF Confirmations
<1>z. C1' /\ C2' /\ C3' /\ C4' /\ C5' => Confirmations'
  BY DEF Confirmations
<1>s. Saved'.e = e'
  BY DEF Saved
<1>v. "nada" \notin Ended \cup Viva /\ "abierta" # "nada" /\ "entregada" \notin Viva
  BY DEF Ended, Viva
<1>c. ASSUME In(sube') \cup In(delHilo') \cup In(lote') \subseteq In(sube) \cup In(delHilo) \cup In(lote)
      PROVE  Said' \subseteq Said
  BY <1>c DEF Said
<1>n. In(<<>>) = {}
  BY DEF In
\* A step of the program.
<1>g. ASSUME up, up', UNCHANGED <<pag, roto>>, dado \subseteq dado', Said' \subseteq Said,
             e'.receptor = e.receptor \/ e.receptor = 0 \/ (e'.estado = "nada" /\ e'.recibidos = {}),
             \A i \in e'.recibidos : i \in e.recibidos \/ (e.estado # "nada" /\ \E m \in Said : m.i = i),
             e.estado = "nada" => e'.estado = "nada",
             e'.estado = "nada" => e'.recibidos = {},
             Complete(e)', disco' = disco \/ disco' = Saved'
      PROVE  Confirmations'
  <2>1. C1'
    BY <1>g, <1>p
  <2>h. \A n, i : Has(n, i) => Has(n, i)'
    BY <1>g DEF Has
  <2>r. \A i : Has(e.receptor, i) /\ ~ (e'.estado = "nada" /\ e'.recibidos = {}) => Has(e.receptor, i)'
    BY <1>g DEF Has
  <2>2. C2'
    <3>1. ASSUME e'.estado # "nada", NEW m \in Said' PROVE Has(e.receptor, m.i)
      BY <1>g, <3>1, <1>p
    <3> QED
      BY <3>1, <2>r
  <2>3. C3'
    <3>1. ASSUME NEW i \in e'.recibidos PROVE Has(e.receptor, i)
      BY <1>g, <3>1, <1>p
    <3> QED
      BY <3>1, <2>r
  <2>5. C5'
    BY <1>g
  <2>4. C4'
    <3>1. CASE disco' = Saved'
      BY <1>g, <3>1, <2>3, <2>5, <1>s DEF Has, Complete, Files
    <3>2. CASE disco' = disco
      BY <1>g, <3>2, <1>p DEF Has, Complete, Files
    <3> QED
      BY <1>g, <3>1, <3>2
  <2> QED
    BY <2>1, <2>2, <2>3, <2>4, <2>5, <1>z
\* A step of a tab, the thread or the network.
<1>w. ASSUME UNCHANGED core,
             \A t \in Tabs : /\ pag'[t].token = pag[t].token /\ pag[t].tiene \subseteq pag'[t].tiene
                             /\ pag'[t].at = "abierta" => pag[t].at = "abierta" /\ (roto => roto'),
             up /\ e.estado # "nada" => \A m \in Said' : m \in Said \/ Has(e.receptor, m.i)
      PROVE  Confirmations'
  <2>c. UNCHANGED <<up, e, disco, dado>>
    BY <1>w DEF core
  <2>h. \A n, i : Has(n, i) => Has(n, i)'
    BY <1>w, <2>c, <1>t DEF Has
  <2>1. C1'
    BY <1>w, <2>c, <1>p
  <2>2. C2'
    <3>1. ASSUME up, e.estado # "nada", NEW m \in Said' PROVE Has(e.receptor, m.i)
      BY <1>w, <3>1, <1>p
    <3> QED
      BY <1>w, <2>c, <3>1, <1>t DEF Has
  <2>3. C3'
    BY <1>w, <2>c, <1>p, <1>t DEF Has
  <2>4. C4'
    BY <1>w, <2>c, <1>p, <1>t DEF Has, Complete, Files
  <2>5. C5'
    BY <2>c, <1>p DEF Complete, Files
  <2> QED
    BY <2>1, <2>2, <2>3, <2>4, <2>5, <1>z
<1>k. Complete(e) /\ e'.recibidos = e.recibidos /\ e'.archivos = e.archivos
      /\ (e'.estado = "entregada" => e.estado = "entregada") => Complete(e)'
  BY DEF Complete, Files
<1>1. CASE Archivo \/ Trozo \/ Guarda \/ Espera \/ Toma \/ Lista
  <2>1. up = TRUE /\ up' = TRUE /\ UNCHANGED <<pag, roto, dado>> /\ (disco' = disco \/ disco' = Saved')
    <3>1. up = TRUE /\ up' = TRUE /\ UNCHANGED <<pag, roto, dado>>
      BY <1>1, <1>t DEF Archivo, Trozo, Guarda, Espera, Toma, Lista, Free, world, link
    <3>2. CASE Guarda
      <4>1. disco' = Saved /\ UNCHANGED <<e, claves, recibo>>
        BY <3>2 DEF Guarda, contents, receipt
      <4>2. Saved' = Saved
        BY <4>1 DEF Saved
      <4> QED
        BY <3>1, <4>1, <4>2
    <3>3. CASE Archivo \/ Trozo \/ Espera \/ Toma \/ Lista
      BY <3>1, <3>3 DEF Archivo, Trozo, Espera, Toma, Lista
    <3> QED
      BY <1>1, <3>2, <3>3
  <2>2. Said' \subseteq Said
    BY <1>1, <1>c, <1>n DEF Archivo, Trozo, Guarda, Espera, Toma, Lista, Arranca, queues, world, link
  <2>3. /\ e'.receptor = e.receptor /\ e'.recibidos = e.recibidos
        /\ e'.estado = e.estado \/ (e.estado = "preparando" /\ e'.estado = "esperando")
        /\ e'.archivos = e.archivos \/ (e.estado \in Viva /\ e'.estado = e.estado)
    <3>1. CASE Trozo
      <4>1. e.estado \in Viva
        BY <3>1 DEF Trozo, ForgetsInv, Emptied, Viva
      <4> QED
        BY <3>1, <4>1, <1>t DEF Trozo, DeliveryType
    <3>2. CASE Archivo \/ Guarda \/ Espera \/ Toma \/ Lista
      BY <3>2, <1>t DEF Archivo, Guarda, Espera, Toma, Lista, DeliveryType
    <3> QED
      BY <1>1, <3>1, <3>2
  <2>4. Complete(e)'
    BY <2>1, <2>3, <1>p, <1>k, <1>v DEF Complete
  <2> QED
    BY <2>1, <2>2, <2>3, <2>4, <1>p, <1>g
<1>2. CASE Revoca \/ Caduca
  <2>1. /\ up = TRUE /\ up' = TRUE /\ Kin(e', e) /\ Finish(e') /\ UNCHANGED <<lote, dado, world>>
        /\ e'.estado \in {"revocada", "caducada"} /\ e.estado \in Viva
    BY <1>2, HandEnds
  <2>2. Said' \subseteq Said
    BY <2>1, <1>c, <1>n DEF Finish, Closes, world, link
  <2>3. Complete(e)'
    BY <2>1 DEF Complete
  <2> QED
    BY <2>1, <2>2, <2>3, <1>g, <1>v DEF Finish, Kin, world, link
<1>3. CASE Olvida
  <2>1. /\ up /\ up' /\ Closes(<<>>) /\ disco' = Saved' /\ UNCHANGED <<lote, dado, world>>
        /\ e'.estado = "nada" /\ e'.recibidos = {}
    BY <1>3 DEF Olvida, Free, Nada
  <2>2. Said' \subseteq Said
    BY <2>1, <1>c, <1>n DEF Closes, world, link
  <2> QED
    BY <2>1, <2>2, <1>g DEF world, link, Complete
<1>4. CASE Manipulado
  <2>1. /\ Context /\ Finish(e') /\ Kin(e', e) /\ UNCHANGED <<dado, world>>
        /\ e'.estado = "destruida" \/ e' = e
    BY <1>4, FrameEnds
  <2>2. Said' \subseteq Said
    BY <2>1, <1>c, <1>n DEF Context, Finish, Closes, world, link
  <2>3. Complete(e)'
    BY <2>1, <1>p DEF Complete, Context, Files
  <2>4. e.estado = "nada" => e'.estado = "nada"
    BY <1>4, FrameEnds, <1>v
  <2>5. e'.estado = "nada" => e'.recibidos = {}
    BY <2>1, <1>p DEF Context
  <2> QED
    BY <2>1, <2>2, <2>3, <2>4, <2>5, <1>g DEF Context, Finish, Kin, world, link
<1>5. ASSUME NEW quien \in {"solo", "dos"}, Signs(quien), up, In(lote') \subseteq In(lote)
      PROVE  Confirmations'
  <2>1. Closes(<<[t |-> "final", recibo |-> quien]>>) /\ UNCHANGED <<up, e, disco, dado, world>>
    BY <1>5 DEF Signs
  <2>2. Said' \subseteq Said
    BY <1>5, <2>1, <1>c, <1>n DEF Closes, world, link
  <2>3. Complete(e)'
    BY <1>5, <2>1, <1>p DEF Complete, Files
  <2> QED
    BY <1>5, <2>1, <2>2, <2>3, <1>p, <1>g DEF world, link
<1>6. CASE Acuse
  <2>1. CASE UNCHANGED <<up, e, contents, receipt, queues, paso, disco, dado, world>>
    <3>1. Context /\ UNCHANGED <<e, disco, dado, pag, roto>>
      BY <1>6, <2>1, Signatures DEF world, link
    <3>2. Said' \subseteq Said
      BY <1>6, <2>1, <3>1, <1>c DEF queues, world, link, Context
    <3>3. Complete(e)'
      BY <3>1, <1>p DEF Complete, Files, Context
    <3> QED
      BY <3>1, <3>2, <3>3, <1>p, <1>g DEF Context
  <2> QED
    BY <1>6, <2>1, <1>5, Signatures DEF Context
<1>7. CASE AcuseVence
  BY <1>7, <1>5, Overdue
<1>8. CASE Recibido
  <2>1. /\ Context /\ Head(lote).t = "recibido" /\ UNCHANGED <<delHilo, dado, world>>
        /\ e'.receptor = e.receptor /\ e'.archivos = e.archivos
    BY <1>8, FileEffects
  <2>2. Said' \subseteq Said /\ Head(lote) \in Said
    BY <2>1, <1>c DEF Context, world, link, Said
  <2>3. \/ e.estado # "abierta" /\ e' = e /\ disco' = disco
        \/ e.estado = "abierta" /\ e'.recibidos = e.recibidos \cup {Head(lote).i} /\ disco' = Saved'
           /\ (e'.estado = "abierta" \/ (e'.estado = "entregada" /\ e'.recibidos = Files(e')))
    BY <1>8, FileEffects
  <2>4. Complete(e)'
    BY <2>1, <2>3, <1>p DEF Complete, Context, Files
  <2>5. \A i \in e'.recibidos : i \in e.recibidos \/ (e.estado # "nada" /\ \E m \in Said : m.i = i)
    BY <2>2, <2>3
  <2>6. e.estado = "nada" <=> e'.estado = "nada"
    BY <2>3
  <2> QED
    BY <2>1, <2>2, <2>3, <2>4, <2>5, <2>6, <1>p, <1>g DEF Context, world, link
<1>9. CASE Codigo
  <2>1. Context /\ UNCHANGED <<link, pag, disco>> /\ (delHilo' = delHilo \/ delHilo' = <<>>)
    BY <1>9, Codes, ForgetsPlain, <1>t
       DEF Late, Closed, Missed, Burnt, Stranger, First, Again, Quiet
  <2>2. Said' \subseteq Said
    BY <2>1, <1>c, <1>n DEF Context, link
  <2>3. dado \subseteq dado'
    BY <1>9, Codes DEF Late, Closed, Missed, Burnt, Stranger, First, Again, Right, Wrong
  <2>4. /\ e'.receptor = e.receptor \/ e.receptor = 0
        /\ e'.recibidos = e.recibidos /\ e'.archivos = e.archivos
        /\ e'.estado = "entregada" => e.estado = "entregada"
        /\ e.estado = "nada" <=> e'.estado = "nada"
    BY <1>9, Codes, <1>v
       DEF Late, Closed, Missed, Burnt, Stranger, First, Again, Right, Wrong, Kin, MayTry
  <2>5. Complete(e)'
    BY <2>1, <2>4, <1>p, <1>k DEF Context
  <2> QED
    BY <2>1, <2>2, <2>3, <2>4, <2>5, <1>p, <1>g DEF Context, link
<1>10. CASE Muere
  <2>1. up' = FALSE /\ UNCHANGED <<e, disco, pag, dado>> /\ roto' = TRUE
    BY <1>10 DEF Muere
  <2>2. C1'
    BY <2>1, <1>p
  <2>3. C4'
    BY <2>1, <1>p DEF Has, Complete, Files
  <2> QED
    BY <2>1, <2>2, <2>3, <1>z
<1>11. CASE Vuelve
  <2>1. /\ up = FALSE /\ UNCHANGED <<disco, pag, dado, roto, sube, lote>>
        /\ delHilo' = <<>> \/ delHilo' = delHilo
    BY <1>11, <1>t DEF Vuelve, link, Arranca, queues
  <2>2. roto /\ sube = <<>> /\ delHilo = <<>> /\ lote = <<>>
    BY <2>1 DEF Idle
  <2>3. Said' = {}
    BY <2>1, <2>2, <1>n DEF Said
  <2>4. /\ e'.receptor = disco.e.receptor /\ e'.recibidos = disco.e.recibidos
        /\ e'.archivos = disco.e.archivos
        /\ e'.estado = disco.e.estado \/ e'.estado = "revocada"
    <3>1. CASE disco.e.estado = "preparando"
      <4>1. e' = [disco.e EXCEPT !.estado = "revocada"]
        BY <1>11, <3>1 DEF Vuelve
      <4> QED
        BY <4>1, <1>t DEF DeliveryType
    <3>2. CASE disco.e.estado # "preparando"
      BY <1>11, <3>2 DEF Vuelve
    <3> QED
      BY <3>1, <3>2
  <2>5. C1'
    BY <2>1, <2>2, <1>p
  <2>6. C3'
    BY <2>1, <2>4, <1>p DEF Has
  <2>7. C4'
    BY <2>1, <1>p DEF Has, Complete, Files
  <2>8. C5'
    BY <2>4, <1>p DEF Complete, Files
  <2>9. C2'
    BY <2>3
  <2> QED
    BY <2>5, <2>6, <2>7, <2>8, <2>9, <1>z
<1>q. ASSUME UNCHANGED <<core, pag>>, roto => roto',
             up /\ e.estado # "nada" => \A m \in Said' : m \in Said \/ Has(e.receptor, m.i)
      PROVE  Confirmations'
  BY <1>q, <1>w
<1>m. ASSUME NEW k, Frame(k)
      PROVE  Head(sube) \in In(sube) /\ Head(sube).t = k /\ In(sube') \subseteq In(sube)
             /\ Head(sube) \in FrameUp
  BY <1>m, <1>t, Tails DEF Frame
<1>l. UNCHANGED core => lote' = lote
  BY DEF core
<1>12. CASE Ignora \/ Acaba \/ Despierta \/ Suelta \/ Transmite
  <2>1. UNCHANGED <<core, pag, delHilo>> /\ (roto => roto') /\ (sube' = sube \/ sube' = <<>>)
    BY <1>12 DEF Ignora, Acaba, Despierta, Suelta, Transmite, Leaves, queues, link
  <2>2. Said' \subseteq Said
    BY <2>1, <1>l, <1>c, <1>n
  <2> QED
    BY <2>1, <2>2, <1>q
<1>13. CASE ServeCode \/ ServeWord \/ ServePiece
  <2>1. /\ UNCHANGED <<core, pag, roto>> /\ In(sube') \subseteq In(sube)
        /\ \/ UNCHANGED delHilo
           \/ Says(Head(sube)) /\ Head(sube) \in Word /\ Head(sube) \in In(sube)
    <3>1. UNCHANGED <<core, pag, roto>> /\ (Says(Head(sube)) \/ UNCHANGED delHilo)
      BY <1>13 DEF ServeCode, ServeWord, ServePiece, queues
    <3>2. CASE Frame("pide")
      <4>1. CASE ServePiece
        BY <3>1, <3>2, <4>1, <1>m DEF ServePiece, queues
      <4>2. CASE ServeCode \/ ServeWord
        BY <3>2, <4>2, <1>m DEF ServeCode, ServeWord, Frame
      <4> QED
        BY <1>13, <4>1, <4>2
    <3>3. CASE Frame("codigo") \/ Frame("recibido") \/ Frame("acuse")
      BY <3>1, <3>3, <1>m, Carried
    <3> QED
      BY <1>13, <3>2, <3>3 DEF ServeCode, ServeWord, ServePiece
  <2>2. In(delHilo') \subseteq In(delHilo) \cup In(sube)
    <3>1. CASE delHilo' = Append(delHilo, Head(sube)) /\ Head(sube) \in Word /\ Head(sube) \in In(sube)
      <4>1. In(delHilo') = In(delHilo) \cup {Head(sube)}
        BY <3>1, <1>t, Appends
      <4> QED
        BY <3>1, <4>1
    <3>2. CASE delHilo' = delHilo
      BY <3>2
    <3> QED
      BY <2>1, <3>1, <3>2 DEF Says
  <2>3. Said' \subseteq Said
    BY <2>1, <2>2, <1>l, <1>c
  <2> QED
    BY <2>1, <2>3, <1>q
<1>14. CASE ServeBroken
  <2>1. UNCHANGED <<core, pag>> /\ roto' /\ Says(M("manipulado")) /\ In(sube') \subseteq In(sube)
    BY <1>14, <1>m DEF ServeBroken, Leaves
  <2>2. In(delHilo') \subseteq In(delHilo) \cup {M("manipulado")} /\ M("manipulado").t # "recibido"
    BY <2>1, <1>t, Appends, Messages DEF Says, M
  <2>3. Said' \subseteq Said
    BY <2>1, <2>2, <1>l DEF Said
  <2> QED
    BY <2>1, <2>3, <1>q
<1>15. CASE Corta
  <2>1. UNCHANGED <<core, pag, delHilo>> /\ roto' = TRUE
    BY <1>15 DEF Corta, queues
  <2>2. PICK k \in 0 .. Len(sube) : sube' = SubSeq(sube, 1, k)
    BY <1>15 DEF Corta
  <2>3. In(sube') \subseteq In(sube)
    BY <2>2, <1>t, Cuts
  <2>4. Said' \subseteq Said
    BY <2>1, <2>3, <1>l, <1>c
  <2> QED
    BY <2>1, <2>4, <1>q
\* A tab puts a frame in the link.
<1>u. ASSUME NEW m \in FrameUp, Puts(m)
      PROVE  In(sube') \subseteq In(sube) \cup {m} /\ (roto => sube' = sube)
  BY <1>u, <1>t, Appends DEF Puts
<1>16. CASE Manipula
  <2>1. UNCHANGED <<core, pag, delHilo, roto>> /\ Puts(M("rota"))
    BY <1>16 DEF Manipula, queues, Puts
  <2>2. In(sube') \subseteq In(sube) \cup {M("rota")} /\ M("rota").t # "recibido"
    BY <2>1, <1>u, Messages DEF M
  <2>3. Said' \subseteq Said
    BY <2>1, <2>2, <1>l DEF Said
  <2> QED
    BY <2>1, <2>3, <1>q
<1>17. ASSUME NEW t \in Tabs, Entra(t) PROVE Confirmations'
  <2>1. /\ UNCHANGED <<core, delHilo>> /\ sube' = <<>> /\ pag' = [pag EXCEPT ![t].at = "entra"]
        /\ \A u \in Tabs : pag[u].at = "fuera"
    BY <1>17 DEF Entra, queues
  <2>2. Said' \subseteq Said
    BY <2>1, <1>l, <1>c, <1>n
  <2>3. \A u \in Tabs : pag'[u].token = pag[u].token /\ pag'[u].tiene = pag[u].tiene /\ pag'[u].at # "abierta"
    BY <2>1, <1>t DEF PageType
  <2> QED
    BY <2>1, <2>2, <2>3, <1>w
<1>18. ASSUME NEW t \in Tabs, NEW bien \in BOOLEAN, Da(t, bien) PROVE Confirmations'
  <2> DEFINE m == [t |-> "codigo", bien |-> bien, token |-> pag[t].token, de |-> t]
  <2>1. /\ UNCHANGED <<core, delHilo, roto>> /\ pag' = [pag EXCEPT ![t].at = "espera"] /\ Puts(m)
    BY <1>18 DEF Da, queues
  <2>2. m \in FrameUp /\ m.t # "recibido"
    BY <1>t, Messages DEF PageType
  <2> HIDE DEF m
  <2>3. Said' \subseteq Said
    BY <2>1, <2>2, <1>u, <1>l DEF Said
  <2>4. \A u \in Tabs : /\ pag'[u].token = pag[u].token /\ pag'[u].tiene = pag[u].tiene
                        /\ pag'[u].at = "abierta" => pag[u].at = "abierta"
    BY <2>1, <1>t DEF PageType
  <2> QED
    BY <2>1, <2>3, <2>4, <1>w
<1>19. ASSUME NEW t \in Tabs, NEW i \in Files(e), Pide(t, i) PROVE Confirmations'
  <2> DEFINE m == [t |-> "pide", i |-> i]
  <2>1. UNCHANGED <<core, pag, delHilo, roto>> /\ Puts(m)
    BY <1>19 DEF Pide, queues
  <2>2. m \in FrameUp /\ m.t # "recibido"
    BY <1>t, Messages, Changes
  <2> HIDE DEF m
  <2>3. Said' \subseteq Said
    BY <2>1, <2>2, <1>u, <1>l DEF Said
  <2> QED
    BY <2>1, <2>3, <1>q
<1>20. ASSUME NEW t \in Tabs, NEW i \in Files(e), Confirma(t, i) PROVE Confirmations'
  <2> DEFINE m == [t |-> "recibido", i |-> i]
  <2>1. /\ UNCHANGED <<core, delHilo, roto>> /\ Puts(m) /\ pag[t].at = "abierta" /\ i \in pag[t].tiene
        /\ pag' = [pag EXCEPT ![t].dicho = @ \cup {i}]
    BY <1>20 DEF Confirma, queues
  <2>2. m \in FrameUp /\ m.i = i
    BY <1>t, Messages, Changes
  <2>3. e.estado # "nada" /\ ~ roto => Has(e.receptor, i)
    BY <2>1, <1>p DEF Has, Given, Opened
  <2> HIDE DEF m
  <2>4. e.estado # "nada" => \A c \in Said' : c \in Said \/ Has(e.receptor, c.i)
    BY <2>1, <2>2, <2>3, <1>u, <1>l DEF Said
  <2>5. \A u \in Tabs : /\ pag'[u].token = pag[u].token /\ pag'[u].tiene = pag[u].tiene
                        /\ pag'[u].at = pag[u].at
    BY <2>1, <1>t DEF PageType
  <2> QED
    BY <2>1, <2>4, <2>5, <1>w
<1>21. ASSUME NEW t \in Tabs, Deja(t) PROVE Confirmations'
  <2>1. UNCHANGED <<core, delHilo, sube, roto>> /\ pag' = [pag EXCEPT ![t].at = "fuera", ![t].dicho = {}]
    BY <1>21 DEF Deja, queues, link
  <2>2. Said' \subseteq Said
    BY <2>1, <1>l, <1>c
  <2>3. \A u \in Tabs : /\ pag'[u].token = pag[u].token /\ pag'[u].tiene = pag[u].tiene
                        /\ pag'[u].at = "abierta" => pag[u].at = "abierta"
    BY <2>1, <1>t DEF PageType
  <2> QED
    BY <2>1, <2>2, <2>3, <1>w
<1>22. ASSUME NEW t \in Tabs, Lee(t) PROVE Confirmations'
  <2> DEFINE m == Head(baja)
  <2>1. /\ UNCHANGED <<core, delHilo, roto>> /\ baja # <<>> /\ pag' = [pag EXCEPT ![t] = Reads(t, m)]
        /\ Puts(M("acuse")) \/ UNCHANGED sube
    BY <1>22 DEF Lee, queues
  <2>2. Said' \subseteq Said
    <3>1. In(sube') \subseteq In(sube) \cup {M("acuse")} /\ M("acuse").t # "recibido"
      BY <2>1, <1>u, Messages DEF M
    <3> QED
      BY <2>1, <3>1, <1>l DEF Said
  <2>3. \A u \in Tabs : u # t => pag'[u] = pag[u]
    BY <2>1, <1>t
  <2>4. m \in FrameDown /\ m \in In(baja)
    BY <2>1, <1>t, Tails
  <2>5. /\ pag[t].tiene \subseteq pag'[t].tiene
        /\ m.t = "bien" => pag'[t].token = m.token
        /\ m.t # "bien" => /\ pag'[t].token = pag[t].token
                           /\ pag'[t].at = "abierta" => pag[t].at = "abierta"
    <3>1. pag[t] \in PageType /\ pag'[t] = Reads(t, m)
      BY <2>1, <1>t
    <3> HIDE DEF m
    <3> QED
      BY <3>1 DEF Reads, PageType
  <2> HIDE DEF m
  <2>6. CASE m.t # "bien"
    <3>1. \A u \in Tabs : /\ pag'[u].token = pag[u].token /\ pag[u].tiene \subseteq pag'[u].tiene
                          /\ pag'[u].at = "abierta" => pag[u].at = "abierta"
      BY <2>3, <2>5, <2>6
    <3> QED
      BY <2>1, <2>2, <3>1, <1>w
  <2>7. CASE m.t = "bien"
    <3>1. m.token # 0 /\ m \in Promises
      <4>1. m.token \in 1 .. 2
        BY <2>4, <2>7, Carried
      <4> QED
        BY <2>4, <2>7, <4>1 DEF Promises, Bien
    <3>2. up /\ (e.estado = "nada" \/ m.token = e.receptor)
      <4>1. up
        BY <2>1, <1>t DEF Idle
      <4> QED
        BY <3>1, <4>1 DEF Given
    <3>c. UNCHANGED <<up, e, disco, dado>>
      BY <2>1 DEF core
    <3>3. C1'
      BY <2>1, <2>3, <2>5, <2>7, <3>1, <3>2, <3>c, <1>p
    <3>4. \A i : e.estado # "nada" /\ Has(e.receptor, i) =>
              e.receptor # 0 /\ \E u \in dado' : pag'[u].token = e.receptor /\ i \in pag'[u].tiene
      <4>1. ASSUME NEW i, e.estado # "nada", NEW u \in dado, pag[u].token = e.receptor, i \in pag[u].tiene
            PROVE  pag'[u].token = e.receptor /\ i \in pag'[u].tiene
        BY <2>3, <2>5, <2>7, <3>2, <4>1, <1>t
      <4> QED
        BY <3>c, <4>1 DEF Has
    <3>5. C2'
      BY <2>2, <3>4, <3>c, <1>p DEF Has
    <3>6. C3'
      BY <3>2, <3>4, <3>c, <1>p DEF Has
    <3>7. C4'
      <4>1. ASSUME NEW i \in disco.e.recibidos PROVE Has(disco.e.receptor, i)'
        <5>1. Has(disco.e.receptor, i)
          BY <4>1, <1>p
        <5>2. disco.e.receptor = e.receptor
          BY <3>2, <5>1 DEF Has, Behind
        <5>3. e.estado # "nada"
          BY <3>2, <4>1, <1>p DEF Behind
        <5>4. Has(e.receptor, i)
          BY <5>1, <5>2 DEF Has
        <5> QED
          BY <3>4, <3>c, <5>2, <5>3, <5>4 DEF Has
      <4> QED
        BY <3>c, <4>1, <1>p DEF Complete, Files
    <3>8. C5'
      BY <3>c, <1>p DEF Complete, Files
    <3> QED
      BY <3>3, <3>5, <3>6, <3>7, <3>8, <1>z
  <2> QED
    BY <2>6, <2>7
<1>23. CASE UNCHANGED vars
  <2>1. UNCHANGED <<core, pag, delHilo, sube, lote, roto>>
    BY <1>23 DEF vars, core, queues, world, link
  <2>2. Said' \subseteq Said
    BY <2>1, <1>c
  <2> QED
    BY <2>1, <2>2, <1>q
<1> QED
  BY <1>1, <1>2, <1>3, <1>4, <1>6, <1>7, <1>8, <1>9, <1>10, <1>11, <1>12, <1>13, <1>14,
     <1>15, <1>16, <1>17, <1>18, <1>19, <1>20, <1>21, <1>22, <1>23 DEF Next
-----------------------------------------------------------------------------
(***************************************************************************)
(* The receipt that the tab keeps and the one that is saved.               *)
(***************************************************************************)
LEMMA InitReceipts == Init => Receipts
<1> SUFFICES ASSUME Init PROVE Receipts
  OBVIOUS
<1>1. alHilo = <<>> /\ baja = <<>> /\ recibo = "no" /\ up = TRUE
  BY DEF Init
<1>2. \A t \in Tabs : pag[t].recibo = "no"
  BY DEF Init
<1>3. Finals = {}
  BY <1>1, Empties DEF Finals
<1> QED
  BY <1>1, <1>2, <1>3 DEF Receipts

LEMMA ReceiptsStep ==
    ASSUME Shape, Idle, ForgetsInv, Behind, Receipts, [Next]_vars
    PROVE  Receipts'
<1>t. /\ e \in DeliveryType /\ disco.e \in DeliveryType /\ up \in BOOLEAN /\ TalkShape
      /\ alHilo \in Seq(Answer) /\ lote \in Seq(Word) /\ recibo \in {"no", "solo", "dos"}
      /\ sube \in Seq(FrameUp) /\ baja \in Seq(FrameDown) /\ pag \in [Tabs -> PageType]
  BY DEF Shape, DeliveryShape, TalkShape, DiskType
<1> DEFINE R1 == up /\ e.estado # "nada" =>
                    /\ \A m \in Finals : m.recibo = recibo \/ "entregada" \in notas
                    /\ \A t \in Tabs : pag[t].recibo # "no" =>
                          pag[t].recibo = recibo \/ "entregada" \in notas
           R2 == up /\ recibo # "no" /\ paso # "entregada" => disco.recibo = recibo
           R3 == ~ up /\ disco.e.estado # "nada" =>
                    \A t \in Tabs : pag[t].recibo # "no" =>
                        pag[t].recibo = disco.recibo \/ "entregada" \in notas
<1>p. R1 /\ R2 /\ R3
  BY DEF Receipts
<1>z. R1' /\ R2' /\ R3' => Receipts'
  BY DEF Receipts
<1>s. Saved'.recibo = recibo'
  BY DEF Saved
<1>v. "nada" \notin Ended \cup Viva /\ "entregada" # "nada"
  BY DEF Ended, Viva
<1>n. In(<<>>) = {}
  BY DEF In
<1>a. ASSUME NEW S, \A m \in S : m.t # "final", In(alHilo') \subseteq In(alHilo) \cup S, baja' = baja
      PROVE  Finals' \subseteq Finals
  BY <1>a DEF Finals
<1>f. ASSUME Told(<<M("fin")>>) \/ Told(<<M("mal")>>) \/ Told(<<M("recibo")>>) \/ Closes(<<>>)
               \/ alHilo' = alHilo \/ alHilo' = <<>>,
             baja' = baja
      PROVE  Finals' \subseteq Finals
  <2>1. M("fin").t # "final" /\ M("mal").t # "final" /\ M("recibo").t # "final"
    BY DEF M
  <2>2. \A m \in {M("fin"), M("mal"), M("recibo")} : Told(<<m>>) => In(alHilo') \subseteq In(alHilo) \cup {m}
    <3> TAKE m \in {M("fin"), M("mal"), M("recibo")}
    <3>1. m \in Answer
      BY Messages
    <3>2. <<m>> \in Seq(Answer) /\ In(<<m>>) = {m}
      BY <3>1, OneWord
    <3> QED
      BY <3>2, <1>t, Tells
  <2>3. Closes(<<>>) => In(alHilo') \subseteq In(alHilo) \cup {M("fin")}
    <3>1. <<>> \in Seq(Answer)
      BY Empties
    <3> QED
      BY <3>1, <1>t, <1>n, Forgets
  <2> QED
    BY <1>f, <2>1, <2>2, <2>3, <1>a, <1>n
\* A step of the program that signs nothing.
<1>g. ASSUME up, up', UNCHANGED pag, notas \subseteq notas', Finals' \subseteq Finals,
             recibo' = recibo \/ (e'.estado = "nada" /\ disco' = Saved'),
             e.estado = "nada" => e'.estado = "nada",
             disco' = Saved' \/ (disco' = disco /\ (paso' # "entregada" => paso # "entregada"))
      PROVE  Receipts'
  <2>1. R1'
    BY <1>g, <1>p
  <2>2. R2'
    BY <1>g, <1>p, <1>s
  <2>3. R3'
    BY <1>g
  <2> QED
    BY <2>1, <2>2, <2>3, <1>z
\* A step of a tab, the thread or the network.
<1>w. ASSUME UNCHANGED core, notas' = notas, Finals' \subseteq Finals,
             \A t \in Tabs : \/ pag'[t].recibo = pag[t].recibo
                             \/ up /\ \E m \in Finals : m.recibo = pag'[t].recibo
      PROVE  Receipts'
  <2>c. UNCHANGED <<up, e, disco, recibo, paso>>
    BY <1>w DEF core, receipt
  <2>1. R1'
    BY <1>w, <2>c, <1>p
  <2>2. R2'
    BY <2>c, <1>p
  <2>3. R3'
    BY <1>w, <2>c, <1>p
  <2> QED
    BY <2>1, <2>2, <2>3, <1>z
<1>1. CASE Archivo \/ Trozo \/ Espera \/ Toma \/ Lista
  <2>1. up /\ up' /\ UNCHANGED <<pag, notas, recibo, baja>> /\ (alHilo' = alHilo \/ alHilo' = <<>>)
    <3>1. up /\ UNCHANGED <<up, pag, notas, recibo, baja>>
      BY <1>1 DEF Archivo, Trozo, Espera, Toma, Lista, Free, world, link, history, receipt
    <3>2. alHilo' = alHilo \/ alHilo' = <<>>
      BY <1>1 DEF Archivo, Trozo, Espera, Toma, Lista, Arranca, queues
    <3> QED
      BY <3>1, <3>2
  <2>2. disco' = Saved' \/ (disco' = disco /\ paso' = paso)
    BY <1>1 DEF Archivo, Trozo, Espera, Toma, Lista
  <2>3. e.estado = "nada" => e'.estado = "nada"
    BY <1>1, <1>t DEF Archivo, Trozo, Espera, Toma, Lista, DeliveryType
  <2> QED
    BY <2>1, <2>2, <2>3, <1>f, <1>g
<1>2. CASE Guarda
  <2>1. /\ up /\ up' /\ UNCHANGED <<pag, notas, recibo, claves, e, baja, alHilo>> /\ disco' = Saved
    BY <1>2 DEF Guarda, contents, receipt, queues, world, link, history
  <2>2. Saved' = Saved
    BY <2>1 DEF Saved
  <2> QED
    BY <2>1, <2>2, <1>f, <1>g
<1>3. CASE Revoca \/ Caduca \/ Manipulado
  <2>1. /\ up /\ up' /\ paso = "" /\ Finish(e') /\ UNCHANGED world
        /\ e.estado = "nada" => e'.estado = "nada"
    BY <1>3, HandEnds, FrameEnds, <1>v DEF Context
  <2>2. Finals' \subseteq Finals
    BY <2>1, <1>f DEF Finish, world, link
  <2> QED
    BY <2>1, <2>2, <1>g DEF Finish, world, history
<1>4. CASE Olvida
  <2>1. /\ up /\ up' /\ e'.estado = "nada" /\ Closes(<<>>) /\ disco' = Saved' /\ UNCHANGED world
    BY <1>4 DEF Olvida, Free, Nada
  <2>2. Finals' \subseteq Finals
    BY <2>1, <1>f DEF world, link
  <2> QED
    BY <2>1, <2>2, <1>g DEF world, history
\* A signature: there was none, so no receipt had been sent.
<1>5. ASSUME NEW quien \in {"solo", "dos"}, Signs(quien), up, acuse # "no" PROVE Receipts'
  <2>1. /\ recibo' = quien /\ paso' = "entregada" /\ UNCHANGED <<up, e, disco, pag, notas, baja>>
        /\ Closes(<<[t |-> "final", recibo |-> quien]>>)
    BY <1>5 DEF Signs, world, link, history
  <2>2. e.estado = "entregada" /\ recibo = "no"
    BY <1>5 DEF ForgetsInv, Emptied
  <2>3. \A m \in Finals : m.recibo \in {"solo", "dos"}
    <3>1. In(alHilo) \cup In(baja) \subseteq FrameDown
      BY <1>t, Wider DEF In
    <3> QED
      BY <3>1, Carried DEF Finals
  <2>4. "entregada" \in notas \/ (Finals = {} /\ \A t \in Tabs : pag[t].recibo = "no")
    <3>1. \A m \in Finals : m.recibo # "no"
      BY <2>3
    <3> QED
      BY <1>5, <2>2, <3>1, <1>p
  <2>5. \A m \in Finals' : m \in Finals \/ m.recibo = quien
    <3> DEFINE f == [t |-> "final", recibo |-> quien]
    <3>1. f \in Answer /\ f.recibo = quien
      BY Messages
    <3>2. <<f>> \in Seq(Answer) /\ In(<<f>>) = {f}
      BY <3>1, OneWord
    <3> HIDE DEF f
    <3>3. In(alHilo') \subseteq In(alHilo) \cup In(<<f>>) \cup {M("fin")}
      BY <2>1, <3>2, <1>t, Forgets DEF f
    <3>4. M("fin").t # "final"
      BY DEF M
    <3> QED
      BY <2>1, <3>1, <3>2, <3>3, <3>4 DEF Finals
  <2>6. R1'
    BY <2>1, <2>4, <2>5
  <2>7. R2' /\ R3'
    BY <1>5, <2>1
  <2> QED
    BY <2>6, <2>7, <1>z
<1>6. CASE Acuse
  <2>1. CASE acuse = "no" /\ UNCHANGED <<up, e, contents, receipt, queues, paso, disco, dado, world>>
    <3>1. up /\ UNCHANGED <<up, e, recibo, paso, disco, pag, notas, alHilo, baja>>
      BY <1>6, <2>1, Signatures DEF Context, receipt, queues, world, link, history
    <3> QED
      BY <3>1, <1>f, <1>g
  <2> QED
    BY <1>6, <2>1, <1>5, Signatures DEF Context
<1>7. CASE AcuseVence
  <2>1. up /\ acuse # "no" /\ Signs("solo")
    BY <1>7, Overdue
  <2> QED
    BY <2>1, <1>5
<1>8. CASE Recibido
  <2>1. /\ up /\ up' /\ UNCHANGED <<recibo, paso, pag, notas, baja>>
        /\ alHilo' = alHilo \/ Told(<<M("recibo")>>)
    BY <1>8, FileEffects DEF Context, world, link, history
  <2>2. (disco' = disco \/ disco' = Saved') /\ (e.estado = "nada" => e'.estado = "nada")
    BY <1>8, FileEffects
  <2> QED
    BY <2>1, <2>2, <1>f, <1>g
<1>9. CASE Codigo
  <2>1. Context /\ UNCHANGED <<pag, recibo, disco, baja>> /\ notas \subseteq notas'
    BY <1>9, Codes DEF link
  <2>2. e.estado = "nada" => e'.estado = "nada"
    BY <1>9, Codes, <1>v DEF Late, Closed, Missed, Burnt, Stranger, First, Again, Right, Wrong, MayTry
  <2>3. Finals' \subseteq Finals
    <3>1. CASE Late \/ Closed \/ Missed \/ Burnt \/ Stranger
      BY <2>1, <3>1, <1>f DEF Late, Closed, Missed, Burnt, Stranger
    <3>2. CASE First \/ Again
      <4>0. Life \in 1 .. 2
        BY DEF Life
      <4>1. e.receptor \in 0 .. 2
        BY <1>t DEF DeliveryType
      <4>2. PICK n \in 1 .. 2 : Told(<<[t |-> "bien", token |-> n, de |-> Head(lote).de]>>)
        BY <3>2, <4>0, <4>1 DEF First, Again
      <4> DEFINE m == [t |-> "bien", token |-> n, de |-> Head(lote).de]
      <4>3. m \in Answer /\ m.t # "final"
        BY <1>9, Messages, Codes
      <4>4. <<m>> \in Seq(Answer) /\ In(<<m>>) = {m}
        BY <4>3, OneWord
      <4> HIDE DEF m
      <4>5. In(alHilo') \subseteq In(alHilo) \cup {m}
        BY <4>2, <4>4, <1>t, Tells DEF m
      <4>6. (\A x \in {m} : x.t # "final") /\ baja' = baja
        BY <2>1, <4>3
      <4> QED
        BY <4>5, <4>6 DEF Finals
    <3> QED
      BY <1>9, <3>1, <3>2, Codes
  <2> QED
    BY <2>1, <2>2, <2>3, <1>g DEF Context
<1>10. CASE Muere
  <2>1. /\ up = TRUE /\ up' = FALSE /\ UNCHANGED <<e, recibo, disco, pag>>
        /\ notas' = notas \cup ({paso} \ {""})
    BY <1>10, <1>t DEF Muere
  <2>2. R3'
    <3>1. ASSUME disco.e.estado # "nada", NEW t \in Tabs, pag[t].recibo # "no", "entregada" \notin notas'
          PROVE  pag[t].recibo = disco.recibo
      <4>1. e.estado # "nada" /\ paso # "entregada" /\ "entregada" \notin notas
        BY <2>1, <3>1 DEF Behind
      <4>2. pag[t].recibo = recibo
        BY <2>1, <3>1, <4>1, <1>p
      <4> QED
        BY <2>1, <3>1, <4>1, <4>2, <1>p
    <3> QED
      BY <2>1, <3>1
  <2>3. R1' /\ R2'
    BY <2>1
  <2> QED
    BY <2>2, <2>3, <1>z
<1>11. CASE Vuelve
  <2>1. /\ up = FALSE /\ up' = TRUE /\ UNCHANGED <<disco, pag, baja>> /\ recibo' = disco.recibo
        /\ notas \subseteq notas' /\ (alHilo' = <<>> \/ alHilo' = alHilo)
    BY <1>11, <1>t DEF Vuelve, Arranca, queues, link
  <2>2. e'.estado # "nada" => disco.e.estado # "nada"
    BY <1>11 DEF Vuelve
  <2>3. Finals' = {}
    <3>1. alHilo = <<>> /\ baja = <<>>
      BY <2>1 DEF Idle
    <3> QED
      BY <2>1, <3>1, <1>n DEF Finals
  <2>4. R1'
    BY <2>1, <2>2, <2>3, <1>p
  <2>5. R2' /\ R3'
    BY <2>1
  <2> QED
    BY <2>4, <2>5, <1>z
<1>q. ASSUME UNCHANGED core, notas' = notas, pag' = pag, Finals' \subseteq Finals PROVE Receipts'
  BY <1>q, <1>w
<1>12. CASE Ignora \/ Acaba \/ Despierta \/ Suelta
  <2>1. /\ UNCHANGED <<core, pag, notas, baja>>
        /\ alHilo' = alHilo \/ alHilo' = <<>> \/ (alHilo # <<>> /\ alHilo' = Tail(alHilo))
    BY <1>12 DEF Ignora, Acaba, Despierta, Suelta, Discarded, queues, link, history
  <2>2. In(alHilo') \subseteq In(alHilo)
    BY <2>1, <1>t, <1>n, Tails
  <2>3. Finals' \subseteq Finals
    BY <2>1, <2>2 DEF Finals
  <2> QED
    BY <2>1, <2>3, <1>q
<1>13. CASE Transmite
  <2>1. /\ UNCHANGED <<core, pag, notas>> /\ alHilo # <<>>
        /\ alHilo' = <<>> \/ alHilo' = Tail(alHilo)
        /\ baja' = baja \/ baja' = Append(baja, Head(alHilo))
    BY <1>13 DEF Transmite
  <2>2. In(alHilo') \subseteq In(alHilo) /\ Head(alHilo) \in In(alHilo) /\ Head(alHilo) \in FrameDown
    <3>1. In(alHilo) = In(Tail(alHilo)) \cup {Head(alHilo)} /\ Head(alHilo) \in Answer
      BY <2>1, <1>t, Tails
    <3>2. Head(alHilo) \in FrameDown
      BY <3>1, Messages
    <3> QED
      BY <2>1, <3>1, <3>2, <1>n
  <2>3. In(baja') \subseteq In(baja) \cup {Head(alHilo)}
    <3>1. In(Append(baja, Head(alHilo))) = In(baja) \cup {Head(alHilo)}
      BY <2>2, <1>t, Appends
    <3> QED
      BY <2>1, <3>1
  <2>4. Finals' \subseteq Finals
    BY <2>2, <2>3 DEF Finals
  <2> QED
    BY <2>1, <2>4, <1>q
<1>14. CASE ServeCode \/ ServeWord \/ ServeBroken \/ Manipula
  <2>1. UNCHANGED <<core, pag, notas, alHilo, baja>>
    BY <1>14 DEF ServeCode, ServeWord, ServeBroken, Manipula, queues, history
  <2> QED
    BY <2>1, <1>f, <1>q
<1>15. CASE ServePiece
  <2>1. UNCHANGED <<core, pag, notas, alHilo>> /\ Frame("pide")
    BY <1>15 DEF ServePiece, queues, history
  <2> DEFINE m == IF Head(sube).i \in sellados THEN [t |-> "trozo", i |-> Head(sube).i] ELSE M("fin")
  <2>2. Head(sube) \in FrameUp /\ Head(sube).t = "pide"
    BY <2>1, <1>t, Tails DEF Frame
  <2>3. m \in FrameDown /\ m.t # "final"
    BY <2>2, Carried, Messages DEF M
  <2>4. baja' = baja \/ baja' = Append(baja, m)
    BY <1>15 DEF ServePiece
  <2> HIDE DEF m
  <2>5. In(baja') \subseteq In(baja) \cup {m}
    BY <2>3, <2>4, <1>t, Appends
  <2>6. Finals' \subseteq Finals
    BY <2>1, <2>3, <2>5 DEF Finals
  <2> QED
    BY <2>1, <2>6, <1>q
<1>16. CASE Corta
  <2>1. UNCHANGED <<core, pag, notas, alHilo>>
    BY <1>16 DEF Corta, queues
  <2>2. PICK k \in 0 .. Len(baja) : baja' = SubSeq(baja, 1, k)
    BY <1>16 DEF Corta
  <2>3. In(baja') \subseteq In(baja)
    BY <2>2, <1>t, Cuts
  <2>4. Finals' \subseteq Finals
    BY <2>1, <2>3 DEF Finals
  <2> QED
    BY <2>1, <2>4, <1>q
<1>17. ASSUME NEW t \in Tabs,
              \/ Entra(t) \/ Deja(t) \/ \E bien \in BOOLEAN : Da(t, bien)
              \/ \E i \in Files(e) : Pide(t, i) \/ Confirma(t, i)
       PROVE  Receipts'
  <2>1. UNCHANGED <<core, alHilo, baja, notas>>
    BY <1>17 DEF Entra, Deja, Da, Pide, Confirma, queues, link, history
  <2>2. \A u \in Tabs : pag'[u].recibo = pag[u].recibo
    <3>1. CASE Entra(t)
      BY <3>1, <1>t DEF Entra, PageType
    <3>2. CASE Deja(t)
      BY <3>2, <1>t DEF Deja, PageType
    <3>3. ASSUME NEW bien \in BOOLEAN, Da(t, bien) PROVE \A u \in Tabs : pag'[u].recibo = pag[u].recibo
      BY <3>3, <1>t DEF Da, PageType
    <3>4. ASSUME NEW i \in Files(e), Pide(t, i) PROVE pag' = pag
      BY <3>4 DEF Pide
    <3>5. ASSUME NEW i \in Files(e), Confirma(t, i) PROVE \A u \in Tabs : pag'[u].recibo = pag[u].recibo
      BY <3>5, <1>t DEF Confirma, PageType
    <3> QED
      BY <1>17, <3>1, <3>2, <3>3, <3>4, <3>5
  <2> QED
    BY <2>1, <2>2, <1>f, <1>w
<1>18. ASSUME NEW t \in Tabs, Lee(t) PROVE Receipts'
  <2> DEFINE m == Head(baja)
  <2>1. /\ UNCHANGED <<core, alHilo, notas>> /\ baja # <<>> /\ baja' = Tail(baja)
        /\ pag' = [pag EXCEPT ![t] = Reads(t, m)]
    BY <1>18 DEF Lee, queues, history
  <2>2. m \in In(baja) /\ In(baja') \subseteq In(baja) /\ m \in FrameDown
    BY <2>1, <1>t, Tails
  <2>3. Finals' \subseteq Finals /\ (m.t = "final" => m \in Finals)
    BY <2>1, <2>2 DEF Finals
  <2>4. pag'[t].recibo = pag[t].recibo \/ (m.t = "final" /\ pag'[t].recibo = m.recibo)
    <3>1. pag[t] \in PageType /\ pag'[t] = Reads(t, m)
      BY <2>1, <1>t
    <3> HIDE DEF m
    <3> QED
      BY <3>1 DEF Reads, PageType
  <2>5. \A u \in Tabs : u # t => pag'[u] = pag[u]
    BY <2>1, <1>t
  <2>6. up
    BY <2>1, <1>t DEF Idle
  <2> QED
    BY <2>1, <2>3, <2>4, <2>5, <2>6, <1>w
<1>19. CASE UNCHANGED vars
  <2>1. UNCHANGED <<core, pag, alHilo, baja, notas>>
    BY <1>19 DEF vars, core, queues, world, link, history
  <2> QED
    BY <2>1, <1>f, <1>q
<1> QED
  BY <1>1, <1>2, <1>3, <1>4, <1>6, <1>7, <1>8, <1>9, <1>10, <1>11, <1>12, <1>13, <1>14,
     <1>15, <1>16, <1>17, <1>18, <1>19 DEF Next

LEMMA ItIsEarned == Shape /\ ForgetsInv /\ Given /\ Confirmations /\ Receipts => ReceiptIsEarned
<1> SUFFICES ASSUME Shape, ForgetsInv, Given, Confirmations, Receipts PROVE ReceiptIsEarned
  OBVIOUS
<1>1. ASSUME up, recibo # "no" PROVE \E t \in dado : Files(e) \subseteq pag[t].tiene
  <2>1. e.estado = "entregada" /\ e.recibidos = Files(e) /\ e.recibidos # {}
        /\ \A i \in e.recibidos : Has(e.receptor, i)
    BY <1>1 DEF ForgetsInv, Emptied, Confirmations, Complete
  <2>2. PICK t \in dado : pag[t].token = e.receptor /\ e.receptor # 0
    BY <2>1 DEF Has
  <2>3. e.receptor \in 1 .. 2
    <3>1. e.receptor \in 0 .. 2
      BY DEF Shape, DeliveryShape, DeliveryType
    <3> QED
      BY <2>2, <3>1
  <2>4. \A u \in dado : pag[u].token = e.receptor => u = t
    BY <2>2, <2>3 DEF Given, Holds, Shape, TalkShape
  <2>5. \A i \in Files(e) : i \in pag[t].tiene
    BY <2>1, <2>4 DEF Has
  <2> QED
    BY <2>5
<1>2. ASSUME NEW t \in Tabs, up, e.estado # "nada", pag[t].recibo # "no"
      PROVE  pag[t].recibo = recibo \/ "entregada" \in notas
  BY <1>2 DEF Receipts
<1> QED
  BY <1>1, <1>2 DEF ReceiptIsEarned

\* A receipt says that all was received, by one tab that gave the code; and the one it
\* keeps is the one this computer keeps, unless the program died with it sent and not saved.
THEOREM EarnedReceipt ==
    ASSUME Puntual
    PROVE  Spec => []ReceiptIsEarned
<1> DEFINE IInv == Shape /\ Idle /\ ForgetsInv /\ Turns /\ Owners /\ Tokens
           More == Confirmations /\ Receipts
<1>1. Init => More
  BY InitConfirmations, InitReceipts
<1>2. IInv /\ More /\ [Next]_vars => More'
  BY ConfirmationsStep, ReceiptsStep DEF Tokens
<1>3. IInv /\ More => ReceiptIsEarned
  BY ItIsEarned DEF Tokens
<1>4. Spec => []IInv
  BY TokensHold
<1> QED
  BY <1>1, <1>2, <1>3, <1>4, PTL DEF Spec
=============================================================================
