------------------------- MODULE SecureFilesProofs -------------------------
(***************************************************************************)
(* Proofs about the files of a conversation, for any names, any number of  *)
(* files, blocks and faults: the state keeps its shape, the screen says    *)
(* only what is true (SaidIsHere), no file is received twice (OnceOnly),   *)
(* no drop looks like an altered block (DropsAreNoTampering), and no file  *)
(* is given up because of one (NothingGivenUp).                            *)
(*                                                                         *)
(* None of the four is inductive.  SaidIsHere needs what is known of a     *)
(* file that is held back (Held0): no answer about it is on its way until  *)
(* the other side, which has read all there was, says what it has.  The    *)
(* other three need the order of what goes out (Tidy): the channel to the  *)
(* receiver is one run of files, each with its key, its blocks and its     *)
(* end, that begins where the receiver's file stands, ends where the       *)
(* sender's does, and has behind it all that was received.  A disk that    *)
(* fills, or a key that a stopped side did not say, breaks that order, and *)
(* so it is known of the conversations where neither happened (Neat).      *)
(*                                                                         *)
(* The blocks that wait are taken by a recursive function; what it does to *)
(* a block at a time is carried along by induction on a set of naturals.   *)
(***************************************************************************)
EXTENDS SecureFiles, WellFoundedInduction, TLAPS

Kinds == {"inicio", "archivo", "tengo", "ok"}

PendType == [id : KeyType, n : Nat]

\* An entry while its blocks are taken: -1 when one did not open.
TakenType ==
    [abierta : BOOLEAN, id : KeyType, sigue : Nat \cup {-1}, total : Nat, de : KeyType,
     pend : Seq(PendType)]

-----------------------------------------------------------------------------
\* Induction for a set of naturals: the least number outside it would be the successor of one
\* inside.
LEMMA LeastNat ==
    ASSUME NEW T, T \subseteq Nat, T # {}
    PROVE  \E m \in T : \A k \in T : m <= k
<1> DEFINE R == {ss \in Nat \X Nat : ss[1] < ss[2]}
<1>1. IsWellFoundedOn(R, Nat)
  BY NatLessThanWellFounded DEF OpToRel
<1>2. \A x, y \in Nat : y < x => <<y, x>> \in R
  OBVIOUS
<1> HIDE DEF R
<1>3. PICK x \in T : \A y \in T : ~(<<y, x>> \in R)
  BY <1>1, WFMin
<1>4. \A y \in T : ~(y < x)
  BY <1>2, <1>3
<1> QED
  BY <1>4

\* A set of naturals closed under the successor has them all.
LEMMA SetInduction ==
    ASSUME NEW T, 0 \in T, \A n \in Nat : n \in T => n + 1 \in T
    PROVE  Nat \subseteq T
<1> SUFFICES ASSUME ~(Nat \subseteq T) PROVE FALSE
  OBVIOUS
<1> DEFINE U == Nat \ T
<1>1. PICK m \in U : \A k \in U : m <= k
  BY LeastNat
<1>2. m # 0 /\ m - 1 \in Nat /\ m - 1 \notin U
  BY <1>1
<1> QED
  BY <1>2

-----------------------------------------------------------------------------
\* One block keeps the shape of the entry, its file and what is known of its end.
SameFile(a, e) ==
    /\ a \in TakenType
    /\ a.id = e.id /\ a.de = e.de /\ a.total = e.total /\ a.abierta = e.abierta

\* A block taken changes no more than how far the file has come.
LEMMA OneBlock ==
    ASSUME NEW e, NEW a, NEW b \in PendType, SameFile(a, e)
    PROVE  SameFile(TakeBlock(a, b), e)
<1>1. [a EXCEPT !.sigue = -1] \in TakenType
  BY DEF SameFile, TakenType
<1>2. a.sigue \in Nat => [a EXCEPT !.sigue = @ + 1] \in TakenType
  BY DEF SameFile, TakenType
<1>3. CASE TakeBlock(a, b) = a
  BY <1>3
<1>4. CASE TakeBlock(a, b) = [a EXCEPT !.sigue = -1]
  BY <1>1, <1>4 DEF SameFile, TakenType
<1>5. CASE TakeBlock(a, b) = [a EXCEPT !.sigue = @ + 1] /\ a.sigue \in Nat
  BY <1>2, <1>5 DEF SameFile, TakenType
<1>6. a.sigue \in Nat \/ a.sigue < 0
  BY DEF SameFile, TakenType
<1> QED
  BY <1>3, <1>4, <1>5, <1>6 DEF TakeBlock

\* f is the entry after each of the first m blocks that wait for it.
IsPass(f, e, m) ==
    f = [i \in 0 .. m |-> IF i = 0 THEN e ELSE TakeBlock(f[i - 1], e.pend[i])]

\* The pass over any number of the blocks that wait is defined.
LEMMA PassExists ==
    ASSUME NEW e, NEW m \in Nat
    PROVE  \E f : IsPass(f, e, m)
<1> DEFINE T == {i \in Nat : \E f : IsPass(f, e, i)}
<1>1. 0 \in T
  <2>1. IsPass([k \in 0 .. 0 |-> e], e, 0)
    BY DEF IsPass
  <2> QED
    BY <2>1
<1>2. ASSUME NEW i \in Nat, i \in T PROVE i + 1 \in T
  <2>1. PICK f : IsPass(f, e, i)
    BY <1>2
  <2> DEFINE last == TakeBlock(f[i], e.pend[i + 1])
             g == [k \in 0 .. (i + 1) |-> IF k <= i THEN f[k] ELSE last]
  <2>2. ASSUME NEW k \in 0 .. (i + 1)
        PROVE  g[k] = IF k = 0 THEN e ELSE TakeBlock(g[k - 1], e.pend[k])
    <3>1. CASE k = 0
      BY <2>1, <3>1 DEF IsPass
    <3>2. CASE k \in 1 .. i
      <4>1. g[k] = f[k] /\ g[k - 1] = f[k - 1]
        BY <3>2
      <4>2. f[k] = TakeBlock(f[k - 1], e.pend[k])
        BY <2>1, <3>2 DEF IsPass
      <4> QED
        BY <3>2, <4>1, <4>2
    <3>3. CASE k = i + 1
      <4>1. g[k] = last /\ g[k - 1] = f[i] /\ k # 0
        BY <3>3
      <4> QED
        BY <3>3, <4>1
    <3> QED
      BY <3>1, <3>2, <3>3
  <2>3. g = [k \in 0 .. (i + 1) |-> g[k]]
    OBVIOUS
  <2> HIDE DEF g
  <2>4. IsPass(g, e, i + 1)
    BY <2>2, <2>3 DEF IsPass
  <2> QED
    BY <2>4
<1> HIDE DEF T
<1>3. m \in T
  BY <1>1, <1>2, SetInduction
<1> QED
  BY <1>3 DEF T

\* What taking the blocks of an entry comes to (`vacia_bloques`): the same file, with no
\* blocks that wait once it has its key.
LEMMA TakenKeeps ==
    ASSUME NEW e \in EntryType
    PROVE  /\ SameFile(Taken(e), e)
           /\ Opens(e) => Taken(e).pend = <<>>
           /\ ~ Opens(e) => Taken(e) = e
<1> DEFINE n == Len(e.pend)
           F == CHOOSE f : IsPass(f, e, n)
<1>1. e.pend \in Seq(PendType) /\ n \in Nat
  BY DEF EntryType, PendType
<1> HIDE DEF n
<1>2. IsPass(F, e, n)
  <2>1. \E f : IsPass(f, e, n)
    BY <1>1, PassExists
  <2> QED
    BY <2>1
<1>3. Taken(e) = IF Opens(e) THEN [F[n] EXCEPT !.pend = <<>>] ELSE e
  BY DEF Taken, IsPass, n
<1> HIDE DEF F
<1>4. SameFile(e, e)
  BY DEF SameFile, TakenType, EntryType, PendType
<1>5. SameFile(F[n], e)
  <2> DEFINE T == {i \in Nat : i <= n => SameFile(F[i], e)}
  <2>1. 0 \in T
    BY <1>1, <1>2, <1>4 DEF IsPass
  <2>2. ASSUME NEW i \in Nat, i \in T PROVE i + 1 \in T
    <3>1. CASE i + 1 <= n
      <4>1. F[i + 1] = TakeBlock(F[i], e.pend[i + 1])
        BY <1>1, <1>2, <3>1 DEF IsPass
      <4>2. e.pend[i + 1] \in PendType
        BY <1>1, <3>1 DEF n
      <4>3. SameFile(F[i], e)
        BY <1>1, <2>2, <3>1
      <4>4. SameFile(F[i + 1], e)
        BY <4>1, <4>2, <4>3, OneBlock
      <4> QED
        BY <4>4
    <3>2. CASE ~ (i + 1 <= n)
      BY <3>2
    <3> QED
      BY <3>1, <3>2
  <2> HIDE DEF T
  <2>3. n \in T
    BY <1>1, <2>1, <2>2, SetInduction
  <2> QED
    BY <1>1, <2>3 DEF T
<1>6. <<>> \in Seq(PendType)
  OBVIOUS
<1>7. CASE Opens(e)
  BY <1>3, <1>5, <1>6, <1>7 DEF SameFile, TakenType
<1>8. CASE ~ Opens(e)
  BY <1>3, <1>4, <1>8
<1> QED
  BY <1>7, <1>8

\* What taking one block comes to, when it is the only one that waits.
LEMMA TakenOne ==
    ASSUME NEW e \in EntryType, NEW b \in PendType, e.pend = <<b>>, Opens(e)
    PROVE  Taken(e) = [TakeBlock(e, b) EXCEPT !.pend = <<>>]
<1> DEFINE F == CHOOSE f : IsPass(f, e, 1)
<1>1. IsPass(F, e, 1)
  <2>1. \E f : IsPass(f, e, 1)
    BY PassExists
  <2> QED
    BY <2>1
<1>2. Len(e.pend) = 1 /\ e.pend[1] = b
  OBVIOUS
<1>3. Taken(e) = [F[1] EXCEPT !.pend = <<>>]
  BY <1>2 DEF Taken, IsPass
<1> HIDE DEF F
<1>4. F[1] = TakeBlock(F[0], e.pend[1]) /\ F[0] = e
  BY <1>1 DEF IsPass
<1> QED
  BY <1>2, <1>3, <1>4

\* Where no block waits, nothing changes.
LEMMA TakenNone ==
    ASSUME NEW e \in EntryType, e.pend = <<>>
    PROVE  Taken(e) = e
<1> DEFINE F == CHOOSE f : IsPass(f, e, 0)
<1>1. IsPass(F, e, 0)
  <2>1. \E f : IsPass(f, e, 0)
    BY PassExists
  <2> QED
    BY <2>1
<1>2. Len(e.pend) = 0
  OBVIOUS
<1>3. Taken(e) = IF Opens(e) THEN [F[0] EXCEPT !.pend = <<>>] ELSE e
  BY <1>2 DEF Taken, IsPass
<1> HIDE DEF F
<1>4. F[0] = e
  BY <1>1 DEF IsPass
<1>5. [e EXCEPT !.pend = <<>>] = e
  BY DEF EntryType
<1> QED
  BY <1>3, <1>4, <1>5
-----------------------------------------------------------------------------
\* What one side sends keeps the shape of the channels (Enlace::mandar).
LEMMA SendsType ==
    ASSUME canal \in [Sides -> Seq(MessageType)], mudos \subseteq Kinds,
           NEW s \in Sides, NEW mine \in Seq(MessageType), NEW ms \in Seq(MessageType),
           NEW kinds \in SUBSET Kinds, Sends(s, mine, ms, kinds)
    PROVE  canal' \in [Sides -> Seq(MessageType)] /\ mudos' \subseteq Kinds
<1>1. \A x \in Sides : canal[x] \in Seq(MessageType) /\ canal[x] \o ms \in Seq(MessageType)
  OBVIOUS
<1> QED
  BY <1>1 DEF Sends

\* What is said is a message, and the channels keep their shape.
LEMMA SaysType ==
    ASSUME canal \in [Sides -> Seq(MessageType)], mudos \subseteq Kinds,
           NEW s \in Sides, NEW mine \in Seq(MessageType), NEW ms,
           ms = <<>> \/ \E x \in MessageType : x.m \in Kinds /\ ms = <<x>>,
           Says(s, mine, ms)
    PROVE  canal' \in [Sides -> Seq(MessageType)] /\ mudos' \subseteq Kinds
<1>1. ms \in Seq(MessageType) /\ Olm(s, ms) \in Seq(MessageType)
  <2> HIDE DEF MessageType
  <2>1. <<>> \in Seq(MessageType) /\ \A x \in MessageType : <<x>> \in Seq(MessageType)
    OBVIOUS
  <2>2. ms \in Seq(MessageType)
    BY <2>1
  <2> QED
    BY <2>1, <2>2 DEF Olm
<1> DEFINE kinds == {ms[i].m : i \in 1 .. Len(ms)}
<1>2. ASSUME ms = <<>> PROVE kinds \subseteq Kinds
  <2>1. Len(ms) = 0
    BY <1>2
  <2> QED
    BY <2>1
<1>3. ASSUME NEW x \in MessageType, x.m \in Kinds, ms = <<x>> PROVE kinds \subseteq Kinds
  <2>1. Len(ms) = 1 /\ ms[1] = x
    BY <1>3
  <2>2. \A i \in 1 .. Len(ms) : ms[i] = x
    BY <2>1
  <2> QED
    BY <1>3, <2>2
<1>4. kinds \in SUBSET Kinds
  <2>1. kinds \subseteq Kinds
    BY <1>2, <1>3
  <2> QED
    BY <2>1
<1>5. Sends(s, mine, Olm(s, ms), kinds)
  BY DEF Says
<1> HIDE DEF kinds
<1> QED
  BY <1>1, <1>4, <1>5, SendsType

\* So they do when a side only reads.
LEMMA JustReadsType ==
    ASSUME canal \in [Sides -> Seq(MessageType)], mudos \subseteq Kinds,
           NEW s \in Sides, canal[s] # <<>>, JustReads(s)
    PROVE  canal' \in [Sides -> Seq(MessageType)] /\ mudos' \subseteq Kinds
<1>1. Tail(canal[s]) \in Seq(MessageType)
  <2>1. canal[s] \in Seq(MessageType)
    OBVIOUS
  <2> HIDE DEF MessageType
  <2> QED
    BY <2>1
<1> QED
  BY <1>1, SaysType DEF JustReads

\* The messages are messages.
LEMMA MessageShapes ==
    /\ \A i \in KeyType : Inicio(i) \in MessageType /\ Ok(i) \in MessageType
    /\ \A i \in KeyType, n \in Nat :
          Bloque(i, n) \in MessageType /\ Archivo(i, n) \in MessageType
    /\ \A i, j \in KeyType, n \in Nat : Tengo(i, n, j) \in MessageType
<1>1. 0 \in KeyType
  <2>1. MaxFiles \in Nat
    BY BoundsAssumption
  <2> QED
    BY <2>1 DEF KeyType
<1> QED
  BY <1>1 DEF MessageType, Inicio, Ok, Bloque, Archivo, Tengo

\* What goes out again is made of messages (archivo_tengo).
LEMMA AgainType ==
    ASSUME NEW q \in OutType, q.desde <= q.hechos, NEW anew \in BOOLEAN
    PROVE  /\ Again(q, anew) \in Seq(MessageType)
           /\ SaidAgain(q, anew) \in SUBSET Kinds
<1>1. q.id \in KeyType /\ q.hechos \in Nat /\ q.desde \in Nat
  BY DEF OutType
<1>2. (IF anew THEN Olm(From, <<Inicio(q.id)>>) ELSE <<>>) \in Seq(MessageType)
  <2>1. Inicio(q.id) \in MessageType
    BY <1>1, MessageShapes
  <2> QED
    BY <2>1 DEF Olm
<1>3. (IF q.llave THEN Olm(From, <<Archivo(q.id, q.hechos)>>) ELSE <<>>) \in Seq(MessageType)
  <2>1. Archivo(q.id, q.hechos) \in MessageType
    BY <1>1, MessageShapes
  <2> QED
    BY <2>1 DEF Olm
<1>4. [i \in 1 .. q.hechos - q.desde |-> Bloque(q.id, q.desde + i - 1)] \in Seq(MessageType)
  <2>1. q.hechos - q.desde \in Nat
    BY <1>1
  <2>2. \A i \in 1 .. q.hechos - q.desde : Bloque(q.id, q.desde + i - 1) \in MessageType
    <3>1. \A i \in 1 .. q.hechos - q.desde : q.desde + i - 1 \in Nat
      BY <1>1
    <3> QED
      BY <1>1, <3>1, MessageShapes
  <2> QED
    BY <2>1, <2>2
<1>5. \A u, v, w \in Seq(MessageType) : u \o v \o w \in Seq(MessageType)
  OBVIOUS
<1>6. Again(q, anew) \in Seq(MessageType)
  BY <1>2, <1>3, <1>4, <1>5 DEF Again
<1> QED
  BY <1>6 DEF SaidAgain, Kinds

\* Hearing a message takes it from the front (Enlace::recibir).
LEMMA HeardType ==
    ASSUME canal \in [Sides -> Seq(MessageType)], NEW s \in Sides, Hears(s)
    PROVE  /\ Message(s) \in MessageType /\ Message(s) = canal[s][1]
           /\ canal[s] \in Seq(MessageType) /\ canal[s] # <<>> /\ Tail(canal[s]) \in Seq(MessageType)
<1>1. canal[s] \in Seq(MessageType) /\ canal[s] # <<>>
  BY DEF Hears
<1> HIDE DEF MessageType
<1> QED
  BY <1>1 DEF Message
-----------------------------------------------------------------------------
\* The confirmation that goes is one of those that fell due, the last of them.
LEMMA LastOfSteps ==
    ASSUME NEW e, NEW after, e.sigue \in Nat, after.sigue \in Nat, Confirms(e, after) # {}
    PROVE  \E k \in Confirms(e, after) :
              /\ k = CHOOSE x \in Confirms(e, after) : \A l \in Confirms(e, after) : l <= x
              /\ k \in Nat /\ k <= after.sigue
<1> DEFINE steps == Confirms(e, after)
           T == {m \in Nat : \E l \in steps : m = after.sigue - l}
<1>1. \A l \in steps : l \in Nat /\ l <= after.sigue
  BY DEF Confirms
<1> HIDE DEF steps
<1>2. T \subseteq Nat /\ T # {}
  <2>1. PICK l \in steps : TRUE
    BY DEF steps
  <2>2. after.sigue - l \in Nat
    BY <1>1
  <2>3. after.sigue - l \in T
    BY <2>2
  <2> QED
    BY <2>3
<1>3. PICK m \in T : \A x \in T : m <= x
  <2> HIDE DEF T
  <2> QED
    BY <1>2, LeastNat
<1>4. PICK k \in steps : m = after.sigue - k
  OBVIOUS
<1>5. \A l \in steps : l <= k
  <2> TAKE l \in steps
  <2>1. after.sigue - l \in T
    BY <1>1
  <2>2. after.sigue - k <= after.sigue - l
    BY <1>3, <1>4, <2>1
  <2> QED
    BY <1>1, <2>2
<1> DEFINE c == CHOOSE x \in steps : \A l \in steps : l <= x
<1>6. c \in steps
  BY <1>5
<1> QED
  BY <1>1, <1>6 DEF steps

\* `cerrar` leaves both sides with nothing of the conversation.
LEMMA EndsType ==
    ASSUME TypeOK, Ends, alarma' \in BOOLEAN
    PROVE  TypeOK'
<1>1. <<>> \in Seq(MessageType) /\ <<>> \in Seq(KeyType) /\ <<>> \in Seq(PendType)
  OBVIOUS
<1>2. 0 \in KeyType /\ MaxPend \in Nat
  <2>1. MaxFiles \in Nat /\ MaxPend \in Nat
    BY BoundsAssumption
  <2> QED
    BY <2>1 DEF KeyType
<1>3. NoFile \in OutType /\ NoFile.desde <= NoFile.hechos /\ NoFile.id = 0
  BY <1>2 DEF NoFile, OutType
<1>4. NoEntry \in EntryType /\ NoEntry.pend = <<>> /\ Len(NoEntry.pend) <= MaxPend
  <2>1. NoEntry.pend = <<>> /\ Len(NoEntry.pend) = 0
    BY DEF NoEntry
  <2>2. NoEntry \in EntryType
    BY <1>1, <1>2 DEF NoEntry, EntryType, PendType
  <2> QED
    BY <1>2, <2>1, <2>2
<1>5. lista' \in BOOLEAN /\ viva' \in BOOLEAN /\ alarma' \in BOOLEAN
  BY DEF TypeOK, Ends
<1>6. enlace' \in [Sides -> {"vivo", "ninguno", "nuevo"}] /\ marcha' \in [Sides -> BOOLEAN]
  BY DEF Ends
<1>7. canal' \in [Sides -> Seq(MessageType)]
  BY <1>1 DEF Ends
<1>8. Len(enviados') \in Nat
  BY DEF TypeOK, Ends
<1> QED
  BY <1>1, <1>3, <1>4, <1>5, <1>6, <1>7, <1>8 DEF TypeOK, Ends

\* Emptying an entry of its blocks (`vacia_bloques`) keeps the shape of the state.
LEMMA EmptiesType ==
    ASSUME TypeOK, canal[To] # <<>>, NEW e \in EntryType, Len(e.pend) <= MaxPend, Empties(e)
    PROVE  TypeOK'
<1> DEFINE after == Taken(e)
<1>1. /\ SameFile(after, e)
      /\ Opens(e) => after.pend = <<>>
      /\ ~ Opens(e) => after = e
  BY TakenKeeps
<1> HIDE DEF after
<1>2. To \in Sides /\ canal \in [Sides -> Seq(MessageType)] /\ mudos \subseteq Kinds
  BY DEF To, Sides, TypeOK, Kinds
<1>3. Tail(canal[To]) \in Seq(MessageType)
  <2>1. canal[To] \in Seq(MessageType)
    BY <1>2
  <2> HIDE DEF MessageType
  <2> QED
    BY <2>1
<1>4. <<>> \in Seq(PendType) /\ 0 \in KeyType /\ MaxPend \in Nat
  <2>1. MaxFiles \in Nat /\ MaxPend \in Nat
    BY BoundsAssumption
  <2> QED
    BY <2>1 DEF KeyType
<1>5. NoEntry \in EntryType /\ NoEntry.pend = <<>> /\ Len(NoEntry.pend) <= MaxPend
  <2>1. NoEntry.pend = <<>> /\ Len(NoEntry.pend) = 0
    BY DEF NoEntry
  <2>2. NoEntry \in EntryType
    BY <1>4 DEF NoEntry, EntryType, PendType
  <2> QED
    BY <1>4, <2>1, <2>2
<1>6. CASE after.sigue < 0 /\ alarma' = TRUE /\ Ends
  BY <1>6, EndsType
<1>7. CASE /\ after.sigue >= 0 /\ Complete(after)
           /\ entrada' = NoEntry
           /\ IF after.de = after.id
              THEN /\ recibidos' = Append(recibidos, after.id)
                   /\ Says(To, Tail(canal[To]), <<Ok(after.id)>>)
              ELSE /\ JustReads(To) /\ UNCHANGED recibidos
           /\ UNCHANGED <<wires, sender, alarma>>
  <2>1. after.id \in KeyType
    BY <1>1 DEF SameFile, TakenType
  <2>2. recibidos' \in Seq(KeyType)
    <3>1. recibidos \in Seq(KeyType)
      BY DEF TypeOK
    <3>2. Append(recibidos, after.id) \in Seq(KeyType)
      <4> HIDE DEF KeyType
      <4> QED
        BY <2>1, <3>1
    <3> QED
      BY <1>7, <3>1, <3>2
  <2>3. canal' \in [Sides -> Seq(MessageType)] /\ mudos' \subseteq Kinds
    <3>1. CASE after.de = after.id
      <4>1. Ok(after.id) \in MessageType /\ Ok(after.id).m \in Kinds
        BY <2>1, MessageShapes DEF Ok, Kinds
      <4>2. Says(To, Tail(canal[To]), <<Ok(after.id)>>)
        BY <1>7, <3>1
      <4> QED
        BY <1>2, <1>3, <4>1, <4>2, SaysType
    <3>2. CASE after.de # after.id
      BY <1>2, <1>7, <3>2, JustReadsType
    <3> QED
      BY <3>1, <3>2
  <2> QED
    BY <1>5, <1>7, <2>2, <2>3 DEF TypeOK, wires, sender, Kinds
<1>8. CASE /\ after.sigue >= 0 /\ ~ Complete(after)
           /\ entrada' = after
           /\ Says(To, Tail(canal[To]),
                   IF Confirms(e, after) = {} THEN <<>>
                   ELSE <<Tengo(after.id,
                            CHOOSE k \in Confirms(e, after) : \A l \in Confirms(e, after) : l <= k,
                            0)>>)
           /\ UNCHANGED <<wires, sender, recibidos, alarma>>
  <2>1. after \in EntryType
    BY <1>1, <1>8 DEF SameFile, TakenType, EntryType, PendType
  <2>2. Len(after.pend) <= MaxPend /\ (Opens(after) => after.pend = <<>>)
    <3>1. Opens(after) <=> Opens(e)
      BY <1>1 DEF SameFile, Opens
    <3>2. Len(<<>>) = 0
      OBVIOUS
    <3> QED
      BY <1>1, <1>4, <3>1, <3>2
  <2> DEFINE k == CHOOSE x \in Confirms(e, after) : \A l \in Confirms(e, after) : l <= x
             ms == IF Confirms(e, after) = {} THEN <<>> ELSE <<Tengo(after.id, k, 0)>>
  <2>3. Confirms(e, after) # {} => k \in Nat
    <3>1. e.sigue \in Nat /\ after.sigue \in Nat
      BY <2>1 DEF EntryType
    <3> QED
      BY <3>1, LastOfSteps
  <2>4. after.id \in KeyType
    BY <2>1 DEF EntryType
  <2>5. Says(To, Tail(canal[To]), ms)
    BY <1>8
  <2> HIDE DEF k
  <2>6. ms = <<>> \/ \E x \in MessageType : x.m \in Kinds /\ ms = <<x>>
    <3>1. k \in Nat => Tengo(after.id, k, 0) \in MessageType /\ Tengo(after.id, k, 0).m \in Kinds
      BY <1>4, <2>4, MessageShapes DEF Tengo, Kinds
    <3> QED
      BY <2>3, <3>1
  <2> HIDE DEF ms
  <2>7. canal' \in [Sides -> Seq(MessageType)] /\ mudos' \subseteq Kinds
    BY <1>2, <1>3, <2>5, <2>6, SaysType
  <2> QED
    BY <1>8, <2>1, <2>2, <2>7 DEF TypeOK, wires, sender, Kinds
<1>9. CASE /\ Writes(e) /\ Faults < MaxFaults
           /\ entrada' = NoEntry
           /\ count' = [count EXCEPT !.full = @ + 1]
           /\ JustReads(To)
           /\ UNCHANGED <<lista, enlace, viva, marcha, sender, recibidos, alarma>>
  <2>1. canal' \in [Sides -> Seq(MessageType)] /\ mudos' \subseteq Kinds
    BY <1>2, <1>9, JustReadsType
  <2>2. count' \in [drops : Nat, stops : Nat, full : Nat]
    <3>1. count \in [drops : Nat, stops : Nat, full : Nat]
      BY DEF TypeOK
    <3> QED
      BY <1>9, <3>1
  <2> QED
    BY <1>5, <1>9, <2>1, <2>2 DEF TypeOK, sender, Kinds
<1> QED
  BY <1>6, <1>7, <1>8, <1>9 DEF Empties, after
-----------------------------------------------------------------------------
\* The rows of the screen keep their shape when one of them says that its file got there.
LEMMA ArrivedType ==
    ASSUME NEW nombre, enviados \in Seq([nombre : Names, llego : BOOLEAN])
    PROVE  /\ Arrived(nombre) \in Seq([nombre : Names, llego : BOOLEAN])
           /\ Len(Arrived(nombre)) = Len(enviados)
           /\ \A i \in 1 .. Len(enviados) : Arrived(nombre)[i].nombre = enviados[i].nombre
<1> DEFINE Row == [nombre : Names, llego : BOOLEAN]
           got == Arrived(nombre)
<1>1. Len(enviados) \in Nat /\ \A i \in 1 .. Len(enviados) : enviados[i] \in Row
  <2>1. enviados \in Seq(Row)
    OBVIOUS
  <2> HIDE DEF Row
  <2> QED
    BY <2>1
<1>2. \A r \in Row : [r EXCEPT !.llego = TRUE] \in Row /\ [r EXCEPT !.llego = TRUE].nombre = r.nombre
  OBVIOUS
<1> HIDE DEF Row
<1>3. /\ got = [i \in 1 .. Len(enviados) |-> got[i]]
      /\ \A i \in 1 .. Len(enviados) :
            got[i] = enviados[i] \/ got[i] = [enviados[i] EXCEPT !.llego = TRUE]
  BY DEF Arrived
<1> HIDE DEF got
<1>4. \A i \in 1 .. Len(enviados) : got[i] \in Row /\ got[i].nombre = enviados[i].nombre
  BY <1>1, <1>2, <1>3
<1>5. got \in Seq(Row) /\ Len(got) = Len(enviados)
  BY <1>1, <1>3, <1>4
<1> QED
  BY <1>4, <1>5 DEF got, Row

\* What a confirmation lets go of stays within the file.
LEMMA LetGoType ==
    ASSUME NEW q \in OutType, NEW n \in Nat, q.desde <= q.hechos
    PROVE  /\ LetGo(q, n) \in OutType /\ LetGo(q, n).desde <= q.hechos
           /\ LetGo(q, n).id = q.id /\ LetGo(q, n).hechos = q.hechos
           /\ LetGo(q, n).pausada = q.pausada /\ LetGo(q, n).llave = q.llave
           /\ LetGo(q, n).desde \in {q.desde, n, q.hechos}
<1> DEFINE d == IF KeptFrom(q.desde, n) > q.hechos THEN q.hechos ELSE KeptFrom(q.desde, n)
<1>1. q.hechos \in Nat /\ q.desde \in Nat
  BY DEF OutType
<1>2. d \in Nat /\ d <= q.hechos /\ d \in {q.desde, n, q.hechos}
  BY <1>1 DEF KeptFrom
<1>3. LetGo(q, n) = [q EXCEPT !.desde = d]
  BY DEF LetGo
<1> HIDE DEF d
<1> QED
  BY <1>2, <1>3 DEF OutType

\* What the side that sends makes of a `tengo` keeps the shape of the state (archivo_tengo).
LEMMA ReadTengoType == TypeOK /\ ReadTengo => TypeOK'
<1> SUFFICES ASSUME TypeOK, ReadTengo PROVE TypeOK'
  OBVIOUS
<1> DEFINE q == Message(From)
           same == NameOf(q.id) = NameOf(salida.id)
           bloques == IF same THEN q.n ELSE 0
           left == LetGo(salida, bloques)
<1>1. From \in Sides /\ canal \in [Sides -> Seq(MessageType)] /\ mudos \subseteq Kinds
  BY DEF From, Sides, TypeOK, Kinds
<1>2. Hears(From)
  BY DEF ReadTengo
<1>3. q \in MessageType /\ canal[From] # <<>> /\ Tail(canal[From]) \in Seq(MessageType)
  BY <1>1, <1>2, HeardType
<1>4. bloques \in Nat
  BY <1>3 DEF MessageType
<1>5. salida \in OutType /\ salida.desde <= salida.hechos /\ salida.id <= Len(enviados)
  BY DEF TypeOK
<1>6. /\ left \in OutType /\ left.desde <= salida.hechos
      /\ left.id = salida.id /\ left.hechos = salida.hechos
  BY <1>4, <1>5, LetGoType
<1>7. /\ NoFile \in OutType /\ NoFile.desde <= NoFile.hechos /\ NoFile.id = 0
  <2>1. MaxFiles \in Nat
    BY BoundsAssumption
  <2> QED
    BY <2>1 DEF NoFile, OutType, KeyType
<1>8. [left EXCEPT !.pausada = FALSE] \in OutType
  BY <1>6 DEF OutType
<1>9. /\ Arrived(NameOf(salida.id)) \in Seq([nombre : Names, llego : BOOLEAN])
      /\ Len(Arrived(NameOf(salida.id))) = Len(enviados)
  BY ArrivedType DEF TypeOK
<1>10. UNCHANGED <<wires, receiver>>
  BY DEF ReadTengo
<1>11. /\ salida' \in OutType /\ salida'.desde <= salida'.hechos /\ salida'.id <= Len(enviados')
       /\ enviados' \in Seq([nombre : Names, llego : BOOLEAN])
       /\ envio' \in {"nada", "sigue", "fin"}
       /\ cortado' \subseteq KeyType
       /\ JustReads(From) \/ Sends(From, Tail(canal[From]), Again(left, ~ same), SaidAgain(left, ~ same))
  <2>1. /\ enviados \in Seq([nombre : Names, llego : BOOLEAN]) /\ Len(enviados) \in Nat
        /\ envio \in {"nada", "sigue", "fin"} /\ cortado \subseteq KeyType
    BY DEF TypeOK
  <2>2. salida.id \in KeyType
    BY <1>5 DEF OutType
  <2>3. CASE JustReads(From) /\ UNCHANGED sender
    BY <1>5, <2>1, <2>3 DEF sender
  <2>4. CASE salida' = left /\ JustReads(From) /\ UNCHANGED <<enviados, envio, cortado>>
    <3> HIDE DEF left
    <3> QED
      BY <1>5, <1>6, <2>1, <2>4
  <2>5. CASE /\ enviados' = Arrived(NameOf(salida.id)) /\ salida' = NoFile /\ envio' = "nada"
             /\ JustReads(From) /\ UNCHANGED cortado
    BY <1>7, <1>9, <2>1, <2>5
  <2>6. CASE /\ salida' = NoFile /\ envio' = "nada" /\ cortado' = cortado \cup {salida.id}
             /\ JustReads(From) /\ UNCHANGED enviados
    BY <1>7, <2>1, <2>2, <2>6
  <2>7. CASE /\ salida' = [left EXCEPT !.pausada = FALSE]
             /\ Sends(From, Tail(canal[From]), Again(left, ~ same), SaidAgain(left, ~ same))
             /\ envio' = IF salida.llave /\ envio # "nada" THEN "fin" ELSE envio
             /\ UNCHANGED <<enviados, cortado>>
    <3>1. salida'.id = left.id /\ salida'.desde = left.desde /\ salida'.hechos = left.hechos
      BY <1>6, <2>7 DEF OutType
    <3>2. envio' \in {"nada", "sigue", "fin"}
      BY <2>1, <2>7
    <3> HIDE DEF left
    <3> QED
      BY <1>5, <1>6, <1>8, <2>1, <2>7, <3>1, <3>2
  <2> QED
    BY <2>3, <2>4, <2>5, <2>6, <2>7 DEF ReadTengo
<1>12. canal' \in [Sides -> Seq(MessageType)] /\ mudos' \subseteq Kinds
  <2>1. CASE JustReads(From)
    BY <1>1, <1>3, <2>1, JustReadsType
  <2>2. CASE Sends(From, Tail(canal[From]), Again(left, ~ same), SaidAgain(left, ~ same))
    <3>1. /\ Again(left, ~ same) \in Seq(MessageType)
          /\ SaidAgain(left, ~ same) \in SUBSET Kinds
      <4>1. left.desde <= left.hechos
        BY <1>6
      <4> HIDE DEF left
      <4> QED
        BY <1>6, <4>1, AgainType
    <3> HIDE DEF left, same
    <3> QED
      BY <1>1, <1>3, <2>2, <3>1, SendsType
  <2> QED
    BY <1>11, <2>1, <2>2
<1> HIDE DEF left, same, q, bloques
<1> QED
  BY <1>10, <1>11, <1>12 DEF TypeOK, wires, receiver, Kinds

\* A file that starts (`enviar_archivo`).
LEMMA NewFile ==
    ASSUME NEW id \in KeyType, 0 \in KeyType
    PROVE  LET q == [NoFile EXCEPT !.id = id, !.pausada = enlace[From] = "ninguno"]
           IN  /\ q \in OutType /\ q.desde <= q.hechos /\ q.id = id /\ q.hechos = 0 /\ q.desde = 0
               /\ ~ q.llave /\ (q.pausada <=> enlace[From] = "ninguno")
<1>1. ASSUME NEW p \in BOOLEAN
      PROVE  LET q == [NoFile EXCEPT !.id = id, !.pausada = p]
             IN  /\ q \in OutType /\ q.desde <= q.hechos /\ q.id = id /\ q.hechos = 0 /\ q.desde = 0
                 /\ ~ q.llave /\ q.pausada = p
  <2> DEFINE q == [NoFile EXCEPT !.id = id, !.pausada = p]
  <2>1. q \in OutType
    BY DEF NoFile, OutType
  <2>2. q.id = id /\ q.hechos = 0 /\ q.desde = 0
    BY DEF NoFile
  <2>3. q.llave = FALSE
    BY DEF NoFile
  <2>4. q.pausada = p
    BY DEF NoFile
  <2>5. q.desde <= q.hechos
    BY <2>2
  <2> HIDE DEF q
  <2>6. /\ q \in OutType /\ q.desde <= q.hechos /\ q.id = id /\ q.hechos = 0 /\ q.desde = 0
        /\ ~ q.llave /\ q.pausada = p
    BY <2>1, <2>2, <2>3, <2>4, <2>5
  <2> QED
    BY <2>6 DEF q
<1>2. (enlace[From] = "ninguno") \in BOOLEAN
  OBVIOUS
<1> QED
  BY <1>1, <1>2

\* A file that starts keeps every shape.
LEMMA StartType ==
    ASSUME TypeOK, NEW nombre \in Names, Start(nombre)
    PROVE  TypeOK'
<1> DEFINE id == Len(enviados) + 1
           q == [NoFile EXCEPT !.id = id, !.pausada = enlace[From] = "ninguno"]
<1>1. Len(enviados) \in Nat /\ MaxFiles \in Nat /\ Len(enviados) < MaxFiles
  <2>1. MaxFiles \in Nat
    BY BoundsAssumption
  <2>2. enviados \in Seq([nombre : Names, llego : BOOLEAN])
    BY DEF TypeOK
  <2> QED
    BY <2>1, <2>2 DEF Start
<1>2. id \in KeyType /\ 0 \in KeyType
  BY <1>1 DEF KeyType
<1>3. q \in OutType /\ q.desde <= q.hechos /\ q.id = id
  <2> HIDE DEF id
  <2> QED
    BY <1>2, NewFile
<1>4. /\ enviados' \in Seq([nombre : Names, llego : BOOLEAN])
      /\ Len(enviados') = id
  BY <1>1 DEF TypeOK, Start
<1>5. canal' \in [Sides -> Seq(MessageType)] /\ mudos' \subseteq Kinds
  <2>1. From \in Sides /\ canal \in [Sides -> Seq(MessageType)] /\ mudos \subseteq Kinds
    BY DEF From, Sides, TypeOK, Kinds
  <2>2. canal[From] \in Seq(MessageType)
    BY <2>1
  <2>3. Inicio(id) \in MessageType /\ Inicio(id).m \in Kinds
    BY <1>2, MessageShapes DEF Inicio, Kinds
  <2>4. Says(From, canal[From], <<Inicio(id)>>)
    BY DEF Start
  <2> HIDE DEF id
  <2> QED
    BY <2>1, <2>2, <2>3, <2>4, SaysType
<1>6. salida' = q /\ envio' = "sigue" /\ UNCHANGED <<wires, cortado, receiver>>
  BY DEF Start
<1>7. salida'.id <= Len(enviados')
  BY <1>1, <1>3, <1>4, <1>6
<1> HIDE DEF q, id
<1> QED
  BY <1>3, <1>4, <1>5, <1>6, <1>7 DEF TypeOK, wires, receiver, Kinds

\* So does a block that goes out.
LEMMA PieceType ==
    ASSUME TypeOK, NEW ultimo \in BOOLEAN, Piece(ultimo)
    PROVE  TypeOK'
<1> DEFINE block == Bloque(salida.id, salida.hechos)
           close == Archivo(salida.id, salida.hechos + 1)
           ms == <<block>> \o (IF ultimo THEN Olm(From, <<close>>) ELSE <<>>)
           kinds == IF ultimo THEN {"archivo"} ELSE {}
<1>1. /\ salida \in OutType /\ salida.hechos \in Nat /\ salida.desde \in Nat
      /\ salida.id \in KeyType /\ salida.desde <= salida.hechos /\ salida.id <= Len(enviados)
  BY DEF TypeOK, OutType
<1>2. salida' = [salida EXCEPT !.hechos = @ + 1, !.llave = ultimo]
  BY DEF Piece
<1>3. /\ salida' \in OutType /\ salida'.id = salida.id /\ salida'.desde = salida.desde
      /\ salida'.hechos = salida.hechos + 1
  <2> DEFINE h == salida.hechos + 1
  <2>1. h \in Nat
    BY <1>1
  <2>2. salida' = [salida EXCEPT !.hechos = h, !.llave = ultimo]
    BY <1>2
  <2> HIDE DEF h
  <2>3. /\ salida' \in OutType /\ salida'.id = salida.id /\ salida'.desde = salida.desde
        /\ salida'.hechos = h
    BY <1>1, <2>1, <2>2 DEF OutType
  <2> QED
    BY <2>3 DEF h
<1>4. salida'.desde <= salida'.hechos
  BY <1>1, <1>3
<1>5. From \in Sides /\ canal \in [Sides -> Seq(MessageType)] /\ mudos \subseteq Kinds
  BY DEF From, Sides, TypeOK, Kinds
<1>6. canal[From] \in Seq(MessageType)
  BY <1>5
<1>7. canal' \in [Sides -> Seq(MessageType)] /\ mudos' \subseteq Kinds
  <2>1. CASE salida.pausada
    <3>1. Says(From, canal[From], <<>>)
      BY <2>1 DEF Piece
    <3> QED
      BY <1>5, <1>6, <3>1, SaysType
  <2>2. CASE ~ salida.pausada
    <3>1. Sends(From, canal[From], ms, kinds)
      BY <2>2 DEF Piece
    <3>2. block \in MessageType /\ close \in MessageType
      BY <1>1, MessageShapes
    <3>3. ms \in Seq(MessageType)
      <4>1. <<block>> \in Seq(MessageType) /\ <<>> \in Seq(MessageType) /\ <<close>> \in Seq(MessageType)
        BY <3>2
      <4>2. \A u, v \in Seq(MessageType) : u \o v \in Seq(MessageType)
        OBVIOUS
      <4>3. (IF ultimo THEN Olm(From, <<close>>) ELSE <<>>) \in Seq(MessageType)
        BY <4>1 DEF Olm
      <4> HIDE DEF block, close
      <4> QED
        BY <4>1, <4>2, <4>3
    <3>4. kinds \in SUBSET Kinds
      BY DEF Kinds
    <3> HIDE DEF ms, kinds
    <3> QED
      BY <1>5, <1>6, <3>1, <3>3, <3>4, SendsType
  <2> QED
    BY <2>1, <2>2
<1>8. envio' \in {"nada", "sigue", "fin"} /\ UNCHANGED <<wires, enviados, cortado, receiver>>
  BY DEF Piece, TypeOK
<1> HIDE DEF ms, kinds, block, close
<1> QED
  BY <1>1, <1>3, <1>4, <1>7, <1>8 DEF TypeOK, wires, receiver, Kinds
-----------------------------------------------------------------------------
\* So does an «it is here».
LEMMA ReadOkType == TypeOK /\ ReadOk => TypeOK'
<1> SUFFICES ASSUME TypeOK, ReadOk PROVE TypeOK'
  OBVIOUS
<1> DEFINE nombre == NameOf(Message(From).id)
<1>1. From \in Sides /\ canal \in [Sides -> Seq(MessageType)] /\ mudos \subseteq Kinds
  BY DEF From, Sides, TypeOK, Kinds
<1>2. canal[From] # <<>> /\ JustReads(From)
  BY DEF ReadOk, Hears
<1>3. canal' \in [Sides -> Seq(MessageType)] /\ mudos' \subseteq Kinds
  BY <1>1, <1>2, JustReadsType
<1>4. /\ enviados' \in Seq([nombre : Names, llego : BOOLEAN])
      /\ Len(enviados') = Len(enviados) /\ Len(enviados) \in Nat
  <2>1. enviados \in Seq([nombre : Names, llego : BOOLEAN]) /\ enviados' = Arrived(nombre)
    BY DEF TypeOK, ReadOk
  <2> DEFINE Row == [nombre : Names, llego : BOOLEAN]
  <2>2. Len(enviados) \in Nat
    <3>1. enviados \in Seq(Row)
      BY <2>1
    <3> HIDE DEF Row
    <3> QED
      BY <3>1
  <2> HIDE DEF nombre
  <2> QED
    BY <2>1, <2>2, ArrivedType
<1>5. salida' \in OutType /\ salida'.desde <= salida'.hechos /\ salida'.id <= Len(enviados)
  <2>1. /\ NoFile \in OutType /\ NoFile.desde <= NoFile.hechos /\ NoFile.id = 0
    <3>1. MaxFiles \in Nat
      BY BoundsAssumption
    <3> QED
      BY <3>1 DEF NoFile, OutType, KeyType
  <2>2. salida \in OutType /\ salida.desde <= salida.hechos /\ salida.id <= Len(enviados)
    BY DEF TypeOK
  <2>3. salida' = NoFile \/ salida' = salida
    BY DEF ReadOk
  <2> QED
    BY <1>4, <2>1, <2>2, <2>3
<1>6. UNCHANGED <<wires, envio, cortado, receiver>>
  BY DEF ReadOk
<1> QED
  BY <1>3, <1>4, <1>5, <1>6 DEF TypeOK, wires, receiver, Kinds

\* The entry that a key, a block or an end finds (`archivo_inicio`, `entra_bloque`, `archivo`).
LEMMA EntryShapes ==
    ASSUME entrada \in EntryType, NEW q \in MessageType
    PROVE  /\ [NoEntry EXCEPT !.abierta = TRUE, !.id = q.id] \in EntryType
           /\ [entrada EXCEPT !.abierta = TRUE, !.pend = Append(@, [id |-> q.id, n |-> q.n])]
                 \in EntryType
           /\ [entrada EXCEPT !.de = q.id, !.total = q.n] \in EntryType
           /\ [[entrada EXCEPT !.de = q.id, !.total = q.n] EXCEPT !.abierta = TRUE, !.id = q.id]
                 \in EntryType
<1>1. q.id \in KeyType /\ q.n \in Nat /\ entrada.pend \in Seq(PendType) /\ 0 \in KeyType
  <2>1. MaxFiles \in Nat
    BY BoundsAssumption
  <2> QED
    BY <2>1 DEF MessageType, EntryType, PendType, KeyType
<1>2. [NoEntry EXCEPT !.abierta = TRUE, !.id = q.id] \in EntryType
  <2>1. <<>> \in Seq(PendType)
    OBVIOUS
  <2> QED
    BY <1>1, <2>1 DEF NoEntry, EntryType, PendType
<1>3. [entrada EXCEPT !.abierta = TRUE, !.pend = Append(@, [id |-> q.id, n |-> q.n])] \in EntryType
  <2> DEFINE longer == Append(entrada.pend, [id |-> q.id, n |-> q.n])
  <2>1. [id |-> q.id, n |-> q.n] \in PendType
    BY <1>1 DEF PendType
  <2>2. longer \in Seq(PendType)
    <3> HIDE DEF PendType
    <3> QED
      BY <1>1, <2>1
  <2> HIDE DEF longer
  <2>3. [entrada EXCEPT !.abierta = TRUE, !.pend = longer] \in EntryType
    BY <2>2 DEF EntryType, PendType
  <2> QED
    BY <2>3 DEF longer
<1>4. [entrada EXCEPT !.de = q.id, !.total = q.n] \in EntryType
  BY <1>1 DEF EntryType
<1>5. \A e \in EntryType : [e EXCEPT !.abierta = TRUE, !.id = q.id] \in EntryType
  BY <1>1 DEF EntryType
<1> QED
  BY <1>2, <1>3, <1>4, <1>5

\* So does what the side that receives reads.
LEMMA ReceiverType ==
    TypeOK /\ (ReadInicio \/ ReadBlock \/ ReadArchivo) => TypeOK'
<1> SUFFICES ASSUME TypeOK, ReadInicio \/ ReadBlock \/ ReadArchivo PROVE TypeOK'
  OBVIOUS
<1> DEFINE q == Message(To)
<1>1. To \in Sides /\ canal \in [Sides -> Seq(MessageType)] /\ mudos \subseteq Kinds
  BY DEF To, Sides, TypeOK, Kinds
<1>2. Hears(To)
  BY DEF ReadInicio, ReadBlock, ReadArchivo
<1>3. q \in MessageType /\ canal[To] # <<>>
  BY <1>1, <1>2, HeardType
<1>4. entrada \in EntryType /\ Len(entrada.pend) <= MaxPend /\ MaxPend \in Nat
  BY BoundsAssumption DEF TypeOK
<1>5. JustReads(To) => canal' \in [Sides -> Seq(MessageType)] /\ mudos' \subseteq Kinds
  BY <1>1, <1>3, JustReadsType
<1>6. CASE ReadInicio
  <2>1. /\ entrada' = [NoEntry EXCEPT !.abierta = TRUE, !.id = q.id]
        /\ JustReads(To) /\ UNCHANGED <<wires, sender, recibidos, alarma>>
    BY <1>6 DEF ReadInicio
  <2>2. entrada' \in EntryType
    BY <1>3, <1>4, <2>1, EntryShapes
  <2>3. entrada'.pend = <<>> /\ Len(entrada'.pend) <= MaxPend
    BY <1>4, <2>1 DEF NoEntry
  <2> HIDE DEF q
  <2> QED
    BY <1>5, <2>1, <2>2, <2>3 DEF TypeOK, wires, sender, Kinds
<1>7. CASE ReadBlock
  <2> DEFINE b == [id |-> q.id, n |-> q.n]
             e == [entrada EXCEPT !.abierta = TRUE, !.pend = Append(@, b)]
  <2>1. CASE JustReads(To) /\ UNCHANGED <<wires, sender, receiver>>
    BY <1>5, <2>1 DEF TypeOK, wires, sender, receiver, Kinds
  <2>2. CASE Len(entrada.pend) < MaxPend /\ Empties(e)
    <3>1. e \in EntryType
      BY <1>3, <1>4, EntryShapes
    <3>2. e.pend = Append(entrada.pend, b)
      BY <1>4 DEF EntryType
    <3>3. Len(Append(entrada.pend, b)) = Len(entrada.pend) + 1 /\ Len(entrada.pend) \in Nat
      BY <1>4 DEF EntryType
    <3>4. Len(e.pend) <= MaxPend
      BY <1>4, <2>2, <3>2, <3>3
    <3> HIDE DEF e
    <3> QED
      BY <1>3, <2>2, <3>1, <3>4, EmptiesType
  <2>3. Len(entrada.pend) < MaxPend \/ Len(entrada.pend) >= MaxPend
    <3>1. Len(entrada.pend) \in Nat
      BY <1>4 DEF EntryType
    <3> QED
      BY <1>4, <3>1
  <2> QED
    BY <1>7, <2>1, <2>2, <2>3 DEF ReadBlock
<1>8. CASE ReadArchivo
  <2> DEFINE known == [entrada EXCEPT !.de = q.id, !.total = q.n]
             e == IF Opens(entrada) THEN known ELSE [known EXCEPT !.abierta = TRUE, !.id = q.id]
  <2>1. Empties(e)
    BY <1>8 DEF ReadArchivo
  <2>2. e \in EntryType
    BY <1>3, <1>4, EntryShapes
  <2>3. e.pend = entrada.pend
    <3>1. known.pend = entrada.pend
      BY <1>4 DEF EntryType
    <3>2. [known EXCEPT !.abierta = TRUE, !.id = q.id].pend = known.pend
      BY <1>4 DEF EntryType
    <3> QED
      BY <3>1, <3>2
  <2>4. Len(e.pend) <= MaxPend
    BY <1>4, <2>3
  <2> HIDE DEF e
  <2> QED
    BY <1>3, <2>1, <2>2, <2>4, EmptiesType
<1> QED
  BY <1>6, <1>7, <1>8

\* So do the link and the watch.
LEMMA WorldType ==
    /\ TypeOK /\ Drop => TypeOK'
    /\ \A s \in Sides : TypeOK /\ Notice(s) => TypeOK'
    /\ TypeOK /\ Meet => TypeOK'
    /\ \A s \in Sides : TypeOK /\ Resume(s) => TypeOK'
    /\ \A s \in Sides : TypeOK /\ (Stop(s) \/ Continue(s)) => TypeOK'
<1>1. ASSUME TypeOK, Drop PROVE TypeOK'
  <2>1. canal \in [Sides -> Seq(MessageType)] /\ count \in [drops : Nat, stops : Nat, full : Nat]
    BY <1>1 DEF TypeOK
  <2>2. count' \in [drops : Nat, stops : Nat, full : Nat]
    BY <1>1, <2>1 DEF Drop
  <2>3. PICK a \in 0 .. Len(canal[From]), b \in 0 .. Len(canal[To]) :
           canal' = [s \in Sides |-> SubSeq(canal[s], 1, IF s = From THEN a ELSE b)]
    BY <1>1 DEF Drop
  <2>4. \A s \in Sides : SubSeq(canal[s], 1, IF s = From THEN a ELSE b) \in Seq(MessageType)
    <3> HIDE DEF MessageType
    <3>1. \A w \in Seq(MessageType) : \A n \in 0 .. Len(w) : SubSeq(w, 1, n) \in Seq(MessageType)
      OBVIOUS
    <3>2. \A s \in Sides : (IF s = From THEN a ELSE b) \in 0 .. Len(canal[s])
      BY DEF Sides, From, To
    <3> QED
      BY <2>1, <3>1, <3>2
  <2>5. canal' \in [Sides -> Seq(MessageType)]
    BY <2>3, <2>4
  <2> QED
    BY <1>1, <2>2, <2>5 DEF TypeOK, Drop, sender, receiver
<1>2. ASSUME NEW s \in Sides, TypeOK, Notice(s) PROVE TypeOK'
  <2>1. enlace' \in [Sides -> {"vivo", "ninguno", "nuevo"}]
    BY <1>2 DEF TypeOK, Notice
  <2>2. salida' \in OutType /\ salida'.desde <= salida'.hechos /\ salida'.id <= Len(enviados)
    <3>1. salida \in OutType /\ salida.desde <= salida.hechos /\ salida.id <= Len(enviados)
      BY <1>2 DEF TypeOK
    <3>2. \A p \in BOOLEAN : /\ [salida EXCEPT !.pausada = p] \in OutType
                             /\ [salida EXCEPT !.pausada = p].desde = salida.desde
                             /\ [salida EXCEPT !.pausada = p].hechos = salida.hechos
                             /\ [salida EXCEPT !.pausada = p].id = salida.id
      BY <3>1 DEF OutType
    <3>3. Held \in BOOLEAN
      BY DEF Held, Sending
    <3>4. salida' = salida \/ \E p \in BOOLEAN : salida' = [salida EXCEPT !.pausada = p]
      BY <1>2, <3>3 DEF Notice
    <3> QED
      BY <3>1, <3>2, <3>4
  <2>3. envio' \in {"nada", "sigue", "fin"}
    BY <1>2 DEF TypeOK, Notice
  <2> QED
    BY <1>2, <2>1, <2>2, <2>3 DEF TypeOK, Notice, receiver
<1>3. ASSUME TypeOK, Meet PROVE TypeOK'
  <2>1. enlace' \in [Sides -> {"vivo", "ninguno", "nuevo"}] /\ viva' \in BOOLEAN
    BY <1>3 DEF Meet
  <2> QED
    BY <1>3, <2>1 DEF TypeOK, Meet, sender, receiver
<1>4. ASSUME NEW s \in Sides, TypeOK, Resume(s) PROVE TypeOK'
  <2>1. enlace' \in [Sides -> {"vivo", "ninguno", "nuevo"}]
    BY <1>4 DEF TypeOK, Resume
  <2> DEFINE ms == IF s = To THEN WhatIHave ELSE <<>>
  <2>2. Says(s, canal[s], ms)
    BY <1>4 DEF Resume
  <2>3. ms = <<>> \/ \E x \in MessageType : x.m \in Kinds /\ ms = <<x>>
    <3> DEFINE x == Tengo(entrada.id, entrada.sigue, LastReceived)
    <3>1. LastReceived \in KeyType
      <4>1. recibidos \in Seq(KeyType) /\ 0 \in KeyType
        <5>1. MaxFiles \in Nat
          BY BoundsAssumption
        <5> QED
          BY <1>4, <5>1 DEF TypeOK, KeyType
      <4>2. recibidos # <<>> => recibidos[Len(recibidos)] \in KeyType
        <5> HIDE DEF KeyType
        <5> QED
          BY <4>1
      <4> QED
        BY <4>1, <4>2 DEF LastReceived
    <3>2. entrada.id \in KeyType /\ entrada.sigue \in Nat
      BY <1>4 DEF TypeOK, EntryType
    <3>3. x \in MessageType
      BY <3>1, <3>2, MessageShapes
    <3>4. x.m \in Kinds
      BY DEF Tengo, Kinds
    <3> HIDE DEF x
    <3>5. WhatIHave = <<x>>
      BY DEF WhatIHave, x
    <3> QED
      BY <3>3, <3>4, <3>5
  <2> HIDE DEF ms
  <2>4. canal' \in [Sides -> Seq(MessageType)] /\ mudos' \subseteq Kinds
    <3>1. canal \in [Sides -> Seq(MessageType)] /\ mudos \subseteq Kinds
      BY <1>4 DEF TypeOK, Kinds
    <3>2. canal[s] \in Seq(MessageType)
      BY <3>1
    <3> QED
      BY <2>2, <2>3, <3>1, <3>2, SaysType
  <2> QED
    BY <1>4, <2>1, <2>4 DEF TypeOK, Resume, sender, receiver, Kinds
<1>5. ASSUME NEW s \in Sides, TypeOK, Stop(s) \/ Continue(s) PROVE TypeOK'
  <2>1. marcha' \in [Sides -> BOOLEAN]
    BY <1>5 DEF TypeOK, Stop, Continue
  <2>2. count' \in [drops : Nat, stops : Nat, full : Nat]
    <3>1. count \in [drops : Nat, stops : Nat, full : Nat]
      BY <1>5 DEF TypeOK
    <3> QED
      BY <1>5, <3>1 DEF Stop, Continue
  <2> QED
    BY <1>5, <2>1, <2>2 DEF TypeOK, Stop, Continue, sender, receiver
<1> QED
  BY <1>1, <1>2, <1>3, <1>4, <1>5

\* Every step keeps the shape of the state.
LEMMA TypeStep == TypeOK /\ [Next]_vars => TypeOK'
<1> SUFFICES ASSUME TypeOK, [Next]_vars PROVE TypeOK'
  OBVIOUS
<1>1. ASSUME NEW nombre \in Names, Start(nombre) PROVE TypeOK'
  BY <1>1, StartType
<1>2. ASSUME NEW ultimo \in BOOLEAN, Piece(ultimo) PROVE TypeOK'
  BY <1>2, PieceType
<1>3. CASE Written
  BY <1>3 DEF Written, TypeOK, wires, receiver
<1>4. CASE Close
  <2>1. alarma' \in BOOLEAN /\ Ends
    BY <1>4 DEF Close, TypeOK
  <2> QED
    BY <2>1, EndsType
<1>5. CASE UNCHANGED vars
  BY <1>5 DEF vars, wires, sender, receiver, TypeOK
<1> QED
  BY <1>1, <1>2, <1>3, <1>4, <1>5, ReadTengoType, ReadOkType, ReceiverType, WorldType
     DEF Next, Reads, Mends

\* A conversation begins with it.
LEMMA TypeInit == Init => TypeOK
<1> SUFFICES ASSUME Init PROVE TypeOK
  OBVIOUS
<1>1. /\ <<>> \in Seq(MessageType) /\ <<>> \in Seq(KeyType) /\ <<>> \in Seq(PendType)
      /\ <<>> \in Seq([nombre : Names, llego : BOOLEAN]) /\ Len(<<>>) = 0
  OBVIOUS
<1>2. 0 \in KeyType /\ MaxPend \in Nat
  <2>1. MaxFiles \in Nat /\ MaxPend \in Nat
    BY BoundsAssumption
  <2> QED
    BY <2>1 DEF KeyType
<1>3. NoFile \in OutType /\ NoFile.desde <= NoFile.hechos /\ NoFile.id = 0
  BY <1>2 DEF NoFile, OutType
<1>4. NoEntry \in EntryType /\ NoEntry.pend = <<>>
  BY <1>1, <1>2 DEF NoEntry, EntryType, PendType
<1>5. Len(NoEntry.pend) <= MaxPend
  BY <1>1, <1>2, <1>4
<1>6. /\ enlace \in [Sides -> {"vivo", "ninguno", "nuevo"}] /\ marcha \in [Sides -> BOOLEAN]
      /\ canal \in [Sides -> Seq(MessageType)]
      /\ count \in [drops : Nat, stops : Nat, full : Nat]
  BY <1>1 DEF Init
<1>7. lista \in BOOLEAN /\ viva \in BOOLEAN /\ alarma \in BOOLEAN
  BY DEF Init
<1>8. /\ enviados = <<>> /\ salida = NoFile /\ envio = "nada" /\ cortado = {}
      /\ entrada = NoEntry /\ recibidos = <<>> /\ mudos = {}
  BY DEF Init
<1>9. salida.id <= Len(enviados)
  BY <1>1, <1>3, <1>8
<1> QED
  BY <1>1, <1>3, <1>4, <1>5, <1>6, <1>7, <1>8, <1>9 DEF TypeOK

\* Every part of the state keeps its shape, for any number of files, blocks and faults.
THEOREM TypeCorrect == Spec => []TypeOK
  BY TypeInit, TypeStep, PTL DEF Spec
-----------------------------------------------------------------------------
In(w) == {w[i] : i \in 1 .. Len(w)}

\* What is left of a channel when its first message is read.
LEMMA Tails ==
    ASSUME NEW T, NEW w \in Seq(T), w # <<>>
    PROVE  /\ Tail(w) \in Seq(T) /\ Len(Tail(w)) = Len(w) - 1 /\ Len(w) \in Nat \ {0}
           /\ \A i \in 1 .. Len(Tail(w)) : Tail(w)[i] = w[i + 1]
           /\ Head(w) = w[1] /\ w[1] \in In(w) /\ In(Tail(w)) \subseteq In(w)
<1>1. /\ Tail(w) \in Seq(T) /\ Len(Tail(w)) = Len(w) - 1 /\ Len(w) \in Nat \ {0}
      /\ \A i \in 1 .. Len(Tail(w)) : Tail(w)[i] = w[i + 1]
      /\ Head(w) = w[1]
  OBVIOUS
<1> DEFINE t == Tail(w)
<1> HIDE DEF t
<1>2. \A i \in 1 .. Len(t) : t[i] = w[i + 1] /\ i + 1 \in 1 .. Len(w)
  BY <1>1 DEF t
<1>3. In(t) \subseteq In(w)
  BY <1>2 DEF In
<1>4. w[1] \in In(w)
  BY <1>1 DEF In
<1> QED
  BY <1>1, <1>3, <1>4 DEF t

\* Three messages or more go out in the same order however they are joined.
LEMMA JoinsInTurn ==
    ASSUME NEW T, NEW u \in Seq(T), NEW v \in Seq(T), NEW w \in Seq(T)
    PROVE  u \o (v \o w) = u \o v \o w
OBVIOUS

\* What goes after a channel is behind all that was there.
LEMMA Joins ==
    ASSUME NEW T, NEW u \in Seq(T), NEW v \in Seq(T)
    PROVE  /\ u \o v \in Seq(T) /\ Len(u \o v) = Len(u) + Len(v)
           /\ \A i \in 1 .. Len(u) : (u \o v)[i] = u[i]
           /\ \A i \in Len(u) + 1 .. Len(u) + Len(v) : (u \o v)[i] = v[i - Len(u)]
           /\ In(u \o v) = In(u) \cup In(v)
           /\ u \o <<>> = u
<1> DEFINE w == u \o v
<1>1. /\ w \in Seq(T) /\ Len(w) = Len(u) + Len(v) /\ Len(u) \in Nat /\ Len(v) \in Nat
      /\ \A i \in 1 .. Len(u) : w[i] = u[i]
      /\ \A i \in Len(u) + 1 .. Len(u) + Len(v) : w[i] = v[i - Len(u)]
      /\ u \o <<>> = u
  OBVIOUS
<1> HIDE DEF w
<1>2. In(w) \subseteq In(u) \cup In(v)
  <2>1. \A i \in 1 .. Len(w) : i \in 1 .. Len(u) \/ i - Len(u) \in 1 .. Len(v)
    BY <1>1
  <2>2. \A i \in 1 .. Len(w) : i \in 1 .. Len(u) \/ i \in Len(u) + 1 .. Len(u) + Len(v)
    BY <1>1
  <2> QED
    BY <1>1, <2>1, <2>2 DEF In
<1>3. In(u) \subseteq In(w)
  <2>1. \A i \in 1 .. Len(u) : i \in 1 .. Len(w)
    BY <1>1
  <2> QED
    BY <1>1, <2>1 DEF In
<1>4. In(v) \subseteq In(w)
  <2>1. \A i \in 1 .. Len(v) :
           /\ i + Len(u) \in 1 .. Len(w) /\ i + Len(u) \in Len(u) + 1 .. Len(u) + Len(v)
           /\ (i + Len(u)) - Len(u) = i
    BY <1>1
  <2>2. \A i \in 1 .. Len(v) : w[i + Len(u)] = v[i]
    BY <1>1, <2>1
  <2> QED
    BY <2>1, <2>2 DEF In
<1> QED
  BY <1>1, <1>2, <1>3, <1>4 DEF w

\* A link that drops loses a tail.
LEMMA Cuts ==
    ASSUME NEW T, NEW w \in Seq(T), NEW n \in 0 .. Len(w)
    PROVE  /\ SubSeq(w, 1, n) \in Seq(T) /\ Len(SubSeq(w, 1, n)) = n
           /\ \A i \in 1 .. n : SubSeq(w, 1, n)[i] = w[i]
           /\ In(SubSeq(w, 1, n)) \subseteq In(w)
<1> DEFINE c == SubSeq(w, 1, n)
<1>1. c \in Seq(T) /\ Len(c) = n /\ Len(w) \in Nat /\ \A i \in 1 .. n : c[i] = w[i]
  OBVIOUS
<1> HIDE DEF c
<1>2. In(c) \subseteq In(w)
  BY <1>1 DEF In
<1> QED
  BY <1>1, <1>2 DEF c

\* A channel with nothing, and with one message.
LEMMA Singles ==
    /\ In(<<>>) = {} /\ Len(<<>>) = 0
    /\ \A x : In(<<x>>) = {x} /\ Len(<<x>>) = 1 /\ <<x>>[1] = x
<1>1. Len(<<>>) = 0 /\ \A x : Len(<<x>>) = 1 /\ <<x>>[1] = x
  OBVIOUS
<1>2. In(<<>>) = {}
  BY <1>1 DEF In
<1>3. ASSUME NEW x PROVE In(<<x>>) = {x}
  <2>1. \A i \in 1 .. Len(<<x>>) : i = 1
    BY <1>1
  <2>2. 1 \in 1 .. Len(<<x>>)
    BY <1>1
  <2> QED
    BY <1>1, <2>1, <2>2 DEF In
<1> QED
  BY <1>1, <1>2, <1>3

\* A channel with one message more.
LEMMA OneMore ==
    \A u \in Seq(MessageType), x \in MessageType :
        /\ u \o <<x>> \in Seq(MessageType) /\ Len(u \o <<x>>) = Len(u) + 1 /\ Len(u) \in Nat
        /\ In(u \o <<x>>) = In(u) \cup {x}
        /\ \A i \in 1 .. Len(u) : (u \o <<x>>)[i] = u[i]
        /\ (u \o <<x>>)[Len(u) + 1] = x
<1> SUFFICES ASSUME NEW u \in Seq(MessageType), NEW x \in MessageType
             PROVE  /\ u \o <<x>> \in Seq(MessageType) /\ Len(u \o <<x>>) = Len(u) + 1
                    /\ Len(u) \in Nat
                    /\ In(u \o <<x>>) = In(u) \cup {x}
                    /\ \A i \in 1 .. Len(u) : (u \o <<x>>)[i] = u[i]
                    /\ (u \o <<x>>)[Len(u) + 1] = x
  OBVIOUS
<1>1. <<x>> \in Seq(MessageType) /\ In(<<x>>) = {x} /\ Len(<<x>>) = 1 /\ <<x>>[1] = x
  <2>1. <<x>> \in Seq(MessageType)
    <3> HIDE DEF MessageType
    <3> QED
      OBVIOUS
  <2> QED
    BY <2>1, Singles
<1>2. Len(u) \in Nat
  <2> HIDE DEF MessageType
  <2> QED
    OBVIOUS
<1> DEFINE v == <<x>>
<1>3. v \in Seq(MessageType) /\ In(v) = {x} /\ Len(v) = 1 /\ v[1] = x
  BY <1>1
<1> HIDE DEF v
<1>4. /\ u \o v \in Seq(MessageType) /\ Len(u \o v) = Len(u) + Len(v)
      /\ \A i \in 1 .. Len(u) : (u \o v)[i] = u[i]
      /\ \A i \in Len(u) + 1 .. Len(u) + Len(v) : (u \o v)[i] = v[i - Len(u)]
      /\ In(u \o v) = In(u) \cup In(v)
  <2>1. v \in Seq(MessageType)
    BY <1>3
  <2> QED
    BY <2>1, Joins
<1>5. (u \o v)[Len(u) + 1] = v[1]
  <2>1. Len(u) + 1 \in Len(u) + 1 .. Len(u) + Len(v) /\ Len(u) + 1 - Len(u) = 1
    BY <1>2, <1>3
  <2> QED
    BY <1>4, <2>1
<1> QED
  BY <1>2, <1>3, <1>4, <1>5 DEF v

\* A channel in which nothing travels is empty.
LEMMA EmptyIn == ASSUME NEW T, NEW w \in Seq(T), In(w) = {} PROVE w = <<>>
<1>1. Len(w) \in Nat
  OBVIOUS
<1>2. Len(w) = 0
  <2> SUFFICES ASSUME Len(w) # 0 PROVE FALSE
    OBVIOUS
  <2>1. 1 \in 1 .. Len(w)
    BY <1>1
  <2> QED
    BY <2>1 DEF In
<1> QED
  BY <1>2

-----------------------------------------------------------------------------
\* What each side finds in its channel after one of them sends.
LEMMA FromSends ==
    ASSUME TypeOK, NEW mine, NEW ms \in Seq(MessageType), NEW kinds, Sends(From, mine, ms, kinds)
    PROVE  /\ canal'[From] = mine
           /\ canal'[To] = IF Travels(From) THEN canal[To] \o ms ELSE canal[To]
           /\ canal[To] \in Seq(MessageType) /\ canal[From] \in Seq(MessageType)
           /\ mudos \subseteq mudos'
BY DEF Sends, From, To, Sides, TypeOK

\* What the side that receives sends, in the channels.
LEMMA ToSends ==
    ASSUME TypeOK, NEW mine, NEW ms \in Seq(MessageType), NEW kinds, Sends(To, mine, ms, kinds)
    PROVE  /\ canal'[To] = mine
           /\ canal'[From] = IF Travels(To) THEN canal[From] \o ms ELSE canal[From]
           /\ canal[To] \in Seq(MessageType) /\ canal[From] \in Seq(MessageType)
           /\ mudos \subseteq mudos'
BY DEF Sends, From, To, Sides, TypeOK

\* A side that says nothing only takes from its own channel.
LEMMA Quietly ==
    ASSUME TypeOK, NEW s \in Sides, NEW mine, Says(s, mine, <<>>)
    PROVE  /\ canal'[s] = mine
           /\ \A x \in Sides : x # s => canal'[x] = canal[x]
           /\ mudos \subseteq mudos'
<1>1. Olm(s, <<>>) = <<>>
  BY DEF Olm
<1>2. \A x \in Sides : canal[x] \in Seq(MessageType) /\ canal[x] \o <<>> = canal[x]
  BY DEF TypeOK
<1> QED
  BY <1>1, <1>2 DEF Says, Sends

\* The sender says one message.
LEMMA SaysOneFrom ==
    ASSUME TypeOK, NEW mine, NEW x \in MessageType, Says(From, mine, <<x>>)
    PROVE  /\ canal'[From] = mine
           /\ canal'[To] = IF Travels(From) /\ marcha[From] THEN canal[To] \o <<x>> ELSE canal[To]
           /\ mudos \subseteq mudos'
           /\ ~ marcha[From] => x.m \in mudos'
<1>1. <<x>> \in Seq(MessageType) /\ <<>> \in Seq(MessageType)
  OBVIOUS
<1>2. Olm(From, <<x>>) \in Seq(MessageType)
  BY <1>1 DEF Olm
<1>3. Sends(From, mine, Olm(From, <<x>>), {<<x>>[i].m : i \in 1 .. Len(<<x>>)})
  BY DEF Says
<1>4. /\ canal'[From] = mine
      /\ canal'[To] = IF Travels(From) THEN canal[To] \o Olm(From, <<x>>) ELSE canal[To]
      /\ canal[To] \in Seq(MessageType)
      /\ mudos \subseteq mudos'
  BY <1>2, <1>3, FromSends
<1>5. canal[To] \o <<>> = canal[To]
  BY <1>4, Joins
<1>6. ~ marcha[From] => x.m \in mudos'
  <2>1. Len(<<x>>) = 1 /\ <<x>>[1] = x
    OBVIOUS
  <2>2. x.m \in {<<x>>[i].m : i \in 1 .. Len(<<x>>)}
    <3>1. 1 \in 1 .. Len(<<x>>)
      BY <2>1
    <3> QED
      BY <2>1, <3>1
  <2> QED
    BY <1>3, <2>2 DEF Sends
<1> QED
  BY <1>4, <1>5, <1>6 DEF Olm

\* The side that receives says one message.
LEMMA SaysOneTo ==
    ASSUME TypeOK, NEW mine, NEW x \in MessageType, Says(To, mine, <<x>>)
    PROVE  /\ canal'[To] = mine
           /\ canal'[From] = IF Travels(To) /\ marcha[To] THEN canal[From] \o <<x>> ELSE canal[From]
           /\ mudos \subseteq mudos'
<1>1. <<x>> \in Seq(MessageType) /\ <<>> \in Seq(MessageType)
  OBVIOUS
<1>2. Olm(To, <<x>>) \in Seq(MessageType)
  BY <1>1 DEF Olm
<1>3. Sends(To, mine, Olm(To, <<x>>), {<<x>>[i].m : i \in 1 .. Len(<<x>>)})
  BY DEF Says
<1>4. /\ canal'[To] = mine
      /\ canal'[From] = IF Travels(To) THEN canal[From] \o Olm(To, <<x>>) ELSE canal[From]
      /\ canal[From] \in Seq(MessageType)
      /\ mudos \subseteq mudos'
  BY <1>2, <1>3, ToSends
<1>5. canal[From] \o <<>> = canal[From]
  BY <1>4, Joins
<1> QED
  BY <1>4, <1>5 DEF Olm
-----------------------------------------------------------------------------
\* What travels to each side is about files that were started.
GoesBack(x) ==
    \/ x.m = "tengo" /\ x.id \in 0 .. Len(enviados) /\ x.ultimo \in 0 .. Len(enviados)
    \/ x.m = "ok" /\ x.id \in 1 .. Len(enviados)

GoesOut(x) == x.m \in {"inicio", "bloque", "archivo"} /\ x.id \in 1 .. Len(enviados)

WellMade ==
    /\ \A x \in In(canal[From]) : GoesBack(x)
    /\ \A x \in In(canal[To]) : GoesOut(x)
    /\ salida.id \in {0, Len(enviados)}
    /\ entrada.id <= Len(enviados)
    /\ \A i \in In(recibidos) : i \in 1 .. Len(enviados)

\* What is said to the sender of the files that are there is so.
Truthful ==
    lista => \A x \in In(canal[From]) :
        /\ x.m = "ok" => IsHere(x.id)
        /\ x.m = "tengo" /\ x.ultimo # 0 => IsHere(x.ultimo)

\* A side that looks at the relay has read everything, and its link is gone; the file that
\* goes out is then held back.
Linked ==
    lista =>
        /\ \A s \in Sides : enlace[s] = "ninguno" => canal[s] = <<>> /\ ~ viva
        /\ enlace[From] = "ninguno" /\ Sending => salida.pausada

\* While a file is held back, the other side says nothing but what it has, and nothing
\* travels to it.
Waits ==
    lista /\ salida.pausada =>
        /\ \A x \in In(canal[From]) : x = Tengo(entrada.id, entrada.sigue, LastReceived)
        /\ enlace[From] # "ninguno" => canal[To] = <<>>

Held0 == WellMade /\ Truthful /\ SaidIsHere /\ Linked /\ Waits

\* The rows of the screen are as many as the files, and their number is a natural.
LEMMA Rows == TypeOK => /\ Len(enviados) \in Nat
                        /\ \A i \in 1 .. Len(enviados) : enviados[i] \in [nombre : Names, llego : BOOLEAN]
<1> DEFINE Row == [nombre : Names, llego : BOOLEAN]
<1> SUFFICES ASSUME TypeOK PROVE Len(enviados) \in Nat /\ \A i \in 1 .. Len(enviados) : enviados[i] \in Row
  OBVIOUS
<1>1. enviados \in Seq(Row)
  BY DEF TypeOK
<1> HIDE DEF Row
<1> QED
  BY <1>1

\* What is here stays here, as what is received is only added to.
LEMMA HereStays ==
    ASSUME TypeOK, NEW x, recibidos' = recibidos \/ recibidos' = Append(recibidos, x)
    PROVE  \A i : IsHere(i) => IsHere(i)'
<1>1. recibidos \in Seq(KeyType)
  BY DEF TypeOK
<1>2. \A k \in 1 .. Len(recibidos) : k \in 1 .. Len(recibidos') /\ recibidos'[k] = recibidos[k]
  <2>1. CASE recibidos' = recibidos
    BY <2>1
  <2>2. CASE recibidos' = Append(recibidos, x)
    <3> HIDE DEF KeyType
    <3> QED
      BY <1>1, <2>2
  <2> QED
    BY <2>1, <2>2
<1> QED
  BY <1>2 DEF IsHere

\* A file is here when it is among the received.
LEMMA HereIn == \A i : IsHere(i) <=> i \in In(recibidos)
BY DEF IsHere, In

\* Without a new row nor a change of what is received, nothing that is said is less true.
LEMMA Untouched ==
    ASSUME TypeOK, WellMade, Truthful, SaidIsHere,
           UNCHANGED <<lista, entrada, recibidos, enviados>>,
           In(canal'[From]) \subseteq In(canal[From]),
           \A x \in In(canal'[To]) : x \in In(canal[To]) \/ GoesOut(x),
           salida'.id \in {0, Len(enviados)}
    PROVE  WellMade' /\ Truthful' /\ SaidIsHere'
<1>1. \A i : IsHere(i)' <=> IsHere(i)
  BY DEF IsHere
<1>2. \A x : (GoesBack(x)' <=> GoesBack(x)) /\ (GoesOut(x)' <=> GoesOut(x))
  BY DEF GoesBack, GoesOut
<1>3. WellMade'
  BY <1>2 DEF WellMade
<1>4. Truthful'
  BY <1>1 DEF Truthful
<1>5. SaidIsHere'
  BY <1>1 DEF SaidIsHere, NamesDiffer
<1> QED
  BY <1>3, <1>4, <1>5

\* A message that a side has heard.
LEMMA Heard ==
    ASSUME TypeOK, NEW s \in Sides, Hears(s)
    PROVE  /\ lista /\ enlace[s] = "vivo"
           /\ canal[s] \in Seq(MessageType) /\ canal[s] # <<>>
           /\ Message(s) \in MessageType /\ Message(s) = canal[s][1]
           /\ Message(s) \in In(canal[s]) /\ In(Tail(canal[s])) \subseteq In(canal[s])
           /\ Tail(canal[s]) \in Seq(MessageType)
<1>1. canal[s] \in Seq(MessageType)
  BY DEF TypeOK
<1>2. canal[s] # <<>> /\ lista /\ enlace[s] = "vivo" /\ Message(s) = Head(canal[s])
  BY DEF Hears, Message
<1>3. /\ Head(canal[s]) = canal[s][1] /\ canal[s][1] \in In(canal[s])
      /\ In(Tail(canal[s])) \subseteq In(canal[s]) /\ Tail(canal[s]) \in Seq(MessageType)
  BY <1>1, <1>2, Tails
<1>4. canal[s][1] \in MessageType
  BY <1>1, <1>2, HeardType DEF TypeOK
<1> QED
  BY <1>1, <1>2, <1>3, <1>4

\* Before anything is sent, what is known of a held-back file is nothing.
LEMMA HeldInit == Init => Held0
<1> SUFFICES ASSUME Init PROVE Held0
  OBVIOUS
<1>1. /\ canal[From] = <<>> /\ canal[To] = <<>> /\ enviados = <<>> /\ recibidos = <<>>
      /\ salida.id = 0 /\ salida.pausada = FALSE /\ entrada.id = 0
      /\ \A s \in Sides : enlace[s] = "vivo"
  BY DEF Init, NoFile, NoEntry, Sides, From, To
<1>2. In(<<>>) = {} /\ Len(<<>>) = 0
  BY Singles
<1>3. WellMade
  BY <1>1, <1>2 DEF WellMade
<1>4. Truthful
  BY <1>1, <1>2 DEF Truthful
<1>5. SaidIsHere
  BY <1>1, <1>2 DEF SaidIsHere
<1>6. Linked
  BY <1>1 DEF Linked, Sides, From, Sending
<1>7. Waits
  BY <1>1 DEF Waits
<1> QED
  BY <1>3, <1>4, <1>5, <1>6, <1>7 DEF Held0

\* The end of the conversation leaves nothing to say.
LEMMA HeldEnds == TypeOK /\ Held0 /\ Ends => Held0'
<1> SUFFICES ASSUME TypeOK, Held0, Ends PROVE Held0'
  OBVIOUS
<1>1. /\ canal'[From] = <<>> /\ canal'[To] = <<>> /\ recibidos' = <<>> /\ lista' = FALSE
      /\ salida' = NoFile /\ entrada' = NoEntry /\ enviados' = enviados
  BY DEF Ends, Sides, From, To
<1>2. In(<<>>) = {} /\ Len(enviados) \in Nat
  BY Singles, Rows
<1>3. WellMade'
  BY <1>1, <1>2 DEF WellMade, NoFile, NoEntry
<1> QED
  BY <1>1, <1>3 DEF Held0, Truthful, SaidIsHere, Linked, Waits
-----------------------------------------------------------------------------
\* What starting a file changes (`enviar_archivo`).
LEMMA StartEffect ==
    ASSUME TypeOK, NEW nombre \in Names, Start(nombre)
    PROVE  LET id == Len(enviados) + 1
           IN  /\ lista /\ id \in KeyType /\ (Sending => salida.llave) /\ Len(enviados) \in Nat
               /\ salida'.id = id /\ salida'.hechos = 0 /\ salida'.desde = 0 /\ ~ salida'.llave
               /\ (salida'.pausada <=> enlace[From] = "ninguno")
               /\ canal'[From] = canal[From]
               /\ canal'[To] = IF Travels(From) /\ marcha[From]
                               THEN canal[To] \o <<Inicio(id)>> ELSE canal[To]
               /\ Inicio(id) \in MessageType
               /\ mudos \subseteq mudos' /\ (~ marcha[From] => "inicio" \in mudos')
               /\ Len(enviados') = id /\ enviados'[id] = [nombre |-> nombre, llego |-> FALSE]
               /\ \A i \in 1 .. Len(enviados) : enviados'[i] = enviados[i]
               /\ UNCHANGED <<wires, cortado, receiver>>
<1> DEFINE id == Len(enviados) + 1
<1>1. /\ enviados \in Seq([nombre : Names, llego : BOOLEAN]) /\ Len(enviados) \in Nat
  BY Rows DEF TypeOK
<1>2. id \in KeyType /\ 0 \in KeyType
  <2>1. MaxFiles \in Nat
    BY BoundsAssumption
  <2>2. Len(enviados) < MaxFiles
    BY DEF Start
  <2> QED
    BY <1>1, <2>1, <2>2 DEF KeyType
<1>3. Inicio(id) \in MessageType /\ Inicio(id).m = "inicio"
  BY <1>2, MessageShapes DEF Inicio
<1>4. Says(From, canal[From], <<Inicio(id)>>)
  BY DEF Start
<1>5. salida' = [NoFile EXCEPT !.id = id, !.pausada = enlace[From] = "ninguno"]
  BY DEF Start
<1>6. /\ lista /\ (Sending => salida.llave) /\ UNCHANGED <<wires, cortado, receiver>>
      /\ enviados' = Append(enviados, [nombre |-> nombre, llego |-> FALSE])
  BY DEF Start
<1>7. /\ Len(enviados') = id /\ enviados'[id] = [nombre |-> nombre, llego |-> FALSE]
      /\ \A i \in 1 .. Len(enviados) : enviados'[i] = enviados[i]
  <2> DEFINE r == [nombre |-> nombre, llego |-> FALSE]
             Row == [nombre : Names, llego : BOOLEAN]
  <2>1. enviados \in Seq(Row) /\ enviados' = Append(enviados, r)
    BY <1>1, <1>6
  <2> HIDE DEF r, Row
  <2>2. /\ Len(enviados') = id /\ enviados'[id] = r
        /\ \A i \in 1 .. Len(enviados) : enviados'[i] = enviados[i]
    BY <2>1
  <2> QED
    BY <2>2 DEF r
<1>8. /\ salida'.id = id /\ salida'.hechos = 0 /\ salida'.desde = 0 /\ ~ salida'.llave
      /\ (salida'.pausada <=> enlace[From] = "ninguno")
  <2> HIDE DEF id
  <2> QED
    BY <1>2, <1>5, NewFile
<1>9. /\ canal'[From] = canal[From]
      /\ canal'[To] = IF Travels(From) /\ marcha[From]
                      THEN canal[To] \o <<Inicio(id)>> ELSE canal[To]
      /\ mudos \subseteq mudos' /\ (~ marcha[From] => "inicio" \in mudos')
  <2> HIDE DEF id
  <2>1. ~ marcha[From] => Inicio(id).m \in mudos'
    BY <1>3, <1>4, SaysOneFrom
  <2> QED
    BY <1>3, <1>4, <2>1, SaysOneFrom
<1> HIDE DEF id
<1> QED
  BY <1>1, <1>2, <1>3, <1>6, <1>7, <1>8, <1>9 DEF id

\* A file that starts goes after every other.
LEMMA HeldStart ==
    ASSUME TypeOK, Held0, NEW nombre \in Names, Start(nombre)
    PROVE  Held0'
<1> DEFINE id == Len(enviados) + 1
<1>1. /\ lista /\ id \in KeyType /\ Len(enviados) \in Nat
      /\ salida'.id = id
      /\ (salida'.pausada <=> enlace[From] = "ninguno")
      /\ canal'[From] = canal[From]
      /\ canal'[To] = IF Travels(From) /\ marcha[From]
                      THEN canal[To] \o <<Inicio(id)>> ELSE canal[To]
      /\ Inicio(id) \in MessageType
      /\ Len(enviados') = id /\ enviados'[id] = [nombre |-> nombre, llego |-> FALSE]
      /\ \A i \in 1 .. Len(enviados) : enviados'[i] = enviados[i]
      /\ UNCHANGED <<wires, cortado, receiver>>
  BY StartEffect
<1> HIDE DEF id
<1>2. Len(enviados) \in Nat /\ id = Len(enviados) + 1 /\ entrada.id \in Nat
  BY <1>1 DEF id, TypeOK, EntryType, KeyType
<1>3. In(canal'[To]) \subseteq In(canal[To]) \cup {Inicio(id)}
  <2>1. canal[To] \in Seq(MessageType)
    BY DEF TypeOK, Sides, To
  <2>3. In(canal[To] \o <<Inicio(id)>>) = In(canal[To]) \cup {Inicio(id)}
    BY <1>1, <2>1, OneMore
  <2> QED
    BY <1>1, <2>3
<1>4. UNCHANGED <<lista, enlace, viva, entrada, recibidos>>
  BY <1>1 DEF wires, receiver
<1>5. WellMade'
  <2>1. WellMade
    BY DEF Held0
  <2>2. \A x \in In(canal'[From]) : GoesBack(x)'
    BY <1>1, <1>2, <2>1 DEF WellMade, GoesBack
  <2>3. \A x \in In(canal'[To]) : GoesOut(x)'
    <3>1. \A x \in In(canal[To]) : GoesOut(x)'
      BY <1>1, <1>2, <2>1 DEF WellMade, GoesOut
    <3>2. \A x : x = Inicio(id) => GoesOut(x)'
      BY <1>1, <1>2 DEF GoesOut, Inicio
    <3> QED
      BY <1>3, <3>1, <3>2
  <2> QED
    BY <1>1, <1>2, <1>4, <2>1, <2>2, <2>3 DEF WellMade
<1>6. \A i : IsHere(i)' <=> IsHere(i)
  BY <1>4 DEF IsHere
<1>7. Truthful'
  BY <1>1, <1>4, <1>6 DEF Held0, Truthful
<1>8. SaidIsHere'
  <2> SUFFICES ASSUME NamesDiffer', NEW i \in 1 .. Len(enviados'), enviados'[i].llego
               PROVE  IsHere(i)'
    BY DEF SaidIsHere
  <2>1. NamesDiffer
    BY <1>1, <1>2 DEF NamesDiffer
  <2>2. i # id
    BY <1>1
  <2>3. i \in 1 .. Len(enviados) /\ enviados[i].llego
    BY <1>1, <1>2, <2>2
  <2> QED
    BY <1>1, <1>6, <2>1, <2>3 DEF Held0, SaidIsHere
<1>9. Linked'
  <2>1. \A s \in Sides : enlace[s] = "ninguno" => canal'[s] = <<>> /\ ~ viva
    BY <1>1 DEF Held0, Linked, Travels, Sides, From, To
  <2> QED
    BY <1>1, <1>4, <2>1 DEF Linked
<1>10. Waits'
  <2>1. enlace[From] = "ninguno" => canal'[From] = <<>>
    BY <1>1 DEF Held0, Linked, Sides, From
  <2>2. In(<<>>) = {}
    BY Singles
  <2> QED
    BY <1>1, <1>4, <2>1, <2>2 DEF Waits
<1> QED
  BY <1>5, <1>7, <1>8, <1>9, <1>10 DEF Held0

-----------------------------------------------------------------------------
\* What one block changes (`pieza`): nothing travels while the file is held back.
LEMMA PieceEffect ==
    ASSUME TypeOK, NEW ultimo \in BOOLEAN, Piece(ultimo)
    PROVE  LET block == Bloque(salida.id, salida.hechos)
               close == Archivo(salida.id, salida.hechos + 1)
           IN  /\ lista /\ Sending /\ ~ salida.llave
               /\ block \in MessageType /\ close \in MessageType
               /\ salida'.id = salida.id /\ salida'.hechos = salida.hechos + 1
               /\ salida'.desde = salida.desde /\ salida'.pausada = salida.pausada
               /\ salida'.llave = ultimo
               /\ canal'[From] = canal[From]
               /\ \/ canal'[To] = canal[To] /\ (salida.pausada \/ ~ Travels(From))
                  \/ /\ ~ salida.pausada /\ Travels(From)
                     /\ \/ canal'[To] = canal[To] \o <<block>>
                        \/ ultimo /\ canal'[To] = canal[To] \o <<block>> \o <<close>>
               /\ mudos \subseteq mudos'
               /\ UNCHANGED <<wires, enviados, cortado, receiver>>
<1> DEFINE block == Bloque(salida.id, salida.hechos)
           close == Archivo(salida.id, salida.hechos + 1)
           tail == IF ultimo THEN Olm(From, <<close>>) ELSE <<>>
           kinds == IF ultimo THEN {"archivo"} ELSE {}
<1>1. /\ salida \in OutType /\ salida.hechos \in Nat /\ salida.id \in KeyType
  BY DEF TypeOK, OutType
<1>2. block \in MessageType /\ close \in MessageType
  BY <1>1, MessageShapes
<1>3. /\ salida'.id = salida.id /\ salida'.hechos = salida.hechos + 1
      /\ salida'.desde = salida.desde /\ salida'.pausada = salida.pausada
      /\ salida'.llave = ultimo
  <2> DEFINE h == salida.hechos + 1
  <2>1. salida' = [salida EXCEPT !.hechos = h, !.llave = ultimo]
    BY DEF Piece
  <2> HIDE DEF h
  <2>2. /\ salida'.id = salida.id /\ salida'.hechos = h
        /\ salida'.desde = salida.desde /\ salida'.pausada = salida.pausada
    BY <1>1, <2>1 DEF OutType
  <2>3. salida'.llave = ultimo
    BY <1>1, <2>1 DEF OutType
  <2> QED
    BY <2>2, <2>3 DEF h
<1>4. From \in Sides /\ To \in Sides /\ From # To
  BY DEF From, To, Sides
<1>5. /\ canal'[From] = canal[From] /\ mudos \subseteq mudos'
      /\ \/ canal'[To] = canal[To] /\ (salida.pausada \/ ~ Travels(From))
         \/ /\ ~ salida.pausada /\ Travels(From)
            /\ \/ canal'[To] = canal[To] \o <<block>>
               \/ ultimo /\ canal'[To] = canal[To] \o <<block>> \o <<close>>
  <2>1. CASE salida.pausada
    <3>1. Says(From, canal[From], <<>>)
      BY <2>1 DEF Piece
    <3> QED
      BY <1>4, <2>1, <3>1, Quietly
  <2>2. CASE ~ salida.pausada
    <3>1. Sends(From, canal[From], <<block>> \o tail, kinds)
      BY <2>2 DEF Piece
    <3> HIDE DEF block, close
    <3>2. <<block>> \in Seq(MessageType) /\ <<close>> \in Seq(MessageType) /\ <<>> \in Seq(MessageType)
      BY <1>2
    <3>3. tail = <<>> \/ (ultimo /\ tail = <<close>>)
      BY DEF Olm
    <3>4. tail \in Seq(MessageType)
      BY <3>2, <3>3
    <3> HIDE DEF tail, kinds
    <3>5. <<block>> \o tail \in Seq(MessageType)
      BY <3>2, <3>4, Joins
    <3>6. /\ canal'[From] = canal[From] /\ mudos \subseteq mudos'
          /\ canal'[To] = IF Travels(From) THEN canal[To] \o (<<block>> \o tail) ELSE canal[To]
          /\ canal[To] \in Seq(MessageType)
      BY <3>1, <3>5, FromSends
    <3>7. canal[To] \o (<<block>> \o tail) = canal[To] \o <<block>> \o tail
      <4> DEFINE v == <<block>>
                 u == canal[To]
      <4>1. u \in Seq(MessageType) /\ v \in Seq(MessageType)
        BY <3>2, <3>6
      <4> HIDE DEF MessageType, u, v
      <4>2. u \o (v \o tail) = u \o v \o tail
        BY <3>4, <4>1, JoinsInTurn
      <4> QED
        BY <4>2 DEF u, v
    <3>8. <<block>> \o <<>> = <<block>>
      BY <3>2, Joins
    <3>9. CASE tail = <<>>
      BY <2>2, <3>6, <3>8, <3>9
    <3>10. CASE ultimo /\ tail = <<close>>
      BY <2>2, <3>6, <3>7, <3>10
    <3> QED
      BY <3>3, <3>9, <3>10
  <2> QED
    BY <2>1, <2>2
<1>6. lista /\ Sending /\ ~ salida.llave /\ UNCHANGED <<wires, enviados, cortado, receiver>>
  BY DEF Piece
<1> HIDE DEF block, close
<1> QED
  BY <1>2, <1>3, <1>5, <1>6 DEF block, close

\* A block that goes out is of the file that goes out.
LEMMA HeldPiece ==
    ASSUME TypeOK, Held0, NEW ultimo \in BOOLEAN, Piece(ultimo)
    PROVE  Held0'
<1> DEFINE block == Bloque(salida.id, salida.hechos)
           close == Archivo(salida.id, salida.hechos + 1)
<1>1. /\ lista /\ Sending
      /\ block \in MessageType /\ close \in MessageType
      /\ salida'.id = salida.id /\ salida'.pausada = salida.pausada
      /\ canal'[From] = canal[From]
      /\ \/ canal'[To] = canal[To] /\ (salida.pausada \/ ~ Travels(From))
         \/ /\ ~ salida.pausada /\ Travels(From)
            /\ \/ canal'[To] = canal[To] \o <<block>>
               \/ ultimo /\ canal'[To] = canal[To] \o <<block>> \o <<close>>
      /\ UNCHANGED <<wires, enviados, cortado, receiver>>
  BY PieceEffect
<1>2. salida.id \in {0, Len(enviados)} /\ salida.id # 0 /\ Len(enviados) \in Nat
  BY <1>1, Rows DEF Held0, WellMade, Sending
<1>3. GoesOut(block) /\ GoesOut(close)
  BY <1>2 DEF GoesOut, Bloque, Archivo
<1> HIDE DEF block, close
<1>4. UNCHANGED <<lista, enlace, viva, entrada, recibidos, enviados>>
  BY <1>1 DEF wires, receiver
<1>5. \A x \in In(canal'[To]) : x \in In(canal[To]) \/ GoesOut(x)
  <2>1. canal[To] \in Seq(MessageType)
    BY DEF TypeOK, Sides, To
  <2>3. /\ canal[To] \o <<block>> \in Seq(MessageType)
        /\ In(canal[To] \o <<block>>) = In(canal[To]) \cup {block}
    BY <1>1, <2>1, OneMore
  <2>4. In(canal[To] \o <<block>> \o <<close>>) = In(canal[To]) \cup {block} \cup {close}
    <3>1. \A w \in Seq(MessageType) : In(w \o <<close>>) = In(w) \cup {close}
      BY <1>1, OneMore
    <3> QED
      BY <2>3, <3>1
  <2> QED
    BY <1>1, <1>3, <2>3, <2>4
<1>6. In(canal'[From]) \subseteq In(canal[From])
  BY <1>1
<1>7. WellMade' /\ Truthful' /\ SaidIsHere'
  BY <1>1, <1>2, <1>4, <1>5, <1>6, Untouched DEF Held0
<1>8. Linked'
  <2>1. \A s \in Sides : enlace[s] = "ninguno" => canal'[s] = <<>> /\ ~ viva
    BY <1>1 DEF Held0, Linked, Travels, Sides, From, To
  <2>2. enlace[From] = "ninguno" => salida.pausada
    BY <1>1 DEF Held0, Linked
  <2> QED
    BY <1>1, <1>4, <2>1, <2>2 DEF Linked
<1>9. Waits'
  <2>1. salida'.pausada => canal'[To] = canal[To]
    BY <1>1
  <2>2. UNCHANGED LastReceived
    BY <1>4 DEF LastReceived
  <2> QED
    BY <1>1, <1>4, <2>1, <2>2 DEF Held0, Waits, Tengo
<1> QED
  BY <1>7, <1>8, <1>9 DEF Held0
-----------------------------------------------------------------------------
\* Names tell the files apart when no two have one, and "" is the name of none.
LEMMA SameName ==
    ASSUME TypeOK, NEW i \in 1 .. Len(enviados), NEW j \in 0 .. Len(enviados),
           NameOf(j) = NameOf(i)
    PROVE  j # 0 /\ (NamesDiffer => j = i)
<1>1. /\ Len(enviados) \in Nat
      /\ \A k \in 1 .. Len(enviados) : enviados[k] \in [nombre : Names, llego : BOOLEAN]
  BY Rows
<1>2. enviados[i].nombre \in Names /\ i # 0
  BY <1>1
<1>3. NameOf(i) = enviados[i].nombre
  BY <1>2 DEF NameOf
<1>4. j # 0
  <2> SUFFICES ASSUME j = 0 PROVE FALSE
    OBVIOUS
  <2>1. NameOf(i) = ""
    BY DEF NameOf
  <2>2. "" \in Names
    BY <1>2, <1>3, <2>1
  <2> QED
    BY <2>2, BoundsAssumption
<1>5. j \in 1 .. Len(enviados) /\ NameOf(j) = enviados[j].nombre
  <2>1. j \in 1 .. Len(enviados)
    BY <1>1, <1>4
  <2> QED
    BY <1>4, <2>1 DEF NameOf
<1> QED
  BY <1>3, <1>4, <1>5 DEF NamesDiffer

\* Only a file of that name is marked.
LEMMA ArrivedOnly ==
    ASSUME TypeOK, NEW nombre
    PROVE  /\ Len(Arrived(nombre)) = Len(enviados)
           /\ \A i \in 1 .. Len(enviados) :
                 /\ Arrived(nombre)[i].nombre = enviados[i].nombre
                 /\ Arrived(nombre)[i].llego => enviados[i].llego \/ enviados[i].nombre = nombre
<1>1. enviados \in Seq([nombre : Names, llego : BOOLEAN])
  BY DEF TypeOK
<1>2. /\ Len(Arrived(nombre)) = Len(enviados)
      /\ \A i \in 1 .. Len(enviados) : Arrived(nombre)[i].nombre = enviados[i].nombre
  BY <1>1, ArrivedType
<1>3. \A i \in 1 .. Len(enviados) :
         enviados[i].nombre # nombre => Arrived(nombre)[i] = enviados[i]
  BY DEF Arrived
<1> QED
  BY <1>2, <1>3

\* What goes out again is of that file.
LEMMA AgainIn ==
    ASSUME NEW q \in OutType, q.desde <= q.hechos, NEW anew \in BOOLEAN
    PROVE  \A x \in In(Again(q, anew)) :
              /\ x.id = q.id /\ x.m \in {"inicio", "bloque", "archivo"}
              /\ x.m = "inicio" => anew
              /\ x.m = "bloque" => x.n < q.hechos
              /\ x.m = "archivo" => x.n = q.hechos /\ q.llave
<1> DEFINE u == IF anew THEN Olm(From, <<Inicio(q.id)>>) ELSE <<>>
           v == [i \in 1 .. q.hechos - q.desde |-> Bloque(q.id, q.desde + i - 1)]
           w == IF q.llave THEN Olm(From, <<Archivo(q.id, q.hechos)>>) ELSE <<>>
<1>1. q.id \in KeyType /\ q.hechos \in Nat /\ q.desde \in Nat /\ q.hechos - q.desde \in Nat
  BY DEF OutType
<1>2. /\ Inicio(q.id) \in MessageType /\ Archivo(q.id, q.hechos) \in MessageType
      /\ \A i \in 1 .. q.hechos - q.desde : Bloque(q.id, q.desde + i - 1) \in MessageType
  <2>1. \A i \in 1 .. q.hechos - q.desde : q.desde + i - 1 \in Nat
    BY <1>1
  <2> QED
    BY <1>1, <2>1, MessageShapes
<1>3. \A x \in MessageType : <<x>> \in Seq(MessageType)
  <2> HIDE DEF MessageType
  <2> QED
    OBVIOUS
<1>4. u \in Seq(MessageType) /\ w \in Seq(MessageType)
  BY <1>2, <1>3 DEF Olm
<1>5. v \in Seq(MessageType) /\ Len(v) = q.hechos - q.desde
  BY <1>1, <1>2
<1>6. \A x \in In(u) : x = Inicio(q.id) /\ anew
  BY Singles DEF Olm
<1>7. \A x \in In(w) : x = Archivo(q.id, q.hechos) /\ q.llave
  BY Singles DEF Olm
<1>8. \A x \in In(v) : x.id = q.id /\ x.m = "bloque" /\ x.n < q.hechos
  <2>1. \A i \in 1 .. q.hechos - q.desde :
           v[i] = Bloque(q.id, q.desde + i - 1) /\ q.desde + i - 1 < q.hechos
    BY <1>1
  <2> HIDE DEF v
  <2>2. \A x \in In(v) : \E i \in 1 .. q.hechos - q.desde : x = v[i]
    BY <1>5 DEF In
  <2>3. ASSUME NEW x \in In(v) PROVE x.id = q.id /\ x.m = "bloque" /\ x.n < q.hechos
    <3>1. PICK i \in 1 .. q.hechos - q.desde : x = v[i]
      BY <2>2
    <3>2. x = Bloque(q.id, q.desde + i - 1) /\ q.desde + i - 1 < q.hechos
      BY <2>1, <3>1
    <3> QED
      BY <3>2 DEF Bloque
  <2> QED
    BY <2>3
<1>9. Again(q, anew) = u \o v \o w
  BY DEF Again
<1> HIDE DEF u, v, w
<1> DEFINE uv == u \o v
<1>10. uv \in Seq(MessageType) /\ In(uv) = In(u) \cup In(v)
  BY <1>4, <1>5, Joins
<1>11. Again(q, anew) = uv \o w
  BY <1>9
<1> HIDE DEF uv
<1>12. In(Again(q, anew)) = In(u) \cup In(v) \cup In(w)
  <2>1. In(uv \o w) = In(uv) \cup In(w)
    BY <1>4, <1>10, Joins
  <2> QED
    BY <1>10, <1>11, <2>1
<1> QED
  BY <1>6, <1>7, <1>8, <1>12 DEF Inicio, Archivo

-----------------------------------------------------------------------------
\* What the side that sends makes of a `tengo` (archivo_tengo): nothing, or it lets go of what
\* is there; the file that was held back got there, is given up, or goes on.
Lets(q) ==
    /\ UNCHANGED <<enviados, cortado>> /\ canal'[To] = canal[To]
    /\ \/ salida' = salida
       \/ /\ Sending /\ ~ salida.pausada /\ NameOf(q.id) = NameOf(salida.id)
          /\ salida' = LetGo(salida, q.n)

ItIsThere(q) ==
    /\ Sending /\ salida.pausada /\ NameOf(q.id) # NameOf(salida.id) /\ SaysWhole(q)
    /\ enviados' = Arrived(NameOf(salida.id)) /\ salida' = NoFile
    /\ UNCHANGED cortado /\ canal'[To] = canal[To]

Lacks(q) == IF NameOf(q.id) = NameOf(salida.id) THEN q.n ELSE 0

GivesUp(q) ==
    /\ Sending /\ salida.pausada /\ (NameOf(q.id) = NameOf(salida.id) \/ ~ SaysWhole(q))
    /\ LetGo(salida, Lacks(q)).desde # Lacks(q)
    /\ salida' = NoFile /\ UNCHANGED enviados /\ canal'[To] = canal[To]

GoesOn(q) ==
    LET left == LetGo(salida, Lacks(q))
        anew == NameOf(q.id) # NameOf(salida.id)
    IN  /\ Sending /\ salida.pausada /\ (NameOf(q.id) = NameOf(salida.id) \/ ~ SaysWhole(q))
        /\ left.desde = Lacks(q)
        /\ salida' = [left EXCEPT !.pausada = FALSE]
        /\ UNCHANGED <<enviados, cortado>>
        /\ Again(left, anew) \in Seq(MessageType)
        /\ canal'[To] = IF Travels(From) THEN canal[To] \o Again(left, anew) ELSE canal[To]
        /\ ~ marcha[From] /\ anew => "inicio" \in mudos'

\* The four things a confirmation does, by name.
LEMMA TengoEffect ==
    ASSUME TypeOK, ReadTengo
    PROVE  LET q == Message(From)
           IN  /\ Hears(From) /\ q.m = "tengo"
               /\ canal'[From] = Tail(canal[From]) /\ UNCHANGED <<wires, receiver>>
               /\ mudos \subseteq mudos'
               /\ Lets(q) \/ ItIsThere(q) \/ GivesUp(q) \/ GoesOn(q)
<1> DEFINE q == Message(From)
           same == NameOf(q.id) = NameOf(salida.id)
           left == LetGo(salida, Lacks(q))
<1>1. Hears(From) /\ q.m = "tengo" /\ UNCHANGED <<wires, receiver>>
  BY DEF ReadTengo
<1>2. From \in Sides /\ To \in Sides /\ From # To
  BY DEF From, To, Sides
<1>3. JustReads(From) => /\ canal'[From] = Tail(canal[From]) /\ canal'[To] = canal[To]
                         /\ mudos \subseteq mudos'
  BY <1>2, Quietly DEF JustReads
<1>4. Lacks(q) \in Nat /\ (same => Lacks(q) = q.n)
  <2>1. q \in MessageType
    BY <1>1, <1>2, Heard
  <2> QED
    BY <2>1 DEF MessageType, Lacks
<1>5. CASE JustReads(From) /\ UNCHANGED sender
  BY <1>1, <1>3, <1>5 DEF sender, Lets
<1>6. CASE /\ Sending /\ same /\ ~ salida.pausada
           /\ salida' = left /\ JustReads(From) /\ UNCHANGED <<enviados, envio, cortado>>
  BY <1>1, <1>3, <1>4, <1>6 DEF Lets
<1>7. CASE /\ Sending /\ salida.pausada /\ ~ same /\ SaysWhole(q)
           /\ enviados' = Arrived(NameOf(salida.id))
           /\ salida' = NoFile /\ JustReads(From) /\ UNCHANGED cortado
  BY <1>1, <1>3, <1>7 DEF ItIsThere
<1>8. CASE /\ Sending /\ salida.pausada /\ (same \/ ~ SaysWhole(q))
           /\ left.desde # Lacks(q)
           /\ salida' = NoFile /\ JustReads(From) /\ UNCHANGED enviados
  BY <1>1, <1>3, <1>8 DEF GivesUp
<1>9. CASE /\ Sending /\ salida.pausada /\ (same \/ ~ SaysWhole(q))
           /\ left.desde = Lacks(q)
           /\ salida' = [left EXCEPT !.pausada = FALSE]
           /\ Sends(From, Tail(canal[From]), Again(left, ~ same), SaidAgain(left, ~ same))
           /\ UNCHANGED <<enviados, cortado>>
  <2>1. /\ left \in OutType /\ left.desde <= left.hechos
    <3>1. salida \in OutType /\ salida.desde <= salida.hechos
      BY DEF TypeOK
    <3> QED
      BY <1>4, <3>1, LetGoType
  <2>2. (~ same) \in BOOLEAN
    OBVIOUS
  <2>3. Again(left, ~ same) \in Seq(MessageType)
    <3> HIDE DEF left, same
    <3> QED
      BY <2>1, <2>2, AgainType
  <2>4. /\ canal'[From] = Tail(canal[From]) /\ mudos \subseteq mudos'
        /\ canal'[To] = IF Travels(From) THEN canal[To] \o Again(left, ~ same) ELSE canal[To]
    <3> HIDE DEF left, same
    <3> QED
      BY <1>9, <2>3, FromSends
  <2>5. ~ marcha[From] /\ ~ same => "inicio" \in mudos'
    BY <1>9 DEF Sends, SaidAgain
  <2> QED
    BY <1>1, <1>9, <2>3, <2>4, <2>5 DEF GoesOn
<1> QED
  BY <1>5, <1>6, <1>7, <1>8, <1>9 DEF ReadTengo, Lacks
-----------------------------------------------------------------------------
\* A row is marked only when the file it names is there (archivo_tengo and archivo_ok).
LEMMA MarkKeeps ==
    ASSUME TypeOK, SaidIsHere, lista, NEW i \in 1 .. Len(enviados), IsHere(i),
           enviados' = Arrived(NameOf(i)), UNCHANGED <<lista, recibidos>>
    PROVE  SaidIsHere'
<1>1. /\ Len(enviados') = Len(enviados)
      /\ \A k \in 1 .. Len(enviados) :
            /\ enviados'[k].nombre = enviados[k].nombre
            /\ enviados'[k].llego => enviados[k].llego \/ enviados[k].nombre = NameOf(i)
  BY ArrivedOnly
<1> SUFFICES ASSUME NamesDiffer', NEW k \in 1 .. Len(enviados'), enviados'[k].llego
             PROVE  IsHere(k)'
  BY DEF SaidIsHere
<1>2. NamesDiffer
  BY <1>1 DEF NamesDiffer
<1>3. IsHere(k)' <=> IsHere(k)
  BY DEF IsHere
<1>4. k \in 1 .. Len(enviados) /\ Len(enviados) \in Nat
  BY <1>1, Rows
<1>5. CASE enviados[k].llego
  BY <1>2, <1>3, <1>4, <1>5 DEF SaidIsHere
<1>6. CASE enviados[k].nombre = NameOf(i)
  <2>1. NameOf(k) = NameOf(i)
    <3>1. k # 0
      BY <1>4
    <3>2. NameOf(k) = enviados[k].nombre
      BY <3>1 DEF NameOf
    <3> QED
      BY <1>6, <3>2
  <2>2. k = i
    BY <1>2, <1>4, <2>1, SameName
  <2> QED
    BY <1>3, <2>2
<1> QED
  BY <1>1, <1>4, <1>5, <1>6

\* Without two files of one name a row is marked only for that file; with them nothing is said.
LEMMA MarkDouble ==
    ASSUME TypeOK, NEW nombre, ~ NamesDiffer, enviados' = Arrived(nombre)
    PROVE  ~ NamesDiffer'
<1>1. /\ Len(enviados') = Len(enviados)
      /\ \A k \in 1 .. Len(enviados) : enviados'[k].nombre = enviados[k].nombre
  BY ArrivedOnly
<1> QED
  BY <1>1 DEF NamesDiffer

\* A link that is looked for stays empty while only the sides that hear send.
LEMMA HeardLink ==
    ASSUME TypeOK, Linked, NEW s \in Sides, Hears(s),
           UNCHANGED <<lista, enlace, viva>>,
           canal'[s] = Tail(canal[s]),
           \A x \in Sides : x # s /\ ~ viva => canal'[x] = canal[x]
    PROVE  \A x \in Sides : enlace'[x] = "ninguno" => canal'[x] = <<>> /\ ~ viva'
<1>1. enlace[s] = "vivo" /\ lista
  BY Heard
<1> QED
  BY <1>1 DEF Linked

\* A confirmation marks a file only when it is there.
LEMMA HeldTengo == TypeOK /\ Held0 /\ ReadTengo => Held0'
<1> SUFFICES ASSUME TypeOK, Held0, ReadTengo PROVE Held0'
  OBVIOUS
<1> DEFINE q == Message(From)
<1>1. /\ Hears(From) /\ q.m = "tengo"
      /\ canal'[From] = Tail(canal[From]) /\ UNCHANGED <<wires, receiver>>
      /\ Lets(q) \/ ItIsThere(q) \/ GivesUp(q) \/ GoesOn(q)
  BY TengoEffect
<1>2. From \in Sides /\ To \in Sides /\ Sides = {From, To}
  BY DEF From, To, Sides
<1>3. /\ lista /\ enlace[From] = "vivo" /\ q \in MessageType /\ q \in In(canal[From])
      /\ In(Tail(canal[From])) \subseteq In(canal[From])
  BY <1>1, <1>2, Heard
<1> HIDE DEF q
<1>4. UNCHANGED <<lista, enlace, viva, entrada, recibidos>>
  BY <1>1 DEF wires, receiver
<1>5. UNCHANGED LastReceived /\ \A i : IsHere(i)' <=> IsHere(i)
  BY <1>4 DEF LastReceived, IsHere
<1>6. WellMade /\ Truthful /\ SaidIsHere /\ Linked /\ Waits
  BY DEF Held0
<1>7. salida.id \in {0, Len(enviados)} /\ Len(enviados) \in Nat
  BY <1>6, Rows DEF WellMade
<1>8. In(canal'[From]) \subseteq In(canal[From])
  BY <1>1, <1>3
<1>9. canal[To] \in Seq(MessageType) /\ salida \in OutType /\ salida.desde <= salida.hechos
  BY <1>2 DEF TypeOK
<1>10. q.n \in Nat /\ Lacks(q) \in Nat
  BY <1>3 DEF MessageType, Lacks
<1>11. salida'.id \in {0, Len(enviados)} /\ (salida'.pausada => salida.pausada)
  <2>1. CASE salida' = salida
    BY <1>7, <2>1
  <2>2. CASE salida' = LetGo(salida, q.n)
    <3>1. salida'.id = salida.id /\ salida'.pausada = salida.pausada
      BY <1>9, <1>10, <2>2, LetGoType
    <3> QED
      BY <1>7, <3>1
  <2>3. CASE salida' = NoFile
    <3>1. salida'.id = 0 /\ salida'.pausada = FALSE
      BY <2>3 DEF NoFile
    <3> QED
      BY <3>1
  <2>4. CASE GoesOn(q)
    <3>1. LetGo(salida, Lacks(q)) \in OutType /\ LetGo(salida, Lacks(q)).id = salida.id
      BY <1>9, <1>10, LetGoType
    <3>2. salida' = [LetGo(salida, Lacks(q)) EXCEPT !.pausada = FALSE]
      BY <2>4 DEF GoesOn
    <3> DEFINE left == LetGo(salida, Lacks(q))
    <3> HIDE DEF left
    <3>3. left \in OutType /\ left.id = salida.id /\ salida' = [left EXCEPT !.pausada = FALSE]
      BY <3>1, <3>2 DEF left
    <3>4. salida'.id = left.id /\ salida'.pausada = FALSE
      BY <3>3 DEF OutType
    <3> QED
      BY <1>7, <3>3, <3>4
  <2> QED
    BY <1>1, <2>1, <2>2, <2>3, <2>4 DEF Lets, ItIsThere, GivesUp
<1>12. /\ \A x \in In(canal'[To]) : x \in In(canal[To]) \/ GoesOut(x)
       /\ ~ viva \/ salida'.pausada => canal'[To] = canal[To]
  <2>1. CASE canal'[To] = canal[To]
    BY <2>1
  <2>2. CASE GoesOn(q)
    <3> DEFINE left == LetGo(salida, Lacks(q))
               anew == NameOf(q.id) # NameOf(salida.id)
    <3>1. /\ left \in OutType /\ left.desde <= left.hechos /\ left.id = salida.id
          /\ anew \in BOOLEAN
      BY <1>9, <1>10, LetGoType
    <3>2. salida.id \in 1 .. Len(enviados)
      BY <1>7, <2>2 DEF GoesOn, Sending
    <3>3. /\ Again(left, anew) \in Seq(MessageType)
          /\ canal'[To] = IF Travels(From) THEN canal[To] \o Again(left, anew) ELSE canal[To]
          /\ salida' = [left EXCEPT !.pausada = FALSE]
      BY <2>2 DEF GoesOn
    <3> HIDE DEF left, anew
    <3>4. salida'.pausada = FALSE
      BY <3>1, <3>3 DEF OutType
    <3>5. \A x \in In(Again(left, anew)) : GoesOut(x)
      BY <3>1, <3>2, AgainIn DEF GoesOut
    <3>6. In(canal[To] \o Again(left, anew)) = In(canal[To]) \cup In(Again(left, anew))
      BY <1>9, <3>3, Joins
    <3> QED
      BY <3>3, <3>4, <3>5, <3>6 DEF Travels
  <2> QED
    BY <1>1, <2>1, <2>2 DEF Lets, ItIsThere, GivesUp
<1>13. WellMade' /\ Truthful' /\ SaidIsHere'
  <2>1. CASE UNCHANGED enviados
    BY <1>4, <1>6, <1>8, <1>11, <1>12, <2>1, Untouched
  <2>2. CASE ItIsThere(q)
    <3>1. enviados' = Arrived(NameOf(salida.id)) /\ Len(enviados') = Len(enviados)
      BY <2>2, ArrivedOnly DEF ItIsThere
    <3>2. \A x : (GoesBack(x)' <=> GoesBack(x)) /\ (GoesOut(x)' <=> GoesOut(x))
      BY <3>1 DEF GoesBack, GoesOut
    <3>3. WellMade'
      BY <1>4, <1>6, <1>8, <1>11, <1>12, <3>1, <3>2 DEF WellMade
    <3>4. Truthful'
      BY <1>4, <1>5, <1>6, <1>8 DEF Truthful
    <3>5. SaidIsHere'
      <4>1. /\ salida.id \in 1 .. Len(enviados) /\ q.ultimo \in 0 .. Len(enviados)
            /\ NameOf(q.ultimo) = NameOf(salida.id)
        BY <1>1, <1>3, <1>6, <1>7, <2>2 DEF ItIsThere, Sending, SaysWhole, WellMade, GoesBack
      <4>2. q.ultimo # 0 /\ (NamesDiffer => q.ultimo = salida.id)
        BY <4>1, SameName
      <4>3. IsHere(q.ultimo)
        BY <1>1, <1>3, <1>6, <4>2 DEF Truthful
      <4>4. CASE NamesDiffer
        <5>1. IsHere(salida.id)
          BY <4>2, <4>3, <4>4
        <5> QED
          BY <1>3, <1>4, <1>6, <3>1, <4>1, <5>1, MarkKeeps
      <4>5. CASE ~ NamesDiffer
        BY <3>1, <4>5, MarkDouble DEF SaidIsHere
      <4> QED
        BY <4>4, <4>5
    <3> QED
      BY <3>3, <3>4, <3>5
  <2> QED
    BY <1>1, <2>1, <2>2 DEF Lets, GivesUp, GoesOn
<1>14. Linked'
  <2>1. \A x \in Sides : enlace'[x] = "ninguno" => canal'[x] = <<>> /\ ~ viva'
    <3>1. \A x \in Sides : x # From /\ ~ viva => canal'[x] = canal[x]
      BY <1>2, <1>12
    <3> QED
      BY <1>1, <1>2, <1>4, <1>6, <3>1, HeardLink
  <2> QED
    BY <1>3, <1>4, <2>1 DEF Linked
<1>15. Waits'
  BY <1>3, <1>4, <1>5, <1>6, <1>8, <1>11, <1>12 DEF Waits, Tengo
<1> QED
  BY <1>13, <1>14, <1>15 DEF Held0

\* The confirmation that a file is there (archivo_ok).
LEMMA OkEffect ==
    ASSUME TypeOK, ReadOk
    PROVE  LET q == Message(From)
           IN  /\ Hears(From) /\ q.m = "ok"
               /\ canal'[From] = Tail(canal[From]) /\ canal'[To] = canal[To]
               /\ enviados' = Arrived(NameOf(q.id))
               /\ salida' = NoFile \/ salida' = salida
               /\ mudos \subseteq mudos'
               /\ UNCHANGED <<wires, envio, cortado, receiver>>
<1>1. From \in Sides /\ To \in Sides /\ From # To
  BY DEF From, To, Sides
<1>2. JustReads(From)
  BY DEF ReadOk
<1>3. canal'[From] = Tail(canal[From]) /\ canal'[To] = canal[To] /\ mudos \subseteq mudos'
  BY <1>1, <1>2, Quietly DEF JustReads
<1> QED
  BY <1>3 DEF ReadOk

\* So does an «it is here».
LEMMA HeldOk == TypeOK /\ Held0 /\ ReadOk => Held0'
<1> SUFFICES ASSUME TypeOK, Held0, ReadOk PROVE Held0'
  OBVIOUS
<1> DEFINE q == Message(From)
<1>1. /\ Hears(From) /\ q.m = "ok"
      /\ canal'[From] = Tail(canal[From]) /\ canal'[To] = canal[To]
      /\ enviados' = Arrived(NameOf(q.id))
      /\ salida' = NoFile \/ salida' = salida
      /\ UNCHANGED <<wires, envio, cortado, receiver>>
  BY OkEffect
<1>2. From \in Sides /\ To \in Sides /\ Sides = {From, To}
  BY DEF From, To, Sides
<1>3. /\ lista /\ enlace[From] = "vivo" /\ q \in MessageType /\ q \in In(canal[From])
      /\ In(Tail(canal[From])) \subseteq In(canal[From])
  BY <1>1, <1>2, Heard
<1> HIDE DEF q
<1>4. UNCHANGED <<lista, enlace, viva, entrada, recibidos>>
  BY <1>1 DEF wires, receiver
<1>5. UNCHANGED LastReceived /\ \A i : IsHere(i)' <=> IsHere(i)
  BY <1>4 DEF LastReceived, IsHere
<1>6. WellMade /\ Truthful /\ SaidIsHere /\ Linked /\ Waits
  BY DEF Held0
<1>7. In(canal'[From]) \subseteq In(canal[From])
  BY <1>1, <1>3
<1>8. Len(enviados') = Len(enviados) /\ Len(enviados) \in Nat
  BY <1>1, ArrivedOnly, Rows
<1>9. /\ salida'.id \in {0, Len(enviados)} /\ (salida'.pausada => salida.pausada)
  BY <1>1, <1>6 DEF WellMade, NoFile
<1>10. \A x : (GoesBack(x)' <=> GoesBack(x)) /\ (GoesOut(x)' <=> GoesOut(x))
  BY <1>8 DEF GoesBack, GoesOut
<1>11. WellMade'
  BY <1>1, <1>4, <1>6, <1>7, <1>8, <1>9, <1>10 DEF WellMade
<1>12. Truthful'
  BY <1>4, <1>5, <1>6, <1>7 DEF Truthful
<1>13. SaidIsHere'
  <2>1. q.id \in 1 .. Len(enviados) /\ IsHere(q.id)
    BY <1>1, <1>3, <1>6 DEF WellMade, GoesBack, Truthful
  <2> QED
    BY <1>1, <1>3, <1>4, <1>6, <2>1, MarkKeeps
<1>14. Linked'
  <2>1. \A x \in Sides : enlace'[x] = "ninguno" => canal'[x] = <<>> /\ ~ viva'
    BY <1>1, <1>2, <1>4, <1>6, HeardLink
  <2> QED
    BY <1>3, <1>4, <2>1 DEF Linked
<1>15. Waits'
  BY <1>1, <1>3, <1>4, <1>5, <1>6, <1>7, <1>9 DEF Waits, Tengo
<1> QED
  BY <1>11, <1>12, <1>13, <1>14, <1>15 DEF Held0
-----------------------------------------------------------------------------
\* What emptying an entry of its blocks comes to: the end of the conversation, the file whole
\* or refused, the entry that goes on, or a disk that filled.
Whole(after) ==
    /\ after.sigue >= 0 /\ Complete(after) /\ after.de = after.id
    /\ entrada' = NoEntry /\ recibidos' = Append(recibidos, after.id)
    /\ Ok(after.id) \in MessageType
    /\ canal'[From] = IF Travels(To) /\ marcha[To]
                      THEN canal[From] \o <<Ok(after.id)>> ELSE canal[From]
    /\ UNCHANGED <<count, alarma>>

Refused(after) ==
    /\ after.sigue >= 0 /\ Complete(after) /\ after.de # after.id
    /\ entrada' = NoEntry /\ canal'[From] = canal[From]
    /\ UNCHANGED <<count, recibidos, alarma>>

Continues(after) ==
    /\ after.sigue >= 0 /\ ~ Complete(after)
    /\ entrada' = after
    /\ \/ canal'[From] = canal[From]
       \/ \E k \in Nat :
             /\ k <= after.sigue /\ Travels(To)
             /\ Tengo(after.id, k, 0) \in MessageType
             /\ canal'[From] = canal[From] \o <<Tengo(after.id, k, 0)>>
    /\ UNCHANGED <<count, recibidos, alarma>>

DiskFull ==
    /\ entrada' = NoEntry /\ canal'[From] = canal[From]
    /\ count' = [count EXCEPT !.full = @ + 1]
    /\ UNCHANGED <<recibidos, alarma>>

\* What follows of the blocks that were taken, by name.
LEMMA EmptiesEffect ==
    ASSUME TypeOK, NEW e \in EntryType, Empties(e)
    PROVE  \/ Taken(e).sigue < 0 /\ alarma' = TRUE /\ Ends
           \/ /\ canal'[To] = Tail(canal[To]) /\ mudos \subseteq mudos'
              /\ UNCHANGED <<lista, enlace, viva, marcha, sender>>
              /\ Whole(Taken(e)) \/ Refused(Taken(e)) \/ Continues(Taken(e)) \/ DiskFull
<1> DEFINE after == Taken(e)
           steps == Confirms(e, after)
           last == CHOOSE k \in steps : \A l \in steps : l <= k
           ms == IF steps = {} THEN <<>> ELSE <<Tengo(after.id, last, 0)>>
<1>1. SameFile(after, e)
  BY TakenKeeps
<1>2. From \in Sides /\ To \in Sides /\ From # To
  BY DEF From, To, Sides
<1>3. JustReads(To) => /\ canal'[To] = Tail(canal[To]) /\ canal'[From] = canal[From]
                       /\ mudos \subseteq mudos'
  BY <1>2, Quietly DEF JustReads
<1>4. after.id \in KeyType /\ 0 \in KeyType
  <2>1. MaxFiles \in Nat
    BY BoundsAssumption
  <2> QED
    BY <1>1, <2>1 DEF SameFile, TakenType, KeyType
<1>5. CASE after.sigue < 0 /\ alarma' = TRUE /\ Ends
  BY <1>5
<1>6. CASE /\ after.sigue >= 0 /\ Complete(after)
           /\ entrada' = NoEntry
           /\ IF after.de = after.id
              THEN /\ recibidos' = Append(recibidos, after.id)
                   /\ Says(To, Tail(canal[To]), <<Ok(after.id)>>)
              ELSE /\ JustReads(To) /\ UNCHANGED recibidos
           /\ UNCHANGED <<wires, sender, alarma>>
  <2>1. UNCHANGED <<lista, enlace, viva, marcha, count, sender, alarma>>
    BY <1>6 DEF wires
  <2>2. CASE after.de = after.id
    <3> DEFINE x == Ok(after.id)
    <3>1. x \in MessageType
      BY <1>4, MessageShapes
    <3>2. Says(To, Tail(canal[To]), <<x>>)
      BY <1>6, <2>2
    <3> HIDE DEF x
    <3>3. /\ canal'[To] = Tail(canal[To]) /\ mudos \subseteq mudos'
          /\ canal'[From] = IF Travels(To) /\ marcha[To] THEN canal[From] \o <<x>> ELSE canal[From]
      BY <3>1, <3>2, SaysOneTo
    <3> QED
      BY <1>6, <2>1, <2>2, <3>1, <3>3 DEF Whole, x
  <2>3. CASE after.de # after.id
    BY <1>3, <1>6, <2>1, <2>3 DEF Refused
  <2> QED
    BY <2>2, <2>3
<1>7. CASE /\ after.sigue >= 0 /\ ~ Complete(after)
           /\ entrada' = after
           /\ Says(To, Tail(canal[To]), ms)
           /\ UNCHANGED <<wires, sender, recibidos, alarma>>
  <2>1. UNCHANGED <<lista, enlace, viva, marcha, count, sender, alarma, recibidos>>
    BY <1>7 DEF wires
  <2>2. CASE steps = {}
    <3>1. JustReads(To)
      BY <1>7, <2>2 DEF JustReads
    <3> QED
      BY <1>3, <1>7, <2>1, <3>1 DEF Continues
  <2>3. CASE steps # {}
    <3> DEFINE x == Tengo(after.id, last, 0)
    <3>1. e.sigue \in Nat /\ after.sigue \in Nat
      BY <1>1, <1>7 DEF SameFile, TakenType, EntryType
    <3>2. last \in Nat /\ last <= after.sigue
      BY <2>3, <3>1, LastOfSteps
    <3>3. Says(To, Tail(canal[To]), <<x>>)
      BY <1>7, <2>3
    <3> HIDE DEF last
    <3>4. x \in MessageType
      BY <1>4, <3>2, MessageShapes
    <3> HIDE DEF x
    <3>5. /\ canal'[To] = Tail(canal[To]) /\ mudos \subseteq mudos'
          /\ canal'[From] = IF Travels(To) /\ marcha[To] THEN canal[From] \o <<x>> ELSE canal[From]
      BY <3>3, <3>4, SaysOneTo
    <3>6. Continues(after)
      BY <1>7, <2>1, <3>2, <3>4, <3>5 DEF Continues, x
    <3> QED
      BY <2>1, <3>5, <3>6
  <2> QED
    BY <2>2, <2>3
<1>8. CASE /\ Writes(e) /\ Faults < MaxFaults
           /\ entrada' = NoEntry
           /\ count' = [count EXCEPT !.full = @ + 1]
           /\ JustReads(To)
           /\ UNCHANGED <<lista, enlace, viva, marcha, sender, recibidos, alarma>>
  BY <1>3, <1>8 DEF DiskFull
<1> QED
  BY <1>5, <1>6, <1>7, <1>8 DEF Empties

\* Whatever the side that receives makes of a message, it says only what is so.
LEMMA HeldReceives ==
    ASSUME TypeOK, Held0, Hears(To),
           canal'[To] = Tail(canal[To]),
           UNCHANGED <<lista, enlace, viva, sender>>,
           entrada'.id <= Len(enviados),
           \/ recibidos' = recibidos
           \/ \E i \in 1 .. Len(enviados) : recibidos' = Append(recibidos, i),
           \/ canal'[From] = canal[From]
           \/ viva /\ \E x \in MessageType :
                 /\ canal'[From] = canal[From] \o <<x>>
                 /\ GoesBack(x) /\ (x.m = "ok" => IsHere(x.id)') /\ (x.m = "tengo" => x.ultimo = 0)
    PROVE  Held0'
<1>1. From \in Sides /\ To \in Sides /\ Sides = {From, To} /\ From # To
  BY DEF From, To, Sides
<1>2. /\ lista /\ enlace[To] = "vivo" /\ canal[To] # <<>>
      /\ In(Tail(canal[To])) \subseteq In(canal[To])
  BY <1>1, Heard
<1>3. UNCHANGED <<enviados, salida, cortado>>
  BY DEF sender
<1>4. WellMade /\ Truthful /\ SaidIsHere /\ Linked /\ Waits
  BY DEF Held0
<1>5. canal[From] \in Seq(MessageType) /\ recibidos \in Seq(KeyType) /\ Len(enviados) \in Nat
  BY <1>1, Rows DEF TypeOK
<1>6. \A i : IsHere(i) => IsHere(i)'
  BY HereStays
<1>7. \A x : (GoesBack(x)' <=> GoesBack(x)) /\ (GoesOut(x)' <=> GoesOut(x))
  BY <1>3 DEF GoesBack, GoesOut
<1>8. \A x \in In(canal'[From]) :
         \/ x \in In(canal[From])
         \/ GoesBack(x) /\ (x.m = "ok" => IsHere(x.id)') /\ (x.m = "tengo" => x.ultimo = 0)
  <2>1. CASE canal'[From] = canal[From]
    BY <2>1
  <2>2. ASSUME NEW x \in MessageType, canal'[From] = canal[From] \o <<x>>
        PROVE  In(canal'[From]) = In(canal[From]) \cup {x}
    BY <1>5, <2>2, OneMore
  <2> QED
    BY <2>1, <2>2
<1>9. \A i \in In(recibidos') : i \in 1 .. Len(enviados)
  <2>1. CASE recibidos' = recibidos
    BY <1>4, <2>1 DEF WellMade
  <2>2. ASSUME NEW i \in 1 .. Len(enviados), recibidos' = Append(recibidos, i)
        PROVE  In(recibidos') \subseteq In(recibidos) \cup {i}
    <3>1. \A k \in 1 .. Len(recibidos') :
             recibidos'[k] = i \/ (k \in 1 .. Len(recibidos) /\ recibidos'[k] = recibidos[k])
      <4> HIDE DEF KeyType
      <4> QED
        BY <1>5, <2>2
    <3> QED
      BY <3>1 DEF In
  <2> QED
    BY <1>4, <2>1, <2>2 DEF WellMade
<1>10. WellMade'
  <2>1. \A x \in In(canal'[From]) : GoesBack(x)'
    BY <1>4, <1>7, <1>8 DEF WellMade
  <2>2. \A x \in In(canal'[To]) : GoesOut(x)'
    BY <1>2, <1>4, <1>7 DEF WellMade
  <2> QED
    BY <1>3, <1>4, <1>9, <2>1, <2>2 DEF WellMade
<1>11. Truthful'
  <2>1. ASSUME NEW x \in In(canal'[From])
        PROVE  /\ x.m = "ok" => IsHere(x.id)'
               /\ x.m = "tengo" /\ x.ultimo # 0 => IsHere(x.ultimo)'
    <3>1. CASE x \in In(canal[From])
      BY <1>2, <1>4, <1>6, <3>1 DEF Truthful
    <3> QED
      BY <1>8, <2>1, <3>1
  <2> QED
    BY <2>1 DEF Truthful
<1>12. SaidIsHere'
  <2>1. NamesDiffer' <=> NamesDiffer
    BY <1>3 DEF NamesDiffer
  <2> QED
    BY <1>2, <1>3, <1>4, <1>6, <2>1 DEF SaidIsHere
<1>13. Linked'
  <2>1. \A x \in Sides : enlace'[x] = "ninguno" => canal'[x] = <<>> /\ ~ viva'
    <3>1. \A x \in Sides : x # To /\ ~ viva => canal'[x] = canal[x]
      BY <1>1
    <3> QED
      BY <1>1, <1>4, <3>1, HeardLink
  <2> QED
    BY <1>2, <1>3, <1>4, <2>1 DEF Linked, Sending
<1>14. Waits'
  <2> SUFFICES ASSUME salida.pausada
               PROVE  canal'[From] = <<>> /\ enlace[From] = "ninguno"
    <3>1. In(<<>>) = {}
      BY Singles
    <3> QED
      BY <1>3, <3>1 DEF Waits
  <2>1. enlace[From] = "ninguno"
    BY <1>2, <1>4 DEF Waits
  <2>2. canal[From] = <<>> /\ ~ viva
    BY <1>1, <1>2, <1>4, <2>1 DEF Linked
  <2> QED
    BY <2>1, <2>2
<1> QED
  BY <1>10, <1>11, <1>12, <1>13, <1>14 DEF Held0
-----------------------------------------------------------------------------
\* Blocks that are taken are of a file the sender started.
LEMMA HeldEmpties ==
    ASSUME TypeOK, Held0, Hears(To), NEW e \in EntryType, e.id <= Len(enviados), Empties(e)
    PROVE  Held0'
<1> DEFINE after == Taken(e)
<1>1. SameFile(after, e)
  BY TakenKeeps
<1>2. \/ after.sigue < 0 /\ alarma' = TRUE /\ Ends
      \/ /\ canal'[To] = Tail(canal[To]) /\ mudos \subseteq mudos'
         /\ UNCHANGED <<lista, enlace, viva, marcha, sender>>
         /\ Whole(after) \/ Refused(after) \/ Continues(after) \/ DiskFull
  BY EmptiesEffect
<1> HIDE DEF after
<1>3. after.id = e.id /\ after.id \in Nat /\ Len(enviados) \in Nat
  BY <1>1, Rows DEF SameFile, TakenType, KeyType
<1>4. CASE Ends
  BY <1>4, HeldEnds
<1> SUFFICES ASSUME /\ canal'[To] = Tail(canal[To])
                    /\ UNCHANGED <<lista, enlace, viva, marcha, sender>>
                    /\ Whole(after) \/ Refused(after) \/ Continues(after) \/ DiskFull
             PROVE  Held0'
  BY <1>2, <1>4
<1>5. NoEntry.id <= Len(enviados)
  BY <1>3 DEF NoEntry
<1>6. CASE Whole(after)
  <2> DEFINE x == Ok(after.id)
  <2>1. /\ after.id # 0
        /\ entrada' = NoEntry /\ recibidos' = Append(recibidos, after.id)
        /\ x \in MessageType
        /\ canal'[From] = IF Travels(To) /\ marcha[To]
                          THEN canal[From] \o <<x>> ELSE canal[From]
    BY <1>6 DEF Whole, Complete, Opens
  <2>2. after.id \in 1 .. Len(enviados)
    BY <1>3, <2>1
  <2>3. GoesBack(x) /\ x.id = after.id /\ x.m = "ok"
    BY <2>2 DEF GoesBack, Ok
  <2>4. IsHere(after.id)'
    <3>1. recibidos \in Seq(KeyType) /\ after.id \in KeyType
      BY <1>1 DEF TypeOK, SameFile, TakenType
    <3>2. recibidos'[Len(recibidos) + 1] = after.id /\ Len(recibidos') = Len(recibidos) + 1
          /\ Len(recibidos) \in Nat
      <4> HIDE DEF KeyType
      <4> QED
        BY <2>1, <3>1
    <3>3. Len(recibidos) + 1 \in 1 .. Len(recibidos')
      BY <3>2
    <3> QED
      BY <3>2, <3>3 DEF IsHere
  <2>5. IsHere(x.id)'
    <3>1. \A i : i = after.id => IsHere(i)'
      BY <2>4
    <3> QED
      BY <2>3, <2>4, <3>1
  <2> HIDE DEF x
  <2>6. \/ canal'[From] = canal[From]
        \/ viva /\ \E y \in MessageType :
              /\ canal'[From] = canal[From] \o <<y>>
              /\ GoesBack(y) /\ (y.m = "ok" => IsHere(y.id)') /\ (y.m = "tengo" => y.ultimo = 0)
    <3>1. CASE canal'[From] = canal[From]
      BY <3>1
    <3>2. CASE Travels(To) /\ canal'[From] = canal[From] \o <<x>>
      BY <2>1, <2>3, <2>5, <3>2 DEF Travels
    <3> QED
      BY <2>1, <3>1, <3>2
  <2> QED
    BY <1>5, <2>1, <2>2, <2>6, HeldReceives
<1>7. CASE Refused(after) \/ DiskFull
  <2>1. entrada' = NoEntry /\ recibidos' = recibidos /\ canal'[From] = canal[From]
    BY <1>7 DEF Refused, DiskFull
  <2> QED
    BY <1>5, <2>1, HeldReceives
<1>8. CASE Continues(after)
  <2>1. /\ entrada' = after /\ recibidos' = recibidos
        /\ \/ canal'[From] = canal[From]
           \/ \E k \in Nat :
                 /\ k <= after.sigue /\ Travels(To)
                 /\ Tengo(after.id, k, 0) \in MessageType
                 /\ canal'[From] = canal[From] \o <<Tengo(after.id, k, 0)>>
    BY <1>8 DEF Continues
  <2>2. \/ canal'[From] = canal[From]
        \/ viva /\ \E y \in MessageType :
              /\ canal'[From] = canal[From] \o <<y>>
              /\ GoesBack(y) /\ (y.m = "ok" => IsHere(y.id)') /\ (y.m = "tengo" => y.ultimo = 0)
    <3>1. ASSUME NEW k \in Nat, Travels(To), Tengo(after.id, k, 0) \in MessageType,
                 canal'[From] = canal[From] \o <<Tengo(after.id, k, 0)>>
          PROVE  viva /\ \E y \in MessageType :
              /\ canal'[From] = canal[From] \o <<y>>
              /\ GoesBack(y) /\ (y.m = "ok" => IsHere(y.id)') /\ (y.m = "tengo" => y.ultimo = 0)
      <4> DEFINE y == Tengo(after.id, k, 0)
      <4>1. GoesBack(y) /\ y.m = "tengo" /\ y.ultimo = 0
        BY <1>3 DEF GoesBack, Tengo
      <4>2. y \in MessageType /\ canal'[From] = canal[From] \o <<y>> /\ viva
        BY <3>1 DEF Travels
      <4> HIDE DEF y
      <4> QED
        BY <4>1, <4>2
    <3> QED
      BY <2>1, <3>1
  <2> QED
    BY <1>3, <2>1, <2>2, HeldReceives
<1> QED
  BY <1>6, <1>7, <1>8

\* What the key of a file that begins changes (archivo_inicio).
LEMMA InicioEffect ==
    ASSUME TypeOK, ReadInicio
    PROVE  LET q == Message(To)
           IN  /\ Hears(To) /\ q.m = "inicio"
               /\ entrada' = [NoEntry EXCEPT !.abierta = TRUE, !.id = q.id]
               /\ entrada'.id = q.id
               /\ canal'[To] = Tail(canal[To]) /\ canal'[From] = canal[From]
               /\ mudos \subseteq mudos'
               /\ UNCHANGED <<wires, sender, recibidos, alarma>>
<1>1. From \in Sides /\ To \in Sides /\ From # To
  BY DEF From, To, Sides
<1>2. JustReads(To)
  BY DEF ReadInicio
<1>3. canal'[To] = Tail(canal[To]) /\ canal'[From] = canal[From] /\ mudos \subseteq mudos'
  BY <1>1, <1>2, Quietly DEF JustReads
<1>4. entrada' = [NoEntry EXCEPT !.abierta = TRUE, !.id = Message(To).id]
  BY DEF ReadInicio
<1>5. entrada'.id = Message(To).id
  BY <1>4 DEF NoEntry
<1> QED
  BY <1>3, <1>4, <1>5 DEF ReadInicio

\* What a block finds (`entra_bloque`).
WithBlock(q) ==
    [entrada EXCEPT !.abierta = TRUE, !.pend = Append(@, [id |-> q.id, n |-> q.n])]

\* A block is thrown away or joins the ones that wait.
LEMMA BlockEffect ==
    ASSUME TypeOK, ReadBlock
    PROVE  LET q == Message(To)
           IN  /\ Hears(To) /\ q.m = "bloque"
               /\ WithBlock(q) \in EntryType /\ WithBlock(q).id = entrada.id
               /\ \/ /\ Len(entrada.pend) >= MaxPend
                     /\ canal'[To] = Tail(canal[To]) /\ canal'[From] = canal[From]
                     /\ mudos \subseteq mudos' /\ UNCHANGED <<wires, sender, receiver>>
                  \/ Empties(WithBlock(q))
<1>1. From \in Sides /\ To \in Sides /\ From # To
  BY DEF From, To, Sides
<1>2. Hears(To) /\ Message(To).m = "bloque"
  BY DEF ReadBlock
<1>3. Message(To) \in MessageType /\ entrada \in EntryType
  BY <1>1, <1>2, Heard DEF TypeOK
<1>4. WithBlock(Message(To)) \in EntryType
  BY <1>3, EntryShapes DEF WithBlock
<1>5. WithBlock(Message(To)).id = entrada.id
  BY <1>3 DEF WithBlock, EntryType
<1>6. CASE Len(entrada.pend) >= MaxPend
  <2>1. JustReads(To) /\ UNCHANGED <<wires, sender, receiver>>
    BY <1>6 DEF ReadBlock
  <2>2. canal'[To] = Tail(canal[To]) /\ canal'[From] = canal[From] /\ mudos \subseteq mudos'
    BY <1>1, <2>1, Quietly DEF JustReads
  <2> QED
    BY <1>2, <1>4, <1>5, <1>6, <2>1, <2>2
<1>7. CASE ~ (Len(entrada.pend) >= MaxPend)
  <2>1. Empties(WithBlock(Message(To)))
    BY <1>7 DEF ReadBlock, WithBlock
  <2> QED
    BY <1>2, <1>4, <1>5, <2>1
<1> QED
  BY <1>6, <1>7

\* What the closing key finds (`archivo`).
WithEnd(q) ==
    IF Opens(entrada)
    THEN [entrada EXCEPT !.de = q.id, !.total = q.n]
    ELSE [[entrada EXCEPT !.de = q.id, !.total = q.n] EXCEPT !.abierta = TRUE, !.id = q.id]

\* The end of a file joins what is known of it.
LEMMA ArchivoEffect ==
    ASSUME TypeOK, ReadArchivo
    PROVE  LET q == Message(To)
           IN  /\ Hears(To) /\ q.m = "archivo"
               /\ WithEnd(q) \in EntryType
               /\ WithEnd(q).id = IF Opens(entrada) THEN entrada.id ELSE q.id
               /\ Empties(WithEnd(q))
<1>1. To \in Sides
  BY DEF To, Sides
<1>2. Hears(To) /\ Message(To).m = "archivo" /\ Empties(WithEnd(Message(To)))
  BY DEF ReadArchivo, WithEnd
<1>3. Message(To) \in MessageType /\ entrada \in EntryType
  BY <1>1, <1>2, Heard DEF TypeOK
<1>4. WithEnd(Message(To)) \in EntryType
  BY <1>3, EntryShapes DEF WithEnd
<1>5. WithEnd(Message(To)).id = IF Opens(entrada) THEN entrada.id ELSE Message(To).id
  BY <1>3 DEF WithEnd, EntryType
<1> QED
  BY <1>2, <1>4, <1>5

\* What the side that receives reads keeps what is known.
LEMMA HeldReceiver ==
    TypeOK /\ Held0 /\ (ReadInicio \/ ReadBlock \/ ReadArchivo) => Held0'
<1> SUFFICES ASSUME TypeOK, Held0, ReadInicio \/ ReadBlock \/ ReadArchivo PROVE Held0'
  OBVIOUS
<1> DEFINE q == Message(To)
<1>1. Hears(To) /\ To \in Sides
  BY DEF ReadInicio, ReadBlock, ReadArchivo, To, Sides
<1>2. q \in In(canal[To])
  BY <1>1, Heard
<1>3. q.id \in 1 .. Len(enviados) /\ entrada.id <= Len(enviados) /\ Len(enviados) \in Nat
  BY <1>2, Rows DEF Held0, WellMade, GoesOut
<1>4. CASE ReadInicio
  <2>1. /\ entrada'.id = q.id
        /\ canal'[To] = Tail(canal[To]) /\ canal'[From] = canal[From]
        /\ UNCHANGED <<wires, sender, recibidos, alarma>>
    BY <1>4, InicioEffect
  <2> HIDE DEF q
  <2>2. entrada'.id <= Len(enviados)
    BY <1>3, <2>1
  <2> QED
    BY <1>1, <2>1, <2>2, HeldReceives DEF wires
<1>5. CASE ReadBlock
  <2>1. /\ WithBlock(q) \in EntryType /\ WithBlock(q).id = entrada.id
        /\ \/ /\ Len(entrada.pend) >= MaxPend
              /\ canal'[To] = Tail(canal[To]) /\ canal'[From] = canal[From]
              /\ UNCHANGED <<wires, sender, receiver>>
           \/ Empties(WithBlock(q))
    BY <1>5, BlockEffect
  <2> HIDE DEF q
  <2>2. CASE Empties(WithBlock(q))
    BY <1>1, <1>3, <2>1, <2>2, HeldEmpties
  <2>3. CASE /\ canal'[To] = Tail(canal[To]) /\ canal'[From] = canal[From]
             /\ UNCHANGED <<wires, sender, receiver>>
    BY <1>1, <1>3, <2>3, HeldReceives DEF wires, receiver
  <2> QED
    BY <2>1, <2>2, <2>3
<1>6. CASE ReadArchivo
  <2>1. /\ WithEnd(q) \in EntryType /\ Empties(WithEnd(q))
        /\ WithEnd(q).id = IF Opens(entrada) THEN entrada.id ELSE q.id
    BY <1>6, ArchivoEffect
  <2> HIDE DEF q
  <2>2. WithEnd(q).id <= Len(enviados)
    BY <1>3, <2>1
  <2> QED
    BY <1>1, <2>1, <2>2, HeldEmpties
<1> QED
  BY <1>4, <1>5, <1>6

-----------------------------------------------------------------------------
\* What a link that drops, a side that notices it and the relay where both meet change.
LEMMA DropEffect ==
    ASSUME TypeOK, Drop
    PROVE  /\ lista /\ viva' = FALSE
           /\ \E a \in 0 .. Len(canal[From]) : canal'[From] = SubSeq(canal[From], 1, a)
           /\ \E b \in 0 .. Len(canal[To]) : canal'[To] = SubSeq(canal[To], 1, b)
           /\ count' = [count EXCEPT !.drops = @ + 1]
           /\ UNCHANGED <<lista, enlace, marcha, sender, receiver, mudos>>
BY DEF Drop, From, To, Sides

\* A drop noticed, in what the invariant speaks of.
LEMMA NoticeEffect ==
    ASSUME TypeOK, NEW s \in Sides, Notice(s)
    PROVE  /\ lista /\ ~ viva /\ canal[s] = <<>> /\ enlace' = [enlace EXCEPT ![s] = "ninguno"]
           /\ s = From => salida' = [salida EXCEPT !.pausada = Sending]
           /\ s = To => UNCHANGED salida
           /\ salida'.id = salida.id /\ salida'.hechos = salida.hechos
           /\ salida'.desde = salida.desde /\ salida'.llave = salida.llave
           /\ s = From => salida'.pausada = Sending
           /\ UNCHANGED <<lista, viva, canal, marcha, enviados, cortado, receiver, count, mudos>>
<1>1. salida \in OutType
  BY DEF TypeOK
<1>2. \A p \in BOOLEAN : LET q == [salida EXCEPT !.pausada = p]
                         IN  /\ q.id = salida.id /\ q.hechos = salida.hechos
                             /\ q.desde = salida.desde /\ q.llave = salida.llave /\ q.pausada = p
  BY <1>1 DEF OutType
<1>3. Sending \in BOOLEAN
  BY DEF Sending
<1>4. s = From => salida' = [salida EXCEPT !.pausada = Sending]
  BY DEF Notice, Held
<1>5. s # From => UNCHANGED salida
  BY DEF Notice
<1>6. From # To
  BY DEF From, To
<1>7. CASE s = From
  BY <1>2, <1>3, <1>4, <1>6, <1>7 DEF Notice
<1>8. CASE s # From
  BY <1>5, <1>8 DEF Notice
<1> QED
  BY <1>7, <1>8

\* A link found again, in what the invariant speaks of.
LEMMA ResumeEffect ==
    ASSUME TypeOK, NEW s \in Sides, Resume(s)
    PROVE  LET x == Tengo(entrada.id, entrada.sigue, LastReceived)
           IN  /\ lista /\ enlace[s] = "nuevo" /\ enlace' = [enlace EXCEPT ![s] = "vivo"]
               /\ canal'[To] = canal[To] /\ mudos \subseteq mudos'
               /\ s = From => canal'[From] = canal[From]
               /\ \/ canal'[From] = canal[From]
                  \/ viva /\ x \in MessageType /\ canal'[From] = canal[From] \o <<x>>
               /\ UNCHANGED <<lista, viva, marcha, sender, receiver, count>>
<1> DEFINE x == Tengo(entrada.id, entrada.sigue, LastReceived)
<1>1. From \in Sides /\ To \in Sides /\ From # To /\ Sides = {From, To}
  BY DEF From, To, Sides
<1>2. CASE s = From
  <2>1. Says(From, canal[From], <<>>)
    BY <1>1, <1>2 DEF Resume
  <2>2. canal'[From] = canal[From] /\ canal'[To] = canal[To] /\ mudos \subseteq mudos'
    BY <1>1, <2>1, Quietly
  <2> QED
    BY <1>2, <2>2 DEF Resume
<1>3. CASE s = To
  <2>1. Says(To, canal[To], <<x>>)
    BY <1>1, <1>3 DEF Resume, WhatIHave
  <2>2. x \in MessageType
    <3>1. recibidos \in Seq(KeyType) /\ 0 \in KeyType
      <4>1. MaxFiles \in Nat
        BY BoundsAssumption
      <4> QED
        BY <4>1 DEF TypeOK, KeyType
    <3>2. recibidos # <<>> => recibidos[Len(recibidos)] \in KeyType
      <4> HIDE DEF KeyType
      <4> QED
        BY <3>1
    <3>3. LastReceived \in KeyType
      BY <3>1, <3>2 DEF LastReceived
    <3>4. entrada.id \in KeyType /\ entrada.sigue \in Nat
      BY DEF TypeOK, EntryType
    <3> QED
      BY <3>3, <3>4, MessageShapes
  <2> HIDE DEF x
  <2>3. /\ canal'[To] = canal[To] /\ mudos \subseteq mudos'
        /\ canal'[From] = IF Travels(To) /\ marcha[To] THEN canal[From] \o <<x>> ELSE canal[From]
    BY <2>1, <2>2, SaysOneTo
  <2>4. \/ canal'[From] = canal[From]
        \/ viva /\ x \in MessageType /\ canal'[From] = canal[From] \o <<x>>
    BY <2>2, <2>3 DEF Travels
  <2> QED
    BY <1>1, <1>3, <2>3, <2>4 DEF Resume, x
<1> QED
  BY <1>1, <1>2, <1>3
\* The link, the watch and the page leave what is said as true as it was.
LEMMA HeldDrop == TypeOK /\ Held0 /\ Drop => Held0'
<1> SUFFICES ASSUME TypeOK, Held0, Drop PROVE Held0'
  OBVIOUS
<1>1. /\ lista /\ viva' = FALSE /\ viva
      /\ \E a \in 0 .. Len(canal[From]) : canal'[From] = SubSeq(canal[From], 1, a)
      /\ \E b \in 0 .. Len(canal[To]) : canal'[To] = SubSeq(canal[To], 1, b)
      /\ UNCHANGED <<lista, enlace, marcha, sender, receiver, mudos>>
  BY DropEffect DEF Drop
<1>2. canal[From] \in Seq(MessageType) /\ canal[To] \in Seq(MessageType)
  BY DEF TypeOK, Sides, From, To
<1>3. /\ In(canal'[From]) \subseteq In(canal[From])
      /\ In(canal'[To]) \subseteq In(canal[To]) /\ canal'[To] \in Seq(MessageType)
  BY <1>1, <1>2, Cuts
<1>4. UNCHANGED <<lista, enlace, entrada, recibidos, enviados, salida>>
  BY <1>1 DEF sender, receiver
<1>5. WellMade /\ Truthful /\ SaidIsHere /\ Linked /\ Waits
  BY DEF Held0
<1>6. WellMade' /\ Truthful' /\ SaidIsHere'
  <2>1. salida.id \in {0, Len(enviados)}
    BY <1>5 DEF WellMade
  <2> QED
    BY <1>3, <1>4, <1>5, <2>1, Untouched
<1>7. Linked'
  BY <1>1, <1>4, <1>5 DEF Linked, Sides, From
<1>8. Waits'
  <2>1. canal[To] = <<>> => canal'[To] = <<>>
    BY <1>3, EmptyIn, Singles
  <2>2. UNCHANGED LastReceived
    BY <1>4 DEF LastReceived
  <2> QED
    BY <1>3, <1>4, <1>5, <2>1, <2>2 DEF Waits, Tengo
<1> QED
  BY <1>6, <1>7, <1>8 DEF Held0

\* When the drop is noticed the file is held back, and no answer is on its way.
LEMMA HeldNotice ==
    ASSUME TypeOK, Held0, NEW s \in Sides, Notice(s)
    PROVE  Held0'
<1>1. /\ lista /\ ~ viva /\ canal[s] = <<>> /\ enlace' = [enlace EXCEPT ![s] = "ninguno"]
      /\ s = To => UNCHANGED salida
      /\ salida'.id = salida.id /\ (s = From => salida'.pausada = Sending)
      /\ UNCHANGED <<lista, viva, canal, marcha, enviados, cortado, receiver, count, mudos>>
  BY NoticeEffect
<1>2. enlace \in [Sides -> {"vivo", "ninguno", "nuevo"}]
  BY DEF TypeOK
<1>3. enlace'[s] = "ninguno" /\ \A x \in Sides : x # s => enlace'[x] = enlace[x]
  BY <1>1, <1>2
<1>4. UNCHANGED <<entrada, recibidos>>
  BY <1>1 DEF receiver
<1>5. WellMade /\ Truthful /\ SaidIsHere /\ Linked /\ Waits
  BY DEF Held0
<1>6. WellMade' /\ Truthful' /\ SaidIsHere'
  <2>1. salida'.id \in {0, Len(enviados)}
    BY <1>1, <1>5 DEF WellMade
  <2> QED
    BY <1>1, <1>4, <1>5, <2>1, Untouched
<1>7. Sides = {From, To} /\ From # To
  BY DEF Sides, From, To
<1>8. Linked'
  <2>1. \A x \in Sides : enlace'[x] = "ninguno" => canal'[x] = <<>> /\ ~ viva'
    BY <1>1, <1>3, <1>5 DEF Linked
  <2>2. enlace'[From] = "ninguno" /\ Sending' => salida'.pausada
    BY <1>1, <1>3, <1>5, <1>7 DEF Linked, Sending
  <2> QED
    BY <2>1, <2>2 DEF Linked
<1>9. Waits'
  <2>1. UNCHANGED LastReceived
    BY <1>4 DEF LastReceived
  <2>2. CASE s = From
    <3>1. In(canal'[From]) = {}
      BY <1>1, <2>2, Singles
    <3> QED
      BY <1>3, <2>2, <3>1 DEF Waits
  <2>3. CASE s = To
    BY <1>1, <1>3, <1>4, <1>5, <1>7, <2>1, <2>3 DEF Waits, Tengo
  <2> QED
    BY <1>7, <2>2, <2>3
<1> QED
  BY <1>6, <1>8, <1>9 DEF Held0

\* The two sides meet with nothing on its way to a file that is held back.
LEMMA HeldMeet == TypeOK /\ Held0 /\ Meet => Held0'
<1> SUFFICES ASSUME TypeOK, Held0, Meet PROVE Held0'
  OBVIOUS
<1>1. Sides = {From, To} /\ From # To
  BY DEF Sides, From, To
<1>2. /\ lista /\ \A s \in Sides : enlace[s] = "ninguno" /\ enlace'[s] = "nuevo"
      /\ UNCHANGED <<lista, canal, marcha, sender, receiver, count, mudos>>
  BY DEF Meet
<1>3. UNCHANGED <<entrada, recibidos, enviados, salida>>
  BY <1>2 DEF sender, receiver
<1>4. WellMade /\ Truthful /\ SaidIsHere /\ Linked /\ Waits
  BY DEF Held0
<1>5. canal'[From] = <<>> /\ canal'[To] = <<>>
  BY <1>1, <1>2, <1>4 DEF Linked
<1>6. WellMade' /\ Truthful' /\ SaidIsHere'
  <2>1. salida.id \in {0, Len(enviados)}
    BY <1>4 DEF WellMade
  <2> QED
    BY <1>2, <1>3, <1>4, <2>1, Untouched
<1>7. Linked'
  BY <1>1, <1>2 DEF Linked
<1>8. Waits'
  <2>1. In(canal'[From]) = {}
    BY <1>5, Singles
  <2> QED
    BY <1>5, <2>1 DEF Waits
<1> QED
  BY <1>6, <1>7, <1>8 DEF Held0

\* What the side that receives says of its file is true when it says it.
LEMMA HeldResume ==
    ASSUME TypeOK, Held0, NEW s \in Sides, Resume(s)
    PROVE  Held0'
<1> DEFINE x == Tengo(entrada.id, entrada.sigue, LastReceived)
<1>1. /\ lista /\ enlace[s] = "nuevo" /\ enlace' = [enlace EXCEPT ![s] = "vivo"]
      /\ canal'[To] = canal[To]
      /\ \/ canal'[From] = canal[From]
         \/ viva /\ x \in MessageType /\ canal'[From] = canal[From] \o <<x>>
      /\ UNCHANGED <<lista, viva, marcha, sender, receiver, count>>
  BY ResumeEffect
<1>2. enlace \in [Sides -> {"vivo", "ninguno", "nuevo"}] /\ canal[From] \in Seq(MessageType)
  BY DEF TypeOK, From, Sides
<1>3. enlace'[s] = "vivo" /\ \A y \in Sides : y # s => enlace'[y] = enlace[y]
  BY <1>1, <1>2
<1>4. UNCHANGED <<entrada, recibidos, enviados, salida>>
  BY <1>1 DEF sender, receiver
<1>5. WellMade /\ Truthful /\ SaidIsHere /\ Linked /\ Waits
  BY DEF Held0
<1>6. x.m = "tengo" /\ x.id = entrada.id /\ x.ultimo = LastReceived
  BY DEF Tengo
<1>7. LastReceived = 0 \/ LastReceived \in In(recibidos)
  <2>1. recibidos \in Seq(KeyType)
    BY DEF TypeOK
  <2>2. recibidos # <<>> => Len(recibidos) \in 1 .. Len(recibidos)
    <3> HIDE DEF KeyType
    <3> QED
      BY <2>1
  <2> QED
    BY <2>2 DEF LastReceived, In
<1>8. GoesBack(x) /\ (x.ultimo # 0 => IsHere(x.ultimo))
  <2>1. entrada.id \in 0 .. Len(enviados)
    BY <1>5, Rows DEF WellMade, TypeOK, EntryType, KeyType
  <2>2. LastReceived \in 0 .. Len(enviados)
    BY <1>5, <1>7, Rows DEF WellMade
  <2> QED
    BY <1>6, <1>7, <2>1, <2>2, HereIn DEF GoesBack
<1>9. UNCHANGED LastReceived /\ \A i : IsHere(i)' <=> IsHere(i)
  BY <1>4 DEF LastReceived, IsHere
<1>10. \A y \in In(canal'[From]) : y \in In(canal[From]) \/ y = x
  <2>1. x \in MessageType => In(canal[From] \o <<x>>) = In(canal[From]) \cup {x}
    BY <1>2, OneMore
  <2> HIDE DEF x
  <2> QED
    BY <1>1, <2>1
<1>11. Sides = {From, To} /\ From # To
  BY DEF Sides, From, To
<1>12. WellMade'
  <2>1. \A y : (GoesBack(y)' <=> GoesBack(y)) /\ (GoesOut(y)' <=> GoesOut(y))
    BY <1>4 DEF GoesBack, GoesOut
  <2> HIDE DEF x
  <2> QED
    BY <1>1, <1>4, <1>5, <1>8, <1>10, <2>1 DEF WellMade
<1>13. Truthful'
  <2>1. ASSUME NEW y \in In(canal'[From])
        PROVE  /\ y.m = "ok" => IsHere(y.id)'
               /\ y.m = "tengo" /\ y.ultimo # 0 => IsHere(y.ultimo)'
    <3>1. CASE y \in In(canal[From])
      BY <1>1, <1>5, <1>9, <3>1 DEF Truthful
    <3>2. CASE y = x
      <4> HIDE DEF x
      <4> QED
        BY <1>6, <1>8, <1>9, <3>2
    <3> QED
      BY <1>10, <3>1, <3>2
  <2> QED
    BY <2>1 DEF Truthful
<1>14. SaidIsHere'
  <2>1. NamesDiffer' <=> NamesDiffer
    BY <1>4 DEF NamesDiffer
  <2> QED
    BY <1>1, <1>4, <1>5, <1>9, <2>1 DEF SaidIsHere
<1>15. Linked'
  <2>1. \A y \in Sides : enlace'[y] = "ninguno" => canal'[y] = <<>> /\ ~ viva'
    <3> HIDE DEF x
    <3> QED
      BY <1>1, <1>3, <1>5, <1>11 DEF Linked
  <2>2. enlace'[From] = "ninguno" /\ Sending' => salida'.pausada
    BY <1>1, <1>3, <1>4, <1>5, <1>11 DEF Linked, Sending
  <2> QED
    BY <2>1, <2>2 DEF Linked
<1>16. Waits'
  <2>1. salida.pausada /\ enlace[From] # "ninguno" => canal[To] = <<>>
    BY <1>1, <1>5 DEF Waits
  <2>2. enlace'[From] # "ninguno" => enlace[From] # "ninguno"
    BY <1>1, <1>3, <1>11
  <2>3. salida.pausada => \A y \in In(canal'[From]) : y = x
    BY <1>1, <1>5, <1>10 DEF Waits
  <2>4. x = Tengo(entrada'.id, entrada'.sigue, LastReceived')
    BY <1>4, <1>9 DEF Tengo
  <2> QED
    BY <1>1, <1>4, <2>1, <2>2, <2>3, <2>4 DEF Waits
<1> QED
  BY <1>12, <1>13, <1>14, <1>15, <1>16 DEF Held0

\* A stop and a byte written leave all of it as it was.
LEMMA HeldQuiet ==
    ASSUME TypeOK, Held0,
           UNCHANGED <<lista, enlace, viva, canal, enviados, salida, cortado, receiver>>
    PROVE  Held0'
<1>1. UNCHANGED <<entrada, recibidos>>
  BY DEF receiver
<1>2. WellMade /\ Truthful /\ SaidIsHere /\ Linked /\ Waits
  BY DEF Held0
<1>3. WellMade' /\ Truthful' /\ SaidIsHere'
  <2>1. salida.id \in {0, Len(enviados)}
    BY <1>2 DEF WellMade
  <2> QED
    BY <1>1, <1>2, <2>1, Untouched
<1>4. Linked'
  BY <1>2 DEF Linked, Sending
<1>5. Waits'
  <2>1. UNCHANGED LastReceived
    BY <1>1 DEF LastReceived
  <2> QED
    BY <1>1, <1>2, <2>1 DEF Waits, Tengo
<1> QED
  BY <1>3, <1>4, <1>5 DEF Held0

\* Every step keeps it.
LEMMA HeldStep == TypeOK /\ Held0 /\ [Next]_vars => Held0'
<1> SUFFICES ASSUME TypeOK, Held0, [Next]_vars PROVE Held0'
  OBVIOUS
<1>1. ASSUME NEW nombre \in Names, Start(nombre) PROVE Held0'
  BY <1>1, HeldStart
<1>2. ASSUME NEW ultimo \in BOOLEAN, Piece(ultimo) PROVE Held0'
  BY <1>2, HeldPiece
<1>3. CASE Written
  BY <1>3, HeldQuiet DEF Written, wires
<1>4. CASE Close
  BY <1>4, HeldEnds DEF Close
<1>5. CASE UNCHANGED vars
  BY <1>5, HeldQuiet DEF vars, wires, sender
<1>6. ASSUME NEW s \in Sides, Stop(s) \/ Continue(s) PROVE Held0'
  BY <1>6, HeldQuiet DEF Stop, Continue, sender
<1>7. ASSUME NEW s \in Sides, Notice(s) \/ Resume(s) PROVE Held0'
  BY <1>7, HeldNotice, HeldResume
<1> QED
  BY <1>1, <1>2, <1>3, <1>4, <1>5, <1>6, <1>7, HeldTengo, HeldOk, HeldReceiver, HeldDrop, HeldMeet
     DEF Next, Reads, Mends

\* secure.rs:3495-3507 and 2725-2742: the screen of the sender does not say that a file got
\* there when it did not, whatever is lost and whoever is stopped, for any number of files,
\* blocks and faults, as long as no two files have one name.
THEOREM SaidAndHere == Spec => []SaidIsHere
<1>1. Init => TypeOK /\ Held0
  BY TypeInit, HeldInit
<1>2. TypeOK /\ Held0 /\ [Next]_vars => (TypeOK /\ Held0)'
  BY TypeStep, HeldStep
<1>3. TypeOK /\ Held0 => SaidIsHere
  BY DEF Held0
<1> QED
  BY <1>1, <1>2, <1>3, PTL DEF Spec
-----------------------------------------------------------------------------
\* While every key goes before its file, a file comes in with nothing waiting and no end known.
Fresh == entrada.pend = <<>> /\ entrada.de = 0

\* One file after another, and within a file its key, its blocks in order and its end.
Before(x, y) ==
    /\ x.id <= y.id
    /\ y.m = "inicio" \/ x.m = "archivo" => x.id < y.id

Follows(x, y) ==
    \/ y.m = "inicio"
    \/ y.m = "bloque" /\ x.m = "inicio" /\ y.n = 0 /\ y.id = x.id
    \/ y.m \in {"bloque", "archivo"} /\ x.m = "bloque" /\ y.n = x.n + 1 /\ y.id = x.id

Joined(w) ==
    /\ \A k, l \in 1 .. Len(w) : k < l => Before(w[k], w[l])
    /\ \A k \in 1 .. Len(w) : k > 1 => Follows(w[k - 1], w[k])

\* What the side that receives can take next.
Enters(x) ==
    \/ x.m = "inicio"
    \/ Opens(entrada) /\ x.n = entrada.sigue /\ (NamesDiffer => x.id = entrada.id)

Lined == Joined(canal[To]) /\ (canal[To] # <<>> => Enters(canal[To][1]))

\* What is received is behind all that is still on its way.
Ahead ==
    /\ \A i, j \in 1 .. Len(recibidos) : i < j => recibidos[i] < recibidos[j]
    /\ \A r \in In(recibidos) :
          /\ \A x \in In(canal[To]) : r < x.id
          /\ Opens(entrada) => r < entrada.id
          /\ r = salida.id => salida.llave

\* What is on its way of the file going out is what went out of it.
OfFile ==
    /\ \A x \in In(canal[To]) :
          /\ x.m = "inicio" => entrada.id < x.id
          /\ x.id = salida.id /\ x.m = "bloque" => x.n < salida.hechos
          /\ x.id = salida.id /\ x.m = "archivo" => x.n = salida.hechos /\ salida.llave
    /\ Sending /\ entrada.id = salida.id => entrada.sigue <= salida.hechos

\* A file that goes out unhindered is where the side that receives expects it.
LastIs(x) ==
    /\ x.id = salida.id
    /\ \/ x.m = "inicio" /\ salida.hechos = 0
       \/ x.m = "bloque" /\ x.n + 1 = salida.hechos

Expected ==
    /\ Opens(entrada) /\ entrada.sigue = salida.hechos
    /\ NamesDiffer => entrada.id = salida.id

Goes ==
    Sending /\ ~ salida.pausada /\ ~ salida.llave /\ viva =>
        IF canal[To] = <<>> THEN Expected ELSE LastIs(canal[To][Len(canal[To])])

\* What is let go of a file is there.
Had(n) ==
    n = 0 \/ (entrada.id = salida.id /\ n <= entrada.sigue) \/ IsHere(salida.id)

Kept ==
    NamesDiffer /\ Sending =>
        /\ Had(salida.desde)
        /\ \A x \in In(canal[From]) : x.m = "tengo" /\ x.id = salida.id => Had(x.n)

\* A file that ended has a block.
Ended == salida.llave => salida.hechos > 0

\* Nothing that came in outlives the conversation.
Over == ~ lista => recibidos = <<>>

Clean == lista /\ ~ Keyless

Tidy == Fresh /\ Lined /\ Ahead /\ OfFile /\ Goes /\ Kept

Neat == Clean => Tidy
-----------------------------------------------------------------------------
\* What is left of an ordered channel is ordered.
LEMMA JoinedTail ==
    ASSUME NEW T, NEW w \in Seq(T), w # <<>>, Joined(w)
    PROVE  /\ Joined(Tail(w))
           /\ \A x \in In(Tail(w)) : Before(w[1], x)
           /\ Tail(w) # <<>> => Follows(w[1], Tail(w)[1]) /\ Tail(w)[Len(Tail(w))] = w[Len(w)]
           /\ Tail(w) = <<>> => Len(w) = 1
<1> DEFINE t == Tail(w)
<1>1. /\ t \in Seq(T) /\ Len(t) = Len(w) - 1 /\ Len(w) \in Nat \ {0}
      /\ \A i \in 1 .. Len(t) : t[i] = w[i + 1]
  BY Tails
<1>2. t = <<>> <=> Len(t) = 0
  BY <1>1
<1> HIDE DEF t
<1>3. \A i \in 1 .. Len(t) : i + 1 \in 1 .. Len(w) /\ 1 < i + 1 /\ 1 \in 1 .. Len(w)
  BY <1>1
<1>4. Joined(t)
  <2>1. \A k, l \in 1 .. Len(t) : k < l => Before(t[k], t[l])
    <3> SUFFICES ASSUME NEW k \in 1 .. Len(t), NEW l \in 1 .. Len(t), k < l
                 PROVE  Before(t[k], t[l])
      OBVIOUS
    <3>1. k + 1 < l + 1 /\ k + 1 \in 1 .. Len(w) /\ l + 1 \in 1 .. Len(w)
      BY <1>1
    <3> QED
      BY <1>1, <3>1 DEF Joined
  <2>2. \A k \in 1 .. Len(t) : k > 1 => Follows(t[k - 1], t[k])
    <3> SUFFICES ASSUME NEW k \in 1 .. Len(t), k > 1 PROVE Follows(t[k - 1], t[k])
      OBVIOUS
    <3>1. k - 1 \in 1 .. Len(t) /\ k + 1 \in 1 .. Len(w) /\ k + 1 > 1
          /\ (k - 1) + 1 = k /\ (k + 1) - 1 = k
      BY <1>1
    <3> QED
      BY <1>1, <3>1 DEF Joined
  <2> QED
    BY <2>1, <2>2 DEF Joined
<1>5. \A x \in In(t) : Before(w[1], x)
  <2> SUFFICES ASSUME NEW i \in 1 .. Len(t) PROVE Before(w[1], t[i])
    BY DEF In
  <2> QED
    BY <1>1, <1>3 DEF Joined
<1>6. t # <<>> => Follows(w[1], t[1]) /\ t[Len(t)] = w[Len(w)]
  <2> SUFFICES ASSUME t # <<>> PROVE Follows(w[1], t[1]) /\ t[Len(t)] = w[Len(w)]
    OBVIOUS
  <2>1. 1 \in 1 .. Len(t) /\ Len(t) \in 1 .. Len(t) /\ Len(t) + 1 = Len(w)
        /\ 2 \in 1 .. Len(w) /\ 2 > 1 /\ 2 - 1 = 1 /\ 1 + 1 = 2
    BY <1>1, <1>2
  <2>2. Follows(w[2 - 1], w[2])
    BY <2>1 DEF Joined
  <2> QED
    BY <1>1, <2>1, <2>2
<1> QED
  BY <1>1, <1>2, <1>4, <1>5, <1>6 DEF t

\* So is what is left when its tail is lost.
LEMMA JoinedCut ==
    ASSUME NEW T, NEW w \in Seq(T), Joined(w), NEW n \in 0 .. Len(w)
    PROVE  /\ Joined(SubSeq(w, 1, n))
           /\ SubSeq(w, 1, n) # <<>> => w # <<>> /\ SubSeq(w, 1, n)[1] = w[1]
<1> DEFINE c == SubSeq(w, 1, n)
<1>1. c \in Seq(T) /\ Len(c) = n /\ \A i \in 1 .. n : c[i] = w[i]
  BY Cuts
<1>2. Len(w) \in Nat /\ (w = <<>> => Len(w) = 0) /\ (c # <<>> => Len(c) > 0)
  BY <1>1
<1> HIDE DEF c
<1>3. \A i \in 1 .. n : i \in 1 .. Len(w)
  BY <1>2
<1>4. \A k \in 1 .. n : k > 1 => k - 1 \in 1 .. n
  BY <1>2
<1>5. Joined(c)
  BY <1>1, <1>3, <1>4 DEF Joined
<1> QED
  BY <1>1, <1>2, <1>5 DEF c

\* So is what has one message more, which follows the last.
LEMMA JoinedMore ==
    ASSUME NEW u \in Seq(MessageType), NEW z \in MessageType, Joined(u),
           \A x \in In(u) : Before(x, z),
           u # <<>> => Follows(u[Len(u)], z)
    PROVE  /\ Joined(u \o <<z>>)
           /\ (u \o <<z>>)[1] = IF u = <<>> THEN z ELSE u[1]
           /\ u \o <<z>> # <<>>
<1> DEFINE w == u \o <<z>>
<1>1. /\ w \in Seq(MessageType) /\ Len(w) = Len(u) + 1 /\ Len(u) \in Nat
      /\ \A i \in 1 .. Len(u) : w[i] = u[i]
      /\ w[Len(u) + 1] = z
  BY OneMore
<1>2. (u = <<>> <=> Len(u) = 0) /\ w # <<>>
  <2>1. u = <<>> <=> Len(u) = 0
    <3> HIDE DEF MessageType
    <3> QED
      OBVIOUS
  <2>2. w = <<>> => Len(w) = 0
    <3> HIDE DEF w
    <3> QED
      BY Singles
  <2> QED
    BY <1>1, <2>1, <2>2
<1> HIDE DEF w
<1>3. \A k \in 1 .. Len(w) : k \in 1 .. Len(u) \/ k = Len(u) + 1
  BY <1>1
<1>4. \A k, l \in 1 .. Len(w) : k < l => Before(w[k], w[l])
  <2> SUFFICES ASSUME NEW k \in 1 .. Len(w), NEW l \in 1 .. Len(w), k < l
               PROVE  Before(w[k], w[l])
    OBVIOUS
  <2>1. k \in 1 .. Len(u)
    BY <1>1
  <2>2. CASE l \in 1 .. Len(u)
    BY <1>1, <2>1, <2>2 DEF Joined
  <2>3. CASE l = Len(u) + 1
    <3>1. u[k] \in In(u)
      BY <2>1 DEF In
    <3> QED
      BY <1>1, <2>1, <2>3, <3>1
  <2> QED
    BY <1>3, <2>2, <2>3
<1>5. \A k \in 1 .. Len(w) : k > 1 => Follows(w[k - 1], w[k])
  <2> SUFFICES ASSUME NEW k \in 1 .. Len(w), k > 1
               PROVE  Follows(w[k - 1], w[k])
    OBVIOUS
  <2>1. k - 1 \in 1 .. Len(u)
    BY <1>1
  <2>2. CASE k \in 1 .. Len(u)
    BY <1>1, <2>1, <2>2 DEF Joined
  <2>3. CASE k = Len(u) + 1
    <3>1. k - 1 = Len(u) /\ u # <<>>
      BY <1>1, <1>2, <2>1, <2>3
    <3> QED
      BY <1>1, <2>1, <2>3, <3>1
  <2> QED
    BY <1>3, <2>2, <2>3
<1>6. w[1] = IF u = <<>> THEN z ELSE u[1]
  <2>1. CASE u = <<>>
    BY <1>1, <1>2, <2>1
  <2>2. CASE u # <<>>
    <3>1. 1 \in 1 .. Len(u)
      BY <1>1, <1>2, <2>2
    <3> QED
      BY <1>1, <2>2, <3>1
  <2> QED
    BY <2>1, <2>2
<1> QED
  BY <1>2, <1>4, <1>5, <1>6 DEF Joined, w
-----------------------------------------------------------------------------
\* What goes out again is the key if it starts over, the blocks from the first that is kept,
\* and the end if the file ended (archivo_tengo).
LEMMA AgainParts ==
    ASSUME NEW q \in OutType, q.desde <= q.hechos, NEW anew \in BOOLEAN, anew => marcha[From]
    PROVE  LET w == Again(q, anew)
               b == q.hechos - q.desde
           IN  \E a, c \in {0, 1} :
                  /\ (a = 1) <=> anew
                  /\ c = 1 => q.llave
                  /\ w \in Seq(MessageType) /\ Len(w) = a + b + c
                  /\ \A i \in 1 .. Len(w) :
                        /\ i <= a => w[i] = Inicio(q.id)
                        /\ i > a /\ i <= a + b => w[i] = Bloque(q.id, q.desde + (i - a) - 1)
                        /\ i > a + b => w[i] = Archivo(q.id, q.hechos)
<1> DEFINE b == q.hechos - q.desde
           u == IF anew THEN Olm(From, <<Inicio(q.id)>>) ELSE <<>>
           v == [i \in 1 .. b |-> Bloque(q.id, q.desde + i - 1)]
           x == IF q.llave THEN Olm(From, <<Archivo(q.id, q.hechos)>>) ELSE <<>>
           w == Again(q, anew)
<1>1. q.id \in KeyType /\ q.hechos \in Nat /\ q.desde \in Nat /\ b \in Nat
  BY DEF OutType
<1>2. /\ Inicio(q.id) \in MessageType /\ Archivo(q.id, q.hechos) \in MessageType
      /\ \A i \in 1 .. b : Bloque(q.id, q.desde + i - 1) \in MessageType
  <2>1. \A i \in 1 .. b : q.desde + i - 1 \in Nat
    BY <1>1
  <2> QED
    BY <1>1, <2>1, MessageShapes
<1>3. \A y \in MessageType : <<y>> \in Seq(MessageType) /\ Len(<<y>>) = 1 /\ <<y>>[1] = y
  <2> HIDE DEF MessageType
  <2> QED
    OBVIOUS
<1>4. <<>> \in Seq(MessageType) /\ Len(<<>>) = 0
  OBVIOUS
<1>5. /\ u \in Seq(MessageType) /\ Len(u) \in {0, 1} /\ (Len(u) = 1 <=> anew)
      /\ Len(u) = 1 => u[1] = Inicio(q.id)
  BY <1>2, <1>3, <1>4 DEF Olm
<1>6. /\ x \in Seq(MessageType) /\ Len(x) \in {0, 1} /\ (Len(x) = 1 => q.llave)
      /\ Len(x) = 1 => x[1] = Archivo(q.id, q.hechos)
  BY <1>2, <1>3, <1>4 DEF Olm
<1>7. v \in Seq(MessageType) /\ Len(v) = b
  BY <1>1, <1>2
<1>8. \A i \in 1 .. b : v[i] = Bloque(q.id, q.desde + i - 1)
  OBVIOUS
<1>9. w = u \o v \o x
  BY DEF Again
<1> HIDE DEF u, v, x, w, b
<1> DEFINE uv == u \o v
<1>10. /\ uv \in Seq(MessageType) /\ Len(uv) = Len(u) + b
       /\ \A i \in 1 .. Len(u) : uv[i] = u[i]
       /\ \A i \in Len(u) + 1 .. Len(u) + b : uv[i] = v[i - Len(u)]
  <2>1. /\ uv \in Seq(MessageType) /\ Len(uv) = Len(u) + Len(v)
        /\ \A i \in 1 .. Len(u) : uv[i] = u[i]
        /\ \A i \in Len(u) + 1 .. Len(u) + Len(v) : uv[i] = v[i - Len(u)]
    <3>1. u \in Seq(MessageType) /\ v \in Seq(MessageType)
      BY <1>5, <1>7
    <3> QED
      BY <3>1, Joins
  <2> HIDE DEF uv
  <2> QED
    BY <1>7, <2>1
<1>11. w = uv \o x
  BY <1>9
<1> HIDE DEF uv
<1>12. /\ w \in Seq(MessageType) /\ Len(w) = Len(uv) + Len(x)
       /\ \A i \in 1 .. Len(uv) : w[i] = uv[i]
       /\ \A i \in Len(uv) + 1 .. Len(uv) + Len(x) : w[i] = x[i - Len(uv)]
  BY <1>6, <1>10, <1>11, Joins
<1>13. ASSUME NEW i \in 1 .. Len(w)
       PROVE  /\ i <= Len(u) => w[i] = Inicio(q.id)
              /\ i > Len(u) /\ i <= Len(u) + b => w[i] = Bloque(q.id, q.desde + (i - Len(u)) - 1)
              /\ i > Len(u) + b => w[i] = Archivo(q.id, q.hechos)
  <2>1. CASE i <= Len(u)
    <3>1. i = 1 /\ Len(u) = 1 /\ i \in 1 .. Len(uv) /\ i \in 1 .. Len(u)
      BY <1>1, <1>5, <1>10, <2>1
    <3>2. w[i] = Inicio(q.id)
      BY <1>5, <1>10, <1>12, <3>1
    <3> QED
      BY <1>1, <1>5, <2>1, <3>2
  <2>2. CASE i > Len(u) /\ i <= Len(u) + b
    <3>1. i \in 1 .. Len(uv) /\ i \in Len(u) + 1 .. Len(u) + b /\ i - Len(u) \in 1 .. b
      BY <1>1, <1>5, <1>10, <2>2
    <3>2. w[i] = v[i - Len(u)]
      BY <1>10, <1>12, <3>1
    <3>3. w[i] = Bloque(q.id, q.desde + (i - Len(u)) - 1)
      BY <1>8, <3>1, <3>2
    <3> QED
      BY <1>1, <1>5, <2>2, <3>3
  <2>3. CASE i > Len(u) + b
    <3>1. i \in Len(uv) + 1 .. Len(uv) + Len(x) /\ i - Len(uv) = 1 /\ Len(x) = 1
      BY <1>1, <1>5, <1>6, <1>10, <1>12, <2>3
    <3>2. w[i] = Archivo(q.id, q.hechos)
      BY <1>6, <1>12, <3>1
    <3> QED
      BY <1>1, <1>5, <2>3, <3>2
  <2> QED
    BY <1>1, <1>5, <2>1, <2>2, <2>3
<1>14. Len(w) = Len(u) + b + Len(x)
  BY <1>1, <1>5, <1>6, <1>10, <1>12
<1> QED
  BY <1>5, <1>6, <1>12, <1>13, <1>14 DEF w, b

\* What goes out again is ordered, from the block that is missing to the last that went out.
LEMMA AgainJoined ==
    ASSUME NEW q \in OutType, q.desde <= q.hechos, NEW anew \in BOOLEAN,
           anew => marcha[From] /\ q.desde = 0,
           q.llave => q.hechos > 0
    PROVE  LET w == Again(q, anew)
           IN  /\ Joined(w)
               /\ w # <<>> => \/ anew /\ w[1].m = "inicio"
                              \/ ~ anew /\ w[1].n = q.desde /\ w[1].id = q.id
               /\ ~ q.llave => IF w = <<>> THEN ~ anew /\ q.desde = q.hechos
                               ELSE /\ w[Len(w)].id = q.id
                                    /\ \/ w[Len(w)].m = "inicio" /\ q.hechos = 0
                                       \/ w[Len(w)].m = "bloque" /\ w[Len(w)].n + 1 = q.hechos
<1> DEFINE w == Again(q, anew)
           b == q.hechos - q.desde
<1>1. q.id \in KeyType /\ q.id \in Nat /\ q.hechos \in Nat /\ q.desde \in Nat /\ b \in Nat
  BY DEF OutType, KeyType
<1>2. PICK a \in {0, 1}, c \in {0, 1} :
          /\ (a = 1) <=> anew
          /\ c = 1 => q.llave
          /\ w \in Seq(MessageType) /\ Len(w) = a + b + c
          /\ \A i \in 1 .. Len(w) :
                /\ i <= a => w[i] = Inicio(q.id)
                /\ i > a /\ i <= a + b => w[i] = Bloque(q.id, q.desde + (i - a) - 1)
                /\ i > a + b => w[i] = Archivo(q.id, q.hechos)
  BY AgainParts
<1>3. w = <<>> <=> Len(w) = 0
  BY <1>2, Singles, EmptyIn
<1>4. q.hechos = q.desde + b /\ (c = 1 /\ anew => b > 0)
  BY <1>1, <1>2
<1> HIDE DEF w, b
<1>5. ASSUME NEW i \in 1 .. Len(w)
      PROVE  /\ w[i].id = q.id
             /\ i <= a => i = 1 /\ anew /\ w[i].m = "inicio"
             /\ i > a /\ i <= a + b => w[i].m = "bloque" /\ w[i].n = q.desde + (i - a) - 1
             /\ i > a + b => w[i].m = "archivo" /\ w[i].n = q.hechos /\ i = Len(w) /\ c = 1
  BY <1>1, <1>2 DEF Inicio, Bloque, Archivo
<1>6. ASSUME NEW k \in 1 .. Len(w), NEW l \in 1 .. Len(w), k < l PROVE Before(w[k], w[l])
  <2>1. ~ (l <= a) /\ ~ (k > a + b)
    BY <1>1, <1>2, <1>6
  <2>2. w[l].m # "inicio" /\ w[k].m # "archivo"
    <3>1. l > a /\ (l <= a + b \/ l > a + b) /\ (k <= a \/ (k > a /\ k <= a + b))
      BY <1>1, <1>2, <2>1
    <3>2. w[l].m \in {"bloque", "archivo"}
      BY <1>5, <3>1
    <3>3. w[k].m \in {"inicio", "bloque"}
      BY <1>5, <3>1
    <3> QED
      BY <3>2, <3>3
  <2> QED
    BY <1>1, <1>5, <2>2 DEF Before
<1>7. ASSUME NEW k \in 1 .. Len(w), k > 1 PROVE Follows(w[k - 1], w[k])
  <2> DEFINE j == k - 1
  <2>1. j \in 1 .. Len(w) /\ k = j + 1 /\ j \in Nat
    BY <1>1, <1>2, <1>7
  <2> HIDE DEF j
  <2>2. ~ (k <= a) /\ ~ (j > a + b)
    BY <1>1, <1>2, <2>1
  <2>3. CASE j <= a
    <3>1. j = 1 /\ anew /\ a = 1 /\ w[j].m = "inicio" /\ w[j].id = q.id
      BY <1>2, <1>5, <2>1, <2>3
    <3>2. k > a /\ k <= a + b /\ q.desde = 0
      BY <1>1, <1>2, <1>4, <2>1, <3>1
    <3>3. w[k].m = "bloque" /\ w[k].n = 0 /\ w[k].id = q.id
      BY <1>1, <1>5, <2>1, <3>1, <3>2
    <3> QED
      BY <3>1, <3>3 DEF Follows, j
  <2>4. CASE ~ (j <= a)
    <3>1. w[j].m = "bloque" /\ w[j].n = q.desde + (j - a) - 1 /\ w[j].id = q.id
      <4>1. j > a /\ j <= a + b
        BY <1>1, <2>1, <2>2, <2>4
      <4>2. \A i \in 1 .. Len(w) : i > a /\ i <= a + b =>
               w[i].m = "bloque" /\ w[i].n = q.desde + (i - a) - 1 /\ w[i].id = q.id
        BY <1>5
      <4> QED
        BY <2>1, <4>1, <4>2
    <3>2. CASE k <= a + b
      <4>1. w[k].m = "bloque" /\ w[k].n = q.desde + (k - a) - 1 /\ w[k].id = q.id
        <5>1. k > a
          BY <1>1, <1>2, <2>2
        <5> QED
          BY <1>5, <3>2, <5>1
      <4>2. w[k].n = w[j].n + 1
        <5>1. q.desde \in Nat /\ a \in Nat /\ j \in Nat /\ k = j + 1
          BY <1>1, <1>2, <2>1
        <5>2. w[k].n = q.desde + (k - a) - 1 /\ w[j].n = q.desde + (j - a) - 1
          BY <3>1, <4>1
        <5>3. q.desde + (k - a) - 1 = q.desde + (j - a) - 1 + 1
          BY <5>1
        <5> QED
          BY <5>2, <5>3
      <4> QED
        BY <3>1, <4>1, <4>2 DEF Follows, j
    <3>3. CASE ~ (k <= a + b)
      <4>1. w[k].m = "archivo" /\ w[k].n = q.hechos /\ w[k].id = q.id /\ j = a + b
        BY <1>1, <1>2, <1>5, <2>1, <2>2, <3>3
      <4>2. w[k].n = w[j].n + 1
        BY <1>1, <1>2, <1>4, <2>1, <3>1, <4>1
      <4> QED
        BY <3>1, <4>1, <4>2 DEF Follows, j
    <3> QED
      BY <3>2, <3>3
  <2> QED
    BY <2>3, <2>4
<1>8. ASSUME w # <<>> PROVE \/ anew /\ w[1].m = "inicio"
                            \/ ~ anew /\ w[1].n = q.desde /\ w[1].id = q.id
  <2>1. 1 \in 1 .. Len(w)
    BY <1>1, <1>2, <1>3, <1>8
  <2>2. CASE anew
    BY <1>2, <1>5, <2>1, <2>2
  <2>3. CASE ~ anew
    <3>1. a = 0 /\ 1 > a
      BY <1>2, <2>3
    <3>2. CASE 1 <= a + b
      BY <1>1, <1>5, <2>1, <2>3, <3>1, <3>2
    <3>3. CASE ~ (1 <= a + b)
      <4>1. b = 0 /\ 1 > a + b
        BY <1>1, <3>1, <3>3
      <4> QED
        BY <1>1, <1>4, <1>5, <2>1, <2>3, <4>1
    <3> QED
      BY <3>2, <3>3
  <2> QED
    BY <2>2, <2>3
<1>9. ASSUME ~ q.llave
      PROVE  IF w = <<>> THEN ~ anew /\ q.desde = q.hechos
             ELSE /\ w[Len(w)].id = q.id
                  /\ \/ w[Len(w)].m = "inicio" /\ q.hechos = 0
                     \/ w[Len(w)].m = "bloque" /\ w[Len(w)].n + 1 = q.hechos
  <2>1. c = 0 /\ Len(w) = a + b
    BY <1>1, <1>2, <1>9
  <2>2. CASE w = <<>>
    <3>1. a = 0 /\ b = 0
      BY <1>1, <1>2, <1>3, <2>1, <2>2
    <3> QED
      BY <1>1, <1>2, <1>4, <2>2, <3>1
  <2>3. CASE w # <<>>
    <3>1. Len(w) \in 1 .. Len(w) /\ ~ (Len(w) > a + b)
      BY <1>1, <1>2, <1>3, <2>1, <2>3
    <3>2. CASE Len(w) <= a
      <4>1. b = 0 /\ anew
        BY <1>1, <1>2, <1>5, <2>1, <3>1, <3>2
      <4>2. q.hechos = 0
        BY <1>1, <1>4, <4>1
      <4> QED
        BY <1>5, <2>3, <3>1, <3>2, <4>2
    <3>3. CASE ~ (Len(w) <= a)
      <4>1. w[Len(w)].m = "bloque" /\ w[Len(w)].n = q.desde + (Len(w) - a) - 1 /\ w[Len(w)].id = q.id
        BY <1>1, <1>2, <1>5, <3>1, <3>3
      <4>2. w[Len(w)].n + 1 = q.hechos
        <5>1. Len(w) - a = b /\ w[Len(w)].n = q.desde + b - 1
          BY <1>1, <2>1, <4>1
        <5> QED
          BY <1>1, <1>4, <5>1
      <4> QED
        BY <2>3, <4>1, <4>2
    <3> QED
      BY <3>2, <3>3
  <2> QED
    BY <2>2, <2>3
<1>10. Joined(w)
  BY <1>6, <1>7 DEF Joined
<1> QED
  BY <1>8, <1>9, <1>10 DEF w
-----------------------------------------------------------------------------
\* Two files of one name keep having one.
LEMMA NamesStay ==
    ASSUME TypeOK, enviados' = enviados \/ \E nombre : enviados' = Arrived(nombre)
    PROVE  NamesDiffer' <=> NamesDiffer
<1>1. CASE enviados' = enviados
  BY <1>1 DEF NamesDiffer
<1>2. ASSUME NEW nombre, enviados' = Arrived(nombre) PROVE NamesDiffer' <=> NamesDiffer
  <2>1. /\ Len(enviados') = Len(enviados)
        /\ \A k \in 1 .. Len(enviados) : enviados'[k].nombre = enviados[k].nombre
    BY <1>2, ArrivedOnly
  <2> QED
    BY <2>1 DEF NamesDiffer
<1> QED
  BY <1>1, <1>2

\* A conversation that was without a key at some moment stays so.
LEMMA KeylessStays ==
    ASSUME TypeOK, mudos \subseteq mudos', count'.full = count.full
    PROVE  Keyless => Keyless'
BY DEF Keyless

\* With less on its way and the same file going out, if any, nothing comes in out of order.
LEMMA LessOnItsWay ==
    ASSUME TypeOK, WellMade, Fresh, Lined, Ahead, OfFile,
           UNCHANGED <<entrada, recibidos>>,
           NamesDiffer' => NamesDiffer,
           Joined(canal'[To]), In(canal'[To]) \subseteq In(canal[To]),
           canal'[To] # <<>> => canal[To] # <<>> /\ canal'[To][1] = canal[To][1],
           salida'.id \in {0, salida.id},
           salida'.id # 0 => salida'.hechos = salida.hechos /\ salida'.llave = salida.llave
    PROVE  Fresh' /\ Lined' /\ Ahead' /\ OfFile'
<1>1. Fresh'
  BY DEF Fresh
<1>2. Lined'
  <2>1. \A x : Enters(x) => Enters(x)'
    BY DEF Enters
  <2> QED
    BY <2>1 DEF Lined
<1>3. \A x \in In(canal'[To]) : x \in In(canal[To]) /\ x.id # 0
  BY DEF WellMade, GoesOut
<1>4. \A r \in In(recibidos) : r # 0
  BY DEF WellMade
<1>5. Ahead'
  BY <1>3, <1>4 DEF Ahead
<1>6. OfFile'
  BY <1>3 DEF OfFile, Sending
<1> QED
  BY <1>1, <1>2, <1>5, <1>6

\* A file goes on as it did when nothing of its way changes.
LEMMA GoesStill ==
    ASSUME Goes, UNCHANGED entrada, NamesDiffer' => NamesDiffer, canal'[To] = canal[To],
           viva' => viva, salida'.id \in {0, salida.id},
           salida'.id # 0 => /\ salida'.hechos = salida.hechos /\ salida'.llave = salida.llave
                             /\ salida.pausada => salida'.pausada
    PROVE  Goes'
<1> SUFFICES ASSUME Sending', ~ salida'.pausada, ~ salida'.llave, viva'
             PROVE  (IF canal[To] = <<>> THEN Expected ELSE LastIs(canal[To][Len(canal[To])]))'
  BY DEF Goes
<1>1. /\ salida'.id = salida.id /\ salida'.hechos = salida.hechos
      /\ IF canal[To] = <<>> THEN Expected ELSE LastIs(canal[To][Len(canal[To])])
  BY DEF Goes, Sending
<1>2. Expected => Expected'
  BY <1>1 DEF Expected
<1>3. \A x : LastIs(x) => LastIs(x)'
  BY <1>1 DEF LastIs
<1> QED
  BY <1>1, <1>2, <1>3

\* What was let go stays there when nothing is received.
LEMMA KeptStill ==
    ASSUME Kept, UNCHANGED <<entrada, recibidos>>, NamesDiffer' => NamesDiffer,
           salida'.id \in {0, salida.id},
           NamesDiffer /\ salida'.id # 0 => Had(salida'.desde),
           \A x \in In(canal'[From]) :
              x \in In(canal[From]) \/ x = Tengo(entrada.id, entrada.sigue, LastReceived),
           entrada.sigue \in Nat
    PROVE  Kept'
<1> SUFFICES ASSUME NamesDiffer', Sending'
             PROVE  /\ Had(salida.desde)'
                    /\ \A x \in In(canal'[From]) : x.m = "tengo" /\ x.id = salida'.id => Had(x.n)'
  BY DEF Kept
<1>1. salida'.id = salida.id /\ salida'.id # 0 /\ Sending
  BY DEF Sending
<1>2. \A n : Had(n)' <=> Had(n)
  BY <1>1 DEF Had, IsHere
<1>3. Had(salida.desde)'
  <2>1. Had(salida'.desde)
    BY <1>1
  <2>2. \A n : n = salida'.desde => Had(n)'
    BY <1>2, <2>1
  <2> QED
    BY <1>1, <2>1, <2>2 DEF Had, IsHere
<1>4. ASSUME NEW x \in In(canal'[From]), x.m = "tengo", x.id = salida'.id PROVE Had(x.n)
  <2>1. CASE x \in In(canal[From])
    BY <1>1, <1>4, <2>1 DEF Kept
  <2>2. CASE x = Tengo(entrada.id, entrada.sigue, LastReceived)
    BY <1>1, <1>4, <2>2 DEF Had, Tengo
  <2> QED
    BY <2>1, <2>2
<1> QED
  BY <1>2, <1>3, <1>4
-----------------------------------------------------------------------------
\* A tail lost leaves an order, and the file stops going out unhindered.
LEMMA NeatDrop == TypeOK /\ Held0 /\ Neat /\ Drop => Neat'
<1> SUFFICES ASSUME TypeOK, Held0, Neat, Drop, Clean' PROVE Tidy'
  BY DEF Neat
<1>1. /\ lista /\ viva' = FALSE
      /\ \E a \in 0 .. Len(canal[From]) : canal'[From] = SubSeq(canal[From], 1, a)
      /\ \E b \in 0 .. Len(canal[To]) : canal'[To] = SubSeq(canal[To], 1, b)
      /\ count' = [count EXCEPT !.drops = @ + 1]
      /\ UNCHANGED <<lista, enlace, marcha, sender, receiver, mudos>>
  BY DropEffect
<1>2. UNCHANGED <<entrada, recibidos, enviados, salida>>
  BY <1>1 DEF sender, receiver
<1>3. Clean
  <2>1. count'.full = count.full
    BY <1>1 DEF TypeOK
  <2> QED
    BY <1>1, <2>1, KeylessStays DEF Clean
<1>4. Fresh /\ Lined /\ Ahead /\ OfFile /\ Goes /\ Kept /\ WellMade
  BY <1>3 DEF Neat, Tidy, Held0
<1>5. canal[From] \in Seq(MessageType) /\ canal[To] \in Seq(MessageType)
  BY DEF TypeOK, Sides, From, To
<1>6. /\ In(canal'[From]) \subseteq In(canal[From]) /\ In(canal'[To]) \subseteq In(canal[To])
  BY <1>1, <1>5, Cuts
<1>7. /\ Joined(canal'[To])
      /\ canal'[To] # <<>> => canal[To] # <<>> /\ canal'[To][1] = canal[To][1]
  BY <1>1, <1>4, <1>5, JoinedCut DEF Lined
<1>8. NamesDiffer' <=> NamesDiffer
  BY <1>2, NamesStay
<1>9. Fresh' /\ Lined' /\ Ahead' /\ OfFile'
  BY <1>2, <1>4, <1>6, <1>7, <1>8, LessOnItsWay
<1>10. Goes'
  BY <1>1 DEF Goes
<1>11. Kept'
  <2>1. NamesDiffer /\ salida'.id # 0 => Had(salida'.desde)
    BY <1>2, <1>4 DEF Kept, Sending
  <2> QED
    BY <1>2, <1>4, <1>6, <1>8, <2>1, KeptStill DEF TypeOK, EntryType
<1> QED
  BY <1>9, <1>10, <1>11 DEF Tidy

\* What the sides find of each other, or the page, leaves the file that comes in as it was.
LEMMA NeatStays ==
    ASSUME TypeOK, Held0, Neat, Clean', lista,
           mudos \subseteq mudos', count'.full = count.full,
           UNCHANGED <<entrada, recibidos>>,
           enviados' = enviados \/ \E nombre : enviados' = Arrived(nombre),
           canal'[To] = canal[To], viva' => viva,
           salida'.id \in {0, salida.id},
           salida'.id # 0 => /\ salida'.hechos = salida.hechos /\ salida'.llave = salida.llave
                             /\ salida.pausada => salida'.pausada,
           Tidy /\ NamesDiffer /\ salida'.id # 0 => Had(salida'.desde),
           \A x \in In(canal'[From]) :
              x \in In(canal[From]) \/ x = Tengo(entrada.id, entrada.sigue, LastReceived)
    PROVE  Tidy'
<1>1. Clean
  BY KeylessStays DEF Clean
<1>2. Fresh /\ Lined /\ Ahead /\ OfFile /\ Goes /\ Kept /\ WellMade /\ Tidy
  BY <1>1 DEF Neat, Tidy, Held0
<1>3. NamesDiffer' <=> NamesDiffer
  BY NamesStay
<1>4. Fresh' /\ Lined' /\ Ahead' /\ OfFile'
  <2>1. Joined(canal'[To])
    BY <1>2 DEF Lined
  <2> QED
    BY <1>2, <1>3, <2>1, LessOnItsWay
<1>5. Goes'
  BY <1>2, <1>3, GoesStill
<1>6. Kept'
  <2>1. entrada.sigue \in Nat
    BY DEF TypeOK, EntryType
  <2> QED
    BY <1>2, <1>3, <2>1, KeptStill
<1> QED
  BY <1>4, <1>5, <1>6 DEF Tidy

\* What moves none of it leaves the order.
LEMMA NeatQuiet ==
    ASSUME TypeOK, Held0, Neat, mudos \subseteq mudos', count'.full = count.full,
           UNCHANGED <<lista, viva, canal, enviados, salida, receiver>>
    PROVE  Neat'
<1> SUFFICES ASSUME Clean' PROVE Tidy'
  BY DEF Neat
<1>1. UNCHANGED <<entrada, recibidos>> /\ lista
  BY DEF receiver, Clean
<1>2. Tidy /\ NamesDiffer /\ salida'.id # 0 => Had(salida'.desde)
  BY DEF Tidy, Kept, Sending
<1> QED
  BY <1>1, <1>2, NeatStays

\* Holding the file back leaves the order.
LEMMA NeatNotice ==
    ASSUME TypeOK, Held0, Neat, NEW s \in Sides, Notice(s)
    PROVE  Neat'
<1> SUFFICES ASSUME Clean' PROVE Tidy'
  BY DEF Neat
<1>1. /\ lista /\ ~ viva
      /\ s = From => salida'.pausada = Sending
      /\ s = To => UNCHANGED salida
      /\ salida'.id = salida.id /\ salida'.hechos = salida.hechos
      /\ salida'.desde = salida.desde /\ salida'.llave = salida.llave
      /\ UNCHANGED <<lista, viva, canal, marcha, enviados, cortado, receiver, count, mudos>>
  BY NoticeEffect
<1>2. UNCHANGED <<entrada, recibidos>>
  BY <1>1 DEF receiver
<1>3. salida'.id # 0 => (salida.pausada => salida'.pausada)
  BY <1>1 DEF Sending, Sides, From, To
<1>4. Tidy /\ NamesDiffer /\ salida'.id # 0 => Had(salida'.desde)
  BY <1>1 DEF Tidy, Kept, Sending
<1> QED
  BY <1>1, <1>2, <1>3, <1>4, NeatStays

\* Finding the other side leaves the order: nothing is on its way.
LEMMA NeatMeet == TypeOK /\ Held0 /\ Neat /\ Meet => Neat'
<1> SUFFICES ASSUME TypeOK, Held0, Neat, Meet, Clean' PROVE Tidy'
  BY DEF Neat
<1>1. /\ lista /\ \A s \in Sides : enlace[s] = "ninguno"
      /\ UNCHANGED <<lista, canal, marcha, sender, receiver, count, mudos>>
  BY DEF Meet
<1>2. UNCHANGED <<entrada, recibidos, enviados, salida>>
  BY <1>1 DEF sender, receiver
<1>3. Clean
  BY <1>1, KeylessStays DEF Clean
<1>4. Fresh /\ Lined /\ Ahead /\ OfFile /\ Goes /\ Kept /\ WellMade
  BY <1>3 DEF Neat, Tidy, Held0
<1>5. NamesDiffer' <=> NamesDiffer
  BY <1>2, NamesStay
<1>6. Fresh' /\ Lined' /\ Ahead' /\ OfFile'
  <2>1. Joined(canal'[To])
    BY <1>1, <1>4 DEF Lined
  <2> QED
    BY <1>1, <1>2, <1>4, <1>5, <2>1, LessOnItsWay
<1>7. Goes'
  <2>1. Sending => salida.pausada
    BY <1>1 DEF Held0, Linked, Sides
  <2> QED
    BY <1>2, <2>1 DEF Goes, Sending
<1>8. Kept'
  <2>1. NamesDiffer /\ salida'.id # 0 => Had(salida'.desde)
    BY <1>2, <1>4 DEF Kept, Sending
  <2> QED
    BY <1>1, <1>2, <1>4, <1>5, <2>1, KeptStill DEF TypeOK, EntryType
<1> QED
  BY <1>6, <1>7, <1>8 DEF Tidy

\* What the side that receives says of its file is what it has of it.
LEMMA NeatResume ==
    ASSUME TypeOK, Held0, Neat, NEW s \in Sides, Resume(s)
    PROVE  Neat'
<1> SUFFICES ASSUME Clean' PROVE Tidy'
  BY DEF Neat
<1> DEFINE x == Tengo(entrada.id, entrada.sigue, LastReceived)
<1>1. /\ lista /\ canal'[To] = canal[To] /\ mudos \subseteq mudos'
      /\ \/ canal'[From] = canal[From]
         \/ viva /\ x \in MessageType /\ canal'[From] = canal[From] \o <<x>>
      /\ UNCHANGED <<lista, viva, marcha, sender, receiver, count>>
  BY ResumeEffect
<1>2. UNCHANGED <<entrada, recibidos, enviados, salida>>
  BY <1>1 DEF sender, receiver
<1>3. canal[From] \in Seq(MessageType)
  BY DEF TypeOK, Sides, From
<1>4. \A y \in In(canal'[From]) : y \in In(canal[From]) \/ y = x
  <2>1. x \in MessageType => In(canal[From] \o <<x>>) = In(canal[From]) \cup {x}
    BY <1>3, OneMore
  <2> HIDE DEF x
  <2> QED
    BY <1>1, <2>1
<1>5. Tidy /\ NamesDiffer /\ salida'.id # 0 => Had(salida'.desde)
  BY <1>2 DEF Tidy, Kept, Sending
<1> QED
  BY <1>1, <1>2, <1>4, <1>5, NeatStays
-----------------------------------------------------------------------------
\* If the file going out is there, the other side says so when it is asked.
LEMMA HereIsSaid ==
    ASSUME TypeOK, WellMade, Ahead, Sending, IsHere(salida.id)
    PROVE  /\ salida.llave /\ LastReceived = salida.id
           /\ NameOf(entrada.id) # NameOf(salida.id)
<1>1. salida.id = Len(enviados) /\ salida.id \in 1 .. Len(enviados) /\ Len(enviados) \in Nat
  BY Rows DEF WellMade, Sending
<1>2. salida.id \in In(recibidos)
  BY HereIn
<1>3. salida.llave /\ (Opens(entrada) => salida.id < entrada.id)
  BY <1>2 DEF Ahead
<1>4. NameOf(entrada.id) # NameOf(salida.id)
  <2> SUFFICES ASSUME NameOf(entrada.id) = NameOf(salida.id) PROVE FALSE
    OBVIOUS
  <2>1. entrada.id \in 0 .. Len(enviados)
    BY <1>1 DEF WellMade, TypeOK, EntryType, KeyType
  <2>2. entrada.id # 0
    BY <1>1, <2>1, SameName
  <2> QED
    BY <1>1, <1>3, <2>1, <2>2 DEF Opens
<1>5. LastReceived = salida.id
  <2>1. PICK k \in 1 .. Len(recibidos) : recibidos[k] = salida.id
    BY DEF IsHere
  <2>2. Len(recibidos) \in Nat /\ recibidos # <<>>
    <3>1. recibidos \in Seq(KeyType)
      BY DEF TypeOK
    <3>2. Len(recibidos) \in Nat /\ (recibidos = <<>> => Len(recibidos) = 0)
      <4> HIDE DEF KeyType
      <4> QED
        BY <3>1
    <3> QED
      BY <2>1, <3>2
  <2> DEFINE n == Len(recibidos)
  <2>3. n \in 1 .. Len(recibidos) /\ k <= n
    BY <2>1, <2>2
  <2>4. recibidos[n] \in In(recibidos) /\ recibidos[n] \in 1 .. Len(enviados)
    BY <2>3 DEF In, WellMade
  <2>5. ~ (k < n)
    <3> SUFFICES ASSUME k < n PROVE FALSE
      OBVIOUS
    <3>1. salida.id < recibidos[n]
      BY <2>1, <2>3 DEF Ahead
    <3> QED
      BY <1>1, <2>4, <3>1
  <2>6. k = n
    BY <2>1, <2>2, <2>3, <2>5
  <2> QED
    BY <2>1, <2>2, <2>6 DEF LastReceived
<1> QED
  BY <1>3, <1>4, <1>5

\* What goes on after a drop is what the other side expects.
LEMMA NeatGoesOn ==
    ASSUME TypeOK, Held0, Ended, Tidy, Clean', NEW q \in MessageType,
           q = Tengo(entrada.id, entrada.sigue, LastReceived), q \in In(canal[From]),
           GoesOn(q), canal[To] = <<>>, enlace[From] = "vivo",
           In(canal'[From]) \subseteq In(canal[From]),
           UNCHANGED <<enlace, viva, entrada, recibidos>>
    PROVE  Tidy'
<1> DEFINE left == LetGo(salida, Lacks(q))
           anew == NameOf(q.id) # NameOf(salida.id)
           w == Again(left, anew)
<1>1. /\ Sending /\ salida.pausada /\ (~ anew \/ ~ SaysWhole(q))
      /\ left.desde = Lacks(q)
      /\ salida' = [left EXCEPT !.pausada = FALSE]
      /\ UNCHANGED <<enviados, cortado>>
      /\ w \in Seq(MessageType)
      /\ canal'[To] = IF Travels(From) THEN canal[To] \o w ELSE canal[To]
      /\ anew => marcha[From]
  BY DEF GoesOn, Clean, Keyless
<1>2. q.n = entrada.sigue /\ q.id = entrada.id /\ q.ultimo = LastReceived /\ q.n \in Nat
  BY DEF Tengo, TypeOK, EntryType
<1>3. Lacks(q) \in Nat /\ (anew => Lacks(q) = 0) /\ (~ anew => Lacks(q) = entrada.sigue)
  BY <1>2 DEF Lacks
<1>4. /\ left \in OutType /\ left.desde <= left.hechos /\ left.id = salida.id
      /\ left.hechos = salida.hechos /\ left.llave = salida.llave
  <2>1. salida \in OutType /\ salida.desde <= salida.hechos
    BY DEF TypeOK
  <2> QED
    BY <1>3, <2>1, LetGoType
<1>5. anew \in BOOLEAN
  OBVIOUS
<1>6. Fresh /\ Lined /\ Ahead /\ OfFile /\ Goes /\ Kept /\ WellMade
  BY DEF Tidy, Held0
<1>7. salida.id = Len(enviados) /\ salida.id \in 1 .. Len(enviados) /\ Len(enviados) \in Nat
  BY <1>1, <1>6, Rows DEF WellMade, Sending
<1>8. entrada.id \in 0 .. Len(enviados)
  BY <1>6, <1>7 DEF WellMade, TypeOK, EntryType, KeyType
<1>9. ~ anew => Opens(entrada) /\ (NamesDiffer => entrada.id = salida.id)
  BY <1>2, <1>7, <1>8, SameName DEF Opens
<1>10. anew => entrada.id < salida.id
  <2>1. entrada.id = salida.id => ~ anew
    BY <1>2
  <2> QED
    BY <1>7, <1>8, <2>1
<1> HIDE DEF left, anew, w
<1>11. /\ Joined(w)
       /\ w # <<>> => \/ anew /\ w[1].m = "inicio"
                      \/ ~ anew /\ w[1].n = left.desde /\ w[1].id = left.id
       /\ ~ left.llave => IF w = <<>> THEN ~ anew /\ left.desde = left.hechos
                          ELSE /\ w[Len(w)].id = left.id
                               /\ \/ w[Len(w)].m = "inicio" /\ left.hechos = 0
                                  \/ w[Len(w)].m = "bloque" /\ w[Len(w)].n + 1 = left.hechos
  <2>1. anew => marcha[From] /\ left.desde = 0
    BY <1>1, <1>3
  <2>2. left.llave => left.hechos > 0
    BY <1>4 DEF Ended
  <2> QED
    BY <1>4, <1>5, <2>1, <2>2, AgainJoined DEF w
<1>12. \A x \in In(w) :
          /\ x.id = left.id /\ x.m \in {"inicio", "bloque", "archivo"}
          /\ x.m = "inicio" => anew
          /\ x.m = "bloque" => x.n < left.hechos
          /\ x.m = "archivo" => x.n = left.hechos /\ left.llave
  BY <1>4, <1>5, AgainIn DEF w
<1>13. /\ salida'.id = salida.id /\ salida'.hechos = salida.hechos
       /\ salida'.llave = salida.llave /\ salida'.desde = Lacks(q)
  BY <1>1, <1>4 DEF OutType
<1>14. canal'[To] = <<>> \/ canal'[To] = w
  <2>1. <<>> \o w = w
    BY <1>1
  <2> QED
    BY <1>1, <2>1
<1>15. viva => canal'[To] = w
  <2>1. <<>> \o w = w
    BY <1>1
  <2> QED
    BY <1>1, <2>1 DEF Travels
<1>16. In(<<>>) = {} /\ Len(<<>>) = 0
  BY Singles
<1>17. \A x \in In(canal'[To]) : x \in In(w)
  BY <1>14, <1>16
<1>18. NamesDiffer' <=> NamesDiffer
  BY <1>1, NamesStay
<1>19. salida.id \notin In(recibidos)
  <2> SUFFICES ASSUME salida.id \in In(recibidos) PROVE FALSE
    OBVIOUS
  <2>1. /\ salida.llave /\ LastReceived = salida.id
        /\ NameOf(entrada.id) # NameOf(salida.id)
    BY <1>1, <1>6, HereIn, HereIsSaid
  <2>2. SaysWhole(q)
    BY <1>2, <2>1 DEF SaysWhole
  <2> QED
    BY <1>1, <1>2, <2>1, <2>2 DEF anew
<1>20. Fresh'
  BY <1>6 DEF Fresh
<1>21. Lined'
  <2>1. Joined(canal'[To])
    <3>1. Joined(<<>>)
      BY <1>16 DEF Joined
    <3> QED
      BY <1>11, <1>14, <3>1
  <2>2. ASSUME canal'[To] # <<>>, NEW x, x = canal'[To][1] PROVE Enters(x)'
    <3>1. canal'[To] = w /\ w # <<>>
      BY <1>14, <2>2
    <3>2. CASE anew
      <4>1. w[1].m = "inicio"
        BY <1>11, <3>1, <3>2
      <4> QED
        BY <2>2, <3>1, <4>1 DEF Enters
    <3>3. CASE ~ anew
      <4>1. w[1].n = entrada.sigue /\ w[1].id = salida.id
        BY <1>1, <1>3, <1>4, <1>11, <3>1, <3>3
      <4> QED
        BY <1>9, <1>13, <1>18, <2>2, <3>1, <3>3, <4>1 DEF Enters, Opens
    <3> QED
      BY <3>2, <3>3
  <2> QED
    BY <2>1, <2>2 DEF Lined, Enters
<1>22. Ahead'
  <2>1. \A r \in In(recibidos) : r < salida.id
    BY <1>6, <1>7, <1>19 DEF WellMade
  <2> QED
    BY <1>4, <1>6, <1>12, <1>13, <1>17, <2>1 DEF Ahead, Opens
<1>23. OfFile'
  BY <1>4, <1>6, <1>10, <1>12, <1>13, <1>17 DEF OfFile, Sending
<1>24. Goes'
  <2> SUFFICES ASSUME ~ salida.llave, viva
               PROVE  (IF canal[To] = <<>> THEN Expected ELSE LastIs(canal[To][Len(canal[To])]))'
    BY <1>13 DEF Goes
  <2>1. CASE w = <<>>
    <3>1. ~ anew /\ left.desde = left.hechos /\ canal'[To] = <<>>
      BY <1>4, <1>11, <1>15, <2>1
    <3>2. Expected'
      BY <1>1, <1>3, <1>4, <1>9, <1>13, <1>18, <3>1 DEF Expected, Opens
    <3> QED
      BY <3>1, <3>2
  <2>2. CASE w # <<>>
    <3>1. canal'[To] = w
      BY <1>15
    <3>2. /\ w[Len(w)].id = salida.id
          /\ \/ w[Len(w)].m = "inicio" /\ salida.hechos = 0
             \/ w[Len(w)].m = "bloque" /\ w[Len(w)].n + 1 = salida.hechos
      BY <1>4, <1>11, <2>2
    <3> QED
      BY <1>13, <2>2, <3>1, <3>2 DEF LastIs
  <2> QED
    BY <2>1, <2>2
<1>25. Kept'
  <2>1. NamesDiffer /\ salida'.id # 0 => Had(salida'.desde)
    BY <1>3, <1>9, <1>13, <1>2 DEF Had
  <2> QED
    BY <1>6, <1>13, <1>18, <2>1, KeptStill DEF TypeOK, EntryType
<1> QED
  BY <1>20, <1>21, <1>22, <1>23, <1>24, <1>25 DEF Tidy
-----------------------------------------------------------------------------
\* A confirmation lets go of no more than what is confirmed.
LEMMA LetGoBounds ==
    ASSUME NEW s \in OutType, NEW n \in Nat, s.desde <= s.hechos
    PROVE  /\ LetGo(s, n).desde <= s.desde \/ LetGo(s, n).desde <= n
           /\ s.desde <= n /\ n <= s.hechos => LetGo(s, n).desde = n
           /\ LetGo(s, n).desde \in Nat
<1> DEFINE d == IF KeptFrom(s.desde, n) > s.hechos THEN s.hechos ELSE KeptFrom(s.desde, n)
<1>1. s.hechos \in Nat /\ s.desde \in Nat
  BY DEF OutType
<1>2. /\ d \in Nat /\ (d <= s.desde \/ d <= n)
      /\ s.desde <= n /\ n <= s.hechos => d = n
  BY <1>1 DEF KeptFrom
<1>3. LetGo(s, n) = [s EXCEPT !.desde = d]
  BY DEF LetGo
<1> HIDE DEF d
<1>4. LetGo(s, n).desde = d
  BY <1>3 DEF OutType
<1> QED
  BY <1>2, <1>4

\* Who has the first blocks has the fewer first ones.
LEMMA HadLess ==
    ASSUME TypeOK, NEW n \in Nat, NEW k \in Nat, k <= n, Had(n)
    PROVE  Had(k)
BY DEF Had, TypeOK, EntryType

\* The side that sends has heard a `tengo`, and what it goes by is what the other side has.
LEMMA TengoHeard ==
    ASSUME TypeOK, Held0, Hears(From), Message(From).m = "tengo"
    PROVE  LET q == Message(From)
           IN  /\ lista /\ enlace[From] = "vivo" /\ q \in MessageType /\ q \in In(canal[From])
               /\ In(Tail(canal[From])) \subseteq In(canal[From])
               /\ q.id \in 0 .. Len(enviados) /\ Len(enviados) \in Nat
               /\ Sending => salida.id \in 1 .. Len(enviados)
               /\ salida.pausada => /\ q = Tengo(entrada.id, entrada.sigue, LastReceived)
                                    /\ canal[To] = <<>>
<1> DEFINE q == Message(From)
<1>1. From \in Sides
  BY DEF From, Sides
<1>2. /\ lista /\ enlace[From] = "vivo" /\ q \in MessageType /\ q \in In(canal[From])
      /\ In(Tail(canal[From])) \subseteq In(canal[From])
  BY <1>1, Heard
<1>3. q.m = "tengo"
  OBVIOUS
<1> HIDE DEF q
<1>4. q.id \in 0 .. Len(enviados) /\ Len(enviados) \in Nat
  BY <1>2, <1>3, Rows DEF Held0, WellMade, GoesBack
<1>5. Sending => salida.id \in 1 .. Len(enviados)
  BY <1>4 DEF Held0, WellMade, Sending
<1>6. salida.pausada => q = Tengo(entrada.id, entrada.sigue, LastReceived) /\ canal[To] = <<>>
  BY <1>2 DEF Held0, Waits
<1> QED
  BY <1>2, <1>4, <1>5, <1>6 DEF q

\* A file goes out again from the block that is missing, behind what arrived.
LEMMA NeatTengo == TypeOK /\ Held0 /\ Ended /\ Neat /\ ReadTengo => Neat'
<1> SUFFICES ASSUME TypeOK, Held0, Ended, Neat, ReadTengo, Clean' PROVE Tidy'
  BY DEF Neat
<1> DEFINE q == Message(From)
<1>1. /\ Hears(From) /\ q.m = "tengo"
      /\ canal'[From] = Tail(canal[From]) /\ UNCHANGED <<wires, receiver>>
      /\ mudos \subseteq mudos'
      /\ Lets(q) \/ ItIsThere(q) \/ GivesUp(q) \/ GoesOn(q)
  BY TengoEffect
<1>2. /\ lista /\ enlace[From] = "vivo" /\ q \in MessageType /\ q \in In(canal[From])
      /\ In(Tail(canal[From])) \subseteq In(canal[From])
      /\ q.id \in 0 .. Len(enviados) /\ Len(enviados) \in Nat
      /\ Sending => salida.id \in 1 .. Len(enviados)
      /\ salida.pausada => /\ q = Tengo(entrada.id, entrada.sigue, LastReceived)
                           /\ canal[To] = <<>>
  BY <1>1, TengoHeard
<1> HIDE DEF q
<1>3. UNCHANGED <<lista, enlace, viva, count, entrada, recibidos>>
  BY <1>1 DEF wires, receiver
<1>4. In(canal'[From]) \subseteq In(canal[From])
  BY <1>1, <1>2
<1>5. Clean
  BY <1>1, <1>3, KeylessStays DEF Clean
<1>6. Tidy
  BY <1>5 DEF Neat
<1>7. salida \in OutType /\ salida.desde <= salida.hechos /\ q.n \in Nat
  BY <1>2 DEF TypeOK, MessageType
<1>8. CASE GoesOn(q)
  BY <1>2, <1>3, <1>4, <1>6, <1>8, NeatGoesOn DEF GoesOn
<1>9. CASE GivesUp(q) \/ ItIsThere(q)
  <2>1. salida' = NoFile /\ canal'[To] = canal[To]
        /\ (enviados' = enviados \/ \E nombre : enviados' = Arrived(nombre))
    BY <1>9 DEF GivesUp, ItIsThere
  <2>2. salida'.id = 0
    BY <2>1 DEF NoFile
  <2> QED
    BY <1>1, <1>2, <1>3, <1>4, <2>1, <2>2, NeatStays
<1>10. CASE Lets(q)
  <2>1. UNCHANGED enviados /\ canal'[To] = canal[To]
    BY <1>10 DEF Lets
  <2>2. /\ salida'.id = salida.id /\ salida'.hechos = salida.hechos
        /\ salida'.llave = salida.llave /\ salida'.pausada = salida.pausada
    BY <1>7, <1>10, LetGoType DEF Lets
  <2>3. ASSUME NamesDiffer, salida'.id # 0 PROVE Had(salida'.desde)
    <3>1. Had(salida.desde) /\ salida.desde \in Nat /\ Sending
      BY <1>6, <1>7, <2>2, <2>3 DEF Tidy, Kept, Sending, OutType
    <3>2. CASE salida' = salida
      BY <3>1, <3>2
    <3>3. CASE NameOf(q.id) = NameOf(salida.id) /\ salida' = LetGo(salida, q.n)
      <4>1. q.id = salida.id
        BY <1>2, <2>3, <3>1, <3>3, SameName
      <4>2. Had(q.n)
        BY <1>1, <1>2, <1>6, <2>3, <3>1, <4>1 DEF Tidy, Kept
      <4>3. /\ salida'.desde <= salida.desde \/ salida'.desde <= q.n
            /\ salida'.desde \in Nat
        BY <1>7, <3>3, LetGoBounds
      <4> QED
        BY <1>7, <3>1, <4>2, <4>3, HadLess
    <3> QED
      BY <1>10, <3>2, <3>3 DEF Lets
  <2> QED
    BY <1>1, <1>2, <1>3, <1>4, <2>1, <2>2, <2>3, NeatStays
<1> QED
  BY <1>1, <1>8, <1>9, <1>10

\* An «it is here» forgets only a file that is there.
LEMMA NeatOk == TypeOK /\ Held0 /\ Neat /\ ReadOk => Neat'
<1> SUFFICES ASSUME TypeOK, Held0, Neat, ReadOk, Clean' PROVE Tidy'
  BY DEF Neat
<1> DEFINE q == Message(From)
<1>1. /\ Hears(From)
      /\ canal'[From] = Tail(canal[From]) /\ canal'[To] = canal[To]
      /\ enviados' = Arrived(NameOf(q.id))
      /\ salida' = NoFile \/ salida' = salida
      /\ mudos \subseteq mudos'
      /\ UNCHANGED <<wires, envio, cortado, receiver>>
  BY OkEffect
<1>2. lista /\ In(Tail(canal[From])) \subseteq In(canal[From])
  <2>1. From \in Sides
    BY DEF From, Sides
  <2> QED
    BY <1>1, <2>1, Heard
<1> HIDE DEF q
<1>3. UNCHANGED <<lista, viva, count, entrada, recibidos>>
  BY <1>1 DEF wires, receiver
<1>4. /\ salida'.id \in {0, salida.id}
      /\ salida'.id # 0 => salida' = salida
  BY <1>1 DEF NoFile
<1>5. Tidy /\ NamesDiffer /\ salida'.id # 0 => Had(salida'.desde)
  BY <1>4 DEF Tidy, Kept, Sending
<1> QED
  BY <1>1, <1>2, <1>3, <1>4, <1>5, NeatStays

\* What the other side lacks is still here, so the file goes on.
LEMMA NotGivenUp ==
    ASSUME TypeOK, Held0, Tidy, NamesDiffer, NEW q, q = Message(From),
           Hears(From), q.m = "tengo"
    PROVE  ~ GivesUp(q)
<1> SUFFICES ASSUME GivesUp(q) PROVE FALSE
  OBVIOUS
<1>1. /\ Sending /\ salida.pausada /\ (NameOf(q.id) = NameOf(salida.id) \/ ~ SaysWhole(q))
      /\ LetGo(salida, Lacks(q)).desde # Lacks(q)
  BY DEF GivesUp
<1>2. /\ q = Tengo(entrada.id, entrada.sigue, LastReceived)
      /\ salida.id \in 1 .. Len(enviados) /\ q.id \in 0 .. Len(enviados)
  BY <1>1, TengoHeard
<1>3. q.n = entrada.sigue /\ q.id = entrada.id /\ q.ultimo = LastReceived /\ q.n \in Nat
  BY <1>2 DEF Tengo, TypeOK, EntryType
<1>4. Kept /\ OfFile /\ Ahead /\ WellMade
  BY DEF Tidy, Held0
<1>5. salida \in OutType /\ salida.desde <= salida.hechos
  BY DEF TypeOK
<1>6. ~ IsHere(salida.id)
  <2> SUFFICES ASSUME IsHere(salida.id) PROVE FALSE
    OBVIOUS
  <2>1. /\ salida.llave /\ LastReceived = salida.id
        /\ NameOf(entrada.id) # NameOf(salida.id)
    BY <1>1, <1>4, HereIsSaid
  <2> QED
    BY <1>1, <1>3, <2>1 DEF SaysWhole
<1>7. salida.desde = 0 \/ (entrada.id = salida.id /\ salida.desde <= entrada.sigue)
  BY <1>1, <1>4, <1>6 DEF Kept, Had
<1>8. CASE NameOf(q.id) = NameOf(salida.id)
  <2>1. entrada.id = salida.id
    BY <1>2, <1>3, <1>8, SameName
  <2>2. entrada.sigue <= salida.hechos /\ salida.desde <= entrada.sigue
    BY <1>1, <1>3, <1>4, <1>7, <2>1 DEF OfFile
  <2>3. Lacks(q) = entrada.sigue
    BY <1>3, <1>8 DEF Lacks
  <2> QED
    BY <1>1, <1>3, <1>5, <2>2, <2>3, LetGoBounds
<1>9. CASE NameOf(q.id) # NameOf(salida.id)
  <2>1. entrada.id # salida.id
    BY <1>3, <1>9
  <2>2. salida.desde = 0 /\ Lacks(q) = 0
    BY <1>7, <1>9, <2>1 DEF Lacks
  <2>3. 0 <= salida.hechos /\ 0 \in Nat
    BY <1>5 DEF OutType
  <2> QED
    BY <1>1, <1>5, <2>2, <2>3, LetGoBounds
<1> QED
  BY <1>8, <1>9
-----------------------------------------------------------------------------
\* A file that starts goes behind the others.
LEMMA NeatStart ==
    ASSUME TypeOK, Held0, Neat, NEW nombre \in Names, Start(nombre)
    PROVE  Neat'
<1> SUFFICES ASSUME Clean' PROVE Tidy'
  BY DEF Neat
<1> DEFINE id == Len(enviados) + 1
           z == Inicio(id)
<1>1. /\ lista /\ Len(enviados) \in Nat
      /\ salida'.id = id /\ salida'.hechos = 0 /\ salida'.desde = 0 /\ ~ salida'.llave
      /\ (salida'.pausada <=> enlace[From] = "ninguno")
      /\ canal'[From] = canal[From]
      /\ canal'[To] = IF Travels(From) /\ marcha[From] THEN canal[To] \o <<z>> ELSE canal[To]
      /\ z \in MessageType
      /\ mudos \subseteq mudos' /\ (~ marcha[From] => "inicio" \in mudos')
      /\ Len(enviados') = id
      /\ \A i \in 1 .. Len(enviados) : enviados'[i] = enviados[i]
      /\ UNCHANGED <<wires, cortado, receiver>>
  BY StartEffect
<1>2. id = Len(enviados) + 1 /\ z.id = id /\ z.m = "inicio" /\ \A x : Follows(x, z)
  BY DEF Inicio, Follows
<1> HIDE DEF id, z
<1>3. UNCHANGED <<lista, viva, count, entrada, recibidos>>
  BY <1>1 DEF wires, receiver
<1>4. Clean /\ marcha[From]
  BY <1>1, <1>3, KeylessStays DEF Clean, Keyless
<1>5. Fresh /\ Lined /\ Ahead /\ OfFile /\ Goes /\ Kept /\ WellMade
  BY <1>4 DEF Neat, Tidy, Held0
<1>6. NamesDiffer' => NamesDiffer
  <2>1. \A i \in 1 .. Len(enviados) : i \in 1 .. Len(enviados') /\ enviados'[i] = enviados[i]
    BY <1>1, <1>2
  <2> QED
    BY <2>1 DEF NamesDiffer
<1>7. canal[To] \in Seq(MessageType) /\ canal[From] \in Seq(MessageType)
  BY DEF TypeOK, Sides, To, From
<1>8. \A x \in In(canal[To]) : x.id \in 1 .. Len(enviados)
  BY <1>5 DEF WellMade, GoesOut
<1>9. /\ Joined(canal[To] \o <<z>>) /\ canal[To] \o <<z>> # <<>>
      /\ (canal[To] \o <<z>>)[1] = IF canal[To] = <<>> THEN z ELSE canal[To][1]
  <2>1. \A x \in In(canal[To]) : Before(x, z)
    BY <1>1, <1>2, <1>8 DEF Before
  <2> QED
    BY <1>1, <1>2, <1>5, <1>7, <2>1, JoinedMore DEF Lined
<1>10. /\ In(canal[To] \o <<z>>) = In(canal[To]) \cup {z}
       /\ Len(canal[To] \o <<z>>) = Len(canal[To]) + 1
       /\ (canal[To] \o <<z>>)[Len(canal[To]) + 1] = z
  BY <1>1, <1>7, OneMore
<1>11. \A x \in In(canal'[To]) : x \in In(canal[To]) \/ x = z
  BY <1>1, <1>10
<1>12. \A r \in In(recibidos) : r \in 1 .. Len(enviados)
  BY <1>5 DEF WellMade
<1>13. entrada.id \in 0 .. Len(enviados)
  BY <1>1, <1>5 DEF WellMade, TypeOK, EntryType, KeyType
<1>14. Fresh'
  BY <1>3, <1>5 DEF Fresh
<1>15. Lined'
  <2>1. Joined(canal'[To])
    BY <1>1, <1>5, <1>9 DEF Lined
  <2>2. ASSUME canal'[To] # <<>>, NEW x, x = canal'[To][1] PROVE Enters(x)'
    <3>1. CASE x = z
      BY <1>2, <3>1 DEF Enters
    <3>2. CASE canal[To] # <<>> /\ x = canal[To][1]
      BY <1>3, <1>5, <1>6, <3>2 DEF Lined, Enters
    <3> QED
      BY <1>1, <1>9, <2>2, <3>1, <3>2
  <2> QED
    BY <2>1, <2>2 DEF Lined, Enters
<1>16. Ahead'
  BY <1>1, <1>2, <1>3, <1>5, <1>11, <1>12 DEF Ahead
<1>17. OfFile'
  BY <1>1, <1>2, <1>3, <1>5, <1>8, <1>11, <1>13 DEF OfFile
<1>18. Goes'
  <2> SUFFICES ASSUME ~ salida'.pausada, viva
               PROVE  canal'[To] # <<>> /\ LastIs(canal[To][Len(canal[To])])'
    BY <1>3 DEF Goes
  <2>1. canal'[To] = canal[To] \o <<z>>
    BY <1>1, <1>4 DEF Travels
  <2>2. canal'[To][Len(canal'[To])] = z
    BY <1>10, <2>1
  <2>3. LastIs(canal[To][Len(canal[To])])'
    BY <1>1, <1>2, <2>2 DEF LastIs
  <2> QED
    BY <1>9, <2>1, <2>3
<1>19. Kept'
  <2>1. Had(salida.desde)'
    BY <1>1 DEF Had
  <2>2. \A x \in In(canal'[From]) : x.m = "tengo" => x.id # salida'.id
    BY <1>1, <1>2, <1>5 DEF WellMade, GoesBack
  <2> QED
    BY <2>1, <2>2 DEF Kept
<1> QED
  BY <1>14, <1>15, <1>16, <1>17, <1>18, <1>19 DEF Tidy

\* A block goes out behind the one before it, and the end of the file behind the last.
LEMMA PieceJoined ==
    ASSUME TypeOK, WellMade, Tidy, Sending, ~ salida.llave, ~ salida.pausada, viva,
           NEW block, block = Bloque(salida.id, salida.hechos), block \in MessageType,
           NEW close, close = Archivo(salida.id, salida.hechos + 1), close \in MessageType
    PROVE  /\ Joined(canal[To] \o <<block>>) /\ canal[To] \o <<block>> # <<>>
           /\ (canal[To] \o <<block>>)[1] = IF canal[To] = <<>> THEN block ELSE canal[To][1]
           /\ Joined(canal[To] \o <<block>> \o <<close>>)
           /\ canal[To] \o <<block>> \o <<close>> # <<>>
           /\ (canal[To] \o <<block>> \o <<close>>)[1] = (canal[To] \o <<block>>)[1]
           /\ canal[To] = <<>> => Enters(block)
           /\ \A x \in In(canal[To]) : x.id = salida.id => x.m # "archivo"
<1>1. Lined /\ Ahead /\ OfFile /\ Goes
  BY DEF Tidy
<1>2. canal[To] \in Seq(MessageType)
  BY DEF TypeOK, Sides, To
<1>3. salida.id = Len(enviados) /\ Len(enviados) \in Nat /\ salida.hechos \in Nat
  BY Rows DEF WellMade, Sending, TypeOK, OutType
<1>4. /\ block.m = "bloque" /\ block.id = salida.id /\ block.n = salida.hechos
      /\ close.m = "archivo" /\ close.id = salida.id /\ close.n = salida.hechos + 1
  BY DEF Bloque, Archivo
<1>5. \A x \in In(canal[To]) : x.id = salida.id => x.m # "archivo"
  BY <1>1 DEF OfFile
<1>6. \A x \in In(canal[To]) : Before(x, block) /\ Before(x, close)
  <2>1. \A x \in In(canal[To]) : x.id \in 1 .. Len(enviados)
    BY DEF WellMade, GoesOut
  <2> QED
    BY <1>3, <1>4, <1>5, <2>1 DEF Before
<1>7. IF canal[To] = <<>> THEN Expected ELSE LastIs(canal[To][Len(canal[To])])
  BY <1>1 DEF Goes
<1>8. canal[To] # <<>> => Follows(canal[To][Len(canal[To])], block)
  BY <1>3, <1>4, <1>7 DEF LastIs, Follows
<1>9. /\ Joined(canal[To] \o <<block>>) /\ canal[To] \o <<block>> # <<>>
      /\ (canal[To] \o <<block>>)[1] = IF canal[To] = <<>> THEN block ELSE canal[To][1]
  BY <1>1, <1>2, <1>6, <1>8, JoinedMore DEF Lined
<1> DEFINE w == canal[To] \o <<block>>
<1>10. /\ w \in Seq(MessageType) /\ In(w) = In(canal[To]) \cup {block}
       /\ w[Len(w)] = block
  BY <1>2, OneMore
<1> HIDE DEF w
<1>11. /\ Joined(w \o <<close>>) /\ w \o <<close>> # <<>>
       /\ (w \o <<close>>)[1] = w[1]
  <2>1. \A x \in In(w) : Before(x, close)
    BY <1>3, <1>4, <1>6, <1>10 DEF Before
  <2>2. Follows(w[Len(w)], close)
    BY <1>3, <1>4, <1>10 DEF Follows
  <2> QED
    BY <1>9, <1>10, <2>1, <2>2, JoinedMore DEF w
<1>12. canal[To] = <<>> => Enters(block)
  BY <1>4, <1>7 DEF Expected, Enters
<1> QED
  BY <1>5, <1>9, <1>11, <1>12 DEF w

\* The block that goes out follows the one that went out before.
LEMMA NeatPiece ==
    ASSUME TypeOK, Held0, Neat, NEW ultimo \in BOOLEAN, Piece(ultimo)
    PROVE  Neat'
<1> SUFFICES ASSUME Clean' PROVE Tidy'
  BY DEF Neat
<1> DEFINE block == Bloque(salida.id, salida.hechos)
           close == Archivo(salida.id, salida.hechos + 1)
<1>1. /\ lista /\ Sending /\ ~ salida.llave
      /\ block \in MessageType /\ close \in MessageType
      /\ salida'.id = salida.id /\ salida'.hechos = salida.hechos + 1
      /\ salida'.desde = salida.desde /\ salida'.pausada = salida.pausada
      /\ salida'.llave = ultimo
      /\ canal'[From] = canal[From]
      /\ \/ canal'[To] = canal[To] /\ (salida.pausada \/ ~ Travels(From))
         \/ /\ ~ salida.pausada /\ Travels(From)
            /\ \/ canal'[To] = canal[To] \o <<block>>
               \/ ultimo /\ canal'[To] = canal[To] \o <<block>> \o <<close>>
      /\ mudos \subseteq mudos'
      /\ UNCHANGED <<wires, enviados, cortado, receiver>>
  BY PieceEffect
<1>2. /\ block.m = "bloque" /\ block.id = salida.id /\ block.n = salida.hechos
      /\ close.m = "archivo" /\ close.id = salida.id /\ close.n = salida.hechos + 1
      /\ block = Bloque(salida.id, salida.hechos)
      /\ close = Archivo(salida.id, salida.hechos + 1)
  BY DEF Bloque, Archivo
<1> HIDE DEF block, close
<1>3. UNCHANGED <<lista, enlace, viva, count, entrada, recibidos>>
  BY <1>1 DEF wires, receiver
<1>4. Clean
  BY <1>1, <1>3, KeylessStays DEF Clean
<1>5. Fresh /\ Lined /\ Ahead /\ OfFile /\ Goes /\ Kept /\ WellMade /\ Linked /\ Tidy
  BY <1>4 DEF Neat, Tidy, Held0
<1>6. NamesDiffer' <=> NamesDiffer
  BY <1>1, NamesStay
<1>7. canal[To] \in Seq(MessageType) /\ salida.hechos \in Nat /\ entrada.sigue \in Nat
  BY DEF TypeOK, Sides, To, OutType, EntryType
<1>8. salida.id = Len(enviados) /\ Len(enviados) \in Nat
  BY <1>1, <1>5, Rows DEF WellMade, Sending
<1>9. \A r \in In(recibidos) : r < salida.id
  <2>1. \A r \in In(recibidos) : r \in 1 .. Len(enviados) /\ r # salida.id
    BY <1>1, <1>5 DEF WellMade, Ahead
  <2> QED
    BY <1>8, <2>1
<1>10. \A x : Enters(x) => Enters(x)'
  BY <1>3, <1>6 DEF Enters
<1>11. Fresh'
  BY <1>3, <1>5 DEF Fresh
<1>12. Kept'
  <2>1. NamesDiffer /\ salida'.id # 0 => Had(salida'.desde)
    BY <1>1, <1>5 DEF Kept, Sending
  <2> QED
    BY <1>1, <1>3, <1>5, <1>6, <1>7, <2>1, KeptStill
<1>13. entrada.id = salida.id => entrada.sigue <= salida'.hechos
  BY <1>1, <1>5, <1>7 DEF OfFile
<1>14. CASE canal'[To] = canal[To] /\ (salida.pausada \/ ~ Travels(From))
  <2>1. Lined'
    BY <1>5, <1>10, <1>14 DEF Lined
  <2>2. Ahead'
    BY <1>1, <1>3, <1>5, <1>9, <1>14 DEF Ahead
  <2>3. OfFile'
    <3>1. \A x \in In(canal[To]) : x.id = salida.id /\ x.m = "bloque" => x.n < salida'.hechos
      <4> SUFFICES ASSUME NEW x \in In(canal[To]), x.id = salida.id, x.m = "bloque"
                   PROVE  x.n < salida.hechos + 1
        BY <1>1
      <4>1. x \in MessageType /\ x.n < salida.hechos
        BY <1>5, <1>7 DEF OfFile, In
      <4> QED
        BY <1>7, <4>1 DEF MessageType
    <3> QED
      BY <1>1, <1>3, <1>5, <1>13, <1>14, <3>1 DEF OfFile
  <2>4. Goes'
    BY <1>1, <1>3, <1>5, <1>14 DEF Goes, Travels, Linked
  <2> QED
    BY <1>11, <1>12, <2>1, <2>2, <2>3, <2>4 DEF Tidy
<1>15. CASE /\ ~ salida.pausada /\ Travels(From)
            /\ \/ canal'[To] = canal[To] \o <<block>>
               \/ ultimo /\ canal'[To] = canal[To] \o <<block>> \o <<close>>
  <2> DEFINE w == canal[To] \o <<block>>
  <2>1. /\ Joined(w) /\ w # <<>>
        /\ w[1] = IF canal[To] = <<>> THEN block ELSE canal[To][1]
        /\ Joined(w \o <<close>>) /\ w \o <<close>> # <<>>
        /\ (w \o <<close>>)[1] = w[1]
        /\ canal[To] = <<>> => Enters(block)
        /\ \A x \in In(canal[To]) : x.id = salida.id => x.m # "archivo"
    <3>1. viva /\ WellMade /\ ~ salida.pausada
      BY <1>5, <1>15 DEF Travels
    <3> QED
      BY <1>1, <1>2, <1>5, <3>1, PieceJoined
  <2>2. /\ w \in Seq(MessageType) /\ In(w) = In(canal[To]) \cup {block} /\ w[Len(w)] = block
    <3>1. canal[To] \in Seq(MessageType) /\ block \in MessageType
      BY <1>1, <1>7
    <3>2. /\ w \in Seq(MessageType) /\ In(w) = In(canal[To]) \cup {block}
          /\ Len(w) = Len(canal[To]) + 1 /\ w[Len(canal[To]) + 1] = block
      BY <3>1, OneMore
    <3> HIDE DEF w
    <3> QED
      BY <3>2
  <2> HIDE DEF w
  <2>3. In(w \o <<close>>) = In(w) \cup {close}
    BY <1>1, <2>2, OneMore
  <2>4. canal'[To] = w \/ (ultimo /\ canal'[To] = w \o <<close>>)
    BY <1>15 DEF w
  <2>5. \A x \in In(canal'[To]) : x \in In(canal[To]) \/ x = block \/ (x = close /\ ultimo)
    BY <2>2, <2>3, <2>4
  <2>6. Lined'
    <3>1. Joined(canal'[To]) /\ canal'[To][1] = w[1]
      BY <2>1, <2>4
    <3>2. ASSUME NEW x, x = w[1] PROVE Enters(x)'
      BY <1>5, <1>10, <2>1, <3>2 DEF Lined
    <3> QED
      BY <3>1, <3>2 DEF Lined, Enters
  <2>7. Ahead'
    BY <1>1, <1>2, <1>3, <1>5, <1>9, <2>5 DEF Ahead
  <2>8. OfFile'
    <3>1. \A x \in In(canal[To]) : x.id = salida.id /\ x.m = "bloque" => x.n < salida'.hechos
      <4> SUFFICES ASSUME NEW x \in In(canal[To]), x.id = salida.id, x.m = "bloque"
                   PROVE  x.n < salida.hechos + 1
        BY <1>1
      <4>1. x \in MessageType /\ x.n < salida.hechos
        BY <1>5, <1>7 DEF OfFile, In
      <4> QED
        BY <1>7, <4>1 DEF MessageType
    <3>2. block.n < salida'.hechos /\ close.n = salida'.hechos
      BY <1>1, <1>2, <1>7
    <3>3. \A x \in In(canal'[To]) : x.m = "inicio" => x \in In(canal[To])
      BY <1>2, <2>5
    <3>4. \A x \in In(canal'[To]) : x.id = salida.id /\ x.m = "bloque" => x.n < salida'.hechos
      BY <1>2, <2>5, <3>1, <3>2
    <3>5. \A x \in In(canal'[To]) :
             x.id = salida.id /\ x.m = "archivo" => x.n = salida'.hechos /\ salida'.llave
      BY <1>1, <1>2, <2>1, <2>5, <3>2
    <3> QED
      BY <1>1, <1>3, <1>5, <1>13, <3>3, <3>4, <3>5 DEF OfFile
  <2>9. Goes'
    <3> SUFFICES ASSUME ~ ultimo
                 PROVE  canal'[To] # <<>> /\ LastIs(canal[To][Len(canal[To])])'
      BY <1>1 DEF Goes
    <3>1. canal'[To] = w
      BY <2>4
    <3> QED
      BY <1>1, <1>2, <2>1, <2>2, <3>1 DEF LastIs
  <2> QED
    BY <1>11, <1>12, <2>6, <2>7, <2>8, <2>9 DEF Tidy
<1> QED
  BY <1>1, <1>14, <1>15
-----------------------------------------------------------------------------
\* The first message that travels to the side that receives, and what is behind it.
LEMMA FirstAndRest ==
    ASSUME TypeOK, Lined, Hears(To)
    PROVE  LET q == Message(To)
               t == Tail(canal[To])
           IN  /\ q \in MessageType /\ q \in In(canal[To]) /\ q = canal[To][1]
               /\ canal[To] # <<>> /\ Enters(q)
               /\ Joined(t) /\ In(t) \subseteq In(canal[To])
               /\ \A x \in In(t) : Before(q, x)
               /\ t # <<>> => Follows(q, t[1]) /\ t[Len(t)] = canal[To][Len(canal[To])]
               /\ t = <<>> => canal[To][Len(canal[To])] = q
<1>1. To \in Sides
  BY DEF To, Sides
<1>2. /\ canal[To] \in Seq(MessageType) /\ canal[To] # <<>>
      /\ Message(To) \in MessageType /\ Message(To) = canal[To][1]
      /\ Message(To) \in In(canal[To]) /\ In(Tail(canal[To])) \subseteq In(canal[To])
  BY <1>1, Heard
<1>3. Joined(canal[To]) /\ Enters(canal[To][1])
  BY <1>2 DEF Lined
<1>4. LET t == Tail(canal[To])
      IN  /\ Joined(t)
          /\ \A x \in In(t) : Before(canal[To][1], x)
          /\ t # <<>> => Follows(canal[To][1], t[1]) /\ t[Len(t)] = canal[To][Len(canal[To])]
          /\ t = <<>> => Len(canal[To]) = 1
  BY <1>2, <1>3, JoinedTail
<1> QED
  BY <1>2, <1>3, <1>4

\* A key that begins a file, or the block that is expected, leaves the next one expected.
LEMMA TakesOne ==
    ASSUME TypeOK, Held0, Tidy, Hears(To), NEW q, q = Message(To),
           canal'[To] = Tail(canal[To]),
           UNCHANGED <<viva, sender, recibidos>>,
           entrada'.id = q.id, entrada'.pend = <<>>, entrada'.de = 0,
           \/ q.m = "inicio" /\ entrada'.sigue = 0
           \/ /\ q.m = "bloque" /\ entrada.id = q.id /\ entrada.sigue = q.n
              /\ entrada'.sigue = q.n + 1,
           \A x \in In(canal'[From]) :
              \/ x \in In(canal[From])
              \/ x.m = "tengo" /\ x.id = q.id /\ x.n <= entrada'.sigue
    PROVE  Tidy'
<1> DEFINE t == Tail(canal[To])
<1>1. Fresh /\ Lined /\ Ahead /\ OfFile /\ Goes /\ Kept /\ WellMade
  BY DEF Tidy, Held0
<1>2. /\ q \in MessageType /\ q \in In(canal[To]) /\ canal[To] # <<>>
      /\ Joined(t) /\ In(t) \subseteq In(canal[To])
      /\ \A x \in In(t) : Before(q, x)
      /\ t # <<>> => Follows(q, t[1]) /\ t[Len(t)] = canal[To][Len(canal[To])]
      /\ t = <<>> => canal[To][Len(canal[To])] = q
  BY <1>1, FirstAndRest
<1>3. canal'[To] = t
  OBVIOUS
<1> HIDE DEF t
<1>4. UNCHANGED <<enviados, salida>> /\ q.n \in Nat /\ salida.hechos \in Nat /\ entrada.sigue \in Nat
  BY <1>2 DEF sender, MessageType, TypeOK, OutType, EntryType
<1>5. q.id \in 1 .. Len(enviados) /\ Len(enviados) \in Nat
  BY <1>1, <1>2, Rows DEF WellMade, GoesOut
<1>6. NamesDiffer' <=> NamesDiffer
  BY <1>4, NamesStay
<1>7. Opens(entrada)' /\ q.id # 0
  BY <1>5 DEF Opens
<1>8. Fresh'
  BY DEF Fresh
<1>9. Lined'
  <2>1. ASSUME t # <<>>, NEW x, x = t[1] PROVE Enters(x)'
    <3>1. \/ x.m = "inicio"
          \/ q.m = "inicio" /\ x.n = 0 /\ x.id = q.id
          \/ q.m = "bloque" /\ x.n = q.n + 1 /\ x.id = q.id
      BY <1>2, <2>1 DEF Follows
    <3> QED
      BY <1>7, <3>1 DEF Enters, Opens
  <2> QED
    BY <1>2, <1>3, <2>1 DEF Lined, Enters
<1>10. Ahead'
  BY <1>1, <1>2, <1>3, <1>4 DEF Ahead
<1>11. OfFile'
  <2>1. \A x \in In(t) : x.m = "inicio" => q.id < x.id
    BY <1>2 DEF Before
  <2>2. q.id = salida.id => entrada'.sigue <= salida.hechos
    BY <1>1, <1>2, <1>4 DEF OfFile
  <2> QED
    BY <1>1, <1>2, <1>3, <1>4, <2>1, <2>2 DEF OfFile
<1>12. Goes'
  <2> SUFFICES ASSUME Sending, ~ salida.pausada, ~ salida.llave, viva
               PROVE  (IF canal[To] = <<>> THEN Expected ELSE LastIs(canal[To][Len(canal[To])]))'
    BY <1>4 DEF Goes, Sending
  <2>1. LastIs(canal[To][Len(canal[To])])
    BY <1>1, <1>2 DEF Goes
  <2>2. CASE t = <<>>
    <3>1. LastIs(q)
      BY <1>2, <2>1, <2>2
    <3>2. Expected'
      BY <1>4, <1>7, <3>1 DEF LastIs, Expected
    <3> QED
      BY <1>3, <2>2, <3>2
  <2>3. CASE t # <<>>
    <3>1. LastIs(t[Len(t)])
      BY <1>2, <2>1, <2>3
    <3> QED
      BY <1>3, <1>4, <2>3, <3>1 DEF LastIs
  <2> QED
    BY <2>2, <2>3
<1>13. Kept'
  <2> SUFFICES ASSUME NamesDiffer', Sending'
               PROVE  /\ Had(salida.desde)'
                      /\ \A x \in In(canal'[From]) : x.m = "tengo" /\ x.id = salida'.id => Had(x.n)'
    BY DEF Kept
  <2>1. salida.id = Len(enviados) /\ Sending
    BY <1>1, <1>4 DEF WellMade, Sending
  <2>2. ASSUME NEW n \in Nat, Had(n) PROVE Had(n)'
    <3>1. CASE n = 0 \/ IsHere(salida.id)
      BY <1>4, <3>1 DEF Had, IsHere
    <3>2. CASE entrada.id = salida.id /\ n <= entrada.sigue
      <4>1. q.m # "inicio"
        BY <1>1, <1>2, <1>5, <2>1, <3>2 DEF OfFile
      <4>2. entrada'.id = salida'.id /\ n <= entrada'.sigue
        BY <1>4, <3>2, <4>1
      <4> QED
        BY <4>2 DEF Had
    <3> QED
      BY <2>2, <3>1, <3>2 DEF Had
  <2>3. Had(salida.desde)'
    <3>1. Had(salida.desde) /\ salida.desde \in Nat
      BY <1>1, <1>6, <2>1 DEF Kept, TypeOK, OutType
    <3>2. \A n : n = salida.desde => Had(n)'
      BY <2>2, <3>1
    <3> QED
      BY <1>4, <3>2 DEF Had, IsHere
  <2>4. ASSUME NEW x \in In(canal'[From]), x.m = "tengo", x.id = salida.id PROVE Had(x.n)'
    <3>1. CASE x \in In(canal[From])
      <4>1. Had(x.n)
        BY <1>1, <1>6, <2>1, <2>4, <3>1 DEF Kept
      <4>2. x.n \in Nat
        <5>1. canal[From] \in Seq(MessageType)
          BY DEF TypeOK, Sides, From
        <5>2. x \in MessageType
          BY <3>1, <5>1 DEF In
        <5> QED
          BY <5>2 DEF MessageType
      <4>3. \A n : n = x.n => Had(n)'
        BY <2>2, <4>1, <4>2
      <4> QED
        BY <4>3 DEF Had, IsHere
    <3>2. CASE x.id = q.id /\ x.n <= entrada'.sigue
      BY <1>4, <2>4, <3>2 DEF Had
    <3> QED
      BY <2>4, <3>1, <3>2
  <2> QED
    BY <1>4, <2>3, <2>4
<1> QED
  BY <1>8, <1>9, <1>10, <1>11, <1>12, <1>13 DEF Tidy

\* The end of a file leaves nothing coming in, and the file whole unless two have one name.
LEMMA TakesEnd ==
    ASSUME TypeOK, Held0, Tidy, Hears(To), NEW q, q = Message(To), q.m = "archivo",
           canal'[To] = Tail(canal[To]),
           UNCHANGED <<viva, sender>>,
           entrada' = NoEntry,
           \/ entrada.id = q.id /\ recibidos' = Append(recibidos, q.id)
           \/ entrada.id # q.id /\ recibidos' = recibidos,
           \A x \in In(canal'[From]) : x \in In(canal[From]) \/ x.m # "tengo"
    PROVE  Tidy'
<1> DEFINE t == Tail(canal[To])
<1>1. Fresh /\ Lined /\ Ahead /\ OfFile /\ Goes /\ Kept /\ WellMade
  BY DEF Tidy, Held0
<1>2. /\ q \in MessageType /\ q \in In(canal[To]) /\ canal[To] # <<>> /\ Enters(q)
      /\ Joined(t) /\ In(t) \subseteq In(canal[To])
      /\ \A x \in In(t) : Before(q, x)
      /\ t # <<>> => Follows(q, t[1]) /\ t[Len(t)] = canal[To][Len(canal[To])]
      /\ t = <<>> => canal[To][Len(canal[To])] = q
  BY <1>1, FirstAndRest
<1>3. canal'[To] = t
  OBVIOUS
<1> HIDE DEF t
<1>4. UNCHANGED <<enviados, salida>> /\ entrada'.id = 0 /\ entrada'.pend = <<>> /\ entrada'.de = 0
  BY DEF sender, NoEntry
<1>5. q.id \in 1 .. Len(enviados) /\ Len(enviados) \in Nat
  BY <1>1, <1>2, Rows DEF WellMade, GoesOut
<1>6. NamesDiffer' <=> NamesDiffer
  BY <1>4, NamesStay
<1>7. Opens(entrada) /\ (NamesDiffer => q.id = entrada.id)
  BY <1>2 DEF Enters
<1>8. recibidos \in Seq(KeyType)
  BY DEF TypeOK
<1>9. Fresh'
  BY <1>4 DEF Fresh
<1>10. \A x \in In(t) : q.id < x.id
  BY <1>2 DEF Before
<1>11. Lined'
  <2>1. ASSUME t # <<>>, NEW x, x = t[1] PROVE Enters(x)'
    BY <1>2, <2>1 DEF Follows, Enters
  <2> QED
    BY <1>2, <1>3, <2>1 DEF Lined, Enters
<1>12. Ahead'
  <2>1. CASE recibidos' = recibidos
    BY <1>1, <1>2, <1>3, <1>4, <2>1 DEF Ahead, Opens
  <2>2. CASE entrada.id = q.id /\ recibidos' = Append(recibidos, q.id)
    <3> DEFINE n == Len(recibidos)
    <3>1. /\ n \in Nat /\ Len(recibidos') = n + 1 /\ recibidos'[n + 1] = q.id
          /\ \A i \in 1 .. n : recibidos'[i] = recibidos[i]
      <4> HIDE DEF KeyType
      <4> QED
        BY <1>8, <2>2
    <3>2. \A r \in In(recibidos) : r < q.id
      BY <1>1, <1>7, <2>2 DEF Ahead
    <3>3. \A i \in 1 .. n : recibidos[i] \in In(recibidos)
      BY DEF In
    <3> HIDE DEF n
    <3>4. \A i \in 1 .. Len(recibidos') : i \in 1 .. n \/ i = n + 1
      BY <3>1
    <3>5. ASSUME NEW i \in 1 .. Len(recibidos'), NEW j \in 1 .. Len(recibidos'), i < j
          PROVE  recibidos'[i] < recibidos'[j]
      <4>1. i \in 1 .. n
        BY <3>1, <3>5
      <4>2. CASE j \in 1 .. n
        BY <1>1, <3>1, <3>5, <4>1, <4>2 DEF Ahead, n
      <4>3. CASE j = n + 1
        BY <3>1, <3>2, <3>3, <4>1, <4>3
      <4> QED
        BY <3>4, <4>2, <4>3
    <3>6. \A r \in In(recibidos') : r \in In(recibidos) \/ r = q.id
      BY <3>1, <3>3, <3>4 DEF In
    <3>7. \A r \in In(recibidos') : \A x \in In(t) : r < x.id
      BY <1>1, <1>2, <1>10, <3>6 DEF Ahead
    <3>8. \A r \in In(recibidos') : r = salida.id => salida.llave
      BY <1>1, <1>2, <3>6 DEF Ahead, OfFile
    <3> QED
      BY <1>3, <1>4, <3>5, <3>7, <3>8 DEF Ahead, Opens
  <2> QED
    BY <2>1, <2>2
<1>13. OfFile'
  <2>1. \A x \in In(t) : 0 < x.id
    BY <1>5, <1>10, <1>2, <1>1 DEF WellMade, GoesOut
  <2> QED
    BY <1>1, <1>2, <1>3, <1>4, <2>1 DEF OfFile, Sending
<1>14. Goes'
  <2> SUFFICES ASSUME Sending, ~ salida.pausada, ~ salida.llave, viva
               PROVE  t # <<>> /\ LastIs(t[Len(t)])
    BY <1>3, <1>4 DEF Goes, Sending, LastIs
  <2>1. LastIs(canal[To][Len(canal[To])])
    BY <1>1, <1>2 DEF Goes
  <2>2. ~ LastIs(q)
    BY DEF LastIs
  <2> QED
    BY <1>2, <2>1, <2>2
<1>15. Kept'
  <2> SUFFICES ASSUME NamesDiffer', Sending'
               PROVE  /\ Had(salida.desde)'
                      /\ \A x \in In(canal'[From]) : x.m = "tengo" /\ x.id = salida'.id => Had(x.n)'
    BY DEF Kept
  <2>1. NamesDiffer /\ Sending /\ recibidos' = Append(recibidos, q.id) /\ entrada.id = q.id
    BY <1>4, <1>6, <1>7 DEF Sending
  <2>2. \A i : IsHere(i) \/ i = q.id => IsHere(i)'
    <3>1. /\ Len(recibidos) \in Nat /\ Len(recibidos') = Len(recibidos) + 1
          /\ recibidos'[Len(recibidos) + 1] = q.id
          /\ \A i \in 1 .. Len(recibidos) : recibidos'[i] = recibidos[i]
      <4> HIDE DEF KeyType
      <4> QED
        BY <1>8, <2>1
    <3>2. Len(recibidos) + 1 \in 1 .. Len(recibidos')
          /\ \A i \in 1 .. Len(recibidos) : i \in 1 .. Len(recibidos')
      BY <3>1
    <3> QED
      BY <3>1, <3>2 DEF IsHere
  <2>3. ASSUME NEW n, Had(n) PROVE Had(n)'
    <3>1. \A i : i = salida.id => (IsHere(i) \/ i = q.id => IsHere(salida.id)')
      BY <1>4, <2>2 DEF IsHere
    <3> QED
      BY <2>1, <2>3, <3>1 DEF Had
  <2>4. Had(salida.desde)'
    <3>1. Had(salida.desde)
      BY <1>1, <2>1 DEF Kept
    <3>2. \A n : n = salida.desde => Had(n)'
      BY <2>3, <3>1
    <3> QED
      BY <1>4, <3>2 DEF Had, IsHere
  <2>5. ASSUME NEW x \in In(canal'[From]), x.m = "tengo", x.id = salida.id PROVE Had(x.n)'
    <3>1. Had(x.n)
      BY <1>1, <2>1, <2>5 DEF Kept
    <3>2. \A n : n = x.n => Had(n)'
      BY <2>3, <3>1
    <3> QED
      BY <3>2 DEF Had, IsHere
  <2> QED
    BY <1>4, <2>4, <2>5
<1> QED
  BY <1>9, <1>11, <1>12, <1>13, <1>14, <1>15 DEF Tidy
-----------------------------------------------------------------------------
\* What a block makes of an entry in which nothing waits: the next one, or an altered one.
LEMMA TakenBlock ==
    ASSUME entrada \in EntryType, entrada.pend = <<>>, Opens(entrada),
           NEW q \in MessageType, q.n = entrada.sigue
    PROVE  LET a == Taken(WithBlock(q))
           IN  /\ a.id = entrada.id /\ a.de = entrada.de /\ a.pend = <<>>
               /\ a.sigue = IF q.id = entrada.id THEN entrada.sigue + 1 ELSE -1
<1> DEFINE b == [id |-> q.id, n |-> q.n]
           e == WithBlock(q)
           h == entrada.sigue + 1
<1>1. b \in PendType /\ b.id = q.id /\ b.n = q.n
  BY DEF MessageType, PendType
<1>2. e \in EntryType
  BY EntryShapes DEF WithBlock
<1>3. Append(entrada.pend, b) = <<b>>
  OBVIOUS
<1>4. e = [entrada EXCEPT !.abierta = TRUE, !.pend = <<b>>]
  BY <1>3 DEF WithBlock
<1> HIDE DEF b
<1>5. e.pend = <<b>> /\ e.id = entrada.id /\ e.sigue = entrada.sigue /\ e.de = entrada.de
  BY <1>4 DEF EntryType
<1> HIDE DEF e
<1>6. Opens(e) /\ e.sigue \in Nat
  BY <1>2, <1>5 DEF Opens, EntryType
<1>7. Taken(e) = [TakeBlock(e, b) EXCEPT !.pend = <<>>]
  BY <1>1, <1>2, <1>5, <1>6, TakenOne
<1>8. ~ (e.sigue < 0) /\ ~ Skips(e, b) /\ (IsNext(e, b) <=> q.id = entrada.id)
  BY <1>1, <1>5, <1>6 DEF Skips, IsNext
<1>9. CASE q.id = entrada.id
  <2>1. TakeBlock(e, b) = [e EXCEPT !.sigue = h]
    BY <1>5, <1>8, <1>9 DEF TakeBlock
  <2> HIDE DEF h
  <2>2. Taken(e) = [[e EXCEPT !.sigue = h] EXCEPT !.pend = <<>>]
    BY <1>7, <2>1
  <2>3. /\ Taken(e).id = e.id /\ Taken(e).de = e.de /\ Taken(e).pend = <<>>
        /\ Taken(e).sigue = h
    BY <1>2, <2>2 DEF EntryType
  <2> QED
    BY <1>5, <1>9, <2>3 DEF e, h
<1>10. CASE q.id # entrada.id
  <2>1. TakeBlock(e, b) = [e EXCEPT !.sigue = -1]
    BY <1>8, <1>10 DEF TakeBlock
  <2>2. Taken(e) = [[e EXCEPT !.sigue = -1] EXCEPT !.pend = <<>>]
    BY <1>7, <2>1
  <2>3. /\ Taken(e).id = e.id /\ Taken(e).de = e.de /\ Taken(e).pend = <<>>
        /\ Taken(e).sigue = -1
    BY <1>2, <2>2 DEF EntryType
  <2> QED
    BY <1>5, <1>10, <2>3 DEF e
<1> QED
  BY <1>9, <1>10

\* What the end makes of an entry in which nothing waits.
LEMMA TakenEnd ==
    ASSUME entrada \in EntryType, entrada.pend = <<>>, Opens(entrada),
           NEW q \in MessageType, q.n = entrada.sigue, q.id # 0
    PROVE  LET a == Taken(WithEnd(q))
           IN  a.id = entrada.id /\ a.de = q.id /\ a.sigue >= 0 /\ Complete(a)
<1> DEFINE e == WithEnd(q)
<1>1. e \in EntryType
  BY EntryShapes DEF WithEnd
<1>2. e = [entrada EXCEPT !.de = q.id, !.total = q.n]
  BY DEF WithEnd
<1>3. /\ e.pend = <<>> /\ e.id = entrada.id /\ e.sigue = entrada.sigue /\ e.de = q.id
      /\ e.total = q.n
  BY <1>2 DEF EntryType
<1> HIDE DEF e
<1>4. Taken(e) = e
  BY <1>1, <1>3, TakenNone
<1>5. e.sigue \in Nat
  BY <1>1 DEF EntryType
<1> QED
  BY <1>3, <1>4, <1>5 DEF Complete, Opens, e

\* A disk that fills leaves a file without its key.
LEMMA FullIsKeyless ==
    ASSUME TypeOK, DiskFull
    PROVE  Keyless'
<1>1. count'.full = count.full + 1 /\ count.full \in Nat
  BY DEF DiskFull, TypeOK
<1> QED
  BY <1>1 DEF Keyless

\* A disk that filled stays in the count.
LEMMA EmptiesKeyless ==
    ASSUME TypeOK, NEW e \in EntryType, Empties(e), Keyless
    PROVE  Keyless'
<1>1. \/ Ends
      \/ /\ mudos \subseteq mudos'
         /\ Whole(Taken(e)) \/ Refused(Taken(e)) \/ Continues(Taken(e)) \/ DiskFull
  BY EmptiesEffect
<1>2. CASE Ends
  BY <1>2 DEF Ends, Keyless
<1>3. CASE DiskFull
  BY <1>3, FullIsKeyless
<1>4. CASE mudos \subseteq mudos' /\ UNCHANGED count
  BY <1>4, KeylessStays
<1> QED
  BY <1>1, <1>2, <1>3, <1>4 DEF Whole, Refused, Continues

\* A key opens the file that comes after all the received.
LEMMA NeatInicio == TypeOK /\ Held0 /\ Neat /\ ReadInicio => Neat'
<1> SUFFICES ASSUME TypeOK, Held0, Neat, ReadInicio, Clean' PROVE Tidy'
  BY DEF Neat
<1> DEFINE q == Message(To)
<1>1. /\ Hears(To) /\ q.m = "inicio"
      /\ entrada' = [NoEntry EXCEPT !.abierta = TRUE, !.id = q.id]
      /\ canal'[To] = Tail(canal[To]) /\ canal'[From] = canal[From]
      /\ mudos \subseteq mudos'
      /\ UNCHANGED <<wires, sender, recibidos, alarma>>
  BY InicioEffect
<1>2. q = Message(To)
  OBVIOUS
<1> HIDE DEF q
<1>3. entrada'.id = q.id /\ entrada'.pend = <<>> /\ entrada'.de = 0 /\ entrada'.sigue = 0
  BY <1>1 DEF NoEntry
<1>4. UNCHANGED <<lista, viva, count>>
  BY <1>1 DEF wires
<1>5. Tidy
  BY <1>1, <1>4, KeylessStays DEF Clean, Neat
<1> QED
  BY <1>1, <1>2, <1>3, <1>4, <1>5, TakesOne

\* The block that is heard is the one that is expected, unless two files have one name.
LEMMA BlockHeard ==
    ASSUME TypeOK, Held0, Tidy, ReadBlock
    PROVE  LET q == Message(To)
               a == Taken(WithBlock(q))
           IN  /\ Hears(To) /\ q.m = "bloque" /\ q \in MessageType
               /\ q.n = entrada.sigue /\ entrada.sigue \in Nat
               /\ NamesDiffer => q.id = entrada.id
               /\ Empties(WithBlock(q)) /\ WithBlock(q) \in EntryType
               /\ a.id = entrada.id /\ a.de = 0 /\ a.pend = <<>>
               /\ a.sigue = IF q.id = entrada.id THEN entrada.sigue + 1 ELSE -1
<1> DEFINE q == Message(To)
<1>1. /\ Hears(To) /\ q.m = "bloque"
      /\ WithBlock(q) \in EntryType
      /\ Len(entrada.pend) >= MaxPend \/ Empties(WithBlock(q))
  BY BlockEffect
<1>2. Fresh /\ Lined
  BY DEF Tidy
<1>3. Enters(q) /\ q \in MessageType
  BY <1>1, <1>2, FirstAndRest
<1> HIDE DEF q
<1>4. Opens(entrada) /\ q.n = entrada.sigue /\ (NamesDiffer => q.id = entrada.id)
  BY <1>1, <1>3 DEF Enters
<1>5. entrada \in EntryType /\ entrada.pend = <<>> /\ entrada.de = 0
  BY <1>2 DEF TypeOK, Fresh
<1>6. ~ (Len(entrada.pend) >= MaxPend)
  <2>1. MaxPend \in Nat \ {0}
    BY BoundsAssumption
  <2>2. Len(entrada.pend) = 0
    BY <1>5, Singles
  <2> QED
    BY <2>1, <2>2
<1>7. LET a == Taken(WithBlock(q))
      IN  /\ a.id = entrada.id /\ a.de = entrada.de /\ a.pend = <<>>
          /\ a.sigue = IF q.id = entrada.id THEN entrada.sigue + 1 ELSE -1
  BY <1>3, <1>4, <1>5, TakenBlock
<1>8. entrada.sigue \in Nat
  BY <1>5 DEF EntryType
<1> QED
  BY <1>1, <1>3, <1>4, <1>5, <1>6, <1>7, <1>8 DEF q

\* A block is the next one, and the file grows by it.
LEMMA NeatBlock == TypeOK /\ Held0 /\ Neat /\ ReadBlock => Neat'
<1> SUFFICES ASSUME TypeOK, Held0, Neat, ReadBlock, Clean' PROVE Tidy'
  BY DEF Neat
<1> DEFINE q == Message(To)
           a == Taken(WithBlock(q))
<1>1. Clean /\ Tidy
  <2>1. lista /\ (Keyless => Keyless')
    <3>1. /\ Hears(To)
          /\ \/ mudos \subseteq mudos' /\ UNCHANGED <<wires, sender, receiver>>
             \/ Empties(WithBlock(q)) /\ WithBlock(q) \in EntryType
      BY BlockEffect
    <3>2. ASSUME UNCHANGED <<wires, sender, receiver>>, mudos \subseteq mudos'
          PROVE  Keyless => Keyless'
      BY <3>2, KeylessStays DEF wires
    <3>3. ASSUME Empties(WithBlock(q)), WithBlock(q) \in EntryType
          PROVE  Keyless => Keyless'
      BY <3>3, EmptiesKeyless
    <3>4. lista
      BY <3>1 DEF Hears
    <3> HIDE DEF q
    <3> QED
      BY <3>1, <3>2, <3>3, <3>4
  <2> QED
    BY <2>1 DEF Clean, Neat
<1>2. /\ Hears(To) /\ q.m = "bloque" /\ q \in MessageType
      /\ q.n = entrada.sigue /\ entrada.sigue \in Nat
      /\ Empties(WithBlock(q)) /\ WithBlock(q) \in EntryType
      /\ a.id = entrada.id /\ a.de = 0 /\ a.pend = <<>>
      /\ a.sigue = IF q.id = entrada.id THEN entrada.sigue + 1 ELSE -1
  BY <1>1, BlockHeard
<1>3. \/ Ends
      \/ /\ canal'[To] = Tail(canal[To])
         /\ UNCHANGED <<lista, enlace, viva, marcha, sender>>
         /\ Whole(a) \/ Refused(a) \/ Continues(a) \/ DiskFull
  BY <1>2, EmptiesEffect
<1>4. q = Message(To)
  OBVIOUS
<1> HIDE DEF q, a
<1>5. ~ Ends /\ ~ DiskFull
  BY FullIsKeyless DEF Clean, Ends
<1>6. ~ Complete(a)
  BY <1>2 DEF Complete
<1>7. /\ Continues(a) /\ canal'[To] = Tail(canal[To])
      /\ UNCHANGED <<viva, sender>>
  BY <1>3, <1>5, <1>6 DEF Whole, Refused
<1>8. a.sigue >= 0 /\ entrada' = a /\ recibidos' = recibidos
  BY <1>7 DEF Continues
<1>9. q.id = entrada.id /\ a.sigue = entrada.sigue + 1
  BY <1>2, <1>8
<1>10. \A x \in In(canal'[From]) :
          \/ x \in In(canal[From])
          \/ x.m = "tengo" /\ x.id = q.id /\ x.n <= entrada'.sigue
  <2>1. CASE canal'[From] = canal[From]
    BY <2>1
  <2>2. ASSUME NEW k \in Nat, k <= a.sigue, Tengo(a.id, k, 0) \in MessageType,
               canal'[From] = canal[From] \o <<Tengo(a.id, k, 0)>>
        PROVE  \A x \in In(canal'[From]) :
                  \/ x \in In(canal[From])
                  \/ x.m = "tengo" /\ x.id = q.id /\ x.n <= entrada'.sigue
    <3> DEFINE z == Tengo(a.id, k, 0)
    <3>1. z.m = "tengo" /\ z.id = q.id /\ z.n <= entrada'.sigue
      BY <1>2, <1>8, <1>9, <2>2 DEF Tengo
    <3>2. canal[From] \in Seq(MessageType)
      BY DEF TypeOK, Sides, From
    <3>3. z \in MessageType /\ canal'[From] = canal[From] \o <<z>>
      BY <2>2
    <3> HIDE DEF z
    <3>4. In(canal'[From]) = In(canal[From]) \cup {z}
      BY <3>2, <3>3, OneMore
    <3> QED
      BY <3>1, <3>4
  <2> QED
    BY <1>7, <2>1, <2>2 DEF Continues
<1>11. entrada'.id = q.id /\ entrada'.pend = <<>> /\ entrada'.de = 0 /\ entrada'.sigue = q.n + 1
  BY <1>2, <1>8, <1>9
<1> QED
  BY <1>1, <1>2, <1>4, <1>7, <1>8, <1>9, <1>10, <1>11, TakesOne

\* The end that is heard is that of the file that came in, unless two files have one name.
LEMMA EndHeard ==
    ASSUME TypeOK, Held0, Tidy, ReadArchivo
    PROVE  LET q == Message(To)
               a == Taken(WithEnd(q))
           IN  /\ Hears(To) /\ q.m = "archivo" /\ q \in MessageType
               /\ Empties(WithEnd(q)) /\ WithEnd(q) \in EntryType
               /\ a.id = entrada.id /\ a.de = q.id /\ a.sigue >= 0 /\ Complete(a)
<1> DEFINE q == Message(To)
<1>1. /\ Hears(To) /\ q.m = "archivo"
      /\ WithEnd(q) \in EntryType /\ Empties(WithEnd(q))
  BY ArchivoEffect
<1>2. Fresh /\ Lined /\ WellMade
  BY DEF Tidy, Held0
<1>3. Enters(q) /\ q \in MessageType /\ q \in In(canal[To])
  BY <1>1, <1>2, FirstAndRest
<1> HIDE DEF q
<1>4. Opens(entrada) /\ q.n = entrada.sigue /\ q.id # 0
  BY <1>1, <1>2, <1>3 DEF Enters, WellMade, GoesOut
<1>5. entrada \in EntryType /\ entrada.pend = <<>>
  BY <1>2 DEF TypeOK, Fresh
<1>6. LET a == Taken(WithEnd(q))
      IN  a.id = entrada.id /\ a.de = q.id /\ a.sigue >= 0 /\ Complete(a)
  BY <1>3, <1>4, <1>5, TakenEnd
<1> QED
  BY <1>1, <1>3, <1>6 DEF q

\* The end comes when every block did, and the file is received once.
LEMMA NeatArchivo == TypeOK /\ Held0 /\ Neat /\ ReadArchivo => Neat'
<1> SUFFICES ASSUME TypeOK, Held0, Neat, ReadArchivo, Clean' PROVE Tidy'
  BY DEF Neat
<1> DEFINE q == Message(To)
           a == Taken(WithEnd(q))
<1>1. Clean /\ Tidy
  <2>1. Hears(To) /\ Empties(WithEnd(q)) /\ WithEnd(q) \in EntryType
    BY ArchivoEffect
  <2>2. lista /\ (Keyless => Keyless')
    BY <2>1, EmptiesKeyless DEF Hears
  <2> QED
    BY <2>2 DEF Clean, Neat
<1>2. /\ Hears(To) /\ q.m = "archivo" /\ q \in MessageType
      /\ Empties(WithEnd(q)) /\ WithEnd(q) \in EntryType
      /\ a.id = entrada.id /\ a.de = q.id /\ a.sigue >= 0 /\ Complete(a)
  BY <1>1, EndHeard
<1>3. \/ Ends
      \/ /\ canal'[To] = Tail(canal[To])
         /\ UNCHANGED <<lista, enlace, viva, marcha, sender>>
         /\ Whole(a) \/ Refused(a) \/ Continues(a) \/ DiskFull
  BY <1>2, EmptiesEffect
<1>4. q = Message(To)
  OBVIOUS
<1> HIDE DEF q, a
<1>5. ~ Ends /\ ~ DiskFull
  BY FullIsKeyless DEF Clean, Ends
<1>6. /\ Whole(a) \/ Refused(a)
      /\ canal'[To] = Tail(canal[To]) /\ UNCHANGED <<viva, sender>>
  BY <1>2, <1>3, <1>5 DEF Continues
<1>7. entrada' = NoEntry
  BY <1>6 DEF Whole, Refused
<1>8. \/ entrada.id = q.id /\ recibidos' = Append(recibidos, q.id)
      \/ entrada.id # q.id /\ recibidos' = recibidos
  BY <1>2, <1>6 DEF Whole, Refused
<1>9. \A x \in In(canal'[From]) : x \in In(canal[From]) \/ x.m # "tengo"
  <2>1. CASE canal'[From] = canal[From]
    BY <2>1
  <2>2. CASE Ok(a.id) \in MessageType /\ canal'[From] = canal[From] \o <<Ok(a.id)>>
    <3> DEFINE z == Ok(a.id)
    <3>1. z.m # "tengo"
      BY DEF Ok
    <3>2. canal[From] \in Seq(MessageType)
      BY DEF TypeOK, Sides, From
    <3>3. z \in MessageType /\ canal'[From] = canal[From] \o <<z>>
      BY <2>2
    <3> HIDE DEF z
    <3>4. In(canal'[From]) = In(canal[From]) \cup {z}
      BY <3>2, <3>3, OneMore
    <3> QED
      BY <3>1, <3>4
  <2> QED
    BY <1>6, <2>1, <2>2 DEF Whole, Refused
<1> QED
  BY <1>1, <1>2, <1>4, <1>6, <1>7, <1>8, <1>9, TakesEnd
-----------------------------------------------------------------------------
\* A file ends with its last block, so it has one.
LEMMA EndedStep == TypeOK /\ Ended /\ [Next]_vars => Ended'
<1> SUFFICES ASSUME TypeOK, Ended, [Next]_vars PROVE Ended'
  OBVIOUS
<1>1. salida \in OutType /\ salida.hechos \in Nat /\ ~ NoFile.llave
  BY DEF TypeOK, OutType, NoFile
<1>2. UNCHANGED salida => Ended'
  BY DEF Ended
<1>3. salida' = NoFile => Ended'
  BY <1>1 DEF Ended
<1>4. ASSUME NEW nombre \in Names, Start(nombre) PROVE Ended'
  BY <1>4, StartEffect DEF Ended
<1>5. ASSUME NEW ultimo \in BOOLEAN, Piece(ultimo) PROVE Ended'
  <2>1. salida'.hechos = salida.hechos + 1
    BY <1>5, PieceEffect
  <2> QED
    BY <1>1, <2>1 DEF Ended
<1>6. CASE ReadTengo
  <2> DEFINE q == Message(From)
  <2>1. /\ Hears(From) /\ q.m = "tengo"
        /\ Lets(q) \/ ItIsThere(q) \/ GivesUp(q) \/ GoesOn(q)
    BY <1>6, TengoEffect
  <2>2. q.n \in Nat /\ Lacks(q) \in Nat
    <3>1. q \in MessageType
      BY <2>1, Heard DEF From, Sides
    <3> QED
      BY <3>1 DEF MessageType, Lacks
  <2>3. salida.desde <= salida.hechos
    BY DEF TypeOK
  <2> HIDE DEF q
  <2>4. ASSUME NEW n \in Nat
        PROVE  /\ LetGo(salida, n) \in OutType
               /\ LetGo(salida, n).hechos = salida.hechos /\ LetGo(salida, n).llave = salida.llave
    BY <1>1, <2>3, LetGoType
  <2>5. CASE Lets(q)
    BY <1>2, <2>2, <2>4, <2>5 DEF Lets, Ended
  <2>6. CASE GoesOn(q)
    <3> DEFINE left == LetGo(salida, Lacks(q))
    <3>1. /\ left \in OutType /\ left.hechos = salida.hechos /\ left.llave = salida.llave
          /\ salida' = [left EXCEPT !.pausada = FALSE]
      BY <2>2, <2>4, <2>6 DEF GoesOn
    <3> HIDE DEF left
    <3>2. salida'.hechos = salida.hechos /\ salida'.llave = salida.llave
      BY <3>1 DEF OutType
    <3> QED
      BY <3>2 DEF Ended
  <2> QED
    BY <1>3, <2>1, <2>5, <2>6 DEF ItIsThere, GivesUp
<1>7. CASE ReadOk
  <2>1. salida' = NoFile \/ salida' = salida
    BY <1>7, OkEffect
  <2> QED
    BY <1>2, <1>3, <2>1
<1>8. ASSUME NEW e, Empties(e) PROVE Ended'
  BY <1>2, <1>3, <1>8 DEF Empties, Ends, sender
<1>9. CASE ReadInicio \/ ReadBlock \/ ReadArchivo
  BY <1>2, <1>8, <1>9 DEF ReadInicio, ReadBlock, ReadArchivo, sender
<1>10. ASSUME NEW s \in Sides, Notice(s) PROVE Ended'
  <2>1. salida'.hechos = salida.hechos /\ salida'.llave = salida.llave
    BY <1>10, NoticeEffect
  <2> QED
    BY <2>1 DEF Ended
<1>11. ASSUME NEW s \in Sides, Resume(s) \/ Stop(s) \/ Continue(s) PROVE Ended'
  BY <1>2, <1>11 DEF Resume, Stop, Continue, sender
<1>12. CASE Written \/ Drop \/ Meet \/ Close \/ UNCHANGED vars
  BY <1>2, <1>3, <1>12 DEF Written, Drop, Meet, Close, Ends, sender, vars
<1> QED
  BY <1>4, <1>5, <1>6, <1>7, <1>9, <1>10, <1>11, <1>12 DEF Next, Reads, Mends

\* Only the end closes the conversation, and nothing happens after it.
LEMMA OverStep == Over /\ [Next]_vars => Over'
<1> SUFFICES ASSUME Over, [Next]_vars PROVE Over'
  OBVIOUS
<1>1. Ends => Over'
  BY DEF Ends, Over
<1>2. lista /\ UNCHANGED lista => Over'
  BY DEF Over
<1>3. UNCHANGED vars => Over'
  BY DEF vars, wires, receiver, Over
<1>4. ASSUME NEW nombre, Start(nombre) PROVE Over'
  BY <1>2, <1>4 DEF Start, wires
<1>5. ASSUME NEW ultimo, Piece(ultimo) PROVE Over'
  BY <1>2, <1>5 DEF Piece, wires
<1>6. ASSUME NEW e, lista, Empties(e) PROVE Over'
  BY <1>1, <1>2, <1>6 DEF Empties, wires
<1>7. CASE Reads
  BY <1>2, <1>6, <1>7
     DEF Reads, ReadTengo, ReadOk, ReadInicio, ReadBlock, ReadArchivo, Hears, wires
<1>8. ASSUME NEW s, Notice(s) \/ Resume(s) \/ Stop(s) \/ Continue(s) PROVE Over'
  BY <1>2, <1>8 DEF Notice, Resume, Stop, Continue
<1>9. CASE Written \/ Drop \/ Meet \/ Close
  BY <1>1, <1>2, <1>9 DEF Written, Drop, Meet, Close, wires
<1> QED
  BY <1>3, <1>4, <1>5, <1>7, <1>8, <1>9 DEF Next, Mends

\* A conversation begins in order.
LEMMA NeatInit == Init => Ended /\ Over /\ Neat
<1> SUFFICES ASSUME Init PROVE Ended /\ Over /\ Tidy
  BY DEF Neat
<1>1. /\ canal[From] = <<>> /\ canal[To] = <<>> /\ recibidos = <<>>
      /\ salida.id = 0 /\ salida.llave = FALSE /\ entrada.id = 0
      /\ entrada.pend = <<>> /\ entrada.de = 0
  BY DEF Init, NoFile, NoEntry, Sides, From, To
<1>2. In(<<>>) = {} /\ Len(<<>>) = 0
  BY Singles
<1>3. Ended /\ Over
  BY <1>1 DEF Ended, Over
<1>4. Fresh /\ Lined
  BY <1>1, <1>2 DEF Fresh, Lined, Joined
<1>5. Ahead /\ OfFile /\ Goes /\ Kept
  BY <1>1, <1>2 DEF Ahead, OfFile, Goes, Kept, Sending
<1> QED
  BY <1>3, <1>4, <1>5 DEF Tidy

\* Every step keeps the order, while every key goes before its file.
LEMMA NeatStep == TypeOK /\ Held0 /\ Ended /\ Neat /\ [Next]_vars => Neat'
<1> SUFFICES ASSUME TypeOK, Held0, Ended, Neat, [Next]_vars PROVE Neat'
  OBVIOUS
<1>1. ASSUME NEW nombre \in Names, Start(nombre) PROVE Neat'
  BY <1>1, NeatStart
<1>2. ASSUME NEW ultimo \in BOOLEAN, Piece(ultimo) PROVE Neat'
  BY <1>2, NeatPiece
<1>3. CASE Written
  BY <1>3, NeatQuiet DEF Written, wires
<1>4. CASE Close
  BY <1>4 DEF Close, Ends, Neat, Clean
<1>5. CASE UNCHANGED vars
  BY <1>5, NeatQuiet DEF vars, wires, sender
<1>6. ASSUME NEW s \in Sides, Stop(s) \/ Continue(s) PROVE Neat'
  <2>1. count'.full = count.full
    BY <1>6 DEF Stop, Continue, TypeOK
  <2> QED
    BY <1>6, <2>1, NeatQuiet DEF Stop, Continue, sender
<1>7. ASSUME NEW s \in Sides, Notice(s) \/ Resume(s) PROVE Neat'
  BY <1>7, NeatNotice, NeatResume
<1> QED
  BY <1>1, <1>2, <1>3, <1>4, <1>5, <1>6, <1>7, NeatTengo, NeatOk, NeatInicio, NeatBlock,
     NeatArchivo, NeatDrop, NeatMeet
     DEF Next, Reads, Mends

\* Two files that have one name go on having it, and so does a file without its key.
LEMMA BlameStays ==
    ASSUME TypeOK, [Next]_vars
    PROVE  (Keyless => Keyless') /\ (NamesDiffer' => NamesDiffer)
<1>1. UNCHANGED enviados /\ UNCHANGED count /\ mudos \subseteq mudos' =>
         (Keyless => Keyless') /\ (NamesDiffer' => NamesDiffer)
  BY KeylessStays, NamesStay
<1>2. ASSUME NEW nombre \in Names, Start(nombre)
      PROVE  (Keyless => Keyless') /\ (NamesDiffer' => NamesDiffer)
  <2>1. /\ Len(enviados) \in Nat /\ Len(enviados') = Len(enviados) + 1
        /\ \A i \in 1 .. Len(enviados) : enviados'[i] = enviados[i]
        /\ mudos \subseteq mudos' /\ UNCHANGED wires
    BY <1>2, StartEffect
  <2>2. \A i \in 1 .. Len(enviados) : i \in 1 .. Len(enviados') /\ enviados'[i] = enviados[i]
    BY <2>1
  <2> QED
    BY <2>1, <2>2, KeylessStays DEF NamesDiffer, wires
<1>3. ASSUME NEW ultimo \in BOOLEAN, Piece(ultimo)
      PROVE  (Keyless => Keyless') /\ (NamesDiffer' => NamesDiffer)
  BY <1>1, <1>3, PieceEffect DEF wires
<1>4. CASE ReadTengo
  <2>1. /\ mudos \subseteq mudos' /\ UNCHANGED wires
        /\ \E q : Lets(q) \/ ItIsThere(q) \/ GivesUp(q) \/ GoesOn(q)
    BY <1>4, TengoEffect
  <2>2. enviados' = enviados \/ \E nombre : enviados' = Arrived(nombre)
    BY <2>1 DEF Lets, ItIsThere, GivesUp, GoesOn
  <2> QED
    BY <2>1, <2>2, KeylessStays, NamesStay DEF wires
<1>5. CASE ReadOk
  <2>1. /\ mudos \subseteq mudos' /\ UNCHANGED wires
        /\ \E nombre : enviados' = Arrived(nombre)
    BY <1>5, OkEffect
  <2> QED
    BY <2>1, KeylessStays, NamesStay DEF wires
<1>6. ASSUME NEW e \in EntryType, Empties(e)
      PROVE  (Keyless => Keyless') /\ (NamesDiffer' => NamesDiffer)
  <2>1. UNCHANGED enviados
    BY <1>6 DEF Empties, Ends, sender
  <2> QED
    BY <1>6, <2>1, EmptiesKeyless, NamesStay
<1>7. CASE ReadInicio
  BY <1>1, <1>7, InicioEffect DEF wires, sender
<1>8. CASE ReadBlock
  <2>1. \/ mudos \subseteq mudos' /\ UNCHANGED <<wires, sender>>
        \/ \E e \in EntryType : Empties(e)
    BY <1>8, BlockEffect
  <2> QED
    BY <1>1, <1>6, <2>1 DEF wires, sender
<1>9. CASE ReadArchivo
  BY <1>6, <1>9, ArchivoEffect
<1>10. ASSUME NEW s \in Sides, Notice(s) \/ Resume(s)
       PROVE  (Keyless => Keyless') /\ (NamesDiffer' => NamesDiffer)
  BY <1>1, <1>10, NoticeEffect, ResumeEffect DEF sender
<1>11. ASSUME NEW s \in Sides, Stop(s) \/ Continue(s) \/ Drop
       PROVE  (Keyless => Keyless') /\ (NamesDiffer' => NamesDiffer)
  <2>1. UNCHANGED <<enviados, mudos>> /\ count'.full = count.full
    BY <1>11 DEF Stop, Continue, Drop, sender, TypeOK
  <2> QED
    BY <2>1, KeylessStays, NamesStay
<1>12. CASE Written \/ Meet \/ Close \/ UNCHANGED vars
  BY <1>1, <1>12 DEF Written, Meet, Close, Ends, wires, sender, vars
<1>13. From \in Sides
  BY DEF From, Sides
<1> QED
  BY <1>2, <1>3, <1>4, <1>5, <1>7, <1>8, <1>9, <1>10, <1>11, <1>12, <1>13 DEF Next, Reads, Mends
-----------------------------------------------------------------------------
\* A block is taken for an altered one only when it is not the one expected.
LEMMA BlockAlarm ==
    ASSUME TypeOK, Held0, Neat, ReadBlock, ~ alarma, alarma', ~ Keyless, NamesDiffer
    PROVE  FALSE
<1> DEFINE q == Message(To)
           a == Taken(WithBlock(q))
<1>1. Clean
  BY DEF ReadBlock, Hears, Clean
<1>2. Tidy
  BY <1>1 DEF Neat
<1>3. /\ q.n = entrada.sigue /\ entrada.sigue \in Nat
      /\ NamesDiffer => q.id = entrada.id
      /\ Empties(WithBlock(q)) /\ WithBlock(q) \in EntryType
      /\ a.sigue = IF q.id = entrada.id THEN entrada.sigue + 1 ELSE -1
  BY <1>2, BlockHeard
<1>4. \/ a.sigue < 0
      \/ Whole(a) \/ Refused(a) \/ Continues(a) \/ DiskFull
  BY <1>3, EmptiesEffect
<1> HIDE DEF a, q
<1>5. ~ (a.sigue < 0)
  BY <1>3
<1> QED
  BY <1>4, <1>5 DEF Whole, Refused, Continues, DiskFull

\* Nor does its end, because no block waits for it.
LEMMA EndAlarm ==
    ASSUME TypeOK, Held0, Neat, ReadArchivo, ~ alarma, alarma', ~ Keyless
    PROVE  FALSE
<1> DEFINE q == Message(To)
           a == Taken(WithEnd(q))
<1>1. Clean
  BY DEF ReadArchivo, Hears, Clean
<1>2. Tidy
  BY <1>1 DEF Neat
<1>3. Empties(WithEnd(q)) /\ WithEnd(q) \in EntryType /\ Complete(a) /\ a.sigue >= 0
  BY <1>2, EndHeard
<1>4. \/ a.sigue < 0
      \/ Whole(a) \/ Refused(a) \/ Continues(a) \/ DiskFull
  BY <1>3, EmptiesEffect
<1>5. a.sigue \in Int
  BY <1>3, TakenKeeps DEF SameFile, TakenType
<1> HIDE DEF a, q
<1>6. ~ (a.sigue < 0)
  BY <1>3, <1>5
<1> QED
  BY <1>4, <1>6 DEF Whole, Refused, Continues, DiskFull

\* A step that raises the alarm had two files of one name, or a file without its key.
LEMMA DropsStep ==
    TypeOK /\ Held0 /\ Neat /\ DropsAreNoTampering /\ [Next]_vars => DropsAreNoTampering'
<1> SUFFICES ASSUME TypeOK, Held0, Neat, DropsAreNoTampering, [Next]_vars, alarma',
                    NamesDiffer', ~ Keyless'
             PROVE  FALSE
  BY DEF DropsAreNoTampering
<1>1. ~ alarma /\ NamesDiffer /\ ~ Keyless
  BY BlameStays DEF DropsAreNoTampering
<1>2. ~ UNCHANGED alarma
  BY <1>1 DEF TypeOK
<1>3. \A nombre : ~ Start(nombre)
  BY <1>2 DEF Start, receiver
<1>4. \A ultimo : ~ Piece(ultimo)
  BY <1>2 DEF Piece, receiver
<1>5. \A s : ~ Notice(s) /\ ~ Resume(s) /\ ~ Stop(s) /\ ~ Continue(s)
  BY <1>2 DEF Notice, Resume, Stop, Continue, receiver
<1>6. ~ Written /\ ~ Drop /\ ~ Meet /\ ~ Close /\ ~ UNCHANGED vars
  BY <1>2 DEF Written, Drop, Meet, Close, receiver, vars
<1>7. ~ ReadTengo /\ ~ ReadOk /\ ~ ReadInicio
  BY <1>2 DEF ReadTengo, ReadOk, ReadInicio, receiver
<1>8. ReadBlock \/ ReadArchivo
  BY <1>3, <1>4, <1>5, <1>6, <1>7 DEF Next, Reads, Mends
<1> QED
  BY <1>1, <1>8, BlockAlarm, EndAlarm

\* So had a step that gives a file up.
LEMMA GivenUpStep ==
    TypeOK /\ Held0 /\ Neat /\ NothingGivenUp /\ [Next]_vars => NothingGivenUp'
<1> SUFFICES ASSUME TypeOK, Held0, Neat, NothingGivenUp, [Next]_vars, cortado' # {},
                    NamesDiffer', ~ Keyless'
             PROVE  FALSE
  BY DEF NothingGivenUp
<1>1. cortado = {} /\ NamesDiffer /\ ~ Keyless
  BY BlameStays DEF NothingGivenUp
<1>2. ~ UNCHANGED cortado
  BY <1>1
<1>3. \A nombre : ~ Start(nombre)
  BY <1>2 DEF Start
<1>4. \A ultimo : ~ Piece(ultimo)
  BY <1>2 DEF Piece
<1>5. \A s : ~ Notice(s) /\ ~ Resume(s) /\ ~ Stop(s) /\ ~ Continue(s)
  BY <1>2 DEF Notice, Resume, Stop, Continue, sender
<1>6. ~ Written /\ ~ Drop /\ ~ Meet /\ ~ Close /\ ~ UNCHANGED vars
  BY <1>2 DEF Written, Drop, Meet, Close, Ends, sender, vars
<1>7. \A e : ~ Empties(e)
  BY <1>2 DEF Empties, Ends, sender
<1>8. ~ ReadOk /\ ~ ReadInicio /\ ~ ReadBlock /\ ~ ReadArchivo
  BY <1>2, <1>7 DEF ReadOk, ReadInicio, ReadBlock, ReadArchivo, sender
<1>9. ReadTengo
  BY <1>3, <1>4, <1>5, <1>6, <1>8 DEF Next, Reads, Mends
<1> DEFINE q == Message(From)
<1>10. /\ Hears(From) /\ q.m = "tengo"
       /\ Lets(q) \/ ItIsThere(q) \/ GivesUp(q) \/ GoesOn(q)
  BY <1>9, TengoEffect
<1>11. Tidy
  BY <1>1, <1>10 DEF Neat, Clean, Hears
<1>12. q = Message(From)
  OBVIOUS
<1> HIDE DEF q
<1>13. ~ GivesUp(q)
  BY <1>1, <1>10, <1>11, <1>12, NotGivenUp
<1> QED
  BY <1>2, <1>10, <1>13 DEF Lets, ItIsThere, GoesOn

\* What holds at every moment of a conversation: what is known of a file that is held back, and
\* the order of what goes out while every key goes before its file.
IInv ==
    TypeOK /\ Held0 /\ Ended /\ Over /\ Neat /\ DropsAreNoTampering /\ NothingGivenUp

\* The invariant holds throughout.
LEMMA Invariant == Spec => []IInv
<1>1. Init => IInv
  <2>1. Init => DropsAreNoTampering /\ NothingGivenUp
    BY DEF Init, DropsAreNoTampering, NothingGivenUp
  <2> QED
    BY <2>1, TypeInit, HeldInit, NeatInit DEF IInv
<1>2. IInv /\ [Next]_vars => IInv'
  BY TypeStep, HeldStep, EndedStep, OverStep, NeatStep, DropsStep, GivenUpStep DEF IInv
<1> QED
  BY <1>1, <1>2, PTL DEF Spec

\* secure.rs:2862-2883 and 3495-3507: `llegado` and `digo_lo_que_tengo` never leave a file twice among
\* the received, for any number of files, blocks and drops, because each is ahead of the next.
THEOREM ReceivedOnce == Spec => []OnceOnly
<1>1. IInv => OnceOnly
  <2> SUFFICES ASSUME IInv, ~ Keyless,
                      NEW i \in 1 .. Len(recibidos), NEW j \in 1 .. Len(recibidos),
                      recibidos[i] = recibidos[j], i # j
               PROVE  FALSE
    BY DEF OnceOnly
  <2>1. recibidos \in Seq(KeyType) /\ Len(recibidos) \in Nat /\ KeyType \subseteq Nat
    <3>1. recibidos \in Seq(KeyType)
      BY DEF IInv, TypeOK
    <3>2. Len(recibidos) \in Nat
      <4> HIDE DEF KeyType
      <4> QED
        BY <3>1
    <3> QED
      BY <3>1, <3>2 DEF KeyType
  <2>2. recibidos[i] \in Nat /\ recibidos[j] \in Nat
    <3>1. recibidos[i] \in KeyType /\ recibidos[j] \in KeyType
      BY <2>1
    <3> QED
      BY <2>1, <3>1
  <2>3. lista
    <3> SUFFICES ASSUME ~ lista PROVE FALSE
      OBVIOUS
    <3>1. recibidos = <<>>
      BY DEF IInv, Over
    <3>2. Len(recibidos) = 0
      BY <3>1, Singles
    <3> QED
      BY <3>2
  <2>4. Ahead
    BY <2>3 DEF IInv, Neat, Clean, Tidy
  <2>5. i < j \/ j < i
    BY <2>1
  <2> QED
    BY <2>2, <2>4, <2>5 DEF Ahead
<1> QED
  BY <1>1, Invariant, PTL

\* secure.rs:2803-2857: `vacia_bloques` takes no block for an altered one because of a drop or a stop,
\* for any number of them: the block that comes is the one the entry expects.
THEOREM NoFalseAlarm == Spec => []DropsAreNoTampering
<1>1. IInv => DropsAreNoTampering
  BY DEF IInv
<1> QED
  BY <1>1, Invariant, PTL

\* secure.rs:3521-3530: `archivo_tengo` finds here the block the other side lacks, for any number of
\* drops: nothing was let go that the other side does not have.
THEOREM NoFileGivenUp == Spec => []NothingGivenUp
<1>1. IInv => NothingGivenUp
  BY DEF IInv
<1> QED
  BY <1>1, Invariant, PTL
=============================================================================
