------------------------- MODULE MessageQueueProofs -------------------------
(***************************************************************************)
(* Proofs about MessageQueue for every configuration, every number of      *)
(* messages, attempts and faults: transaction messages and their table     *)
(* agree, one call is outstanding, and the queue implements the outbox of  *)
(* TransactionOutbox.                                                      *)
(***************************************************************************)
EXTENDS MessageQueue, InductionFacts, FiniteSetTheorems, SequenceTheorems, TLAPS

-----------------------------------------------------------------------------
\* The inductive invariant.

NormalKinds == Kinds \ TransactionKinds

MsgType(kinds) ==
    [id : Nat, kind : kinds, att : Nat, due : BOOLEAN, stall : BOOLEAN]
RowType(kinds) == [id : Nat, kind : kinds]
UidType == [id : Nat, kind : Kinds, att : Nat]
AnswerType == [uid : UidType, type : {"result", "error", "pending"}]

\* The part of the state the proofs are about has its types; each queue and
\* each table has messages of its own kinds.
QueueTypeOK ==
    /\ phase \in {"down", "running", "stopped"}
    /\ tq \in Seq(MsgType(TransactionKinds)) /\ nq \in Seq(MsgType(NormalKinds))
    /\ in_flight \in MsgType(Kinds) \union {NoMessage}
    /\ ttab \subseteq RowType(TransactionKinds) /\ ntab \subseteq RowType(NormalKinds)
    /\ timer \in UidType \union {NoUid} /\ timer_late \in UidType \union {NoUid}
    /\ wire \in Seq(UidType) /\ answers \in Seq(AnswerType)
    /\ next \in Nat \ {0} /\ csms \subseteq Nat /\ offered \in Nat
    /\ open \in UidType \union {NoUid}

\* Numbers are given out once, in order; no two rows share one.
Numbers(n, m, t, u) ==
    /\ \A r \in t : offered <= r.id /\ 0 < r.id /\ r.id < next
    /\ \A r \in u : r.id < next
    /\ \A i \in DOMAIN n : n[i].id < next
    /\ m.id < next /\ offered < next
    /\ \A r, s \in t : r.id = s.id => r = s

\* The transaction queue q in memory, with m in flight: the messages have their
\* rows in the table t, are in order behind the one in flight, and only the
\* first of all may have been tried.
InMemory(r, q, m) ==
    \/ IsTransaction(m) /\ r = Row(m)
    \/ \E i \in DOMAIN q : r = Row(q[i])
Memory(q, m, t) ==
    /\ Alive => \A r \in t : InMemory(r, q, m)
    /\ \A i \in DOMAIN q : Row(q[i]) \in t
    /\ IsTransaction(m) => Row(m) \in t
    /\ \A i, j \in DOMAIN q : i < j => q[i].id < q[j].id
    /\ IsTransaction(m) => \A i \in DOMAIN q : m.id < q[i].id
    /\ \A i \in DOMAIN q : i > 1 \/ IsTransaction(m) => q[i].att = 0

\* No message is in the normal queue n twice, or there and in flight.
Distinct(n, m) ==
    /\ \A i, j \in DOMAIN n : Row(n[i]) = Row(n[j]) => i = j
    /\ \A i \in DOMAIN n : Row(n[i]) # Row(m)

\* The attempt u was made: if its message waits or is in flight, that one has
\* been tried at least as often.
Past(u, q, n, m) ==
    u # NoUid =>
        /\ u.id < next
        /\ \A i \in DOMAIN q : Row(q[i]) = Row(u) => u.att <= q[i].att
        /\ \A i \in DOMAIN n : Row(n[i]) = Row(u) => u.att <= n[i].att
        /\ Row(m) = Row(u) => u.att <= m.att
\* The attempts that are still known somewhere.
Attempted(q, n, m) ==
    /\ Past(timer_late, q, n, m)
    /\ \A i \in DOMAIN wire : Past(wire[i], q, n, m)
    /\ \A i \in DOMAIN answers : Past(answers[i].uid, q, n, m)

\* What is under way to the CSMS arrives in order and was offered.
OnItsWay ==
    /\ \A i, j \in DOMAIN wire :
         i < j /\ IsTransaction(wire[i]) /\ IsTransaction(wire[j])
         => wire[i].id <= wire[j].id
    /\ \A i \in DOMAIN wire : IsTransaction(wire[i]) =>
         /\ 0 < wire[i].id /\ wire[i].id <= offered
         /\ \A o \in csms : o <= wire[i].id
    /\ \A o \in csms : o <= offered
    /\ \A i \in DOMAIN answers :
         IsTransaction(answers[i].uid) => answers[i].uid.id \in csms

\* The call that may still be answered is the one in flight, whose time has
\* not run out and whose connection stands.
Outstanding ==
    /\ timer # NoUid => in_flight # NoMessage /\ timer = Uid(in_flight)
    /\ open # NoUid => in_flight # NoMessage /\ open = Uid(in_flight)
    /\ open # NoUid => timer_late # open
    /\ callback = "disconnected" => link = "down"
    /\ link = "down" => open = NoUid /\ wire = <<>>

\* A station that is down has nothing in memory.
Down ==
    phase = "down" =>
        /\ tq = <<>> /\ nq = <<>> /\ in_flight = NoMessage
        /\ wire = <<>> /\ answers = <<>>
        /\ timer = NoUid /\ timer_late = NoUid /\ open = NoUid

IInv ==
    /\ QueueTypeOK
    /\ Numbers(nq, in_flight, ttab, ntab)
    /\ Memory(tq, in_flight, ttab)
    /\ Distinct(nq, in_flight)
    /\ Attempted(tq, nq, in_flight)
    /\ OnItsWay /\ Outstanding /\ Down

-----------------------------------------------------------------------------
\* Listings, and the queues made with them.

\* What Without keeps of q: the positions h, in order.
Keeps(w, q, D, h) ==
    /\ h \in [DOMAIN w -> DOMAIN q \ D]
    /\ \A i \in DOMAIN w : w[i] = q[h[i]]
    /\ \A i, j \in DOMAIN w : i < j => h[i] < h[j]
    /\ \A k \in DOMAIN q \ D : \E i \in DOMAIN w : h[i] = k

\* Without takes the positions in D out of a queue and changes nothing else.
LEMMA WithoutKeeps ==
    ASSUME NEW S, NEW q \in Seq(S), NEW D, NEW w \in Without(q, D)
    PROVE  w \in Seq(S) /\ \E h : Keeps(w, q, D, h)
<1> DEFINE R == DOMAIN q \ D
           N == Cardinality(R)
<1>1. N \in Nat
  <2>1. DOMAIN q = 1..Len(q) /\ Len(q) \in Nat  OBVIOUS
  <2>2. IsFiniteSet(1..Len(q))  BY <2>1, FS_Interval
  <2>3. IsFiniteSet(R)  BY <2>1, <2>2, FS_Subset
  <2> QED  BY <2>3, FS_CardinalityType
<1>2. PICK h \in Listings(R) : w = [i \in DOMAIN h |-> q[h[i]]]
  BY DEF Without
<1>3. /\ h \in [1..N -> R]
      /\ \A i, j \in 1..N : i < j => h[i] < h[j]
      /\ \A x \in R : \E i \in 1..N : h[i] = x
  BY DEF Listings
<1> HIDE DEF N
<1>4. DOMAIN w = 1..N /\ \A i \in 1..N : w[i] = q[h[i]]
  BY <1>2, <1>3
<1>5. \A i \in 1..N : w[i] \in S
  BY <1>3, <1>4
<1>6. w \in Seq(S)
  BY <1>1, <1>2, <1>3, <1>5
<1>7. Keeps(w, q, D, h)
  BY <1>3, <1>4 DEF Keeps
<1> QED  BY <1>6, <1>7

\* Loaded makes a queue of untried messages of a table, in order.
LEMMA LoadedQueue ==
    ASSUME NEW kinds, NEW table \in SUBSET RowType(kinds), NEW b \in Nat,
           \A r \in table : r.id < b,
           NEW q \in Loaded(table)
    PROVE  /\ q \in Seq(MsgType(kinds))
           /\ \A i \in DOMAIN q : Row(q[i]) \in table /\ q[i].att = 0
           /\ \A i, j \in DOMAIN q : i < j => q[i].id < q[j].id
           /\ \A r \in table : \E i \in DOMAIN q : q[i].id = r.id
<1> DEFINE R == {r.id : r \in table}
           N == Cardinality(R)
           K(id) == (CHOOSE r \in table : r.id = id).kind
<1>1. N \in Nat
  <2>1. R \subseteq 0..b  BY DEF RowType
  <2>2. IsFiniteSet(0..b)  BY FS_Interval
  <2>3. IsFiniteSet(R)  BY <2>1, <2>2, FS_Subset
  <2> QED  BY <2>3, FS_CardinalityType
<1>2. PICK h \in Listings(R) : q = [i \in DOMAIN h |-> Message(h[i], K(h[i]), TRUE)]
  BY DEF Loaded
<1>3. /\ h \in [1..N -> R]
      /\ \A i, j \in 1..N : i < j => h[i] < h[j]
      /\ \A x \in R : \E i \in 1..N : h[i] = x
  BY DEF Listings
<1>4. ASSUME NEW id \in R
      PROVE  id \in Nat /\ K(id) \in kinds /\ [id |-> id, kind |-> K(id)] \in table
  <2>1. PICK r \in table : r.id = id  BY <1>4
  <2> DEFINE c == CHOOSE s \in table : s.id = id
  <2>2. c \in table /\ c.id = id  BY <2>1
  <2> HIDE DEF c
  <2>3. c = [id |-> id, kind |-> c.kind] /\ c.kind \in kinds /\ id \in Nat
    BY <2>2 DEF RowType
  <2> QED  BY <2>2, <2>3 DEF c
<1> HIDE DEF N, K
<1>5. DOMAIN q = 1..N /\ \A i \in 1..N : q[i] = Message(h[i], K(h[i]), TRUE)
  BY <1>2, <1>3
<1>6. ASSUME NEW i \in 1..N
      PROVE  /\ q[i] \in MsgType(kinds) /\ q[i].id = h[i] /\ q[i].att = 0
             /\ Row(q[i]) \in table
  <2>1. h[i] \in R  BY <1>3
  <2>2. h[i] \in Nat /\ K(h[i]) \in kinds /\ [id |-> h[i], kind |-> K(h[i])] \in table
    BY <2>1, <1>4
  <2>3. q[i] = [id |-> h[i], kind |-> K(h[i]), att |-> 0, due |-> TRUE, stall |-> TRUE]
    BY <1>5 DEF Message
  <2> QED  BY <2>2, <2>3 DEF MsgType, Row
<1>7. q \in Seq(MsgType(kinds))
  <2>1. q \in [1..N -> MsgType(kinds)]  BY <1>2, <1>3, <1>5, <1>6
  <2> QED  BY <1>1, <2>1
<1>8. \A i, j \in DOMAIN q : i < j => q[i].id < q[j].id
  BY <1>3, <1>5, <1>6
<1>9. \A r \in table : \E i \in DOMAIN q : q[i].id = r.id
  <2> SUFFICES ASSUME NEW r \in table PROVE \E i \in 1..N : q[i].id = r.id
    BY <1>5
  <2>1. r.id \in R  OBVIOUS
  <2>2. PICK i \in 1..N : h[i] = r.id  BY <1>3, <2>1
  <2> QED  BY <2>2, <1>6
<1> QED  BY <1>5, <1>6, <1>7, <1>8, <1>9

-----------------------------------------------------------------------------
\* A message that is taken back, with the queues q and n without it.

Messages == MsgType(Kinds)
Uids == UidType \union {NoUid}
TQueues == Seq(MsgType(TransactionKinds))
NQueues == Seq(MsgType(NormalKinds))

\* A sequence with one more element in front.
LEMMA Prepend ==
    ASSUME NEW S, NEW x \in S, NEW q \in Seq(S), NEW p, p = <<x>> \o q
    PROVE  /\ p \in Seq(S) /\ DOMAIN p = 1..(Len(q) + 1) /\ p[1] = x
           /\ \A i \in DOMAIN p : i > 1 => i - 1 \in DOMAIN q /\ p[i] = q[i - 1]
           /\ \A i \in DOMAIN q : i + 1 \in DOMAIN p /\ p[i + 1] = q[i]
<1>1. p \in Seq(S) /\ Len(p) = Len(q) + 1  OBVIOUS
<1>2. \A i \in 1..Len(p) : p[i] = IF i = 1 THEN x ELSE q[i - 1]  OBVIOUS
<1>3. DOMAIN p = 1..(Len(q) + 1) /\ DOMAIN q = 1..Len(q) /\ Len(q) \in Nat  BY <1>1
<1> QED  BY <1>1, <1>2, <1>3

\* Row of a message m is the only row of the table with its number.
LEMMA OnlyRow ==
    ASSUME NEW t \in SUBSET RowType(TransactionKinds), NEW m \in Messages,
           Row(m) \in t, \A r, s \in t : r.id = s.id => r = s
    PROVE  t \ RowsWithId(m.id) = t \ {Row(m)}
  BY DEF RowType, Messages, MsgType, Row, RowsWithId, Kinds

\* handle_timeout_or_callerror keeps the queues and their tables in step,
\* whether it puts m back or gives it up.
LEMMA HandleKeeps ==
    ASSUME QueueTypeOK, NEW m \in Messages, NEW q \in TQueues, NEW n \in NQueues,
           Numbers(n, m, ttab, ntab), Memory(q, m, ttab), Distinct(n, m),
           HandleTimeoutOrCallerror(m, q, n),
           UNCHANGED <<phase, next, offered>>
    PROVE  /\ tq' \in TQueues /\ nq' \in NQueues /\ in_flight' = NoMessage
           /\ ttab' \subseteq ttab /\ ntab' \subseteq ntab /\ timer' = NoUid
           /\ Numbers(nq, in_flight, ttab, ntab)'
           /\ Memory(tq, in_flight, ttab)'
           /\ Distinct(nq, in_flight)'
           /\ \A u \in Uids : Past(u, q, n, m) => Past(u, tq', nq', in_flight')
<1>0. /\ ~IsTransaction(NoMessage) /\ Row(NoMessage) = Row(NoUid)
      /\ NoMessage.id = 0 /\ 0 < next /\ NoMessage.att = 0
  BY DEF NoMessage, NoUid, IsTransaction, TransactionKinds, Row, QueueTypeOK
<1>a. \A k \in NQueues : \A i \in DOMAIN k : Row(k[i]) # Row(NoMessage)
  <2> SUFFICES ASSUME NEW k \in NQueues, NEW i \in DOMAIN k
               PROVE  Row(k[i]) # Row(NoMessage)
    OBVIOUS
  <2>1. k[i] \in MsgType(NormalKinds)  BY DEF NQueues
  <2> QED  BY <2>1 DEF MsgType, NormalKinds, Kinds, Row, NoMessage
<1>b. \A i \in DOMAIN n : n[i] \in MsgType(NormalKinds) /\ n[i].id \in Nat
  <2>1. \A i \in DOMAIN n : n[i] \in MsgType(NormalKinds)  BY DEF NQueues
  <2> QED  BY <2>1 DEF MsgType
<1>c. \A i \in DOMAIN q : q[i] \in MsgType(TransactionKinds) /\ q[i].id \in Nat
  <2>1. \A i \in DOMAIN q : q[i] \in MsgType(TransactionKinds)  BY DEF TQueues
  <2> QED  BY <2>1 DEF MsgType
<1>d. m.id \in Nat /\ m.att \in Nat  BY DEF Messages, MsgType
<1>1. CASE Retries(m) /\ IsTransaction(m)
  <2>1. PICK due \in BOOLEAN :
          /\ tq' = <<[m EXCEPT !.due = due]>> \o q /\ nq' = n
          /\ in_flight' = NoMessage /\ timer' = NoUid /\ UNCHANGED <<ttab, ntab>>
    BY <1>1 DEF HandleTimeoutOrCallerror, tables
  <2> DEFINE again == [m EXCEPT !.due = due]
  <2>2. /\ again \in MsgType(TransactionKinds) /\ again.id = m.id /\ again.att = m.att
        /\ Row(again) = Row(m)
    BY <1>1 DEF IsTransaction, Row, Messages, MsgType
  <2> HIDE DEF again
  <2>3. /\ tq' \in TQueues /\ DOMAIN tq' = 1..(Len(q) + 1) /\ tq'[1] = again
        /\ \A i \in DOMAIN tq' : i > 1 => i - 1 \in DOMAIN q /\ tq'[i] = q[i - 1]
        /\ \A i \in DOMAIN q : i + 1 \in DOMAIN tq' /\ tq'[i + 1] = q[i]
    BY <2>1, <2>2, Prepend DEF again, TQueues
  <2>l. Len(q) \in Nat /\ DOMAIN q = 1..Len(q)  BY DEF TQueues
  <2>4. Numbers(nq, in_flight, ttab, ntab)'
    BY <2>1, <1>0 DEF Numbers
  <2>5. Memory(tq, in_flight, ttab)'
    <3>1. \A i \in DOMAIN tq' : Row(tq'[i]) \in ttab'
      <4> SUFFICES ASSUME NEW i \in DOMAIN tq' PROVE Row(tq'[i]) \in ttab  BY <2>1
      <4>1. CASE i = 1  BY <4>1, <2>2, <2>3, <1>1 DEF Memory
      <4>2. CASE i > 1  BY <4>2, <2>3 DEF Memory
      <4> QED  BY <4>1, <4>2, <2>3, <2>l
    <3>2. \A i, j \in DOMAIN tq' : i < j => tq'[i].id < tq'[j].id
      <4> SUFFICES ASSUME NEW i \in DOMAIN tq', NEW j \in DOMAIN tq', i < j
                   PROVE  tq'[i].id < tq'[j].id
        OBVIOUS
      <4>0. i \in Nat /\ j \in Nat /\ j > 1 /\ i >= 1  BY <2>3, <2>l
      <4>1. CASE i = 1  BY <4>0, <4>1, <2>2, <2>3, <1>1 DEF Memory
      <4>2. CASE i > 1
        <5>1. i - 1 < j - 1  BY <4>0
        <5> QED  BY <4>0, <5>1, <4>2, <2>3 DEF Memory
      <4> QED  BY <4>0, <4>1, <4>2
    <3>3. \A i \in DOMAIN tq' : i > 1 => tq'[i].att = 0
      BY <2>3, <1>1 DEF Memory
    <3>4. Alive' => \A r \in ttab' : InMemory(r, tq', in_flight')
      <4> SUFFICES ASSUME Alive, NEW r \in ttab PROVE \E i \in DOMAIN tq' : r = Row(tq'[i])
        BY <2>1 DEF InMemory, Alive
      <4>1. InMemory(r, q, m)  BY DEF Memory
      <4>2. CASE r = Row(m)
        <5>1. 1 \in DOMAIN tq'  BY <2>3, <2>l
        <5> QED  BY <5>1, <4>2, <2>2, <2>3
      <4>3. CASE \E i \in DOMAIN q : r = Row(q[i])  BY <4>3, <2>3
      <4> QED  BY <4>1, <4>2, <4>3 DEF InMemory
    <3> QED  BY <3>1, <3>2, <3>3, <3>4, <2>1, <1>0 DEF Memory
  <2>6. Distinct(nq, in_flight)'
    BY <2>1, <1>0, <1>a DEF Distinct
  <2>7. ASSUME NEW u \in Uids, Past(u, q, n, m) PROVE Past(u, tq', nq', in_flight')
    <3> SUFFICES ASSUME u # NoUid PROVE Past(u, tq', nq', in_flight')  BY DEF Past
    <3>0. Row(u) # Row(NoMessage)
      BY DEF Uids, UidType, Row, NoMessage, Kinds, TransactionKinds
    <3>1. \A i \in DOMAIN tq' : Row(tq'[i]) = Row(u) => u.att <= tq'[i].att
      <4> SUFFICES ASSUME NEW i \in DOMAIN tq', Row(tq'[i]) = Row(u)
                   PROVE  u.att <= tq'[i].att
        OBVIOUS
      <4>1. CASE i = 1  BY <4>1, <2>2, <2>3, <2>7 DEF Past
      <4>2. CASE i > 1  BY <4>2, <2>3, <2>7 DEF Past
      <4> QED  BY <4>1, <4>2, <2>3, <2>l
    <3> QED  BY <3>0, <3>1, <2>1, <2>7 DEF Past
  <2> QED  BY <2>1, <2>3, <2>4, <2>5, <2>6, <2>7
<1>2. CASE Retries(m) /\ ~IsTransaction(m)
  <2>1. PICK due \in BOOLEAN :
          /\ nq' = <<[m EXCEPT !.due = due]>> \o n /\ tq' = q
          /\ in_flight' = NoMessage /\ timer' = NoUid /\ UNCHANGED <<ttab, ntab>>
    BY <1>2 DEF HandleTimeoutOrCallerror, tables
  <2> DEFINE again == [m EXCEPT !.due = due]
  <2>2. /\ again \in MsgType(NormalKinds) /\ again.id = m.id /\ again.att = m.att
        /\ Row(again) = Row(m)
    BY <1>2 DEF IsTransaction, Row, Messages, MsgType, NormalKinds
  <2> HIDE DEF again
  <2>3. /\ nq' \in NQueues /\ DOMAIN nq' = 1..(Len(n) + 1) /\ nq'[1] = again
        /\ \A i \in DOMAIN nq' : i > 1 => i - 1 \in DOMAIN n /\ nq'[i] = n[i - 1]
        /\ \A i \in DOMAIN n : i + 1 \in DOMAIN nq' /\ nq'[i + 1] = n[i]
    BY <2>1, <2>2, Prepend DEF again, NQueues
  <2>l. Len(n) \in Nat /\ DOMAIN n = 1..Len(n)  BY DEF NQueues
  <2>c. \A i \in DOMAIN nq' : i = 1 \/ i > 1  BY <2>3, <2>l
  <2>4. Numbers(nq, in_flight, ttab, ntab)'
    BY <2>1, <2>2, <2>3, <2>c, <1>0 DEF Numbers
  <2>5. Memory(tq, in_flight, ttab)'
    BY <2>1, <1>0, <1>2 DEF Memory, InMemory, Alive
  <2>6. Distinct(nq, in_flight)'
    <3> SUFFICES ASSUME NEW i \in DOMAIN nq', NEW j \in DOMAIN nq',
                        Row(nq'[i]) = Row(nq'[j])
                 PROVE  i = j
      BY <2>1, <2>3, <1>0, <1>a DEF Distinct
    <3>1. i \in Nat /\ j \in Nat  BY <2>3, <2>l
    <3>2. CASE i = 1 /\ j > 1
      <4>1. j - 1 \in DOMAIN n /\ Row(n[j - 1]) = Row(m)  BY <3>2, <2>2, <2>3
      <4> QED  BY <4>1 DEF Distinct
    <3>3. CASE j = 1  BY <3>3, <2>2, <2>3, <2>c DEF Distinct
    <3>4. CASE i > 1 /\ j > 1
      <4>1. i - 1 = j - 1  BY <3>4, <2>3 DEF Distinct
      <4> QED  BY <4>1, <3>1
    <3> QED  BY <3>2, <3>3, <3>4, <2>c
  <2>7. ASSUME NEW u \in Uids, Past(u, q, n, m) PROVE Past(u, tq', nq', in_flight')
    <3> SUFFICES ASSUME u # NoUid PROVE Past(u, tq', nq', in_flight')  BY DEF Past
    <3>0. Row(u) # Row(NoMessage)
      BY DEF Uids, UidType, Row, NoMessage, Kinds, TransactionKinds
    <3>1. \A i \in DOMAIN nq' : Row(nq'[i]) = Row(u) => u.att <= nq'[i].att
      <4> SUFFICES ASSUME NEW i \in DOMAIN nq', Row(nq'[i]) = Row(u)
                   PROVE  u.att <= nq'[i].att
        OBVIOUS
      <4>1. CASE i = 1  BY <4>1, <2>2, <2>3, <2>7 DEF Past
      <4>2. CASE i > 1  BY <4>2, <2>3, <2>7 DEF Past
      <4> QED  BY <4>1, <4>2, <2>c
    <3> QED  BY <3>0, <3>1, <2>1, <2>7 DEF Past
  <2> QED  BY <2>1, <2>3, <2>4, <2>5, <2>6, <2>7
<1>3. CASE ~Retries(m) /\ IsTransaction(m)
  <2>1. /\ tq' = q /\ nq' = n /\ in_flight' = NoMessage /\ timer' = NoUid
        /\ ttab' = ttab \ RowsWithId(m.id) /\ ntab' = ntab
    BY <1>3 DEF HandleTimeoutOrCallerror
  <2>2. ttab' = ttab \ {Row(m)}
    BY <2>1, <1>3, OnlyRow DEF Memory, Numbers, QueueTypeOK
  <2>4. Numbers(nq, in_flight, ttab, ntab)'
    BY <2>1, <2>2, <1>0 DEF Numbers
  <2>5. Memory(tq, in_flight, ttab)'
    <3>1. \A i \in DOMAIN q : Row(q[i]) # Row(m)
      BY <1>3, <1>c, <1>d DEF Memory, Row
    <3> QED  BY <3>1, <2>1, <2>2, <1>0, <1>3 DEF Memory, InMemory, Alive
  <2>6. Distinct(nq, in_flight)'
    BY <2>1, <1>0, <1>a DEF Distinct
  <2>7. ASSUME NEW u \in Uids, Past(u, q, n, m) PROVE Past(u, tq', nq', in_flight')
    <3>0. u # NoUid => Row(u) # Row(NoMessage)
      BY DEF Uids, UidType, Row, NoMessage, Kinds, TransactionKinds
    <3> QED  BY <3>0, <2>1, <2>7 DEF Past
  <2> QED  BY <2>1, <2>2, <2>4, <2>5, <2>6, <2>7
<1>4. CASE ~Retries(m) /\ ~IsTransaction(m)
  <2>1. /\ tq' = q /\ nq' = n /\ in_flight' = NoMessage /\ timer' = NoUid
        /\ ttab' = ttab /\ ntab' \subseteq ntab
    BY <1>4 DEF HandleTimeoutOrCallerror
  <2>4. Numbers(nq, in_flight, ttab, ntab)'
    BY <2>1, <1>0 DEF Numbers
  <2>5. Memory(tq, in_flight, ttab)'
    BY <2>1, <1>0, <1>4 DEF Memory, InMemory, Alive
  <2>6. Distinct(nq, in_flight)'
    BY <2>1, <1>0, <1>a DEF Distinct
  <2>7. ASSUME NEW u \in Uids, Past(u, q, n, m) PROVE Past(u, tq', nq', in_flight')
    <3>0. u # NoUid => Row(u) # Row(NoMessage)
      BY DEF Uids, UidType, Row, NoMessage, Kinds, TransactionKinds
    <3> QED  BY <3>0, <2>1, <2>7 DEF Past
  <2> QED  BY <2>1, <2>4, <2>5, <2>6, <2>7
<1> QED  BY <1>1, <1>2, <1>3, <1>4

-----------------------------------------------------------------------------
\* Sending: the message sent has been taken out of the queues, q and n are left.
Taken(sent, q, n) ==
    /\ sent \in Messages /\ q \in TQueues /\ n \in NQueues
    /\ Numbers(n, sent, ttab, ntab) /\ Memory(q, sent, ttab) /\ Distinct(n, sent)
    /\ \A u \in Uids : Past(u, tq, nq, in_flight) =>
            Past(u, q, n, sent) /\ u # Uid(sent)

\* Counting an attempt changes nothing else of a message.
LEMMA AnotherAttempt ==
    ASSUME NEW kinds, NEW m \in MsgType(kinds)
    PROVE  [m EXCEPT !.att = @ + 1] \in MsgType(kinds)
  BY DEF MsgType

\* The first transaction message is taken for an attempt.
LEMMA TakeTransaction ==
    ASSUME IInv, in_flight = NoMessage, tq # <<>>,
           NEW sent, sent = [Head(tq) EXCEPT !.att = @ + 1]
    PROVE  /\ Taken(sent, Tail(tq), nq)
           /\ IsTransaction(sent) /\ Row(sent) = Row(Head(tq))
           /\ sent.att = Head(tq).att + 1
<1> DEFINE q == Tail(tq)
<1>1. /\ tq \in Seq(MsgType(TransactionKinds)) /\ tq[1] = Head(tq) /\ 1 \in DOMAIN tq
      /\ tq[1] \in MsgType(TransactionKinds)
  BY DEF IInv, QueueTypeOK
<1>2. /\ sent \in Messages /\ IsTransaction(sent) /\ sent.id = tq[1].id
      /\ Row(sent) = Row(tq[1]) /\ sent.att = tq[1].att + 1 /\ sent.id \in Nat
      /\ tq[1].att \in Nat /\ sent.kind = tq[1].kind
  BY <1>1 DEF Messages, MsgType, IsTransaction, Row, Kinds
<1>3. /\ q \in TQueues /\ Len(tq) \in Nat /\ DOMAIN q = 1..(Len(tq) - 1)
      /\ DOMAIN tq = 1..Len(tq)
      /\ \A i \in DOMAIN q : i \in Nat /\ i + 1 \in DOMAIN tq /\ q[i] = tq[i + 1]
  BY <1>1 DEF TQueues
<1>4. \A i \in DOMAIN q : q[i].kind \in TransactionKinds /\ q[i].id \in Nat
  <2>1. \A i \in DOMAIN q : q[i] \in MsgType(TransactionKinds)  BY <1>3 DEF TQueues
  <2> QED  BY <2>1 DEF MsgType
<1>5. \A i \in DOMAIN nq : nq[i].kind \in NormalKinds
  <2>1. \A i \in DOMAIN nq : nq[i] \in MsgType(NormalKinds)  BY DEF IInv, QueueTypeOK
  <2> QED  BY <2>1 DEF MsgType
<1>6. sent.kind \in TransactionKinds  BY <1>2 DEF IsTransaction
<1>7. ~IsTransaction(in_flight)  BY DEF NoMessage, IsTransaction, TransactionKinds
<1> HIDE DEF q
<1>8. Numbers(nq, sent, ttab, ntab)
  <2>1. Row(tq[1]) \in ttab  BY <1>1 DEF IInv, Memory
  <2>2. Row(tq[1]).id = sent.id  BY <1>2 DEF Row
  <2> QED  BY <2>1, <2>2 DEF IInv, Numbers
<1>9. Memory(q, sent, ttab)
  <2>1. \A i \in DOMAIN q : Row(q[i]) \in ttab /\ q[i].att = 0 /\ sent.id < q[i].id
    <3> SUFFICES ASSUME NEW i \in DOMAIN q
                 PROVE  Row(q[i]) \in ttab /\ q[i].att = 0 /\ sent.id < q[i].id
      OBVIOUS
    <3>1. i + 1 > 1 /\ i + 1 \in DOMAIN tq /\ q[i] = tq[i + 1] /\ 1 < i + 1
      BY <1>3
    <3> QED  BY <3>1, <1>1, <1>2 DEF IInv, Memory
  <2>2. \A i, j \in DOMAIN q : i < j => q[i].id < q[j].id
    <3> SUFFICES ASSUME NEW i \in DOMAIN q, NEW j \in DOMAIN q, i < j
                 PROVE  q[i].id < q[j].id
      OBVIOUS
    <3>1. i + 1 < j + 1 /\ i + 1 \in DOMAIN tq /\ j + 1 \in DOMAIN tq  BY <1>3
    <3> QED  BY <3>1, <1>3 DEF IInv, Memory
  <2>3. Row(sent) \in ttab  BY <1>1, <1>2 DEF IInv, Memory
  <2>4. ASSUME Alive, NEW r \in ttab PROVE InMemory(r, q, sent)
    <3>1. PICK i \in DOMAIN tq : r = Row(tq[i])
      BY <2>4, <1>7 DEF IInv, Memory, InMemory
    <3>2. CASE i = 1  BY <3>1, <3>2, <1>2 DEF InMemory
    <3>3. CASE i > 1
      <4>1. i - 1 \in DOMAIN q /\ q[i - 1] = tq[i]  BY <3>3, <1>3
      <4> QED  BY <4>1, <3>1 DEF InMemory
    <3> QED  BY <3>2, <3>3, <1>3
  <2> QED  BY <2>1, <2>2, <2>3, <2>4 DEF Memory
<1>10. Distinct(nq, sent)
  BY <1>5, <1>6 DEF IInv, Distinct, Row, NormalKinds
<1>11. ASSUME NEW u \in Uids, Past(u, tq, nq, in_flight)
       PROVE  Past(u, q, nq, sent) /\ u # Uid(sent)
  <2>1. CASE u = NoUid
    BY <2>1, <1>6 DEF Past, NoUid, Uid, TransactionKinds
  <2>2. CASE u # NoUid
    <3>0. u.att \in Nat  BY <2>2 DEF Uids, UidType
    <3>1. \A i \in DOMAIN q : Row(q[i]) = Row(u) => u.att <= q[i].att
      BY <1>3, <1>11, <2>2 DEF Past
    <3>2. Row(sent) = Row(u) => u.att <= tq[1].att
      BY <1>1, <1>2, <1>11, <2>2 DEF Past
    <3>3. u # Uid(sent)
      <4> SUFFICES ASSUME u = Uid(sent) PROVE FALSE  OBVIOUS
      <4>1. Row(sent) = Row(u) /\ u.att = sent.att  BY DEF Uid, Row
      <4> QED  BY <4>1, <3>2, <1>2
    <3> QED  BY <3>0, <3>1, <3>2, <3>3, <1>2, <1>11, <2>2 DEF Past
  <2> QED  BY <2>1, <2>2
<1> QED  BY <1>1, <1>2, <1>3, <1>8, <1>9, <1>10, <1>11 DEF Taken, q, IInv, QueueTypeOK, NQueues

\* FirstNormal is a position of the normal queue, or 0.
LEMMA FirstNormalExists ==
    ASSUME IInv, FirstNormal # 0
    PROVE  FirstNormal \in DOMAIN nq
<1> DEFINE T == {i \in DOMAIN nq : Allowed(nq[i])}
<1>1. T # {}  BY DEF FirstNormal
<1>2. T \subseteq Nat /\ DOMAIN nq \subseteq Nat
  BY DEF IInv, QueueTypeOK
<1>3. PICK m \in T : \A k \in T : m <= k
  <2> HIDE DEF T
  <2> QED  BY <1>1, <1>2, LeastNat
<1>4. \A j \in DOMAIN nq : j < m => ~Allowed(nq[j])  BY <1>2, <1>3
<1>5. m \in DOMAIN nq /\ Allowed(nq[m])  OBVIOUS
<1> DEFINE First(i) == Allowed(nq[i]) /\ \A j \in DOMAIN nq : j < i => ~Allowed(nq[j])
<1>6. FirstNormal = CHOOSE i \in DOMAIN nq : First(i)  BY <1>5 DEF FirstNormal
<1>7. First(m)  BY <1>4, <1>5
<1> QED  BY <1>5, <1>6, <1>7

\* A message of the normal queue is taken for an attempt.
LEMMA TakeNormal ==
    ASSUME IInv, in_flight = NoMessage, NEW k \in DOMAIN nq,
           NEW rest \in Without(nq, {k}),
           NEW sent, sent = [nq[k] EXCEPT !.att = @ + 1]
    PROVE  Taken(sent, tq, rest) /\ ~IsTransaction(sent)
<1>1. /\ nq \in Seq(MsgType(NormalKinds)) /\ nq[k] \in MsgType(NormalKinds)
  BY DEF IInv, QueueTypeOK
<1>2. /\ sent \in Messages /\ ~IsTransaction(sent) /\ sent.id = nq[k].id
      /\ Row(sent) = Row(nq[k]) /\ sent.att = nq[k].att + 1 /\ sent.kind \in NormalKinds
      /\ nq[k].att \in Nat
  <2>1. /\ nq[k].id \in Nat /\ nq[k].kind \in NormalKinds /\ nq[k].att \in Nat
        /\ nq[k].due \in BOOLEAN /\ nq[k].stall \in BOOLEAN
        /\ sent = [id |-> nq[k].id, kind |-> nq[k].kind, att |-> nq[k].att + 1,
                   due |-> nq[k].due, stall |-> nq[k].stall]
    BY <1>1 DEF MsgType
  <2>2. nq[k].kind \in Kinds /\ nq[k].kind \notin TransactionKinds
    BY <2>1 DEF NormalKinds
  <2>3. sent \in Messages
    <3>1. sent \in MsgType(NormalKinds)  BY <1>1, AnotherAttempt
    <3> QED  BY <3>1, Zenon DEF Messages, NormalKinds, MsgType
  <2> QED  BY <2>1, <2>2, <2>3 DEF IsTransaction, Row
<1>3. rest \in NQueues /\ \E h : Keeps(rest, nq, {k}, h)
  BY <1>1, WithoutKeeps DEF NQueues
<1>4. PICK h : Keeps(rest, nq, {k}, h)  BY <1>3
<1>5. \A i \in DOMAIN rest : h[i] \in DOMAIN nq /\ h[i] # k /\ rest[i] = nq[h[i]]
  BY <1>4 DEF Keeps
<1>6. ~IsTransaction(in_flight)  BY DEF NoMessage, IsTransaction, TransactionKinds
<1>7. Numbers(rest, sent, ttab, ntab)
  BY <1>2, <1>5 DEF IInv, Numbers
<1>8. Memory(tq, sent, ttab)
  BY <1>2, <1>6 DEF IInv, Memory, InMemory
<1>9. Distinct(rest, sent)
  <2>1. \A i \in DOMAIN rest : Row(rest[i]) # Row(sent)
    BY <1>2, <1>5 DEF IInv, Distinct
  <2>2. ASSUME NEW i \in DOMAIN rest, NEW j \in DOMAIN rest, Row(rest[i]) = Row(rest[j])
        PROVE  i = j
    <3>1. h[i] = h[j]  BY <2>2, <1>5 DEF IInv, Distinct
    <3>2. DOMAIN rest = 1..Len(rest) /\ Len(rest) \in Nat  BY <1>3 DEF NQueues
    <3>3. h[i] \in Nat /\ h[j] \in Nat  BY <1>1, <1>5
    <3> QED  BY <3>1, <3>2, <3>3, <1>4 DEF Keeps
  <2> QED  BY <2>1, <2>2 DEF Distinct
<1>10. ASSUME NEW u \in Uids, Past(u, tq, nq, in_flight)
       PROVE  Past(u, tq, rest, sent) /\ u # Uid(sent)
  <2>1. CASE u = NoUid
    BY <2>1, <1>2 DEF Past, NoUid, Uid, NormalKinds, Kinds, TransactionKinds
  <2>2. CASE u # NoUid
    <3>0. u.att \in Nat  BY <2>2 DEF Uids, UidType
    <3>1. \A i \in DOMAIN rest : Row(rest[i]) = Row(u) => u.att <= rest[i].att
      BY <1>5, <1>10, <2>2 DEF Past
    <3>2. Row(sent) = Row(u) => u.att <= nq[k].att
      BY <1>2, <1>10, <2>2 DEF Past
    <3>3. u # Uid(sent)
      <4> SUFFICES ASSUME u = Uid(sent) PROVE FALSE  OBVIOUS
      <4>1. Row(sent) = Row(u) /\ u.att = sent.att  BY DEF Uid, Row
      <4> QED  BY <4>1, <3>2, <1>2
    <3> QED  BY <3>0, <3>1, <3>2, <3>3, <1>2, <1>10, <2>2 DEF Past
  <2> QED  BY <2>1, <2>2
<1> QED  BY <1>2, <1>3, <1>7, <1>8, <1>9, <1>10 DEF Taken, IInv, QueueTypeOK, TQueues

\* An attempt that reaches the wire keeps the invariant.
LEMMA SendSucceedsKeeps ==
    ASSUME IInv, in_flight = NoMessage, Running,
           NEW sent, NEW q, NEW n, Taken(sent, q, n), SendSucceeds(sent, q, n),
           UNCHANGED <<phase, timer_late, link, callback, answers, next, csms>>
    PROVE  IInv'
<1> USE DEF Taken
<1>1. /\ in_flight' = sent /\ timer' = Uid(sent) /\ tq' = q /\ nq' = n /\ link = "up"
      /\ wire' = Append(wire, Uid(sent)) /\ open' = Uid(sent)
      /\ offered' = IF IsTransaction(sent) THEN sent.id ELSE offered
      /\ ttab' = ttab /\ ntab' = ntab
  BY DEF SendSucceeds, tables
<1>2. /\ Uid(sent) \in UidType /\ Uid(sent).id = sent.id /\ Uid(sent).kind = sent.kind
      /\ Uid(sent).att = sent.att /\ sent.id \in Nat /\ sent.att \in Nat
      /\ Row(Uid(sent)) = Row(sent) /\ sent # NoMessage /\ Uid(sent) # NoUid
  BY DEF Messages, MsgType, Uid, UidType, NoMessage, NoUid, Row, Kinds, TransactionKinds
<1>3. QueueTypeOK'
  BY <1>1, <1>2 DEF IInv, QueueTypeOK, Messages, TQueues, NQueues
<1>4. IsTransaction(sent) =>
        /\ \A r \in ttab : sent.id <= r.id
        /\ offered <= sent.id /\ 0 < sent.id /\ sent.id < next
  <2> SUFFICES ASSUME IsTransaction(sent)
               PROVE  /\ \A r \in ttab : sent.id <= r.id
                      /\ offered <= sent.id /\ 0 < sent.id /\ sent.id < next
    OBVIOUS
  <2>1. Row(sent) \in ttab /\ Row(sent).id = sent.id  BY DEF Memory, Row
  <2>2. ASSUME NEW r \in ttab PROVE sent.id <= r.id
    <3>1. InMemory(r, q, sent)  BY DEF Memory, Running, Alive
    <3>2. \A i \in DOMAIN q : Row(q[i]).id = q[i].id  BY DEF Row
    <3>3. \A i \in DOMAIN q : q[i].id \in Nat
      <4>1. \A i \in DOMAIN q : q[i] \in MsgType(TransactionKinds)  BY DEF TQueues
      <4> QED  BY <4>1 DEF MsgType
    <3> QED  BY <3>1, <3>2, <3>3, <2>1, <1>2 DEF InMemory, Memory
  <2> QED  BY <2>1, <2>2 DEF Numbers
<1>5. Numbers(nq, in_flight, ttab, ntab)'
  BY <1>1, <1>4 DEF Numbers
<1>6. Memory(tq, in_flight, ttab)'
  BY <1>1 DEF Memory, Alive
<1>7. Distinct(nq, in_flight)'
  BY <1>1
<1>8. /\ \A i \in DOMAIN wire' : i \in DOMAIN wire \/ i = Len(wire) + 1
      /\ \A i \in DOMAIN wire : wire'[i] = wire[i] /\ i \in Nat /\ i < Len(wire) + 1
      /\ wire'[Len(wire) + 1] = Uid(sent) /\ Len(wire) \in Nat
  BY <1>1 DEF IInv, QueueTypeOK
<1>9. Attempted(tq, nq, in_flight)'
  <2>1. Past(Uid(sent), q, n, sent)
    <3>1. \A i \in DOMAIN q : Row(q[i]) # Row(sent)
      <4>1. \A i \in DOMAIN q : q[i].id \in Nat /\ q[i].kind \in TransactionKinds
        <5>1. \A i \in DOMAIN q : q[i] \in MsgType(TransactionKinds)  BY DEF TQueues
        <5> QED  BY <5>1 DEF MsgType
      <4> QED  BY <4>1, <1>2 DEF Memory, Row, IsTransaction
    <3> QED  BY <3>1, <1>2 DEF Past, Distinct, Numbers
  <2>2. Past(timer_late, q, n, sent)
    BY DEF IInv, Attempted, QueueTypeOK, Uids
  <2>3. \A i \in DOMAIN answers : Past(answers[i].uid, q, n, sent)
    <3>1. \A i \in DOMAIN answers : answers[i] \in AnswerType  BY DEF IInv, QueueTypeOK
    <3>2. \A i \in DOMAIN answers : answers[i].uid \in Uids  BY <3>1 DEF AnswerType, Uids
    <3> QED  BY <3>2 DEF IInv, Attempted
  <2>4. \A i \in DOMAIN wire : Past(wire[i], q, n, sent)
    <3>1. \A i \in DOMAIN wire : wire[i] \in Uids  BY DEF IInv, QueueTypeOK, Uids
    <3> QED  BY <3>1 DEF IInv, Attempted
  <2>5. \A i \in DOMAIN wire' : Past(wire'[i], q, n, sent)
    BY <2>1, <2>4, <1>8
  <2> QED  BY <2>2, <2>3, <2>5, <1>1 DEF Attempted, Past
<1>10. OnItsWay'
  <2>1. \A i \in DOMAIN wire : wire[i].id \in Nat
    <3>1. \A i \in DOMAIN wire : wire[i] \in UidType  BY DEF IInv, QueueTypeOK
    <3> QED  BY <3>1 DEF UidType
  <2>2. IsTransaction(Uid(sent)) <=> IsTransaction(sent)  BY <1>2 DEF IsTransaction
  <2>3. offered \in Nat /\ csms \subseteq Nat  BY DEF IInv, QueueTypeOK
  <2> DEFINE v == wire'
             off == offered'
  <2>4. off \in Nat /\ offered <= off /\ (IsTransaction(sent) => off = sent.id)
    BY <1>1, <1>2, <1>4, <2>3
  <2>5. ASSUME NEW i \in DOMAIN v, IsTransaction(v[i])
        PROVE  0 < v[i].id /\ v[i].id <= off /\ \A o \in csms : o <= v[i].id
    <3>1. CASE i \in DOMAIN wire
      BY <3>1, <2>1, <2>3, <2>4, <2>5, <1>8 DEF IInv, OnItsWay
    <3>2. CASE i = Len(wire) + 1
      BY <3>2, <2>2, <2>3, <2>4, <2>5, <1>2, <1>4, <1>8 DEF IInv, OnItsWay
    <3> QED  BY <3>1, <3>2, <1>8
  <2>6. ASSUME NEW i \in DOMAIN v, NEW j \in DOMAIN v, i < j,
               IsTransaction(v[i]), IsTransaction(v[j])
        PROVE  v[i].id <= v[j].id
    <3>1. i \in DOMAIN wire  BY <2>6, <1>8
    <3>2. CASE j \in DOMAIN wire  BY <3>1, <3>2, <2>6, <1>8 DEF IInv, OnItsWay
    <3>3. CASE j = Len(wire) + 1
      BY <3>1, <3>3, <2>1, <2>2, <2>3, <2>6, <1>2, <1>4, <1>8 DEF IInv, OnItsWay
    <3> QED  BY <3>2, <3>3, <1>8
  <2>7. \A o \in csms : o <= off  BY <2>3, <2>4 DEF IInv, OnItsWay
  <2> QED  BY <2>5, <2>6, <2>7 DEF IInv, OnItsWay
<1>11. Outstanding'
  <2>1. timer_late # Uid(sent)  BY DEF IInv, Attempted, QueueTypeOK, Uids
  <2> QED  BY <2>1, <1>1, <1>2 DEF IInv, Outstanding
<1>12. Down'
  BY DEF Down, Running
<1> QED  BY <1>3, <1>5, <1>6, <1>7, <1>9, <1>10, <1>11, <1>12 DEF IInv

-----------------------------------------------------------------------------
\* Steps that release the message in flight, and steps that do not concern it.

\* The message in flight is settled or put back: with the queues and tables in
\* step, the invariant holds again.
LEMMA ReleaseKeeps ==
    ASSUME IInv, Alive,
           tq' \in TQueues, nq' \in NQueues, in_flight' = NoMessage,
           ttab' \subseteq ttab, ntab' \subseteq ntab, timer' = NoUid,
           Numbers(nq, in_flight, ttab, ntab)', Memory(tq, in_flight, ttab)',
           Distinct(nq, in_flight)',
           \A u \in Uids : Past(u, tq, nq, in_flight) => Past(u, tq', nq', in_flight'),
           UNCHANGED <<phase, next, offered, csms, wire, link>>,
           answers' \in Seq(AnswerType),
           \A i \in DOMAIN answers' : \E j \in DOMAIN answers : answers'[i] = answers[j],
           timer_late' \in {timer_late, NoUid}, open' = NoUid,
           callback' \in {callback, "none"}
    PROVE  IInv'
<1>1. QueueTypeOK'
  BY DEF IInv, QueueTypeOK, TQueues, NQueues
<1>2. Attempted(tq, nq, in_flight)'
  <2>1. timer_late' \in Uids /\ NoUid \in Uids
    BY DEF IInv, QueueTypeOK, Uids
  <2>2. Past(timer_late', tq, nq, in_flight)
    BY DEF IInv, Attempted, Past
  <2>3. Past(timer_late', tq', nq', in_flight')  BY <2>1, <2>2
  <2>4. ASSUME NEW i \in DOMAIN wire PROVE Past(wire[i], tq', nq', in_flight')
    <3>1. wire[i] \in Uids  BY DEF IInv, QueueTypeOK, Uids
    <3> QED  BY <3>1 DEF IInv, Attempted
  <2>5. ASSUME NEW i \in DOMAIN answers'
        PROVE  Past(answers'[i].uid, tq', nq', in_flight')
    <3>1. PICK j \in DOMAIN answers : answers'[i] = answers[j]  OBVIOUS
    <3>2. answers[j] \in AnswerType  BY DEF IInv, QueueTypeOK
    <3>3. answers[j].uid \in Uids  BY <3>2 DEF AnswerType, Uids
    <3> QED  BY <3>1, <3>3 DEF IInv, Attempted
  <2> QED  BY <2>3, <2>4, <2>5 DEF Attempted, Past
<1>3. OnItsWay'
  BY DEF IInv, OnItsWay
<1>4. Outstanding'
  BY DEF IInv, Outstanding
<1>5. Down'
  BY DEF Down, Alive
<1> QED  BY <1>1, <1>2, <1>3, <1>4, <1>5 DEF IInv

\* handle_timeout_or_callerror keeps the invariant wherever it is called.
LEMMA GiveBackKeeps ==
    ASSUME IInv, Alive, NEW m \in Messages, NEW q \in TQueues, NEW n \in NQueues,
           Numbers(n, m, ttab, ntab), Memory(q, m, ttab), Distinct(n, m),
           \A u \in Uids : Past(u, tq, nq, in_flight) => Past(u, q, n, m),
           HandleTimeoutOrCallerror(m, q, n),
           UNCHANGED <<phase, next, offered, csms, wire, link>>,
           answers' \in Seq(AnswerType),
           \A i \in DOMAIN answers' : \E j \in DOMAIN answers : answers'[i] = answers[j],
           timer_late' \in {timer_late, NoUid}, open' = NoUid,
           callback' \in {callback, "none"}
    PROVE  IInv'
<1>1. QueueTypeOK  BY DEF IInv
<1>2. UNCHANGED <<phase, next, offered>>  OBVIOUS
<1>3. /\ tq' \in TQueues /\ nq' \in NQueues /\ in_flight' = NoMessage
      /\ ttab' \subseteq ttab /\ ntab' \subseteq ntab /\ timer' = NoUid
      /\ Numbers(nq, in_flight, ttab, ntab)'
      /\ Memory(tq, in_flight, ttab)'
      /\ Distinct(nq, in_flight)'
      /\ \A u \in Uids : Past(u, q, n, m) => Past(u, tq', nq', in_flight')
  BY <1>1, <1>2, HandleKeeps
<1>4. \A u \in Uids : Past(u, tq, nq, in_flight) => Past(u, tq', nq', in_flight')
  BY <1>3
<1> QED  BY <1>3, <1>4, ReleaseKeeps

\* The message in flight is one that may be given back.
LEMMA InFlight ==
    ASSUME IInv, in_flight # NoMessage
    PROVE  /\ in_flight \in Messages /\ tq \in TQueues /\ nq \in NQueues /\ Alive
           /\ Numbers(nq, in_flight, ttab, ntab) /\ Memory(tq, in_flight, ttab)
           /\ Distinct(nq, in_flight)
           /\ answers \in Seq(AnswerType)
  BY DEF IInv, QueueTypeOK, Messages, TQueues, NQueues, Down, Alive

\* An attempt that does not reach the wire keeps the invariant.
LEMMA SendFailsKeeps ==
    ASSUME IInv, in_flight = NoMessage, Running,
           NEW sent, NEW q, NEW n, Taken(sent, q, n), SendFails(sent, q, n),
           UNCHANGED <<phase, timer_late, link, callback, answers, next, csms>>
    PROVE  IInv'
<1>1. Alive /\ open = NoUid /\ answers \in Seq(AnswerType)
  BY DEF IInv, Running, Alive, Outstanding, QueueTypeOK
<1>2. /\ HandleTimeoutOrCallerror(sent, q, n)
      /\ UNCHANGED <<phase, next, offered, csms, wire, link>>
      /\ open' = NoUid /\ timer_late' = timer_late /\ callback' = callback
      /\ answers' = answers
  BY <1>1 DEF SendFails
<1>3. \A u \in Uids : Past(u, tq, nq, in_flight) => Past(u, q, n, sent)
  BY DEF Taken
<1> QED  BY <1>1, <1>2, <1>3, GiveBackKeeps DEF Taken

\* A step that leaves the queues and what is under way alone keeps the invariant.
LEMMA FrameKeeps ==
    ASSUME IInv,
           UNCHANGED <<phase, queues, tables, timer, timer_late, wire, answers,
                       open, link, next, csms, offered>>,
           callback' \in {callback, "none"}
    PROVE  IInv'
<1>0. UNCHANGED <<phase, tq, nq, in_flight, ttab, ntab, timer, timer_late, wire,
                  answers, open, link, next, csms, offered>>
  BY DEF queues, tables
<1>1. QueueTypeOK'  BY <1>0 DEF IInv, QueueTypeOK
<1>2. Numbers(nq, in_flight, ttab, ntab)'  BY <1>0 DEF IInv, Numbers
<1>3. Memory(tq, in_flight, ttab)'  BY <1>0 DEF IInv, Memory, Alive
<1>4. Distinct(nq, in_flight)'  BY <1>0 DEF IInv, Distinct
<1>5. Attempted(tq, nq, in_flight)'  BY <1>0 DEF IInv, Attempted, Past
<1>6. OnItsWay'  BY <1>0 DEF IInv, OnItsWay
<1>7. Outstanding'  BY <1>0 DEF IInv, Outstanding
<1>8. Down'  BY <1>0 DEF IInv, Down
<1> QED  BY <1>1, <1>2, <1>3, <1>4, <1>5, <1>6, <1>7, <1>8 DEF IInv

\* A timestamp that is reached changes nothing else of a queue.
LEMMA DueKeeps ==
    ASSUME NEW kinds, NEW q \in Seq(MsgType(kinds)),
           NEW p, p = [i \in DOMAIN q |-> p[i]],
           \A i \in DOMAIN q : p[i] \in {q[i], [q[i] EXCEPT !.due = TRUE]}
    PROVE  /\ p \in Seq(MsgType(kinds)) /\ DOMAIN p = DOMAIN q
           /\ \A i \in DOMAIN q : Row(p[i]) = Row(q[i]) /\ p[i].att = q[i].att
                                /\ p[i].id = q[i].id
<1>1. ASSUME NEW i \in DOMAIN q
      PROVE  /\ p[i] \in MsgType(kinds) /\ Row(p[i]) = Row(q[i])
             /\ p[i].att = q[i].att /\ p[i].id = q[i].id
  <2>1. q[i] \in MsgType(kinds)  OBVIOUS
  <2>2. CASE p[i] = q[i]  BY <2>1, <2>2
  <2>3. CASE p[i] = [q[i] EXCEPT !.due = TRUE]  BY <2>1, <2>3 DEF MsgType, Row
  <2> QED  BY <2>2, <2>3
<1>2. DOMAIN p = 1..Len(q) /\ DOMAIN q = 1..Len(q) /\ Len(q) \in Nat  OBVIOUS
<1>3. p \in [1..Len(q) -> MsgType(kinds)]  BY <1>1, <1>2
<1>4. p \in Seq(MsgType(kinds))  BY <1>2, <1>3
<1> QED  BY <1>1, <1>2, <1>4

-----------------------------------------------------------------------------
\* The actions, one by one.

\* Sending the first transaction message, from its queue and never from the table.
LEMMA WorkerSendsTransactionKeeps ==
    ASSUME IInv, WorkerSendsTransaction
    PROVE  IInv'
<1>1. /\ Running /\ in_flight = NoMessage /\ tq # <<>>
      /\ UNCHANGED <<phase, timer_late, link, callback, answers, next, csms>>
  BY DEF WorkerSendsTransaction, SendReady, PicksTransaction
<1> DEFINE sent == [Head(tq) EXCEPT !.att = @ + 1]
<1>2. Taken(sent, Tail(tq), nq)  BY <1>1, TakeTransaction
<1>3. SendSucceeds(sent, Tail(tq), nq) \/ SendFails(sent, Tail(tq), nq)
  BY DEF WorkerSendsTransaction, Send
<1> HIDE DEF sent
<1> QED  BY <1>1, <1>2, <1>3, SendSucceedsKeeps, SendFailsKeeps

\* Sending the first normal message that may be sent.
LEMMA WorkerSendsNormalKeeps ==
    ASSUME IInv, WorkerSendsNormal
    PROVE  IInv'
<1>1. /\ Running /\ in_flight = NoMessage /\ FirstNormal # 0
      /\ UNCHANGED <<phase, timer_late, link, callback, answers, next, csms>>
  BY DEF WorkerSendsNormal, SendReady, PicksNormal
<1>2. FirstNormal \in DOMAIN nq
  BY <1>1, FirstNormalExists
<1> DEFINE sent == [nq[FirstNormal] EXCEPT !.att = @ + 1]
<1>3. PICK rest \in Without(nq, {FirstNormal}) : Send(nq[FirstNormal], tq, rest)
  BY DEF WorkerSendsNormal
<1>4. Taken(sent, tq, rest)  BY <1>1, <1>2, TakeNormal
<1>5. SendSucceeds(sent, tq, rest) \/ SendFails(sent, tq, rest)
  BY <1>3 DEF Send
<1> HIDE DEF sent
<1> QED  BY <1>1, <1>4, <1>5, SendSucceedsKeeps, SendFailsKeeps

\* The time limit of the message in flight runs out: its attempt is past.
LEMMA TimerExpiresKeeps ==
    ASSUME IInv, TimerExpires
    PROVE  IInv'
<1>1. /\ timer # NoUid /\ timer_late' = timer /\ timer' = NoUid
      /\ open' = IF open = timer THEN NoUid ELSE open
      /\ UNCHANGED <<phase, tq, nq, in_flight, ttab, ntab, wire, answers, link,
                     callback, next, csms, offered>>
  BY DEF TimerExpires, queues, tables, net
<1>2. timer = Uid(in_flight) /\ in_flight # NoMessage /\ open' = NoUid
  BY <1>1 DEF IInv, Outstanding
<1>3. QueueTypeOK'  BY <1>1, <1>2 DEF IInv, QueueTypeOK
<1>4. Numbers(nq, in_flight, ttab, ntab)'  BY <1>1 DEF IInv, Numbers
<1>5. Memory(tq, in_flight, ttab)'  BY <1>1 DEF IInv, Memory, Alive
<1>6. Distinct(nq, in_flight)'  BY <1>1 DEF IInv, Distinct
<1>7. Attempted(tq, nq, in_flight)'
  <2>1. /\ Row(timer) = Row(in_flight) /\ timer.att = in_flight.att
        /\ timer.id = in_flight.id /\ timer.att \in Nat /\ timer.id \in Nat
    BY <1>1, <1>2 DEF Uid, Row, IInv, QueueTypeOK, UidType
  <2>2. in_flight \in Messages /\ Memory(tq, in_flight, ttab) /\ tq \in TQueues
    BY <1>2, InFlight
  <2>3. \A i \in DOMAIN tq : Row(tq[i]) # Row(in_flight)
    <3>1. \A i \in DOMAIN tq : tq[i].id \in Nat /\ tq[i].kind \in TransactionKinds
      <4>1. \A i \in DOMAIN tq : tq[i] \in MsgType(TransactionKinds)  BY <2>2 DEF TQueues
      <4> QED  BY <4>1 DEF MsgType
    <3>2. in_flight.id \in Nat  BY <2>1
    <3> QED  BY <3>1, <3>2, <2>2 DEF Memory, Row, IsTransaction
  <2>4. \A i \in DOMAIN nq : Row(nq[i]) # Row(in_flight)
    BY DEF IInv, Distinct
  <2>5. Past(timer, tq, nq, in_flight)
    BY <2>1, <2>3, <2>4 DEF Past, IInv, Numbers
  <2> QED  BY <1>1, <2>5 DEF IInv, Attempted, Past
<1>8. OnItsWay'  BY <1>1 DEF IInv, OnItsWay
<1>9. Outstanding'  BY <1>1, <1>2 DEF IInv, Outstanding
<1>10. Down'  BY <1>1, <1>2 DEF IInv, Down
<1> QED  BY <1>3, <1>4, <1>5, <1>6, <1>7, <1>8, <1>9, <1>10 DEF IInv

\* The callback of a timeout gives back its own attempt only.
LEMMA TimeoutCallbackKeeps ==
    ASSUME IInv, TimeoutCallback
    PROVE  IInv'
<1>1. /\ timer_late' = NoUid
      /\ UNCHANGED <<phase, wire, answers, open, link, callback, next, csms, offered>>
  BY DEF TimeoutCallback, net, past
<1>2. CASE in_flight = NoMessage \/ Uid(in_flight) # timer_late
  <2>1. UNCHANGED <<tq, nq, in_flight, ttab, ntab, timer>>
    BY <1>2, <1>1 DEF TimeoutCallback, queues, tables
  <2>2. QueueTypeOK'  BY <1>1, <2>1 DEF IInv, QueueTypeOK
  <2>3. Numbers(nq, in_flight, ttab, ntab)'  BY <1>1, <2>1 DEF IInv, Numbers
  <2>4. Memory(tq, in_flight, ttab)'  BY <1>1, <2>1 DEF IInv, Memory, Alive
  <2>5. Distinct(nq, in_flight)'  BY <1>1, <2>1 DEF IInv, Distinct
  <2>6. Attempted(tq, nq, in_flight)'  BY <1>1, <2>1 DEF IInv, Attempted, Past
  <2>7. OnItsWay'  BY <1>1, <2>1 DEF IInv, OnItsWay
  <2>8. Outstanding'  BY <1>1, <2>1 DEF IInv, Outstanding
  <2>9. Down'  BY <1>1, <2>1 DEF IInv, Down
  <2> QED  BY <2>2, <2>3, <2>4, <2>5, <2>6, <2>7, <2>8, <2>9 DEF IInv
<1>3. CASE in_flight # NoMessage /\ Uid(in_flight) = timer_late
  <2>1. HandleTimeoutOrCallerror(in_flight, tq, nq)  BY <1>3 DEF TimeoutCallback
  <2>2. open = NoUid  BY <1>3 DEF IInv, Outstanding
  <2> QED  BY <1>1, <1>3, <2>1, <2>2, InFlight, GiveBackKeeps
<1> QED  BY <1>2, <1>3

\* pause gives back what is in flight; nothing is outstanding by then.
LEMMA DisconnectedCallbackKeeps ==
    ASSUME IInv, DisconnectedCallback
    PROVE  IInv'
<1>1. /\ callback' = "none" /\ callback = "disconnected"
      /\ UNCHANGED <<phase, wire, answers, open, link, timer_late, next, csms, offered>>
  BY DEF DisconnectedCallback, past
<1>2. CASE in_flight = NoMessage
  <2>1. UNCHANGED <<queues, tables, timer>>
    BY <1>2 DEF DisconnectedCallback
  <2> QED  BY <1>1, <2>1, FrameKeeps
<1>3. CASE in_flight # NoMessage
  <2>1. HandleTimeoutOrCallerror(in_flight, tq, nq)  BY <1>3 DEF DisconnectedCallback
  <2>2. open = NoUid  BY <1>1 DEF IInv, Outstanding
  <2> QED  BY <1>1, <1>3, <2>1, <2>2, InFlight, GiveBackKeeps
<1> QED  BY <1>2, <1>3

\* stop leaves queues and tables alone.
LEMMA StopKeeps ==
    ASSUME IInv, Stop
    PROVE  IInv'
<1>1. /\ phase = "running" /\ phase' = "stopped" /\ timer' = NoUid
      /\ UNCHANGED <<tq, nq, in_flight, ttab, ntab, timer_late, wire, answers, open,
                     link, callback, next, csms, offered>>
  BY DEF Stop, Running, queues, tables, net
<1>2. QueueTypeOK'  BY <1>1 DEF IInv, QueueTypeOK
<1>3. Numbers(nq, in_flight, ttab, ntab)'  BY <1>1 DEF IInv, Numbers
<1>4. Memory(tq, in_flight, ttab)'  BY <1>1 DEF IInv, Memory, Alive
<1>5. Distinct(nq, in_flight)'  BY <1>1 DEF IInv, Distinct
<1>6. Attempted(tq, nq, in_flight)'  BY <1>1 DEF IInv, Attempted, Past
<1>7. OnItsWay'  BY <1>1 DEF IInv, OnItsWay
<1>8. Outstanding'  BY <1>1 DEF IInv, Outstanding
<1>9. Down'  BY <1>1 DEF Down
<1> QED  BY <1>2, <1>3, <1>4, <1>5, <1>6, <1>7, <1>8, <1>9 DEF IInv

\* Init and PowerDown: nothing is in memory or under way.
LEMMA EmptyMemory ==
    ASSUME phase = "down", tq = <<>>, nq = <<>>, in_flight = NoMessage,
           timer = NoUid, timer_late = NoUid, link = "down", callback = "none",
           wire = <<>>, answers = <<>>, open = NoUid,
           ttab \subseteq RowType(TransactionKinds), ntab \subseteq RowType(NormalKinds),
           next \in Nat \ {0}, csms \subseteq Nat, offered \in Nat, offered < next,
           \A r \in ttab : offered <= r.id /\ 0 < r.id /\ r.id < next,
           \A r \in ntab : r.id < next,
           \A r, s \in ttab : r.id = s.id => r = s,
           \A o \in csms : o <= offered
    PROVE  IInv
<1>1. ~IsTransaction(in_flight) /\ in_flight.id = 0
  BY DEF IsTransaction, NoMessage, TransactionKinds
<1>2. QueueTypeOK  BY DEF QueueTypeOK
<1>3. Numbers(nq, in_flight, ttab, ntab)  BY <1>1 DEF Numbers
<1>4. Memory(tq, in_flight, ttab)  BY <1>1 DEF Memory, Alive
<1>5. Distinct(nq, in_flight)  BY DEF Distinct
<1>6. Attempted(tq, nq, in_flight)  BY DEF Attempted, Past
<1>7. OnItsWay  BY DEF OnItsWay
<1>8. Outstanding  BY DEF Outstanding
<1>9. Down  BY DEF Down
<1> QED  BY <1>2, <1>3, <1>4, <1>5, <1>6, <1>7, <1>8, <1>9 DEF IInv

\* The invariant holds at the start.
LEMMA InitHolds == Init => IInv
<1> SUFFICES ASSUME Init PROVE IInv  OBVIOUS
<1> QED  BY EmptyMemory DEF Init

\* A restart loses what is in memory and under way, never a row.
LEMMA PowerDownKeeps ==
    ASSUME IInv, PowerDown
    PROVE  IInv'
<1>1. /\ phase' = "down" /\ tq' = <<>> /\ nq' = <<>> /\ in_flight' = NoMessage
      /\ timer' = NoUid /\ timer_late' = NoUid /\ link' = "down" /\ callback' = "none"
      /\ wire' = <<>> /\ answers' = <<>> /\ open' = NoUid
      /\ UNCHANGED <<ttab, ntab, next, csms, offered>>
  BY DEF PowerDown, tables
<1>2. QueueTypeOK'  BY <1>1 DEF IInv, QueueTypeOK
<1>3. ~IsTransaction(in_flight') /\ in_flight'.id = 0
  BY <1>1 DEF IsTransaction, NoMessage, TransactionKinds
<1>4. Numbers(nq, in_flight, ttab, ntab)'
  BY <1>1, <1>3 DEF IInv, Numbers, QueueTypeOK
<1>5. Memory(tq, in_flight, ttab)'  BY <1>1, <1>3 DEF Memory, Alive
<1>6. Distinct(nq, in_flight)'  BY <1>1 DEF Distinct
<1>7. Attempted(tq, nq, in_flight)'  BY <1>1 DEF Attempted, Past
<1>8. OnItsWay'  BY <1>1 DEF IInv, OnItsWay
<1>9. Outstanding'  BY <1>1 DEF Outstanding
<1>10. Down'  BY <1>1 DEF Down
<1> QED  BY <1>2, <1>4, <1>5, <1>6, <1>7, <1>8, <1>9, <1>10 DEF IInv

\* A connection comes up empty, and takes along what is under way when it breaks.
LEMMA ConnectionKeeps ==
    ASSUME IInv, Connect \/ Disconnect
    PROVE  IInv'
<1>1. /\ UNCHANGED <<phase, tq, nq, in_flight, ttab, ntab, timer, timer_late, next,
                     csms, offered>>
      /\ phase # "down"
      /\ \/ /\ link' = "up" /\ callback' = "connected" /\ UNCHANGED <<wire, answers, open>>
         \/ /\ link' = "down" /\ wire' = <<>> /\ answers' = <<>> /\ open' = NoUid
  BY DEF Connect, Disconnect, Running, Alive, queues, tables, timers, past
<1>2. QueueTypeOK'
  <2>0. <<>> \in Seq(UidType) /\ <<>> \in Seq(AnswerType) /\ NoUid \in UidType \union {NoUid}
    OBVIOUS
  <2>1. /\ wire' \in Seq(UidType) /\ answers' \in Seq(AnswerType)
        /\ open' \in UidType \union {NoUid}
    BY <1>1, <2>0, Zenon DEF IInv, QueueTypeOK
  <2> QED  BY <1>1, <2>1 DEF IInv, QueueTypeOK
<1>3. Numbers(nq, in_flight, ttab, ntab)'  BY <1>1 DEF IInv, Numbers
<1>4. Memory(tq, in_flight, ttab)'  BY <1>1 DEF IInv, Memory, Alive
<1>5. Distinct(nq, in_flight)'  BY <1>1 DEF IInv, Distinct
<1>6. Attempted(tq, nq, in_flight)'  BY <1>1 DEF IInv, Attempted, Past
<1>7. OnItsWay'  BY <1>1 DEF IInv, OnItsWay
<1>8. Outstanding'  BY <1>1 DEF IInv, Outstanding
<1>9. Down'  BY <1>1 DEF Down
<1> QED  BY <1>2, <1>3, <1>4, <1>5, <1>6, <1>7, <1>8, <1>9 DEF IInv

\* A timestamp that is reached changes no attempt, number or order.
LEMMA TimePassesKeeps ==
    ASSUME IInv, TimePasses
    PROVE  IInv'
<1>1. UNCHANGED <<phase, in_flight, ttab, ntab, timer, timer_late, wire, answers, open,
                  link, callback, next, csms, offered>>
  BY DEF TimePasses, tables, timers, net, past
<1>2. /\ tq' \in TQueues /\ DOMAIN tq' = DOMAIN tq
      /\ \A i \in DOMAIN tq : Row(tq'[i]) = Row(tq[i]) /\ tq'[i].att = tq[i].att
                           /\ tq'[i].id = tq[i].id
  <2>1. CASE UNCHANGED tq  BY <2>1 DEF IInv, QueueTypeOK, TQueues
  <2>2. ASSUME NEW k \in DOMAIN tq, tq' = [tq EXCEPT ![k].due = TRUE]
        PROVE  <1>2
    <3>1. tq \in TQueues  BY DEF IInv, QueueTypeOK, TQueues
    <3>2. tq' = [i \in DOMAIN tq |-> tq'[i]]  BY <2>2
    <3>3. \A i \in DOMAIN tq : tq'[i] \in {tq[i], [tq[i] EXCEPT !.due = TRUE]}
      BY <2>2
    <3> QED  BY <3>1, <3>2, <3>3, DueKeeps DEF TQueues
  <2> QED  BY <2>1, <2>2 DEF TimePasses
<1>3. /\ nq' \in NQueues /\ DOMAIN nq' = DOMAIN nq
      /\ \A i \in DOMAIN nq : Row(nq'[i]) = Row(nq[i]) /\ nq'[i].att = nq[i].att
                           /\ nq'[i].id = nq[i].id
  <2>1. CASE UNCHANGED nq  BY <2>1 DEF IInv, QueueTypeOK, NQueues
  <2>2. ASSUME NEW k \in DOMAIN nq, nq' = [nq EXCEPT ![k].due = TRUE]
        PROVE  <1>3
    <3>1. nq \in NQueues  BY DEF IInv, QueueTypeOK, NQueues
    <3>2. nq' = [i \in DOMAIN nq |-> nq'[i]]  BY <2>2
    <3>3. \A i \in DOMAIN nq : nq'[i] \in {nq[i], [nq[i] EXCEPT !.due = TRUE]}
      BY <2>2
    <3> QED  BY <3>1, <3>2, <3>3, DueKeeps DEF NQueues
  <2> QED  BY <2>1, <2>2 DEF TimePasses
<1>4. QueueTypeOK'  BY <1>1, <1>2, <1>3 DEF IInv, QueueTypeOK, TQueues, NQueues
<1>5. Numbers(nq, in_flight, ttab, ntab)'  BY <1>1, <1>3 DEF IInv, Numbers
<1>6. Memory(tq, in_flight, ttab)'  BY <1>1, <1>2 DEF IInv, Memory, Alive, InMemory
<1>7. Distinct(nq, in_flight)'  BY <1>1, <1>3 DEF IInv, Distinct
<1>8. Attempted(tq, nq, in_flight)'
  <2>1. ASSUME NEW u, Past(u, tq, nq, in_flight) PROVE Past(u, tq, nq, in_flight)'
    BY <2>1, <1>1, <1>2, <1>3 DEF Past
  <2> QED  BY <1>1, <2>1 DEF IInv, Attempted
<1>9. OnItsWay'  BY <1>1 DEF IInv, OnItsWay
<1>10. Outstanding'  BY <1>1 DEF IInv, Outstanding
<1>11. Down'
  <2>1. phase = "down" => tq = <<>> /\ nq = <<>>  BY DEF IInv, Down
  <2>2. phase # "down"  BY <2>1 DEF TimePasses
  <2> QED  BY <1>1, <2>2 DEF Down
<1> QED  BY <1>4, <1>5, <1>6, <1>7, <1>8, <1>9, <1>10, <1>11 DEF IInv

\* The queues loaded from the tables are in the order of the numbers, untried.
LEMMA StartKeeps ==
    ASSUME IInv, Start
    PROVE  IInv'
<1>1. /\ phase = "down" /\ phase' = "running" /\ ntab' \subseteq ntab
      /\ tq' \in Loaded(ttab) /\ nq' \in Loaded(ntab)
      /\ UNCHANGED <<ttab, in_flight, timer, timer_late, wire, answers, open,
                     link, callback, next, csms, offered>>
  BY DEF Start, timers, net, past
<1>2. /\ in_flight = NoMessage /\ wire = <<>> /\ answers = <<>>
      /\ timer = NoUid /\ timer_late = NoUid /\ open = NoUid
  BY <1>1 DEF IInv, Down
<1>3. ttab \in SUBSET RowType(TransactionKinds) /\ next \in Nat /\ \A r \in ttab : r.id < next
  BY DEF IInv, QueueTypeOK, Numbers
<1>4. ntab \in SUBSET RowType(NormalKinds) /\ \A r \in ntab : r.id < next
  BY DEF IInv, QueueTypeOK, Numbers
<1>5. /\ tq' \in Seq(MsgType(TransactionKinds))
      /\ \A i \in DOMAIN tq' : Row(tq'[i]) \in ttab /\ tq'[i].att = 0
      /\ \A i, j \in DOMAIN tq' : i < j => tq'[i].id < tq'[j].id
      /\ \A r \in ttab : \E i \in DOMAIN tq' : tq'[i].id = r.id
  BY <1>1, <1>3, LoadedQueue
<1>6. /\ nq' \in Seq(MsgType(NormalKinds))
      /\ \A i \in DOMAIN nq' : Row(nq'[i]) \in ntab /\ nq'[i].att = 0
      /\ \A i, j \in DOMAIN nq' : i < j => nq'[i].id < nq'[j].id
      /\ \A r \in ntab : \E i \in DOMAIN nq' : nq'[i].id = r.id
  BY <1>1, <1>3, <1>4, LoadedQueue
<1>7. ~IsTransaction(in_flight)
  BY <1>2 DEF IsTransaction, NoMessage, TransactionKinds
<1>8. QueueTypeOK'  BY <1>1, <1>5, <1>6 DEF IInv, QueueTypeOK
<1>9. \A i \in DOMAIN nq' : nq'[i].id < next /\ nq'[i].id \in Nat /\ nq'[i].kind \in Kinds
  <2> SUFFICES ASSUME NEW i \in DOMAIN nq'
               PROVE  nq'[i].id < next /\ nq'[i].id \in Nat /\ nq'[i].kind \in Kinds
    OBVIOUS
  <2>1. nq'[i] \in MsgType(NormalKinds)  BY <1>6
  <2>2. Row(nq'[i]).id < next  BY <1>4, <1>6
  <2> QED  BY <2>1, <2>2 DEF Row, MsgType, NormalKinds
<1>10. Numbers(nq, in_flight, ttab, ntab)'
  BY <1>1, <1>9 DEF IInv, Numbers
<1>11. Memory(tq, in_flight, ttab)'
  <2>1. ASSUME NEW r \in ttab PROVE \E i \in DOMAIN tq' : r = Row(tq'[i])
    <3>1. PICK i \in DOMAIN tq' : tq'[i].id = r.id  BY <1>5
    <3>2. Row(tq'[i]) \in ttab /\ Row(tq'[i]).id = r.id  BY <3>1, <1>5 DEF Row
    <3> QED  BY <3>2 DEF IInv, Numbers
  <2> QED  BY <1>1, <1>5, <1>7, <2>1 DEF Memory, InMemory
<1>12. Distinct(nq, in_flight)'
  <2>1. \A i \in DOMAIN nq' : Row(nq'[i]) # Row(in_flight)
    BY <1>2, <1>9 DEF Row, NoMessage, Kinds, TransactionKinds
  <2>2. ASSUME NEW i \in DOMAIN nq', NEW j \in DOMAIN nq', Row(nq'[i]) = Row(nq'[j])
        PROVE  i = j
    <3>1. nq'[i].id = nq'[j].id  BY <2>2 DEF Row
    <3>2. nq'[i].id \in Nat /\ nq'[j].id \in Nat  BY <1>9
    <3>3. i \in Nat /\ j \in Nat  BY <1>6
    <3> QED  BY <3>1, <3>2, <3>3, <1>6
  <2> QED  BY <1>1, <2>1, <2>2 DEF Distinct
<1>13. Attempted(tq, nq, in_flight)'  BY <1>1, <1>2 DEF Attempted, Past
<1>14. OnItsWay'  BY <1>1 DEF IInv, OnItsWay
<1>15. Outstanding'  BY <1>1 DEF IInv, Outstanding
<1>16. Down'  BY <1>1 DEF Down
<1> QED  BY <1>8, <1>10, <1>11, <1>12, <1>13, <1>14, <1>15, <1>16 DEF IInv

\* The CSMS takes the next message and may answer it.
LEMMA CsmsHandlesKeeps ==
    ASSUME IInv, CsmsHandles
    PROVE  IInv'
<1>1. /\ wire # <<>> /\ wire' = Tail(wire)
      /\ csms' = IF Head(wire).kind \in TransactionKinds
                 THEN csms \union {Head(wire).id} ELSE csms
      /\ \/ answers' = answers
         \/ \E type \in {"result", "error", "pending"} :
              answers' = Append(answers, [uid |-> Head(wire), type |-> type])
      /\ UNCHANGED <<phase, tq, nq, in_flight, ttab, ntab, timer, timer_late,
                     link, callback, next, offered, open>>
  BY DEF CsmsHandles, queues, tables, timers, Answer
<1>2. /\ wire \in Seq(UidType) /\ Len(wire) \in Nat /\ Len(wire) > 0
      /\ wire' \in Seq(UidType) /\ 1 \in DOMAIN wire /\ Head(wire) = wire[1]
      /\ DOMAIN wire' = 1..(Len(wire) - 1) /\ DOMAIN wire = 1..Len(wire)
      /\ \A i \in DOMAIN wire' : i + 1 \in DOMAIN wire /\ wire'[i] = wire[i + 1]
  BY <1>1 DEF IInv, QueueTypeOK
<1>3. wire[1] \in UidType /\ wire[1].id \in Nat
  <2>1. wire[1] \in UidType  BY <1>2
  <2> QED  BY <2>1 DEF UidType
<1>4. answers' \in Seq(AnswerType) /\ \A i \in DOMAIN answers' :
        \/ i \in DOMAIN answers /\ answers'[i] = answers[i]
        \/ answers'[i].uid = wire[1]
  <2>0. answers \in Seq(AnswerType)  BY DEF IInv, QueueTypeOK
  <2>1. CASE answers' = answers  BY <2>0, <2>1
  <2>2. ASSUME NEW type \in {"result", "error", "pending"},
               answers' = Append(answers, [uid |-> wire[1], type |-> type])
        PROVE  <1>4
    <3>1. [uid |-> wire[1], type |-> type] \in AnswerType  BY <1>3 DEF AnswerType
    <3>2. /\ answers' \in Seq(AnswerType) /\ Len(answers) \in Nat
          /\ DOMAIN answers' = 1..(Len(answers) + 1) /\ DOMAIN answers = 1..Len(answers)
          /\ \A i \in DOMAIN answers : answers'[i] = answers[i]
          /\ answers'[Len(answers) + 1] = [uid |-> wire[1], type |-> type]
      BY <2>0, <2>2, <3>1
    <3> QED  BY <3>2
  <2> QED  BY <1>1, <1>2, <2>1, <2>2
<1>5. QueueTypeOK'
  BY <1>1, <1>2, <1>3, <1>4 DEF IInv, QueueTypeOK
<1>6. Numbers(nq, in_flight, ttab, ntab)'  BY <1>1 DEF IInv, Numbers
<1>7. Memory(tq, in_flight, ttab)'  BY <1>1 DEF IInv, Memory, Alive
<1>8. Distinct(nq, in_flight)'  BY <1>1 DEF IInv, Distinct
<1>9. Attempted(tq, nq, in_flight)'
  <2>1. \A i \in DOMAIN wire' : Past(wire'[i], tq, nq, in_flight)
    BY <1>2 DEF IInv, Attempted
  <2>2. \A i \in DOMAIN answers' : Past(answers'[i].uid, tq, nq, in_flight)
    BY <1>2, <1>4 DEF IInv, Attempted
  <2> QED  BY <1>1, <2>1, <2>2 DEF IInv, Attempted, Past
<1>10. OnItsWay'
  <2>0. offered \in Nat /\ csms \subseteq Nat  BY DEF IInv, QueueTypeOK
  <2>1. \A i \in DOMAIN wire : wire[i].id \in Nat
    <3>1. \A i \in DOMAIN wire : wire[i] \in UidType  BY <1>2
    <3> QED  BY <3>1 DEF UidType
  <2>2. ASSUME NEW i \in DOMAIN wire', NEW j \in DOMAIN wire', i < j,
               IsTransaction(wire'[i]), IsTransaction(wire'[j])
        PROVE  wire'[i].id <= wire'[j].id
    <3>1. i + 1 < j + 1 /\ i + 1 \in DOMAIN wire /\ j + 1 \in DOMAIN wire  BY <1>2, <2>2
    <3> QED  BY <3>1, <1>2, <2>2 DEF IInv, OnItsWay
  <2>3. ASSUME NEW i \in DOMAIN wire', IsTransaction(wire'[i])
        PROVE  0 < wire'[i].id /\ wire'[i].id <= offered /\ \A o \in csms' : o <= wire'[i].id
    <3>1. 1 < i + 1 /\ i + 1 \in DOMAIN wire /\ wire'[i] = wire[i + 1]  BY <1>2
    <3>2. 0 < wire'[i].id /\ wire'[i].id <= offered /\ \A o \in csms : o <= wire'[i].id
      BY <3>1, <2>3 DEF IInv, OnItsWay
    <3>3. IsTransaction(wire[1]) => wire[1].id <= wire'[i].id
      BY <3>1, <2>3, <1>2 DEF IInv, OnItsWay
    <3> QED  BY <3>2, <3>3, <1>1, <1>2 DEF IsTransaction
  <2>4. \A o \in csms' : o <= offered
    BY <1>1, <1>2 DEF IInv, OnItsWay, IsTransaction
  <2>5. \A i \in DOMAIN answers' :
          IsTransaction(answers'[i].uid) => answers'[i].uid.id \in csms'
    BY <1>1, <1>2, <1>4 DEF IInv, OnItsWay, IsTransaction
  <2> QED  BY <1>1, <2>2, <2>3, <2>4, <2>5 DEF OnItsWay
<1>11. Outstanding'
  <2>1. link # "down"  BY <1>1 DEF IInv, Outstanding
  <2> QED  BY <1>1, <2>1 DEF IInv, Outstanding
<1>12. Down'  BY <1>1 DEF IInv, Down
<1> QED  BY <1>5, <1>6, <1>7, <1>8, <1>9, <1>10, <1>11, <1>12 DEF IInv

\* An answer settles or gives back its own attempt only.
LEMMA ReceiveKeeps ==
    ASSUME IInv, Receive
    PROVE  IInv'
<1> DEFINE a == Head(answers)
<1>1. /\ Alive /\ answers # <<>> /\ answers' = Tail(answers)
      /\ open' = IF open = a.uid THEN NoUid ELSE open
      /\ UNCHANGED <<phase, timer_late, link, callback, wire, next, csms, offered>>
  BY DEF Receive
<1>2. answers \in Seq(AnswerType) /\ answers' \in Seq(AnswerType)
  BY <1>1 DEF IInv, QueueTypeOK
<1>3. \A i \in DOMAIN answers' : \E j \in DOMAIN answers : answers'[i] = answers[j]
  <2> SUFFICES ASSUME NEW i \in DOMAIN answers'
               PROVE  \E j \in DOMAIN answers : answers'[i] = answers[j]
    OBVIOUS
  <2>1. i + 1 \in DOMAIN answers /\ answers'[i] = answers[i + 1]  BY <1>1, <1>2
  <2> QED  BY <2>1
<1> HIDE DEF a
<1>4. CASE in_flight = NoMessage \/ Uid(in_flight) # a.uid
  <2>1. UNCHANGED <<tq, nq, in_flight, ttab, ntab, timer>>
    BY <1>4 DEF Receive, queues, tables, a
  <2>2. open' = open  BY <1>1, <1>4 DEF IInv, Outstanding
  <2>3. QueueTypeOK'  BY <1>1, <1>2, <2>1, <2>2 DEF IInv, QueueTypeOK
  <2>4. Numbers(nq, in_flight, ttab, ntab)'  BY <1>1, <2>1 DEF IInv, Numbers
  <2>5. Memory(tq, in_flight, ttab)'  BY <1>1, <2>1 DEF IInv, Memory, Alive
  <2>6. Distinct(nq, in_flight)'  BY <1>1, <2>1 DEF IInv, Distinct
  <2>7. Attempted(tq, nq, in_flight)'  BY <1>1, <1>3, <2>1 DEF IInv, Attempted, Past
  <2>8. OnItsWay'  BY <1>1, <1>3 DEF IInv, OnItsWay
  <2>9. Outstanding'  BY <1>1, <2>1, <2>2 DEF IInv, Outstanding
  <2>10. Down'  BY <1>1 DEF Down, Alive
  <2> QED  BY <2>3, <2>4, <2>5, <2>6, <2>7, <2>8, <2>9, <2>10 DEF IInv
<1>5. CASE in_flight # NoMessage /\ Uid(in_flight) = a.uid
  <2>1. open' = NoUid  BY <1>1, <1>5 DEF IInv, Outstanding
  <2>2. CASE HandleTimeoutOrCallerror(in_flight, tq, nq)
    BY <1>1, <1>2, <1>3, <1>5, <2>1, <2>2, InFlight, GiveBackKeeps
  <2>3. ASSUME NEW type, HandleCallResult(type) PROVE IInv'
    <3>1. /\ tq' = tq /\ nq' = nq /\ in_flight' = NoMessage /\ timer' = NoUid
          /\ ttab' = IF IsTransaction(in_flight) THEN ttab \ RowsWithId(in_flight.id) ELSE ttab
          /\ ntab' \subseteq ntab
      BY <2>3 DEF HandleCallResult
    <3>2. /\ in_flight \in Messages /\ tq \in TQueues /\ nq \in NQueues
          /\ Numbers(nq, in_flight, ttab, ntab) /\ Memory(tq, in_flight, ttab)
          /\ Distinct(nq, in_flight)
      BY <1>5, InFlight
    <3>3. ttab' = IF IsTransaction(in_flight) THEN ttab \ {Row(in_flight)} ELSE ttab
      BY <3>1, <3>2, OnlyRow DEF Memory, Numbers, IInv, QueueTypeOK
    <3>4. /\ ~IsTransaction(NoMessage) /\ NoMessage.id = 0 /\ 0 < next
          /\ in_flight.id \in Nat
      BY <3>2 DEF NoMessage, IsTransaction, TransactionKinds, IInv, QueueTypeOK, Messages, MsgType
    <3>5. \A i \in DOMAIN tq : tq[i].id \in Nat
      <4>1. \A i \in DOMAIN tq : tq[i] \in MsgType(TransactionKinds)  BY <3>2 DEF TQueues
      <4> QED  BY <4>1 DEF MsgType
    <3>6. Numbers(nq, in_flight, ttab, ntab)'
      BY <1>1, <3>1, <3>2, <3>3, <3>4 DEF Numbers
    <3>7. Memory(tq, in_flight, ttab)'
      <4>1. IsTransaction(in_flight) => \A i \in DOMAIN tq : Row(tq[i]) # Row(in_flight)
        BY <3>2, <3>4, <3>5 DEF Memory, Row
      <4> QED  BY <1>1, <3>1, <3>2, <3>3, <3>4, <4>1 DEF Memory, InMemory, Alive
    <3>8. Distinct(nq, in_flight)'
      <4>1. \A i \in DOMAIN nq : nq[i].kind # "none"
        <5>1. \A i \in DOMAIN nq : nq[i] \in MsgType(NormalKinds)  BY <3>2 DEF NQueues
        <5> QED  BY <5>1 DEF MsgType, NormalKinds, Kinds
      <4> QED  BY <3>1, <3>2, <4>1 DEF Distinct, Row, NoMessage
    <3>9. ASSUME NEW u \in Uids, Past(u, tq, nq, in_flight)
          PROVE  Past(u, tq', nq', in_flight')
      <4>0. u # NoUid => Row(u) # Row(NoMessage)
        BY DEF Uids, UidType, Row, NoMessage, Kinds, TransactionKinds
      <4> QED  BY <4>0, <3>1, <3>9 DEF Past
    <3>10. ttab' \subseteq ttab /\ tq' \in TQueues /\ nq' \in NQueues
      BY <3>1, <3>2
    <3> QED  BY <1>1, <1>2, <1>3, <2>1, <3>1, <3>6, <3>7, <3>8, <3>9, <3>10, ReleaseKeeps
  <2> QED  BY <1>5, <2>2, <2>3 DEF Receive, a
<1> QED  BY <1>4, <1>5

-----------------------------------------------------------------------------
\* A message is pushed.

\* check_queue_sizes drops only updates of transactions, and with each of them
\* its row; the rest of both queues stays in order.
LEMMA OverflowDrops ==
    ASSUME NEW q \in TQueues, NEW n \in NQueues, NEW t, NEW u,
           CheckQueueSizes(q, n, t, u)
    PROVE  /\ tq' \in TQueues /\ nq' \in NQueues /\ ntab' \subseteq u
           /\ \E D \in SUBSET DOMAIN q : \E h :
                /\ \A i \in D : q[i].kind = "update"
                /\ Keeps(tq', q, D, h)
                /\ ttab' = t \ UNION {RowsWithId(q[i].id) : i \in D}
           /\ \E D, h : Keeps(nq', n, D, h)
<1> DEFINE normal == DropNormal(q, n)
           updates == DropUpdates(q, Len(n) - Cardinality(normal))
<1>1. updates \subseteq DOMAIN q /\ \A i \in updates : q[i].kind = "update"
  BY DEF DropUpdates
<1> HIDE DEF normal, updates
<1>2. /\ tq' \in Without(q, updates) /\ nq' \in Without(n, normal)
      /\ ttab' = t \ UNION {RowsWithId(q[i].id) : i \in updates} /\ ntab' \subseteq u
  BY DEF CheckQueueSizes, normal, updates
<1>3. tq' \in TQueues /\ \E h : Keeps(tq', q, updates, h)
  BY <1>2, WithoutKeeps DEF TQueues
<1>4. nq' \in NQueues /\ \E h : Keeps(nq', n, normal, h)
  BY <1>2, WithoutKeeps DEF NQueues
<1> QED  BY <1>1, <1>2, <1>3, <1>4

\* With the new message in its queue and its table, and what does not fit
\* dropped, the invariant holds again.
LEMMA OverflowKeeps ==
    ASSUME IInv, Running, NEW q \in TQueues, NEW n \in NQueues,
           NEW t \in SUBSET RowType(TransactionKinds), NEW u \in SUBSET RowType(NormalKinds),
           next' \in Nat, next <= next',
           \A r \in t : offered <= r.id /\ 0 < r.id /\ r.id < next',
           \A r \in u : r.id < next',
           \A i \in DOMAIN n : n[i].id < next',
           \A r, s \in t : r.id = s.id => r = s,
           Memory(q, in_flight, t), Distinct(n, in_flight),
           Attempted(q, n, in_flight),
           CheckQueueSizes(q, n, t, u),
           UNCHANGED <<phase, in_flight, timer, timer_late, link, callback, wire,
                       answers, csms, offered, open>>
    PROVE  IInv'
<1>0. /\ tq' \in TQueues /\ nq' \in NQueues /\ ntab' \subseteq u
      /\ \E D \in SUBSET DOMAIN q : \E h :
           /\ \A i \in D : q[i].kind = "update"
           /\ Keeps(tq', q, D, h)
           /\ ttab' = t \ UNION {RowsWithId(q[i].id) : i \in D}
      /\ \E D, h : Keeps(nq', n, D, h)
  BY OverflowDrops
<1>d. PICK D \in SUBSET DOMAIN q : \E h :
        Keeps(tq', q, D, h) /\ ttab' = t \ UNION {RowsWithId(q[i].id) : i \in D}
  BY <1>0
<1>1. PICK h :
        Keeps(tq', q, D, h) /\ ttab' = t \ UNION {RowsWithId(q[i].id) : i \in D}
  BY <1>d
<1>2. PICK E, g : Keeps(nq', n, E, g)
  BY <1>0
<1>3. \A i \in DOMAIN tq' : h[i] \in DOMAIN q /\ h[i] \notin D /\ tq'[i] = q[h[i]]
  BY <1>1 DEF Keeps
<1>4. \A i \in DOMAIN nq' : g[i] \in DOMAIN n /\ nq'[i] = n[g[i]]
  BY <1>2 DEF Keeps
<1>5. \A i \in DOMAIN q : q[i].id \in Nat /\ q[i].kind \in TransactionKinds /\ i \in Nat /\ i >= 1
  <2>1. \A i \in DOMAIN q : q[i] \in MsgType(TransactionKinds) /\ i \in Nat /\ i >= 1
    BY DEF TQueues
  <2> QED  BY <2>1 DEF MsgType
<1>6. next \in Nat /\ next > 0 /\ ttab' \subseteq t
  BY <1>1 DEF IInv, QueueTypeOK
<1>7. QueueTypeOK'
  BY <1>0, <1>6 DEF IInv, QueueTypeOK, TQueues, NQueues
<1>8. in_flight.id \in Nat /\ in_flight.id < next' /\ offered < next'
  <2>1. in_flight.id \in Nat  BY DEF IInv, QueueTypeOK, MsgType, NoMessage
  <2>2. offered \in Nat /\ in_flight.id < next /\ offered < next
    BY DEF IInv, QueueTypeOK, Numbers
  <2> QED  BY <2>1, <2>2, <1>6
<1>9. Numbers(nq, in_flight, ttab, ntab)'
  BY <1>0, <1>4, <1>6, <1>8 DEF Numbers
<1>10. Memory(tq, in_flight, ttab)'
  <2>1. ASSUME NEW r \in ttab' PROVE InMemory(r, tq', in_flight)
    <3>1. r \in t /\ InMemory(r, q, in_flight)
      BY <1>6 DEF Memory, Running, Alive
    <3>2. CASE IsTransaction(in_flight) /\ r = Row(in_flight)  BY <3>2 DEF InMemory
    <3>3. ASSUME NEW i \in DOMAIN q, r = Row(q[i]) PROVE InMemory(r, tq', in_flight)
      <4>1. r \in RowsWithId(q[i].id)
        BY <3>3, <1>5 DEF Row, RowsWithId, Kinds
      <4>2. i \notin D  BY <1>1, <4>1
      <4>3. PICK j \in DOMAIN tq' : h[j] = i  BY <4>2, <1>1 DEF Keeps
      <4> QED  BY <4>3, <3>3, <1>3 DEF InMemory
    <3> QED  BY <3>1, <3>2, <3>3 DEF InMemory
  <2>2. ASSUME NEW i \in DOMAIN tq' PROVE Row(tq'[i]) \in ttab'
    <3>1. Row(tq'[i]) \in t /\ Row(tq'[i]).id = q[h[i]].id  BY <1>3 DEF Memory, Row
    <3>2. ASSUME NEW d \in D PROVE q[d].id # q[h[i]].id
      BY <1>3, <1>5 DEF Memory
    <3>3. \A d \in D : Row(tq'[i]) \notin RowsWithId(q[d].id)
      BY <3>1, <3>2 DEF RowsWithId
    <3> QED  BY <1>1, <3>1, <3>3
  <2>3. ASSUME IsTransaction(in_flight) PROVE Row(in_flight) \in ttab'
    <3>1. Row(in_flight) \in t /\ Row(in_flight).id = in_flight.id  BY <2>3 DEF Memory, Row
    <3>2. \A d \in D : in_flight.id # q[d].id  BY <2>3, <1>5, <1>8 DEF Memory
    <3>3. \A d \in D : Row(in_flight) \notin RowsWithId(q[d].id)
      BY <3>1, <3>2 DEF RowsWithId
    <3> QED  BY <1>1, <3>1, <3>3
  <2>4. ASSUME NEW i \in DOMAIN tq', NEW j \in DOMAIN tq', i < j
        PROVE  tq'[i].id < tq'[j].id
    <3>1. h[i] < h[j]  BY <2>4, <1>1 DEF Keeps
    <3> QED  BY <3>1, <1>3 DEF Memory
  <2>5. IsTransaction(in_flight) => \A i \in DOMAIN tq' : in_flight.id < tq'[i].id
    BY <1>3 DEF Memory
  <2>6. ASSUME NEW i \in DOMAIN tq', i > 1 \/ IsTransaction(in_flight)
        PROVE  tq'[i].att = 0
    <3>1. CASE IsTransaction(in_flight)  BY <3>1, <1>3 DEF Memory
    <3>2. CASE i > 1
      <4>1. 1 \in DOMAIN tq' /\ 1 < i  BY <3>2, <1>0 DEF TQueues
      <4>2. h[1] < h[i]  BY <4>1, <1>1 DEF Keeps
      <4>3. h[i] > 1  BY <4>1, <4>2, <1>3, <1>5
      <4> QED  BY <4>3, <1>3 DEF Memory
    <3> QED  BY <2>6, <3>1, <3>2
  <2> QED  BY <2>1, <2>2, <2>3, <2>4, <2>5, <2>6 DEF Memory
<1>11. Distinct(nq, in_flight)'
  <2>1. \A i \in DOMAIN nq' : Row(nq'[i]) # Row(in_flight)
    BY <1>4 DEF Distinct
  <2>2. ASSUME NEW i \in DOMAIN nq', NEW j \in DOMAIN nq', Row(nq'[i]) = Row(nq'[j])
        PROVE  i = j
    <3>1. g[i] = g[j]  BY <2>2, <1>4 DEF Distinct
    <3>2. DOMAIN nq' = 1..Len(nq') /\ Len(nq') \in Nat  BY <1>0 DEF NQueues
    <3>3. g[i] \in Nat /\ g[j] \in Nat  BY <1>4 DEF NQueues
    <3> QED  BY <3>1, <3>2, <3>3, <1>2 DEF Keeps
  <2> QED  BY <2>1, <2>2 DEF Distinct
<1>12. Attempted(tq, nq, in_flight)'
  <2>1. ASSUME NEW v \in Uids, Past(v, q, n, in_flight)
        PROVE  Past(v, tq, nq, in_flight)'
    <3>1. v # NoUid => v.id \in Nat  BY DEF Uids, UidType
    <3>2. v # NoUid => v.id < next'  BY <2>1, <3>1, <1>6 DEF Past
    <3> QED  BY <2>1, <3>2, <1>3, <1>4 DEF Past
  <2>2. timer_late \in Uids  BY DEF IInv, QueueTypeOK, Uids
  <2>3. \A i \in DOMAIN wire : wire[i] \in Uids
    BY DEF IInv, QueueTypeOK, Uids
  <2>4. \A i \in DOMAIN answers : answers[i].uid \in Uids
    <3>1. \A i \in DOMAIN answers : answers[i] \in AnswerType  BY DEF IInv, QueueTypeOK
    <3> QED  BY <3>1 DEF AnswerType, Uids
  <2> QED  BY <2>1, <2>2, <2>3, <2>4 DEF Attempted
<1>13. OnItsWay'  BY DEF IInv, OnItsWay
<1>14. Outstanding'  BY DEF IInv, Outstanding
<1>15. Down'  BY DEF Down, Running
<1> QED  BY <1>7, <1>9, <1>10, <1>11, <1>12, <1>13, <1>14, <1>15 DEF IInv

\* A sequence with one more element.
LEMMA Appended ==
    ASSUME NEW S, NEW q \in Seq(S), NEW x \in S, NEW p, p = Append(q, x)
    PROVE  /\ p \in Seq(S) /\ Len(q) \in Nat /\ DOMAIN p = 1..(Len(q) + 1)
           /\ DOMAIN q = 1..Len(q)
           /\ p[Len(q) + 1] = x /\ \A i \in DOMAIN q : i \in DOMAIN p /\ p[i] = q[i]
           /\ \A i \in DOMAIN p : i \in DOMAIN q \/ i = Len(q) + 1
  OBVIOUS

\* A message of a transaction joins its queue and its table.
LEMMA JoinTransaction ==
    ASSUME IInv, Running, NEW kind \in TransactionKinds, NEW stall \in BOOLEAN,
           NEW m, m = Message(next, kind, stall)
    PROVE  /\ Append(tq, m) \in TQueues
           /\ ttab \union {Row(m)} \in SUBSET RowType(TransactionKinds)
           /\ \A r \in ttab \union {Row(m)} : offered <= r.id /\ 0 < r.id /\ r.id < next + 1
           /\ \A r, s \in ttab \union {Row(m)} : r.id = s.id => r = s
           /\ Memory(Append(tq, m), in_flight, ttab \union {Row(m)})
           /\ Attempted(Append(tq, m), nq, in_flight)
<1> DEFINE q == Append(tq, m)
           t == ttab \union {Row(m)}
<1>1. /\ m \in MsgType(TransactionKinds) /\ m.id = next /\ m.kind = kind /\ m.att = 0
      /\ Row(m) = [id |-> next, kind |-> kind]
  BY DEF Message, MsgType, Row, IInv, QueueTypeOK
<1>2. /\ next \in Nat /\ next > 0 /\ offered \in Nat /\ offered < next
      /\ ttab \subseteq RowType(TransactionKinds) /\ in_flight.id < next
  BY DEF IInv, QueueTypeOK, Numbers
<1>3. \A r \in ttab : r.id \in Nat /\ r.id < next  BY <1>2 DEF RowType, IInv, Numbers
<1>4. tq \in Seq(MsgType(TransactionKinds))  BY DEF IInv, QueueTypeOK
<1>5. /\ q \in TQueues /\ Len(tq) \in Nat /\ DOMAIN q = 1..(Len(tq) + 1)
      /\ DOMAIN tq = 1..Len(tq)
      /\ q[Len(tq) + 1] = m /\ \A i \in DOMAIN tq : i \in DOMAIN q /\ q[i] = tq[i]
      /\ \A i \in DOMAIN q : i \in DOMAIN tq \/ i = Len(tq) + 1
  BY <1>1, <1>4, Appended DEF TQueues
<1>6. t \in SUBSET RowType(TransactionKinds)  BY <1>1, <1>2 DEF RowType
<1>7. \A r \in t : offered <= r.id /\ 0 < r.id /\ r.id < next + 1
  BY <1>1, <1>2, <1>3 DEF IInv, Numbers
<1>8. \A r, s \in t : r.id = s.id => r = s
  BY <1>1, <1>2, <1>3 DEF IInv, Numbers
<1> HIDE DEF q
<1>9. \A i \in DOMAIN tq : Row(tq[i]) \in ttab /\ tq[i].id < next /\ tq[i].id \in Nat
  <2> SUFFICES ASSUME NEW i \in DOMAIN tq
               PROVE  Row(tq[i]) \in ttab /\ tq[i].id < next /\ tq[i].id \in Nat
    OBVIOUS
  <2>1. Row(tq[i]) \in ttab  BY DEF IInv, Memory
  <2>2. Row(tq[i]).id = tq[i].id  BY DEF Row
  <2> QED  BY <2>1, <2>2, <1>3
<1>10. Memory(q, in_flight, t)
  <2>1. ASSUME NEW r \in t PROVE InMemory(r, q, in_flight)
    <3>1. CASE r \in ttab
      <4>1. InMemory(r, tq, in_flight)  BY <3>1 DEF IInv, Memory, Running, Alive
      <4> QED  BY <4>1, <1>5 DEF InMemory
    <3>2. CASE r = Row(m)  BY <3>2, <1>5 DEF InMemory
    <3> QED  BY <3>1, <3>2
  <2>2. \A i \in DOMAIN q : Row(q[i]) \in t  BY <1>5, <1>9
  <2>3. IsTransaction(in_flight) => Row(in_flight) \in t  BY DEF IInv, Memory
  <2>4. ASSUME NEW i \in DOMAIN q, NEW j \in DOMAIN q, i < j PROVE q[i].id < q[j].id
    <3>1. i \in DOMAIN tq  BY <2>4, <1>5
    <3>2. CASE j \in DOMAIN tq  BY <3>1, <3>2, <2>4, <1>5 DEF IInv, Memory
    <3>3. CASE j = Len(tq) + 1  BY <3>1, <3>3, <1>1, <1>5, <1>9
    <3> QED  BY <3>2, <3>3, <1>5
  <2>5. IsTransaction(in_flight) => \A i \in DOMAIN q : in_flight.id < q[i].id
    BY <1>1, <1>2, <1>5 DEF IInv, Memory
  <2>6. \A i \in DOMAIN q : i > 1 \/ IsTransaction(in_flight) => q[i].att = 0
    BY <1>1, <1>5 DEF IInv, Memory
  <2> QED  BY <2>1, <2>2, <2>3, <2>4, <2>5, <2>6 DEF Memory
<1>11. Attempted(q, nq, in_flight)
  <2>1. ASSUME NEW v \in Uids, Past(v, tq, nq, in_flight) PROVE Past(v, q, nq, in_flight)
    <3> SUFFICES ASSUME v # NoUid PROVE Past(v, q, nq, in_flight)  BY DEF Past
    <3>1. v.id \in Nat /\ v.id < next  BY <2>1 DEF Past, Uids, UidType
    <3>2. Row(v) # Row(m)  BY <3>1, <1>1, <1>2 DEF Row
    <3> QED  BY <2>1, <3>1, <3>2, <1>5 DEF Past
  <2>2. timer_late \in Uids  BY DEF IInv, QueueTypeOK, Uids
  <2>3. \A i \in DOMAIN wire : wire[i] \in Uids
    BY DEF IInv, QueueTypeOK, Uids
  <2>4. \A i \in DOMAIN answers : answers[i].uid \in Uids
    <3>1. \A i \in DOMAIN answers : answers[i] \in AnswerType  BY DEF IInv, QueueTypeOK
    <3> QED  BY <3>1 DEF AnswerType, Uids
  <2> QED  BY <2>1, <2>2, <2>3, <2>4 DEF IInv, Attempted
<1> QED  BY <1>5, <1>6, <1>7, <1>8, <1>10, <1>11 DEF q

\* No message with the row r waits, and no attempt of one is known.
Fresh(r) ==
    /\ \A i \in DOMAIN nq : Row(nq[i]) # r
    /\ Row(in_flight) # r /\ Row(timer_late) # r
    /\ \A i \in DOMAIN wire : Row(wire[i]) # r
    /\ \A i \in DOMAIN answers : Row(answers[i].uid) # r

\* Another message joins the normal queue, a BootNotification in front.
LEMMA JoinNormal ==
    ASSUME IInv, NEW m \in MsgType(NormalKinds), m.att = 0, Fresh(Row(m)),
           NEW b \in Nat, next <= b, m.id < b,
           NEW n, n = IF m.kind = "boot" THEN <<m>> \o nq ELSE Append(nq, m)
    PROVE  /\ n \in NQueues /\ \A i \in DOMAIN n : n[i].id < b
           /\ Distinct(n, in_flight) /\ Attempted(tq, n, in_flight)
<1>1. nq \in Seq(MsgType(NormalKinds)) /\ next \in Nat  BY DEF IInv, QueueTypeOK
<1>2. \A i \in DOMAIN nq : nq[i].id < b
  <2>1. \A i \in DOMAIN nq : nq[i] \in MsgType(NormalKinds)  BY <1>1
  <2>2. \A i \in DOMAIN nq : nq[i].id \in Nat /\ nq[i].id < next
    BY <2>1 DEF MsgType, IInv, Numbers
  <2> QED  BY <1>1, <2>2
<1>3. /\ n \in NQueues
      /\ \A i \in DOMAIN n : n[i] = m \/ \E k \in DOMAIN nq : n[i] = nq[k]
      /\ \A i, j \in DOMAIN n : Row(n[i]) = Row(n[j]) => i = j
  <2>1. CASE m.kind = "boot"
    <3>1. /\ n \in NQueues /\ DOMAIN n = 1..(Len(nq) + 1) /\ n[1] = m
          /\ \A i \in DOMAIN n : i > 1 => i - 1 \in DOMAIN nq /\ n[i] = nq[i - 1]
      BY <1>1, <2>1, Prepend DEF NQueues
    <3>2. \A i \in DOMAIN n : i \in Nat /\ (i = 1 \/ i > 1)  BY <1>1, <3>1
    <3>3. ASSUME NEW i \in DOMAIN n, NEW j \in DOMAIN n, Row(n[i]) = Row(n[j])
          PROVE  i = j
      <4>1. CASE i > 1 /\ j > 1
        <5>1. i - 1 = j - 1  BY <4>1, <3>1, <3>3 DEF IInv, Distinct
        <5> QED  BY <5>1, <3>2
      <4>2. CASE i = 1 /\ j > 1  BY <4>2, <3>1, <3>3 DEF Fresh
      <4>3. CASE i > 1 /\ j = 1  BY <4>3, <3>1, <3>3 DEF Fresh
      <4> QED  BY <4>1, <4>2, <4>3, <3>2
    <3> QED  BY <3>1, <3>2, <3>3
  <2>2. CASE m.kind # "boot"
    <3>1. /\ n \in NQueues /\ Len(nq) \in Nat
          /\ n[Len(nq) + 1] = m /\ \A i \in DOMAIN nq : n[i] = nq[i]
          /\ \A i \in DOMAIN n : i \in DOMAIN nq \/ i = Len(nq) + 1
      BY <1>1, <2>2, Appended DEF NQueues
    <3>2. ASSUME NEW i \in DOMAIN n, NEW j \in DOMAIN n, Row(n[i]) = Row(n[j])
          PROVE  i = j
      BY <3>1, <3>2 DEF IInv, Distinct, Fresh
    <3> QED  BY <3>1, <3>2
  <2> QED  BY <2>1, <2>2
<1>4. Distinct(n, in_flight)
  BY <1>3 DEF IInv, Distinct, Fresh
<1>5. Attempted(tq, n, in_flight)
  <2>1. ASSUME NEW v, Past(v, tq, nq, in_flight), Row(v) # Row(m)
        PROVE  Past(v, tq, n, in_flight)
    BY <2>1, <1>3 DEF Past
  <2> QED  BY <2>1 DEF IInv, Attempted, Fresh
<1> QED  BY <1>2, <1>3, <1>4, <1>5

\* push_call keeps the invariant, for a new message of any kind.
LEMMA PushCallKeeps ==
    ASSUME IInv, NEW id \in Nat, NEW kind \in Kinds, PushCall(id, kind),
           next' \in {next, next + 1}, id < next',
           kind \in TransactionKinds => id = next,
           kind \notin TransactionKinds => Fresh([id |-> id, kind |-> kind])
    PROVE  IInv'
<1> DEFINE m == Message(id, kind, Stalled(kind))
<1>1. /\ Running
      /\ UNCHANGED <<phase, in_flight, timer, timer_late, link, callback, wire,
                     answers, csms, offered, open>>
      /\ \/ IsTransaction(m) /\ AddToTransactionQueue(m)
         \/ ~IsTransaction(m) /\ AddToNormalQueue(m)
  BY DEF PushCall, timers, net
<1>2. m.id = id /\ m.kind = kind /\ m.att = 0 /\ Row(m) = [id |-> id, kind |-> kind]
  BY DEF Message, Row
<1>3. Stalled(kind) \in BOOLEAN  BY DEF Stalled
<1>4. next \in Nat /\ next' \in Nat /\ next <= next'  BY DEF IInv, QueueTypeOK
<1>5. CASE kind \in TransactionKinds
  <2> DEFINE q == Append(tq, m)
             t == ttab \union {Row(m)}
  <2>1. id = next /\ next' = next + 1  BY <1>4, <1>5
  <2>2. m = Message(next, kind, Stalled(kind))  BY <2>1
  <2> HIDE DEF m
  <2>3. /\ q \in TQueues /\ t \in SUBSET RowType(TransactionKinds)
        /\ \A r \in t : offered <= r.id /\ 0 < r.id /\ r.id < next + 1
        /\ \A r, s \in t : r.id = s.id => r = s
        /\ Memory(q, in_flight, t) /\ Attempted(q, nq, in_flight)
    BY <1>1, <1>3, <1>5, <2>2, JoinTransaction
  <2>4. CheckQueueSizes(q, nq, t, ntab)
    BY <1>1, <1>2, <1>5 DEF AddToTransactionQueue, IsTransaction
  <2> HIDE DEF q, t
  <2>5. nq \in NQueues /\ ntab \in SUBSET RowType(NormalKinds) /\ Distinct(nq, in_flight)
    BY DEF IInv, QueueTypeOK, NQueues
  <2>6. \A r \in ntab : r.id < next'
    <3>1. \A r \in ntab : r.id \in Nat /\ r.id < next  BY <2>5 DEF RowType, IInv, Numbers
    <3> QED  BY <3>1, <1>4
  <2>7. \A i \in DOMAIN nq : nq[i].id < next'
    <3>1. \A i \in DOMAIN nq : nq[i] \in MsgType(NormalKinds)  BY <2>5 DEF NQueues
    <3>2. \A i \in DOMAIN nq : nq[i].id \in Nat /\ nq[i].id < next
      BY <3>1 DEF MsgType, IInv, Numbers
    <3> QED  BY <3>2, <1>4
  <2>8. \A r \in t : offered <= r.id /\ 0 < r.id /\ r.id < next'  BY <2>1, <2>3
  <2> QED  BY <1>1, <1>4, <2>3, <2>4, <2>5, <2>6, <2>7, <2>8, OverflowKeeps
<1>6. CASE kind \notin TransactionKinds
  <2> DEFINE n == IF m.kind = "boot" THEN <<m>> \o nq ELSE Append(nq, m)
             u == IF CheckQueue(m.kind) THEN ntab \union {Row(m)} ELSE ntab
  <2>1. m \in MsgType(NormalKinds)
    BY <1>3, <1>6 DEF Message, MsgType, NormalKinds
  <2> HIDE DEF m
  <2>2. /\ n \in NQueues /\ \A i \in DOMAIN n : n[i].id < next'
        /\ Distinct(n, in_flight) /\ Attempted(tq, n, in_flight)
    BY <1>2, <1>4, <1>6, <2>1, JoinNormal
  <2>3. CheckQueueSizes(tq, n, ttab, u)
    BY <1>1, <1>2, <1>6 DEF AddToNormalQueue, IsTransaction
  <2>4. u \in SUBSET RowType(NormalKinds) /\ \A r \in u : r.id < next'
    <3>1. ntab \subseteq RowType(NormalKinds)  BY DEF IInv, QueueTypeOK
    <3>2. \A r \in ntab : r.id \in Nat /\ r.id < next  BY <3>1 DEF RowType, IInv, Numbers
    <3>3. \A r \in ntab : r.id < next'  BY <3>2, <1>4
    <3>4. Row(m) \in RowType(NormalKinds) /\ Row(m).id < next'
      BY <1>2, <1>6 DEF RowType, NormalKinds
    <3> QED  BY <3>1, <3>3, <3>4
  <2> HIDE DEF n, u
  <2>5. tq \in TQueues /\ ttab \in SUBSET RowType(TransactionKinds) /\ Memory(tq, in_flight, ttab)
    BY DEF IInv, QueueTypeOK, TQueues
  <2>6. \A r \in ttab : offered <= r.id /\ 0 < r.id /\ r.id < next'
    <3>1. \A r \in ttab : r.id \in Nat  BY <2>5 DEF RowType
    <3> QED  BY <3>1, <1>4 DEF IInv, Numbers
  <2>7. \A r, s \in ttab : r.id = s.id => r = s  BY DEF IInv, Numbers
  <2> QED  BY <1>1, <1>4, <2>2, <2>3, <2>4, <2>5, <2>6, <2>7, OverflowKeeps
<1> QED  BY <1>5, <1>6

\* A number that was not given out is new.
LEMMA NextIsFresh ==
    ASSUME IInv, NEW kind \in Kinds
    PROVE  Fresh([id |-> next, kind |-> kind])
<1>1. \A i \in DOMAIN nq : nq[i].id # next
  <2>1. next \in Nat /\ nq \in Seq(MsgType(NormalKinds))  BY DEF IInv, QueueTypeOK
  <2>2. \A i \in DOMAIN nq : nq[i] \in MsgType(NormalKinds)  BY <2>1
  <2>3. \A i \in DOMAIN nq : nq[i].id \in Nat  BY <2>2 DEF MsgType
  <2> QED  BY <2>1, <2>3 DEF IInv, Numbers
<1>2. in_flight.id # next /\ timer_late.id # next
  <2>1. next \in Nat \ {0} /\ in_flight.id \in Nat /\ timer_late.id \in Nat
    BY DEF IInv, QueueTypeOK, MsgType, UidType, NoMessage, NoUid
  <2>2. timer_late = NoUid => timer_late.id = 0  BY DEF NoUid
  <2>3. timer_late # NoUid => timer_late.id < next  BY DEF IInv, Attempted, Past
  <2> QED  BY <2>1, <2>2, <2>3 DEF IInv, Numbers
<1>3. \A i \in DOMAIN wire : wire[i].id # next
  <2>1. next \in Nat /\ \A i \in DOMAIN wire : wire[i] \in UidType  BY DEF IInv, QueueTypeOK
  <2>2. \A i \in DOMAIN wire : wire[i].id \in Nat /\ wire[i] # NoUid
    BY <2>1 DEF UidType, NoUid, Kinds, TransactionKinds
  <2> QED  BY <2>1, <2>2 DEF IInv, Attempted, Past
<1>4. \A i \in DOMAIN answers : answers[i].uid.id # next
  <2>1. next \in Nat /\ \A i \in DOMAIN answers : answers[i] \in AnswerType
    BY DEF IInv, QueueTypeOK
  <2>2. \A i \in DOMAIN answers : answers[i].uid \in UidType  BY <2>1 DEF AnswerType
  <2>3. \A i \in DOMAIN answers : answers[i].uid.id \in Nat /\ answers[i].uid # NoUid
    BY <2>2 DEF UidType, NoUid, Kinds, TransactionKinds
  <2> QED  BY <2>1, <2>3 DEF IInv, Attempted, Past
<1> QED  BY <1>1, <1>2, <1>3, <1>4 DEF Fresh, Row

\* push_call, by the charge point, for a BootNotification or a Heartbeat.
LEMMA PushKeeps ==
    ASSUME IInv, \/ \E kind \in Kinds : Push(kind)
                 \/ PushBoot \/ PushHeartbeat
    PROVE  IInv'
<1>0. next \in Nat /\ next > 0  BY DEF IInv, QueueTypeOK
<1>1. ASSUME NEW kind \in Kinds, Push(kind) PROVE IInv'
  <2>1. PushCall(next, kind) /\ next' = next + 1  BY <1>1 DEF Push
  <2>2. Fresh([id |-> next, kind |-> kind])  BY NextIsFresh
  <2>3. next' \in {next, next + 1} /\ next < next'  BY <1>0, <2>1
  <2> QED  BY <1>0, <2>1, <2>2, <2>3, PushCallKeeps
<1>2. ASSUME NEW kind \in {"boot", "heartbeat"}, Gone(kind), PushCall(0, kind), next' = next
      PROVE  IInv'
  <2>1. Fresh([id |-> 0, kind |-> kind])  BY <1>2 DEF Fresh, Gone, Row
  <2> QED  BY <1>0, <1>2, <2>1, PushCallKeeps DEF Kinds, TransactionKinds
<1> QED  BY <1>1, <1>2 DEF PushBoot, PushHeartbeat

-----------------------------------------------------------------------------
\* IInv is inductive.
LEMMA NextKeeps == IInv /\ [Next]_vars => IInv'
<1> SUFFICES ASSUME IInv, [Next]_vars PROVE IInv'  OBVIOUS
<1> USE DEF timers, net, past
<1>1. CASE WorkerBlocks  BY <1>1, FrameKeeps DEF WorkerBlocks
<1>2. CASE WorkerWaits  BY <1>2, FrameKeeps DEF WorkerWaits
<1>3. CASE WorkerStartsAction  BY <1>3, FrameKeeps DEF WorkerStartsAction
<1>4. CASE WorkerEndsAction  BY <1>4, FrameKeeps DEF WorkerEndsAction
<1>5. CASE WorkerFindsNothing  BY <1>5, FrameKeeps DEF WorkerFindsNothing
<1>6. CASE WorkerClears  BY <1>6, FrameKeeps DEF WorkerClears
<1>7. CASE WorkerExits  BY <1>7, FrameKeeps DEF WorkerExits
<1>8. CASE NotifyFires  BY <1>8, FrameKeeps DEF NotifyFires
<1>9. CASE PushFurtherHeartbeat  BY <1>9, FrameKeeps DEF PushFurtherHeartbeat
<1>10. CASE ConnectedCallback  BY <1>10, FrameKeeps DEF ConnectedCallback
<1>11. CASE ResumeExpires  BY <1>11, FrameKeeps DEF ResumeExpires
<1>12. CASE ResumeCallback  BY <1>12, FrameKeeps DEF ResumeCallback
<1>13. CASE RunWhenIdle  BY <1>13, FrameKeeps DEF RunWhenIdle
<1>14. CASE BootHandled  BY <1>14, FrameKeeps DEF BootHandled
<1>15. CASE StartHandled  BY <1>15, FrameKeeps DEF StartHandled
<1>16. CASE CsmsCalls  BY <1>16, FrameKeeps DEF CsmsCalls
<1>17. CASE PushCallResult  BY <1>17, FrameKeeps DEF PushCallResult
<1>18. CASE UNCHANGED vars  BY <1>18, FrameKeeps DEF vars
<1>19. CASE WorkerSendsTransaction  BY <1>19, WorkerSendsTransactionKeeps
<1>20. CASE WorkerSendsNormal  BY <1>20, WorkerSendsNormalKeeps
<1>21. CASE TimerExpires  BY <1>21, TimerExpiresKeeps
<1>22. CASE TimeoutCallback  BY <1>22, TimeoutCallbackKeeps
<1>23. CASE TimePasses  BY <1>23, TimePassesKeeps
<1>24. CASE (\E kind \in Kinds : Push(kind)) \/ PushBoot \/ PushHeartbeat
  BY <1>24, PushKeeps
<1>25. CASE Start  BY <1>25, StartKeeps
<1>26. CASE Stop  BY <1>26, StopKeeps
<1>27. CASE PowerDown  BY <1>27, PowerDownKeeps
<1>28. CASE Connect \/ Disconnect  BY <1>28, ConnectionKeeps
<1>29. CASE DisconnectedCallback  BY <1>29, DisconnectedCallbackKeeps
<1>30. CASE CsmsHandles  BY <1>30, CsmsHandlesKeeps
<1>31. CASE Receive  BY <1>31, ReceiveKeeps
<1> QED
  BY <1>1, <1>2, <1>3, <1>4, <1>5, <1>6, <1>7, <1>8, <1>9, <1>10, <1>11, <1>12,
     <1>13, <1>14, <1>15, <1>16, <1>17, <1>18, <1>19, <1>20, <1>21, <1>22, <1>23,
     <1>24, <1>25, <1>26, <1>27, <1>28, <1>29, <1>30, <1>31 DEF Next, Worker

\* Queues, tables, timers and what is under way stay in the relation of IInv.
THEOREM QueueInvariant == Spec => []IInv
<1> QED  BY InitHolds, NextKeeps, PTL DEF Spec

-----------------------------------------------------------------------------
\* Memory and database.

\* In every state of IInv the table is what memory holds, in order.
LEMMA InvariantMatches == IInv => TableMatchesQueue
<1> SUFFICES ASSUME IInv, Alive
             PROVE  /\ ttab = {Row(Held[i]) : i \in DOMAIN Held}
                    /\ \A i, j \in DOMAIN Held : i < j => Held[i].id < Held[j].id
  BY DEF TableMatchesQueue
<1>0. Memory(tq, in_flight, ttab)  BY DEF IInv
<1>1. CASE ~IsTransaction(in_flight)
  <2>1. Held = tq  BY <1>1 DEF Held
  <2>2. \A r \in ttab : \E i \in DOMAIN tq : r = Row(tq[i])
    BY <1>0, <1>1 DEF Memory, InMemory
  <2> QED  BY <1>0, <2>1, <2>2 DEF Memory
<1>2. CASE IsTransaction(in_flight)
  <2>1. in_flight \in MsgType(TransactionKinds) /\ tq \in Seq(MsgType(TransactionKinds))
    <3>1. in_flight # NoMessage  BY <1>2 DEF IsTransaction, NoMessage, TransactionKinds
    <3> QED  BY <1>2, <3>1 DEF IInv, QueueTypeOK, MsgType, IsTransaction
  <2> DEFINE p == <<in_flight>> \o tq
  <2>2. /\ DOMAIN p = 1..(Len(tq) + 1) /\ p[1] = in_flight
        /\ \A i \in DOMAIN p : i > 1 => i - 1 \in DOMAIN tq /\ p[i] = tq[i - 1]
        /\ \A i \in DOMAIN tq : i + 1 \in DOMAIN p /\ p[i + 1] = tq[i]
    BY <2>1, Prepend
  <2>3. Held = p  BY <1>2 DEF Held
  <2> HIDE DEF p
  <2>4. Len(tq) \in Nat /\ 1 \in DOMAIN p /\ \A i \in DOMAIN p : i \in Nat /\ (i = 1 \/ i > 1)
    BY <2>1, <2>2
  <2>5. ASSUME NEW r \in ttab PROVE \E i \in DOMAIN p : r = Row(p[i])
    <3>1. InMemory(r, tq, in_flight)  BY <1>0 DEF Memory
    <3>2. CASE r = Row(in_flight)  BY <3>2, <2>2, <2>4
    <3>3. ASSUME NEW i \in DOMAIN tq, r = Row(tq[i]) PROVE \E k \in DOMAIN p : r = Row(p[k])
      BY <3>3, <2>2
    <3> QED  BY <3>1, <3>2, <3>3 DEF InMemory
  <2>6. ASSUME NEW i \in DOMAIN p PROVE Row(p[i]) \in ttab
    <3>1. CASE i = 1  BY <3>1, <1>0, <1>2, <2>2 DEF Memory
    <3>2. CASE i > 1  BY <3>2, <1>0, <2>2 DEF Memory
    <3> QED  BY <3>1, <3>2, <2>4
  <2>7. ASSUME NEW i \in DOMAIN p, NEW j \in DOMAIN p, i < j PROVE p[i].id < p[j].id
    <3>1. j > 1 /\ i \in Nat /\ j \in Nat  BY <2>4, <2>7
    <3>2. CASE i = 1  BY <3>1, <3>2, <1>0, <1>2, <2>2 DEF Memory
    <3>3. CASE i > 1
      <4>1. i - 1 < j - 1  BY <3>1, <2>7
      <4> QED  BY <4>1, <3>1, <3>3, <1>0, <2>2 DEF Memory
    <3> QED  BY <3>2, <3>3, <2>4
  <2> QED  BY <2>3, <2>5, <2>6, <2>7
<1> QED  BY <1>1, <1>2

\* While the station is up, memory and TRANSACTION_QUEUE hold the same
\* messages in the same order, for any number of messages and attempts, any
\* thresholds and any faults.
THEOREM TablesMatch == Spec => []TableMatchesQueue
<1> QED  BY QueueInvariant, InvariantMatches, PTL

\* A step that puts something on the wire finds nothing outstanding.
LEMMA SendsOne ==
    ASSUME IInv, [Next]_vars, Len(wire') > Len(wire)
    PROVE  open = NoUid
<1>0. Len(wire) \in Nat  BY DEF IInv, QueueTypeOK
<1>1. wire' # wire  BY <1>0
<1>2. ~CsmsHandles
  <2> SUFFICES ASSUME CsmsHandles PROVE FALSE  OBVIOUS
  <2>1. wire # <<>> /\ wire' = Tail(wire) /\ wire \in Seq(UidType)
    BY DEF CsmsHandles, IInv, QueueTypeOK
  <2>2. Len(wire') = Len(wire) - 1  BY <2>1
  <2> QED  BY <1>0, <2>2
<1>3. wire' # <<>>  BY <1>0
<1>4. WorkerSendsTransaction \/ WorkerSendsNormal
  <2> USE <1>1, <1>2, <1>3 DEF net
  <2>1. ~WorkerBlocks /\ ~WorkerWaits /\ ~WorkerStartsAction /\ ~WorkerEndsAction
    BY DEF WorkerBlocks, WorkerWaits, WorkerStartsAction, WorkerEndsAction
  <2>2. ~WorkerFindsNothing /\ ~WorkerClears /\ ~WorkerExits /\ ~NotifyFires
    BY DEF WorkerFindsNothing, WorkerClears, WorkerExits, NotifyFires
  <2>3. ~TimerExpires /\ ~TimeoutCallback /\ ~TimePasses
    BY DEF TimerExpires, TimeoutCallback, TimePasses
  <2>4. /\ \A kind \in Kinds : ~Push(kind)
        /\ ~PushBoot /\ ~PushHeartbeat /\ ~PushFurtherHeartbeat
    BY DEF Push, PushBoot, PushHeartbeat, PushFurtherHeartbeat, PushCall
  <2>5. ~Start /\ ~Stop /\ ~PowerDown /\ ~Connect /\ ~Disconnect
    BY DEF Start, Stop, PowerDown, Connect, Disconnect
  <2>6. ~ConnectedCallback /\ ~ResumeExpires /\ ~ResumeCallback /\ ~DisconnectedCallback
    BY DEF ConnectedCallback, ResumeExpires, ResumeCallback, DisconnectedCallback
  <2>7. ~RunWhenIdle /\ ~Receive /\ ~BootHandled /\ ~StartHandled
    BY DEF RunWhenIdle, Receive, BootHandled, StartHandled
  <2>8. ~CsmsCalls /\ ~PushCallResult /\ ~UNCHANGED vars
    BY DEF CsmsCalls, PushCallResult, vars
  <2> QED  BY <2>1, <2>2, <2>3, <2>4, <2>5, <2>6, <2>7, <2>8 DEF Next, Worker
<1>5. in_flight = NoMessage
  BY <1>4 DEF WorkerSendsTransaction, WorkerSendsNormal, SendReady
<1> QED  BY <1>5 DEF IInv, Outstanding

\* A CALL is sent only when the previous one was answered, timed out or lost
\* its connection.
THEOREM OneCall == Spec => OneCallOutstanding
<1>1. IInv /\ [Next]_vars => [Len(wire') > Len(wire) => open = NoUid]_vars
  BY SendsOne
<1> QED  BY <1>1, QueueInvariant, PTL DEF Spec, OneCallOutstanding

-----------------------------------------------------------------------------
\* The queue implements the outbox.

\* In memory, the message in flight, or else the first of the queue, is the
\* oldest one of the table.
LEMMA Oldest ==
    ASSUME Alive, NEW t \in SUBSET RowType(TransactionKinds), t = ttab,
           NEW q \in TQueues, NEW m \in Messages,
           Memory(q, m, t), IsTransaction(m)
    PROVE  Row(m) \in ttab /\ Outbox!IsOldest(Row(m)) /\ Row(m).id = m.id
<1>1. Row(m) \in t /\ Row(m).id = m.id /\ m.id \in Nat
  BY DEF Memory, Row, Messages, MsgType
<1>2. ASSUME NEW r \in t PROVE m.id <= r.id
  <2>1. InMemory(r, q, m)  BY DEF Memory
  <2>2. r.id \in Nat  BY DEF RowType
  <2>3. \A i \in DOMAIN q : Row(q[i]).id = q[i].id  BY DEF Row
  <2> QED  BY <1>1, <2>1, <2>2, <2>3 DEF InMemory, Memory
<1> QED  BY <1>1, <1>2 DEF Outbox!IsOldest

\* What handle_timeout_or_callerror does, seen from the outside: nothing, a
\* message that keeps its attempts, or one that is given up.
LEMMA GiveBackMaps ==
    ASSUME IInv, Alive, NEW m \in Messages, NEW q \in TQueues, NEW n \in NQueues,
           Numbers(n, m, ttab, ntab), Memory(q, m, ttab),
           HandleTimeoutOrCallerror(m, q, n)
    PROVE  \/ ~IsTransaction(m) /\ ttab' = ttab /\ tq' = q /\ in_flight' = NoMessage
           \/ IsTransaction(m) /\ m.att < Attempts /\ ttab' = ttab /\ Tried' = m.att
           \/ /\ IsTransaction(m) /\ ~(m.att < Attempts)
              /\ ttab' = ttab \ {Row(m)} /\ Tried' = 0
<1>1. in_flight' = NoMessage /\ ~IsTransaction(NoMessage)
  BY DEF HandleTimeoutOrCallerror, IsTransaction, NoMessage, TransactionKinds
<1>2. CASE ~IsTransaction(m)
  BY <1>1, <1>2 DEF HandleTimeoutOrCallerror, tables
<1>3. CASE IsTransaction(m) /\ m.att < Attempts
  <2>1. PICK due \in BOOLEAN : tq' = <<[m EXCEPT !.due = due]>> \o q /\ ttab' = ttab
    BY <1>3 DEF HandleTimeoutOrCallerror, Retries, tables
  <2> DEFINE again == [m EXCEPT !.due = due]
  <2>2. again \in MsgType(TransactionKinds) /\ again.att = m.att
    BY <1>3 DEF IsTransaction, Messages, MsgType
  <2> HIDE DEF again
  <2>3. tq' \in TQueues /\ DOMAIN tq' = 1..(Len(q) + 1) /\ tq'[1] = again
    BY <2>1, <2>2, Prepend DEF again, TQueues
  <2>4. Len(q) \in Nat  BY DEF TQueues
  <2>5. tq' # <<>> /\ Head(tq') = again  BY <2>3, <2>4 DEF TQueues
  <2> QED  BY <1>1, <1>3, <2>1, <2>2, <2>5 DEF Tried
<1>4. CASE IsTransaction(m) /\ ~(m.att < Attempts)
  <2>1. tq' = q /\ ttab' = ttab \ RowsWithId(m.id)
    BY <1>4 DEF HandleTimeoutOrCallerror, Retries
  <2>2. ttab' = ttab \ {Row(m)}
    BY <1>4, <2>1, OnlyRow DEF Memory, Numbers, IInv, QueueTypeOK
  <2>3. q # <<>> => Head(q).att = 0
    <3> SUFFICES ASSUME q # <<>> PROVE Head(q).att = 0  OBVIOUS
    <3>1. 1 \in DOMAIN q /\ Head(q) = q[1]  BY DEF TQueues
    <3> QED  BY <3>1, <1>4 DEF Memory
  <2> QED  BY <1>1, <1>4, <2>1, <2>2, <2>3 DEF Tried
<1> QED  BY <1>2, <1>3, <1>4

\* The message in flight times out, fails or loses its connection.
LEMMA ReleaseMaps ==
    ASSUME IInv, in_flight # NoMessage, HandleTimeoutOrCallerror(in_flight, tq, nq),
           UNCHANGED <<next, offered, csms>>
    PROVE  Outbox!Settle \/ UNCHANGED Outbox!outboxVars
<1>0. /\ in_flight \in Messages /\ tq \in TQueues /\ nq \in NQueues /\ Alive
      /\ Numbers(nq, in_flight, ttab, ntab) /\ Memory(tq, in_flight, ttab)
  BY InFlight
<1>1. \/ ~IsTransaction(in_flight) /\ ttab' = ttab /\ tq' = tq /\ in_flight' = NoMessage
      \/ /\ IsTransaction(in_flight) /\ in_flight.att < Attempts
         /\ ttab' = ttab /\ Tried' = in_flight.att
      \/ /\ IsTransaction(in_flight) /\ ~(in_flight.att < Attempts)
         /\ ttab' = ttab \ {Row(in_flight)} /\ Tried' = 0
  BY <1>0, GiveBackMaps
<1>2. CASE ~IsTransaction(in_flight)
  <2>1. ~IsTransaction(NoMessage)  BY DEF IsTransaction, NoMessage, TransactionKinds
  <2> QED  BY <1>1, <1>2, <2>1 DEF Tried, Outbox!outboxVars
<1>3. CASE IsTransaction(in_flight) /\ in_flight.att < Attempts
  BY <1>1, <1>3 DEF Tried, Outbox!outboxVars
<1>4. CASE IsTransaction(in_flight) /\ ~(in_flight.att < Attempts)
  <2>1. Row(in_flight) \in ttab /\ Outbox!IsOldest(Row(in_flight))
    BY <1>0, <1>4, Oldest DEF IInv, QueueTypeOK
  <2>2. Tried >= Attempts
    <3>1. in_flight.att \in Nat /\ Attempts \in Nat
      BY <1>0, QueueAssumption DEF Messages, MsgType
    <3> QED  BY <3>1, <1>4 DEF Tried
  <2> QED  BY <1>1, <1>4, <2>1, <2>2 DEF Outbox!Settle
<1> QED  BY <1>2, <1>3, <1>4

\* An attempt offers the oldest message, or fails with it.
LEMMA SendTransactionMaps ==
    ASSUME IInv, WorkerSendsTransaction
    PROVE  Outbox!Offer \/ Outbox!Fail
<1>1. /\ Running /\ in_flight = NoMessage /\ tq # <<>>
      /\ UNCHANGED <<phase, timer_late, link, callback, answers, next, csms>>
  BY DEF WorkerSendsTransaction, SendReady, PicksTransaction
<1> DEFINE sent == [Head(tq) EXCEPT !.att = @ + 1]
<1>2. /\ Taken(sent, Tail(tq), nq) /\ IsTransaction(sent)
      /\ sent.att = Head(tq).att + 1
  BY <1>1, TakeTransaction
<1>3. SendSucceeds(sent, Tail(tq), nq) \/ SendFails(sent, Tail(tq), nq)
  BY DEF WorkerSendsTransaction, Send
<1> HIDE DEF sent
<1>4. sent.att = Tried + 1
  BY <1>1, <1>2 DEF Tried, IsTransaction, NoMessage, TransactionKinds
<1>5. Alive  BY <1>1 DEF Running, Alive
<1>6. /\ sent \in Messages /\ Tail(tq) \in TQueues /\ nq \in NQueues
      /\ Memory(Tail(tq), sent, ttab) /\ Numbers(nq, sent, ttab, ntab)
  BY <1>2 DEF Taken
<1>7. /\ Row(sent) \in ttab /\ Outbox!IsOldest(Row(sent)) /\ Row(sent).id = sent.id
      /\ offered <= Row(sent).id
  BY <1>2, <1>5, <1>6, Oldest DEF IInv, QueueTypeOK, Numbers
<1>8. CASE SendSucceeds(sent, Tail(tq), nq)
  <2>1. in_flight' = sent /\ offered' = sent.id /\ ttab' = ttab
    BY <1>2, <1>8 DEF SendSucceeds, tables
  <2>2. Tried' = Tried + 1  BY <1>2, <1>4, <2>1 DEF Tried
  <2> QED  BY <1>1, <1>7, <2>1, <2>2 DEF Outbox!Offer
<1>9. CASE SendFails(sent, Tail(tq), nq)
  <2>1. HandleTimeoutOrCallerror(sent, Tail(tq), nq) /\ offered' = offered
    BY <1>9 DEF SendFails
  <2>2. \/ sent.att < Attempts /\ ttab' = ttab /\ Tried' = sent.att
        \/ ~(sent.att < Attempts) /\ ttab' = ttab \ {Row(sent)} /\ Tried' = 0
    BY <1>2, <1>5, <1>6, <2>1, GiveBackMaps
  <2>3. sent.att \in Nat /\ Attempts \in Nat
    BY <1>6, QueueAssumption DEF Messages, MsgType
  <2>4. \/ Tried + 1 >= Attempts /\ ttab' = ttab \ {Row(sent)} /\ Tried' = 0
        \/ Tried + 1 < Attempts /\ Tried' = Tried + 1 /\ ttab' = ttab
    BY <1>4, <2>2, <2>3
  <2> QED  BY <1>1, <1>7, <2>1, <2>4 DEF Outbox!Fail
<1> QED  BY <1>3, <1>8, <1>9

\* Sending another message is invisible to the outbox.
LEMMA SendNormalMaps ==
    ASSUME IInv, WorkerSendsNormal
    PROVE  UNCHANGED Outbox!outboxVars
<1>1. /\ Running /\ in_flight = NoMessage /\ FirstNormal # 0
      /\ UNCHANGED <<phase, timer_late, link, callback, answers, next, csms>>
  BY DEF WorkerSendsNormal, SendReady, PicksNormal
<1>2. FirstNormal \in DOMAIN nq
  BY <1>1, FirstNormalExists
<1> DEFINE sent == [nq[FirstNormal] EXCEPT !.att = @ + 1]
<1>3. PICK rest \in Without(nq, {FirstNormal}) : Send(nq[FirstNormal], tq, rest)
  BY DEF WorkerSendsNormal
<1>4. Taken(sent, tq, rest) /\ ~IsTransaction(sent)  BY <1>1, <1>2, TakeNormal
<1>5. SendSucceeds(sent, tq, rest) \/ SendFails(sent, tq, rest)
  BY <1>3 DEF Send
<1> HIDE DEF sent
<1>6. ~IsTransaction(NoMessage)  BY DEF IsTransaction, NoMessage, TransactionKinds
<1>7. CASE SendSucceeds(sent, tq, rest)
  <2>1. in_flight' = sent /\ tq' = tq /\ ttab' = ttab /\ offered' = offered
    BY <1>4, <1>7 DEF SendSucceeds, tables
  <2> QED  BY <1>1, <1>4, <1>6, <2>1 DEF Tried, Outbox!outboxVars
<1>8. CASE SendFails(sent, tq, rest)
  <2>1. HandleTimeoutOrCallerror(sent, tq, rest) /\ offered' = offered
    BY <1>8 DEF SendFails
  <2>2. ttab' = ttab /\ tq' = tq /\ in_flight' = NoMessage
    BY <1>1, <1>4, <2>1, GiveBackMaps DEF Taken, Running, Alive
  <2> QED  BY <1>1, <2>1, <2>2 DEF Tried, Outbox!outboxVars
<1> QED  BY <1>5, <1>7, <1>8

\* An answer settles the oldest message, or is invisible.
LEMMA ReceiveMaps ==
    ASSUME IInv, Receive
    PROVE  Outbox!Settle \/ UNCHANGED Outbox!outboxVars
<1> DEFINE a == Head(answers)
<1>1. /\ Alive /\ answers # <<>>
      /\ UNCHANGED <<next, csms, offered>>
  BY DEF Receive
<1>2. answers \in Seq(AnswerType) /\ 1 \in DOMAIN answers /\ a = answers[1]
  BY <1>1 DEF IInv, QueueTypeOK
<1> HIDE DEF a
<1>3. CASE in_flight = NoMessage \/ Uid(in_flight) # a.uid
  <2>1. UNCHANGED <<tq, in_flight, ttab>>
    BY <1>3 DEF Receive, queues, tables, a
  <2> QED  BY <1>1, <2>1 DEF Tried, Outbox!outboxVars
<1>4. CASE in_flight # NoMessage /\ Uid(in_flight) = a.uid
  <2>1. CASE HandleTimeoutOrCallerror(in_flight, tq, nq)
    BY <1>1, <1>4, <2>1, ReleaseMaps
  <2>2. ASSUME NEW type, HandleCallResult(type) PROVE Outbox!Settle \/ UNCHANGED Outbox!outboxVars
    <3>1. /\ tq' = tq /\ in_flight' = NoMessage
          /\ ttab' = IF IsTransaction(in_flight) THEN ttab \ RowsWithId(in_flight.id) ELSE ttab
      BY <2>2 DEF HandleCallResult
    <3>2. /\ in_flight \in Messages /\ tq \in TQueues
          /\ Numbers(nq, in_flight, ttab, ntab) /\ Memory(tq, in_flight, ttab)
      BY <1>4, InFlight
    <3>3. ~IsTransaction(NoMessage)  BY DEF IsTransaction, NoMessage, TransactionKinds
    <3>4. CASE ~IsTransaction(in_flight)
      BY <1>1, <3>1, <3>3, <3>4 DEF Tried, Outbox!outboxVars
    <3>5. CASE IsTransaction(in_flight)
      <4>1. ttab' = ttab \ {Row(in_flight)}
        BY <3>1, <3>2, <3>5, OnlyRow DEF Memory, Numbers, IInv, QueueTypeOK
      <4>2. /\ Row(in_flight) \in ttab /\ Outbox!IsOldest(Row(in_flight))
            /\ Row(in_flight).id = in_flight.id
        BY <1>1, <3>2, <3>5, Oldest DEF IInv, QueueTypeOK
      <4>3. in_flight.id \in csms
        <5>1. a.uid.id = in_flight.id /\ a.uid.kind = in_flight.kind  BY <1>4 DEF Uid
        <5> QED  BY <1>2, <3>5, <5>1 DEF IInv, OnItsWay, IsTransaction
      <4>4. tq # <<>> => Head(tq).att = 0
        <5> SUFFICES ASSUME tq # <<>> PROVE Head(tq).att = 0  OBVIOUS
        <5>1. 1 \in DOMAIN tq /\ Head(tq) = tq[1]  BY <3>2 DEF TQueues
        <5> QED  BY <5>1, <3>2, <3>5 DEF Memory
      <4>5. Tried' = 0  BY <3>1, <3>3, <4>4 DEF Tried
      <4> QED  BY <1>1, <4>1, <4>2, <4>3, <4>5 DEF Outbox!Settle
    <3> QED  BY <3>4, <3>5
  <2> QED  BY <1>4, <2>1, <2>2 DEF Receive, a
<1> QED  BY <1>3, <1>4

\* check_queue_sizes gives up readings, with others the rows added before.
LEMMA OverflowMaps ==
    ASSUME IInv, Running, NEW q \in TQueues, NEW n \in NQueues,
           NEW t \in SUBSET RowType(TransactionKinds), NEW u,
           \A r, s \in t : r.id = s.id => r = s, Memory(q, in_flight, t),
           q # <<>> => Head(q).att = 0 \/ (tq # <<>> /\ Head(q) = Head(tq)),
           ttab \subseteq t,
           CheckQueueSizes(q, n, t, u), UNCHANGED <<in_flight, csms, offered>>
    PROVE  \E new \in SUBSET (t \ ttab) : Outbox!GiveUpReadings(new)
<1>0. /\ tq' \in TQueues
      /\ \E D \in SUBSET DOMAIN q : \E h :
           /\ \A i \in D : q[i].kind = "update"
           /\ Keeps(tq', q, D, h)
           /\ ttab' = t \ UNION {RowsWithId(q[i].id) : i \in D}
  BY OverflowDrops
<1>d. PICK D \in SUBSET DOMAIN q : \E h :
        /\ \A i \in D : q[i].kind = "update"
        /\ Keeps(tq', q, D, h)
        /\ ttab' = t \ UNION {RowsWithId(q[i].id) : i \in D}
  BY <1>0
<1>1. PICK h :
        /\ \A i \in D : q[i].kind = "update"
        /\ Keeps(tq', q, D, h)
        /\ ttab' = t \ UNION {RowsWithId(q[i].id) : i \in D}
  BY <1>d
<1> DEFINE gone == UNION {RowsWithId(q[i].id) : i \in D}
           dropped == ttab \cap gone
           new == (t \ ttab) \ gone
<1>2. dropped \subseteq Outbox!Readings
  <2> SUFFICES ASSUME NEW r \in ttab, NEW i \in D, r \in RowsWithId(q[i].id)
               PROVE  r.kind = "update"
    BY DEF Outbox!Readings
  <2>1. r.id = q[i].id  BY DEF RowsWithId
  <2>2. Row(q[i]) \in t /\ Row(q[i]).id = q[i].id /\ Row(q[i]).kind = "update"
    BY <1>1 DEF Memory, Row
  <2>3. r = Row(q[i])  BY <2>1, <2>2
  <2> QED  BY <2>2, <2>3
<1>3. ttab' = (ttab \ dropped) \union new
  BY <1>1
<1>4. Tried' \in {0, Tried}
  <2>1. CASE IsTransaction(in_flight)  BY <2>1 DEF Tried
  <2>2. CASE ~IsTransaction(in_flight) /\ tq' = <<>>  BY <2>2 DEF Tried
  <2>3. CASE ~IsTransaction(in_flight) /\ tq' # <<>>
    <3>1. 1 \in DOMAIN tq' /\ Head(tq') = tq'[1]  BY <1>0, <2>3 DEF TQueues
    <3>2. h[1] \in DOMAIN q /\ tq'[1] = q[h[1]]  BY <3>1, <1>1 DEF Keeps
    <3>3. /\ h[1] \in Nat /\ h[1] >= 1 /\ q # <<>> /\ Head(q) = q[1]
      BY <3>2 DEF TQueues
    <3>4. CASE h[1] > 1
      <4>1. tq'[1].att = 0  BY <3>2, <3>4 DEF Memory
      <4> QED  BY <4>1, <2>3, <3>1 DEF Tried
    <3>5. CASE h[1] = 1
      <4>1. Head(tq') = Head(q)  BY <3>1, <3>2, <3>3, <3>5
      <4> QED  BY <4>1, <2>3, <3>3 DEF Tried
    <3> QED  BY <3>3, <3>4, <3>5
  <2> QED  BY <2>1, <2>2, <2>3
<1> HIDE DEF dropped, new
<1>5. Outbox!GiveUpReadings(new)
  BY <1>2, <1>3, <1>4 DEF Outbox!GiveUpReadings
<1>6. new \in SUBSET (t \ ttab)  BY DEF new
<1> QED  BY <1>5, <1>6

\* push_call adds at most its own message and gives up readings only.
LEMMA PushCallMaps ==
    ASSUME IInv, NEW id \in Nat, NEW kind \in Kinds, PushCall(id, kind),
           kind \in TransactionKinds => id = next
    PROVE  \E new \in SUBSET [id : {next}, kind : {"event", "update"}] :
             /\ Outbox!GiveUpReadings(new)
             /\ kind \notin TransactionKinds => new = {}
<1> DEFINE m == Message(id, kind, Stalled(kind))
<1>1. /\ Running
      /\ UNCHANGED <<in_flight, csms, offered>>
      /\ \/ IsTransaction(m) /\ AddToTransactionQueue(m)
         \/ ~IsTransaction(m) /\ AddToNormalQueue(m)
  BY DEF PushCall
<1>2. m.id = id /\ m.kind = kind /\ m.att = 0 /\ Row(m) = [id |-> id, kind |-> kind]
  BY DEF Message, Row
<1>3. Stalled(kind) \in BOOLEAN  BY DEF Stalled
<1>4. /\ tq \in TQueues /\ nq \in NQueues /\ ttab \in SUBSET RowType(TransactionKinds)
      /\ Memory(tq, in_flight, ttab) /\ \A r, s \in ttab : r.id = s.id => r = s
  BY DEF IInv, QueueTypeOK, TQueues, NQueues, Numbers
<1>5. CASE kind \in TransactionKinds
  <2> DEFINE q == Append(tq, m)
             t == ttab \union {Row(m)}
  <2>1. m = Message(next, kind, Stalled(kind))  BY <1>5
  <2> HIDE DEF m
  <2>2. /\ q \in TQueues /\ t \in SUBSET RowType(TransactionKinds)
        /\ \A r, s \in t : r.id = s.id => r = s
        /\ Memory(q, in_flight, t)
    BY <1>1, <1>3, <1>5, <2>1, JoinTransaction
  <2>3. CheckQueueSizes(q, nq, t, ntab)
    BY <1>1, <1>2, <1>5 DEF AddToTransactionQueue, IsTransaction
  <2>4. Head(q).att = 0 \/ (tq # <<>> /\ Head(q) = Head(tq))
    <3>1. m \in MsgType(TransactionKinds)
      <4>1. next \in Nat  BY DEF IInv, QueueTypeOK
      <4> QED  BY <1>3, <1>5, <2>1, <4>1 DEF Message, MsgType
    <3>2. CASE tq = <<>>  BY <3>1, <3>2, <1>2
    <3>3. CASE tq # <<>>  BY <3>1, <3>3, <1>4 DEF TQueues
    <3> QED  BY <3>2, <3>3
  <2>5. ttab \subseteq t /\ t \ ttab \subseteq [id : {next}, kind : {"event", "update"}]
    BY <1>2, <1>5 DEF TransactionKinds
  <2> HIDE DEF q, t
  <2>6. \E new \in SUBSET (t \ ttab) : Outbox!GiveUpReadings(new)
    BY <1>1, <1>4, <2>2, <2>3, <2>4, <2>5, OverflowMaps
  <2> QED  BY <1>5, <2>5, <2>6
<1>6. CASE kind \notin TransactionKinds
  <2> DEFINE n == IF m.kind = "boot" THEN <<m>> \o nq ELSE Append(nq, m)
             u == IF CheckQueue(m.kind) THEN ntab \union {Row(m)} ELSE ntab
  <2>1. m \in MsgType(NormalKinds)
    BY <1>3, <1>6 DEF Message, MsgType, NormalKinds
  <2> HIDE DEF m
  <2>2. n \in NQueues
    BY <1>4, <2>1, Prepend, Appended DEF NQueues
  <2>3. CheckQueueSizes(tq, n, ttab, u)
    BY <1>1, <1>2, <1>6 DEF AddToNormalQueue, IsTransaction
  <2> HIDE DEF n, u
  <2>4. \E new \in SUBSET (ttab \ ttab) : Outbox!GiveUpReadings(new)
    BY <1>1, <1>4, <2>2, <2>3, OverflowMaps
  <2>5. Outbox!GiveUpReadings({})
    <3>1. PICK new \in SUBSET (ttab \ ttab) : Outbox!GiveUpReadings(new)  BY <2>4
    <3>2. new = {}  OBVIOUS
    <3> QED  BY <3>1, <3>2
  <2> QED  BY <2>5
<1> QED  BY <1>5, <1>6

\* A push is accepted by the outbox, or fills it.
LEMMA PushMaps ==
    ASSUME IInv, \/ \E kind \in Kinds : Push(kind)
                 \/ PushBoot \/ PushHeartbeat
    PROVE  Outbox!Accept \/ Outbox!Overflow
<1>0. next \in Nat  BY DEF IInv, QueueTypeOK
<1>1. ASSUME NEW kind \in Kinds, Push(kind) PROVE Outbox!Accept
  <2>1. PushCall(next, kind) /\ next' = next + 1  BY <1>1 DEF Push
  <2>2. \E new \in SUBSET [id : {next}, kind : {"event", "update"}] :
          Outbox!GiveUpReadings(new)
    BY <1>0, <2>1, PushCallMaps
  <2> QED  BY <2>1, <2>2 DEF Outbox!Accept
<1>2. ASSUME NEW kind \in {"boot", "heartbeat"}, PushCall(0, kind), next' = next
      PROVE  Outbox!Overflow
  <2>1. kind \in Kinds /\ kind \notin TransactionKinds  BY DEF Kinds, TransactionKinds
  <2>2. Outbox!GiveUpReadings({})
    BY <1>2, <2>1, PushCallMaps
  <2> QED  BY <1>2, <2>2 DEF Outbox!Overflow
<1> QED  BY <1>1, <1>2 DEF PushBoot, PushHeartbeat

\* What arrives at the CSMS was offered and is not older than what arrived before.
LEMMA CsmsHandlesMaps ==
    ASSUME IInv, CsmsHandles
    PROVE  Outbox!Arrive \/ UNCHANGED Outbox!outboxVars
<1>1. /\ wire # <<>>
      /\ csms' = IF Head(wire).kind \in TransactionKinds
                 THEN csms \union {Head(wire).id} ELSE csms
      /\ UNCHANGED <<tq, in_flight, ttab, next, offered>>
  BY DEF CsmsHandles, queues, tables
<1>2. wire \in Seq(UidType) /\ 1 \in DOMAIN wire /\ Head(wire) = wire[1]
  BY <1>1 DEF IInv, QueueTypeOK
<1>3. Tried' = Tried  BY <1>1 DEF Tried
<1>4. CASE ~IsTransaction(wire[1])
  BY <1>1, <1>2, <1>3, <1>4 DEF IsTransaction, Outbox!outboxVars
<1>5. CASE IsTransaction(wire[1])
  <2>1. wire[1] \in UidType /\ offered \in Nat  BY <1>2 DEF IInv, QueueTypeOK
  <2>2. wire[1].id \in 1..offered /\ \A o \in csms : o <= wire[1].id
    BY <1>2, <1>5, <2>1 DEF IInv, OnItsWay, UidType
  <2>3. csms' = csms \union {wire[1].id}
    BY <1>1, <1>2, <1>5 DEF IsTransaction
  <2> QED  BY <1>1, <1>3, <2>2, <2>3 DEF Outbox!Arrive
<1> QED  BY <1>4, <1>5

\* Loading the tables is invisible to the outbox.
LEMMA StartMaps ==
    ASSUME IInv, Start
    PROVE  UNCHANGED Outbox!outboxVars
<1>1. /\ phase = "down" /\ tq' \in Loaded(ttab)
      /\ UNCHANGED <<ttab, in_flight, next, csms, offered>>
  BY DEF Start, past
<1>2. tq = <<>> /\ in_flight = NoMessage  BY <1>1 DEF IInv, Down
<1>3. ttab \in SUBSET RowType(TransactionKinds) /\ next \in Nat /\ \A r \in ttab : r.id < next
  BY DEF IInv, QueueTypeOK, Numbers
<1>4. tq' \in TQueues /\ \A i \in DOMAIN tq' : tq'[i].att = 0
  BY <1>1, <1>3, LoadedQueue DEF TQueues
<1>5. tq' # <<>> => Head(tq').att = 0
  <2> SUFFICES ASSUME tq' # <<>> PROVE Head(tq').att = 0  OBVIOUS
  <2>1. 1 \in DOMAIN tq' /\ Head(tq') = tq'[1]  BY <1>4 DEF TQueues
  <2> QED  BY <2>1, <1>4
<1>6. Tried = 0 /\ Tried' = 0
  BY <1>1, <1>2, <1>5 DEF Tried, IsTransaction, NoMessage, TransactionKinds
<1> QED  BY <1>1, <1>6 DEF Outbox!outboxVars

\* Timestamps are invisible to the outbox.
LEMMA TimePassesMaps ==
    ASSUME IInv, TimePasses
    PROVE  UNCHANGED Outbox!outboxVars
<1>1. UNCHANGED <<in_flight, ttab, next, csms, offered>>
  BY DEF TimePasses, tables, past
<1>2. (tq' # <<>> <=> tq # <<>>) /\ (tq # <<>> => Head(tq').att = Head(tq).att)
  <2>1. CASE UNCHANGED tq  BY <2>1
  <2>2. ASSUME NEW k \in DOMAIN tq, tq' = [tq EXCEPT ![k].due = TRUE] PROVE <1>2
    <3>1. tq \in TQueues  BY DEF IInv, QueueTypeOK, TQueues
    <3>2. tq' = [i \in DOMAIN tq |-> tq'[i]]  BY <2>2
    <3>3. \A i \in DOMAIN tq : tq'[i] \in {tq[i], [tq[i] EXCEPT !.due = TRUE]}
      BY <2>2
    <3>4. tq' \in TQueues /\ DOMAIN tq' = DOMAIN tq /\ \A i \in DOMAIN tq : tq'[i].att = tq[i].att
      BY <3>1, <3>2, <3>3, DueKeeps DEF TQueues
    <3>5. tq # <<>> /\ tq' # <<>> /\ 1 \in DOMAIN tq /\ Head(tq) = tq[1] /\ Head(tq') = tq'[1]
      BY <3>1, <3>4 DEF TQueues
    <3> QED  BY <3>4, <3>5
  <2> QED  BY <2>1, <2>2 DEF TimePasses
<1> QED  BY <1>1, <1>2 DEF Tried, Outbox!outboxVars

\* Every step of the queue is a step of the outbox or leaves it as it is.
LEMMA StepMaps ==
    ASSUME IInv, [Next]_vars
    PROVE  [Outbox!OutboxNext]_Outbox!outboxVars
<1> DEFINE Stutters == UNCHANGED Outbox!outboxVars
<1>0. ASSUME UNCHANGED <<tq, in_flight, ttab, next, offered, csms>> PROVE Stutters
  BY <1>0 DEF Tried, Outbox!outboxVars
<1> USE DEF queues, tables, past
<1>1. CASE WorkerBlocks  BY <1>0, <1>1 DEF WorkerBlocks
<1>2. CASE WorkerWaits  BY <1>0, <1>2 DEF WorkerWaits
<1>3. CASE WorkerStartsAction  BY <1>0, <1>3 DEF WorkerStartsAction
<1>4. CASE WorkerEndsAction  BY <1>0, <1>4 DEF WorkerEndsAction
<1>5. CASE WorkerFindsNothing  BY <1>0, <1>5 DEF WorkerFindsNothing
<1>6. CASE WorkerClears  BY <1>0, <1>6 DEF WorkerClears
<1>7. CASE WorkerExits  BY <1>0, <1>7 DEF WorkerExits
<1>8. CASE NotifyFires  BY <1>0, <1>8 DEF NotifyFires
<1>9. CASE PushFurtherHeartbeat  BY <1>0, <1>9 DEF PushFurtherHeartbeat
<1>10. CASE ConnectedCallback  BY <1>0, <1>10 DEF ConnectedCallback
<1>11. CASE ResumeExpires  BY <1>0, <1>11 DEF ResumeExpires
<1>12. CASE ResumeCallback  BY <1>0, <1>12 DEF ResumeCallback
<1>13. CASE RunWhenIdle  BY <1>0, <1>13 DEF RunWhenIdle
<1>14. CASE BootHandled  BY <1>0, <1>14 DEF BootHandled
<1>15. CASE StartHandled  BY <1>0, <1>15 DEF StartHandled
<1>16. CASE CsmsCalls  BY <1>0, <1>16 DEF CsmsCalls
<1>17. CASE PushCallResult  BY <1>0, <1>17 DEF PushCallResult
<1>18. CASE UNCHANGED vars  BY <1>0, <1>18 DEF vars
<1>19. CASE TimerExpires  BY <1>0, <1>19 DEF TimerExpires
<1>20. CASE Connect \/ Disconnect \/ Stop  BY <1>0, <1>20 DEF Connect, Disconnect, Stop
<1>21. CASE WorkerSendsTransaction
  BY <1>21, SendTransactionMaps DEF Outbox!OutboxNext
<1>22. CASE WorkerSendsNormal  BY <1>22, SendNormalMaps
<1>23. CASE TimeoutCallback
  <2>1. CASE in_flight = NoMessage \/ Uid(in_flight) # timer_late
    BY <1>0, <1>23, <2>1 DEF TimeoutCallback
  <2>2. CASE in_flight # NoMessage /\ Uid(in_flight) = timer_late
    BY <1>23, <2>2, ReleaseMaps DEF TimeoutCallback, Outbox!OutboxNext
  <2> QED  BY <2>1, <2>2
<1>24. CASE DisconnectedCallback
  <2>1. CASE in_flight = NoMessage  BY <1>0, <1>24, <2>1 DEF DisconnectedCallback
  <2>2. CASE in_flight # NoMessage
    BY <1>24, <2>2, ReleaseMaps DEF DisconnectedCallback, Outbox!OutboxNext
  <2> QED  BY <2>1, <2>2
<1>25. CASE (\E kind \in Kinds : Push(kind)) \/ PushBoot \/ PushHeartbeat
  BY <1>25, PushMaps DEF Outbox!OutboxNext
<1>26. CASE Start  BY <1>26, StartMaps
<1>27. CASE PowerDown
  <2>1. Tried' = 0 /\ UNCHANGED <<ttab, next, offered, csms>>
    BY <1>27 DEF PowerDown, Tried, IsTransaction, NoMessage, TransactionKinds
  <2> QED  BY <2>1 DEF Outbox!Restart, Outbox!OutboxNext
<1>28. CASE CsmsHandles  BY <1>28, CsmsHandlesMaps DEF Outbox!OutboxNext
<1>29. CASE Receive  BY <1>29, ReceiveMaps DEF Outbox!OutboxNext
<1>30. CASE TimePasses  BY <1>30, TimePassesMaps
<1> QED
  BY <1>1, <1>2, <1>3, <1>4, <1>5, <1>6, <1>7, <1>8, <1>9, <1>10, <1>11, <1>12,
     <1>13, <1>14, <1>15, <1>16, <1>17, <1>18, <1>19, <1>20, <1>21, <1>22, <1>23,
     <1>24, <1>25, <1>26, <1>27, <1>28, <1>29, <1>30 DEF Next, Worker

\* The queue keeps the promise of TransactionOutbox: nothing overtakes the
\* oldest message, and a message leaves the database only when it was received
\* and answered, when its attempts are used up, or as a reading that is dropped.
THEOREM QueueIsOutbox == Spec => ImplementsOutbox
<1>1. Init => Outbox!OutboxInit
  BY DEF Init, Outbox!OutboxInit, Tried, IsTransaction, NoMessage, TransactionKinds
<1>2. IInv /\ [Next]_vars => [Outbox!OutboxNext]_Outbox!outboxVars
  BY StepMaps
<1> QED  BY <1>1, <1>2, QueueInvariant, PTL DEF Spec, ImplementsOutbox, Outbox!OutboxSpec
=============================================================================
