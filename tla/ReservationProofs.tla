-------------------------- MODULE ReservationProofs --------------------------
(***************************************************************************)
(* Proofs about ReservationHandler for every set of EVSEs, requests and    *)
(* tokens and any number of commands and restarts: the reservations that   *)
(* are in force are the ones with a timer; one that was ended does not     *)
(* come back, not even with a restart between any two steps, unless the    *)
(* loading refused it; at rest every EvseManager has the reservation for a *)
(* connector type that the handler has for its EVSE, and no other, unless  *)
(* a refusal lost it there;                                                *)
(* is_reservation_possible says what it is meant to say; and at rest the   *)
(* reservations for a connector type fit.                                  *)
(***************************************************************************)
EXTENDS ReservationHandler, InductionFacts, FiniteSetTheorems, SequenceTheorems

-----------------------------------------------------------------------------
(* What the invariant says of the handler's book: a is evse_reservations, g  *)
(* global_reservations, q any list of reservations.                          *)

EvseBooks == [Evses -> Requests \union {None}]
SpecificIds(a) == {a[e].id : e \in {f \in Evses : a[f] # None}}

\* No id twice in a list, at two EVSEs, or in both.
Unique(q) == \A i, j \in DOMAIN q : q[i].id = q[j].id => i = j
BookOK(a, g) ==
    /\ a \in EvseBooks /\ g \in Seq(Requests) /\ Unique(g)
    /\ \A e, f \in Evses :
          a[e] # None /\ a[f] # None /\ a[e].id = a[f].id => e = f
    /\ SpecificIds(a) \intersect ListIds(g) = {}

EmRecords == [reserved : Ids \union {None, "Global"}, enabled : BOOLEAN,
              plugged : BOOLEAN, authorized : BOOLEAN, transaction : BOOLEAN]
EventNames == {"SessionStarted", "SessionFinished", "TransactionStarted",
               "Disabled", "Enabled", "ReservationEnd"}
Managers == [Evses -> EmRecords]
EventQueues == [Evses -> Seq(EventNames)]

\* The states of the handler with what it has seen of the EVSEs and what it
\* has restored.
Handlers(seen, restored) ==
    [evse_reservations : EvseBooks, global_reservations : Seq(Requests),
     timers : SUBSET Ids, armed : SUBSET Ids, restored : {restored},
     last_reserved : SUBSET Evses, stored : Seq(Requests), seen : {seen},
     em : Managers, events : EventQueues]

\* Timers are kept for the reservations in force, and the store has no id
\* twice.
HandlerOK(s) ==
    /\ s \in Handlers(s.seen, s.restored)
    /\ BookOK(s.evse_reservations, s.global_reservations)
    /\ s.timers = SpecificIds(s.evse_reservations) \union ListIds(s.global_reservations)
    /\ s.armed \subseteq s.timers
    /\ Unique(s.stored)

\* The commands under way, which a restart forgets.
CommandsOK ==
    /\ phase \in {"booting", "loading", "up"}
    /\ place = [at |-> place.at, r |-> place.r, replaced |-> place.replaced]
    /\ place.at # "idle" => phase = "up" /\ place.r \in Requests
    /\ cancel.at # "idle" => phase = "up"
    /\ apply = [e \in Evses |-> apply[e]]
    /\ \A e \in Evses :
          /\ apply[e] = [at |-> apply[e].at, id |-> apply[e].id, boot |-> apply[e].boot]
          /\ apply[e].at # "idle" => phase = "up" /\ apply[e].id \in Ids

\* What is still to be loaded is not in force, nor twice in the list.
LoadingOK ==
    /\ loading \in Seq(Requests) /\ Unique(loading)
    /\ ListIds(loading) \intersect st.timers = {}
    /\ phase # "loading" => loading = <<>>
    /\ phase = "booting" => st.timers = {}

\* What was ended is not in force unless it was refused while loading and is
\* still in the store; what is in the store, or about to be loaded from it, and
\* was ended will not be loaded unless it was refused like that.
Ended ==
    /\ over \intersect st.timers \subseteq hist.stale
    /\ over \intersect (ListIds(st.stored) \union ListIds(loading))
          \subseteq hist.stale \union past
    /\ st.timers \subseteq ListIds(st.stored)

RInv ==
    /\ HandlerOK(st)
    /\ expired \in Seq(Ids) /\ st.timers \ st.armed \subseteq Range(expired)
    /\ CommandsOK /\ LoadingOK /\ Ended

\* t follows s with the same book, or with less in it: what was removed has
\* lost its timer, and the store was written.
SameBook(s, t) ==
    /\ t.evse_reservations = s.evse_reservations
    /\ t.global_reservations = s.global_reservations
    /\ t.timers = s.timers /\ t.armed = s.armed /\ t.stored = s.stored
Less(s, t) ==
    /\ Range(t.global_reservations) \subseteq Range(s.global_reservations)
    /\ \A e \in Evses : t.evse_reservations[e] \in {s.evse_reservations[e], None}
Fewer(s, t) ==
    /\ HandlerOK(t) /\ Less(s, t)
    /\ t.timers \subseteq s.timers
    /\ t.timers \ t.armed \subseteq s.timers \ s.armed
    /\ \/ t.timers = s.timers /\ t.stored = s.stored
       \/ ListIds(t.stored) = t.timers
-----------------------------------------------------------------------------
(* The EvseManagers are told: the book stays. *)

\* A step that leaves the book alone.
LEMMA BookKept ==
    ASSUME NEW s, NEW t, HandlerOK(s), SameBook(s, t), NEW x, NEW y,
           t \in Handlers(x, y)
    PROVE  Fewer(s, t)
<1>1. t.seen = x /\ t.restored = y  BY DEF Handlers
<1>2. Less(s, t)  BY DEF SameBook, Less
<1> QED  BY <1>1, <1>2 DEF HandlerOK, SameBook, Fewer

\* Fewer and fewer.
LEMMA FewerStill ==
    ASSUME NEW s, NEW t, NEW u, Fewer(s, t), Fewer(t, u)
    PROVE  Fewer(s, u)
<1>1. Less(s, u)  BY DEF Fewer, Less
<1> QED  BY <1>1 DEF Fewer

\* EvseManagers that release their reservation report its end.
LEMMA EmCancelKeeps ==
    ASSUME NEW x, NEW y, NEW s \in Handlers(x, y), NEW es, NEW t,
           t = EmCancel(s, es)
    PROVE  t \in Handlers(x, y) /\ SameBook(s, t)
<1> DEFINE ended == {e \in es : s.em[e].reserved # None}
           m == [e \in Evses |->
                   IF e \in ended THEN [s.em[e] EXCEPT !.reserved = None] ELSE s.em[e]]
           q == [e \in Evses |->
                   IF e \in ended THEN Append(s.events[e], "ReservationEnd")
                   ELSE s.events[e]]
<1>1. s.em \in Managers /\ s.events \in EventQueues  BY DEF Handlers
<1>2. m \in Managers
  <2>1. ASSUME NEW r \in EmRecords PROVE [r EXCEPT !.reserved = None] \in EmRecords
    BY DEF EmRecords
  <2>2. \A e \in Evses : s.em[e] \in EmRecords  BY <1>1 DEF Managers
  <2> HIDE DEF ended
  <2> QED  BY <2>1, <2>2 DEF Managers
<1>3. q \in EventQueues
  <2>1. \A e \in Evses : s.events[e] \in Seq(EventNames)  BY <1>1 DEF EventQueues
  <2>2. PICK x1 \in EventNames : x1 = "ReservationEnd"  BY DEF EventNames
  <2>3. \A e \in Evses : Append(s.events[e], x1) \in Seq(EventNames)  BY <2>1
  <2> HIDE DEF ended
  <2> QED  BY <2>1, <2>2, <2>3 DEF EventQueues
<1>4. t = [s EXCEPT !.em = m, !.events = q]  BY DEF EmCancel
<1> HIDE DEF m, q
<1> QED  BY <1>2, <1>3, <1>4 DEF Handlers, SameBook

\* EvseManagers that accept a reservation have it.
LEMMA EmReserveKeeps ==
    ASSUME NEW x, NEW y, NEW s \in Handlers(x, y), NEW es,
           NEW id \in Ids \union {"Global"}, NEW t, t = EmReserve(s, es, id)
    PROVE  t \in Handlers(x, y) /\ SameBook(s, t)
<1> DEFINE accept == {e \in es : EmAccepts(s.em[e], id)}
           m == [e \in Evses |->
                   IF e \in accept THEN [s.em[e] EXCEPT !.reserved = id] ELSE s.em[e]]
<1>1. s.em \in Managers  BY DEF Handlers
<1>2. m \in Managers
  <2>1. ASSUME NEW r \in EmRecords PROVE [r EXCEPT !.reserved = id] \in EmRecords
    BY DEF EmRecords
  <2>2. \A e \in Evses : s.em[e] \in EmRecords  BY <1>1 DEF Managers
  <2> HIDE DEF accept
  <2> QED  BY <2>1, <2>2 DEF Managers
<1>3. t = [s EXCEPT !.em = m]  BY DEF EmReserve
<1> HIDE DEF m
<1> QED  BY <1>2, <1>3 DEF Handlers, SameBook

\* check_evse_reserved_and_send_updates
LEMMA UpdateKeeps ==
    ASSUME NEW x, NEW y, NEW s \in Handlers(x, y), NEW t, t = Update(s)
    PROVE  t \in Handlers(x, y) /\ SameBook(s, t)
<1> DEFINE available == {e \in Evses : Free(s, e)} \ ReservedEvses(s)
           reserved  == GloballyReserved(s, available)
           release   == (available \intersect s.last_reserved) \ reserved
           u == EmCancel(s, release)
           w == EmReserve(u, reserved \ s.last_reserved, "Global")
<1>1. available \subseteq Evses  OBVIOUS
<1>2. reserved \subseteq Evses
  <2> HIDE DEF available
  <2> QED  BY <1>1 DEF GloballyReserved
<1>3. t = [w EXCEPT !.last_reserved = reserved]  BY DEF Update
<1> HIDE DEF available, reserved, release
<1>4. u \in Handlers(x, y) /\ SameBook(s, u)  BY EmCancelKeeps
<1> HIDE DEF u
<1>5. w \in Handlers(x, y) /\ SameBook(u, w)
  <2>1. PICK id \in Ids \union {"Global"} : id = "Global"  OBVIOUS
  <2> QED  BY <1>4, <2>1, EmReserveKeeps
<1> HIDE DEF w
<1> QED  BY <1>2, <1>3, <1>4, <1>5 DEF Handlers, SameBook

\* call_reservation_cancelled
LEMMA ReleaseKeeps ==
    ASSUME NEW x, NEW y, NEW s \in Handlers(x, y), NEW es, NEW t,
           t = Release(s, es)
    PROVE  t \in Handlers(x, y) /\ SameBook(s, t)
<1> DEFINE u == EmCancel(s, es)
<1>1. u \in Handlers(x, y) /\ SameBook(s, u)  BY EmCancelKeeps
<1>2. t = Update(u)  BY DEF Release
<1> HIDE DEF u
<1>3. t \in Handlers(x, y) /\ SameBook(u, t)  BY <1>1, <1>2, UpdateKeeps
<1> QED  BY <1>1, <1>3 DEF SameBook
-----------------------------------------------------------------------------
(* Lists of reservations. *)

\* One element is taken out: the others keep their order, h says where they
\* were.
LEMMA Removed ==
    ASSUME NEW S, NEW q \in Seq(S), NEW k \in DOMAIN q
    PROVE  /\ RemoveAt(q, k) \in Seq(S)
           /\ DOMAIN RemoveAt(q, k) = 1..(Len(q) - 1)
           /\ \A j \in DOMAIN RemoveAt(q, k) :
                 RemoveAt(q, k)[j] = q[IF j < k THEN j ELSE j + 1]
<1> DEFINE n == Len(q)
           a == SubSeq(q, 1, k - 1)
           b == SubSeq(q, k + 1, n)
           r == a \o b
<1>1. n \in Nat /\ DOMAIN q = 1..n /\ k \in 1..n /\ k \in Nat  OBVIOUS
<1>2. /\ a \in Seq(S) /\ Len(a) = k - 1
      /\ \A j \in 1..(k - 1) : a[j] = q[j]
  <2>1. \A i \in 1..(k - 1) : i \in 1..n /\ q[i] \in S  BY <1>1
  <2> QED  BY <1>1, <2>1
<1>3. /\ b \in Seq(S) /\ Len(b) = n - k
      /\ \A j \in 1..(n - k) : b[j] = q[k + j]
  <2>1. \A i \in (k + 1)..n : i \in 1..n /\ q[i] \in S  BY <1>1
  <2>2. n - (k + 1) + 1 = n - k /\ \A j \in 1..(n - k) : k + 1 + j - 1 = k + j
    BY <1>1
  <2> QED  BY <1>1, <2>1, <2>2
<1> HIDE DEF a, b
<1>4. /\ r \in Seq(S) /\ Len(r) = n - 1
      /\ \A j \in 1..(n - 1) : r[j] = IF j < k THEN a[j] ELSE b[j - (k - 1)]
  <2>1. r \in Seq(S) /\ Len(r) = (k - 1) + (n - k)  BY <1>1, <1>2, <1>3
  <2>2. (k - 1) + (n - k) = n - 1  BY <1>1
  <2>3. \A j \in 1..(Len(a) + Len(b)) :
           r[j] = IF j <= Len(a) THEN a[j] ELSE b[j - Len(a)]
    BY <1>2, <1>3, ConcatProperties
  <2>4. \A j \in 1..(n - 1) : (j <= k - 1) <=> (j < k)  BY <1>1
  <2> HIDE DEF r
  <2> QED  BY <1>2, <1>3, <2>1, <2>2, <2>3, <2>4
<1>5. RemoveAt(q, k) = r  BY DEF RemoveAt, a, b
<1> HIDE DEF r
<1>6. ASSUME NEW j \in 1..(n - 1) PROVE r[j] = q[IF j < k THEN j ELSE j + 1]
  <2>1. CASE j < k
    <3>1. j \in 1..(k - 1)  BY <1>1, <2>1
    <3> QED  BY <1>2, <1>4, <2>1, <3>1
  <2>2. CASE ~(j < k)
    <3>1. j - (k - 1) \in 1..(n - k) /\ k + (j - (k - 1)) = j + 1
      BY <1>1, <2>2
    <3> QED  BY <1>3, <1>4, <2>2, <3>1
  <2> QED  BY <2>1, <2>2
<1>7. DOMAIN r = 1..(n - 1)  BY <1>1, <1>4
<1> QED  BY <1>4, <1>5, <1>6, <1>7

\* find_if and erase: the id is gone, the others are still there, each once.
LEMMA Erased ==
    ASSUME NEW q \in Seq(Requests), Unique(q), NEW id, NEW r, r = Erase(q, id)
    PROVE  /\ r \in Seq(Requests) /\ Unique(r) /\ ListIds(r) = ListIds(q) \ {id}
           /\ Range(r) \subseteq Range(q)
<1>1. CASE ~\E i \in DOMAIN q : q[i].id = id
  BY <1>1 DEF Erase, ListIds
<1>2. CASE \E i \in DOMAIN q : q[i].id = id
  <2> DEFINE I == {i \in 1..Len(q) : q[i].id = id}
             k == Min(I)
  <2>0. DOMAIN q = 1..Len(q) /\ Len(q) \in Nat  OBVIOUS
  <2>1. k \in I
    <3>1. I # {} /\ I \subseteq Nat  BY <1>2, <2>0
    <3> HIDE DEF I
    <3>2. \E m \in I : \A y \in I : m <= y  BY <3>1, LeastNat
    <3> QED  BY <3>2 DEF Min
  <2>2. r = RemoveAt(q, k)  BY <1>2, <2>0 DEF Erase, SelectInSeq
  <2>3. k \in DOMAIN q /\ q[k].id = id  BY <2>0, <2>1
  <2> HIDE DEF k, I
  <2>4. /\ r \in Seq(Requests) /\ DOMAIN r = 1..(Len(q) - 1)
        /\ \A j \in DOMAIN r : r[j] = q[IF j < k THEN j ELSE j + 1]
    BY <2>2, <2>3, Removed
  <2> DEFINE h == [j \in DOMAIN r |-> IF j < k THEN j ELSE j + 1]
  <2>5. \A j \in DOMAIN r : h[j] \in DOMAIN q /\ h[j] # k /\ r[j] = q[h[j]]
    BY <2>0, <2>3, <2>4
  <2>6. \A i, j \in DOMAIN r : h[i] = h[j] => i = j  BY <2>0, <2>3, <2>4
  <2>7. ASSUME NEW i \in DOMAIN q, i # k PROVE \E j \in DOMAIN r : h[j] = i
    <3>1. CASE i < k
      <4>1. i \in DOMAIN r /\ h[i] = i  BY <2>0, <2>3, <2>4, <3>1
      <4> QED  BY <4>1
    <3>2. CASE ~(i < k)
      <4>1. i - 1 \in DOMAIN r /\ h[i - 1] = i  BY <2>0, <2>3, <2>4, <2>7, <3>2
      <4> QED  BY <4>1
    <3> QED  BY <3>1, <3>2
  <2> HIDE DEF h
  <2>8. Unique(r)
    <3>1. ASSUME NEW i \in DOMAIN r, NEW j \in DOMAIN r, r[i].id = r[j].id PROVE i = j
      <4>1. q[h[i]].id = q[h[j]].id  BY <2>5, <3>1
      <4>2. h[i] = h[j]  BY <2>5, <4>1 DEF Unique
      <4> QED  BY <2>6, <4>2
    <3> QED  BY <3>1 DEF Unique
  <2>9. ListIds(r) \subseteq ListIds(q) \ {id}
    <3>1. ASSUME NEW j \in DOMAIN r PROVE r[j].id \in ListIds(q) \ {id}
      <4>1. q[h[j]].id # id  BY <2>3, <2>5 DEF Unique
      <4> QED  BY <2>5, <4>1 DEF ListIds
    <3> QED  BY <3>1 DEF ListIds
  <2>10. ListIds(q) \ {id} \subseteq ListIds(r)
    <3>1. ASSUME NEW i \in DOMAIN q, q[i].id # id PROVE q[i].id \in ListIds(r)
      <4>1. PICK j \in DOMAIN r : h[j] = i  BY <2>3, <2>7, <3>1
      <4>2. r[j].id = q[i].id  BY <2>5, <4>1
      <4> QED  BY <4>1, <4>2 DEF ListIds
    <3> QED  BY <3>1 DEF ListIds
  <2>11. Range(r) \subseteq Range(q)  BY <2>5 DEF Range
  <2> QED  BY <2>4, <2>8, <2>9, <2>10, <2>11
<1> QED  BY <1>1, <1>2

\* A finite set of numbers has an order.
Ordered(n, es) ==
    \E f \in [1..n -> es] :
       /\ \A i, j \in 1..n : i < j => f[i] < f[j]
       /\ \A e \in es : \E i \in 1..n : f[i] = e
LEMMA OrderExists ==
    ASSUME NEW k \in Nat
    PROVE  \A es : es \subseteq Nat /\ IsFiniteSet(es) /\ Cardinality(es) = k =>
              Ordered(k, es)
<1> DEFINE K == {n \in Nat : \A es : es \subseteq Nat /\ IsFiniteSet(es)
                                     /\ Cardinality(es) = n => Ordered(n, es)}
<1>1. 0 \in K
  <2> SUFFICES ASSUME NEW es, IsFiniteSet(es), Cardinality(es) = 0
               PROVE  Ordered(0, es)
    OBVIOUS
  <2>1. es = {}  BY FS_EmptySet
  <2>2. 1..0 = {}  OBVIOUS
  <2>3. [i \in 1..0 |-> i] \in [1..0 -> es]  BY <2>2
  <2> QED  BY <2>1, <2>2, <2>3 DEF Ordered
<1>2. ASSUME NEW n \in K \cap Nat PROVE n + 1 \in K
  <2> SUFFICES ASSUME NEW es, es \subseteq Nat, IsFiniteSet(es),
                      Cardinality(es) = n + 1
               PROVE  Ordered(n + 1, es)
    OBVIOUS
  <2>1. es # {}
    <3>1. n + 1 # 0  OBVIOUS
    <3> QED  BY <3>1, FS_EmptySet
  <2>2. PICK m \in es : \A e \in es : m <= e  BY <2>1, LeastNat
  <2> DEFINE rest == es \ {m}
  <2>3. /\ rest \subseteq Nat /\ IsFiniteSet(rest) /\ Cardinality(rest) = n
        /\ \A e \in rest : m < e
    <3>1. IsFiniteSet(rest) /\ Cardinality(rest) = (n + 1) - 1
      BY FS_RemoveElement
    <3>2. (n + 1) - 1 = n  OBVIOUS
    <3> QED  BY <2>2, <3>1, <3>2
  <2>4. PICK f \in [1..n -> rest] :
           /\ \A i, j \in 1..n : i < j => f[i] < f[j]
           /\ \A e \in rest : \E i \in 1..n : f[i] = e
    <3> HIDE DEF rest
    <3>1. Ordered(n, rest)  BY <2>3, Zenon
    <3> QED  BY <3>1, Zenon DEF Ordered
  <2> DEFINE g == [i \in 1..(n + 1) |-> IF i = 1 THEN m ELSE f[i - 1]]
  <2>5. \A i \in 1..(n + 1) : i # 1 => i - 1 \in 1..n /\ g[i] = f[i - 1]
                                        /\ g[i] \in rest
    <3> HIDE DEF rest
    <3> QED  BY <2>4
  <2>6. g[1] = m /\ 1 \in 1..(n + 1)  OBVIOUS
  <2>7. g \in [1..(n + 1) -> es]
    <3>1. \A i \in 1..(n + 1) : g[i] \in es  BY <2>5, <2>6
    <3>2. g = [i \in 1..(n + 1) |-> g[i]]  OBVIOUS
    <3> HIDE DEF g
    <3> QED  BY <3>1, <3>2
  <2> HIDE DEF g
  <2>8. ASSUME NEW i \in 1..(n + 1), NEW j \in 1..(n + 1), i < j
        PROVE  g[i] < g[j]
    <3>1. CASE i = 1
      <4>1. g[j] \in rest  BY <2>5, <2>8, <3>1
      <4> QED  BY <2>3, <2>6, <3>1, <4>1
    <3>2. CASE i # 1
      <4>1. i - 1 \in 1..n /\ j - 1 \in 1..n /\ i - 1 < j - 1 /\ j # 1
        BY <2>8, <3>2
      <4>2. f[i - 1] < f[j - 1]  BY <2>4, <4>1
      <4> QED  BY <2>5, <3>2, <4>1, <4>2
    <3> QED  BY <3>1, <3>2
  <2>9. ASSUME NEW e \in es PROVE \E i \in 1..(n + 1) : g[i] = e
    <3>1. CASE e = m  BY <2>6, <3>1
    <3>2. CASE e # m
      <4>1. PICK i \in 1..n : f[i] = e  BY <2>4, <3>2
      <4>2. i + 1 \in 1..(n + 1) /\ i + 1 # 1 /\ (i + 1) - 1 = i  OBVIOUS
      <4> QED  BY <2>5, <4>1, <4>2
    <3> QED  BY <3>1, <3>2
  <2> QED  BY <2>7, <2>8, <2>9 DEF Ordered
<1>3. Nat \subseteq K
  <2> HIDE DEF K
  <2> QED  BY <1>1, <1>2, SetInduction
<1> QED  BY <1>3
-----------------------------------------------------------------------------
(* store_reservations *)

\* The EVSEs in their order, each once.
LEMMA InOrderIs ==
    ASSUME NEW es \in SUBSET Evses
    PROVE  \E k \in Nat :
              /\ InOrder(es) \in [1..k -> es]
              /\ \A i, j \in 1..k : InOrder(es)[i] = InOrder(es)[j] => i = j
              /\ \A e \in es : \E i \in 1..k : InOrder(es)[i] = e
<1> DEFINE k == Cardinality(es)
           P(f) == /\ \A i, j \in DOMAIN f : i < j => f[i] < f[j]
                   /\ es \subseteq Range(f)
<1>1. es \subseteq Nat /\ IsFiniteSet(es) /\ k \in Nat
  <2>1. Evses \subseteq Nat /\ IsFiniteSet(Evses)
    BY ReservationAssumption DEF ReservationAssumption
  <2> QED  BY <2>1, FS_Subset, FS_CardinalityType
<1>2. \E f \in [1..k -> es] : P(f)
  <2> HIDE DEF k
  <2>0. k = Cardinality(es)  BY DEF k
  <2>1. PICK f \in [1..k -> es] :
           /\ \A i, j \in 1..k : i < j => f[i] < f[j]
           /\ \A e \in es : \E i \in 1..k : f[i] = e
    <3>1. Ordered(k, es)  BY <1>1, <2>0, OrderExists, Zenon
    <3> QED  BY <3>1, Zenon DEF Ordered
  <2>2. DOMAIN f = 1..k  OBVIOUS
  <2>3. es \subseteq Range(f)  BY <2>1, <2>2 DEF Range
  <2> QED  BY <2>1, <2>2, <2>3
<1> DEFINE o == CHOOSE f \in [1..k -> es] : P(f)
<1>3. InOrder(es) = o  BY DEF InOrder
<1>4. o \in [1..k -> es] /\ P(o)
  <2> HIDE DEF P, k
  <2> QED  BY <1>2
<1> HIDE DEF o, k
<1>5. DOMAIN o = 1..k  BY <1>4
<1>6. \A e \in es : \E i \in 1..k : o[i] = e  BY <1>4, <1>5 DEF Range
<1>7. ASSUME NEW i \in 1..k, NEW j \in 1..k, o[i] = o[j] PROVE i = j
  <2>1. o[i] \in Nat /\ o[j] \in Nat  BY <1>1, <1>4
  <2>2. ~(i < j) /\ ~(j < i)  BY <1>1, <1>4, <1>5, <1>7, <2>1
  <2> QED  BY <1>1, <2>2
<1> QED  BY <1>1, <1>3, <1>4, <1>6, <1>7

\* The stored list has every reservation of the book, each once.
LEMMA StoredIs ==
    ASSUME NEW s, BookOK(s.evse_reservations, s.global_reservations)
    PROVE  /\ StoredForm(s) \in Seq(Requests) /\ Unique(StoredForm(s))
           /\ ListIds(StoredForm(s)) = SpecificIds(s.evse_reservations)
                                          \union ListIds(s.global_reservations)
<1> DEFINE es == ReservedEvses(s)
           o == InOrder(es)
<1>1. PICK a : a = s.evse_reservations  OBVIOUS
<1>2. PICK g : g = s.global_reservations  OBVIOUS
<1>3. es \in SUBSET Evses /\ es = {e \in Evses : a[e] # None}
  BY <1>1 DEF ReservedEvses
<1> DEFINE b == [i \in DOMAIN o |-> s.evse_reservations[o[i]]]
           q == b \o s.global_reservations
<1>4. StoredForm(s) = q  BY DEF StoredForm
<1> HIDE DEF es
<1>5. PICK k \in Nat : /\ o \in [1..k -> es]
                       /\ \A i, j \in 1..k : o[i] = o[j] => i = j
                       /\ \A e \in es : \E i \in 1..k : o[i] = e
  BY <1>3, InOrderIs
<1> HIDE DEF o
<1>6. b \in Seq(Requests) /\ Len(b) = k /\ \A i \in 1..k : b[i] = a[o[i]]
  <2>1. \A i \in 1..k : a[o[i]] \in Requests
    <3>1. \A e \in es : a[e] \in Requests  BY <1>1, <1>3 DEF BookOK, EvseBooks
    <3> QED  BY <1>5, <3>1
  <2>2. b = [i \in 1..k |-> a[o[i]]]  BY <1>1, <1>5
  <2> QED  BY <2>1, <2>2
<1> HIDE DEF b
<1>7. g \in Seq(Requests) /\ Len(g) \in Nat /\ DOMAIN g = 1..Len(g)
  BY <1>2 DEF BookOK
<1>8. /\ q \in Seq(Requests) /\ Len(q) = k + Len(g)
      /\ \A i \in 1..(k + Len(g)) : q[i] = IF i <= k THEN b[i] ELSE g[i - k]
  BY <1>2, <1>6, <1>7, ConcatProperties
<1> HIDE DEF q
<1>9. DOMAIN q = 1..(k + Len(g))  BY <1>7, <1>8
<1>10. /\ \A i \in DOMAIN q : i <= k =>
             i \in 1..k /\ o[i] \in es /\ q[i] = a[o[i]] /\ q[i].id \in SpecificIds(a)
       /\ \A i \in DOMAIN q : ~(i <= k) =>
             i - k \in DOMAIN g /\ q[i] = g[i - k] /\ q[i].id \in ListIds(g)
  <2>1. ASSUME NEW i \in DOMAIN q, i <= k
        PROVE  i \in 1..k /\ o[i] \in es /\ q[i] = a[o[i]] /\ q[i].id \in SpecificIds(a)
    <3>1. i \in 1..k  BY <1>7, <1>9, <2>1
    <3>2. o[i] \in es /\ q[i] = a[o[i]]  BY <1>5, <1>6, <1>8, <1>9, <2>1, <3>1
    <3> QED  BY <1>3, <3>1, <3>2 DEF SpecificIds
  <2>2. ASSUME NEW i \in DOMAIN q, ~(i <= k)
        PROVE  i - k \in DOMAIN g /\ q[i] = g[i - k] /\ q[i].id \in ListIds(g)
    <3>1. i - k \in DOMAIN g  BY <1>7, <1>9, <2>2
    <3>2. q[i] = g[i - k]  BY <1>8, <1>9, <2>2
    <3> QED  BY <3>1, <3>2 DEF ListIds
  <2> QED  BY <2>1, <2>2
<1>11. ASSUME NEW i \in DOMAIN q, NEW j \in DOMAIN q, q[i].id = q[j].id PROVE i = j
  <2>0. SpecificIds(a) \intersect ListIds(g) = {}  BY <1>1, <1>2 DEF BookOK
  <2>1. CASE i <= k /\ j <= k
    <3>1. o[i] = o[j]
      <4>1. a[o[i]].id = a[o[j]].id /\ o[i] \in es /\ o[j] \in es
        BY <1>10, <1>11, <2>1
      <4> QED  BY <1>1, <1>3, <4>1 DEF BookOK
    <3> QED  BY <1>5, <1>10, <2>1, <3>1
  <2>2. CASE ~(i <= k) /\ ~(j <= k)
    <3>1. i - k = j - k  BY <1>2, <1>10, <1>11, <2>2 DEF BookOK, Unique
    <3>2. i \in Nat /\ j \in Nat  BY <1>9
    <3> QED  BY <3>1, <3>2
  <2>3. CASE (i <= k) # (j <= k)  BY <1>10, <1>11, <2>0, <2>3
  <2> QED  BY <2>1, <2>2, <2>3
<1>12. SpecificIds(a) \subseteq ListIds(q)
  <2>1. ASSUME NEW e \in es PROVE a[e].id \in ListIds(q)
    <3>1. PICK i \in 1..k : o[i] = e  BY <1>5
    <3>2. i \in DOMAIN q /\ i <= k  BY <1>7, <1>9
    <3> QED  BY <1>10, <3>1, <3>2 DEF ListIds
  <2> QED  BY <1>3, <2>1 DEF SpecificIds
<1>13. ListIds(g) \subseteq ListIds(q)
  <2>1. ASSUME NEW i \in DOMAIN g PROVE g[i].id \in ListIds(q)
    <3>1. i + k \in DOMAIN q /\ ~(i + k <= k) /\ (i + k) - k = i  BY <1>7, <1>9
    <3>2. q[i + k] = g[i]  BY <1>10, <3>1
    <3> QED  BY <3>1, <3>2 DEF ListIds
  <2> QED  BY <2>1 DEF ListIds
<1>14. ListIds(q) \subseteq SpecificIds(a) \union ListIds(g)  BY <1>10 DEF ListIds
<1>15. Unique(q)  BY <1>11 DEF Unique
<1> QED  BY <1>1, <1>2, <1>4, <1>8, <1>12, <1>13, <1>14, <1>15

\* What is written is what the book has.
Stored(u, t) ==
    /\ HandlerOK(t) /\ ListIds(t.stored) = t.timers
    /\ t.timers = u.timers /\ t.armed = u.armed
    /\ t.evse_reservations = u.evse_reservations
    /\ t.global_reservations = u.global_reservations
LEMMA StoreKeeps ==
    ASSUME NEW x, NEW y, NEW u \in Handlers(x, y),
           BookOK(u.evse_reservations, u.global_reservations),
           u.timers = SpecificIds(u.evse_reservations) \union ListIds(u.global_reservations),
           u.armed \subseteq u.timers, NEW t, t = Store(u)
    PROVE  t \in Handlers(x, y) /\ Stored(u, t)
<1>1. PICK q : q = StoredForm(u)  OBVIOUS
<1>2. q \in Seq(Requests) /\ Unique(q) /\ ListIds(q) = u.timers  BY <1>1, StoredIs
<1>3. t = [u EXCEPT !.stored = q]  BY <1>1 DEF Store
<1>4. /\ t \in Handlers(x, y) /\ t.stored = q /\ t.timers = u.timers
      /\ t.armed = u.armed /\ t.evse_reservations = u.evse_reservations
      /\ t.global_reservations = u.global_reservations
  BY <1>2, <1>3 DEF Handlers
<1>5. t.seen = x /\ t.restored = y  BY <1>4 DEF Handlers
<1>6. HandlerOK(t)  BY <1>2, <1>4, <1>5 DEF HandlerOK
<1> QED  BY <1>2, <1>4, <1>6 DEF Stored
-----------------------------------------------------------------------------
(* cancel_reservation and make_reservation *)

\* cancel_reservation, when there is a timer: since no id is in force twice,
\* the reservation is gone wherever it was.
LEMMA ForgetKeeps ==
    ASSUME NEW x, NEW y, NEW s \in Handlers(x, y), HandlerOK(s), NEW id, NEW t,
           t = Forget(s, id)
    PROVE  t \in Handlers(x, y) /\ Fewer(s, t) /\ t.timers = s.timers \ {id}
<1> DEFINE a == s.evse_reservations
           b == [e \in Evses |-> IF a[e] # None /\ a[e].id = id THEN None ELSE a[e]]
           g == Erase(s.global_reservations, id)
           at == EvseOf(s, id)
           last == {e \in at : \A f \in at : f <= e}
           u == [s EXCEPT !.timers = @ \ {id}, !.armed = @ \ {id},
                          !.evse_reservations = b, !.global_reservations = g]
<1>0. \A e \in Evses : e \in last <=> a[e] # None /\ a[e].id = id
  <2>1. \A e \in Evses : e \in at <=> a[e] # None /\ a[e].id = id
    BY DEF EvseOf, ReservedEvses
  <2>2. at \subseteq Evses /\ Evses \subseteq Nat
    BY ReservationAssumption DEF ReservationAssumption, EvseOf, ReservedEvses
  <2> HIDE DEF at
  <2>3. \A e, f \in at : e = f /\ e <= e
    <3>1. \A e, f \in Evses : a[e] # None /\ a[f] # None /\ a[e].id = a[f].id => e = f
      BY DEF HandlerOK, BookOK
    <3>2. \A e \in at : e <= e  BY <2>2
    <3> HIDE DEF a
    <3>3. \A e, f \in at : e = f  BY <2>1, <2>2, <3>1
    <3> QED  BY <3>2, <3>3
  <2> QED  BY <2>1, <2>3
<1>01. at # {} => g = s.global_reservations
  <2> SUFFICES ASSUME at # {} PROVE g = s.global_reservations  OBVIOUS
  <2>1. id \in SpecificIds(a)  BY DEF EvseOf, ReservedEvses, SpecificIds
  <2>2. id \notin ListIds(s.global_reservations)  BY <2>1 DEF HandlerOK, BookOK
  <2> QED  BY <2>2 DEF Erase, ListIds
<1>1. t = Store(u)
  <2> DEFINE w == [s EXCEPT !.timers = @ \ {id}, !.armed = @ \ {id},
                      !.evse_reservations = [e \in Evses |-> IF e \in last THEN None ELSE @[e]],
                      !.global_reservations = IF at = {} THEN Erase(@, id) ELSE @]
  <2>1. t = Store(w)  BY DEF Forget
  <2>2. [e \in Evses |-> IF e \in last THEN None ELSE a[e]] = b
    <3> HIDE DEF last
    <3> QED  BY <1>0
  <2>3. (IF at = {} THEN Erase(s.global_reservations, id) ELSE s.global_reservations) = g
    <3> HIDE DEF at
    <3> QED  BY <1>01
  <2> HIDE DEF b, g, last, at
  <2>4. w = u  BY <2>2, <2>3
  <2> QED  BY <2>1, <2>4
<1>2. /\ g \in Seq(Requests) /\ Unique(g)
      /\ ListIds(g) = ListIds(s.global_reservations) \ {id}
      /\ Range(g) \subseteq Range(s.global_reservations)
  BY Erased DEF HandlerOK, BookOK
<1>3. a \in EvseBooks  BY DEF HandlerOK, BookOK
<1>4. /\ b \in EvseBooks
      /\ \A e \in Evses : b[e] # None => b[e] = a[e] /\ a[e].id # id
      /\ \A e \in Evses : a[e] # None /\ a[e].id # id => b[e] = a[e]
  BY <1>3 DEF EvseBooks
<1> HIDE DEF g, b
<1>5. /\ u \in Handlers(x, y) /\ u.evse_reservations = b /\ u.global_reservations = g
      /\ u.timers = s.timers \ {id} /\ u.armed = s.armed \ {id}
  BY <1>2, <1>4 DEF Handlers
<1> HIDE DEF u
<1>6. SpecificIds(b) = SpecificIds(a) \ {id}  BY <1>4 DEF SpecificIds
<1>7. \A e, f \in Evses : b[e] # None /\ b[f] # None /\ b[e].id = b[f].id => e = f
  BY <1>4 DEF HandlerOK, BookOK
<1>8. BookOK(b, g)
  BY <1>2, <1>4, <1>6, <1>7 DEF HandlerOK, BookOK
<1>9. /\ u.timers = SpecificIds(b) \union ListIds(g)
      /\ u.armed \subseteq u.timers
  BY <1>2, <1>5, <1>6 DEF HandlerOK
<1>10. t \in Handlers(x, y) /\ Stored(u, t)
  BY <1>1, <1>5, <1>8, <1>9, StoreKeeps
<1>11. Less(s, t)
  <2>1. \A e \in Evses : b[e] \in {a[e], None}  BY <1>4
  <2> QED  BY <1>2, <1>5, <1>10, <2>1 DEF Stored, Less
<1> QED  BY <1>5, <1>10, <1>11 DEF Stored, Fewer

\* A reservation that is not in force, for an EVSE that has none, is added.
LEMMA AddKeeps ==
    ASSUME NEW x, NEW y, NEW s \in Handlers(x, y), HandlerOK(s),
           NEW r \in Requests, r.id \notin s.timers,
           r.evse # None => s.evse_reservations[r.evse] = None,
           NEW t, t = Add(s, r)
    PROVE  /\ t \in Handlers(x, y) /\ HandlerOK(t) /\ ListIds(t.stored) = t.timers
           /\ t.timers = s.timers \union {r.id}
           /\ t.timers \ t.armed \subseteq s.timers \ s.armed
           /\ t.global_reservations = IF r.evse = None THEN Append(s.global_reservations, r)
                                      ELSE s.global_reservations
<1> DEFINE a == s.evse_reservations
           g == s.global_reservations
           timed == [s EXCEPT !.timers = @ \union {r.id}, !.armed = @ \union {r.id}]
<1>0. r.id \in Ids /\ (r.evse # None => r.evse \in Evses) /\ r # None
  BY ReservationAssumption DEF ReservationAssumption, Ids
<1>1. /\ a \in EvseBooks /\ g \in Seq(Requests)
      /\ s.timers \in SUBSET Ids /\ s.armed \in SUBSET Ids
  BY DEF Handlers
<1>2. /\ timed \in Handlers(x, y) /\ timed.evse_reservations = a
      /\ timed.global_reservations = g
      /\ timed.timers = s.timers \union {r.id} /\ timed.armed = s.armed \union {r.id}
  BY <1>0, <1>1 DEF Handlers
<1> HIDE DEF timed
<1>3. CASE r.evse # None
  <2> DEFINE b == [a EXCEPT ![r.evse] = r]
             u == [timed EXCEPT !.evse_reservations = b]
  <2>1. t = Store(u)  BY <1>2, <1>3 DEF Add, timed
  <2>2. b \in EvseBooks /\ b[r.evse] = r /\ \A e \in Evses : e # r.evse => b[e] = a[e]
    BY <1>0, <1>1, <1>3 DEF EvseBooks
  <2> HIDE DEF b
  <2>3. /\ u \in Handlers(x, y) /\ u.evse_reservations = b /\ u.global_reservations = g
        /\ u.timers = s.timers \union {r.id} /\ u.armed = s.armed \union {r.id}
    BY <1>2, <2>2 DEF Handlers
  <2> HIDE DEF u
  <2>4. SpecificIds(b) = SpecificIds(a) \union {r.id}
    BY <1>0, <1>3, <2>2 DEF SpecificIds
  <2>5. \A e \in Evses : a[e] # None => a[e].id # r.id
    BY DEF HandlerOK, SpecificIds
  <2>6. \A e, f \in Evses : b[e] # None /\ b[f] # None /\ b[e].id = b[f].id => e = f
    BY <2>2, <2>5 DEF HandlerOK, BookOK
  <2>7. BookOK(b, g)
    BY <1>1, <2>2, <2>4, <2>6 DEF HandlerOK, BookOK
  <2>8. /\ u.timers = SpecificIds(b) \union ListIds(g)
        /\ u.armed \subseteq u.timers
    BY <2>3, <2>4 DEF HandlerOK
  <2>9. t \in Handlers(x, y) /\ Stored(u, t)
    BY <2>1, <2>3, <2>7, <2>8, StoreKeeps
  <2> QED  BY <1>3, <2>3, <2>9 DEF Stored
<1>4. CASE r.evse = None
  <2> DEFINE h == Append(g, r)
             u == [timed EXCEPT !.global_reservations = h]
  <2>1. t = Store(u)  BY <1>2, <1>4 DEF Add, timed
  <2>2. /\ h \in Seq(Requests) /\ Len(g) \in Nat /\ DOMAIN g = 1..Len(g)
        /\ DOMAIN h = 1..(Len(g) + 1) /\ h[Len(g) + 1] = r
        /\ \A i \in 1..Len(g) : h[i] = g[i]
    BY <1>1
  <2> HIDE DEF h
  <2>3. /\ u \in Handlers(x, y) /\ u.evse_reservations = a /\ u.global_reservations = h
        /\ u.timers = s.timers \union {r.id} /\ u.armed = s.armed \union {r.id}
    BY <1>1, <1>2, <2>2 DEF Handlers
  <2> HIDE DEF u
  <2>4. \A i \in DOMAIN h : i = Len(g) + 1 \/ i \in DOMAIN g  BY <2>2
  <2>5. \A i \in DOMAIN g : i \in DOMAIN h /\ h[i] = g[i] /\ g[i].id # r.id
    BY <2>2 DEF HandlerOK, ListIds
  <2>6. Len(g) + 1 \in DOMAIN h  BY <2>2
  <2>7. ListIds(h) = ListIds(g) \union {r.id}
    BY <2>2, <2>4, <2>5, <2>6 DEF ListIds
  <2>8. Unique(h)
    <3>1. Unique(g)  BY DEF HandlerOK, BookOK
    <3> QED  BY <2>2, <2>4, <2>5, <2>6, <3>1 DEF Unique
  <2>9. r.id \notin SpecificIds(a)  BY DEF HandlerOK
  <2>10. BookOK(a, h)
    BY <2>2, <2>7, <2>8, <2>9 DEF HandlerOK, BookOK
  <2>11. /\ u.timers = SpecificIds(a) \union ListIds(h)
         /\ u.armed \subseteq u.timers
    BY <2>3, <2>7 DEF HandlerOK
  <2>12. t \in Handlers(x, y) /\ Stored(u, t)
    BY <2>1, <2>3, <2>10, <2>11, StoreKeeps
  <2>13. t.global_reservations = Append(s.global_reservations, r)
    BY <2>3, <2>12 DEF Stored, h
  <2> QED  BY <1>4, <2>3, <2>12, <2>13 DEF Stored
<1> QED  BY <1>3, <1>4

\* Nothing is fewer, too.
LEMMA FewerSelf ==
    ASSUME NEW s, HandlerOK(s)
    PROVE  Fewer(s, s)
BY DEF Fewer, Less

\* cancel_reservation, without and with the callback.
LEMMA CancelKeeps ==
    ASSUME NEW x, NEW y, NEW s \in Handlers(x, y), HandlerOK(s), NEW id, NEW t,
           t = Cancel(s, id)
    PROVE  t \in Handlers(x, y) /\ Fewer(s, t) /\ t.timers = s.timers \ {id}
<1>1. CASE id \in s.timers  BY <1>1, ForgetKeeps DEF Cancel
<1>2. CASE id \notin s.timers
  <2>1. t = s /\ s.timers = s.timers \ {id}  BY <1>2 DEF Cancel
  <2> QED  BY <2>1, FewerSelf
<1> QED  BY <1>1, <1>2

LEMMA ReleaseFewer ==
    ASSUME NEW x, NEW y, NEW s \in Handlers(x, y), HandlerOK(s), NEW es, NEW t,
           t = Release(s, es)
    PROVE  t \in Handlers(x, y) /\ Fewer(s, t)
BY ReleaseKeeps, BookKept

LEMMA CancelAndTellKeeps ==
    ASSUME NEW x, NEW y, NEW s \in Handlers(x, y), HandlerOK(s), NEW id, NEW t,
           t = CancelAndTell(s, id)
    PROVE  t \in Handlers(x, y) /\ Fewer(s, t) /\ id \notin t.timers
<1>1. CASE id \in s.timers
  <2> DEFINE u == Forget(s, id)
             es == EvseOf(s, id)
  <2>1. t = Release(u, es)  BY <1>1 DEF CancelAndTell
  <2>2. u \in Handlers(x, y) /\ Fewer(s, u) /\ u.timers = s.timers \ {id}  BY ForgetKeeps
  <2> HIDE DEF u, es
  <2>3. HandlerOK(u)  BY <2>2 DEF Fewer
  <2>4. t \in Handlers(x, y) /\ Fewer(u, t)  BY <2>1, <2>2, <2>3, ReleaseFewer
  <2>5. t.timers \subseteq u.timers  BY <2>4 DEF Fewer
  <2> QED  BY <2>2, <2>4, <2>5, FewerStill
<1>2. CASE id \notin s.timers
  <2>1. t = s  BY <1>2 DEF CancelAndTell
  <2> QED  BY <1>2, <2>1, FewerSelf
<1> QED  BY <1>1, <1>2
-----------------------------------------------------------------------------
(* What the EvseManagers have of the reservations. *)

ConnectorStates == {"AVAILABLE", "UNAVAILABLE", "FAULTED", "OCCUPIED",
                    "FAULTED_OCCUPIED", "UNAVAILABLE_FAULTED"}
SeenRecords == [plugged_in : BOOLEAN, connector : ConnectorStates,
                reported_enabled : BOOLEAN]

HasId(s, e, id) == s.evse_reservations[e] # None /\ s.evse_reservations[e].id = id
Told(s, e, event) == event \in Range(s.events[e])

\* A reservation of an EVSE with a connector type is at its EvseManager, or
\* will be ended by what was reported, or is on its way there: pl is the
\* reserve_now command, a the restored reservation that is being applied.
Owed(s, e, pl, a) ==
    LET r == s.evse_reservations[e] IN
    r # None /\ r.type # None =>
        \/ s.em[e].reserved = r.id
        \/ Told(s, e, "ReservationEnd") \/ Told(s, e, "TransactionStarted")
        \/ pl.at \in {"made", "reserving", "failing"} /\ pl.r.id = r.id /\ pl.r.evse = e
        \/ a.at = "reserving" /\ a.id = r.id
        \/ s.restored[e] = r.id
\* What an EvseManager has is in the book, or used by an authorization, or a
\* command that is under way will look after it, or it was lost in a refusal; ca is
\* cancel_reservation, lo what was lost.
Backed(s, e, pl, ca, a, lo) ==
    s.em[e].reserved \in Ids =>
        \/ HasId(s, e, s.em[e].reserved)
        \/ s.em[e].authorized
        \/ ca.at = "releasing" /\ e \in ca.evse
        \/ pl.at \in {"made", "refused"} /\ e \in pl.replaced /\ ~HasId(s, e, pl.r.id)
        \/ pl.at = "checking" /\ pl.r.evse = e /\ pl.r.id = s.em[e].reserved
        \/ a.at = "checking" /\ a.id = s.em[e].reserved
        \/ <<e, s.em[e].reserved>> \in lo
\* reserve_now knows the EVSE whose reservation it replaces.
Placed(s, e, pl) ==
    pl.at = "making" /\ HasId(s, e, pl.r.id) => e \in pl.replaced
\* The EvseManager by itself.
ManagerOK(s, e, ph) ==
    /\ s.em[e].transaction => s.em[e].plugged /\ s.em[e].authorized /\ s.em[e].reserved = None
    /\ s.em[e].authorized => ph = "up"
\* While it starts, the Auth module sees a free EVSE only if it is, or will be,
\* reported as enabled.
Booted(s, e, ph) ==
    ph # "up" =>
       /\ s.seen[e].connector \in {"AVAILABLE", "UNAVAILABLE"}
       /\ ~Told(s, e, "TransactionStarted")
       /\ s.seen[e].connector = "AVAILABLE" => s.seen[e].reported_enabled \/ Told(s, e, "Enabled")
\* A restored reservation is applied when the EVSE is reported as enabled, or
\* was when the loading ends.
RestoredOK(s, e, a, ph) ==
    /\ s.restored[e] # None =>
          Told(s, e, "Enabled") \/ (ph = "loading" /\ s.seen[e].reported_enabled)
    /\ a.at # "idle" => s.restored[e] = None
Suits(s, e) ==
    s.evse_reservations[e] # None => Suitable(e, s.evse_reservations[e].type)

CoreOK(s, e, pl, ca, a, ph, lo) ==
    /\ Backed(s, e, pl, ca, a, lo) /\ Placed(s, e, pl) /\ ManagerOK(s, e, ph)
    /\ Booted(s, e, ph) /\ Suits(s, e)
EvseOK(s, e, pl, ca, a, ph, lo) ==
    /\ CoreOK(s, e, pl, ca, a, ph, lo) /\ Owed(s, e, pl, a) /\ RestoredOK(s, e, a, ph)

\* What an EvseManager was left with when a reservation was refused, and how a
\* step keeps it: it is still lost, unless it is in the book again.
Lost == {<<e, st.em[e].reserved>> : e \in hist.lost}
LostKept(lo) ==
    \A e \in Evses : LET id == st'.em[e].reserved IN
       id \in Ids /\ <<e, id>> \in lo => HasId(st', e, id) \/ <<e, id>> \in Lost'

GInv ==
    /\ st.seen \in [Evses -> SeenRecords] /\ st.restored \in [Evses -> Ids \union {None}]
    /\ \A e \in Evses : EvseOK(st, e, place, cancel, apply[e], phase, Lost)

\* t follows s with less in the book of e, its EvseManager at most released,
\* with a report if the reservation is still in the book.
ShrinksAt(s, t, e) ==
    LET m == s.em[e]  n == t.em[e] IN
    /\ t.seen[e] = s.seen[e] /\ t.restored[e] = s.restored[e]
    /\ \/ t.evse_reservations[e] = s.evse_reservations[e]
       \/ /\ t.evse_reservations[e] = None /\ n.reserved \notin Ids
          /\ s.evse_reservations[e].id \notin t.timers
    /\ /\ n.enabled = m.enabled /\ n.plugged = m.plugged
       /\ n.authorized = m.authorized /\ n.transaction = m.transaction
    /\ \/ n.reserved = m.reserved
       \/ /\ n.reserved \in {None, "Global"} /\ (m.plugged => n.reserved = None)
          /\ t.evse_reservations[e] = None \/ Told(t, e, "ReservationEnd")
    /\ Range(s.events[e]) \subseteq Range(t.events[e])
    /\ Range(t.events[e]) \subseteq Range(s.events[e]) \union {"ReservationEnd"}
Shrinks(s, t) ==
    t.timers \subseteq s.timers /\ \A e \in Evses : ShrinksAt(s, t, e)

LEMMA IdsApart == None \notin Ids /\ "Global" \notin Ids
BY ReservationAssumption DEF ReservationAssumption

LEMMA ShrinksSelf ==
    ASSUME NEW s PROVE Shrinks(s, s)
BY DEF Shrinks, ShrinksAt

LEMMA ShrinksMore ==
    ASSUME NEW s, NEW t, NEW u, Shrinks(s, t), Shrinks(t, u)
    PROVE  Shrinks(s, u)
<1>1. u.timers \subseteq s.timers  BY DEF Shrinks
<1>2. ASSUME NEW e \in Evses PROVE ShrinksAt(s, u, e)
  <2>1. ShrinksAt(s, t, e) /\ ShrinksAt(t, u, e) /\ u.timers \subseteq t.timers
    BY DEF Shrinks
  <2> QED  BY <2>1, IdsApart DEF ShrinksAt, Told
<1> QED  BY <1>1, <1>2 DEF Shrinks

\* A command is about a reservation with an id.
Named(pl, a) == (pl.at # "idle" => pl.r.id \in Ids) /\ (a.at # "idle" => a.id \in Ids)

LEMMA ShrinksCore ==
    ASSUME NEW s, NEW t, NEW e \in Evses, ShrinksAt(s, t, e),
           NEW pl, NEW ca, NEW a, NEW ph, NEW lo, Named(pl, a),
           CoreOK(s, e, pl, ca, a, ph, lo)
    PROVE  CoreOK(t, e, pl, ca, a, ph, lo)
<1>1. Backed(t, e, pl, ca, a, lo)
  BY IdsApart DEF CoreOK, ShrinksAt, Backed, HasId
<1>2. Placed(t, e, pl)
  BY IdsApart DEF CoreOK, ShrinksAt, Placed, HasId, Named
<1>3. ManagerOK(t, e, ph)
  BY DEF CoreOK, ShrinksAt, ManagerOK
<1>4. Booted(t, e, ph)
  BY DEF CoreOK, ShrinksAt, Booted, Told
<1>5. Suits(t, e)
  BY DEF CoreOK, ShrinksAt, Suits
<1> QED  BY <1>1, <1>2, <1>3, <1>4, <1>5 DEF CoreOK

LEMMA ShrinksOwed ==
    ASSUME NEW s, NEW t, NEW e \in Evses, ShrinksAt(s, t, e),
           NEW pl, NEW a, Owed(s, e, pl, a)
    PROVE  Owed(t, e, pl, a)
BY DEF ShrinksAt, Owed, Told

LEMMA ShrinksRestored ==
    ASSUME NEW s, NEW t, NEW e \in Evses, ShrinksAt(s, t, e), t.timers \subseteq s.timers,
           NEW a, NEW ph, RestoredOK(s, e, a, ph)
    PROVE  RestoredOK(t, e, a, ph)
BY DEF ShrinksAt, RestoredOK, HasId, Told

LEMMA ShrinksOK ==
    ASSUME NEW s, NEW t, Shrinks(s, t), NEW e \in Evses,
           NEW pl, NEW ca, NEW a, NEW ph, NEW lo, Named(pl, a),
           EvseOK(s, e, pl, ca, a, ph, lo)
    PROVE  EvseOK(t, e, pl, ca, a, ph, lo)
BY ShrinksCore, ShrinksOwed, ShrinksRestored DEF Shrinks, EvseOK
-----------------------------------------------------------------------------
(* Lists of events as sets. *)

LEMMA RangeConcat ==
    ASSUME NEW S, NEW p \in Seq(S), NEW q \in Seq(S)
    PROVE  Range(p \o q) = Range(p) \union Range(q)
<1> DEFINE c == p \o q
<1>1. /\ Len(p) \in Nat /\ Len(q) \in Nat /\ DOMAIN p = 1..Len(p) /\ DOMAIN q = 1..Len(q)
      /\ DOMAIN c = 1..(Len(p) + Len(q))
      /\ \A i \in 1..(Len(p) + Len(q)) :
            c[i] = IF i <= Len(p) THEN p[i] ELSE q[i - Len(p)]
  BY ConcatProperties
<1> HIDE DEF c
<1>2. \A i \in DOMAIN p : i \in DOMAIN c /\ c[i] = p[i]  BY <1>1
<1>3. ASSUME NEW i \in DOMAIN q PROVE q[i] \in Range(c)
  <2>1. Len(p) + i \in DOMAIN c /\ c[Len(p) + i] = q[i]  BY <1>1
  <2> QED  BY <2>1 DEF Range
<1>4. ASSUME NEW i \in DOMAIN c PROVE c[i] \in Range(p) \union Range(q)
  <2>1. CASE i <= Len(p)
    <3>1. i \in DOMAIN p /\ c[i] = p[i]  BY <1>1, <2>1
    <3> QED  BY <3>1 DEF Range
  <2>2. CASE ~(i <= Len(p))
    <3>1. i - Len(p) \in DOMAIN q /\ c[i] = q[i - Len(p)]  BY <1>1, <2>2
    <3> QED  BY <3>1 DEF Range
  <2> QED  BY <2>1, <2>2
<1>5. Range(c) = Range(p) \union Range(q)  BY <1>2, <1>3, <1>4 DEF Range
<1> QED  BY <1>5 DEF c

LEMMA RangeAppend ==
    ASSUME NEW S, NEW q \in Seq(S), NEW v \in S
    PROVE  Range(Append(q, v)) = Range(q) \union {v}
<1> DEFINE c == Append(q, v)
<1>1. /\ Len(q) \in Nat /\ DOMAIN q = 1..Len(q) /\ DOMAIN c = 1..(Len(q) + 1)
      /\ c[Len(q) + 1] = v /\ \A i \in 1..Len(q) : c[i] = q[i]
  OBVIOUS
<1> HIDE DEF c
<1>2. /\ Len(q) + 1 \in DOMAIN c /\ \A i \in DOMAIN q : i \in DOMAIN c
      /\ \A i \in DOMAIN c : i = Len(q) + 1 \/ i \in DOMAIN q
  BY <1>1
<1>3. Range(c) = Range(q) \union {v}  BY <1>1, <1>2 DEF Range
<1> QED  BY <1>3 DEF c

LEMMA RangeTail ==
    ASSUME NEW S, NEW q \in Seq(S), q # <<>>
    PROVE  Range(q) = Range(Tail(q)) \union {Head(q)} /\ Head(q) \in S
<1> DEFINE c == Tail(q)
<1>1. /\ Len(q) \in Nat /\ DOMAIN q = 1..Len(q) /\ DOMAIN c = 1..(Len(q) - 1)
      /\ Len(q) # 0 /\ Head(q) = q[1] /\ \A i \in 1..(Len(q) - 1) : c[i] = q[i + 1]
  OBVIOUS
<1> HIDE DEF c
<1>2. 1 \in DOMAIN q  BY <1>1
<1>3. \A i \in DOMAIN c : i + 1 \in DOMAIN q /\ c[i] = q[i + 1]  BY <1>1
<1>4. ASSUME NEW i \in DOMAIN q, i # 1 PROVE q[i] \in Range(c)
  <2>1. i - 1 \in DOMAIN c /\ c[i - 1] = q[i]  BY <1>1, <1>4
  <2> QED  BY <2>1 DEF Range
<1>5. Range(q) = Range(c) \union {q[1]}  BY <1>2, <1>3, <1>4 DEF Range
<1> QED  BY <1>1, <1>2, <1>5 DEF c
-----------------------------------------------------------------------------
(* What the operations leave at one EVSE. *)

LEMMA EmCancelIs ==
    ASSUME NEW x, NEW y, NEW s \in Handlers(x, y), NEW es, NEW t,
           t = EmCancel(s, es), NEW e \in Evses
    PROVE  /\ e \notin es => t.em[e] = s.em[e] /\ t.events[e] = s.events[e]
           /\ e \in es /\ s.em[e].reserved = None =>
                 t.em[e] = s.em[e] /\ t.events[e] = s.events[e]
           /\ e \in es /\ s.em[e].reserved # None =>
                 /\ t.em[e] = [s.em[e] EXCEPT !.reserved = None]
                 /\ Range(t.events[e]) = Range(s.events[e]) \union {"ReservationEnd"}
<1> DEFINE ended == {f \in es : s.em[f].reserved # None}
           m == [f \in Evses |->
                   IF f \in ended THEN [s.em[f] EXCEPT !.reserved = None] ELSE s.em[f]]
           q == [f \in Evses |->
                   IF f \in ended THEN Append(s.events[f], "ReservationEnd")
                   ELSE s.events[f]]
<1>1. t = [s EXCEPT !.em = m, !.events = q]  BY DEF EmCancel
<1>2. t.em = m /\ t.events = q
  <2> HIDE DEF m, q
  <2> QED  BY <1>1 DEF Handlers
<1>3. Range(Append(s.events[e], "ReservationEnd")) = Range(s.events[e]) \union {"ReservationEnd"}
  <2>1. s.events[e] \in Seq(EventNames) /\ "ReservationEnd" \in EventNames
    BY DEF Handlers, EventQueues, EventNames
  <2> QED  BY <2>1, RangeAppend
<1>4. e \in ended <=> e \in es /\ s.em[e].reserved # None  OBVIOUS
<1>5. /\ t.em[e] = IF e \in ended THEN [s.em[e] EXCEPT !.reserved = None] ELSE s.em[e]
      /\ t.events[e] = IF e \in ended THEN Append(s.events[e], "ReservationEnd")
                       ELSE s.events[e]
  <2> HIDE DEF ended
  <2> QED  BY <1>2
<1> HIDE DEF ended, m, q
<1> QED  BY <1>3, <1>4, <1>5

LEMMA EmReserveIs ==
    ASSUME NEW x, NEW y, NEW s \in Handlers(x, y), NEW es, NEW id, NEW t,
           t = EmReserve(s, es, id)
    PROVE  /\ t.events = s.events
           /\ \A e \in Evses : t.em[e] = IF e \in es /\ EmAccepts(s.em[e], id)
                 THEN [s.em[e] EXCEPT !.reserved = id] ELSE s.em[e]
<1> DEFINE accept == {f \in es : EmAccepts(s.em[f], id)}
           m == [f \in Evses |->
                   IF f \in accept THEN [s.em[f] EXCEPT !.reserved = id] ELSE s.em[f]]
<1>1. t = [s EXCEPT !.em = m]  BY DEF EmReserve
<1>2. t.em = m /\ t.events = s.events
  <2> HIDE DEF m
  <2> QED  BY <1>1 DEF Handlers
<1>3. \A e : e \in accept <=> e \in es /\ EmAccepts(s.em[e], id)  OBVIOUS
<1> HIDE DEF accept
<1> QED  BY <1>2, <1>3

LEMMA CancelIs ==
    ASSUME NEW x, NEW y, NEW s \in Handlers(x, y), HandlerOK(s), NEW id, NEW t,
           t = Cancel(s, id)
    PROVE  /\ t.em = s.em /\ t.events = s.events
           /\ \A e \in Evses : t.evse_reservations[e] =
                 IF HasId(s, e, id) THEN None ELSE s.evse_reservations[e]
<1>1. CASE id \in s.timers
  <2>1. t = Forget(s, id)  BY <1>1 DEF Cancel
  <2> DEFINE at == EvseOf(s, id)
             last == {e \in at : \A f \in at : f <= e}
             b == [e \in Evses |-> IF e \in last THEN None ELSE s.evse_reservations[e]]
             g == IF at = {} THEN Erase(s.global_reservations, id) ELSE s.global_reservations
             u == [s EXCEPT !.timers = @ \ {id}, !.armed = @ \ {id},
                            !.evse_reservations = b, !.global_reservations = g]
  <2>2. t = Store(u)  BY <2>1 DEF Forget
  <2>3. t = [u EXCEPT !.stored = StoredForm(u)]  BY <2>2 DEF Store
  <2>4. \A e \in Evses : e \in last <=> HasId(s, e, id)
    <3>1. \A e \in Evses : e \in at <=> HasId(s, e, id)
      BY DEF EvseOf, ReservedEvses, HasId
    <3>2. at \subseteq Evses /\ Evses \subseteq Nat
      BY ReservationAssumption DEF ReservationAssumption, EvseOf, ReservedEvses
    <3> HIDE DEF at
    <3>3. \A e, f \in at : e = f /\ e <= e
      <4>1. \A e, f \in Evses : HasId(s, e, id) /\ HasId(s, f, id) => e = f
        BY DEF HandlerOK, BookOK, HasId
      <4>2. \A e \in at : e <= e  BY <3>2
      <4> QED  BY <3>1, <3>2, <4>1, <4>2
    <3> QED  BY <3>1, <3>3
  <2>5. t.em = s.em /\ t.events = s.events /\ t.evse_reservations = b
    <3> HIDE DEF b, g
    <3> QED  BY <2>3 DEF Handlers
  <2> HIDE DEF last, at, u
  <2> QED  BY <2>4, <2>5
<1>2. CASE id \notin s.timers
  <2>1. t = s  BY <1>2 DEF Cancel
  <2>2. \A e \in Evses : ~HasId(s, e, id)
    BY <1>2 DEF HandlerOK, SpecificIds, HasId
  <2> QED  BY <2>1, <2>2
<1> QED  BY <1>1, <1>2

LEMMA AddIs ==
    ASSUME NEW x, NEW y, NEW s \in Handlers(x, y), NEW r \in Requests, NEW t, t = Add(s, r)
    PROVE  /\ t.em = s.em /\ t.events = s.events
           /\ \A e \in Evses : t.evse_reservations[e] =
                 IF e = r.evse THEN r ELSE s.evse_reservations[e]
<1>0. r.evse # None => r.evse \in Evses
  BY ReservationAssumption DEF ReservationAssumption
<1>1. None \notin Evses  BY ReservationAssumption DEF ReservationAssumption
<1>2. PICK timed : timed = [s EXCEPT !.timers = @ \union {r.id}, !.armed = @ \union {r.id}]
  OBVIOUS
<1>3. /\ DOMAIN timed = DOMAIN s /\ timed.em = s.em /\ timed.events = s.events
      /\ timed.evse_reservations = s.evse_reservations
  BY <1>2 DEF Handlers
<1>4. DOMAIN s = {"evse_reservations", "global_reservations", "timers", "armed", "restored",
                  "last_reserved", "stored", "seen", "em", "events"}
  BY DEF Handlers
<1>5. CASE r.evse # None
  <2>1. PICK b : b = [s.evse_reservations EXCEPT ![r.evse] = r]  OBVIOUS
  <2>2. PICK u : u = [timed EXCEPT !.evse_reservations = b]  OBVIOUS
  <2>3. PICK q : t = [u EXCEPT !.stored = q]
    BY <1>2, <1>3, <1>5, <2>1, <2>2 DEF Add, Store
  <2>4. t.em = s.em /\ t.events = s.events /\ t.evse_reservations = b
    BY <1>3, <1>4, <2>2, <2>3
  <2>5. s.evse_reservations \in EvseBooks  BY DEF Handlers
  <2> QED  BY <1>0, <1>5, <2>1, <2>4, <2>5 DEF EvseBooks
<1>6. CASE r.evse = None
  <2>1. PICK g : g = Append(s.global_reservations, r)  OBVIOUS
  <2>2. PICK u : u = [timed EXCEPT !.global_reservations = g]  OBVIOUS
  <2>21. timed.global_reservations = s.global_reservations  BY <1>2 DEF Handlers
  <2>3. PICK q : t = [u EXCEPT !.stored = q]
    BY <1>2, <1>6, <2>1, <2>2, <2>21 DEF Add, Store
  <2>4. /\ t.em = s.em /\ t.events = s.events
        /\ t.evse_reservations = s.evse_reservations
    BY <1>3, <1>4, <2>2, <2>3
  <2> QED  BY <1>1, <1>6, <2>4
<1> QED  BY <1>5, <1>6
-----------------------------------------------------------------------------
(* The operations shrink the book. *)

LEMMA ManagerIs ==
    ASSUME NEW x, NEW y, NEW s \in Handlers(x, y), NEW e \in Evses
    PROVE  s.em[e] \in EmRecords
<1>1. s.em \in Managers  BY DEF Handlers
<1> QED  BY <1>1 DEF Managers

LEMMA OnlyReserved ==
    ASSUME NEW m \in EmRecords, NEW id, NEW n, n = [m EXCEPT !.reserved = id]
    PROVE  /\ n.reserved = id /\ n.enabled = m.enabled /\ n.plugged = m.plugged
           /\ n.authorized = m.authorized /\ n.transaction = m.transaction
BY DEF EmRecords

\* An EvseManager that changes with the book left alone.
LEMMA ShrinksFrom ==
    ASSUME NEW x, NEW y, NEW s \in Handlers(x, y), NEW t \in Handlers(x, y),
           SameBook(s, t), NEW e \in Evses,
           \/ t.em[e] = s.em[e]
           \/ /\ t.em[e].reserved \in {None, "Global"}
              /\ t.em[e] = [s.em[e] EXCEPT !.reserved = t.em[e].reserved]
              /\ s.em[e].plugged => t.em[e].reserved = None
              /\ s.evse_reservations[e] = None \/ "ReservationEnd" \in Range(t.events[e]),
           Range(s.events[e]) \subseteq Range(t.events[e]),
           Range(t.events[e]) \subseteq Range(s.events[e]) \union {"ReservationEnd"}
    PROVE  ShrinksAt(s, t, e)
<1>1. /\ t.seen = s.seen /\ t.restored = s.restored
      /\ t.evse_reservations = s.evse_reservations
  BY DEF SameBook, Handlers
<1>2. s.em[e] \in EmRecords  BY ManagerIs
<1>3. PICK m \in EmRecords : m = s.em[e]  BY <1>2
<1>4. PICK n : n = t.em[e]  OBVIOUS
<1>5. /\ n.enabled = m.enabled /\ n.plugged = m.plugged
      /\ n.authorized = m.authorized /\ n.transaction = m.transaction
  <2>1. n = m \/ n = [m EXCEPT !.reserved = n.reserved]  BY <1>3, <1>4
  <2> QED  BY <2>1, OnlyReserved
<1>6. \/ n.reserved = m.reserved
      \/ /\ n.reserved \in {None, "Global"} /\ (m.plugged => n.reserved = None)
         /\ t.evse_reservations[e] = None \/ Told(t, e, "ReservationEnd")
  BY <1>1, <1>3, <1>4 DEF Told
<1> QED  BY <1>1, <1>3, <1>4, <1>5, <1>6 DEF ShrinksAt

LEMMA EmCancelShrinks ==
    ASSUME NEW x, NEW y, NEW s \in Handlers(x, y), NEW es, NEW t, t = EmCancel(s, es)
    PROVE  Shrinks(s, t) /\ \A e \in Evses \intersect es : t.em[e].reserved = None
<1>1. t \in Handlers(x, y) /\ SameBook(s, t)  BY EmCancelKeeps
<1>2. ASSUME NEW e \in Evses
      PROVE  ShrinksAt(s, t, e) /\ (e \in es => t.em[e].reserved = None)
  <2>1. s.em[e] \in EmRecords  BY ManagerIs
  <2>2. CASE t.em[e] = s.em[e] /\ t.events[e] = s.events[e]
             /\ (e \in es => s.em[e].reserved = None)
    BY <1>1, <2>2, ShrinksFrom
  <2>3. CASE /\ t.em[e] = [s.em[e] EXCEPT !.reserved = None]
             /\ Range(t.events[e]) = Range(s.events[e]) \union {"ReservationEnd"}
    <3>1. t.em[e].reserved = None  BY <2>1, <2>3, OnlyReserved
    <3> QED  BY <1>1, <2>3, <3>1, ShrinksFrom
  <2> QED  BY <2>2, <2>3, EmCancelIs
<1> QED  BY <1>1, <1>2 DEF Shrinks, SameBook

LEMMA UpdateShrinks ==
    ASSUME NEW x, NEW y, NEW s \in Handlers(x, y), NEW t, t = Update(s)
    PROVE  Shrinks(s, t)
<1> DEFINE available == {e \in Evses : Free(s, e)} \ ReservedEvses(s)
           reserved  == GloballyReserved(s, available)
           release   == (available \intersect s.last_reserved) \ reserved
           new       == reserved \ s.last_reserved
           u == EmCancel(s, release)
           w == EmReserve(u, new, "Global")
<1>1. reserved \subseteq available
  <2> HIDE DEF available
  <2> QED  BY DEF GloballyReserved
<1>2. \A e \in Evses : e \in available => s.evse_reservations[e] = None
  BY DEF ReservedEvses
<1>3. reserved \subseteq Evses /\ \A e \in Evses : e \in new => s.evse_reservations[e] = None
  <2>1. available \subseteq Evses  OBVIOUS
  <2> HIDE DEF available, reserved
  <2> QED  BY <1>1, <1>2, <2>1
<1>4. t = [w EXCEPT !.last_reserved = reserved]  BY DEF Update
<1> HIDE DEF available, reserved, release, new
<1>5. u \in Handlers(x, y) /\ SameBook(s, u)  BY EmCancelKeeps
<1>6. Shrinks(s, u)  BY EmCancelShrinks
<1> HIDE DEF u
<1>70. PICK id \in Ids \union {"Global"} : id = "Global"  OBVIOUS
<1>71. w = EmReserve(u, new, id)  BY <1>70
<1> HIDE DEF w
<1>7. w \in Handlers(x, y) /\ SameBook(u, w)  BY <1>5, <1>71, EmReserveKeeps
<1>8. ASSUME NEW e \in Evses PROVE ShrinksAt(u, w, e)
  <2>1. /\ w.events = u.events
        /\ w.em[e] = IF e \in new /\ EmAccepts(u.em[e], id)
             THEN [u.em[e] EXCEPT !.reserved = id] ELSE u.em[e]
    BY <1>5, <1>71, EmReserveIs
  <2>2. CASE e \in new /\ EmAccepts(u.em[e], id)
    <3>1. w.em[e] = [u.em[e] EXCEPT !.reserved = id]  BY <2>1, <2>2
    <3>2. u.em[e] \in EmRecords  BY <1>5, ManagerIs
    <3>3. w.em[e].reserved = id  BY <3>1, <3>2, OnlyReserved
    <3>4. ~u.em[e].plugged  BY <2>2 DEF EmAccepts
    <3>5. u.evse_reservations[e] = None  BY <1>3, <1>5, <2>2 DEF SameBook
    <3> QED  BY <1>5, <1>7, <1>70, <2>1, <3>1, <3>3, <3>4, <3>5, ShrinksFrom
  <2>3. CASE ~(e \in new /\ EmAccepts(u.em[e], id))
    <3>1. w.em[e] = u.em[e]  BY <2>1, <2>3
    <3> QED  BY <1>5, <1>7, <2>1, <3>1, ShrinksFrom
  <2> QED  BY <2>2, <2>3
<1>9. Shrinks(u, w)  BY <1>7, <1>8 DEF Shrinks, SameBook
<1>10. Shrinks(w, t)
  <2>1. /\ t.timers = w.timers /\ t.seen = w.seen /\ t.restored = w.restored
        /\ t.evse_reservations = w.evse_reservations
        /\ t.em = w.em /\ t.events = w.events
    BY <1>4, <1>7 DEF Handlers
  <2> QED  BY <2>1 DEF Shrinks, ShrinksAt
<1> QED  BY <1>6, <1>9, <1>10, ShrinksMore

\* The EvseManagers that are released have no reservation of an id.
LEMMA ReleaseShrinks ==
    ASSUME NEW x, NEW y, NEW s \in Handlers(x, y), NEW es, NEW t, t = Release(s, es)
    PROVE  Shrinks(s, t) /\ \A e \in Evses \intersect es : t.em[e].reserved \notin Ids
<1>1. PICK u : u = EmCancel(s, es)  OBVIOUS
<1>2. u \in Handlers(x, y)  BY <1>1, EmCancelKeeps
<1>3. Shrinks(s, u) /\ \A e \in Evses \intersect es : u.em[e].reserved = None
  BY <1>1, EmCancelShrinks
<1>4. t = Update(u)  BY <1>1 DEF Release
<1>5. Shrinks(u, t)  BY <1>2, <1>4, UpdateShrinks
<1>6. ASSUME NEW e \in Evses \intersect es PROVE t.em[e].reserved \notin Ids
  <2>1. ShrinksAt(u, t, e)  BY <1>5 DEF Shrinks
  <2> QED  BY <1>3, <2>1, IdsApart DEF ShrinksAt
<1> QED  BY <1>3, <1>5, <1>6, ShrinksMore

\* The reservation is gone from the book and from its EvseManager.
LEMMA CancelAndTellShrinks ==
    ASSUME NEW x, NEW y, NEW s \in Handlers(x, y), HandlerOK(s), NEW id, NEW t,
           t = CancelAndTell(s, id)
    PROVE  Shrinks(s, t) /\ \A e \in Evses : ~HasId(t, e, id)
<1>1. CASE id \in s.timers
  <2>1. PICK u : u = Cancel(s, id)  OBVIOUS
  <2>2. PICK es : es = EvseOf(s, id)  OBVIOUS
  <2>3. t = Release(u, es)  BY <1>1, <2>1, <2>2 DEF CancelAndTell, Cancel
  <2>4. u \in Handlers(x, y) /\ u.timers = s.timers \ {id}  BY <2>1, CancelKeeps
  <2>5. /\ u.em = s.em /\ u.events = s.events
        /\ \A e \in Evses : u.evse_reservations[e] =
              IF HasId(s, e, id) THEN None ELSE s.evse_reservations[e]
    BY <2>1, CancelIs
  <2>6. Shrinks(u, t) /\ \A e \in Evses \intersect es : t.em[e].reserved \notin Ids
    BY <2>3, <2>4, ReleaseShrinks
  <2>7. SameBook(u, t)  BY <2>3, <2>4, ReleaseKeeps
  <2>8. u.seen = s.seen /\ u.restored = s.restored  BY <2>4 DEF Handlers
  <2>9. ASSUME NEW e \in Evses PROVE ShrinksAt(s, t, e) /\ ~HasId(t, e, id)
    <3>1. ShrinksAt(u, t, e)  BY <2>6 DEF Shrinks
    <3>2. t.timers = s.timers \ {id} /\ t.evse_reservations = u.evse_reservations
      BY <2>4, <2>7 DEF SameBook
    <3>3. CASE HasId(s, e, id)
      <4>1. e \in es  BY <2>2, <3>3 DEF EvseOf, ReservedEvses, HasId
      <4>2. t.evse_reservations[e] = None /\ t.em[e].reserved \notin Ids
        BY <2>5, <2>6, <3>2, <3>3, <4>1
      <4>3. s.evse_reservations[e].id \notin t.timers  BY <3>2, <3>3 DEF HasId
      <4> QED  BY <2>5, <2>8, <3>1, <4>2, <4>3 DEF ShrinksAt, HasId
    <3>4. CASE ~HasId(s, e, id)
      <4>1. u.evse_reservations[e] = s.evse_reservations[e]  BY <2>5, <3>4
      <4> QED  BY <2>5, <2>8, <3>1, <3>2, <3>4, <4>1 DEF ShrinksAt, HasId
    <3> QED  BY <3>3, <3>4
  <2> QED  BY <2>4, <2>7, <2>9 DEF Shrinks, SameBook
<1>2. CASE id \notin s.timers
  <2>1. t = s  BY <1>2 DEF CancelAndTell
  <2>2. \A e \in Evses : ~HasId(s, e, id)
    BY <1>2 DEF HandlerOK, SpecificIds, HasId
  <2> QED  BY <2>1, <2>2, ShrinksSelf
<1> QED  BY <1>1, <1>2
-----------------------------------------------------------------------------
(* check_reservations_and_cancel_if_not_possible, and its callers *)

LEMMA CancelImpossibleKeeps ==
    ASSUME NEW x, NEW y, NEW s \in Handlers(x, y), HandlerOK(s), NEW u,
           u = CancelImpossible(s)
    PROVE  /\ u \in Handlers(x, y) /\ Fewer(s, u) /\ Shrinks(s, u)
           /\ Range(u.global_reservations) \subseteq Range(Kept(s))
<1> DEFINE t == s.global_reservations
           n == Len(t)
           kept == Range(Kept(s))
           Pass(w, r) == IF r \in kept THEN w ELSE CancelAndTell(w, r.id)
           C == {w \in Handlers(x, y) : Fewer(s, w) /\ Shrinks(s, w)}
           step == [w \in C |-> [r \in Requests |-> Pass(w, r)]]
           iter == CHOOSE g : g = [d \in SUBSET DOMAIN t |->
                      IF d = {} THEN s ELSE Pass(g[d \ {Max(d)}], t[Max(d)])]
           K == [i \in Nat |-> {w \in C : \A j \in 1..i : j \in 1..n =>
                                             t[j] \in kept \/ t[j].id \notin w.timers}]
<1>1. u = iter[DOMAIN t]
  BY DEF CancelImpossible, FoldLeft, MapThenFoldSet
<1> HIDE DEF kept
<1>2. n \in Nat /\ DOMAIN t = 1..n /\ t \in [1..n -> Requests]
  <2>1. t \in Seq(Requests)  BY DEF Handlers
  <2> QED  BY <2>1
<1>3. ASSUME NEW w \in C, NEW r \in Requests
      PROVE  /\ Pass(w, r) \in C /\ Pass(w, r).timers \subseteq w.timers
             /\ r \in kept \/ r.id \notin Pass(w, r).timers
  <2>1. w \in Handlers(x, y) /\ Fewer(s, w) /\ Shrinks(s, w) /\ HandlerOK(w)
    BY DEF Fewer
  <2>2. CASE r \in kept  BY <2>2
  <2>3. CASE r \notin kept
    <3>1. PICK v : v = CancelAndTell(w, r.id)  OBVIOUS
    <3>2. v \in Handlers(x, y) /\ Fewer(w, v) /\ r.id \notin v.timers
      BY <2>1, <3>1, CancelAndTellKeeps
    <3>21. v.timers \subseteq w.timers  BY <3>2 DEF Fewer
    <3>3. Shrinks(w, v)  BY <2>1, <3>1, CancelAndTellShrinks
    <3>4. Fewer(s, v) /\ Shrinks(s, v)
      BY <2>1, <3>2, <3>3, FewerStill, ShrinksMore
    <3> QED  BY <2>3, <3>1, <3>2, <3>21, <3>4
  <2> QED  BY <2>2, <2>3
<1>4. s \in C  BY FewerSelf, ShrinksSelf
<1> HIDE DEF Pass, C
<1>5. step \in [C -> [Requests -> C]]  BY <1>3
<1>6. iter = [d \in SUBSET DOMAIN t |->
                IF d = {} THEN s ELSE Pass(iter[d \ {Max(d)}], t[Max(d)])]
  <2>1. PICK g \in [SUBSET (1..n) -> C] : Folding(g, step, s, t, n)
    <3> HIDE DEF step, n, t
    <3> QED  BY <1>2, <1>4, <1>5, FoldSolution
  <2>2. \A d \in SUBSET (1..n) : d # {} => Max(d) \in d  BY <1>2, MaxInside
  <2>3. \A d \in SUBSET (1..n) : d # {} =>
           step[g[d \ {Max(d)}]][t[Max(d)]] = Pass(g[d \ {Max(d)}], t[Max(d)])
    <3> SUFFICES ASSUME NEW d \in SUBSET (1..n), d # {}
                 PROVE  step[g[d \ {Max(d)}]][t[Max(d)]]
                          = Pass(g[d \ {Max(d)}], t[Max(d)])
      OBVIOUS
    <3>1. d \ {Max(d)} \in SUBSET (1..n)  OBVIOUS
    <3>2. g[d \ {Max(d)}] \in C  BY <3>1
    <3>3. t[Max(d)] \in Requests  BY <1>2, <2>2
    <3> QED  BY <3>2, <3>3
  <2> HIDE DEF step
  <2>4. g = [d \in SUBSET DOMAIN t |->
                IF d = {} THEN s ELSE Pass(g[d \ {Max(d)}], t[Max(d)])]
    BY <1>2, <2>1, <2>3 DEF Folding
  <2> QED  BY <2>4
<1> HIDE DEF iter, step, t
<1>7. iter[{}] \in K[0]
  <2>1. {} \in SUBSET DOMAIN t  OBVIOUS
  <2>2. iter[{}] = s  BY <1>6, <2>1
  <2>3. 1..0 = {}  OBVIOUS
  <2> QED  BY <1>4, <2>2, <2>3
<1>8. ASSUME NEW i \in 1..n, iter[1..(i - 1)] \in K[i - 1]
      PROVE  iter[1..i] \in K[i]
  <2>0. i \in Nat /\ i > 0 /\ i - 1 \in Nat  BY <1>2
  <2>1. Max(1..i) = i /\ (1..i) \ {i} = 1..(i - 1) /\ 1..i # {}
    BY <2>0, BeforeLast
  <2>2. 1..i \in SUBSET DOMAIN t  BY <1>2
  <2>3. iter[1..i] = Pass(iter[(1..i) \ {Max(1..i)}], t[Max(1..i)])
    BY <1>6, <2>1, <2>2
  <2>4. t[i] \in Requests  BY <1>2
  <2>5. PICK w \in C : /\ w = iter[1..(i - 1)]
                       /\ \A j \in 1..(i - 1) : j \in 1..n =>
                             t[j] \in kept \/ t[j].id \notin w.timers
    BY <1>8, <2>0
  <2>6. PICK v : v = Pass(w, t[i])  OBVIOUS
  <2>7. /\ v \in C /\ v.timers \subseteq w.timers
        /\ t[i] \in kept \/ t[i].id \notin v.timers
    BY <1>3, <2>4, <2>6
  <2>8. \A j \in 1..i : j \in 1..n => t[j] \in kept \/ t[j].id \notin v.timers
    <3> SUFFICES ASSUME NEW j \in 1..i, j \in 1..n
                 PROVE  t[j] \in kept \/ t[j].id \notin v.timers
      OBVIOUS
    <3>1. CASE j = i  BY <2>7, <3>1
    <3>2. CASE j # i
      <4>1. j \in 1..(i - 1)  BY <1>2, <3>2
      <4> QED  BY <2>5, <2>7, <4>1
    <3> QED  BY <3>1, <3>2
  <2>9. iter[1..i] = v  BY <2>1, <2>3, <2>5, <2>6
  <2> QED  BY <2>0, <2>7, <2>8, <2>9
<1>9. iter[1..n] \in K[n]
  <2> HIDE DEF K, n
  <2> QED  BY <1>2, <1>7, <1>8, FoldWalk
<1>10. PICK w \in C : /\ w = iter[1..n]
                      /\ \A j \in 1..n : t[j] \in kept \/ t[j].id \notin w.timers
  BY <1>2, <1>9
<1>11. u = w  BY <1>1, <1>2, <1>10
<1>12. u \in Handlers(x, y) /\ Fewer(s, u) /\ Shrinks(s, u)  BY <1>11 DEF C
<1>13. ASSUME NEW r \in Range(u.global_reservations) PROVE r \in kept
  <2>1. Range(u.global_reservations) \subseteq Range(t)  BY <1>12 DEF Fewer, Less, t
  <2>2. PICK j \in 1..n : t[j] = r  BY <1>2, <2>1 DEF Range
  <2>3. r.id \in u.timers  BY <1>12 DEF Fewer, HandlerOK, ListIds, Range
  <2> QED  BY <1>10, <1>11, <2>2, <2>3
<1> QED  BY <1>12, <1>13 DEF kept

\* on_connector_state_changed
LEMMA OnConnectorChangeKeeps ==
    ASSUME NEW x, NEW y, NEW s \in Handlers(x, y), HandlerOK(s), NEW e, NEW t,
           t = OnConnectorChange(s, e)
    PROVE  t \in Handlers(x, y) /\ Fewer(s, t) /\ Shrinks(s, t)
<1>1. t = s \/ t = CancelAndTell(s, s.evse_reservations[e].id) \/ t = CancelImpossible(s)
  BY DEF OnConnectorChange
<1>2. CASE t = s  BY <1>2, FewerSelf, ShrinksSelf
<1>3. CASE t = CancelAndTell(s, s.evse_reservations[e].id)
  BY <1>3, CancelAndTellKeeps, CancelAndTellShrinks
<1>4. CASE t = CancelImpossible(s)  BY <1>4, CancelImpossibleKeeps
<1> QED  BY <1>1, <1>2, <1>3, <1>4

\* The reservations in force are the ones with a timer.
LEMMA InForceIs ==
    ASSUME NEW s, HandlerOK(s)
    PROVE  InForce(s) = s.timers
<1>1. PICK a : a = s.evse_reservations  OBVIOUS
<1>2. PICK g : g = s.global_reservations  OBVIOUS
<1>3. InForce(s) = {r.id : r \in ({a[e] : e \in Evses} \ {None}) \union Range(g)}
  BY <1>1, <1>2 DEF InForce
<1>4. s.timers = SpecificIds(a) \union ListIds(g)  BY <1>1, <1>2 DEF HandlerOK
<1> QED  BY <1>3, <1>4 DEF SpecificIds, ListIds, Range
-----------------------------------------------------------------------------
(* A step of the handler. *)

\* The history keeps what was refused while loading as long as the store, or
\* the list that is being loaded, has it.
Remembered ==
    /\ hist.stale \intersect (ListIds(st'.stored) \union ListIds(loading)) \subseteq hist'.stale
    /\ past \subseteq past'

\* A step that ends reservations, or none, and the ones that loading refuses.
LEMMA FewerStep ==
    ASSUME RInv, Fewer(st, st'), CommandsOK', Remembered, NEW new,
           over' = over \union (InForce(st) \ InForce(st')) \union new,
           new \intersect st.timers = {}, new \intersect ListIds(loading') = {},
           new \subseteq hist'.stale \union past',
           expired' \in Seq(Ids), st'.timers \ st'.armed \subseteq Range(expired'),
           loading' \in Seq(Requests), Unique(loading'),
           ListIds(loading') \subseteq ListIds(loading),
           phase' # "loading" => loading' = <<>>,
           phase' = "booting" => phase = "booting"
    PROVE  RInv'
<1>1. HandlerOK(st')  BY DEF Fewer
<1>2. InForce(st) = st.timers /\ InForce(st') = st'.timers
  BY <1>1, InForceIs DEF RInv
<1>3. /\ st'.timers \subseteq st.timers
      /\ \/ st'.timers = st.timers /\ ListIds(st'.stored) = ListIds(st.stored)
         \/ ListIds(st'.stored) = st'.timers
  BY DEF Fewer
<1>4. over' = over \union (st.timers \ st'.timers) \union new  BY <1>2
<1>5. /\ over \intersect st.timers \subseteq hist.stale
      /\ over \intersect (ListIds(st.stored) \union ListIds(loading))
            \subseteq hist.stale \union past
      /\ st.timers \subseteq ListIds(st.stored)
      /\ ListIds(loading) \intersect st.timers = {}
  BY DEF RInv, Ended, LoadingOK
<1>6. st'.timers \subseteq ListIds(st'.stored)  BY <1>3, <1>5
<1>7. over' \intersect st'.timers \subseteq hist'.stale
  <2> SUFFICES ASSUME NEW x \in over', x \in st'.timers PROVE x \in hist'.stale
    OBVIOUS
  <2>1. x \in over /\ x \in st.timers  BY <1>3, <1>4
  <2> QED  BY <1>5, <1>6, <2>1 DEF Remembered
<1>8. over' \intersect (ListIds(st'.stored) \union ListIds(loading'))
        \subseteq hist'.stale \union past'
  <2> SUFFICES ASSUME NEW x \in over', x \in ListIds(st'.stored) \union ListIds(loading'),
                      x \notin st'.timers, x \notin new
               PROVE  x \in hist'.stale \union past'
    BY <1>7
  <2>1. x \in ListIds(loading') \/ (st'.timers = st.timers /\ x \in ListIds(st.stored))
    BY <1>3
  <2>2. x \notin st.timers  BY <1>5, <2>1
  <2>3. x \in over  BY <1>4, <2>2
  <2>4. x \in hist.stale \union past  BY <1>5, <2>1, <2>3
  <2> QED  BY <2>4 DEF Remembered
<1>9. Ended'  BY <1>6, <1>7, <1>8 DEF Ended
<1>10. LoadingOK'
  BY <1>3 DEF RInv, LoadingOK
<1> QED  BY <1>1, <1>9, <1>10 DEF RInv

\* One in a phase that stays, with the timers and the loading left alone.
LEMMA QuietStep ==
    ASSUME RInv, Fewer(st, st'), CommandsOK', Remembered,
           over' = over \union (InForce(st) \ InForce(st')),
           UNCHANGED <<expired, loading, phase>>
    PROVE  RInv'
<1>1. st'.timers \ st'.armed \subseteq Range(expired')  BY DEF RInv, Fewer
<1>2. PICK new : new = {}  OBVIOUS
<1>3. /\ over' = over \union (InForce(st) \ InForce(st')) \union new
      /\ new \intersect st.timers = {} /\ new \intersect ListIds(loading') = {}
      /\ new \subseteq hist'.stale \union past'
  BY <1>2
<1> QED  BY <1>1, <1>3, FewerStep DEF RInv, LoadingOK

LEMMA StepFewer ==
    ASSUME RInv, NEW s, Fewer(st, s), NEW es, Step(s) \/ Refusal(s, es), CommandsOK',
           UNCHANGED <<past, expired, loading, phase>>
    PROVE  RInv'
<1>1. /\ st' = s /\ over' = over \union (InForce(st) \ InForce(st'))
      /\ \/ hist' = History(s, hist.stale, hist.lost)
         \/ hist' = History(s, hist.stale, hist.lost \union es)
  BY DEF Step, Refusal
<1>2. Remembered  BY <1>1 DEF History, Remembered
<1> QED  BY <1>1, <1>2, QuietStep

\* Commands that are not touched stay in order.
LEMMA CommandsStay ==
    ASSUME CommandsOK, UNCHANGED <<place, cancel, apply, phase>>
    PROVE  CommandsOK'
BY DEF CommandsOK

\* The handler as it is.
LEMMA Now ==
    ASSUME RInv
    PROVE  st \in Handlers(st.seen, st.restored) /\ HandlerOK(st) /\ CommandsOK
BY DEF RInv, HandlerOK
-----------------------------------------------------------------------------
(* What else happens to the handler's state: the book stays. *)

LEMMA TellKeeps ==
    ASSUME NEW x, NEW y, NEW s \in Handlers(x, y), NEW e \in Evses,
           NEW es \in Seq(EventNames), NEW t, t = Tell(s, e, es)
    PROVE  t \in Handlers(x, y) /\ SameBook(s, t)
<1> DEFINE q == [s.events EXCEPT ![e] = @ \o es]
<1>1. s.events \in EventQueues  BY DEF Handlers
<1>2. s.events[e] \o es \in Seq(EventNames)
  <2>1. s.events[e] \in Seq(EventNames)  BY <1>1 DEF EventQueues
  <2> QED  BY <2>1
<1>3. q \in EventQueues  BY <1>1, <1>2 DEF EventQueues
<1>4. t = [s EXCEPT !.events = q]  BY DEF Tell
<1> HIDE DEF q
<1> QED  BY <1>3, <1>4 DEF Handlers, SameBook

LEMMA ManagerKeeps ==
    ASSUME NEW x, NEW y, NEW s \in Handlers(x, y), NEW e \in Evses,
           NEW v \in EmRecords, NEW t, t = [s EXCEPT !.em[e] = v]
    PROVE  t \in Handlers(x, y) /\ SameBook(s, t)
<1> DEFINE m == [s.em EXCEPT ![e] = v]
<1>1. s.em \in Managers  BY DEF Handlers
<1>2. m \in Managers  BY <1>1 DEF Managers
<1>3. t = [s EXCEPT !.em = m]  OBVIOUS
<1> HIDE DEF m
<1> QED  BY <1>2, <1>3 DEF Handlers, SameBook

LEMMA RestoredKeeps ==
    ASSUME NEW x, NEW y, NEW s \in Handlers(x, y), NEW z, NEW t,
           t = [s EXCEPT !.restored = z]
    PROVE  t \in Handlers(x, z) /\ SameBook(s, t)
BY DEF Handlers, SameBook

\* call_reserved
LEMMA CallReservedKeeps ==
    ASSUME NEW x, NEW y, st \in Handlers(x, y), NEW e, NEW id \in Ids, NEW t,
           t = CallReserved(e, id)
    PROVE  t \in Handlers(x, y) /\ SameBook(st, t)
<1> DEFINE es == Evses \intersect {e}
           u == EmReserve(st, es, id)
<1>1. t = Update(u)  BY DEF CallReserved
<1> HIDE DEF es
<1>2. u \in Handlers(x, y) /\ SameBook(st, u)  BY EmReserveKeeps
<1> HIDE DEF u
<1>3. t \in Handlers(x, y) /\ SameBook(u, t)  BY <1>1, <1>2, UpdateKeeps
<1> QED  BY <1>2, <1>3 DEF SameBook
-----------------------------------------------------------------------------
(* The steps. *)

LEMMA PlaceStartsKeeps ==
    ASSUME RInv, NEW r \in Requests, PlaceStarts(r)
    PROVE  RInv'
<1>1. CommandsOK'  BY Now DEF PlaceStarts, CommandsOK
<1>2. st' = st /\ over' = over /\ hist' = hist /\ UNCHANGED <<past, expired, loading, phase>>
  BY DEF PlaceStarts
<1>3. Fewer(st, st')  BY <1>2, Now, FewerSelf
<1>4. over' = over \union (InForce(st) \ InForce(st')) /\ Remembered
  BY <1>2 DEF Remembered
<1> QED  BY <1>1, <1>2, <1>3, <1>4, QuietStep

LEMMA PlaceMakesKeeps ==
    ASSUME RInv, PlaceMakes
    PROVE  RInv'
<1> DEFINE r == place.r
           t == Cancel(st, r.id)
           made == IF CanMake(t, r) THEN {r.id} ELSE {}
<1>0. /\ phase = "up" /\ r \in Requests /\ loading = <<>>
      /\ UNCHANGED <<expired, loading, phase, cancel, apply>>
  BY DEF PlaceMakes, RInv, CommandsOK, LoadingOK
<1>1. CommandsOK'
  <2>1. \E at \in {"made", "refused"} : place' = [place EXCEPT !.at = at]
    BY DEF PlaceMakes
  <2>2. /\ place'.at # "idle" => place'.r \in Requests
        /\ place' = [at |-> place'.at, r |-> place'.r, replaced |-> place'.replaced]
    BY <1>0, <2>1 DEF RInv, CommandsOK
  <2> QED  BY <1>0, <2>2, Now DEF CommandsOK
<1>2. /\ t \in Handlers(st.seen, st.restored) /\ Fewer(st, t)
      /\ t.timers = st.timers \ {r.id}
  BY Now, CancelKeeps
<1>3. \/ UNCHANGED <<st, past, over, hist>>
      \/ /\ st' = IF CanMake(t, r) THEN Add(t, r) ELSE t
         /\ over' = (over \union (InForce(st) \ InForce(st'))) \ made
         /\ hist' = History(st', hist.stale \ made, hist.lost)
         /\ past' = past \ made
  BY DEF PlaceMakes, Make
<1>4. CASE UNCHANGED <<st, past, over, hist>>
  <2>1. Fewer(st, st')  BY <1>4, Now, FewerSelf
  <2>2. over' = over \union (InForce(st) \ InForce(st')) /\ Remembered
    BY <1>4 DEF Remembered
  <2> QED  BY <1>0, <1>1, <2>1, <2>2, QuietStep
<1>5. CASE /\ st' = IF CanMake(t, r) THEN Add(t, r) ELSE t
           /\ over' = (over \union (InForce(st) \ InForce(st'))) \ made
           /\ hist' = History(st', hist.stale \ made, hist.lost)
           /\ past' = past \ made
  <2> HIDE DEF t, r
  <2>1. CASE ~CanMake(t, r)
    <3>1. /\ st' = t /\ over' = over \union (InForce(st) \ InForce(st'))
          /\ past' = past /\ hist' = History(st', hist.stale \ {}, hist.lost)
      BY <1>5, <2>1
    <3>2. Remembered  BY <3>1 DEF History, Remembered
    <3> QED  BY <1>0, <1>1, <1>2, <3>1, <3>2, QuietStep
  <2>2. CASE CanMake(t, r)
    <3>1. /\ st' = Add(t, r)
          /\ over' = (over \union (InForce(st) \ InForce(st'))) \ {r.id}
          /\ hist' = History(st', hist.stale \ {r.id}, hist.lost)
      BY <1>5, <2>2
    <3>2. r.evse # None => t.evse_reservations[r.evse] = None
      BY <2>2 DEF CanMake
    <3>3. HandlerOK(t) /\ r.id \notin t.timers  BY <1>2 DEF Fewer
    <3>4. /\ HandlerOK(st') /\ ListIds(st'.stored) = st'.timers
          /\ st'.timers = t.timers \union {r.id}
          /\ st'.timers \ st'.armed \subseteq t.timers \ t.armed
      BY <1>0, <1>2, <3>1, <3>2, <3>3, AddKeeps
    <3>5. InForce(st') = st'.timers /\ InForce(st) = st.timers
      BY <3>4, Now, InForceIs
    <3>6. over' = over \ {r.id}  BY <1>2, <3>1, <3>4, <3>5
    <3>7. st'.timers \ st'.armed \subseteq Range(expired')
      BY <1>0, <1>2, <3>4 DEF RInv, Fewer
    <3>8. LoadingOK' /\ ListIds(loading') = {}
      BY <1>0 DEF RInv, LoadingOK, ListIds
    <3>9. hist'.stale = (hist.stale \ {r.id}) \intersect st'.timers
      BY <1>0, <3>1, <3>4, <3>8 DEF History
    <3>10. Ended'
      BY <1>2, <3>4, <3>6, <3>8, <3>9 DEF RInv, Ended
    <3> QED  BY <1>0, <1>1, <3>4, <3>7, <3>8, <3>10 DEF RInv
  <2> QED  BY <2>1, <2>2
<1> QED  BY <1>3, <1>4, <1>5

LEMMA PlaceReleasesKeeps ==
    ASSUME RInv, PlaceReleases
    PROVE  RInv'
<1>1. CommandsOK'
  <2>1. place' = NotPlacing \/ place' = [place EXCEPT !.at = "reserving", !.replaced = @ \ Dropped]
    BY DEF PlaceReleases
  <2>2. /\ place'.at # "idle" => phase = "up" /\ place'.r \in Requests
        /\ place' = [at |-> place'.at, r |-> place'.r, replaced |-> place'.replaced]
    BY <2>1, Now DEF PlaceReleases, CommandsOK, NotPlacing
  <2> QED  BY <2>2, Now DEF PlaceReleases, CommandsOK
<1>2. PICK s : s = ReleaseReplaced(st)  OBVIOUS
<1>3. Fewer(st, s)
  <2>1. CASE Dropped = {}  BY <1>2, <2>1, Now, FewerSelf DEF ReleaseReplaced
  <2>2. CASE Dropped # {}
    <3>1. s = Release(st, Dropped)  BY <1>2, <2>2 DEF ReleaseReplaced
    <3> QED  BY <3>1, Now, ReleaseFewer
  <2> QED  BY <2>1, <2>2
<1>4. Step(s) /\ UNCHANGED <<past, expired, loading, phase>>  BY <1>2 DEF PlaceReleases
<1> QED  BY <1>1, <1>3, <1>4, StepFewer

LEMMA PlaceReservesKeeps ==
    ASSUME RInv, PlaceReserves
    PROVE  RInv'
<1>0. /\ phase = "up" /\ place.r \in Requests /\ place.r.id \in Ids
      /\ UNCHANGED <<past, expired, loading, phase, cancel, apply>>
  BY Now DEF PlaceReserves, CommandsOK, Ids
<1>1. CommandsOK'
  <2>1. place' = [place EXCEPT !.at = "checking"] \/ place' = [place EXCEPT !.at = "failing"]
    BY DEF PlaceReserves
  <2>2. /\ place'.at # "idle" => place'.r \in Requests
        /\ place' = [at |-> place'.at, r |-> place'.r, replaced |-> place'.replaced]
    BY <1>0, <2>1, Now DEF CommandsOK
  <2> QED  BY <1>0, <2>2, Now DEF CommandsOK
<1>2. CASE Step(CallReserved(place.r.evse, place.r.id))
  <2>1. PICK s : s = CallReserved(place.r.evse, place.r.id)  OBVIOUS
  <2>2. s \in Handlers(st.seen, st.restored) /\ SameBook(st, s)
    BY <1>0, <2>1, Now, CallReservedKeeps
  <2>3. Fewer(st, s)  BY <2>2, Now, BookKept
  <2> QED  BY <1>0, <1>1, <1>2, <2>1, <2>3, StepFewer
<1>3. CASE UNCHANGED <<st, over, hist>>
  <2>1. Fewer(st, st')  BY <1>3, Now, FewerSelf
  <2>2. over' = over \union (InForce(st) \ InForce(st')) /\ Remembered
    BY <1>0, <1>3 DEF Remembered
  <2> QED  BY <1>0, <1>1, <2>1, <2>2, QuietStep
<1> QED  BY <1>2, <1>3 DEF PlaceReserves

LEMMA PlaceFailsKeeps ==
    ASSUME RInv, PlaceFails
    PROVE  RInv'
<1>1. CommandsOK'  BY Now DEF PlaceFails, CommandsOK, NotPlacing
<1> DEFINE u == Cancel(st, place.r.id)
           gone == {e \in place.replaced : e \notin EvseOf(u, place.r.id)}
<1>2. PICK s : s = IF gone = {} THEN u ELSE Release(u, gone)  OBVIOUS
<1>3. /\ Refusal(s, EvseOf(st, place.r.id) \ gone)
      /\ UNCHANGED <<past, expired, loading, phase>>
  BY <1>2 DEF PlaceFails
<1>4. u \in Handlers(st.seen, st.restored) /\ Fewer(st, u)  BY Now, CancelKeeps
<1> HIDE DEF gone, u
<1>5. HandlerOK(u)  BY <1>4 DEF Fewer
<1>6. Fewer(st, s)
  <2>1. CASE s = u  BY <1>4, <2>1
  <2>2. CASE s = Release(u, gone)
    <3>1. Fewer(u, s)  BY <1>4, <1>5, <2>2, ReleaseFewer
    <3> QED  BY <1>4, <3>1, FewerStill
  <2> QED  BY <1>2, <2>1, <2>2
<1> QED  BY <1>1, <1>3, <1>6, StepFewer

LEMMA PlaceChecksKeeps ==
    ASSUME RInv, PlaceChecks
    PROVE  RInv'
<1>1. CommandsOK'  BY Now DEF PlaceChecks, CommandsOK, NotPlacing
<1>2. PICK s : s = IF place.r.evse # None /\ place.r.evse \notin EvseOf(st, place.r.id)
                   THEN EmCancel(st, {place.r.evse}) ELSE st
  OBVIOUS
<1>3. Step(s) /\ UNCHANGED <<past, expired, loading, phase>>  BY <1>2 DEF PlaceChecks
<1>4. Fewer(st, s)
  <2>1. CASE s = st  BY <2>1, Now, FewerSelf
  <2>2. CASE s = EmCancel(st, {place.r.evse})  BY <2>2, Now, EmCancelKeeps, BookKept
  <2> QED  BY <1>2, <2>1, <2>2
<1> QED  BY <1>1, <1>3, <1>4, StepFewer

LEMMA CancelStartsKeeps ==
    ASSUME RInv, NEW id \in Ids, CancelStarts(id)
    PROVE  RInv'
<1>1. CommandsOK'  BY Now DEF CancelStarts, CommandsOK
<1>2. PICK s : s = Cancel(st, id)  OBVIOUS
<1>3. Fewer(st, s)  BY <1>2, Now, CancelKeeps
<1>4. Step(s) /\ UNCHANGED <<past, expired, loading, phase>>  BY <1>2 DEF CancelStarts
<1> QED  BY <1>1, <1>3, <1>4, StepFewer

LEMMA CancelReleasesKeeps ==
    ASSUME RInv, CancelReleases
    PROVE  RInv'
<1>1. CommandsOK'  BY Now DEF CancelReleases, CommandsOK, NotCancelling
<1>2. PICK s : s = Release(st, cancel.evse)  OBVIOUS
<1>3. Fewer(st, s)  BY <1>2, Now, ReleaseFewer
<1>4. Step(s) /\ UNCHANGED <<past, expired, loading, phase>>  BY <1>2 DEF CancelReleases
<1> QED  BY <1>1, <1>3, <1>4, StepFewer

LEMMA TimerExpiresKeeps ==
    ASSUME RInv, NEW id \in Ids, TimerExpires(id)
    PROVE  RInv'
<1>1. CommandsOK'  BY Now, CommandsStay DEF TimerExpires
<1>2. st' = [st EXCEPT !.armed = st.armed \ {id}]  BY DEF TimerExpires
<1>3. /\ st' \in Handlers(st.seen, st.restored) /\ st'.armed = st.armed \ {id}
      /\ st'.timers = st.timers /\ st'.stored = st.stored
      /\ st'.evse_reservations = st.evse_reservations
      /\ st'.global_reservations = st.global_reservations
      /\ st'.seen = st.seen /\ st'.restored = st.restored
  BY <1>2, Now DEF Handlers
<1>4. HandlerOK(st')  BY <1>3, Now DEF HandlerOK
<1>5. expired' \in Seq(Ids) /\ Range(expired') = Range(expired) \union {id}
  <2>1. expired' = Append(expired, id) /\ expired \in Seq(Ids)
    BY DEF TimerExpires, RInv
  <2>2. /\ expired' \in Seq(Ids) /\ DOMAIN expired' = 1..(Len(expired) + 1)
        /\ DOMAIN expired = 1..Len(expired) /\ Len(expired) \in Nat
        /\ expired'[Len(expired) + 1] = id
        /\ \A i \in 1..Len(expired) : expired'[i] = expired[i]
    BY <2>1
  <2> QED  BY <2>2 DEF Range
<1>6. st'.timers \ st'.armed \subseteq Range(expired')
  BY <1>3, <1>5 DEF RInv
<1>7. LoadingOK' /\ Ended'
  <2>1. UNCHANGED <<over, hist, loading, phase>> /\ past \subseteq past'
    BY DEF TimerExpires
  <2> QED  BY <1>3, <2>1 DEF RInv, LoadingOK, Ended
<1> QED  BY <1>1, <1>4, <1>5, <1>6, <1>7 DEF RInv

LEMMA ExpiryRunsKeeps ==
    ASSUME RInv, ExpiryRuns
    PROVE  RInv'
<1>1. CommandsOK'  BY Now, CommandsStay DEF ExpiryRuns
<1>2. PICK id : id = Head(expired)  OBVIOUS
<1>3. PICK s : s = CancelAndTell(st, id)  OBVIOUS
<1>4. Fewer(st, s) /\ id \notin s.timers  BY <1>3, Now, CancelAndTellKeeps
<1>5. /\ st' = s /\ over' = over \union (InForce(st) \ InForce(st')) \union {}
      /\ Remembered
  BY <1>2, <1>3 DEF ExpiryRuns, Step, History, Remembered
<1>6. expired' \in Seq(Ids) /\ Range(expired) \subseteq Range(expired') \union {id}
  <2>1. expired' = Tail(expired) /\ expired \in Seq(Ids) /\ expired # <<>>
    BY DEF ExpiryRuns, RInv
  <2>2. /\ expired' \in Seq(Ids) /\ DOMAIN expired' = 1..(Len(expired) - 1)
        /\ DOMAIN expired = 1..Len(expired) /\ Len(expired) \in Nat
        /\ expired[1] = id
        /\ \A i \in 1..(Len(expired) - 1) : expired'[i] = expired[i + 1]
    BY <1>2, <2>1
  <2>3. ASSUME NEW i \in DOMAIN expired, i # 1 PROVE expired[i] \in Range(expired')
    <3>1. i - 1 \in DOMAIN expired' /\ (i - 1) + 1 = i  BY <2>2, <2>3
    <3>2. expired'[i - 1] = expired[i]  BY <2>2, <3>1
    <3> QED  BY <3>1, <3>2 DEF Range
  <2> QED  BY <2>2, <2>3 DEF Range
<1>7. st'.timers \ st'.armed \subseteq Range(expired')
  BY <1>4, <1>5, <1>6 DEF RInv, Fewer
<1>8. UNCHANGED <<loading, phase>>  BY DEF ExpiryRuns
<1>9. PICK new : new = {}  OBVIOUS
<1>90. /\ over' = over \union (InForce(st) \ InForce(st')) \union new
       /\ new \intersect st.timers = {} /\ new \intersect ListIds(loading') = {}
       /\ new \subseteq hist'.stale \union past'
  BY <1>5, <1>9
<1> QED  BY <1>1, <1>4, <1>5, <1>6, <1>7, <1>8, <1>90, FewerStep DEF RInv, LoadingOK
-----------------------------------------------------------------------------
(* Session events, and the reservations that were restored. *)

\* apply_restored_reservation starts only for a reservation in force.
LEMMA ApplyAtKeeps ==
    ASSUME RInv, NEW s, HandlerOK(s), NEW es, NEW boot, ApplyAt(s, es, boot),
           phase' = "up", UNCHANGED <<place, cancel>>,
           phase # "up" => place.at = "idle" /\ cancel.at = "idle"
    PROVE  CommandsOK'
<1> DEFINE new(e) == [at |-> "reserving", id |-> s.restored[e], boot |-> boot]
<1>1. apply' = [e \in Evses |->
                  IF e \in es /\ Restored(s, e) # {} THEN new(e) ELSE apply[e]]
  BY DEF ApplyAt
<1>2. ASSUME NEW e \in Evses, Restored(s, e) # {} PROVE s.restored[e] \in Ids
  <2>1. PICK f \in Evses : /\ s.evse_reservations[f] # None
                           /\ s.restored[e] = s.evse_reservations[f].id
    BY <1>2 DEF Restored, ReservedEvses
  <2>2. s.evse_reservations \in EvseBooks  BY DEF HandlerOK, BookOK
  <2>3. s.evse_reservations[f] \in Requests  BY <2>1, <2>2 DEF EvseBooks
  <2> QED  BY <2>1, <2>3 DEF Ids
<1>3. ASSUME NEW e \in Evses
      PROVE  /\ apply'[e] = [at |-> apply'[e].at, id |-> apply'[e].id, boot |-> apply'[e].boot]
             /\ apply'[e].at # "idle" => apply'[e].id \in Ids
  <2>1. CASE apply'[e] = new(e) /\ Restored(s, e) # {}  BY <1>2, <2>1
  <2>2. CASE apply'[e] = apply[e]  BY <2>2, Now DEF CommandsOK
  <2> HIDE DEF new
  <2> QED  BY <1>1, <2>1, <2>2
<1>4. apply' = [e \in Evses |-> apply'[e]]
  <2> HIDE DEF new
  <2> QED  BY <1>1
<1> QED  BY <1>3, <1>4, Now DEF CommandsOK

LEMMA TakenKeeps ==
    ASSUME NEW x, NEW y, NEW s \in Handlers(x, y), HandlerOK(s), NEW es, NEW t,
           t = Taken(s, es)
    PROVE  Fewer(s, t)
<1>1. PICK z : t = [s EXCEPT !.restored = z]  BY DEF Taken
<1> QED  BY <1>1, RestoredKeeps, BookKept

LEMMA HandleSessionEventKeeps ==
    ASSUME RInv, NEW e \in Evses, HandleSessionEvent(e)
    PROVE  RInv'
<1> DEFINE event == Head(st.events[e])
           q == [st.events EXCEPT ![e] = Tail(@)]
           z == [st.seen EXCEPT ![e] = AfterEvent(@, event)]
           s == [st EXCEPT !.events[e] = Tail(@), !.seen[e] = AfterEvent(@, event)]
<1>0. UNCHANGED <<past, expired, phase, loading, place, cancel>> /\ phase # "loading"
  BY DEF HandleSessionEvent
<1>1. q \in EventQueues
  <2>1. st.events \in EventQueues  BY Now DEF Handlers
  <2>2. st.events[e] \in Seq(EventNames) /\ st.events[e] # <<>>
    BY <2>1 DEF EventQueues, HandleSessionEvent
  <2>3. Tail(st.events[e]) \in Seq(EventNames)  BY <2>2
  <2> QED  BY <2>1, <2>3 DEF EventQueues
<1>2. s = [st EXCEPT !.events = q, !.seen = z]  OBVIOUS
<1> HIDE DEF q, z
<1>3. s \in Handlers(z, st.restored) /\ SameBook(st, s)
  <2> HIDE DEF s
  <2>1. st \in Handlers(st.seen, st.restored)  BY Now
  <2> QED  BY <1>1, <1>2, <2>1 DEF Handlers, SameBook
<1>4. \/ event = "SessionStarted" /\ Step(s) /\ UNCHANGED apply
      \/ /\ event = "ReservationEnd"
         /\ Step(IF s.evse_reservations[e] = None THEN s
                 ELSE CancelAndTell(s, s.evse_reservations[e].id))
         /\ UNCHANGED apply
      \/ /\ event \in {"TransactionStarted", "SessionFinished", "Disabled"}
         /\ Step(Update(OnConnectorChange(s, e))) /\ UNCHANGED apply
      \/ /\ event = "Enabled"
         /\ Step(Taken(Update(OnConnectorChange(s, e)), {e}))
         /\ ApplyAt(Update(OnConnectorChange(s, e)), {e}, FALSE)
  BY DEF HandleSessionEvent
<1> HIDE DEF s, event
<1>5. Fewer(st, s)  BY <1>3, Now, BookKept
<1>6. HandlerOK(s)  BY <1>5 DEF Fewer
<1>7. ASSUME NEW t, Fewer(s, t), Step(t), CommandsOK' PROVE RInv'
  <2>1. Fewer(st, t)  BY <1>5, <1>7, FewerStill
  <2> QED  BY <1>0, <1>7, <2>1, StepFewer
<1>8. UNCHANGED apply => CommandsOK'  BY <1>0, Now, CommandsStay
<1>9. CASE Step(s) /\ UNCHANGED apply
  BY <1>6, <1>7, <1>8, <1>9, FewerSelf
<1>10. CASE /\ Step(IF s.evse_reservations[e] = None THEN s
                    ELSE CancelAndTell(s, s.evse_reservations[e].id))
            /\ UNCHANGED apply
  <2>1. CASE s.evse_reservations[e] = None
    <3>1. Step(s)  BY <1>10, <2>1
    <3> QED  BY <1>6, <1>7, <1>8, <1>10, <3>1, FewerSelf
  <2>2. CASE s.evse_reservations[e] # None
    <3>1. PICK t : t = CancelAndTell(s, s.evse_reservations[e].id)  OBVIOUS
    <3>2. Step(t)  BY <1>10, <2>2, <3>1
    <3>3. Fewer(s, t)  BY <1>3, <1>6, <3>1, CancelAndTellKeeps
    <3> QED  BY <1>7, <1>8, <1>10, <3>2, <3>3
  <2> QED  BY <2>1, <2>2
<1>11. PICK t : t = Update(OnConnectorChange(s, e))  OBVIOUS
<1>12. t \in Handlers(z, st.restored) /\ Fewer(s, t)
  <2>1. PICK u : u = OnConnectorChange(s, e)  OBVIOUS
  <2>2. u \in Handlers(z, st.restored) /\ Fewer(s, u)
    BY <1>3, <1>6, <2>1, OnConnectorChangeKeeps
  <2>3. HandlerOK(u)  BY <2>2 DEF Fewer
  <2>4. t \in Handlers(z, st.restored) /\ SameBook(u, t)
    BY <1>11, <2>1, <2>2, UpdateKeeps
  <2>5. Fewer(u, t)  BY <2>3, <2>4, BookKept
  <2> QED  BY <2>2, <2>4, <2>5, FewerStill
<1>13. HandlerOK(t)  BY <1>12 DEF Fewer
<1>14. CASE Step(t) /\ UNCHANGED apply
  BY <1>7, <1>8, <1>12, <1>14
<1>15. CASE Step(Taken(t, {e})) /\ ApplyAt(t, {e}, FALSE)
  <2>1. PICK v : v = Taken(t, {e})  OBVIOUS
  <2>2. Fewer(t, v)  BY <1>12, <1>13, <2>1, TakenKeeps
  <2>3. Fewer(s, v)  BY <1>12, <2>2, FewerStill
  <2>4. CommandsOK'
    <3>1. PICK boot \in BOOLEAN : boot = FALSE  OBVIOUS
    <3>2. ApplyAt(t, {e}, boot)  BY <1>15, <3>1
    <3>3. CASE phase = "up"  BY <1>0, <1>13, <3>2, <3>3, ApplyAtKeeps
    <3>4. CASE phase # "up"
      <4>1. st.timers = {}  BY <1>0, <3>4, Now DEF RInv, CommandsOK, LoadingOK
      <4>2. t.timers = {}  BY <1>5, <1>12, <4>1 DEF Fewer
      <4>3. ReservedEvses(t) = {}  BY <1>13, <4>2 DEF HandlerOK, SpecificIds, ReservedEvses
      <4>4. \A f \in Evses : Restored(t, f) = {}  BY <4>3 DEF Restored
      <4>5. apply' = [f \in Evses |-> apply[f]]  BY <3>2, <4>4 DEF ApplyAt
      <4>6. UNCHANGED apply  BY <4>5, Now DEF CommandsOK
      <4> QED  BY <1>8, <4>6
    <3> QED  BY <3>3, <3>4
  <2> QED  BY <1>7, <1>15, <2>1, <2>3, <2>4
<1> QED  BY <1>4, <1>9, <1>10, <1>11, <1>14, <1>15

\* apply[e] moves on.
LEMMA ApplyMoves ==
    ASSUME RInv, NEW e \in Evses, apply[e].at # "idle",
           \/ apply' = [apply EXCEPT ![e].at = "checking"]
           \/ apply' = [apply EXCEPT ![e] = NotApplying],
           UNCHANGED <<phase, place, cancel>>
    PROVE  CommandsOK' /\ apply[e].id \in Ids
<1>1. apply = [f \in Evses |-> apply[f]] /\ phase = "up" /\ apply[e].id \in Ids
  BY Now DEF CommandsOK
<1>2. PICK v : /\ v = [at |-> v.at, id |-> v.id, boot |-> v.boot]
               /\ v.at # "idle" => v.id \in Ids
               /\ apply' = [apply EXCEPT ![e] = v]
  <2>1. CASE apply' = [apply EXCEPT ![e].at = "checking"]
    <3> DEFINE w == [apply[e] EXCEPT !.at = "checking"]
    <3>1. apply[e] = [at |-> apply[e].at, id |-> apply[e].id, boot |-> apply[e].boot]
      BY Now DEF CommandsOK
    <3>2. w = [at |-> "checking", id |-> apply[e].id, boot |-> apply[e].boot]
      BY <3>1
    <3>3. apply' = [apply EXCEPT ![e] = w]  BY <2>1
    <3> HIDE DEF w
    <3> QED  BY <1>1, <3>2, <3>3
  <2>2. CASE apply' = [apply EXCEPT ![e] = NotApplying]
    <3>1. /\ NotApplying = [at |-> NotApplying.at, id |-> NotApplying.id, boot |-> NotApplying.boot]
          /\ NotApplying.at = "idle"
      BY DEF NotApplying
    <3> QED  BY <2>2, <3>1
  <2> QED  BY <2>1, <2>2
<1>3. apply' = [f \in Evses |-> apply'[f]]  BY <1>1, <1>2
<1>4. \A f \in Evses : apply'[f] = IF f = e THEN v ELSE apply[f]  BY <1>1, <1>2
<1>5. ASSUME NEW f \in Evses
      PROVE  /\ apply'[f] = [at |-> apply'[f].at, id |-> apply'[f].id, boot |-> apply'[f].boot]
             /\ apply'[f].at # "idle" => apply'[f].id \in Ids
  <2>1. CASE f = e
    <3>1. apply'[f] = v  BY <1>4, <2>1
    <3> QED  BY <1>2, <3>1
  <2>2. CASE f # e
    <3>1. apply'[f] = apply[f]  BY <1>4, <2>2
    <3> QED  BY <3>1, Now DEF CommandsOK
  <2> QED  BY <2>1, <2>2
<1> QED  BY <1>1, <1>3, <1>5, Now DEF CommandsOK

LEMMA ApplyReservesKeeps ==
    ASSUME RInv, NEW e \in Evses, ApplyReserves(e)
    PROVE  RInv'
<1>1. CommandsOK' /\ apply[e].id \in Ids  BY ApplyMoves DEF ApplyReserves
<1>2. UNCHANGED <<past, expired, loading, phase>>  BY DEF ApplyReserves
<1>3. CASE Step(CallReserved(e, apply[e].id))
  <2>1. PICK s : s = CallReserved(e, apply[e].id)  OBVIOUS
  <2>2. s \in Handlers(st.seen, st.restored) /\ SameBook(st, s)
    BY <1>1, <2>1, Now, CallReservedKeeps
  <2>3. Fewer(st, s)  BY <2>2, Now, BookKept
  <2> QED  BY <1>1, <1>2, <1>3, <2>1, <2>3, StepFewer
<1>4. CASE Refusal(IF apply[e].id \in st.timers
                   THEN Release(Cancel(st, apply[e].id), {e}) ELSE st,
                   EvseOf(st, apply[e].id) \ {e})
  <2>1. PICK u : u = Cancel(st, apply[e].id)  OBVIOUS
  <2>2. PICK s : s = IF apply[e].id \in st.timers THEN Release(u, {e}) ELSE st
    OBVIOUS
  <2>3. Refusal(s, EvseOf(st, apply[e].id) \ {e})  BY <1>4, <2>1, <2>2
  <2>4. u \in Handlers(st.seen, st.restored) /\ Fewer(st, u)
    BY <2>1, Now, CancelKeeps
  <2>5. HandlerOK(u)  BY <2>4 DEF Fewer
  <2>6. Fewer(st, s)
    <3>1. CASE s = st  BY <3>1, Now, FewerSelf
    <3>2. CASE s = Release(u, {e})
      <4>1. Fewer(u, s)  BY <2>4, <2>5, <3>2, ReleaseFewer
      <4> QED  BY <2>4, <4>1, FewerStill
    <3> QED  BY <2>2, <3>1, <3>2
  <2> QED  BY <1>1, <1>2, <2>3, <2>6, StepFewer
<1> QED  BY <1>3, <1>4 DEF ApplyReserves

LEMMA ApplyChecksKeeps ==
    ASSUME RInv, NEW e \in Evses, ApplyChecks(e)
    PROVE  RInv'
<1>1. CommandsOK'  BY ApplyMoves DEF ApplyChecks
<1>2. UNCHANGED <<past, expired, loading, phase>>  BY DEF ApplyChecks
<1>3. PICK s : s = IF e \in EvseOf(st, apply[e].id) THEN st ELSE EmCancel(st, {e})
  OBVIOUS
<1>4. Step(s)  BY <1>3 DEF ApplyChecks
<1>5. Fewer(st, s)
  <2>1. CASE s = st  BY <2>1, Now, FewerSelf
  <2>2. CASE s = EmCancel(st, {e})  BY <2>2, Now, EmCancelKeeps, BookKept
  <2> QED  BY <1>3, <2>1, <2>2
<1> QED  BY <1>1, <1>2, <1>4, <1>5, StepFewer
-----------------------------------------------------------------------------
(* Restart and loading. *)

\* A handler that starts has no reservation.
LEMMA NewHandlerOK ==
    ASSUME NEW stored \in Seq(Requests), Unique(stored), NEW m \in Managers,
           NEW q \in EventQueues, NEW t, t = NewHandler(stored, m, q)
    PROVE  /\ HandlerOK(t) /\ t.timers = {} /\ t.stored = stored
           /\ t.evse_reservations = [e \in Evses |-> None] /\ t.global_reservations = <<>>
<1> DEFINE a == [e \in Evses |-> None]
           z == [e \in Evses |-> [plugged_in |-> FALSE, connector |-> "AVAILABLE",
                                  reported_enabled |-> FALSE]]
<1>1. t = [evse_reservations |-> a, global_reservations |-> <<>>,
           timers |-> {}, armed |-> {}, restored |-> a,
           last_reserved |-> {}, stored |-> stored, seen |-> z, em |-> m, events |-> q]
  BY DEF NewHandler
<1>2. a \in EvseBooks /\ \A e \in Evses : a[e] = None  BY DEF EvseBooks
<1> HIDE DEF a, z
<1>3. <<>> \in Seq(Requests) /\ ListIds(<<>>) = {} /\ Unique(<<>>)
  BY DEF ListIds, Unique
<1>4. SpecificIds(a) = {}  BY <1>2 DEF SpecificIds
<1>5. BookOK(a, <<>>)  BY <1>2, <1>3, <1>4 DEF BookOK
<1>6. /\ t.evse_reservations = a /\ t.global_reservations = <<>> /\ t.timers = {}
      /\ t.armed = {} /\ t.stored = stored /\ t.seen = z /\ t.restored = a
  BY <1>1
<1>7. t \in Handlers(z, a)
  <2>1. PICK em0 \in Seq(Requests) : em0 = <<>>  BY <1>3
  <2> QED  BY <1>1, <1>2, <2>1 DEF Handlers
<1>8. HandlerOK(t)  BY <1>3, <1>4, <1>5, <1>6, <1>7 DEF HandlerOK
<1> QED  BY <1>6, <1>8 DEF a

LEMMA RestartKeeps ==
    ASSUME RInv, Restart
    PROVE  RInv'
<1> DEFINE m == [e \in Evses |-> [st.em[e] EXCEPT !.reserved = None, !.enabled = TRUE,
                                       !.authorized = FALSE, !.transaction = FALSE]]
           q == [e \in Evses |-> <<"Enabled">> \o
                    (IF st.em[e].plugged THEN <<"SessionStarted">> ELSE <<>>)]
<1>1. m \in Managers
  <2>1. ASSUME NEW r \in EmRecords
        PROVE  [r EXCEPT !.reserved = None, !.enabled = TRUE, !.authorized = FALSE,
                         !.transaction = FALSE] \in EmRecords
    BY DEF EmRecords
  <2>2. \A e \in Evses : st.em[e] \in EmRecords  BY Now, ManagerIs
  <2> QED  BY <2>1, <2>2 DEF Managers
<1>2. q \in EventQueues
  <2>1. PICK a \in Seq(EventNames) : a = <<"Enabled">>
    <3>1. PICK n \in EventNames : n = "Enabled"  BY DEF EventNames
    <3>2. <<n>> \in Seq(EventNames)  OBVIOUS
    <3> QED  BY <3>1, <3>2
  <2>2. PICK b \in Seq(EventNames) : b = <<"SessionStarted">>
    <3>1. PICK n \in EventNames : n = "SessionStarted"  BY DEF EventNames
    <3>2. <<n>> \in Seq(EventNames)  OBVIOUS
    <3> QED  BY <3>1, <3>2
  <2>3. PICK c \in Seq(EventNames) : c = <<>>
    <3>1. <<>> \in Seq(EventNames)  OBVIOUS
    <3> QED  BY <3>1, Zenon
  <2>4. q = [e \in Evses |-> a \o (IF st.em[e].plugged THEN b ELSE c)]
    BY <2>1, <2>2, <2>3
  <2>5. a \o b \in Seq(EventNames) /\ a \o c \in Seq(EventNames)  OBVIOUS
  <2> HIDE DEF q
  <2> QED  BY <2>4, <2>5 DEF EventQueues
<1>3. st' = NewHandler(st.stored, m, q)  BY DEF Restart
<1> HIDE DEF m, q
<1>4. HandlerOK(st') /\ st'.timers = {} /\ st'.stored = st.stored
  <2>1. st.stored \in Seq(Requests) /\ Unique(st.stored)
    BY Now DEF HandlerOK, Handlers
  <2> QED  BY <1>1, <1>2, <1>3, <2>1, NewHandlerOK
<1>5. CommandsOK'
  BY DEF Restart, CommandsOK, NotPlacing, NotCancelling, NotApplying
<1>6. /\ loading' = <<>> /\ expired' = <<>> /\ over' = over /\ phase' = "booting"
  BY DEF Restart
<1>7. LoadingOK' /\ ListIds(loading') = {}
  BY <1>4, <1>6 DEF LoadingOK, Unique, ListIds
<1>8. Ended'
  <2>1. past' = past /\ hist'.stale = hist.stale  BY DEF Restart
  <2> QED  BY <1>4, <1>6, <1>7, <2>1 DEF RInv, Ended
<1>9. expired' \in Seq(Ids) /\ st'.timers \ st'.armed \subseteq Range(expired')
  BY <1>4, <1>6
<1> QED  BY <1>4, <1>5, <1>7, <1>8, <1>9 DEF RInv

LEMMA LoadStartsKeeps ==
    ASSUME RInv, LoadStarts
    PROVE  RInv'
<1>1. /\ st' = st /\ over' = over /\ expired' = expired /\ phase' = "loading"
      /\ loading' = st.stored /\ st.timers = {} /\ phase = "booting"
      /\ UNCHANGED <<past, hist>>
  BY DEF LoadStarts, RInv, LoadingOK
<1>2. CommandsOK'  BY <1>1, Now DEF LoadStarts, CommandsOK
<1>3. st.stored \in Seq(Requests) /\ Unique(st.stored)
  BY Now DEF HandlerOK, Handlers
<1>4. LoadingOK' /\ Ended'  BY <1>1, <1>3 DEF RInv, LoadingOK, Ended
<1> QED  BY <1>1, <1>2, <1>4 DEF RInv

\* What is left to load is less, and without what was loaded.
LEMMA LoadingTail ==
    ASSUME NEW q \in Seq(Requests), Unique(q), q # <<>>
    PROVE  /\ Tail(q) \in Seq(Requests) /\ Unique(Tail(q))
           /\ ListIds(Tail(q)) \subseteq ListIds(q)
           /\ Head(q) \in Requests /\ Head(q).id \in ListIds(q)
           /\ Head(q).id \notin ListIds(Tail(q))
<1> DEFINE t == Tail(q)
<1>1. /\ t \in Seq(Requests) /\ DOMAIN t = 1..(Len(q) - 1) /\ Len(q) \in Nat
      /\ DOMAIN q = 1..Len(q) /\ Len(q) # 0 /\ Head(q) = q[1] /\ q[1] \in Requests
      /\ \A i \in 1..(Len(q) - 1) : t[i] = q[i + 1]
  OBVIOUS
<1> HIDE DEF t
<1>2. \A i \in DOMAIN t : i + 1 \in DOMAIN q /\ t[i] = q[i + 1] /\ i + 1 # 1
  BY <1>1
<1>3. 1 \in DOMAIN q  BY <1>1
<1>4. ASSUME NEW i \in DOMAIN t, NEW j \in DOMAIN t, t[i].id = t[j].id PROVE i = j
  <2>1. i + 1 = j + 1  BY <1>2, <1>4 DEF Unique
  <2> QED  BY <1>1, <2>1
<1>5. ListIds(t) \subseteq ListIds(q) /\ q[1].id \notin ListIds(t)
  BY <1>2, <1>3 DEF ListIds, Unique
<1>6. Unique(t)  BY <1>4 DEF Unique
<1> QED  BY <1>1, <1>3, <1>5, <1>6 DEF t, ListIds

LEMMA LoadNextKeeps ==
    ASSUME RInv, LoadNext
    PROVE  RInv'
<1> DEFINE r == Head(loading)
           es == {e \in Evses : e = r.evse}
<1>0. /\ phase = "loading" /\ loading # <<>> /\ loading' = Tail(loading)
      /\ UNCHANGED <<expired, phase, place, cancel, apply>>
  BY DEF LoadNext
<1>1. CommandsOK'  BY <1>0, Now, CommandsStay
<1>2. loading \in Seq(Requests) /\ Unique(loading)  BY DEF RInv, LoadingOK
<1>3. /\ loading' \in Seq(Requests) /\ Unique(loading')
      /\ ListIds(loading') \subseteq ListIds(loading)
      /\ r \in Requests /\ r.id \in ListIds(loading) /\ r.id \notin ListIds(loading')
      /\ r.id \notin st.timers
  BY <1>0, <1>2, LoadingTail DEF RInv, LoadingOK
<1>4. ASSUME SameBook(st, st'), st' \in Handlers(st.seen, st.restored),
             over' = over \union {r.id}, Remembered, r.id \in hist'.stale \union past'
      PROVE  RInv'
  <2>1. Fewer(st, st')  BY <1>4, Now, BookKept
  <2>2. InForce(st') = st'.timers /\ InForce(st) = st.timers
    BY <2>1, Now, InForceIs DEF Fewer
  <2>3. PICK new : new = {r.id}  OBVIOUS
  <2>4. /\ over' = over \union (InForce(st) \ InForce(st')) \union new
        /\ new \intersect st.timers = {} /\ new \intersect ListIds(loading') = {}
        /\ new \subseteq hist'.stale \union past'
    BY <1>3, <1>4, <2>2, <2>3 DEF SameBook
  <2>5. st'.timers \ st'.armed \subseteq Range(expired')
    BY <1>0, <2>1 DEF RInv, Fewer
  <2>6. expired' \in Seq(Ids)  BY <1>0 DEF RInv
  <2> QED  BY <1>0, <1>1, <1>3, <1>4, <2>1, <2>4, <2>5, <2>6, FewerStep
<1>5. \/ /\ st' = Release(st, es)
         /\ past' = past \union {r.id} /\ over' = over \union {r.id}
         /\ hist' = History(st', hist.stale, hist.lost)
      \/ /\ st' = Release(Cancel(st, r.id), es) /\ over' = over \union {r.id}
         /\ hist' = History(st', hist.stale \union {r.id}, hist.lost)
         /\ UNCHANGED past
      \/ /\ CanMake(st, r) /\ r.id \notin past /\ UNCHANGED past
         /\ Step(IF r.evse = None THEN Add(st, r)
                 ELSE [Add(st, r) EXCEPT !.restored[r.evse] = r.id])
  BY DEF LoadNext
<1> HIDE DEF r, es
<1>6. CASE /\ st' = Release(st, es)
           /\ past' = past \union {r.id} /\ over' = over \union {r.id}
           /\ hist' = History(st', hist.stale, hist.lost)
  <2>1. SameBook(st, st') /\ st' \in Handlers(st.seen, st.restored)
    BY <1>6, Now, ReleaseKeeps
  <2>2. Remembered  BY <1>6 DEF History, Remembered
  <2> QED  BY <1>4, <1>6, <2>1, <2>2
<1>7. CASE /\ st' = Release(Cancel(st, r.id), es) /\ over' = over \union {r.id}
           /\ hist' = History(st', hist.stale \union {r.id}, hist.lost)
           /\ UNCHANGED past
  <2>1. Cancel(st, r.id) = st  BY <1>3 DEF Cancel
  <2>2. SameBook(st, st') /\ st' \in Handlers(st.seen, st.restored)
    BY <1>7, <2>1, Now, ReleaseKeeps
  <2>3. Remembered /\ r.id \in hist'.stale  BY <1>3, <1>7 DEF History, Remembered
  <2> QED  BY <1>4, <1>7, <2>2, <2>3
<1>8. CASE /\ CanMake(st, r) /\ r.id \notin past /\ UNCHANGED past
           /\ Step(IF r.evse = None THEN Add(st, r)
                   ELSE [Add(st, r) EXCEPT !.restored[r.evse] = r.id])
  <2>1. PICK u : u = Add(st, r)  OBVIOUS
  <2>2. r.evse # None => st.evse_reservations[r.evse] = None  BY <1>8 DEF CanMake
  <2>3. r.id \notin st.timers  BY <1>3 DEF RInv, LoadingOK
  <2>4. /\ u \in Handlers(st.seen, st.restored) /\ HandlerOK(u)
        /\ ListIds(u.stored) = u.timers /\ u.timers = st.timers \union {r.id}
        /\ u.timers \ u.armed \subseteq st.timers \ st.armed
    BY <1>3, <2>1, <2>2, <2>3, Now, AddKeeps
  <2>5. Fewer(u, st')
    <3>1. CASE r.evse = None
      <4>1. st' = u  BY <1>8, <2>1, <3>1 DEF Step
      <4> QED  BY <2>4, <4>1, FewerSelf
    <3>2. CASE r.evse # None
      <4>1. st' = [u EXCEPT !.restored[r.evse] = r.id]  BY <1>8, <2>1, <3>2 DEF Step
      <4>2. PICK z : z = [u.restored EXCEPT ![r.evse] = r.id]  OBVIOUS
      <4>3. st' = [u EXCEPT !.restored = z]  BY <4>1, <4>2
      <4>4. st' \in Handlers(st.seen, z) /\ SameBook(u, st')
        BY <2>4, <4>3 DEF Handlers, SameBook
      <4> QED  BY <2>4, <4>4, BookKept
    <3> QED  BY <3>1, <3>2
  <2>6. HandlerOK(st') /\ st'.timers \subseteq u.timers  BY <2>5 DEF Fewer
  <2>7. ListIds(st'.stored) = st'.timers  BY <2>4, <2>5 DEF Fewer
  <2>8. st'.timers \ st'.armed \subseteq Range(expired')
    BY <1>0, <2>4, <2>5 DEF RInv, Fewer
  <2>9. over' = over \union (st.timers \ st'.timers)
    <3>1. over' = over \union (InForce(st) \ InForce(st'))  BY <1>8 DEF Step
    <3> QED  BY <2>6, <3>1, Now, InForceIs
  <2>10. st'.timers = u.timers
    <3>1. CASE r.evse = None
      <4>1. st' = u  BY <1>8, <2>1, <3>1 DEF Step
      <4> QED  BY <4>1
    <3>2. CASE r.evse # None
      <4>1. st' = [u EXCEPT !.restored[r.evse] = r.id]  BY <1>8, <2>1, <3>2 DEF Step
      <4> QED  BY <2>4, <4>1 DEF Handlers
    <3> QED  BY <3>1, <3>2
  <2>11. over' = over  BY <2>4, <2>9, <2>10
  <2>12. Ended' /\ LoadingOK'
    <3>1. /\ past' = past /\ r.id \notin past
          /\ hist'.stale = hist.stale \intersect (ListIds(st'.stored) \union ListIds(loading))
      BY <1>8 DEF Step, History
    <3>2. LoadingOK'
      BY <1>0, <1>3, <2>4, <2>10 DEF RInv, LoadingOK
    <3>3. over' \intersect st'.timers \subseteq hist'.stale
      BY <1>3, <2>4, <2>7, <2>10, <2>11, <3>1 DEF RInv, Ended
    <3>4. Ended'
      BY <1>3, <2>7, <2>11, <3>1, <3>3 DEF RInv, Ended
    <3> QED  BY <3>2, <3>4
  <2>13. expired' \in Seq(Ids)  BY <1>0 DEF RInv
  <2> QED  BY <1>1, <2>6, <2>8, <2>12, <2>13 DEF RInv
<1> QED  BY <1>5, <1>6, <1>7, <1>8

LEMMA LoadEndsKeeps ==
    ASSUME RInv, LoadEnds
    PROVE  RInv'
<1>1. PICK es : es = {e \in Evses : st.seen[e].reported_enabled}  OBVIOUS
<1>2. PICK s : s = Update(st)  OBVIOUS
<1>3. PICK t : t = Taken(s, es)  OBVIOUS
<1>4. PICK boot \in BOOLEAN : boot = TRUE  OBVIOUS
<1>5. /\ phase = "loading" /\ loading = <<>> /\ phase' = "up"
      /\ Step(t) /\ ApplyAt(s, es, boot)
      /\ UNCHANGED <<past, expired, loading, place, cancel>>
  BY <1>1, <1>2, <1>3, <1>4 DEF LoadEnds
<1>6. s \in Handlers(st.seen, st.restored) /\ SameBook(st, s)  BY <1>2, Now, UpdateKeeps
<1>7. Fewer(st, s)  BY <1>6, Now, BookKept
<1>8. HandlerOK(s)  BY <1>7 DEF Fewer
<1>9. Fewer(s, t)  BY <1>3, <1>6, <1>8, TakenKeeps
<1>10. Fewer(st, t)  BY <1>7, <1>9, FewerStill
<1>11. CommandsOK'
  <2>1. place.at = "idle" /\ cancel.at = "idle"  BY <1>5, Now DEF CommandsOK
  <2> QED  BY <1>5, <1>8, <2>1, ApplyAtKeeps
<1>12. /\ st' = t /\ over' = over \union (InForce(st) \ InForce(st')) \union {}
       /\ Remembered
  BY <1>5 DEF Step, History, Remembered
<1>120. PICK new : new = {}  OBVIOUS
<1>121. /\ over' = over \union (InForce(st) \ InForce(st')) \union new
       /\ new \intersect st.timers = {} /\ new \intersect ListIds(loading') = {}
       /\ new \subseteq hist'.stale \union past'
  BY <1>12, <1>120
<1>13. st'.timers \ st'.armed \subseteq Range(expired')
  BY <1>5, <1>10, <1>12 DEF RInv, Fewer
<1>14. /\ expired' \in Seq(Ids) /\ loading' \in Seq(Requests) /\ Unique(loading')
       /\ ListIds(loading') \subseteq ListIds(loading)
  BY <1>5 DEF RInv, LoadingOK
<1> QED  BY <1>5, <1>10, <1>11, <1>12, <1>121, <1>13, <1>14, FewerStep
-----------------------------------------------------------------------------
(* Drivers and operators. *)

\* A step in which EvseManagers change and report, and no command moves.
LEMMA ManagerStep ==
    ASSUME RInv, NEW x, NEW y, NEW s \in Handlers(x, y), SameBook(st, s), Step(s),
           UNCHANGED <<past, expired, phase, loading, place, cancel, apply>>
    PROVE  RInv'
<1>1. Fewer(st, s)  BY Now, BookKept
<1>2. CommandsOK'  BY Now, CommandsStay
<1> QED  BY <1>1, <1>2, StepFewer

\* One that changes the EvseManager of e to v and reports es.
LEMMA ReportStep ==
    ASSUME RInv, NEW e \in Evses, NEW v \in EmRecords, NEW es \in Seq(EventNames),
           Step(Tell([st EXCEPT !.em[e] = v], e, es)),
           UNCHANGED <<past, expired, phase, loading, place, cancel, apply>>
    PROVE  RInv'
<1>1. PICK u : u = [st EXCEPT !.em[e] = v]  OBVIOUS
<1>2. u \in Handlers(st.seen, st.restored) /\ SameBook(st, u)
  BY <1>1, Now, ManagerKeeps
<1>3. PICK s : s = Tell(u, e, es)  OBVIOUS
<1>4. s \in Handlers(st.seen, st.restored) /\ SameBook(u, s)  BY <1>2, <1>3, TellKeeps
<1>5. SameBook(st, s)  BY <1>2, <1>4 DEF SameBook
<1>6. Step(s)  BY <1>1, <1>3
<1> QED  BY <1>4, <1>5, <1>6, ManagerStep

\* What an EvseManager reports.
LEMMA Reports ==
    /\ <<>> \in Seq(EventNames)
    /\ <<"SessionStarted">> \in Seq(EventNames) /\ <<"SessionFinished">> \in Seq(EventNames)
    /\ <<"TransactionStarted">> \in Seq(EventNames)
    /\ <<"Disabled">> \in Seq(EventNames) /\ <<"Enabled">> \in Seq(EventNames)
<1>1. \A n \in EventNames : <<n>> \in Seq(EventNames)  OBVIOUS
<1>2. /\ "SessionStarted" \in EventNames /\ "SessionFinished" \in EventNames
      /\ "TransactionStarted" \in EventNames
      /\ "Disabled" \in EventNames /\ "Enabled" \in EventNames
  BY DEF EventNames
<1>3. <<>> \in Seq(EventNames)  OBVIOUS
<1> QED  BY <1>1, <1>2, <1>3, Zenon

\* A reservation that is used is gone from the book and at the EvseManager.
LEMMA UsedKeeps ==
    ASSUME RInv, NEW e \in Evses, NEW id \in Ids, NEW w, w = Used(e, id)
    PROVE  w \in Handlers(st.seen, st.restored) /\ Fewer(st, w)
<1>1. PICK u : u = Cancel(st, id)  OBVIOUS
<1>2. u \in Handlers(st.seen, st.restored) /\ Fewer(st, u)  BY <1>1, Now, CancelKeeps
<1>3. HandlerOK(u)  BY <1>2 DEF Fewer
<1>4. u.em[e] \in EmRecords  BY <1>2, ManagerIs
<1>5. PICK v \in EmRecords : v = [u.em[e] EXCEPT !.reserved = id]  BY <1>4 DEF EmRecords
<1>6. w = [u EXCEPT !.em[e] = v]  BY <1>1, <1>5 DEF Used
<1>7. w \in Handlers(st.seen, st.restored) /\ SameBook(u, w)  BY <1>2, <1>6, ManagerKeeps
<1>8. Fewer(u, w)  BY <1>3, <1>7, BookKept
<1> QED  BY <1>2, <1>7, <1>8, FewerStill

LEMMA TokenUsedKeeps ==
    ASSUME RInv, NEW e \in Evses, NEW token, TokenUsed(e, token)
    PROVE  RInv'
<1>0. UNCHANGED <<past, expired, phase, loading, place, cancel, apply>>  BY DEF TokenUsed
<1>1. \/ \E r \in Matching(st, token, e) : \/ Step([Used(e, r.id) EXCEPT !.em[e].authorized = TRUE])
                                           \/ Step(EmCancel(Used(e, r.id), {e}))
      \/ Step([st EXCEPT !.em[e].authorized = TRUE])
  BY DEF TokenUsed
<1>2. ASSUME NEW r \in Matching(st, token, e),
             \/ Step([Used(e, r.id) EXCEPT !.em[e].authorized = TRUE])
             \/ Step(EmCancel(Used(e, r.id), {e}))
      PROVE  RInv'
  <2>1. r.id \in Ids
    <3>1. st.global_reservations \in Seq(Requests)  BY Now DEF Handlers
    <3>2. r \in Requests  BY <3>1 DEF Matching
    <3> QED  BY <3>2 DEF Ids
  <2>2. PICK w : w = Used(e, r.id)  OBVIOUS
  <2>3. w \in Handlers(st.seen, st.restored) /\ Fewer(st, w)  BY <2>1, <2>2, UsedKeeps
  <2>4. HandlerOK(w)  BY <2>3 DEF Fewer
  <2>5. CommandsOK'  BY <1>0, Now, CommandsStay
  <2>6. ASSUME NEW s, s \in Handlers(st.seen, st.restored), SameBook(w, s), Step(s)
        PROVE  RInv'
    <3>1. Fewer(w, s)  BY <2>4, <2>6, BookKept
    <3>2. Fewer(st, s)  BY <2>3, <3>1, FewerStill
    <3> QED  BY <1>0, <2>5, <2>6, <3>2, StepFewer
  <2>7. CASE Step([Used(e, r.id) EXCEPT !.em[e].authorized = TRUE])
    <3>1. w.em[e] \in EmRecords  BY <2>3, ManagerIs
    <3>2. PICK v \in EmRecords : v = [w.em[e] EXCEPT !.authorized = TRUE]
      BY <3>1 DEF EmRecords
    <3>3. PICK s : s = [w EXCEPT !.em[e] = v]  OBVIOUS
    <3>4. Step(s)  BY <2>2, <2>7, <3>2, <3>3
    <3>5. s \in Handlers(st.seen, st.restored) /\ SameBook(w, s)
      BY <2>3, <3>3, ManagerKeeps
    <3> QED  BY <2>6, <3>4, <3>5
  <2>8. CASE Step(EmCancel(Used(e, r.id), {e}))
    <3>1. PICK s : s = EmCancel(w, {e})  OBVIOUS
    <3> QED  BY <2>2, <2>3, <2>6, <2>8, <3>1, EmCancelKeeps
  <2> QED  BY <1>2, <2>7, <2>8
<1>3. CASE Step([st EXCEPT !.em[e].authorized = TRUE])
  <2> DEFINE v == [st.em[e] EXCEPT !.authorized = TRUE]
             s == [st EXCEPT !.em[e] = v]
  <2>1. v \in EmRecords
    <3>1. st.em[e] \in EmRecords  BY Now, ManagerIs
    <3> QED  BY <3>1 DEF EmRecords
  <2>2. Step(s)  BY <1>3
  <2> HIDE DEF v
  <2>3. s \in Handlers(st.seen, st.restored) /\ SameBook(st, s)
    BY <2>1, Now, ManagerKeeps
  <2> HIDE DEF s
  <2> QED  BY <1>0, <2>2, <2>3, ManagerStep
<1> QED  BY <1>1, <1>2, <1>3

LEMMA AuthorizationTimesOutKeeps ==
    ASSUME RInv, NEW e \in Evses, AuthorizationTimesOut(e)
    PROVE  RInv'
<1>0. UNCHANGED <<past, expired, phase, loading, place, cancel, apply>>
  BY DEF AuthorizationTimesOut
<1>1. PICK u : u = EmCancel(st, {e})  OBVIOUS
<1>2. u \in Handlers(st.seen, st.restored) /\ SameBook(st, u)  BY <1>1, Now, EmCancelKeeps
<1>3. u.em[e] \in EmRecords  BY <1>2, ManagerIs
<1>4. PICK v \in EmRecords : v = [u.em[e] EXCEPT !.authorized = FALSE]
  BY <1>3 DEF EmRecords
<1>5. PICK w : w = [u EXCEPT !.em[e] = v]  OBVIOUS
<1>6. w \in Handlers(st.seen, st.restored) /\ SameBook(u, w)
  BY <1>2, <1>5, ManagerKeeps
<1>7. PICK es \in Seq(EventNames) : es = <<"SessionFinished">>  BY Reports, Zenon
<1>8. PICK s : s = Tell(w, e, es)  OBVIOUS
<1>9. s \in Handlers(st.seen, st.restored) /\ SameBook(w, s)
  BY <1>6, <1>8, TellKeeps
<1>10. w = [u EXCEPT !.em[e].authorized = FALSE]  BY <1>4, <1>5
<1>11. Step(s)  BY <1>1, <1>7, <1>8, <1>10 DEF AuthorizationTimesOut
<1>12. SameBook(st, s)  BY <1>2, <1>6, <1>9 DEF SameBook
<1> QED  BY <1>0, <1>9, <1>11, <1>12, ManagerStep

LEMMA PlugInKeeps ==
    ASSUME RInv, NEW e \in Evses, PlugIn(e)
    PROVE  RInv'
<1>1. st.em[e] \in EmRecords  BY Now, ManagerIs
<1>2. PICK v \in EmRecords : v = [st.em[e] EXCEPT !.plugged = TRUE]
  BY <1>1 DEF EmRecords
<1>3. PICK es \in Seq(EventNames) :
         es = IF st.em[e].authorized THEN <<>> ELSE <<"SessionStarted">>
  BY Reports, Zenon
<1>4. [st EXCEPT !.em[e].plugged = TRUE] = [st EXCEPT !.em[e] = v]  BY <1>2
<1>5. Step(Tell([st EXCEPT !.em[e] = v], e, es))  BY <1>3, <1>4 DEF PlugIn
<1> QED  BY <1>5, ReportStep DEF PlugIn

LEMMA TransactionStartsKeeps ==
    ASSUME RInv, NEW e \in Evses, TransactionStarts(e)
    PROVE  RInv'
<1>0. st.em[e] \in EmRecords  BY Now, ManagerIs
<1>1. st \in Handlers(st.seen, st.restored) /\ st.em \in Managers  BY Now DEF Handlers
<1>2. PICK v \in EmRecords : v = [st.em[e] EXCEPT !.transaction = TRUE, !.reserved = None]
  BY <1>0 DEF EmRecords
<1>3. PICK es \in Seq(EventNames) : es = <<"TransactionStarted">>  BY Reports, Zenon
<1>4. [st EXCEPT !.em[e].transaction = TRUE, !.em[e].reserved = None]
        = [st EXCEPT !.em[e] = v]
  BY <1>1, <1>2 DEF Handlers, Managers
<1>5. Step(Tell([st EXCEPT !.em[e] = v], e, es))  BY <1>3, <1>4 DEF TransactionStarts
<1> QED  BY <1>5, ReportStep DEF TransactionStarts

LEMMA UnplugKeeps ==
    ASSUME RInv, NEW e \in Evses, Unplug(e)
    PROVE  RInv'
<1>0. st.em[e] \in EmRecords  BY Now, ManagerIs
<1>1. st \in Handlers(st.seen, st.restored) /\ st.em \in Managers  BY Now DEF Handlers
<1>2. PICK v \in EmRecords :
         v = [st.em[e] EXCEPT !.plugged = FALSE, !.authorized = FALSE, !.transaction = FALSE]
  BY <1>0 DEF EmRecords
<1>3. PICK es \in Seq(EventNames) : es = <<"SessionFinished">>  BY Reports, Zenon
<1>4. [st EXCEPT !.em[e].plugged = FALSE, !.em[e].authorized = FALSE,
                 !.em[e].transaction = FALSE]
        = [st EXCEPT !.em[e] = v]
  BY <1>1, <1>2 DEF Handlers, Managers
<1>5. Step(Tell([st EXCEPT !.em[e] = v], e, es))  BY <1>3, <1>4 DEF Unplug
<1> QED  BY <1>5, ReportStep DEF Unplug

LEMMA DisableEvseKeeps ==
    ASSUME RInv, NEW e \in Evses, DisableEvse(e)
    PROVE  RInv'
<1>0. UNCHANGED <<past, expired, phase, loading, place, cancel, apply>>  BY DEF DisableEvse
<1>1. st.em[e] \in EmRecords  BY Now, ManagerIs
<1>2. PICK v \in EmRecords : v = [st.em[e] EXCEPT !.enabled = FALSE]
  BY <1>1 DEF EmRecords
<1>3. PICK u : u = [st EXCEPT !.em[e] = v]  OBVIOUS
<1>4. u = [st EXCEPT !.em[e].enabled = FALSE]  BY <1>2, <1>3
<1>5. u \in Handlers(st.seen, st.restored) /\ SameBook(st, u)  BY <1>3, Now, ManagerKeeps
<1>6. PICK es \in Seq(EventNames) : es = <<"Disabled">>  BY Reports, Zenon
<1>7. PICK w : w = Tell(u, e, es)  OBVIOUS
<1>8. w \in Handlers(st.seen, st.restored) /\ SameBook(u, w)  BY <1>5, <1>7, TellKeeps
<1>9. PICK s : s = EmCancel(w, {e})  OBVIOUS
<1>10. s \in Handlers(st.seen, st.restored) /\ SameBook(w, s)  BY <1>8, <1>9, EmCancelKeeps
<1>11. Step(s)  BY <1>4, <1>6, <1>7, <1>9 DEF DisableEvse
<1>12. SameBook(st, s)  BY <1>5, <1>8, <1>10 DEF SameBook
<1> QED  BY <1>0, <1>10, <1>11, <1>12, ManagerStep

LEMMA EnableEvseKeeps ==
    ASSUME RInv, NEW e \in Evses, EnableEvse(e)
    PROVE  RInv'
<1>1. st.em[e] \in EmRecords  BY Now, ManagerIs
<1>2. PICK v \in EmRecords : v = [st.em[e] EXCEPT !.enabled = TRUE]
  BY <1>1 DEF EmRecords
<1>3. PICK es \in Seq(EventNames) : es = <<"Enabled">>  BY Reports, Zenon
<1>4. [st EXCEPT !.em[e].enabled = TRUE] = [st EXCEPT !.em[e] = v]  BY <1>2
<1>5. Step(Tell([st EXCEPT !.em[e] = v], e, es))  BY <1>3, <1>4 DEF EnableEvse
<1> QED  BY <1>5, ReportStep DEF EnableEvse
-----------------------------------------------------------------------------
(* The theorems. *)

LEMMA InitKeeps ==
    ASSUME Init
    PROVE  RInv
<1> DEFINE m == [e \in Evses |->
                   [reserved |-> None, enabled |-> TRUE, plugged |-> FALSE,
                    authorized |-> FALSE, transaction |-> FALSE]]
           q == [e \in Evses |-> <<>>]
           n == NewHandler(<<>>, m, q)
<1>1. m \in Managers  BY DEF Managers, EmRecords
<1>2. q \in EventQueues  BY Reports DEF EventQueues
<1>3. <<>> \in Seq(Requests) /\ Unique(<<>>) /\ ListIds(<<>>) = {}
  BY DEF Unique, ListIds
<1>4. PICK z : st = [n EXCEPT !.seen = z]  BY DEF Init
<1> HIDE DEF m, q
<1>5. HandlerOK(n) /\ n.timers = {} /\ n.stored = <<>>
  <2>1. PICK e0 \in Seq(Requests) : e0 = <<>>  BY <1>3, Zenon
  <2> HIDE DEF n
  <2>2. n = NewHandler(e0, m, q)  BY <2>1 DEF n
  <2>3. Unique(e0)  BY <1>3, <2>1, Zenon
  <2>4. HandlerOK(n) /\ n.timers = {} /\ n.stored = e0
    BY <1>1, <1>2, <2>2, <2>3, NewHandlerOK
  <2> QED  BY <2>1, <2>4, Zenon
<1> HIDE DEF n
<1>6. n \in Handlers(n.seen, n.restored)  BY <1>5 DEF HandlerOK
<1>7. st \in Handlers(z, n.restored) /\ SameBook(n, st)
  BY <1>4, <1>6 DEF Handlers, SameBook
<1>8. HandlerOK(st) /\ st.timers = {} /\ st.stored = <<>>
  <2>1. Fewer(n, st)  BY <1>5, <1>7, BookKept
  <2> QED  BY <1>5, <1>7, <2>1 DEF Fewer, SameBook
<1>9. CommandsOK  BY DEF Init, CommandsOK, NotPlacing, NotCancelling, NotApplying
<1>10. LoadingOK /\ Ended  BY <1>3, <1>8 DEF Init, LoadingOK, Ended
<1>11. expired \in Seq(Ids) /\ st.timers \ st.armed \subseteq Range(expired)
  <2>1. expired = <<>>  BY DEF Init
  <2>2. <<>> \in Seq(Ids)  OBVIOUS
  <2>3. expired \in Seq(Ids)  BY <2>1, <2>2, Zenon
  <2> QED  BY <1>8, <2>3
<1> QED  BY <1>8, <1>9, <1>10, <1>11 DEF RInv

LEMMA NextKeeps ==
    ASSUME RInv, [Next]_vars
    PROVE  RInv'
<1>1. CASE Placing
  BY <1>1, PlaceMakesKeeps, PlaceReleasesKeeps, PlaceReservesKeeps, PlaceFailsKeeps,
     PlaceChecksKeeps DEF Placing
<1>2. CASE CancelReleases  BY <1>2, CancelReleasesKeeps
<1>3. CASE ExpiryRuns  BY <1>3, ExpiryRunsKeeps
<1>4. CASE Restart  BY <1>4, RestartKeeps
<1>5. CASE Loading
  BY <1>5, LoadStartsKeeps, LoadNextKeeps, LoadEndsKeeps DEF Loading
<1>6. CASE \E r \in Requests : PlaceStarts(r)  BY <1>6, PlaceStartsKeeps
<1>7. CASE \E id \in Ids : CancelStarts(id) \/ TimerExpires(id)
  BY <1>7, CancelStartsKeeps, TimerExpiresKeeps
<1>8. CASE \E e \in Evses : EventThread(e)
  BY <1>8, HandleSessionEventKeeps, ApplyReservesKeeps, ApplyChecksKeeps DEF EventThread
<1>9. CASE \E e \in Visited : Driver(e)
  <2>1. PICK e \in Evses : Driver(e)
    <3>1. Visited \subseteq Evses  BY ReservationAssumption DEF ReservationAssumption
    <3> QED  BY <1>9, <3>1
  <2>2. CASE \E token \in Tokens : TokenUsed(e, token)  BY <2>2, TokenUsedKeeps
  <2> QED  BY <2>1, <2>2, PlugInKeeps, UnplugKeeps, DisableEvseKeeps, EnableEvseKeeps,
              TransactionStartsKeeps, AuthorizationTimesOutKeeps DEF Driver
<1>10. CASE UNCHANGED vars
  <2>1. UNCHANGED <<st, past, over, hist, expired, phase, loading, place, cancel, apply>>
    BY <1>10 DEF vars
  <2>2. Fewer(st, st')  BY <2>1, Now, FewerSelf
  <2>3. CommandsOK'  BY <2>1, Now, CommandsStay
  <2>4. over' = over \union (InForce(st) \ InForce(st')) /\ Remembered
    BY <2>1 DEF Remembered
  <2> QED  BY <2>1, <2>2, <2>3, <2>4, QuietStep
<1> QED  BY <1>1, <1>2, <1>3, <1>4, <1>5, <1>6, <1>7, <1>8, <1>9, <1>10 DEF Next

\* The book, the timers, the store and the list that is being loaded agree at
\* every moment, whatever interleaves and wherever a restart comes.
THEOREM ReservationInvariant == Spec => []RInv
<1>1. Init => RInv  BY InitKeeps
<1>2. RInv /\ [Next]_vars => RInv'  BY NextKeeps
<1> QED  BY <1>1, <1>2, PTL DEF Spec

\* As many ids are in force as there are reserved EVSEs and global
\* reservations.
LEMMA IdsCount ==
    ASSUME RInv
    PROVE  Cardinality(InForce(st)) = Cardinality(ReservedEvses(st)) + Len(st.global_reservations)
<1>1. PICK a : a = st.evse_reservations  OBVIOUS
<1>2. PICK g : g = st.global_reservations  OBVIOUS
<1>3. PICK R : R = ReservedEvses(st)  OBVIOUS
<1>4. /\ BookOK(a, g) /\ InForce(st) = SpecificIds(a) \union ListIds(g)
      /\ R = {e \in Evses : a[e] # None}
  BY <1>1, <1>2, <1>3, Now, InForceIs DEF HandlerOK, ReservedEvses
<1>5. IsFiniteSet(R)
  <2>1. R \in SUBSET Evses /\ IsFiniteSet(Evses)
    BY <1>4, ReservationAssumption DEF ReservationAssumption
  <2> QED  BY <2>1, FS_Subset
<1>6. ExistsBijection(R, SpecificIds(a))
  <2> DEFINE f == [e \in R |-> a[e].id]
  <2>1. f \in [R -> SpecificIds(a)]  BY <1>4 DEF SpecificIds
  <2>2. \A e, h \in R : f[e] = f[h] => e = h  BY <1>4 DEF BookOK
  <2>3. \A i \in SpecificIds(a) : \E e \in R : f[e] = i  BY <1>4 DEF SpecificIds
  <2> HIDE DEF f
  <2>4. f \in Bijection(R, SpecificIds(a))
    BY <2>1, <2>2, <2>3 DEF Bijection, Injection, Surjection, IsInjective
  <2> QED  BY <2>4 DEF ExistsBijection
<1>7. g \in Seq(Requests) /\ Len(g) \in Nat /\ DOMAIN g = 1..Len(g)
  BY <1>4 DEF BookOK
<1>8. ExistsBijection(1..Len(g), ListIds(g))
  <2> DEFINE f == [i \in 1..Len(g) |-> g[i].id]
  <2>1. f \in [1..Len(g) -> ListIds(g)]  BY <1>7 DEF ListIds
  <2>2. \A i, j \in 1..Len(g) : f[i] = f[j] => i = j  BY <1>4, <1>7 DEF BookOK, Unique
  <2>3. \A d \in ListIds(g) : \E i \in 1..Len(g) : f[i] = d  BY <1>7 DEF ListIds
  <2> HIDE DEF f
  <2>4. f \in Bijection(1..Len(g), ListIds(g))
    BY <2>1, <2>2, <2>3 DEF Bijection, Injection, Surjection, IsInjective
  <2> QED  BY <2>4 DEF ExistsBijection
<1>9. IsFiniteSet(SpecificIds(a)) /\ Cardinality(SpecificIds(a)) = Cardinality(R)
  BY <1>5, <1>6, FS_Bijection
<1>10. IsFiniteSet(ListIds(g)) /\ Cardinality(ListIds(g)) = Len(g)
  <2>1. PICK k \in Nat : k = Len(g)  BY <1>7
  <2>2. IsFiniteSet(1..k) /\ Cardinality(1..k) = k
    <3>1. 1 \in Int /\ k \in Int  OBVIOUS
    <3>2. IsFiniteSet(1..k) /\ Cardinality(1..k) = IF 1 > k THEN 0 ELSE k - 1 + 1
      BY <3>1, FS_Interval
    <3> QED  BY <3>2
  <2> QED  BY <1>8, <2>1, <2>2, FS_Bijection
<1>11. SpecificIds(a) \cap ListIds(g) = {}  BY <1>4 DEF BookOK
<1>12. PICK A : A = SpecificIds(a)  OBVIOUS
<1>13. PICK B : B = ListIds(g)  OBVIOUS
<1>14. Cardinality(A \cup B) = Cardinality(A) + Cardinality(B) - Cardinality(A \cap B)
  BY <1>9, <1>10, <1>12, <1>13, FS_Union
<1>15. Cardinality(A \cap B) = 0  BY <1>11, <1>12, <1>13, FS_EmptySet
<1>16. Cardinality(R) \in Nat  BY <1>5, FS_CardinalityType
<1> QED  BY <1>2, <1>3, <1>4, <1>7, <1>9, <1>10, <1>12, <1>13, <1>14, <1>15, <1>16

\* Every reservation in force has its timer, which is armed or has expired with
\* its callback still to come, every timer its reservation, and no id is in
\* force twice: cancel_reservation can find what it is to end.
THEOREM TimersAgree == Spec => []TimersMatch
<1>1. RInv => TimersMatch
  <2> SUFFICES ASSUME RInv PROVE TimersMatch  OBVIOUS
  <2>1. st.timers = InForce(st)  BY Now, InForceIs
  <2>2. st.armed \subseteq st.timers  BY Now DEF HandlerOK
  <2>3. st.timers \ st.armed \subseteq Range(expired)  BY DEF RInv
  <2> QED  BY <2>1, <2>2, <2>3, IdsCount DEF TimersMatch
<1> QED  BY <1>1, ReservationInvariant, PTL

\* A reservation that was used, cancelled, replaced or has expired does not come
\* back, however often the module restarts and wherever; the only one that does
\* is one that load_reservations has refused and left in the store.
THEOREM EndedForGood == Spec => []EndedStaysEnded
<1>1. RInv => EndedStaysEnded
  <2> SUFFICES ASSUME RInv PROVE EndedStaysEnded  OBVIOUS
  <2>1. InForce(st) = st.timers  BY Now, InForceIs
  <2> QED  BY <2>1 DEF RInv, Ended, EndedStaysEnded
<1> QED  BY <1>1, ReservationInvariant, PTL
-----------------------------------------------------------------------------
(* The EvseManagers have what the book has: GInv is kept, step by step. *)

LEMMA BookIs ==
    ASSUME NEW s, HandlerOK(s), NEW e \in Evses, s.evse_reservations[e] # None
    PROVE  /\ s.evse_reservations[e] \in Requests /\ s.evse_reservations[e].id \in Ids
           /\ s.evse_reservations[e].id \in s.timers
<1>1. s.evse_reservations \in EvseBooks  BY DEF HandlerOK, BookOK
<1>2. s.evse_reservations[e] \in Requests  BY <1>1 DEF EvseBooks
<1>3. s.evse_reservations[e].id \in SpecificIds(s.evse_reservations)  BY DEF SpecificIds
<1> QED  BY <1>2, <1>3 DEF Ids, HandlerOK

LEMMA AtOne ==
    ASSUME NEW s, HandlerOK(s), NEW e \in Evses, NEW f \in Evses, NEW id,
           HasId(s, e, id), HasId(s, f, id)
    PROVE  e = f
BY DEF HandlerOK, BookOK, HasId

LEMMA EvseOfIs ==
    ASSUME NEW s, NEW id
    PROVE  EvseOf(s, id) \subseteq Evses /\ \A e \in Evses : e \in EvseOf(s, id) <=> HasId(s, e, id)
BY DEF EvseOf, ReservedEvses, HasId

\* The state at one EVSE.
LEMMA NowAt ==
    ASSUME RInv, GInv, NEW e \in Evses
    PROVE  /\ EvseOK(st, e, place, cancel, apply[e], phase, Lost)
           /\ st.em[e] \in EmRecords /\ st.events[e] \in Seq(EventNames)
           /\ st.seen[e] \in SeenRecords /\ st.restored[e] \in Ids \union {None}
           /\ Named(place, apply[e])
<1>1. st.em[e] \in EmRecords  BY Now, ManagerIs
<1>2. st.events \in EventQueues  BY Now DEF Handlers
<1>3. st.events[e] \in Seq(EventNames)  BY <1>2 DEF EventQueues
<1>4. Named(place, apply[e])  BY Now DEF CommandsOK, Named, Ids
<1> QED  BY <1>1, <1>3, <1>4 DEF GInv

\* What was lost before is lost after the step, unless it is in the book again.
LEMMA LostStays ==
    ASSUME NEW x, NEW es, hist' = History(st', x, hist.lost \union es)
    PROVE  LostKept(Lost \union {<<f, st.em[f].reserved>> : f \in es})
<1> SUFFICES ASSUME NEW e \in Evses, NEW id \in Ids, id = st'.em[e].reserved,
                    <<e, id>> \in Lost \union {<<f, st.em[f].reserved>> : f \in es},
                    ~HasId(st', e, id)
             PROVE  <<e, id>> \in Lost'
  BY DEF LostKept
<1>1. e \in hist.lost \union es /\ id = st.em[e].reserved  BY DEF Lost
<1>2. id \notin {None, "Global"}  BY IdsApart
<1>3. e \notin EvseOf(st', id)  BY EvseOfIs
<1>4. hist'.lost = {f \in hist.lost \union es :
                      /\ st'.em[f].reserved \in {st.em[f].reserved} \ {None, "Global"}
                      /\ f \notin EvseOf(st', st'.em[f].reserved)}
  BY DEF History
<1>5. e \in hist'.lost  BY <1>1, <1>2, <1>3, <1>4
<1> QED  BY <1>5 DEF Lost
LEMMA StepLost ==
    ASSUME NEW x, hist' = History(st', x, hist.lost)
    PROVE  LostKept(Lost)
<1>1. hist.lost \union {} = hist.lost /\ Lost \union {<<f, st.em[f].reserved>> : f \in {}} = Lost
  OBVIOUS
<1>2. PICK es : es = {}  OBVIOUS
<1>3. hist' = History(st', x, hist.lost \union es)  BY <1>1, <1>2
<1>4. LostKept(Lost \union {<<f, st.em[f].reserved>> : f \in es})  BY <1>3, LostStays
<1> QED  BY <1>1, <1>2, <1>4
LEMMA SameLost ==
    ASSUME st'.em = st.em, hist' = hist
    PROVE  LostKept(Lost)
BY DEF LostKept, Lost

LEMMA LostMore ==
    ASSUME NEW s, NEW e, NEW pl, NEW ca, NEW a, NEW ph, NEW lo, NEW more,
           EvseOK(s, e, pl, ca, a, ph, lo), lo \subseteq more
    PROVE  EvseOK(s, e, pl, ca, a, ph, more)
<1>1. Backed(s, e, pl, ca, a, more)  BY DEF EvseOK, CoreOK, Backed
<1> QED  BY <1>1 DEF EvseOK, CoreOK

\* A step to a state that follows s with less in the book.
LEMMA StepFrom ==
    ASSUME RInv', NEW s, Shrinks(s, st'), NEW lo, LostKept(lo),
           st'.seen \in [Evses -> SeenRecords],
           st'.restored \in [Evses -> Ids \union {None}],
           \A e \in Evses : EvseOK(s, e, place', cancel', apply'[e], phase', lo)
    PROVE  GInv'
<1>1. CommandsOK'  BY DEF RInv
<1>2. ASSUME NEW e \in Evses PROVE EvseOK(st', e, place', cancel', apply'[e], phase', Lost')
  <2>1. Named(place', apply'[e])  BY <1>1 DEF CommandsOK, Named, Ids
  <2>2. EvseOK(st', e, place', cancel', apply'[e], phase', lo)  BY <2>1, ShrinksOK
  <2>3. PICK n : n = Lost'  OBVIOUS
  <2>4. Backed(st', e, place', cancel', apply'[e], n)
    BY <2>2, <2>3 DEF EvseOK, CoreOK, Backed, LostKept
  <2>5. EvseOK(st', e, place', cancel', apply'[e], phase', n)  BY <2>2, <2>4 DEF EvseOK, CoreOK
  <2> QED  BY <2>3, <2>5
<1> QED  BY <1>2 DEF GInv

\* One that shrinks the book, the commands left alone.
LEMMA StepShrinks ==
    ASSUME RInv, RInv', GInv, Shrinks(st, st'), st' \in Handlers(st.seen, st.restored),
           UNCHANGED <<place, cancel, apply, phase>>, LostKept(Lost)
    PROVE  GInv'
<1>1. st'.seen = st.seen /\ st'.restored = st.restored  BY DEF Handlers
<1> QED  BY <1>1, StepFrom DEF GInv

LEMMA PlaceStartsAgrees ==
    ASSUME RInv, RInv', GInv, NEW r \in Requests, PlaceStarts(r)
    PROVE  GInv'
<1>1. /\ st' = st /\ phase' = phase /\ cancel' = cancel /\ apply' = apply
      /\ place' = [at |-> "making", r |-> r, replaced |-> EvseOf(st, r.id)]
      /\ place.at = "idle" /\ hist' = hist
  BY DEF PlaceStarts
<1>2. LostKept(Lost)  BY <1>1, SameLost
<1>3. ASSUME NEW e \in Evses PROVE EvseOK(st, e, place', cancel, apply[e], phase, Lost)
  <2>1. EvseOK(st, e, place, cancel, apply[e], phase, Lost)  BY NowAt
  <2>2. e \in EvseOf(st, r.id) <=> HasId(st, e, r.id)  BY EvseOfIs
  <2>4. place'.at = "making" /\ place'.r = r /\ place'.replaced = EvseOf(st, r.id)
    BY <1>1
  <2>5. Backed(st, e, place', cancel, apply[e], Lost)
    BY <1>1, <2>1, <2>4 DEF EvseOK, CoreOK, Backed
  <2>6. Placed(st, e, place')  BY <2>2, <2>4 DEF Placed
  <2>7. Owed(st, e, place', apply[e])
    BY <1>1, <2>1 DEF EvseOK, Owed
  <2> QED  BY <2>1, <2>5, <2>6, <2>7 DEF EvseOK, CoreOK
<1> QED  BY <1>1, <1>2, <1>3, ShrinksSelf, StepFrom DEF GInv

LEMMA PlaceMakesAgrees ==
    ASSUME RInv, RInv', GInv, PlaceMakes
    PROVE  GInv'
<1>1. PICK r : r = place.r  OBVIOUS
<1>2. PICK t : t = Cancel(st, r.id)  OBVIOUS
<1>3. r \in Requests /\ r.id \in Ids  BY <1>1, Now DEF PlaceMakes, CommandsOK, Ids
<1>0. /\ phase' = phase /\ cancel' = cancel /\ apply' = apply /\ place.at = "making"
      /\ \/ place' = [place EXCEPT !.at = "refused"] /\ UNCHANGED <<st, hist>>
         \/ /\ place' = [place EXCEPT !.at = IF CanMake(t, r) THEN "made" ELSE "refused"]
            /\ st' = IF CanMake(t, r) THEN Add(t, r) ELSE t
            /\ \E x : hist' = History(st', x, hist.lost)
  <2>1. PICK made : made = IF CanMake(t, r) THEN {r.id} ELSE {}  OBVIOUS
  <2>2. made = {} <=> ~CanMake(t, r)  BY <2>1
  <2> QED  BY <1>1, <1>2, <2>1, <2>2 DEF PlaceMakes, Make
\* The expiry time has passed.
<1>13. CASE place' = [place EXCEPT !.at = "refused"] /\ UNCHANGED <<st, hist>>
  <2>1. place'.at = "refused" /\ place'.r = r /\ place'.replaced = place.replaced
    BY <1>1, <1>13, Now DEF CommandsOK
  <2>2. LostKept(Lost)  BY <1>13, SameLost
  <2>3. ASSUME NEW e \in Evses PROVE EvseOK(st, e, place', cancel, apply[e], phase, Lost)
    <3>1. EvseOK(st, e, place, cancel, apply[e], phase, Lost)  BY NowAt
    <3>2. Backed(st, e, place', cancel, apply[e], Lost)
      BY <1>0, <3>1 DEF EvseOK, CoreOK, Backed
    <3>3. Placed(st, e, place') /\ Owed(st, e, place', apply[e])
      BY <1>0, <2>1, <3>1 DEF EvseOK, Placed, Owed
    <3> QED  BY <3>1, <3>2, <3>3 DEF EvseOK, CoreOK
  <2> QED  BY <1>0, <1>13, <2>2, <2>3, ShrinksSelf, StepFrom DEF GInv
<1>14. SUFFICES ASSUME /\ place' = [place EXCEPT !.at = IF CanMake(t, r) THEN "made" ELSE "refused"]
                       /\ st' = IF CanMake(t, r) THEN Add(t, r) ELSE t
                       /\ \E x : hist' = History(st', x, hist.lost)
                PROVE  GInv'
  BY <1>0, <1>13
<1>4. /\ phase' = phase /\ cancel' = cancel /\ apply' = apply
      /\ place' = [place EXCEPT !.at = IF CanMake(t, r) THEN "made" ELSE "refused"]
      /\ st' = IF CanMake(t, r) THEN Add(t, r) ELSE t
      /\ place.at = "making"
  BY <1>0, <1>14
<1>5. place' = [at |-> IF CanMake(t, r) THEN "made" ELSE "refused",
                r |-> r, replaced |-> place.replaced]
  BY <1>1, <1>4, Now DEF CommandsOK
<1>6. /\ t \in Handlers(st.seen, st.restored) /\ HandlerOK(t)
      /\ t.timers = st.timers \ {r.id}
  BY <1>2, Now, CancelKeeps DEF Fewer
<1>7. /\ t.em = st.em /\ t.events = st.events
      /\ \A e \in Evses : t.evse_reservations[e] =
            IF HasId(st, e, r.id) THEN None ELSE st.evse_reservations[e]
  BY <1>2, Now, CancelIs
<1>8. /\ st' \in Handlers(st.seen, st.restored)
      /\ st'.em = st.em /\ st'.events = st.events
      /\ \A e \in Evses : st'.evse_reservations[e] =
            IF CanMake(t, r) /\ e = r.evse THEN r ELSE t.evse_reservations[e]
  <2>1. CASE ~CanMake(t, r)  BY <1>4, <1>6, <1>7, <2>1
  <2>2. CASE CanMake(t, r)
    <3>1. st' = Add(t, r)  BY <1>4, <2>2
    <3>2. r.evse # None => t.evse_reservations[r.evse] = None  BY <2>2 DEF CanMake
    <3>3. st' \in Handlers(st.seen, st.restored)  BY <1>3, <1>6, <3>1, <3>2, AddKeeps
    <3> QED  BY <1>3, <1>6, <1>7, <2>2, <3>1, <3>3, AddIs
  <2> QED  BY <2>1, <2>2
<1>9. st'.seen = st.seen /\ st'.restored = st.restored  BY <1>8 DEF Handlers
<1>10. LostKept(Lost)  BY <1>14, StepLost
<1>11. ASSUME NEW e \in Evses PROVE EvseOK(st', e, place', cancel, apply[e], phase, Lost)
  <2>1. EvseOK(st, e, place, cancel, apply[e], phase, Lost)  BY NowAt
  <2>3. /\ place'.at \in {"made", "refused"} /\ (CanMake(t, r) => place'.at = "made")
        /\ place'.r = r /\ place'.replaced = place.replaced
    BY <1>5
  <2>4. CanMake(t, r) /\ e = r.evse =>
           Suitable(e, r.type) /\ t.evse_reservations[e] = None /\ r # None
    <3>1. None \notin Evses /\ None \notin Requests
      BY ReservationAssumption DEF ReservationAssumption
    <3> QED  BY <1>3, <3>1 DEF CanMake
  <2>5. st'.evse_reservations[e] =
            IF CanMake(t, r) /\ e = r.evse THEN r
            ELSE IF HasId(st, e, r.id) THEN None ELSE st.evse_reservations[e]
    BY <1>7, <1>8
  <2>6. CanMake(t, r) /\ e = r.evse => HasId(st, e, r.id) \/ st.evse_reservations[e] = None
    BY <1>7, <2>4
  <2>7. Backed(st', e, place', cancel, apply[e], Lost)
    BY <1>1, <1>4, <1>8, <2>1, <2>3, <2>4, <2>5, <2>6
    DEF EvseOK, CoreOK, Backed, Placed, HasId
  <2>8. Placed(st', e, place')
    BY <1>1, <1>4, <1>8, <2>1, <2>3 DEF EvseOK, CoreOK, Placed
  <2>9. ManagerOK(st', e, phase) /\ Booted(st', e, phase)
    BY <1>8, <1>9, <2>1 DEF EvseOK, CoreOK, ManagerOK, Booted, Told
  <2>10. Suits(st', e)
    BY <2>1, <2>4, <2>5 DEF EvseOK, CoreOK, Suits
  <2>11. Owed(st', e, place', apply[e])
    BY <1>1, <1>4, <1>8, <1>9, <2>1, <2>3, <2>5 DEF EvseOK, Owed, Told
  <2>12. RestoredOK(st', e, apply[e], phase)
    BY <1>8, <1>9, <2>1 DEF EvseOK, RestoredOK, Told
  <2> QED  BY <2>7, <2>8, <2>9, <2>10, <2>11, <2>12 DEF EvseOK, CoreOK
<1> QED  BY <1>4, <1>9, <1>10, <1>11, ShrinksSelf, StepFrom DEF GInv

LEMMA PlaceReleasesAgrees ==
    ASSUME RInv, RInv', GInv, PlaceReleases
    PROVE  GInv'
<1>1. PICK D : D = Dropped  OBVIOUS
<1>2. \A e \in Evses : e \in D <=> e \in place.replaced /\ ~HasId(st, e, place.r.id)
  BY <1>1, EvseOfIs DEF Dropped
<1>3. /\ phase' = phase /\ cancel' = cancel /\ apply' = apply
      /\ place.at \in {"made", "refused"}
      /\ place' = IF place.at = "refused" THEN NotPlacing
                  ELSE [place EXCEPT !.at = "reserving", !.replaced = @ \ D]
      /\ st' = IF D = {} THEN st ELSE Release(st, D)
  BY <1>1 DEF PlaceReleases, ReleaseReplaced, Step
<1>4. \/ place.at = "refused" /\ place'.at = "idle"
      \/ /\ place.at = "made" /\ place'.at = "reserving" /\ place'.r = place.r
         /\ place'.replaced = place.replaced \ D
  BY <1>3, Now DEF CommandsOK, NotPlacing
<1>5. /\ st' \in Handlers(st.seen, st.restored) /\ SameBook(st, st') /\ Shrinks(st, st')
      /\ \A e \in Evses \intersect D : st'.em[e].reserved \notin Ids
  <2>1. CASE D = {}  BY <1>3, <2>1, Now, ShrinksSelf DEF SameBook
  <2>2. CASE D # {}
    <3>1. st' = Release(st, D)  BY <1>3, <2>2
    <3> QED  BY <3>1, Now, ReleaseKeeps, ReleaseShrinks
  <2> QED  BY <2>1, <2>2
<1>6. st'.seen = st.seen /\ st'.restored = st.restored  BY <1>5 DEF Handlers
<1>7. LostKept(Lost)  BY StepLost DEF PlaceReleases, Step
<1>8. ASSUME NEW e \in Evses PROVE EvseOK(st', e, place', cancel, apply[e], phase, Lost)
  <2>1. EvseOK(st', e, place, cancel, apply[e], phase, Lost)  BY <1>5, NowAt, ShrinksOK
  <2>2. e \in D <=> e \in place.replaced /\ ~HasId(st', e, place.r.id)
    BY <1>2, <1>5 DEF SameBook, HasId
  <2>3. e \in D => st'.em[e].reserved \notin Ids  BY <1>5
  <2>5. Backed(st', e, place', cancel, apply[e], Lost)
    BY <1>4, <2>1, <2>2, <2>3 DEF EvseOK, CoreOK, Backed
  <2>6. Placed(st', e, place')
    BY <1>4 DEF Placed
  <2>7. Owed(st', e, place', apply[e])  BY <1>4, <2>1 DEF EvseOK, Owed
  <2> QED  BY <2>1, <2>5, <2>6, <2>7 DEF EvseOK, CoreOK
<1> QED  BY <1>3, <1>6, <1>7, <1>8, ShrinksSelf, StepFrom DEF GInv

\* An EvseManager that has just accepted a reservation, before the update.
Accepting(s, e, id) ==
    /\ s \in Handlers(st.seen, st.restored) /\ SameBook(st, s) /\ s.events = st.events
    /\ s.seen = st.seen /\ s.restored = st.restored
    /\ \A f \in Evses : f # e => s.em[f] = st.em[f]
    /\ e \in Evses => /\ s.em[e] = [st.em[e] EXCEPT !.reserved = id]
                      /\ ~st.em[e].plugged
                      /\ st.em[e].reserved \in {None, "Global", id}
LEMMA Accepted ==
    ASSUME RInv, NEW e, NEW id \in Ids, NEW s, s = EmReserve(st, Evses \intersect {e}, id),
           e \in Evses => EmAccepts(st.em[e], id)
    PROVE  Accepting(s, e, id)
<1>1. PICK es : es = Evses \intersect {e}  OBVIOUS
<1>2. s = EmReserve(st, es, id)  BY <1>1
<1>3. s \in Handlers(st.seen, st.restored) /\ SameBook(st, s)
  BY <1>2, Now, EmReserveKeeps
<1>4. s.seen = st.seen /\ s.restored = st.restored  BY <1>3 DEF Handlers
<1>5. /\ s.events = st.events
      /\ \A f \in Evses : s.em[f] = IF f \in es /\ EmAccepts(st.em[f], id)
            THEN [st.em[f] EXCEPT !.reserved = id] ELSE st.em[f]
  <2>1. PICK x : x = st.seen  OBVIOUS
  <2>2. PICK y : y = st.restored  OBVIOUS
  <2>3. PICK z \in Handlers(x, y) : z = st  BY <2>1, <2>2, Now
  <2>4. s = EmReserve(z, es, id)  BY <1>2, <2>3
  <2>5. ASSUME NEW f \in Evses
        PROVE  /\ s.events = z.events
               /\ s.em[f] = IF f \in es /\ EmAccepts(z.em[f], id)
                            THEN [z.em[f] EXCEPT !.reserved = id] ELSE z.em[f]
    BY <2>4, EmReserveIs
  <2>6. s.events = z.events  BY <2>4, EmReserveIs
  <2> QED  BY <2>3, <2>5, <2>6
<1>6. \A f \in Evses : f # e => s.em[f] = st.em[f]  BY <1>1, <1>5
<1>7. ASSUME e \in Evses
      PROVE  /\ s.em[e] = [st.em[e] EXCEPT !.reserved = id]
             /\ ~st.em[e].plugged /\ st.em[e].reserved \in {None, "Global", id}
  BY <1>1, <1>5, <1>7 DEF EmAccepts
<1> QED  BY <1>3, <1>4, <1>5, <1>6, <1>7 DEF Accepting

LEMMA PlaceReservesAgrees ==
    ASSUME RInv, RInv', GInv, PlaceReserves
    PROVE  GInv'
<1>1. PICK r : r = place.r  OBVIOUS
<1>2. /\ place.at = "reserving" /\ r \in Requests /\ r.id \in Ids
      /\ UNCHANGED <<cancel, apply, phase>> /\ place.at # "idle"
  BY <1>1, Now DEF PlaceReserves, CommandsOK, Ids
<1>3. None \notin Evses /\ (r.evse # None => r.evse \in Evses)
  BY <1>2, ReservationAssumption DEF ReservationAssumption
<1>4. CASE /\ r.evse # None => EmAccepts(st.em[r.evse], r.id)
           /\ Step(CallReserved(r.evse, r.id))
           /\ place' = [place EXCEPT !.at = "checking"]
  <2>1. PICK id \in Ids : id = r.id  BY <1>2
  <2>2. PICK s : s = EmReserve(st, Evses \intersect {r.evse}, id)  OBVIOUS
  <2>3. st' = Update(s)  BY <1>4, <2>1, <2>2 DEF Step, CallReserved
  <2>4. /\ s \in Handlers(st.seen, st.restored) /\ SameBook(st, s) /\ s.events = st.events
        /\ s.seen = st.seen /\ s.restored = st.restored
        /\ \A f \in Evses : f # r.evse => s.em[f] = st.em[f]
        /\ r.evse \in Evses => /\ s.em[r.evse] = [st.em[r.evse] EXCEPT !.reserved = id]
                               /\ ~st.em[r.evse].plugged
                               /\ st.em[r.evse].reserved \in {None, "Global", id}
    <3>1. r.evse \in Evses => EmAccepts(st.em[r.evse], id)  BY <1>3, <1>4, <2>1
    <3>2. PICK e : e = r.evse  OBVIOUS
    <3>3. s = EmReserve(st, Evses \intersect {e}, id) /\ (e \in Evses => EmAccepts(st.em[e], id))
      BY <2>2, <3>1, <3>2
    <3>4. Accepting(s, e, id)  BY <3>3, Accepted
    <3> QED  BY <3>2, <3>4 DEF Accepting
  <2>5. place'.at = "checking" /\ place'.r = r /\ place'.replaced = place.replaced
    BY <1>1, <1>4, Now DEF CommandsOK
  <2>6. Shrinks(s, st') /\ st' \in Handlers(st.seen, st.restored)
    BY <2>3, <2>4, UpdateShrinks, UpdateKeeps
  <2>7. st'.seen = st.seen /\ st'.restored = st.restored  BY <2>6 DEF Handlers
  <2>8. LostKept(Lost)  BY <1>4, StepLost DEF Step
  <2>9. ASSUME NEW e \in Evses PROVE EvseOK(s, e, place', cancel, apply[e], phase, Lost)
    <3>1. EvseOK(st, e, place, cancel, apply[e], phase, Lost) /\ st.em[e] \in EmRecords  BY NowAt
    <3>2. s.evse_reservations = st.evse_reservations /\ s.timers = st.timers
      BY <2>4 DEF SameBook
    <3>3. /\ s.em[e].plugged = st.em[e].plugged /\ s.em[e].authorized = st.em[e].authorized
          /\ s.em[e].transaction = st.em[e].transaction
          /\ e # r.evse => s.em[e].reserved = st.em[e].reserved
          /\ e = r.evse => /\ s.em[e].reserved = r.id /\ ~st.em[e].plugged
                           /\ st.em[e].reserved \in {None, "Global", r.id}
      <4>1. CASE e # r.evse  BY <2>4, <4>1
      <4>2. CASE e = r.evse
        <5>1. /\ s.em[e] = [st.em[e] EXCEPT !.reserved = id] /\ ~st.em[e].plugged
              /\ st.em[e].reserved \in {None, "Global", id}
          BY <2>4, <4>2
        <5> QED  BY <2>1, <3>1, <4>2, <5>1, OnlyReserved
      <4> QED  BY <4>1, <4>2
    <3>4. Backed(s, e, place', cancel, apply[e], Lost)
      BY <1>2, <2>5, <3>1, <3>2, <3>3 DEF EvseOK, CoreOK, Backed, HasId
    <3>5. Placed(s, e, place')  BY <2>5 DEF Placed
    <3>6. ManagerOK(s, e, phase)  BY <3>1, <3>3 DEF EvseOK, CoreOK, ManagerOK
    <3>7. Booted(s, e, phase) /\ Suits(s, e) /\ RestoredOK(s, e, apply[e], phase)
      BY <2>4, <3>1, <3>2 DEF EvseOK, CoreOK, Booted, Suits, RestoredOK, Told, HasId
    <3>8. Owed(s, e, place', apply[e])
      <4>1. ASSUME st.evse_reservations[e] # None
            PROVE  st.evse_reservations[e].id \notin {None, "Global"}
        BY <4>1, Now, BookIs, IdsApart
      <4> QED  BY <1>1, <2>4, <3>1, <3>2, <3>3, <4>1 DEF EvseOK, Owed, Told
    <3> QED  BY <3>4, <3>5, <3>6, <3>7, <3>8 DEF EvseOK, CoreOK
  <2> QED  BY <1>2, <2>6, <2>7, <2>8, <2>9, StepFrom DEF GInv
<1>5. CASE place' = [place EXCEPT !.at = "failing"] /\ UNCHANGED <<st, over, hist>>
  <2>1. place'.at = "failing" /\ place'.r = r /\ place'.replaced = place.replaced
    BY <1>1, <1>5, Now DEF CommandsOK
  <2>2. LostKept(Lost)  BY <1>5, SameLost
  <2>3. ASSUME NEW e \in Evses PROVE EvseOK(st, e, place', cancel, apply[e], phase, Lost)
    <3>1. EvseOK(st, e, place, cancel, apply[e], phase, Lost)  BY NowAt
    <3>2. Backed(st, e, place', cancel, apply[e], Lost)
      BY <1>2, <2>1, <3>1 DEF EvseOK, CoreOK, Backed
    <3>3. Placed(st, e, place')
      BY <1>1, <1>2, <2>1, <3>1 DEF EvseOK, CoreOK, Placed
    <3>4. Owed(st, e, place', apply[e])
      BY <1>1, <1>2, <2>1, <3>1 DEF EvseOK, Owed
    <3> QED  BY <3>1, <3>2, <3>3, <3>4 DEF EvseOK, CoreOK
  <2> QED  BY <1>2, <1>5, <2>2, <2>3, ShrinksSelf, StepFrom DEF GInv
<1> QED  BY <1>1, <1>4, <1>5 DEF PlaceReserves

LEMMA PlaceFailsAgrees ==
    ASSUME RInv, RInv', GInv, PlaceFails
    PROVE  GInv'
<1>1. PICK r : r = place.r  OBVIOUS
<1>2. PICK u : u = Cancel(st, r.id)  OBVIOUS
<1>3. PICK gone : gone = {e \in place.replaced : e \notin EvseOf(u, r.id)}  OBVIOUS
<1>4. /\ place.at = "failing" /\ place' = NotPlacing
      /\ st' = IF gone = {} THEN u ELSE Release(u, gone)
      /\ UNCHANGED <<phase, cancel, apply>>
  BY <1>1, <1>2, <1>3 DEF PlaceFails, Refusal
<1>5. /\ u \in Handlers(st.seen, st.restored) /\ HandlerOK(u)
      /\ u.timers = st.timers \ {r.id}
  BY <1>2, Now, CancelKeeps DEF Fewer
<1>6. /\ u.em = st.em /\ u.events = st.events
      /\ \A e \in Evses : u.evse_reservations[e] =
            IF HasId(st, e, r.id) THEN None ELSE st.evse_reservations[e]
  BY <1>2, Now, CancelIs
<1>7. \A e \in Evses : e \in gone <=> e \in place.replaced
  BY <1>3, <1>6, EvseOfIs DEF HasId
<1>8. /\ st' \in Handlers(st.seen, st.restored) /\ SameBook(u, st') /\ Shrinks(u, st')
      /\ \A e \in Evses \intersect gone : st'.em[e].reserved \notin Ids
  <2>1. CASE gone = {}  BY <1>4, <1>5, <2>1, ShrinksSelf DEF SameBook
  <2>2. CASE gone # {}
    <3>1. st' = Release(u, gone)  BY <1>4, <2>2
    <3> QED  BY <1>5, <3>1, ReleaseKeeps, ReleaseShrinks
  <2> QED  BY <2>1, <2>2
<1>9. st'.seen = st.seen /\ st'.restored = st.restored /\ u.seen = st.seen
      /\ u.restored = st.restored
  BY <1>5, <1>8 DEF Handlers
<1>10. place'.at = "idle"  BY <1>4 DEF NotPlacing
<1>13. PICK es : es = EvseOf(st, r.id) \ gone  OBVIOUS
<1>14. PICK lo : lo = Lost \union {<<f, st.em[f].reserved>> : f \in es}  OBVIOUS
<1>11. LostKept(lo)
  <2>1. hist' = History(st', hist.stale, hist.lost \union es)
    BY <1>1, <1>2, <1>3, <1>13 DEF PlaceFails, Refusal
  <2> QED  BY <1>14, <2>1, LostStays
<1>12. ASSUME NEW e \in Evses PROVE EvseOK(st', e, place', cancel, apply[e], phase, lo)
  <2>1. EvseOK(st, e, place, cancel, apply[e], phase, Lost)  BY NowAt
  <2>3. ShrinksAt(u, st', e)  BY <1>8 DEF Shrinks
  <2>4. st'.evse_reservations[e] = IF HasId(st, e, r.id) THEN None ELSE st.evse_reservations[e]
    BY <1>6, <1>8 DEF SameBook
  <2>5. Backed(st', e, place', cancel, apply[e], lo)
    <3>1. st'.em[e].reserved \in Ids => e \notin place.replaced  BY <1>7, <1>8
    <3>2. st'.em[e].reserved \in Ids => st'.em[e].reserved = st.em[e].reserved
      BY <1>6, <2>3, IdsApart DEF ShrinksAt
    <3>3. st'.em[e].authorized = st.em[e].authorized  BY <1>6, <2>3 DEF ShrinksAt
    <3>4. st'.em[e].reserved \in Ids /\ HasId(st, e, r.id) => <<e, st'.em[e].reserved>> \in lo
      BY <1>7, <1>13, <1>14, <3>1, <3>2, EvseOfIs
    <3> QED  BY <1>1, <1>4, <1>10, <1>14, <2>1, <2>4, <3>1, <3>2, <3>3, <3>4
             DEF EvseOK, CoreOK, Backed, HasId
  <2>6. Placed(st', e, place')  BY <1>10 DEF Placed
  <2>7. ManagerOK(st', e, phase) /\ Booted(st', e, phase) /\ RestoredOK(st', e, apply[e], phase)
    BY <1>6, <1>9, <2>1, <2>3
    DEF EvseOK, CoreOK, ManagerOK, Booted, RestoredOK, Told, ShrinksAt
  <2>8. Suits(st', e)  BY <2>1, <2>4 DEF EvseOK, CoreOK, Suits
  <2>9. Owed(u, e, place', apply[e])
    BY <1>1, <1>6, <1>9, <2>1 DEF EvseOK, Owed, Told, HasId
  <2>10. Owed(st', e, place', apply[e])  BY <2>3, <2>9, ShrinksOwed
  <2> QED  BY <2>5, <2>6, <2>7, <2>8, <2>10 DEF EvseOK, CoreOK
<1> QED  BY <1>4, <1>9, <1>11, <1>12, ShrinksSelf, StepFrom DEF GInv

LEMMA PlaceChecksAgrees ==
    ASSUME RInv, RInv', GInv, PlaceChecks
    PROVE  GInv'
<1>1. PICK r : r = place.r  OBVIOUS
<1>2. PICK es : es = {r.evse}  OBVIOUS
<1>3. /\ place.at = "checking" /\ place' = NotPlacing
      /\ st' = IF r.evse # None /\ r.evse \notin EvseOf(st, r.id) THEN EmCancel(st, es) ELSE st
      /\ UNCHANGED <<phase, cancel, apply>>
  BY <1>1, <1>2 DEF PlaceChecks, Step
<1>4. /\ st' \in Handlers(st.seen, st.restored) /\ SameBook(st, st') /\ Shrinks(st, st')
      /\ \/ st' = st /\ ~(r.evse # None /\ r.evse \notin EvseOf(st, r.id))
         \/ \A e \in Evses \intersect es : st'.em[e].reserved = None
  <2>1. CASE st' = EmCancel(st, es)  BY <2>1, Now, EmCancelKeeps, EmCancelShrinks
  <2>2. CASE st' = st /\ ~(r.evse # None /\ r.evse \notin EvseOf(st, r.id))
    BY <2>2, Now, ShrinksSelf DEF SameBook
  <2> QED  BY <1>3, <2>1, <2>2
<1>5. st'.seen = st.seen /\ st'.restored = st.restored  BY <1>4 DEF Handlers
<1>6. place'.at = "idle"  BY <1>3 DEF NotPlacing
<1>7. LostKept(Lost)  BY StepLost DEF PlaceChecks, Step
<1>8. ASSUME NEW e \in Evses PROVE EvseOK(st', e, place', cancel, apply[e], phase, Lost)
  <2>1. EvseOK(st', e, place, cancel, apply[e], phase, Lost)  BY <1>4, NowAt, ShrinksOK
  <2>2. e = r.evse => HasId(st', e, r.id) \/ st'.em[e].reserved = None
    <3>1. None \notin Evses  BY ReservationAssumption DEF ReservationAssumption
    <3> QED  BY <1>2, <1>4, <3>1, EvseOfIs
  <2>3. Backed(st', e, place', cancel, apply[e], Lost)
    BY <1>1, <1>3, <1>6, <2>1, <2>2, IdsApart DEF EvseOK, CoreOK, Backed
  <2>4. Placed(st', e, place')  BY <1>6 DEF Placed
  <2>5. Owed(st', e, place', apply[e])  BY <1>3, <2>1 DEF EvseOK, Owed
  <2> QED  BY <2>1, <2>3, <2>4, <2>5 DEF EvseOK, CoreOK
<1> QED  BY <1>3, <1>5, <1>7, <1>8, ShrinksSelf, StepFrom DEF GInv
-----------------------------------------------------------------------------
(* cancel_reservation and the timers. *)

\* A reservation that is ended without telling its EvseManager.
LEMMA Untold ==
    ASSUME NEW s, NEW t, NEW e \in Evses, NEW pl, NEW ca, NEW a, NEW ph, NEW lo, NEW id,
           EvseOK(s, e, pl, ca, a, ph, lo),
           t.em[e] = s.em[e], t.events[e] = s.events[e], t.seen[e] = s.seen[e],
           t.restored[e] = s.restored[e], t.timers = s.timers \ {id},
           t.evse_reservations[e] = IF HasId(s, e, id) THEN None ELSE s.evse_reservations[e]
    PROVE  /\ Placed(t, e, pl) /\ ManagerOK(t, e, ph) /\ Booted(t, e, ph) /\ Suits(t, e)
           /\ Owed(t, e, pl, a) /\ RestoredOK(t, e, a, ph)
           /\ ~(HasId(s, e, id) /\ s.em[e].reserved = id) => Backed(t, e, pl, ca, a, lo)
<1>1. Placed(t, e, pl)  BY DEF EvseOK, CoreOK, Placed, HasId
<1>2. ManagerOK(t, e, ph) /\ Booted(t, e, ph)
  BY DEF EvseOK, CoreOK, ManagerOK, Booted, Told
<1>3. Suits(t, e)  BY DEF EvseOK, CoreOK, Suits
<1>4. Owed(t, e, pl, a)  BY DEF EvseOK, Owed, Told
<1>5. RestoredOK(t, e, a, ph)  BY DEF EvseOK, RestoredOK, Told, HasId
<1>6. ~(HasId(s, e, id) /\ s.em[e].reserved = id) => Backed(t, e, pl, ca, a, lo)
  BY DEF EvseOK, CoreOK, Backed, HasId
<1> QED  BY <1>1, <1>2, <1>3, <1>4, <1>5, <1>6

LEMMA CancelStartsAgrees ==
    ASSUME RInv, RInv', GInv, NEW id \in Ids, CancelStarts(id)
    PROVE  GInv'
<1>1. /\ st' = Cancel(st, id) /\ cancel.at = "idle"
      /\ cancel' = [at |-> "releasing", evse |-> EvseOf(st, id)]
      /\ UNCHANGED <<phase, place, apply>>
  BY DEF CancelStarts, Step
<1>2. st' \in Handlers(st.seen, st.restored) /\ st'.timers = st.timers \ {id}
  BY <1>1, Now, CancelKeeps
<1>3. /\ st'.em = st.em /\ st'.events = st.events
      /\ \A e \in Evses : st'.evse_reservations[e] =
            IF HasId(st, e, id) THEN None ELSE st.evse_reservations[e]
  BY <1>1, Now, CancelIs
<1>4. st'.seen = st.seen /\ st'.restored = st.restored  BY <1>2 DEF Handlers
<1>5. LostKept(Lost)  BY StepLost DEF CancelStarts, Step
<1>6. ASSUME NEW e \in Evses PROVE EvseOK(st', e, place, cancel', apply[e], phase, Lost)
  <2>1. EvseOK(st, e, place, cancel, apply[e], phase, Lost)  BY NowAt
  <2>2. /\ Placed(st', e, place) /\ ManagerOK(st', e, phase) /\ Booted(st', e, phase)
        /\ Suits(st', e) /\ Owed(st', e, place, apply[e]) /\ RestoredOK(st', e, apply[e], phase)
        /\ ~(HasId(st, e, id) /\ st.em[e].reserved = id) =>
              Backed(st', e, place, cancel, apply[e], Lost)
    <3>1. PICK t : t = st'  OBVIOUS
    <3> QED  BY <1>2, <1>3, <1>4, <2>1, <3>1, Untold
  <2>3. cancel'.at = "releasing" /\ (HasId(st, e, id) => e \in cancel'.evse)
    BY <1>1, EvseOfIs
  <2>4. Backed(st', e, place, cancel', apply[e], Lost)
    BY <1>1, <2>2, <2>3 DEF Backed
  <2> QED  BY <2>2, <2>4 DEF EvseOK, CoreOK
<1> QED  BY <1>1, <1>4, <1>5, <1>6, ShrinksSelf, StepFrom DEF GInv

LEMMA CancelReleasesAgrees ==
    ASSUME RInv, RInv', GInv, CancelReleases
    PROVE  GInv'
<1>1. /\ st' = Release(st, cancel.evse) /\ cancel.at = "releasing"
      /\ cancel' = NotCancelling /\ UNCHANGED <<phase, place, apply>>
  BY DEF CancelReleases, Step
<1>2. st' \in Handlers(st.seen, st.restored)  BY <1>1, Now, ReleaseKeeps
<1>3. /\ Shrinks(st, st')
      /\ \A e \in Evses \intersect cancel.evse : st'.em[e].reserved \notin Ids
  BY <1>1, Now, ReleaseShrinks
<1>4. st'.seen = st.seen /\ st'.restored = st.restored  BY <1>2 DEF Handlers
<1>5. LostKept(Lost)  BY StepLost DEF CancelReleases, Step
<1>6. ASSUME NEW e \in Evses PROVE EvseOK(st', e, place, cancel', apply[e], phase, Lost)
  <2>1. EvseOK(st', e, place, cancel, apply[e], phase, Lost)  BY <1>3, NowAt, ShrinksOK
  <2>2. cancel'.at = "idle"  BY <1>1 DEF NotCancelling
  <2>3. e \in cancel.evse => st'.em[e].reserved \notin Ids  BY <1>3
  <2>4. Backed(st', e, place, cancel', apply[e], Lost)
    BY <2>1, <2>2, <2>3 DEF EvseOK, CoreOK, Backed
  <2> QED  BY <2>1, <2>4 DEF EvseOK, CoreOK
<1> QED  BY <1>1, <1>4, <1>5, <1>6, ShrinksSelf, StepFrom DEF GInv

LEMMA TimerExpiresAgrees ==
    ASSUME RInv, RInv', GInv, NEW id \in Ids, TimerExpires(id)
    PROVE  GInv'
<1>1. st' = [st EXCEPT !.armed = st.armed \ {id}] /\ UNCHANGED <<phase, place, cancel, apply>>
  BY DEF TimerExpires
<1>2. st' \in Handlers(st.seen, st.restored)  BY <1>1, Now DEF Handlers
<1>3. /\ st'.timers = st.timers /\ st'.seen = st.seen /\ st'.restored = st.restored
      /\ st'.evse_reservations = st.evse_reservations
      /\ st'.em = st.em /\ st'.events = st.events
  BY <1>1, Now DEF Handlers
<1>4. Shrinks(st, st')  BY <1>3 DEF Shrinks, ShrinksAt
<1>5. LostKept(Lost)  BY <1>3, SameLost DEF TimerExpires
<1> QED  BY <1>1, <1>2, <1>4, <1>5, StepShrinks

LEMMA ExpiryRunsAgrees ==
    ASSUME RInv, RInv', GInv, ExpiryRuns
    PROVE  GInv'
<1>1. PICK id : id = Head(expired)  OBVIOUS
<1>2. st' = CancelAndTell(st, id) /\ UNCHANGED <<phase, place, cancel, apply>>
  BY <1>1 DEF ExpiryRuns, Step
<1>3. st' \in Handlers(st.seen, st.restored) /\ Shrinks(st, st')
  BY <1>2, Now, CancelAndTellKeeps, CancelAndTellShrinks
<1>4. LostKept(Lost)  BY StepLost DEF ExpiryRuns, Step
<1> QED  BY <1>2, <1>3, <1>4, StepShrinks
-----------------------------------------------------------------------------
(* Session events. *)

\* What an event changes in what is known of the EVSE.
LEMMA AfterEventIs ==
    ASSUME NEW v \in SeenRecords, NEW event \in EventNames, NEW w, w = AfterEvent(v, event)
    PROVE  /\ w \in SeenRecords
           /\ event = "TransactionStarted" => w.connector # "AVAILABLE"
           /\ v.connector \in {"AVAILABLE", "UNAVAILABLE"} /\ event # "TransactionStarted" =>
                 /\ w.connector \in {"AVAILABLE", "UNAVAILABLE"}
                 /\ w.connector = "AVAILABLE" =>
                       \/ w.reported_enabled
                       \/ /\ v.connector = "AVAILABLE" /\ event # "Enabled"
                          /\ w.reported_enabled = v.reported_enabled
<1>1. PICK c \in ConnectorStates : c = v.connector  BY DEF SeenRecords
<1>2. CASE event \in {"SessionStarted", "ReservationEnd"}
  <2>1. w = v \/ w = [v EXCEPT !.plugged_in = TRUE]  BY <1>2 DEF AfterEvent
  <2>2. w \in SeenRecords /\ w.connector = v.connector /\ w.reported_enabled = v.reported_enabled
    BY <2>1 DEF SeenRecords
  <2> QED  BY <1>2, <2>2
<1>3. CASE event = "TransactionStarted"
  <2>1. PICK d : d = ConnectorNext(c, "TRANSACTION_STARTED")  OBVIOUS
  <2>2. d \in ConnectorStates /\ d # "AVAILABLE"
    BY <2>1 DEF ConnectorNext, ConnectorStates
  <2>3. w = [v EXCEPT !.plugged_in = TRUE, !.connector = d]
    BY <1>1, <1>3, <2>1 DEF AfterEvent
  <2>4. w \in SeenRecords /\ w.connector = d  BY <2>2, <2>3 DEF SeenRecords
  <2> QED  BY <1>3, <2>2, <2>4
<1>4. CASE event = "SessionFinished"
  <2>1. PICK d : d = ConnectorNext(c, "SESSION_FINISHED")  OBVIOUS
  <2>2. d \in ConnectorStates /\ (c \in {"AVAILABLE", "UNAVAILABLE"} => d = c)
    BY <2>1 DEF ConnectorNext, ConnectorStates
  <2>3. w = [v EXCEPT !.plugged_in = FALSE, !.connector = d]
    BY <1>1, <1>4, <2>1 DEF AfterEvent
  <2>4. w \in SeenRecords /\ w.connector = d /\ w.reported_enabled = v.reported_enabled
    BY <2>2, <2>3 DEF SeenRecords
  <2> QED  BY <1>1, <1>4, <2>2, <2>4
<1>5. CASE event = "Disabled"
  <2>1. PICK d : d = ConnectorNext(c, "DISABLE")  OBVIOUS
  <2>2. d \in ConnectorStates /\ (c \in {"AVAILABLE", "UNAVAILABLE"} => d = "UNAVAILABLE")
    BY <2>1 DEF ConnectorNext, ConnectorStates
  <2>3. w = [v EXCEPT !.reported_enabled = FALSE, !.connector = d]
    BY <1>1, <1>5, <2>1 DEF AfterEvent
  <2>4. w \in SeenRecords /\ w.connector = d  BY <2>2, <2>3 DEF SeenRecords
  <2> QED  BY <1>1, <1>5, <2>2, <2>4
<1>6. CASE event = "Enabled"
  <2>1. PICK d : d = ConnectorNext(c, "ENABLE")  OBVIOUS
  <2>2. d \in ConnectorStates /\ (c \in {"AVAILABLE", "UNAVAILABLE"} => d = "AVAILABLE")
    BY <2>1 DEF ConnectorNext, ConnectorStates
  <2>3. w = [v EXCEPT !.reported_enabled = TRUE, !.connector = d]
    BY <1>1, <1>6, <2>1 DEF AfterEvent
  <2>4. w \in SeenRecords /\ w.connector = d /\ w.reported_enabled
    BY <2>2, <2>3 DEF SeenRecords
  <2> QED  BY <1>1, <1>6, <2>2, <2>4
<1> QED  BY <1>2, <1>3, <1>4, <1>5, <1>6 DEF EventNames

\* The event is off the queue and what it says is known: what it was to do is
\* owed, everything else is as before.
EventSeen(s, e, event) ==
    /\ s \in Handlers(s.seen, st.restored) /\ HandlerOK(s) /\ SameBook(st, s)
    /\ s.seen \in [Evses -> SeenRecords]
    /\ event = "TransactionStarted" => s.seen[e].connector # "AVAILABLE"
    /\ \A f \in Evses :
          /\ CoreOK(s, f, place, cancel, apply[f], phase, Lost)
          /\ f # e \/ event \notin {"ReservationEnd", "TransactionStarted"} =>
                Owed(s, f, place, apply[f])
          /\ f # e \/ event # "Enabled" => RestoredOK(s, f, apply[f], phase)
          /\ RestoredOK(st, f, apply[f], phase)
LEMMA EventIsSeen ==
    ASSUME RInv, GInv, NEW e \in Evses, phase # "loading", st.events[e] # <<>>, NEW event,
           event = Head(st.events[e]), NEW s,
           s = [st EXCEPT !.events[e] = Tail(@), !.seen[e] = AfterEvent(@, event)]
    PROVE  EventSeen(s, e, event)
<1> DEFINE q == [st.events EXCEPT ![e] = Tail(@)]
           z == [st.seen EXCEPT ![e] = AfterEvent(@, event)]
<1>1. st.events \in EventQueues /\ st.events[e] \in Seq(EventNames)
  BY Now, NowAt DEF Handlers
<1>2. /\ event \in EventNames
      /\ Range(st.events[e]) = Range(Tail(st.events[e])) \union {event}
  BY <1>1, RangeTail
<1>3. q \in EventQueues /\ \A f \in Evses : f # e => q[f] = st.events[f]
  <2>1. Tail(st.events[e]) \in Seq(EventNames)  BY <1>1
  <2> QED  BY <1>1, <2>1 DEF EventQueues
<1>4. q[e] = Tail(st.events[e])  BY <1>1 DEF EventQueues
<1>5. st.seen \in [Evses -> SeenRecords]  BY DEF GInv
<1>6. PICK w : w = AfterEvent(st.seen[e], event)  OBVIOUS
<1>7. st.seen[e] \in SeenRecords  BY NowAt
<1>8. /\ w \in SeenRecords
      /\ event = "TransactionStarted" => w.connector # "AVAILABLE"
      /\ st.seen[e].connector \in {"AVAILABLE", "UNAVAILABLE"} /\ event # "TransactionStarted" =>
            /\ w.connector \in {"AVAILABLE", "UNAVAILABLE"}
            /\ w.connector = "AVAILABLE" =>
                  \/ w.reported_enabled
                  \/ /\ st.seen[e].connector = "AVAILABLE" /\ event # "Enabled"
                     /\ w.reported_enabled = st.seen[e].reported_enabled
  BY <1>2, <1>6, <1>7, AfterEventIs
<1>9. /\ z \in [Evses -> SeenRecords] /\ z[e] = w
      /\ \A f \in Evses : f # e => z[f] = st.seen[f]
  BY <1>5, <1>6, <1>8
<1>10. s = [st EXCEPT !.events = q, !.seen = z]  OBVIOUS
<1> HIDE DEF q, z
<1>11. /\ s \in Handlers(z, st.restored) /\ SameBook(st, s) /\ s.seen = z
       /\ s.restored = st.restored /\ s.em = st.em /\ s.events = q
  <2>1. st \in Handlers(st.seen, st.restored)  BY Now
  <2> QED  BY <1>3, <1>10, <2>1 DEF Handlers, SameBook
<1>12. HandlerOK(s)  BY <1>11, Now, BookKept DEF Fewer
<1>13. s.evse_reservations = st.evse_reservations /\ s.timers = st.timers
  BY <1>11 DEF SameBook
<1>14. ASSUME NEW f \in Evses
       PROVE  /\ CoreOK(s, f, place, cancel, apply[f], phase, Lost)
              /\ f # e \/ event \notin {"ReservationEnd", "TransactionStarted"} =>
                    Owed(s, f, place, apply[f])
              /\ f # e \/ event # "Enabled" => RestoredOK(s, f, apply[f], phase)
              /\ RestoredOK(st, f, apply[f], phase)
  <2>1. EvseOK(st, f, place, cancel, apply[f], phase, Lost)  BY NowAt
  <2>2. f # e => s.events[f] = st.events[f] /\ s.seen[f] = st.seen[f]
    BY <1>3, <1>9, <1>11
  <2>3. f = e => /\ Range(st.events[f]) = Range(s.events[f]) \union {event}
                 /\ s.seen[f] = w
    BY <1>2, <1>4, <1>9, <1>11
  <2>4. Backed(s, f, place, cancel, apply[f], Lost) /\ Placed(s, f, place)
    BY <1>11, <1>13, <2>1 DEF EvseOK, CoreOK, Backed, Placed, HasId
  <2>5. ManagerOK(s, f, phase) /\ Suits(s, f)
    BY <1>11, <1>13, <2>1 DEF EvseOK, CoreOK, ManagerOK, Suits
  <2>6. Booted(s, f, phase)
    <3>1. CASE f # e  BY <2>1, <2>2, <3>1 DEF EvseOK, CoreOK, Booted, Told
    <3>2. CASE f = e
      BY <1>8, <2>1, <2>3, <3>2 DEF EvseOK, CoreOK, Booted, Told
    <3> QED  BY <3>1, <3>2
  <2>7. f # e \/ event \notin {"ReservationEnd", "TransactionStarted"} =>
           Owed(s, f, place, apply[f])
    BY <1>11, <1>13, <2>1, <2>2, <2>3 DEF EvseOK, Owed, Told
  <2>8. f # e \/ event # "Enabled" => RestoredOK(s, f, apply[f], phase)
    BY <1>11, <1>13, <2>1, <2>2, <2>3 DEF EvseOK, RestoredOK, Told, HasId
  <2> QED  BY <2>1, <2>4, <2>5, <2>6, <2>7, <2>8 DEF EvseOK, CoreOK
<1>15. event = "TransactionStarted" => s.seen[e].connector # "AVAILABLE"
  BY <1>8, <1>9, <1>11
<1> QED  BY <1>9, <1>11, <1>12, <1>14, <1>15 DEF EventSeen

\* take_restored_reservation: what was restored is now being applied.
LEMMA RestoredTaken ==
    ASSUME NEW t, HandlerOK(t), NEW e \in Evses, NEW pl, NEW ca, NEW a, NEW b, NEW ph, NEW lo, NEW v,
           CoreOK(t, e, pl, ca, a, ph, lo), Owed(t, e, pl, a),
           a.at # "idle" => t.restored[e] = None,
           v.em = t.em, v.events = t.events, v.seen = t.seen, v.timers = t.timers,
           v.evse_reservations = t.evse_reservations, v.restored[e] = None,
           \/ Restored(t, e) # {} /\ b.at = "reserving" /\ b.id = t.restored[e]
           \/ Restored(t, e) = {} /\ b = a
    PROVE  EvseOK(v, e, pl, ca, b, ph, lo)
<1>1. Restored(t, e) # {} <=> HasId(t, e, t.restored[e])
  BY DEF Restored, ReservedEvses, HasId
<1>2. HasId(t, e, t.restored[e]) => t.restored[e] # None
  BY BookIs, IdsApart DEF HasId
<1>3. /\ HasId(t, e, t.restored[e]) => a.at = "idle" /\ b.at = "reserving" /\ b.id = t.restored[e]
      /\ ~HasId(t, e, t.restored[e]) => b = a
  BY <1>1, <1>2
<1>4. Backed(v, e, pl, ca, b, lo)  BY <1>3 DEF CoreOK, Backed, HasId
<1>5. Placed(v, e, pl) /\ ManagerOK(v, e, ph) /\ Booted(v, e, ph) /\ Suits(v, e)
  BY DEF CoreOK, Placed, ManagerOK, Booted, Suits, HasId, Told
<1>6. Owed(v, e, pl, b)  BY <1>3 DEF Owed, Told, HasId
<1>7. RestoredOK(v, e, b, ph)  BY <1>3 DEF RestoredOK, HasId
<1> QED  BY <1>4, <1>5, <1>6, <1>7 DEF EvseOK, CoreOK

LEMMA TakenIs ==
    ASSUME NEW x, NEW y \in [Evses -> Ids \union {None}], NEW t \in Handlers(x, y), NEW es,
           NEW v, v = Taken(t, es)
    PROVE  /\ v.em = t.em /\ v.events = t.events /\ v.seen = t.seen /\ v.timers = t.timers
           /\ v.evse_reservations = t.evse_reservations
           /\ v.restored \in [Evses -> Ids \union {None}]
           /\ \A e \in Evses : v.restored[e] = IF e \in es THEN None ELSE t.restored[e]
<1>1. PICK z : z = [e \in Evses |-> IF e \in es THEN None ELSE t.restored[e]]  OBVIOUS
<1>2. v = [t EXCEPT !.restored = z]  BY <1>1 DEF Taken
<1>3. /\ v.em = t.em /\ v.events = t.events /\ v.seen = t.seen /\ v.timers = t.timers
      /\ v.evse_reservations = t.evse_reservations /\ v.restored = z /\ t.restored = y
  BY <1>2 DEF Handlers
<1> QED  BY <1>1, <1>3

LEMMA ApplyAtIs ==
    ASSUME NEW t, NEW es, NEW boot, ApplyAt(t, es, boot), NEW f \in Evses
    PROVE  /\ f \in es /\ Restored(t, f) # {} =>
                 apply'[f].at = "reserving" /\ apply'[f].id = t.restored[f]
           /\ ~(f \in es /\ Restored(t, f) # {}) => apply'[f] = apply[f]
<1>1. PICK b : b = [at |-> "reserving", id |-> t.restored[f], boot |-> boot]  OBVIOUS
<1>2. apply'[f] = IF f \in es /\ Restored(t, f) # {} THEN b ELSE apply[f]
  BY <1>1 DEF ApplyAt
<1>3. b.at = "reserving" /\ b.id = t.restored[f]  BY <1>1
<1> QED  BY <1>2, <1>3

LEMMA HandleSessionEventAgrees ==
    ASSUME RInv, RInv', GInv, NEW e \in Evses, HandleSessionEvent(e)
    PROVE  GInv'
<1>1. PICK event : event = Head(st.events[e])  OBVIOUS
<1>2. PICK s : s = [st EXCEPT !.events[e] = Tail(@), !.seen[e] = AfterEvent(@, event)]
  OBVIOUS
<1>3. /\ phase # "loading" /\ st.events[e] # <<>>
      /\ UNCHANGED <<phase, place, cancel>>
  BY DEF HandleSessionEvent
<1>4. \/ event = "SessionStarted" /\ st' = s /\ UNCHANGED apply
      \/ /\ event = "ReservationEnd"
         /\ st' = IF s.evse_reservations[e] = None THEN s
                  ELSE CancelAndTell(s, s.evse_reservations[e].id)
         /\ UNCHANGED apply
      \/ /\ event \in {"TransactionStarted", "SessionFinished", "Disabled"}
         /\ st' = Update(OnConnectorChange(s, e)) /\ UNCHANGED apply
      \/ /\ event = "Enabled"
         /\ st' = Taken(Update(OnConnectorChange(s, e)), {e})
         /\ ApplyAt(Update(OnConnectorChange(s, e)), {e}, FALSE)
  BY <1>1, <1>2 DEF HandleSessionEvent, Step
<1>0. LostKept(Lost)  BY StepLost DEF HandleSessionEvent, Step
<1>5. EventSeen(s, e, event)  BY <1>1, <1>2, <1>3, EventIsSeen
<1>6. /\ s \in Handlers(s.seen, st.restored) /\ HandlerOK(s) /\ SameBook(st, s)
      /\ s.seen \in [Evses -> SeenRecords]
  BY <1>5 DEF EventSeen
<1>7. st.restored \in [Evses -> Ids \union {None}]  BY DEF GInv
\* A step that shrinks what is seen, the commands left alone.
<1>8. ASSUME NEW t, t \in Handlers(s.seen, st.restored), Shrinks(s, t), st' = t, UNCHANGED apply,
             event # "Enabled", Owed(t, e, place, apply[e])
      PROVE  GInv'
  <2>1. t.seen = s.seen /\ t.restored = st.restored  BY <1>8 DEF Handlers
  <2>3. ASSUME NEW f \in Evses PROVE EvseOK(t, f, place, cancel, apply[f], phase, Lost)
    <3>1. ShrinksAt(s, t, f) /\ t.timers \subseteq s.timers  BY <1>8 DEF Shrinks
    <3>2. Named(place, apply[f])  BY NowAt
    <3>3. CoreOK(t, f, place, cancel, apply[f], phase, Lost)
      BY <1>5, <3>1, <3>2, ShrinksCore DEF EventSeen
    <3>4. RestoredOK(t, f, apply[f], phase)
      BY <1>5, <1>8, <3>1, ShrinksRestored DEF EventSeen
    <3>5. Owed(t, f, place, apply[f])
      <4>1. CASE f = e  BY <1>8, <4>1
      <4>2. CASE f # e  BY <1>5, <3>1, <4>2, ShrinksOwed DEF EventSeen
      <4> QED  BY <4>1, <4>2
    <3> QED  BY <3>3, <3>4, <3>5 DEF EvseOK
  <2> QED  BY <1>0, <1>3, <1>6, <1>7, <1>8, <2>1, <2>3, ShrinksSelf, StepFrom
<1>9. CASE event = "SessionStarted" /\ st' = s /\ UNCHANGED apply
  <2>1. Owed(s, e, place, apply[e])  BY <1>5, <1>9 DEF EventSeen
  <2> QED  BY <1>6, <1>8, <1>9, <2>1, ShrinksSelf
<1>10. CASE /\ event = "ReservationEnd"
            /\ st' = IF s.evse_reservations[e] = None THEN s
                     ELSE CancelAndTell(s, s.evse_reservations[e].id)
            /\ UNCHANGED apply
  <2>1. CASE s.evse_reservations[e] = None
    <3>1. Owed(s, e, place, apply[e])  BY <2>1 DEF Owed
    <3> QED  BY <1>6, <1>8, <1>10, <2>1, <3>1, ShrinksSelf
  <2>2. CASE s.evse_reservations[e] # None
    <3>1. PICK id : id = s.evse_reservations[e].id  OBVIOUS
    <3>2. st' = CancelAndTell(s, id)  BY <1>10, <2>2, <3>1
    <3>3. /\ st' \in Handlers(s.seen, st.restored) /\ Shrinks(s, st')
          /\ ~HasId(st', e, id)
      BY <1>6, <3>2, CancelAndTellKeeps, CancelAndTellShrinks
    <3>4. st'.evse_reservations[e] = None
      BY <2>2, <3>1, <3>3 DEF Shrinks, ShrinksAt, HasId
    <3>5. Owed(st', e, place, apply[e])  BY <3>4 DEF Owed
    <3> QED  BY <1>8, <1>10, <3>3, <3>5
  <2> QED  BY <2>1, <2>2
<1>11. PICK u : u = OnConnectorChange(s, e)  OBVIOUS
<1>12. PICK t : t = Update(u)  OBVIOUS
<1>13. u \in Handlers(s.seen, st.restored) /\ HandlerOK(u) /\ Shrinks(s, u)
  BY <1>6, <1>11, OnConnectorChangeKeeps DEF Fewer
<1>14. /\ t \in Handlers(s.seen, st.restored) /\ SameBook(u, t) /\ Shrinks(u, t)
  BY <1>12, <1>13, UpdateKeeps, UpdateShrinks
<1>15. HandlerOK(t) /\ Shrinks(s, t)
  BY <1>13, <1>14, BookKept, ShrinksMore DEF Fewer
<1>16. CASE /\ event \in {"TransactionStarted", "SessionFinished", "Disabled"}
            /\ st' = t /\ UNCHANGED apply
  <2>1. CASE event # "TransactionStarted"
    <3>1. Owed(s, e, place, apply[e])  BY <1>5, <1>16, <2>1 DEF EventSeen
    <3>2. Owed(t, e, place, apply[e])  BY <1>15, <3>1, ShrinksOwed DEF Shrinks
    <3> QED  BY <1>8, <1>14, <1>15, <1>16, <3>2
  <2>2. CASE event = "TransactionStarted"
    <3>1. PICK r : r = s.evse_reservations[e]  OBVIOUS
    <3>2. t.evse_reservations[e] = None \/ t.evse_reservations[e] = r
      BY <1>15, <3>1 DEF Shrinks, ShrinksAt
    <3>3. r # None /\ r.type # None => t.evse_reservations[e] = None
      <4> SUFFICES ASSUME r # None, r.type # None PROVE t.evse_reservations[e] = None
        OBVIOUS
      <4>1. Suitable(e, r.type)  BY <1>5, <3>1 DEF EventSeen, CoreOK, Suits
      <4>2. s.seen[e].connector # "AVAILABLE"  BY <1>5, <2>2 DEF EventSeen
      <4>3. PICK id : id = r.id  OBVIOUS
      <4>4. u = CancelAndTell(s, id)
        BY <1>11, <3>1, <4>1, <4>2, <4>3 DEF OnConnectorChange
      <4>5. ~HasId(u, e, id)  BY <1>6, <4>4, CancelAndTellShrinks
      <4>6. t.evse_reservations[e] = u.evse_reservations[e]  BY <1>14 DEF SameBook
      <4> QED  BY <3>2, <4>3, <4>5, <4>6 DEF HasId
    <3>4. Owed(t, e, place, apply[e])  BY <3>2, <3>3 DEF Owed
    <3> QED  BY <1>8, <1>14, <1>15, <1>16, <2>2, <3>4
  <2> QED  BY <2>1, <2>2
<1>17. CASE event = "Enabled" /\ st' = Taken(t, {e}) /\ ApplyAt(t, {e}, FALSE)
  <2>1. PICK es : es = {e}  OBVIOUS
  <2>2. PICK v : v = Taken(t, es)  OBVIOUS
  <2>3. /\ v.em = t.em /\ v.events = t.events /\ v.seen = t.seen /\ v.timers = t.timers
        /\ v.evse_reservations = t.evse_reservations
        /\ v.restored \in [Evses -> Ids \union {None}]
        /\ \A f \in Evses : v.restored[f] = IF f \in es THEN None ELSE t.restored[f]
    BY <1>7, <1>14, <2>2, TakenIs
  <2>4. st' = v  BY <1>17, <2>1, <2>2
  <2>5. t.seen = s.seen /\ t.restored = st.restored  BY <1>14 DEF Handlers
  <2>6. ASSUME NEW f \in Evses
        PROVE  /\ f = e /\ Restored(t, f) # {} =>
                     apply'[f].at = "reserving" /\ apply'[f].id = t.restored[f]
               /\ ~(f = e /\ Restored(t, f) # {}) => apply'[f] = apply[f]
    <3>1. PICK boot \in BOOLEAN : boot = FALSE  OBVIOUS
    <3>2. ApplyAt(t, es, boot)  BY <1>17, <2>1, <3>1
    <3> QED  BY <2>1, <3>2, ApplyAtIs
  <2>7. ASSUME NEW f \in Evses PROVE EvseOK(v, f, place, cancel, apply'[f], phase, Lost)
    <3>1. ShrinksAt(s, t, f) /\ t.timers \subseteq s.timers  BY <1>15 DEF Shrinks
    <3>2. Named(place, apply[f])  BY NowAt
    <3>3. CoreOK(t, f, place, cancel, apply[f], phase, Lost)
      BY <1>5, <3>1, <3>2, ShrinksCore DEF EventSeen
    <3>4. Owed(t, f, place, apply[f])
      BY <1>5, <1>17, <3>1, ShrinksOwed DEF EventSeen
    <3>5. CASE f = e
      <4>1. RestoredOK(st, f, apply[f], phase)  BY <1>5 DEF EventSeen
      <4>2. apply[f].at # "idle" => t.restored[f] = None  BY <2>5, <4>1 DEF RestoredOK
      <4>3. v.restored[f] = None  BY <2>1, <2>3, <3>5
      <4>4. PICK b : b = apply'[f]  OBVIOUS
      <4>5. \/ Restored(t, f) # {} /\ b.at = "reserving" /\ b.id = t.restored[f]
            \/ Restored(t, f) = {} /\ b = apply[f]
        BY <2>6, <3>5, <4>4
      <4>6. PICK a : a = apply[f]  OBVIOUS
      <4>7. EvseOK(v, f, place, cancel, b, phase, Lost)
        BY <1>15, <2>3, <3>3, <3>4, <4>2, <4>3, <4>5, <4>6, RestoredTaken
      <4> QED  BY <4>4, <4>7
    <3>6. CASE f # e
      <4>1. apply'[f] = apply[f] /\ v.restored[f] = t.restored[f]
        BY <2>1, <2>3, <2>6, <3>6
      <4>2. RestoredOK(t, f, apply[f], phase)
        BY <1>5, <3>1, <3>6, ShrinksRestored DEF EventSeen
      <4>3. EvseOK(t, f, place, cancel, apply[f], phase, Lost)  BY <3>3, <3>4, <4>2 DEF EvseOK
      <4>4. ShrinksAt(t, v, f) /\ v.timers = t.timers  BY <2>3, <4>1 DEF ShrinksAt
      <4> QED  BY <3>2, <4>1, <4>3, <4>4, ShrinksCore, ShrinksOwed, ShrinksRestored
               DEF EvseOK
    <3> QED  BY <3>5, <3>6
  <2> QED  BY <1>0, <1>3, <1>6, <2>3, <2>4, <2>5, <2>7, ShrinksSelf, StepFrom
<1> QED  BY <1>4, <1>9, <1>10, <1>11, <1>12, <1>16, <1>17

\* apply[e] moves on, the others stay.
LEMMA ApplyIs ==
    ASSUME RInv, NEW e \in Evses,
           \/ apply' = [apply EXCEPT ![e].at = "checking"]
           \/ apply' = [apply EXCEPT ![e] = NotApplying]
    PROVE  /\ \A f \in Evses : f # e => apply'[f] = apply[f]
           /\ \/ /\ apply' = [apply EXCEPT ![e].at = "checking"]
                 /\ apply'[e].at = "checking" /\ apply'[e].id = apply[e].id
              \/ /\ apply' = [apply EXCEPT ![e] = NotApplying]
                 /\ apply'[e].at = "idle"
<1>1. /\ apply = [f \in Evses |-> apply[f]]
      /\ apply[e] = [at |-> apply[e].at, id |-> apply[e].id, boot |-> apply[e].boot]
  BY Now DEF CommandsOK
<1>2. CASE apply' = [apply EXCEPT ![e].at = "checking"]
  <2>1. PICK w : w = [apply[e] EXCEPT !.at = "checking"]  OBVIOUS
  <2>2. w.at = "checking" /\ w.id = apply[e].id  BY <1>1, <2>1
  <2>3. apply' = [apply EXCEPT ![e] = w]  BY <1>2, <2>1
  <2> QED  BY <1>1, <1>2, <2>2, <2>3
<1>3. CASE apply' = [apply EXCEPT ![e] = NotApplying]
  <2>1. PICK w : w = NotApplying  OBVIOUS
  <2>2. w.at = "idle"  BY <2>1 DEF NotApplying
  <2>3. apply' = [apply EXCEPT ![e] = w]  BY <1>3, <2>1
  <2> QED  BY <1>1, <1>3, <2>2, <2>3
<1> QED  BY <1>2, <1>3

LEMMA ApplyReservesAgrees ==
    ASSUME RInv, RInv', GInv, NEW e \in Evses, ApplyReserves(e)
    PROVE  GInv'
<1>1. PICK id \in Ids : id = apply[e].id  BY Now DEF ApplyReserves, CommandsOK
<1>2. apply[e].at = "reserving" /\ UNCHANGED <<phase, place, cancel>>
  BY DEF ApplyReserves
<1>4. /\ \A f \in Evses : f # e => apply'[f] = apply[f]
      /\ \/ /\ apply' = [apply EXCEPT ![e].at = "checking"]
            /\ apply'[e].at = "checking" /\ apply'[e].id = apply[e].id
         \/ /\ apply' = [apply EXCEPT ![e] = NotApplying]
            /\ apply'[e].at = "idle"
  BY ApplyIs DEF ApplyReserves
<1>7. CASE EmAccepts(st.em[e], id) /\ Step(CallReserved(e, id))
           /\ apply' = [apply EXCEPT ![e].at = "checking"]
  <2>1. PICK s : s = EmReserve(st, Evses \intersect {e}, id)  OBVIOUS
  <2>2. st' = Update(s)  BY <1>7, <2>1 DEF Step, CallReserved
  <2>3. Accepting(s, e, id)  BY <1>7, <2>1, Accepted
  <2>4. /\ s \in Handlers(st.seen, st.restored) /\ SameBook(st, s) /\ s.events = st.events
        /\ s.seen = st.seen /\ s.restored = st.restored
        /\ \A f \in Evses : f # e => s.em[f] = st.em[f]
        /\ s.em[e] = [st.em[e] EXCEPT !.reserved = id]
        /\ ~st.em[e].plugged /\ st.em[e].reserved \in {None, "Global", id}
    BY <2>3 DEF Accepting
  <2>5. Shrinks(s, st') /\ st' \in Handlers(st.seen, st.restored)
    BY <2>2, <2>4, UpdateShrinks, UpdateKeeps
  <2>6. st'.seen = st.seen /\ st'.restored = st.restored  BY <2>5 DEF Handlers
  <2>7. apply'[e].at = "checking" /\ apply'[e].id = id
    <3>1. apply[e] = [at |-> apply[e].at, id |-> apply[e].id, boot |-> apply[e].boot]
          /\ apply = [f \in Evses |-> apply[f]]
      BY Now DEF CommandsOK
    <3>2. PICK w : w = [apply[e] EXCEPT !.at = "checking"]  OBVIOUS
    <3>3. w.at = "checking" /\ w.id = id  BY <1>1, <3>1, <3>2
    <3>4. apply' = [apply EXCEPT ![e] = w]  BY <1>7, <3>2
    <3> QED  BY <3>1, <3>3, <3>4
  <2>10. LostKept(Lost)  BY <1>7, StepLost DEF Step
  <2>8. s.evse_reservations = st.evse_reservations /\ s.timers = st.timers
    BY <2>4 DEF SameBook
  <2>9. ASSUME NEW f \in Evses PROVE EvseOK(s, f, place, cancel, apply'[f], phase, Lost)
    <3>1. EvseOK(st, f, place, cancel, apply[f], phase, Lost) /\ st.em[f] \in EmRecords  BY NowAt
    <3>2. CASE f # e
      <4>1. apply'[f] = apply[f]  BY <1>4, <3>2
      <4>2. ShrinksAt(st, s, f) /\ s.timers = st.timers
        BY <2>4, <2>8, <3>2 DEF ShrinksAt
      <4> QED  BY <3>1, <4>1, <4>2, NowAt, ShrinksCore, ShrinksOwed, ShrinksRestored
               DEF EvseOK
    <3>3. CASE f = e
      <4>1. /\ s.em[f].reserved = id /\ s.em[f].plugged = st.em[f].plugged
            /\ s.em[f].authorized = st.em[f].authorized
            /\ s.em[f].transaction = st.em[f].transaction
        BY <2>4, <3>1, <3>3, OnlyReserved
      <4>2. Backed(s, f, place, cancel, apply'[f], Lost)  BY <2>7, <3>3, <4>1 DEF Backed
      <4>3. Placed(s, f, place)
        BY <2>8, <3>1 DEF EvseOK, CoreOK, Placed, HasId
      <4>4. ManagerOK(s, f, phase)
        BY <2>4, <3>1, <3>3, <4>1 DEF EvseOK, CoreOK, ManagerOK
      <4>5. Booted(s, f, phase) /\ Suits(s, f)
        BY <2>4, <2>8, <3>1 DEF EvseOK, CoreOK, Booted, Suits, Told
      <4>6. RestoredOK(s, f, apply'[f], phase)
        BY <1>1, <1>2, <2>4, <2>7, <2>8, <3>1, <3>3 DEF EvseOK, RestoredOK, Told, HasId
      <4>7. Owed(s, f, place, apply'[f])
        <5>1. ASSUME st.evse_reservations[f] # None
              PROVE  st.evse_reservations[f].id \notin {None, "Global"}
          BY <5>1, Now, BookIs, IdsApart
        <5> QED  BY <1>1, <1>2, <2>4, <2>8, <3>1, <3>3, <4>1, <5>1 DEF EvseOK, Owed, Told
      <4> QED  BY <4>2, <4>3, <4>4, <4>5, <4>6, <4>7 DEF EvseOK, CoreOK
    <3> QED  BY <3>2, <3>3
  <2> QED  BY <1>2, <2>5, <2>6, <2>9, <2>10, StepFrom DEF GInv
<1>8. CASE /\ Refusal(IF id \in st.timers THEN Release(Cancel(st, id), {e}) ELSE st,
                     EvseOf(st, id) \ {e})
           /\ apply' = [apply EXCEPT ![e] = NotApplying]
  <2>0. apply'[e].at = "idle"
    <3>1. apply = [f \in Evses |-> apply[f]]  BY Now DEF CommandsOK
    <3>2. apply'[e] = NotApplying  BY <1>8, <3>1
    <3> QED  BY <3>2 DEF NotApplying
  <2>3. PICK gone : gone = EvseOf(st, id) \ {e}  OBVIOUS
  <2>4. PICK lo : lo = Lost \union {<<f, st.em[f].reserved>> : f \in gone}  OBVIOUS
  <2>5. LostKept(lo)
    <3>1. hist' = History(st', hist.stale, hist.lost \union gone)  BY <1>8, <2>3 DEF Refusal
    <3> QED  BY <2>4, <3>1, LostStays
  <2>6. ASSUME NEW f \in Evses PROVE EvseOK(st, f, place, cancel, apply[f], phase, lo)
    <3>1. EvseOK(st, f, place, cancel, apply[f], phase, Lost) /\ Lost \subseteq lo
      BY <2>4, NowAt
    <3> QED  BY <3>1, LostMore
  <2>1. CASE id \notin st.timers
    <3>1. st' = st  BY <1>8, <2>1 DEF Refusal
    <3>2. ASSUME NEW f \in Evses PROVE EvseOK(st, f, place, cancel, apply'[f], phase, lo)
      <4>1. EvseOK(st, f, place, cancel, apply[f], phase, lo)  BY <2>6
      <4>2. CASE f # e  BY <1>4, <4>1, <4>2
      <4>3. CASE f = e
        <5>1. Backed(st, f, place, cancel, apply'[f], lo)
          BY <1>2, <2>0, <4>1, <4>3 DEF EvseOK, CoreOK, Backed
        <5>2. st.evse_reservations[f] # None => st.evse_reservations[f].id # id
          BY <2>1, Now, BookIs
        <5>3. Owed(st, f, place, apply'[f])
          BY <1>1, <4>1, <4>3, <5>2 DEF EvseOK, Owed
        <5>4. RestoredOK(st, f, apply'[f], phase)
          BY <2>0, <4>1, <4>3 DEF EvseOK, RestoredOK
        <5> QED  BY <4>1, <5>1, <5>3, <5>4 DEF EvseOK, CoreOK
      <4> QED  BY <4>2, <4>3
    <3> QED  BY <1>2, <2>5, <3>1, <3>2, ShrinksSelf, StepFrom DEF GInv
  <2>2. CASE id \in st.timers
    <3>1. PICK u : u = Cancel(st, id)  OBVIOUS
    <3>2. PICK es : es = {e}  OBVIOUS
    <3>3. st' = Release(u, es)  BY <1>8, <2>2, <3>1, <3>2 DEF Refusal
    <3>4. u \in Handlers(st.seen, st.restored) /\ u.timers = st.timers \ {id}
      BY <3>1, Now, CancelKeeps
    <3>5. /\ u.em = st.em /\ u.events = st.events
          /\ \A f \in Evses : u.evse_reservations[f] =
                IF HasId(st, f, id) THEN None ELSE st.evse_reservations[f]
      BY <3>1, Now, CancelIs
    <3>6. /\ st' \in Handlers(st.seen, st.restored) /\ SameBook(u, st') /\ Shrinks(u, st')
          /\ \A f \in Evses \intersect es : st'.em[f].reserved \notin Ids
      BY <3>3, <3>4, ReleaseKeeps, ReleaseShrinks
    <3>7. /\ st'.seen = st.seen /\ st'.restored = st.restored
          /\ u.seen = st.seen /\ u.restored = st.restored
      BY <3>4, <3>6 DEF Handlers
    <3>9. ASSUME NEW f \in Evses PROVE EvseOK(st', f, place, cancel, apply'[f], phase, lo)
      <4>1. EvseOK(st, f, place, cancel, apply[f], phase, lo)  BY <2>6
      <4>2. /\ Placed(u, f, place) /\ ManagerOK(u, f, phase) /\ Booted(u, f, phase)
            /\ Suits(u, f) /\ Owed(u, f, place, apply[f]) /\ RestoredOK(u, f, apply[f], phase)
            /\ ~(HasId(st, f, id) /\ st.em[f].reserved = id) =>
                  Backed(u, f, place, cancel, apply[f], lo)
        BY <3>4, <3>5, <3>7, <4>1, Untold
      <4>3. ShrinksAt(u, st', f) /\ st'.timers \subseteq u.timers  BY <3>6 DEF Shrinks
      <4>4. CASE f # e
        <5>1. HasId(st, f, id) => <<f, st.em[f].reserved>> \in lo
          BY <2>3, <2>4, <4>4, EvseOfIs
        <5>2. Backed(u, f, place, cancel, apply[f], lo)
          BY <3>5, <4>2, <5>1 DEF Backed
        <5>3. EvseOK(u, f, place, cancel, apply'[f], phase, lo)
          BY <1>4, <4>2, <4>4, <5>2 DEF EvseOK, CoreOK
        <5>4. Named(place, apply'[f])  BY <1>4, <4>4, NowAt
        <5> QED  BY <3>6, <5>3, <5>4, ShrinksOK
      <4>5. CASE f = e
        <5>1. st'.em[f].reserved \notin Ids  BY <3>2, <3>6, <4>5
        <5>2. Backed(st', f, place, cancel, apply'[f], lo)  BY <5>1 DEF Backed
        <5>3. Placed(st', f, place)
          BY <3>6, <4>2 DEF Placed, SameBook, HasId
        <5>4. ManagerOK(st', f, phase) /\ Booted(st', f, phase) /\ Suits(st', f)
          BY <4>2, <4>3 DEF ShrinksAt, ManagerOK, Booted, Suits, Told
        <5>5. Owed(u, f, place, apply'[f])
          BY <1>1, <2>0, <3>5, <4>2, <4>5 DEF Owed, HasId
        <5>6. Owed(st', f, place, apply'[f])  BY <4>3, <5>5, ShrinksOwed
        <5>7. RestoredOK(st', f, apply'[f], phase)
          BY <2>0, <4>2, <4>3, <4>5 DEF ShrinksAt, RestoredOK, Told
        <5> QED  BY <5>2, <5>3, <5>4, <5>6, <5>7 DEF EvseOK, CoreOK
      <4> QED  BY <4>4, <4>5
    <3> QED  BY <1>2, <2>5, <3>7, <3>9, ShrinksSelf, StepFrom DEF GInv
  <2> QED  BY <2>1, <2>2
<1> QED  BY <1>1, <1>7, <1>8 DEF ApplyReserves

LEMMA ApplyChecksAgrees ==
    ASSUME RInv, RInv', GInv, NEW e \in Evses, ApplyChecks(e)
    PROVE  GInv'
<1>1. PICK es : es = {e}  OBVIOUS
<1>2. /\ apply[e].at = "checking" /\ UNCHANGED <<phase, place, cancel>>
      /\ st' = IF e \in EvseOf(st, apply[e].id) THEN st ELSE EmCancel(st, es)
      /\ apply' = [apply EXCEPT ![e] = NotApplying]
  BY <1>1 DEF ApplyChecks, Step
<1>3. apply'[e].at = "idle" /\ \A f \in Evses : f # e => apply'[f] = apply[f]
  <2>1. apply = [f \in Evses |-> apply[f]]  BY Now DEF CommandsOK
  <2>2. apply'[e] = NotApplying /\ \A f \in Evses : f # e => apply'[f] = apply[f]
    BY <1>2, <2>1
  <2> QED  BY <2>2 DEF NotApplying
<1>4. /\ st' \in Handlers(st.seen, st.restored) /\ Shrinks(st, st')
      /\ HasId(st', e, apply[e].id) \/ st'.em[e].reserved = None
  <2>1. CASE e \in EvseOf(st, apply[e].id)
    BY <1>2, <2>1, Now, ShrinksSelf, EvseOfIs
  <2>2. CASE e \notin EvseOf(st, apply[e].id)
    <3>1. st' = EmCancel(st, es)  BY <1>2, <2>2
    <3> QED  BY <1>1, <3>1, Now, EmCancelKeeps, EmCancelShrinks
  <2> QED  BY <2>1, <2>2
<1>5. st'.seen = st.seen /\ st'.restored = st.restored  BY <1>4 DEF Handlers
<1>6. LostKept(Lost)  BY StepLost DEF ApplyChecks, Step
<1>7. ASSUME NEW f \in Evses PROVE EvseOK(st', f, place, cancel, apply'[f], phase, Lost)
  <2>1. EvseOK(st', f, place, cancel, apply[f], phase, Lost)  BY <1>4, NowAt, ShrinksOK
  <2>2. CASE f # e  BY <1>3, <2>1, <2>2
  <2>3. CASE f = e
    <3>1. Backed(st', f, place, cancel, apply'[f], Lost)
      BY <1>2, <1>3, <1>4, <2>1, <2>3, IdsApart DEF EvseOK, CoreOK, Backed
    <3>2. Owed(st', f, place, apply'[f])
      BY <1>2, <1>3, <2>1, <2>3 DEF EvseOK, Owed
    <3>3. RestoredOK(st', f, apply'[f], phase)
      BY <1>2, <1>3, <2>1, <2>3 DEF EvseOK, RestoredOK
    <3> QED  BY <2>1, <3>1, <3>2, <3>3 DEF EvseOK, CoreOK
  <2> QED  BY <2>2, <2>3
<1> QED  BY <1>2, <1>5, <1>6, <1>7, ShrinksSelf, StepFrom DEF GInv
-----------------------------------------------------------------------------
(* Restart and loading. *)

LEMMA RestartAgrees ==
    ASSUME RInv, RInv', GInv, Restart
    PROVE  GInv'
<1> DEFINE m == [e \in Evses |-> [st.em[e] EXCEPT !.reserved = None, !.enabled = TRUE,
                                       !.authorized = FALSE, !.transaction = FALSE]]
           q == [e \in Evses |-> <<"Enabled">> \o
                    (IF st.em[e].plugged THEN <<"SessionStarted">> ELSE <<>>)]
           a == [e \in Evses |-> None]
<1>1. /\ phase' = "booting" /\ place' = NotPlacing /\ cancel' = NotCancelling
      /\ apply' = [e \in Evses |-> NotApplying] /\ st' = NewHandler(st.stored, m, q)
  BY DEF Restart
<1>2. \A e \in Evses :
         /\ m[e].reserved = None /\ ~m[e].authorized /\ ~m[e].transaction
  <2>1. ASSUME NEW r \in EmRecords, NEW w,
               w = [r EXCEPT !.reserved = None, !.enabled = TRUE, !.authorized = FALSE,
                             !.transaction = FALSE]
        PROVE  w.reserved = None /\ ~w.authorized /\ ~w.transaction
    BY <2>1 DEF EmRecords
  <2>2. \A e \in Evses : st.em[e] \in EmRecords  BY Now, ManagerIs
  <2> QED  BY <2>1, <2>2
<1>3. ASSUME NEW e \in Evses
      PROVE  "Enabled" \in Range(q[e]) /\ "TransactionStarted" \notin Range(q[e])
  <2>1. PICK p \in Seq(EventNames) : p = <<"Enabled">>  BY Reports, Zenon
  <2>2. PICK o \in Seq(EventNames) :
           o = IF st.em[e].plugged THEN <<"SessionStarted">> ELSE <<>>
    BY Reports, Zenon
  <2>3. q[e] = p \o o  BY <2>1, <2>2
  <2>4. Range(p) = {"Enabled"}  BY <2>1 DEF Range
  <2>5. Range(o) \subseteq {"SessionStarted"}  BY <2>2 DEF Range
  <2>6. Range(p \o o) = Range(p) \union Range(o)  BY RangeConcat
  <2> HIDE DEF q
  <2> QED  BY <2>3, <2>4, <2>5, <2>6
<1> HIDE DEF m, q
<1>4. PICK z : z = [e \in Evses |-> [plugged_in |-> FALSE, connector |-> "AVAILABLE",
                                     reported_enabled |-> FALSE]]
  OBVIOUS
<1>5. /\ z \in [Evses -> SeenRecords]
      /\ \A e \in Evses : z[e].connector = "AVAILABLE"
  BY <1>4 DEF SeenRecords, ConnectorStates
<1>6. /\ st'.em = m /\ st'.events = q /\ st'.seen = z /\ st'.restored = a
      /\ st'.evse_reservations = a
  BY <1>1, <1>4 DEF NewHandler
<1>7. \A e \in Evses : a[e] = None  OBVIOUS
<1>8. a \in [Evses -> Ids \union {None}]  OBVIOUS
<1> HIDE DEF a
<1>9. /\ place'.at = "idle" /\ cancel'.at = "idle"
      /\ \A e \in Evses : apply'[e].at = "idle"
  BY <1>1 DEF NotPlacing, NotCancelling, NotApplying
<1>10. PICK n : n = Lost'  OBVIOUS
<1>11. ASSUME NEW e \in Evses PROVE EvseOK(st', e, place', cancel', apply'[e], phase', n)
  <2>1. st'.evse_reservations[e] = None /\ st'.restored[e] = None  BY <1>6, <1>7
  <2>2. Backed(st', e, place', cancel', apply'[e], n)
    BY <1>2, <1>6, IdsApart DEF Backed
  <2>3. Placed(st', e, place')  BY <1>9 DEF Placed
  <2>4. ManagerOK(st', e, phase')  BY <1>2, <1>6 DEF ManagerOK
  <2>5. Booted(st', e, phase')  BY <1>3, <1>5, <1>6 DEF Booted, Told
  <2>6. Suits(st', e) /\ Owed(st', e, place', apply'[e])  BY <2>1 DEF Suits, Owed
  <2>7. RestoredOK(st', e, apply'[e], phase')  BY <1>9, <2>1 DEF RestoredOK
  <2> QED  BY <2>2, <2>3, <2>4, <2>5, <2>6, <2>7 DEF EvseOK, CoreOK
<1> QED  BY <1>5, <1>6, <1>8, <1>10, <1>11 DEF GInv

LEMMA LoadStartsAgrees ==
    ASSUME RInv, RInv', GInv, LoadStarts
    PROVE  GInv'
<1>1. /\ phase = "booting" /\ phase' = "loading" /\ st' = st
      /\ UNCHANGED <<place, cancel, apply, hist>>
  BY DEF LoadStarts
<1>2. LostKept(Lost)  BY <1>1, SameLost
<1>3. ASSUME NEW e \in Evses PROVE EvseOK(st, e, place, cancel, apply[e], phase', Lost)
  <2>1. EvseOK(st, e, place, cancel, apply[e], phase, Lost)  BY NowAt
  <2>2. ManagerOK(st, e, phase') /\ Booted(st, e, phase')
    BY <1>1, <2>1 DEF EvseOK, CoreOK, ManagerOK, Booted
  <2>3. RestoredOK(st, e, apply[e], phase')  BY <1>1, <2>1 DEF EvseOK, RestoredOK
  <2> QED  BY <2>1, <2>2, <2>3 DEF EvseOK, CoreOK
<1> QED  BY <1>1, <1>2, <1>3, ShrinksSelf, StepFrom DEF GInv

LEMMA LoadNextAgrees ==
    ASSUME RInv, RInv', GInv, LoadNext
    PROVE  GInv'
<1>1. PICK r : r = Head(loading)  OBVIOUS
<1>2. PICK es : es = {e \in Evses : e = r.evse}  OBVIOUS
<1>3. /\ phase = "loading" /\ loading # <<>> /\ UNCHANGED <<phase, place, cancel, apply>>
  BY DEF LoadNext
<1>4. \/ st' = Release(st, es)
      \/ st' = Release(Cancel(st, r.id), es)
      \/ /\ CanMake(st, r)
         /\ st' = IF r.evse = None THEN Add(st, r)
                  ELSE [Add(st, r) EXCEPT !.restored[r.evse] = r.id]
  BY <1>1, <1>2 DEF LoadNext, Step
<1>0. LostKept(Lost)  BY StepLost DEF LoadNext, Step
<1>5. loading \in Seq(Requests) /\ Unique(loading)  BY DEF RInv, LoadingOK
<1>6. r \in Requests /\ r.id \in ListIds(loading)  BY <1>1, <1>3, <1>5, LoadingTail
<1>7. r.id \notin st.timers  BY <1>6 DEF RInv, LoadingOK
<1>8. Cancel(st, r.id) = st  BY <1>7 DEF Cancel
<1>9. CASE st' = Release(st, es)
  <2>1. st' \in Handlers(st.seen, st.restored) /\ Shrinks(st, st')
    BY <1>9, Now, ReleaseKeeps, ReleaseShrinks
  <2> QED  BY <1>0, <1>3, <2>1, StepShrinks
<1>10. CASE /\ CanMake(st, r)
            /\ st' = IF r.evse = None THEN Add(st, r)
                     ELSE [Add(st, r) EXCEPT !.restored[r.evse] = r.id]
  <2>1. PICK u : u = Add(st, r)  OBVIOUS
  <2>2. r.evse # None => st.evse_reservations[r.evse] = None  BY <1>10 DEF CanMake
  <2>3. u \in Handlers(st.seen, st.restored) /\ u.timers = st.timers \union {r.id}
    BY <1>6, <1>7, <2>1, <2>2, Now, AddKeeps
  <2>4. /\ u.em = st.em /\ u.events = st.events
        /\ \A e \in Evses : u.evse_reservations[e] =
              IF e = r.evse THEN r ELSE st.evse_reservations[e]
    BY <1>6, <2>1, Now, AddIs
  <2>5. u.seen = st.seen /\ u.restored = st.restored  BY <2>3 DEF Handlers
  <2>6. r.id \in Ids /\ (r.evse # None => r.evse \in Evses) /\ None \notin Evses
    BY <1>6, ReservationAssumption DEF ReservationAssumption, Ids
  <2>7. st.restored \in [Evses -> Ids \union {None}]  BY DEF GInv
  <2>8. /\ st'.em = st.em /\ st'.events = st.events /\ st'.seen = st.seen
        /\ st'.evse_reservations = u.evse_reservations
        /\ st'.restored \in [Evses -> Ids \union {None}]
        /\ \A e \in Evses : st'.restored[e] = IF e = r.evse THEN r.id ELSE st.restored[e]
    <3>1. CASE r.evse = None
      <4>1. st' = u  BY <1>10, <2>1, <3>1
      <4> QED  BY <2>4, <2>5, <2>6, <2>7, <3>1, <4>1
    <3>2. CASE r.evse # None
      <4>1. st' = [u EXCEPT !.restored[r.evse] = r.id]  BY <1>10, <2>1, <3>2
      <4>2. PICK z : z = [u.restored EXCEPT ![r.evse] = r.id]  OBVIOUS
      <4>3. st' = [u EXCEPT !.restored = z]  BY <4>1, <4>2
      <4>4. /\ st'.em = u.em /\ st'.events = u.events /\ st'.seen = u.seen
            /\ st'.evse_reservations = u.evse_reservations /\ st'.restored = z
        BY <2>3, <4>3 DEF Handlers
      <4>5. /\ z \in [Evses -> Ids \union {None}]
            /\ \A e \in Evses : z[e] = IF e = r.evse THEN r.id ELSE st.restored[e]
        BY <2>5, <2>6, <2>7, <3>2, <4>2
      <4> QED  BY <2>4, <2>5, <4>4, <4>5
    <3> QED  BY <3>1, <3>2
  <2>9. /\ place.at = "idle" /\ cancel.at = "idle" /\ \A e \in Evses : apply[e].at = "idle"
    BY <1>3, Now DEF CommandsOK
  <2>11. ASSUME NEW e \in Evses PROVE EvseOK(st', e, place, cancel, apply[e], phase, Lost)
    <3>1. EvseOK(st, e, place, cancel, apply[e], phase, Lost)  BY NowAt
    <3>2. ManagerOK(st', e, phase) /\ Booted(st', e, phase) /\ Placed(st', e, place)
      BY <2>8, <2>9, <3>1 DEF EvseOK, CoreOK, ManagerOK, Booted, Placed, Told
    <3>3. CASE e # r.evse
      <4>1. st'.evse_reservations[e] = st.evse_reservations[e] /\ st'.restored[e] = st.restored[e]
        BY <2>4, <2>8, <3>3
      <4>2. Backed(st', e, place, cancel, apply[e], Lost) /\ Suits(st', e)
        BY <2>8, <3>1, <4>1 DEF EvseOK, CoreOK, Backed, Suits, HasId
      <4>3. Owed(st', e, place, apply[e])  BY <2>8, <3>1, <4>1 DEF EvseOK, Owed, Told
      <4>4. RestoredOK(st', e, apply[e], phase)
        BY <2>8, <2>9, <3>1, <4>1 DEF EvseOK, RestoredOK, Told
      <4> QED  BY <3>2, <4>2, <4>3, <4>4 DEF EvseOK, CoreOK
    <3>4. CASE e = r.evse
      <4>1. st'.evse_reservations[e] = r /\ st'.restored[e] = r.id  BY <2>4, <2>8, <3>4
      <4>2. Suitable(e, r.type) /\ Free(st, e) /\ st.evse_reservations[e] = None
        BY <1>10, <2>6, <3>4 DEF CanMake
      <4>4. Backed(st', e, place, cancel, apply[e], Lost) /\ Suits(st', e)
        BY <2>8, <2>9, <3>1, <4>1, <4>2 DEF EvseOK, CoreOK, Backed, HasId, Suits
      <4>5. Owed(st', e, place, apply[e])  BY <4>1 DEF Owed
      <4>6. RestoredOK(st', e, apply[e], phase)
        BY <1>3, <2>8, <2>9, <3>1, <4>2 DEF EvseOK, CoreOK, RestoredOK, Booted, Free, Told
      <4> QED  BY <3>2, <4>4, <4>5, <4>6 DEF EvseOK, CoreOK
    <3> QED  BY <3>3, <3>4
  <2> QED  BY <1>0, <1>3, <2>8, <2>11, ShrinksSelf, StepFrom DEF GInv
<1> QED  BY <1>4, <1>8, <1>9, <1>10

LEMMA LoadEndsAgrees ==
    ASSUME RInv, RInv', GInv, LoadEnds
    PROVE  GInv'
<1>1. PICK es : es = {e \in Evses : st.seen[e].reported_enabled}  OBVIOUS
<1>2. PICK t : t = Update(st)  OBVIOUS
<1>3. PICK boot \in BOOLEAN : boot = TRUE  OBVIOUS
<1>4. /\ phase = "loading" /\ phase' = "up" /\ st' = Taken(t, es) /\ ApplyAt(t, es, boot)
      /\ UNCHANGED <<place, cancel>>
  BY <1>1, <1>2, <1>3 DEF LoadEnds, Step
<1>5. t \in Handlers(st.seen, st.restored) /\ SameBook(st, t) /\ Shrinks(st, t)
  BY <1>2, Now, UpdateKeeps, UpdateShrinks
<1>6. HandlerOK(t)  BY <1>5, Now, BookKept DEF Fewer
<1>7. t.seen = st.seen  BY <1>5 DEF Handlers
<1>8. /\ st'.em = t.em /\ st'.events = t.events /\ st'.seen = t.seen /\ st'.timers = t.timers
      /\ st'.evse_reservations = t.evse_reservations
      /\ st'.restored \in [Evses -> Ids \union {None}]
      /\ \A e \in Evses : st'.restored[e] = IF e \in es THEN None ELSE t.restored[e]
  BY <1>4, <1>5, TakenIs DEF GInv
<1>9. LostKept(Lost)  BY StepLost DEF LoadEnds, Step
<1>10. ASSUME NEW e \in Evses PROVE EvseOK(st', e, place, cancel, apply'[e], phase', Lost)
  <2>1. EvseOK(t, e, place, cancel, apply[e], phase, Lost)  BY <1>5, NowAt, ShrinksOK
  <2>2. ManagerOK(t, e, phase') /\ Booted(t, e, phase')
    BY <1>4, <2>1 DEF EvseOK, CoreOK, ManagerOK, Booted
  <2>3. CoreOK(t, e, place, cancel, apply[e], phase', Lost)  BY <2>1, <2>2 DEF EvseOK, CoreOK
  <2>4. PICK b : b = apply'[e]  OBVIOUS
  <2>5. /\ e \in es /\ Restored(t, e) # {} => b.at = "reserving" /\ b.id = t.restored[e]
        /\ ~(e \in es /\ Restored(t, e) # {}) => b = apply[e]
    BY <1>4, <2>4, ApplyAtIs
  <2>6. CASE e \in es
    <3>1. PICK v : v = st'  OBVIOUS
    <3>2. v.restored[e] = None  BY <1>8, <2>6, <3>1
    <3>3. EvseOK(v, e, place, cancel, b, phase', Lost)
      BY <1>6, <1>8, <2>1, <2>3, <2>5, <2>6, <3>1, <3>2, RestoredTaken DEF EvseOK, RestoredOK
    <3> QED  BY <2>4, <3>1, <3>3
  <2>7. CASE e \notin es
    <3>1. st'.restored[e] = t.restored[e] /\ b = apply[e]  BY <1>8, <2>5, <2>7
    <3>2. ~t.seen[e].reported_enabled  BY <1>1, <1>7, <2>7
    <3>3. CoreOK(st', e, place, cancel, b, phase', Lost)
      BY <1>8, <2>3, <3>1
      DEF CoreOK, Backed, Placed, ManagerOK, Booted, Suits, HasId, Told
    <3>4. Owed(st', e, place, b)  BY <1>8, <2>1, <3>1 DEF EvseOK, Owed, Told
    <3>5. RestoredOK(st', e, b, phase')
      BY <1>8, <2>1, <3>1, <3>2 DEF EvseOK, RestoredOK, HasId, Told
    <3> QED  BY <2>4, <3>3, <3>4, <3>5 DEF EvseOK
  <2> QED  BY <2>6, <2>7
<1>11. st'.seen \in [Evses -> SeenRecords]  BY <1>7, <1>8 DEF GInv
<1> QED  BY <1>4, <1>8, <1>9, <1>10, <1>11, ShrinksSelf, StepFrom
-----------------------------------------------------------------------------
(* Drivers and operators. *)

\* t is s with v for the EvseManager of e and what it reports, with the same
\* book.
Reported(s, t, e, v, told) ==
    /\ t.em[e] = v /\ \A f \in Evses : f # e => t.em[f] = s.em[f] /\ t.events[f] = s.events[f]
    /\ Range(t.events[e]) = Range(s.events[e]) \union told
    /\ t.evse_reservations = s.evse_reservations /\ t.timers = s.timers
    /\ t.seen = s.seen /\ t.restored = s.restored

LEMMA ManagerChanges ==
    ASSUME NEW x, NEW y, NEW s \in Handlers(x, y), NEW e \in Evses, NEW v \in EmRecords,
           NEW t, t = [s EXCEPT !.em[e] = v]
    PROVE  t \in Handlers(x, y) /\ Reported(s, t, e, v, {})
<1>1. t \in Handlers(x, y) /\ SameBook(s, t)  BY ManagerKeeps
<1>2. PICK m : m = [s.em EXCEPT ![e] = v]  OBVIOUS
<1>3. t = [s EXCEPT !.em = m]  BY <1>2
<1>4. t.em = m /\ t.events = s.events  BY <1>3 DEF Handlers
<1>5. s.em \in Managers  BY DEF Handlers
<1>6. t.em[e] = v /\ \A f \in Evses : f # e => t.em[f] = s.em[f]
  BY <1>2, <1>4, <1>5 DEF Managers
<1>7. t.seen = s.seen /\ t.restored = s.restored  BY <1>1 DEF Handlers
<1> QED  BY <1>1, <1>4, <1>6, <1>7 DEF Reported, SameBook

LEMMA ReportIs ==
    ASSUME NEW x, NEW y, NEW s \in Handlers(x, y), NEW e \in Evses, NEW v \in EmRecords,
           NEW es \in Seq(EventNames), NEW t, t = Tell([s EXCEPT !.em[e] = v], e, es)
    PROVE  t \in Handlers(x, y) /\ Reported(s, t, e, v, Range(es))
<1>1. PICK u : u = [s EXCEPT !.em[e] = v]  OBVIOUS
<1>2. u \in Handlers(x, y) /\ Reported(s, u, e, v, {})  BY <1>1, ManagerChanges
<1>3. t = Tell(u, e, es)  BY <1>1
<1>4. t \in Handlers(x, y) /\ SameBook(u, t)  BY <1>2, <1>3, TellKeeps
<1>5. PICK q : q = [u.events EXCEPT ![e] = @ \o es]  OBVIOUS
<1>6. t = [u EXCEPT !.events = q]  BY <1>3, <1>5 DEF Tell
<1>7. t.events = q /\ t.em = u.em /\ t.seen = u.seen /\ t.restored = u.restored
  BY <1>2, <1>6 DEF Handlers
<1>8. u.events \in EventQueues  BY <1>2 DEF Handlers
<1>9. u.events[e] \in Seq(EventNames)  BY <1>8 DEF EventQueues
<1>10. /\ q[e] = u.events[e] \o es /\ \A f \in Evses : f # e => q[f] = u.events[f]
  BY <1>5, <1>8 DEF EventQueues
<1>11. Range(q[e]) = Range(u.events[e]) \union Range(es)
  <2>1. Range(u.events[e] \o es) = Range(u.events[e]) \union Range(es)  BY <1>9, RangeConcat
  <2> QED  BY <1>10, <2>1
<1> QED  BY <1>2, <1>4, <1>7, <1>10, <1>11 DEF Reported, SameBook

\* What an EvseManager may do by itself: it keeps its reservation or reports
\* that a transaction has begun, and an authorization that uses a reservation
\* stays.
LEMMA ReportOK ==
    ASSUME NEW s, NEW t, NEW e \in Evses, NEW v, NEW told, Reported(s, t, e, v, told),
           NEW pl, NEW ca, NEW a, NEW ph, NEW lo, NEW f \in Evses, Named(pl, a),
           EvseOK(s, f, pl, ca, a, ph, lo),
           v.reserved = s.em[e].reserved \/ (v.reserved = None /\ "TransactionStarted" \in told),
           s.em[e].authorized /\ v.reserved \in Ids => v.authorized,
           v.transaction => v.plugged /\ v.authorized /\ v.reserved = None,
           v.authorized \/ "TransactionStarted" \in told => ph = "up"
    PROVE  EvseOK(t, f, pl, ca, a, ph, lo)
<1>1. CASE f # e
  <2>1. /\ t.em[f] = s.em[f] /\ t.events[f] = s.events[f] /\ t.seen = s.seen
        /\ t.evse_reservations = s.evse_reservations /\ t.restored = s.restored
        /\ t.timers = s.timers
    BY <1>1 DEF Reported
  <2>2. CoreOK(t, f, pl, ca, a, ph, lo)
    BY <2>1 DEF EvseOK, CoreOK, Backed, Placed, ManagerOK, Booted, Suits, HasId, Told
  <2>3. Owed(t, f, pl, a)  BY <2>1 DEF EvseOK, Owed, Told
  <2>4. RestoredOK(t, f, a, ph)  BY <2>1 DEF EvseOK, RestoredOK, HasId, Told
  <2> QED  BY <2>2, <2>3, <2>4 DEF EvseOK
<1>2. CASE f = e
  <2>1. /\ t.em[e] = v /\ t.seen = s.seen /\ t.timers = s.timers
        /\ t.evse_reservations = s.evse_reservations /\ t.restored = s.restored
        /\ Range(t.events[e]) = Range(s.events[e]) \union told
    BY DEF Reported
  <2>2. Backed(t, e, pl, ca, a, lo)
    BY <1>2, <2>1, IdsApart DEF EvseOK, CoreOK, Backed, HasId
  <2>3. Placed(t, e, pl)
    BY <1>2, <2>1, IdsApart DEF EvseOK, CoreOK, Placed, HasId, Named
  <2>4. ManagerOK(t, e, ph)  BY <2>1 DEF ManagerOK
  <2>5. Booted(t, e, ph) /\ Suits(t, e)
    BY <1>2, <2>1 DEF EvseOK, CoreOK, Booted, Suits, Told
  <2>6. Owed(t, e, pl, a)  BY <1>2, <2>1 DEF EvseOK, Owed, Told
  <2>7. RestoredOK(t, e, a, ph)  BY <1>2, <2>1 DEF EvseOK, RestoredOK, HasId, Told
  <2> QED  BY <1>2, <2>2, <2>3, <2>4, <2>5, <2>6, <2>7 DEF EvseOK, CoreOK
<1> QED  BY <1>1, <1>2

\* A step to such a state, or to one with less in the book.
LEMMA ReportAgrees ==
    ASSUME RInv, RInv', GInv, NEW s \in Handlers(st.seen, st.restored),
           \A f \in Evses : EvseOK(s, f, place, cancel, apply[f], phase, Lost),
           Shrinks(s, st'), st' \in Handlers(st.seen, st.restored),
           UNCHANGED <<phase, place, cancel, apply>>, LostKept(Lost)
    PROVE  GInv'
<1>1. st'.seen = st.seen /\ st'.restored = st.restored  BY DEF Handlers
<1> QED  BY <1>1, StepFrom DEF GInv

LEMMA PlugInAgrees ==
    ASSUME RInv, RInv', GInv, NEW e \in Evses, PlugIn(e)
    PROVE  GInv'
<1>1. st.em[e] \in EmRecords  BY NowAt
<1>2. PICK v \in EmRecords : v = [st.em[e] EXCEPT !.plugged = TRUE]
  BY <1>1 DEF EmRecords
<1>3. /\ v.reserved = st.em[e].reserved /\ v.authorized = st.em[e].authorized
      /\ v.transaction = st.em[e].transaction
  BY <1>1, <1>2 DEF EmRecords
<1>4. PICK es \in Seq(EventNames) :
         es = IF st.em[e].authorized THEN <<>> ELSE <<"SessionStarted">>
  BY Reports, Zenon
<1>5. [st EXCEPT !.em[e].plugged = TRUE] = [st EXCEPT !.em[e] = v]  BY <1>2
<1>6. /\ st' = Tell([st EXCEPT !.em[e] = v], e, es) /\ ~st.em[e].plugged
      /\ UNCHANGED <<phase, place, cancel, apply>>
  BY <1>4, <1>5 DEF PlugIn, Step
<1>7. "TransactionStarted" \notin Range(es)  BY <1>4 DEF Range
<1>8. st' \in Handlers(st.seen, st.restored) /\ Reported(st, st', e, v, Range(es))
  BY <1>6, Now, ReportIs
<1>9. ASSUME NEW f \in Evses PROVE EvseOK(st', f, place, cancel, apply[f], phase, Lost)
  <2>1. ManagerOK(st, e, phase)  BY NowAt DEF EvseOK, CoreOK
  <2>2. ~v.transaction /\ (v.authorized => phase = "up")
    BY <1>3, <1>6, <2>1 DEF ManagerOK
  <2> QED  BY <1>3, <1>7, <1>8, <2>2, NowAt, ReportOK
<1>20. LostKept(Lost)  BY StepLost DEF PlugIn, Step
<1> QED  BY <1>6, <1>8, <1>9, ShrinksSelf, <1>20, ReportAgrees

LEMMA TransactionStartsAgrees ==
    ASSUME RInv, RInv', GInv, NEW e \in Evses, TransactionStarts(e)
    PROVE  GInv'
<1>0. st.em[e] \in EmRecords  BY NowAt
<1>1. st \in Handlers(st.seen, st.restored) /\ st.em \in Managers  BY Now DEF Handlers
<1>2. PICK v \in EmRecords : v = [st.em[e] EXCEPT !.transaction = TRUE, !.reserved = None]
  BY <1>0 DEF EmRecords
<1>3. /\ v.reserved = None /\ v.authorized = st.em[e].authorized
      /\ v.plugged = st.em[e].plugged
  BY <1>0, <1>2 DEF EmRecords
<1>4. PICK es \in Seq(EventNames) : es = <<"TransactionStarted">>  BY Reports, Zenon
<1>5. [st EXCEPT !.em[e].transaction = TRUE, !.em[e].reserved = None]
        = [st EXCEPT !.em[e] = v]
  BY <1>1, <1>2 DEF Handlers, Managers
<1>6. /\ st' = Tell([st EXCEPT !.em[e] = v], e, es) /\ st.em[e].plugged /\ st.em[e].authorized
      /\ UNCHANGED <<phase, place, cancel, apply>>
  BY <1>4, <1>5 DEF TransactionStarts, Step
<1>7. "TransactionStarted" \in Range(es)  BY <1>4 DEF Range
<1>8. st' \in Handlers(st.seen, st.restored) /\ Reported(st, st', e, v, Range(es))
  BY <1>6, Now, ReportIs
<1>9. ASSUME NEW f \in Evses PROVE EvseOK(st', f, place, cancel, apply[f], phase, Lost)
  <2>1. phase = "up"  BY <1>6, NowAt DEF EvseOK, CoreOK, ManagerOK
  <2> QED  BY <1>3, <1>6, <1>7, <1>8, <2>1, IdsApart, NowAt, ReportOK
<1>20. LostKept(Lost)  BY StepLost DEF TransactionStarts, Step
<1> QED  BY <1>6, <1>8, <1>9, ShrinksSelf, <1>20, ReportAgrees

LEMMA UnplugAgrees ==
    ASSUME RInv, RInv', GInv, NEW e \in Evses, Unplug(e)
    PROVE  GInv'
<1>0. st.em[e] \in EmRecords  BY NowAt
<1>1. st \in Handlers(st.seen, st.restored) /\ st.em \in Managers  BY Now DEF Handlers
<1>2. PICK v \in EmRecords :
         v = [st.em[e] EXCEPT !.plugged = FALSE, !.authorized = FALSE, !.transaction = FALSE]
  BY <1>0 DEF EmRecords
<1>3. v.reserved = st.em[e].reserved /\ ~v.authorized /\ ~v.transaction
  BY <1>0, <1>2 DEF EmRecords
<1>4. PICK es \in Seq(EventNames) : es = <<"SessionFinished">>  BY Reports, Zenon
<1>5. [st EXCEPT !.em[e].plugged = FALSE, !.em[e].authorized = FALSE,
                 !.em[e].transaction = FALSE]
        = [st EXCEPT !.em[e] = v]
  BY <1>1, <1>2 DEF Handlers, Managers
<1>6. /\ st' = Tell([st EXCEPT !.em[e] = v], e, es)
      /\ st.em[e].authorized => st.em[e].transaction
      /\ UNCHANGED <<phase, place, cancel, apply>>
  BY <1>4, <1>5 DEF Unplug, Step
<1>7. "TransactionStarted" \notin Range(es)  BY <1>4 DEF Range
<1>8. st' \in Handlers(st.seen, st.restored) /\ Reported(st, st', e, v, Range(es))
  BY <1>6, Now, ReportIs
<1>9. ASSUME NEW f \in Evses PROVE EvseOK(st', f, place, cancel, apply[f], phase, Lost)
  <2>1. ManagerOK(st, e, phase)  BY NowAt DEF EvseOK, CoreOK
  <2>2. st.em[e].authorized => v.reserved \notin Ids
    BY <1>3, <1>6, <2>1, IdsApart DEF ManagerOK
  <2> QED  BY <1>3, <1>7, <1>8, <2>2, NowAt, ReportOK
<1>20. LostKept(Lost)  BY StepLost DEF Unplug, Step
<1> QED  BY <1>6, <1>8, <1>9, ShrinksSelf, <1>20, ReportAgrees

LEMMA EnableEvseAgrees ==
    ASSUME RInv, RInv', GInv, NEW e \in Evses, EnableEvse(e)
    PROVE  GInv'
<1>1. st.em[e] \in EmRecords  BY NowAt
<1>2. PICK v \in EmRecords : v = [st.em[e] EXCEPT !.enabled = TRUE]
  BY <1>1 DEF EmRecords
<1>3. /\ v.reserved = st.em[e].reserved /\ v.authorized = st.em[e].authorized
      /\ v.plugged = st.em[e].plugged /\ v.transaction = st.em[e].transaction
  BY <1>1, <1>2 DEF EmRecords
<1>4. PICK es \in Seq(EventNames) : es = <<"Enabled">>  BY Reports, Zenon
<1>5. [st EXCEPT !.em[e].enabled = TRUE] = [st EXCEPT !.em[e] = v]  BY <1>2
<1>6. /\ st' = Tell([st EXCEPT !.em[e] = v], e, es)
      /\ UNCHANGED <<phase, place, cancel, apply>>
  BY <1>4, <1>5 DEF EnableEvse, Step
<1>7. "TransactionStarted" \notin Range(es)  BY <1>4 DEF Range
<1>8. st' \in Handlers(st.seen, st.restored) /\ Reported(st, st', e, v, Range(es))
  BY <1>6, Now, ReportIs
<1>9. ASSUME NEW f \in Evses PROVE EvseOK(st', f, place, cancel, apply[f], phase, Lost)
  <2>1. ManagerOK(st, e, phase)  BY NowAt DEF EvseOK, CoreOK
  <2>2. /\ v.transaction => v.plugged /\ v.authorized /\ v.reserved = None
        /\ v.authorized => phase = "up"
    BY <1>3, <2>1 DEF ManagerOK
  <2> QED  BY <1>3, <1>7, <1>8, <2>2, NowAt, ReportOK
<1>20. LostKept(Lost)  BY StepLost DEF EnableEvse, Step
<1> QED  BY <1>6, <1>8, <1>9, ShrinksSelf, <1>20, ReportAgrees

LEMMA DisableEvseAgrees ==
    ASSUME RInv, RInv', GInv, NEW e \in Evses, DisableEvse(e)
    PROVE  GInv'
<1>1. st.em[e] \in EmRecords  BY NowAt
<1>2. PICK v \in EmRecords : v = [st.em[e] EXCEPT !.enabled = FALSE]
  BY <1>1 DEF EmRecords
<1>3. /\ v.reserved = st.em[e].reserved /\ v.authorized = st.em[e].authorized
      /\ v.plugged = st.em[e].plugged /\ v.transaction = st.em[e].transaction
  BY <1>1, <1>2 DEF EmRecords
<1>4. PICK es \in Seq(EventNames) : es = <<"Disabled">>  BY Reports, Zenon
<1>5. [st EXCEPT !.em[e].enabled = FALSE] = [st EXCEPT !.em[e] = v]  BY <1>2
<1>6. PICK s : s = Tell([st EXCEPT !.em[e] = v], e, es)  OBVIOUS
<1>7. /\ st' = EmCancel(s, {e}) /\ UNCHANGED <<phase, place, cancel, apply>>
  BY <1>4, <1>5, <1>6 DEF DisableEvse, Step
<1>8. "TransactionStarted" \notin Range(es)  BY <1>4 DEF Range
<1>9. s \in Handlers(st.seen, st.restored) /\ Reported(st, s, e, v, Range(es))
  BY <1>6, Now, ReportIs
<1>10. ASSUME NEW f \in Evses PROVE EvseOK(s, f, place, cancel, apply[f], phase, Lost)
  <2>1. ManagerOK(st, e, phase)  BY NowAt DEF EvseOK, CoreOK
  <2>2. /\ v.transaction => v.plugged /\ v.authorized /\ v.reserved = None
        /\ v.authorized => phase = "up"
    BY <1>3, <2>1 DEF ManagerOK
  <2> QED  BY <1>3, <1>8, <1>9, <2>2, NowAt, ReportOK
<1>11. st' \in Handlers(st.seen, st.restored) /\ Shrinks(s, st')
  BY <1>7, <1>9, EmCancelKeeps, EmCancelShrinks
<1>20. LostKept(Lost)  BY StepLost DEF DisableEvse, Step
<1> QED  BY <1>7, <1>9, <1>10, <1>11, <1>20, ReportAgrees

LEMMA AuthorizationTimesOutAgrees ==
    ASSUME RInv, RInv', GInv, NEW e \in Evses, AuthorizationTimesOut(e)
    PROVE  GInv'
<1>1. PICK u : u = EmCancel(st, {e})  OBVIOUS
<1>2. /\ u \in Handlers(st.seen, st.restored) /\ Shrinks(st, u) /\ u.em[e].reserved = None
  BY <1>1, Now, EmCancelKeeps, EmCancelShrinks
<1>3. u.em[e] \in EmRecords  BY <1>2, ManagerIs
<1>4. PICK v \in EmRecords : v = [u.em[e] EXCEPT !.authorized = FALSE]
  BY <1>3 DEF EmRecords
<1>5. v.reserved = None /\ ~v.authorized /\ v.transaction = u.em[e].transaction
  BY <1>2, <1>3, <1>4 DEF EmRecords
<1>6. PICK es \in Seq(EventNames) : es = <<"SessionFinished">>  BY Reports, Zenon
<1>7. [u EXCEPT !.em[e].authorized = FALSE] = [u EXCEPT !.em[e] = v]  BY <1>4
<1>8. /\ st' = Tell([u EXCEPT !.em[e] = v], e, es) /\ ~st.em[e].plugged
      /\ UNCHANGED <<phase, place, cancel, apply>>
  BY <1>1, <1>6, <1>7 DEF AuthorizationTimesOut, Step
<1>9. "TransactionStarted" \notin Range(es)  BY <1>6 DEF Range
<1>10. st' \in Handlers(st.seen, st.restored) /\ Reported(u, st', e, v, Range(es))
  BY <1>2, <1>8, ReportIs
<1>11. ~v.transaction
  <2>1. ~st.em[e].transaction  BY <1>8, NowAt DEF EvseOK, CoreOK, ManagerOK
  <2>2. u.em[e].transaction = st.em[e].transaction  BY <1>2 DEF Shrinks, ShrinksAt
  <2> QED  BY <1>5, <2>1, <2>2
<1>12. ASSUME NEW f \in Evses PROVE EvseOK(st', f, place, cancel, apply[f], phase, Lost)
  <2>1. EvseOK(u, f, place, cancel, apply[f], phase, Lost)  BY <1>2, NowAt, ShrinksOK
  <2> QED  BY <1>2, <1>5, <1>9, <1>10, <1>11, <2>1, IdsApart, NowAt, ReportOK
<1>20. LostKept(Lost)  BY StepLost DEF AuthorizationTimesOut, Step
<1> QED  BY <1>8, <1>10, <1>12, ShrinksSelf, <1>20, ReportAgrees

LEMMA TokenUsedAgrees ==
    ASSUME RInv, RInv', GInv, NEW e \in Evses, NEW token, TokenUsed(e, token)
    PROVE  GInv'
<1>1. /\ UNCHANGED <<phase, place, cancel, apply>> /\ phase = "up"
      /\ ~st.em[e].authorized
  BY DEF TokenUsed
<1>2. \/ \E r \in Matching(st, token, e) :
            \/ st' = [Used(e, r.id) EXCEPT !.em[e].authorized = TRUE]
            \/ st' = EmCancel(Used(e, r.id), {e})
      \/ st' = [st EXCEPT !.em[e].authorized = TRUE]
  BY DEF TokenUsed, Step
<1>0. LostKept(Lost)  BY StepLost DEF TokenUsed, Step
<1>3. ~st.em[e].transaction  BY <1>1, NowAt DEF EvseOK, CoreOK, ManagerOK
<1>4. ASSUME NEW r \in Matching(st, token, e),
             \/ st' = [Used(e, r.id) EXCEPT !.em[e].authorized = TRUE]
             \/ st' = EmCancel(Used(e, r.id), {e})
      PROVE  GInv'
  <2>1. st.global_reservations \in Seq(Requests)  BY Now DEF Handlers
  <2>2. r \in Requests  BY <2>1 DEF Matching
  <2>3. r.id \in Ids  BY <2>2 DEF Ids
  <2>4. PICK u : u = Cancel(st, r.id)  OBVIOUS
  <2>5. u \in Handlers(st.seen, st.restored) /\ u.timers = st.timers \ {r.id}
    BY <2>4, Now, CancelKeeps
  <2>6. /\ u.em = st.em /\ u.events = st.events
        /\ \A f \in Evses : u.evse_reservations[f] =
              IF HasId(st, f, r.id) THEN None ELSE st.evse_reservations[f]
    BY <2>4, Now, CancelIs
  <2>7. u.seen = st.seen /\ u.restored = st.restored  BY <2>5 DEF Handlers
  <2>8. u.em[e] \in EmRecords  BY <2>5, ManagerIs
  <2>9. u.em \in Managers  BY <2>5 DEF Handlers
  <2>10. PICK w \in EmRecords : w = [u.em[e] EXCEPT !.reserved = r.id]
    BY <2>3, <2>8 DEF EmRecords
  <2>11. w.reserved = r.id /\ w.transaction = u.em[e].transaction
    BY <2>8, <2>10 DEF EmRecords
  <2>12. PICK x : x = Used(e, r.id)  OBVIOUS
  <2>15. x = [u EXCEPT !.em[e] = w]  BY <2>4, <2>10, <2>12 DEF Used
  <2>16. x \in Handlers(st.seen, st.restored) /\ Reported(u, x, e, w, {})
    BY <2>5, <2>15, ManagerChanges
  <2>17. x.em[e] = w  BY <2>16 DEF Reported
  \* Either way the EvseManager has its reservation and authorization, or none,
  \* and the others are as the handler left them.
  <2>18. /\ st' \in Handlers(st.seen, st.restored)
         /\ \/ st'.em[e].authorized \/ st'.em[e].reserved = None
         /\ ~st'.em[e].transaction
         /\ Range(u.events[e]) \subseteq Range(st'.events[e])
         /\ \A f \in Evses : f # e => st'.em[f] = u.em[f] /\ st'.events[f] = u.events[f]
         /\ st'.evse_reservations = u.evse_reservations /\ st'.timers = u.timers
         /\ st'.seen = u.seen /\ st'.restored = u.restored
    <3>1. CASE st' = [x EXCEPT !.em[e].authorized = TRUE]
      <4>1. PICK v \in EmRecords : v = [w EXCEPT !.authorized = TRUE]
        BY DEF EmRecords
      <4>2. v.authorized /\ v.transaction = w.transaction
        BY <2>10, <4>1 DEF EmRecords
      <4>3. st' = [x EXCEPT !.em[e] = v]  BY <2>17, <3>1, <4>1
      <4>4. st' \in Handlers(st.seen, st.restored) /\ Reported(x, st', e, v, {})
        BY <2>16, <4>3, ManagerChanges
      <4> QED  BY <1>3, <2>6, <2>11, <2>16, <4>2, <4>4 DEF Reported
    <3>2. CASE st' = EmCancel(x, {e})
      <4>1. PICK es : es = {e}  OBVIOUS
      <4>2. st' = EmCancel(x, es)  BY <3>2, <4>1
      <4>3. /\ st' \in Handlers(st.seen, st.restored) /\ SameBook(x, st')
        BY <2>16, <4>2, EmCancelKeeps
      <4>6. /\ st'.em[e].reserved = None /\ Shrinks(x, st')
        BY <2>16, <4>1, <4>2, EmCancelShrinks
      <4>7. ASSUME NEW f \in Evses, f # e
            PROVE  st'.em[f] = x.em[f] /\ st'.events[f] = x.events[f]
        <5>1. f \notin es  BY <4>1, <4>7
        <5>2. PICK y : y = st.seen  OBVIOUS
        <5>3. PICK z : z = st.restored  OBVIOUS
        <5>4. PICK t \in Handlers(y, z) : t = x  BY <2>16, <5>2, <5>3
        <5>5. PICK n : n = EmCancel(t, es)  OBVIOUS
        <5>6. n.em[f] = t.em[f] /\ n.events[f] = t.events[f]  BY <5>1, <5>5 DEF EmCancel, Handlers
        <5> QED  BY <4>2, <5>4, <5>5, <5>6
      <4>8. st'.seen = x.seen /\ st'.restored = x.restored
        BY <2>16, <4>3 DEF Handlers
      <4> QED  BY <1>3, <2>6, <2>11, <2>16, <4>3, <4>6, <4>7, <4>8
               DEF Reported, SameBook, Shrinks, ShrinksAt
    <3> QED  BY <1>4, <2>12, <3>1, <3>2
  \* The reservation that is used is the one of this EVSE, or of none.
  <2>13. /\ HasId(st, e, r.id) \/ st.evse_reservations[e] = None
         /\ \A f \in Evses : f # e => ~HasId(st, f, r.id)
    <3>1. CASE st.evse_reservations[e] # None
      <4>1. HasId(st, e, r.id)  BY <3>1 DEF Matching, HasId
      <4> QED  BY <4>1, Now, AtOne
    <3>2. CASE st.evse_reservations[e] = None
      <4>1. r.id \in ListIds(st.global_reservations)  BY <3>2 DEF Matching, ListIds
      <4>2. \A f \in Evses : HasId(st, f, r.id) => r.id \in SpecificIds(st.evse_reservations)
        BY DEF HasId, SpecificIds
      <4>3. SpecificIds(st.evse_reservations) \intersect ListIds(st.global_reservations) = {}
        BY Now DEF HandlerOK, BookOK
      <4> QED  BY <3>2, <4>1, <4>2, <4>3
    <3> QED  BY <3>1, <3>2
  <2>14. ASSUME NEW f \in Evses PROVE EvseOK(st', f, place, cancel, apply[f], phase, Lost)
    <3>1. EvseOK(st, f, place, cancel, apply[f], phase, Lost)  BY NowAt
    <3>2. /\ Placed(u, f, place) /\ ManagerOK(u, f, phase) /\ Booted(u, f, phase)
          /\ Suits(u, f) /\ Owed(u, f, place, apply[f]) /\ RestoredOK(u, f, apply[f], phase)
          /\ ~(HasId(st, f, r.id) /\ st.em[f].reserved = r.id) =>
                Backed(u, f, place, cancel, apply[f], Lost)
      BY <2>5, <2>6, <2>7, <3>1, Untold
    <3>3. CASE f # e
      <4>1. EvseOK(u, f, place, cancel, apply[f], phase, Lost)
        BY <2>13, <3>2, <3>3 DEF EvseOK, CoreOK
      <4>2. /\ st'.em[f] = u.em[f] /\ st'.events[f] = u.events[f] /\ st'.seen = u.seen
            /\ st'.evse_reservations = u.evse_reservations /\ st'.restored = u.restored
            /\ st'.timers = u.timers
        BY <2>18, <3>3
      <4>3. CoreOK(st', f, place, cancel, apply[f], phase, Lost)
        BY <4>1, <4>2 DEF EvseOK, CoreOK, Backed, Placed, ManagerOK, Booted, Suits, HasId, Told
      <4>4. Owed(st', f, place, apply[f])  BY <4>1, <4>2 DEF EvseOK, Owed, Told
      <4>5. RestoredOK(st', f, apply[f], phase)
        BY <4>1, <4>2 DEF EvseOK, RestoredOK, HasId, Told
      <4> QED  BY <4>3, <4>4, <4>5 DEF EvseOK
    <3>4. CASE f = e
      <4>2. st'.evse_reservations[e] = None  BY <2>6, <2>13, <2>18
      <4>3. Backed(st', e, place, cancel, apply[e], Lost)  BY <2>18, IdsApart DEF Backed
      <4>4. Placed(st', e, place)  BY <4>2 DEF Placed, HasId
      <4>5. ManagerOK(st', e, phase)  BY <1>1, <2>18 DEF ManagerOK
      <4>6. Booted(st', e, phase)  BY <1>1 DEF Booted
      <4>7. Suits(st', e) /\ Owed(st', e, place, apply[e])  BY <4>2 DEF Suits, Owed
      <4>8. RestoredOK(st', e, apply[e], phase)
        BY <1>1, <2>18, <3>2, <3>4 DEF RestoredOK, Told
      <4> QED  BY <3>4, <4>3, <4>4, <4>5, <4>6, <4>7, <4>8 DEF EvseOK, CoreOK
    <3> QED  BY <3>3, <3>4
  <2> QED  BY <1>0, <1>1, <2>14, <2>18, ShrinksSelf, ReportAgrees
<1>5. CASE st' = [st EXCEPT !.em[e].authorized = TRUE]
  <2>1. st.em[e] \in EmRecords  BY NowAt
  <2>2. PICK v \in EmRecords : v = [st.em[e] EXCEPT !.authorized = TRUE]
    BY <2>1 DEF EmRecords
  <2>3. v.reserved = st.em[e].reserved /\ v.authorized /\ ~v.transaction
    BY <1>3, <2>1, <2>2 DEF EmRecords
  <2>4. st' = [st EXCEPT !.em[e] = v]  BY <1>5, <2>2
  <2>5. st' \in Handlers(st.seen, st.restored) /\ Reported(st, st', e, v, {})
    BY <2>4, Now, ManagerChanges
  <2>6. ASSUME NEW f \in Evses PROVE EvseOK(st', f, place, cancel, apply[f], phase, Lost)
    BY <1>1, <2>3, <2>5, NowAt, ReportOK
  <2> QED  BY <1>0, <1>1, <2>5, <2>6, ShrinksSelf, ReportAgrees
<1> QED  BY <1>2, <1>4, <1>5
-----------------------------------------------------------------------------
(* The theorem. *)

LEMMA InitAgrees ==
    ASSUME Init
    PROVE  GInv
<1> DEFINE m == [e \in Evses |->
                   [reserved |-> None, enabled |-> TRUE, plugged |-> FALSE,
                    authorized |-> FALSE, transaction |-> FALSE]]
           q == [e \in Evses |-> <<>>]
           a == [e \in Evses |-> None]
           n == NewHandler(<<>>, m, q)
           z == [e \in Evses |-> [n.seen[e] EXCEPT !.reported_enabled = TRUE]]
<1>1. st = [n EXCEPT !.seen = z]  BY DEF Init
<1>2. z \in [Evses -> SeenRecords]
  BY DEF NewHandler, SeenRecords, ConnectorStates
<1> HIDE DEF z
<1>3. /\ st.em = m /\ st.seen = z /\ st.restored = a /\ st.evse_reservations = a
  BY <1>1 DEF NewHandler
<1>4. /\ \A e \in Evses : a[e] = None /\ m[e].reserved = None
      /\ \A e \in Evses : ~m[e].authorized /\ ~m[e].transaction
      /\ a \in [Evses -> Ids \union {None}]
  OBVIOUS
<1> HIDE DEF a, m, q, n
<1>5. /\ phase = "up" /\ place.at = "idle" /\ cancel.at = "idle"
      /\ \A e \in Evses : apply[e].at = "idle"
  BY DEF Init, NotPlacing, NotCancelling, NotApplying
<1>7. ASSUME NEW e \in Evses PROVE EvseOK(st, e, place, cancel, apply[e], phase, Lost)
  BY <1>3, <1>4, <1>5, IdsApart
  DEF EvseOK, CoreOK, Backed, Placed, ManagerOK, Booted, Suits, Owed, RestoredOK
<1> QED  BY <1>2, <1>3, <1>4, <1>7 DEF GInv

LEMMA NextAgrees ==
    ASSUME RInv, RInv', GInv, [Next]_vars
    PROVE  GInv'
<1>1. CASE Placing
  BY <1>1, PlaceMakesAgrees, PlaceReleasesAgrees, PlaceReservesAgrees, PlaceFailsAgrees,
     PlaceChecksAgrees DEF Placing
<1>2. CASE CancelReleases  BY <1>2, CancelReleasesAgrees
<1>3. CASE ExpiryRuns  BY <1>3, ExpiryRunsAgrees
<1>4. CASE Restart  BY <1>4, RestartAgrees
<1>5. CASE Loading
  BY <1>5, LoadStartsAgrees, LoadNextAgrees, LoadEndsAgrees DEF Loading
<1>6. CASE \E r \in Requests : PlaceStarts(r)  BY <1>6, PlaceStartsAgrees
<1>7. CASE \E id \in Ids : CancelStarts(id) \/ TimerExpires(id)
  BY <1>7, CancelStartsAgrees, TimerExpiresAgrees
<1>8. CASE \E e \in Evses : EventThread(e)
  BY <1>8, HandleSessionEventAgrees, ApplyReservesAgrees, ApplyChecksAgrees DEF EventThread
<1>9. CASE \E e \in Visited : Driver(e)
  <2>1. PICK e \in Evses : Driver(e)
    <3>1. Visited \subseteq Evses  BY ReservationAssumption DEF ReservationAssumption
    <3> QED  BY <1>9, <3>1
  <2>2. CASE \E token \in Tokens : TokenUsed(e, token)  BY <2>2, TokenUsedAgrees
  <2> QED  BY <2>1, <2>2, PlugInAgrees, UnplugAgrees, DisableEvseAgrees, EnableEvseAgrees,
              TransactionStartsAgrees, AuthorizationTimesOutAgrees DEF Driver
<1>10. CASE UNCHANGED vars
  <2>1. st' = st /\ hist' = hist /\ UNCHANGED <<place, cancel, apply, phase>>
    BY <1>10 DEF vars
  <2>3. LostKept(Lost)  BY <2>1, SameLost
  <2>2. Shrinks(st, st') /\ st' \in Handlers(st.seen, st.restored)
    BY <2>1, Now, ShrinksSelf
  <2> QED  BY <2>1, <2>2, <2>3, StepShrinks
<1> QED  BY <1>1, <1>2, <1>3, <1>4, <1>5, <1>6, <1>7, <1>8, <1>9, <1>10 DEF Next

\* When nothing is under way, an EvseManager has the reservation the handler
\* has for its EVSE, if it is for a connector type, and no other, whatever
\* ended, was placed, replaced or restored while place_reservation,
\* cancel_reservation or apply_restored_reservation was calling it, before and
\* after restarts; except where a refusal made the handler forget a reservation
\* that an EvseManager had.
THEOREM ManagersAgree == Spec => []ReservedAgrees
<1>1. Init => RInv /\ GInv  BY InitKeeps, InitAgrees
<1>2. RInv /\ GInv /\ [Next]_vars => RInv' /\ GInv'
  <2> SUFFICES ASSUME RInv, GInv, [Next]_vars PROVE RInv' /\ GInv'  OBVIOUS
  <2>1. RInv'  BY NextKeeps
  <2> QED  BY <2>1, NextAgrees
<1>3. RInv /\ GInv => ReservedAgrees
  <2> SUFFICES ASSUME RInv, GInv, Quiet, NEW e \in Evses
               PROVE  /\ e \in ReservedEvses(st) /\ st.evse_reservations[e].type # None =>
                           st.em[e].reserved = st.evse_reservations[e].id
                      /\ st.em[e].reserved \in Ids =>
                           \/ e \in EvseOf(st, st.em[e].reserved) \/ st.em[e].authorized
                           \/ e \in hist.lost
    BY DEF ReservedAgrees
  <2>1. /\ phase = "up" /\ place.at = "idle" /\ cancel.at = "idle"
        /\ st.events[e] = <<>> /\ apply[e].at = "idle"
    BY DEF Quiet
  <2>2. Range(st.events[e]) = {}  BY <2>1 DEF Range
  <2>3. EvseOK(st, e, place, cancel, apply[e], phase, Lost)  BY NowAt
  <2>4. st.restored[e] = None  BY <2>1, <2>2, <2>3 DEF EvseOK, RestoredOK, Told
  <2>5. st.evse_reservations[e] # None => st.evse_reservations[e].id \in Ids
    BY Now, BookIs
  <2>6. e \in ReservedEvses(st) /\ st.evse_reservations[e].type # None =>
           st.em[e].reserved = st.evse_reservations[e].id
    BY <2>1, <2>2, <2>3, <2>4, <2>5, IdsApart DEF EvseOK, Owed, Told, ReservedEvses
  <2>7. st.em[e].reserved \in Ids =>
           HasId(st, e, st.em[e].reserved) \/ st.em[e].authorized \/ e \in hist.lost
    <3>1. <<e, st.em[e].reserved>> \in Lost => e \in hist.lost  BY DEF Lost
    <3> QED  BY <2>1, <2>3, <3>1 DEF EvseOK, CoreOK, Backed
  <2> QED  BY <2>6, <2>7, EvseOfIs
<1> QED  BY <1>1, <1>2, <1>3, PTL DEF Spec
-----------------------------------------------------------------------------
(* is_reservation_possible.  Cars 1..n arrive in this order; car i may park  *)
(* at the places V[i].  A is the function of can_virtual_car_arrive.         *)

Arriving(A, V, n, E) ==
    A = [i \in 1..n |-> [u \in SUBSET E |->
            /\ V[i] \ u # {}
            /\ i < n => \A e \in V[i] \ u : A[i + 1][u \union {e}]]]

\* What it comes to: wherever the cars from i on have parked, outside u, the
\* next one finds a place.
Parked(at, V, u, i, k) ==
    /\ \A j \in i..(k - 1) : at[j] \in V[j] \ u
    /\ \A j, l \in i..(k - 1) : at[j] = at[l] => j = l
RoomFrom(V, u, i, n, E) ==
    \A k \in i..n : \A at \in [i..(k - 1) -> E] :
       Parked(at, V, u, i, k) => \E e \in V[k] \ u : \A j \in i..(k - 1) : at[j] # e

\* One car is taken off the front ...
LEMMA RoomFirst ==
    ASSUME NEW n \in Nat, NEW E, NEW V \in [1..n -> SUBSET E], NEW i \in 1..n,
           NEW u \in SUBSET E, RoomFrom(V, u, i, n, E)
    PROVE  V[i] \ u # {}
<1>1. i \in i..n /\ i..(i - 1) = {}  OBVIOUS
<1> DEFINE at == [j \in {} |-> E]
<1>2. at \in [i..(i - 1) -> E] /\ Parked(at, V, u, i, i)  BY <1>1 DEF Parked
<1> HIDE DEF at
<1> QED  BY <1>1, <1>2 DEF RoomFrom

LEMMA RoomRest ==
    ASSUME NEW n \in Nat, NEW E, NEW V \in [1..n -> SUBSET E], NEW i \in 1..n,
           NEW u \in SUBSET E, RoomFrom(V, u, i, n, E), i < n, NEW e \in V[i] \ u
    PROVE  RoomFrom(V, u \union {e}, i + 1, n, E)
<1> DEFINE w == u \union {e}
<1> SUFFICES ASSUME NEW k \in (i + 1)..n, NEW at \in [(i + 1)..(k - 1) -> E],
                    Parked(at, V, w, i + 1, k)
             PROVE  \E f \in V[k] \ w : \A j \in (i + 1)..(k - 1) : at[j] # f
  BY DEF RoomFrom
<1> DEFINE bt == [j \in i..(k - 1) |-> IF j = i THEN e ELSE at[j]]
<1>0. /\ k \in i..n /\ i \in i..(k - 1) /\ e \in E
      /\ \A j \in i..(k - 1) : j # i => j \in (i + 1)..(k - 1)
      /\ \A j \in (i + 1)..(k - 1) : j \in i..(k - 1) /\ j # i
  OBVIOUS
<1>1. bt \in [i..(k - 1) -> E]  BY <1>0
<1>2. /\ bt[i] = e
      /\ \A j \in (i + 1)..(k - 1) : bt[j] = at[j] /\ at[j] \in V[j] \ u /\ at[j] # e
  BY <1>0 DEF Parked
<1> HIDE DEF bt
<1>3. Parked(bt, V, u, i, k)
  <2>1. ASSUME NEW j \in i..(k - 1) PROVE bt[j] \in V[j] \ u  BY <1>0, <1>2
  <2>2. ASSUME NEW j \in i..(k - 1), NEW l \in i..(k - 1), bt[j] = bt[l] PROVE j = l
    BY <1>0, <1>2, <2>2 DEF Parked
  <2> QED  BY <2>1, <2>2 DEF Parked
<1>4. PICK f \in V[k] \ u : \A j \in i..(k - 1) : bt[j] # f
  BY <1>0, <1>1, <1>3 DEF RoomFrom
<1>5. f # e /\ \A j \in (i + 1)..(k - 1) : at[j] # f  BY <1>0, <1>2, <1>4
<1> QED  BY <1>4, <1>5

\* ... and put there again.
LEMMA RoomAgain ==
    ASSUME NEW n \in Nat, NEW E, NEW V \in [1..n -> SUBSET E], NEW i \in 1..n,
           NEW u \in SUBSET E, V[i] \ u # {},
           i < n => \A e \in V[i] \ u : RoomFrom(V, u \union {e}, i + 1, n, E)
    PROVE  RoomFrom(V, u, i, n, E)
<1> SUFFICES ASSUME NEW k \in i..n, NEW at \in [i..(k - 1) -> E],
                    Parked(at, V, u, i, k)
             PROVE  \E f \in V[k] \ u : \A j \in i..(k - 1) : at[j] # f
  BY DEF RoomFrom
<1>1. CASE k = i
  <2>1. i..(k - 1) = {}  BY <1>1
  <2> QED  BY <1>1, <2>1
<1>2. CASE k # i
  <2> DEFINE e == at[i]
             bt == [j \in (i + 1)..(k - 1) |-> at[j]]
  <2>0. /\ i < n /\ k \in (i + 1)..n /\ i \in i..(k - 1)
        /\ \A j \in i..(k - 1) : j # i => j \in (i + 1)..(k - 1)
        /\ \A j \in (i + 1)..(k - 1) : j \in i..(k - 1) /\ j # i
    BY <1>2
  <2>1. e \in V[i] \ u  BY <2>0 DEF Parked
  <2>2. bt \in [(i + 1)..(k - 1) -> E] /\ \A j \in (i + 1)..(k - 1) : bt[j] = at[j]
    BY <2>0
  <2> HIDE DEF bt
  <2>3. Parked(bt, V, u \union {e}, i + 1, k)
    <3>1. ASSUME NEW j \in (i + 1)..(k - 1) PROVE bt[j] \in V[j] \ (u \union {e})
      BY <2>0, <2>2 DEF Parked
    <3>2. ASSUME NEW j \in (i + 1)..(k - 1), NEW l \in (i + 1)..(k - 1), bt[j] = bt[l]
          PROVE j = l
      BY <2>0, <2>2, <3>2 DEF Parked
    <3> QED  BY <3>1, <3>2 DEF Parked
  <2>4. RoomFrom(V, u \union {e}, i + 1, n, E)  BY <2>0, <2>1
  <2>5. PICK f \in V[k] \ (u \union {e}) : \A j \in (i + 1)..(k - 1) : bt[j] # f
    BY <2>0, <2>2, <2>3, <2>4 DEF RoomFrom
  <2>6. \A j \in i..(k - 1) : at[j] # f  BY <2>0, <2>2, <2>5
  <2> QED  BY <2>5, <2>6
<1> QED  BY <1>1, <1>2

\* So there is a function of this kind, and no other.
LEMMA ArriveExists ==
    ASSUME NEW n \in Nat, NEW E, NEW V \in [1..n -> SUBSET E]
    PROVE  LET A == [i \in 1..n |-> [u \in SUBSET E |-> RoomFrom(V, u, i, n, E)]]
           IN  Arriving(A, V, n, E)
<1> DEFINE A == [i \in 1..n |-> [u \in SUBSET E |-> RoomFrom(V, u, i, n, E)]]
           Body(i, u) == /\ V[i] \ u # {}
                         /\ i < n => \A e \in V[i] \ u : A[i + 1][u \union {e}]
<1>1. ASSUME NEW i \in 1..n, NEW u \in SUBSET E
      PROVE  RoomFrom(V, u, i, n, E) <=> Body(i, u)
  <2>1. i < n => \A e \in V[i] \ u :
                   A[i + 1][u \union {e}] = RoomFrom(V, u \union {e}, i + 1, n, E)
    <3> SUFFICES ASSUME i < n, NEW e \in V[i] \ u
                 PROVE  A[i + 1][u \union {e}] = RoomFrom(V, u \union {e}, i + 1, n, E)
      OBVIOUS
    <3>1. i + 1 \in 1..n /\ u \union {e} \in SUBSET E  OBVIOUS
    <3> QED  BY <3>1, Zenon
  <2>2. RoomFrom(V, u, i, n, E) => V[i] \ u # {}  BY RoomFirst
  <2>3. RoomFrom(V, u, i, n, E) /\ i < n
          => \A e \in V[i] \ u : RoomFrom(V, u \union {e}, i + 1, n, E)
    BY RoomRest
  <2>4. V[i] \ u # {} /\ (i < n => \A e \in V[i] \ u : RoomFrom(V, u \union {e}, i + 1, n, E))
          => RoomFrom(V, u, i, n, E)
    BY RoomAgain
  <2> HIDE DEF A
  <2> QED  BY <2>1, <2>2, <2>3, <2>4
<1>2. ASSUME NEW i \in 1..n
      PROVE  [u \in SUBSET E |-> RoomFrom(V, u, i, n, E)] = [u \in SUBSET E |-> Body(i, u)]
  <2>1. \A u \in SUBSET E : RoomFrom(V, u, i, n, E) = Body(i, u)
    <3>1. \A u \in SUBSET E : RoomFrom(V, u, i, n, E) \in BOOLEAN /\ Body(i, u) \in BOOLEAN
      BY DEF RoomFrom
    <3> QED  BY <1>1, <3>1
  <2> HIDE DEF Body
  <2> QED  BY <2>1, Zenon
<1>3. A = [i \in 1..n |-> [u \in SUBSET E |-> Body(i, u)]]
  <2> HIDE DEF Body
  <2> QED  BY <1>2, Zenon
<1> QED  BY <1>3 DEF Arriving

LEMMA ArriveUnique ==
    ASSUME NEW n \in Nat, NEW E, NEW V \in [1..n -> SUBSET E],
           NEW A, Arriving(A, V, n, E), NEW B, Arriving(B, V, n, E)
    PROVE  A = B
<1> DEFINE S == {d \in Nat : d < n => A[n - d] = B[n - d]}
<1> DEFINE Body(X, i, u) == /\ V[i] \ u # {}
                            /\ i < n => \A e \in V[i] \ u : X[i + 1][u \union {e}]
<1>0. ASSUME NEW i \in 1..n
      PROVE  /\ A[i] = [u \in SUBSET E |-> Body(A, i, u)]
             /\ B[i] = [u \in SUBSET E |-> Body(B, i, u)]
  BY Zenon DEF Arriving
<1>1. 0 \in S
  <2> SUFFICES ASSUME 0 < n PROVE A[n - 0] = B[n - 0]  OBVIOUS
  <2>1. n \in 1..n /\ ~(n < n) /\ n - 0 = n  OBVIOUS
  <2>2. A[n] = [u \in SUBSET E |-> V[n] \ u # {}] /\ B[n] = [u \in SUBSET E |-> V[n] \ u # {}]
    BY <1>0, <2>1
  <2> QED  BY <2>1, <2>2
<1>2. ASSUME NEW d \in S \cap Nat PROVE d + 1 \in S
  <2> SUFFICES ASSUME d + 1 < n PROVE A[n - (d + 1)] = B[n - (d + 1)]  OBVIOUS
  <2>1. PICK i \in 1..n : i = n - (d + 1)  OBVIOUS
  <2>2. i + 1 = n - d /\ i < n /\ d < n  BY <2>1
  <2>3. A[i + 1] = B[i + 1]  BY <2>2
  <2>4. A[i] = B[i]
    <3>1. \A u \in SUBSET E : Body(A, i, u) = Body(B, i, u)  BY <2>3
    <3> HIDE DEF Body
    <3> QED  BY <1>0, <3>1, Zenon
  <2> QED  BY <2>1, <2>4
<1>3. Nat \subseteq S
  <2> HIDE DEF S
  <2> QED  BY <1>1, <1>2, SetInduction
<1>4. ASSUME NEW i \in 1..n PROVE A[i] = B[i]
  <2>1. n - i \in Nat /\ n - i < n /\ n - (n - i) = i  OBVIOUS
  <2> QED  BY <1>3, <2>1
<1>5. A = [i \in 1..n |-> A[i]] /\ B = [i \in 1..n |-> B[i]]
  BY Zenon DEF Arriving
<1> QED  BY <1>4, <1>5, Zenon

\* can_virtual_car_arrive.
UsableFor(s, type, reserved) == {e \in Evses \ reserved : Free(s, e) /\ Suitable(e, type)}
LEMMA CanArriveIs ==
    ASSUME NEW s, NEW order, Len(order) \in Nat, Len(order) # 0, NEW reserved
    PROVE  CanArrive(s, order, reserved)
             <=> RoomFrom([i \in 1..Len(order) |-> UsableFor(s, order[i], reserved)],
                          {}, 1, Len(order), Evses)
<1> DEFINE n == Len(order)
           V == [i \in 1..n |-> UsableFor(s, order[i], reserved)]
           Code(A) == A = [i \in 1..n |-> [used \in SUBSET Evses |->
               LET choice == {e \in Evses \ (used \union reserved) :
                                 Free(s, e) /\ Suitable(e, order[i])}
               IN /\ choice # {}
                  /\ i < n => \A e \in choice : A[i + 1][used \union {e}]]]
           R == [i \in 1..n |-> [u \in SUBSET Evses |-> RoomFrom(V, u, i, n, Evses)]]
<1>1. CanArrive(s, order, reserved) = (CHOOSE A : Code(A))[1][{}]
  BY Zenon DEF CanArrive
<1>2. V \in [1..n -> SUBSET Evses]  BY DEF UsableFor
<1>3. ASSUME NEW A PROVE Code(A) <=> Arriving(A, V, n, Evses)
  <2> DEFINE choice(i, u) == {e \in Evses \ (u \union reserved) :
                                 Free(s, e) /\ Suitable(e, order[i])}
             C(i, u) == /\ choice(i, u) # {}
                        /\ i < n => \A e \in choice(i, u) : A[i + 1][u \union {e}]
             D(i, u) == /\ V[i] \ u # {}
                        /\ i < n => \A e \in V[i] \ u : A[i + 1][u \union {e}]
  <2>1. ASSUME NEW i \in 1..n, NEW u \in SUBSET Evses PROVE C(i, u) = D(i, u)
    <3>1. choice(i, u) = V[i] \ u  BY DEF UsableFor
    <3> HIDE DEF choice, V
    <3> QED  BY <3>1
  <2>2. Code(A) <=> A = [i \in 1..n |-> [u \in SUBSET Evses |-> C(i, u)]]
    BY Zenon
  <2>3. Arriving(A, V, n, Evses) <=> A = [i \in 1..n |-> [u \in SUBSET Evses |-> D(i, u)]]
    BY Zenon DEF Arriving
  <2> HIDE DEF Code, C, D
  <2> QED  BY <2>1, <2>2, <2>3, Zenon
<1>4. n \in Nat /\ 1 \in 1..n /\ {} \in SUBSET Evses  OBVIOUS
<1> HIDE DEF Code, V, n
<1>5. Arriving(R, V, n, Evses)  BY <1>2, <1>4, ArriveExists
<1>6. \A A : Code(A) <=> A = R
  <2> HIDE DEF R
  <2> QED  BY <1>2, <1>3, <1>4, <1>5, ArriveUnique, Zenon
<1>7. (CHOOSE A : Code(A)) = R
  <2> HIDE DEF R
  <2> QED  BY <1>6
<1>8. R[1][{}] = RoomFrom(V, {}, 1, n, Evses)  BY <1>4, Zenon
<1>9. CanArrive(s, order, reserved) <=> RoomFrom(V, {}, 1, n, Evses)
  <2> HIDE DEF R
  <2> QED  BY <1>1, <1>7, <1>8
<1> QED  BY <1>9 DEF n, V

(* The orders.  Room: wherever some of the cars have parked, each of the      *)
(* others still finds a place.                                                *)
Standing(at, parked, i, U, C, E) ==
    /\ parked \subseteq C /\ i \notin parked /\ at \in [parked -> E]
    /\ \A j \in parked : at[j] \in U[j]
    /\ \A j, l \in parked : at[j] = at[l] => j = l
Finds(at, parked, places) == \E e \in places : \A j \in parked : at[j] # e
Room(U, C, E) ==
    \A i \in C : \A parked, at : Standing(at, parked, i, U, C, E) => Finds(at, parked, U[i])

\* A permutation has an inverse.
LEMMA Inverted ==
    ASSUME NEW n \in Nat, NEW p \in Bijection(1..n, 1..n)
    PROVE  /\ p \in [1..n -> 1..n]
           /\ \A i, j \in 1..n : p[i] = p[j] => i = j
           /\ \E q \in [1..n -> 1..n] : \A i \in 1..n : q[p[i]] = i /\ p[q[i]] = i
<1>1. /\ p \in [1..n -> 1..n]
      /\ \A i, j \in 1..n : p[i] = p[j] => i = j
      /\ \A m \in 1..n : \E i \in 1..n : p[i] = m
  BY DEF Bijection, Injection, Surjection, IsInjective
<1> DEFINE q == [m \in 1..n |-> CHOOSE i \in 1..n : p[i] = m]
<1>2. ASSUME NEW m \in 1..n PROVE q[m] \in 1..n /\ p[q[m]] = m  BY <1>1
<1>3. q \in [1..n -> 1..n]  BY <1>2
<1> HIDE DEF q
<1>4. ASSUME NEW i \in 1..n PROVE q[p[i]] = i
  <2>1. p[i] \in 1..n  BY <1>1
  <2>2. q[p[i]] \in 1..n /\ p[q[p[i]]] = p[i]  BY <1>2, <2>1
  <2> QED  BY <1>1, <2>2
<1> QED  BY <1>1, <1>2, <1>3, <1>4

LEMMA RoomInOrder ==
    ASSUME NEW n \in Nat, NEW E, NEW U \in [1..n -> SUBSET E], Room(U, 1..n, E),
           NEW p \in Bijection(1..n, 1..n)
    PROVE  RoomFrom([i \in 1..n |-> U[p[i]]], {}, 1, n, E)
<1> DEFINE V == [i \in 1..n |-> U[p[i]]]
<1>1. p \in [1..n -> 1..n]  BY Inverted
<1>2. PICK q \in [1..n -> 1..n] : \A i \in 1..n : q[p[i]] = i
  BY Inverted
<1>3. \A i \in 1..n : V[i] = U[p[i]]  OBVIOUS
<1> HIDE DEF V
<1> SUFFICES ASSUME NEW k \in 1..n, NEW at \in [1..(k - 1) -> E],
                    Parked(at, V, {}, 1, k)
             PROVE  \E e \in V[k] \ {} : \A j \in 1..(k - 1) : at[j] # e
  BY DEF RoomFrom, V
<1> DEFINE parked == {p[j] : j \in 1..(k - 1)}
           bt == [m \in parked |-> at[q[m]]]
<1>4. ASSUME NEW j \in 1..(k - 1)
      PROVE  /\ j \in 1..n /\ p[j] \in 1..n /\ q[p[j]] = j /\ p[j] # p[k]
             /\ at[j] \in E /\ at[j] \in U[p[j]]
  <2>1. j \in 1..n /\ j # k  OBVIOUS
  <2>2. at[j] \in E /\ at[j] \in V[j]  BY DEF Parked
  <2>3. q[p[j]] = j /\ q[p[k]] = k  BY <1>2, <2>1
  <2>4. p[j] \in 1..n  BY <1>1, <2>1
  <2> QED  BY <1>3, <2>1, <2>2, <2>3, <2>4
<1>5. parked \in SUBSET ((1..n) \ {p[k]})  BY <1>4
<1>6. ASSUME NEW j \in 1..(k - 1) PROVE p[j] \in parked /\ bt[p[j]] = at[j]
  BY <1>4
<1>7. ASSUME NEW m \in parked PROVE \E j \in 1..(k - 1) : m = p[j]  OBVIOUS
<1>8. bt \in [parked -> E]
  <2>1. ASSUME NEW m \in parked PROVE at[q[m]] \in E  BY <1>4
  <2> QED  BY <2>1
<1> HIDE DEF parked, bt
<1>9. ASSUME NEW m \in parked PROVE bt[m] \in U[m]
  <2>1. PICK j \in 1..(k - 1) : m = p[j]  BY <1>7
  <2> QED  BY <1>4, <1>6, <2>1
<1>10. ASSUME NEW m \in parked, NEW l \in parked, bt[m] = bt[l] PROVE m = l
  <2>1. PICK j \in 1..(k - 1) : m = p[j]  BY <1>7
  <2>2. PICK i \in 1..(k - 1) : l = p[i]  BY <1>7
  <2>3. at[j] = at[i]  BY <1>6, <1>10, <2>1, <2>2
  <2>4. i = j  BY <2>3 DEF Parked
  <2> QED  BY <2>1, <2>2, <2>4
<1>11. p[k] \in 1..n  BY <1>1
<1>12. Standing(bt, parked, p[k], U, 1..n, E)
  BY <1>5, <1>8, <1>9, <1>10 DEF Standing
<1>13. PICK e \in U[p[k]] : \A m \in parked : bt[m] # e
  <2>1. Finds(bt, parked, U[p[k]])  BY <1>11, <1>12 DEF Room
  <2> QED  BY <2>1 DEF Finds
<1>14. e \in V[k] \ {}  BY <1>3
<1>15. ASSUME NEW j \in 1..(k - 1) PROVE at[j] # e  BY <1>6, <1>13
<1> QED  BY <1>14, <1>15

\* An order in which the cars of a set come first, and then car i.
Comes(p, k, i, parked) == p[k] = i /\ parked = {p[j] : j \in 1..(k - 1)}
LEMMA OrderWith ==
    ASSUME NEW n \in Nat, NEW i \in 1..n, NEW parked \in SUBSET ((1..n) \ {i})
    PROVE  \E p \in Bijection(1..n, 1..n) : \E k \in 1..n : Comes(p, k, i, parked)
<1> DEFINE rest == ((1..n) \ {i}) \ parked
           c == Cardinality(parked)
           d == Cardinality(rest)
           k == c + 1
<1>1. IsFiniteSet(1..n) /\ Cardinality(1..n) = n
  <2>1. 1 \in Int /\ n \in Int /\ (IF 1 > n THEN 0 ELSE n - 1 + 1) = n  OBVIOUS
  <2> QED  BY <2>1, FS_Interval
<1>2. IsFiniteSet((1..n) \ {i}) /\ Cardinality((1..n) \ {i}) = n - 1
  BY <1>1, FS_RemoveElement
<1>3. /\ IsFiniteSet(parked) /\ c \in Nat /\ IsFiniteSet(rest) /\ d \in Nat
      /\ d = (n - 1) - c
  <2> DEFINE T == (1..n) \ {i}
  <2>1. IsFiniteSet(T) /\ parked \in SUBSET T /\ T \cap parked = parked  BY <1>2
  <2> HIDE DEF T
  <2>2. IsFiniteSet(parked) /\ IsFiniteSet(T \ parked)
        /\ Cardinality(T \ parked) = Cardinality(T) - Cardinality(parked)
    BY <2>1, FS_Subset, FS_Difference
  <2>3. Cardinality(parked) \in Nat /\ Cardinality(T \ parked) \in Nat
    BY <2>2, FS_CardinalityType
  <2> QED  BY <1>2, <2>2, <2>3 DEF T
<1>4. PICK b \in Bijection(1..c, parked) : TRUE
  BY <1>3, FS_CardinalityType DEF ExistsBijection
<1>5. PICK a \in Bijection(1..d, rest) : TRUE
  BY <1>3, FS_CardinalityType DEF ExistsBijection
<1> HIDE DEF c, d
<1>6. /\ b \in [1..c -> parked] /\ \A x, y \in 1..c : b[x] = b[y] => x = y
      /\ \A m \in parked : \E x \in 1..c : b[x] = m
  BY <1>4 DEF Bijection, Injection, Surjection, IsInjective
<1>7. /\ a \in [1..d -> rest] /\ \A x, y \in 1..d : a[x] = a[y] => x = y
      /\ \A m \in rest : \E x \in 1..d : a[x] = m
  BY <1>5 DEF Bijection, Injection, Surjection, IsInjective
<1> DEFINE p == [x \in 1..n |-> IF x < k THEN b[x] ELSE IF x = k THEN i ELSE a[x - k]]
<1>8. ASSUME NEW x \in 1..n
      PROVE  /\ x < k => x \in 1..c /\ p[x] = b[x] /\ p[x] \in parked
             /\ x = k => p[x] = i
             /\ x > k => x - k \in 1..d /\ p[x] = a[x - k] /\ p[x] \in rest
  <2>1. x < k => x \in 1..c  BY <1>3
  <2>2. x > k => x - k \in 1..d  BY <1>3
  <2>3. x < k => p[x] = b[x] /\ p[x] \in parked  BY <1>6, <2>1
  <2>4. x > k => p[x] = a[x - k] /\ p[x] \in rest
    <3> SUFFICES ASSUME x > k PROVE p[x] = a[x - k] /\ p[x] \in rest  OBVIOUS
    <3>1. ~(x < k) /\ x # k  BY <1>3
    <3>2. p[x] = a[x - k]  BY <3>1
    <3>3. a[x - k] \in rest  BY <1>7, <2>2
    <3> QED  BY <3>2, <3>3
  <2> QED  BY <2>1, <2>2, <2>3, <2>4, <1>3
<1>9. k \in 1..n /\ p[k] = i  BY <1>3, <1>8
<1>10. p \in [1..n -> 1..n]
  <2>1. ASSUME NEW x \in 1..n PROVE p[x] \in 1..n
    <3>1. x < k \/ x = k \/ x > k  BY <1>3
    <3>2. p[x] \in parked \/ p[x] = i \/ p[x] \in rest  BY <1>8, <3>1
    <3> HIDE DEF p
    <3> QED  BY <3>2
  <2> QED  BY <2>1
<1> HIDE DEF p
<1>11. ASSUME NEW x \in 1..n, NEW y \in 1..n, p[x] = p[y] PROVE x = y
  <2> DEFINE r == rest
  <2>1. r \cap parked = {} /\ i \notin r /\ i \notin parked  OBVIOUS
  <2>2. ASSUME NEW z \in 1..n PROVE z < k \/ z = k \/ z > k  BY <1>3
  <2>3. CASE x < k
    <3>1. y < k  BY <1>8, <1>11, <2>1, <2>2, <2>3
    <3> QED  BY <1>6, <1>8, <1>11, <2>3, <3>1
  <2>4. CASE x = k
    <3>1. y = k  BY <1>8, <1>11, <2>1, <2>2, <2>4
    <3> QED  BY <2>4, <3>1
  <2>5. CASE x > k
    <3>1. y > k  BY <1>8, <1>11, <2>1, <2>2, <2>5
    <3>2. x - k = y - k  BY <1>7, <1>8, <1>11, <2>5, <3>1
    <3> QED  BY <1>3, <3>2
  <2> QED  BY <2>2, <2>3, <2>4, <2>5
<1>12. ASSUME NEW m \in 1..n PROVE \E x \in 1..n : p[x] = m
  <2>1. CASE m \in parked
    <3>1. PICK x \in 1..c : b[x] = m  BY <1>6, <2>1
    <3>2. x \in 1..n /\ x < k  BY <1>3
    <3> QED  BY <1>8, <3>1, <3>2
  <2>2. CASE m = i  BY <1>9, <2>2
  <2>3. CASE m \in rest
    <3>1. PICK x \in 1..d : a[x] = m  BY <1>7, <2>3
    <3>2. x + k \in 1..n /\ x + k > k /\ (x + k) - k = x  BY <1>3
    <3> QED  BY <1>8, <3>1, <3>2
  <2> QED  BY <2>1, <2>2, <2>3
<1>13. p \in Bijection(1..n, 1..n)
  BY <1>10, <1>11, <1>12 DEF Bijection, Injection, Surjection, IsInjective
<1>14. parked = {p[j] : j \in 1..(k - 1)}
  <2>0. k - 1 = c  BY <1>3
  <2>1. ASSUME NEW j \in 1..c PROVE p[j] \in parked /\ p[j] = b[j]
    <3>1. j \in 1..n /\ j < k  BY <1>3
    <3> QED  BY <1>8, <3>1
  <2>2. \A m \in parked : \E j \in 1..c : m = p[j]  BY <1>6, <2>1
  <2> QED  BY <2>0, <2>1, <2>2
<1>15. Comes(p, k, i, parked)  BY <1>9, <1>14 DEF Comes
<1> HIDE DEF k
<1> QED  BY <1>9, <1>13, <1>15

LEMMA RoomInAny ==
    ASSUME NEW n \in Nat, NEW E, NEW U \in [1..n -> SUBSET E],
           \A p \in Bijection(1..n, 1..n) : RoomFrom([i \in 1..n |-> U[p[i]]], {}, 1, n, E)
    PROVE  Room(U, 1..n, E)
<1> SUFFICES ASSUME NEW i \in 1..n, NEW parked, NEW at, Standing(at, parked, i, U, 1..n, E)
             PROVE  Finds(at, parked, U[i])
  BY DEF Room
<1>0. /\ parked \in SUBSET ((1..n) \ {i}) /\ at \in [parked -> E]
      /\ \A j \in parked : at[j] \in U[j]
      /\ \A j, l \in parked : at[j] = at[l] => j = l
  BY DEF Standing
<1>1. PICK p \in Bijection(1..n, 1..n) : \E k \in 1..n : Comes(p, k, i, parked)
  BY <1>0, OrderWith
<1>2. PICK k \in 1..n : p[k] = i /\ parked = {p[j] : j \in 1..(k - 1)}
  BY <1>1 DEF Comes
<1>3. p \in [1..n -> 1..n] /\ \A x, y \in 1..n : p[x] = p[y] => x = y  BY Inverted
<1> DEFINE V == [x \in 1..n |-> U[p[x]]]
           bt == [j \in 1..(k - 1) |-> at[p[j]]]
<1>4. RoomFrom(V, {}, 1, n, E)  OBVIOUS
<1>5. \A x \in 1..n : V[x] = U[p[x]]  OBVIOUS
<1>6. ASSUME NEW j \in 1..(k - 1) PROVE bt[j] = at[p[j]] /\ p[j] \in parked /\ j \in 1..n
  BY <1>2
<1>7. bt \in [1..(k - 1) -> E]
  <2>1. ASSUME NEW j \in 1..(k - 1) PROVE at[p[j]] \in E  BY <1>0, <1>6
  <2> QED  BY <2>1
<1> HIDE DEF V, bt
<1>8. Parked(bt, V, {}, 1, k)
  <2>1. ASSUME NEW j \in 1..(k - 1) PROVE bt[j] \in V[j] \ {}  BY <1>0, <1>5, <1>6
  <2>2. ASSUME NEW j \in 1..(k - 1), NEW l \in 1..(k - 1), bt[j] = bt[l] PROVE j = l
    <3>0. at[p[j]] = at[p[l]] /\ p[j] \in parked /\ p[l] \in parked
      BY <1>6, <2>2
    <3>1. p[j] = p[l]  BY <1>0, <3>0, Zenon
    <3> QED  BY <1>3, <1>6, <3>1
  <2> QED  BY <2>1, <2>2 DEF Parked
<1>9. PICK e \in V[k] \ {} : \A j \in 1..(k - 1) : bt[j] # e
  BY <1>4, <1>7, <1>8 DEF RoomFrom
<1>10. e \in U[i]  BY <1>2, <1>5
<1>11. ASSUME NEW m \in parked PROVE at[m] # e
  <2>1. PICK j \in 1..(k - 1) : m = p[j]  BY <1>2
  <2> QED  BY <1>6, <1>9, <2>1
<1> QED  BY <1>10, <1>11 DEF Finds

\* Where there is room, each car has a place of its own: so is_reservation_-
\* possible's first test, which counts, is part of the other one.
LEMMA RoomCounts ==
    ASSUME NEW n \in Nat, NEW E, NEW U \in [1..n -> SUBSET E], Room(U, 1..n, E),
           NEW F \in SUBSET E, \A i \in 1..n : U[i] \subseteq F, IsFiniteSet(F)
    PROVE  n <= Cardinality(F)
<1> DEFINE Full(at, k) == /\ at \in [1..k -> E]
                          /\ \A j \in 1..k : at[j] \in U[j]
                          /\ \A j, l \in 1..k : at[j] = at[l] => j = l
           S == {k \in Nat : k <= n => \E at : Full(at, k)}
<1>1. 0 \in S
  <2> DEFINE at == [j \in 1..0 |-> E]
  <2>1. Full(at, 0)
    <3>1. 1..0 = {}  OBVIOUS
    <3> QED  BY <3>1
  <2> QED  BY <2>1
<1>2. ASSUME NEW k \in S \cap Nat PROVE k + 1 \in S
  <2> SUFFICES ASSUME k + 1 <= n PROVE \E bt : Full(bt, k + 1)  OBVIOUS
  <2>0. k <= n /\ k + 1 \in 1..n /\ 1..k \subseteq 1..n /\ k + 1 \notin 1..k  OBVIOUS
  <2>1. PICK at : Full(at, k)  BY <2>0
  <2>2. Standing(at, 1..k, k + 1, U, 1..n, E)  BY <2>0, <2>1 DEF Standing
  <2>3. PICK e \in U[k + 1] : \A j \in 1..k : at[j] # e
    BY <2>0, <2>2 DEF Room, Finds
  <2> DEFINE bt == [j \in 1..(k + 1) |-> IF j = k + 1 THEN e ELSE at[j]]
  <2>4. /\ bt[k + 1] = e /\ \A j \in 1..k : bt[j] = at[j] /\ at[j] \in E
        /\ \A j \in 1..(k + 1) : j # k + 1 => j \in 1..k
        /\ e \in E
    BY <2>0, <2>1
  <2>5. bt \in [1..(k + 1) -> E]
    <3>1. ASSUME NEW j \in 1..(k + 1) PROVE bt[j] \in E  BY <2>4
    <3> QED  BY <3>1
  <2> HIDE DEF bt
  <2>6. ASSUME NEW j \in 1..(k + 1) PROVE bt[j] \in U[j]  BY <2>1, <2>4
  <2>7. ASSUME NEW j \in 1..(k + 1), NEW l \in 1..(k + 1), bt[j] = bt[l] PROVE j = l
    BY <2>1, <2>3, <2>4, <2>7
  <2> QED  BY <2>5, <2>6, <2>7
<1>3. Nat \subseteq S
  <2> HIDE DEF S
  <2> QED  BY <1>1, <1>2, SetInduction
<1>4. PICK at : Full(at, n)
  <2>1. n <= n  OBVIOUS
  <2> HIDE DEF Full
  <2> QED  BY <1>3, <2>1
<1>5. at \in Injection(1..n, F)
  <2>1. ASSUME NEW j \in 1..n PROVE at[j] \in F  BY <1>4
  <2>2. at \in [1..n -> F]  BY <1>4, <2>1
  <2> QED  BY <1>4, <2>2 DEF Injection, IsInjective
<1>6. Cardinality(1..n) <= Cardinality(F)  BY <1>5, FS_Injection
<1>7. Cardinality(1..n) = n
  <2>1. 1 \in Int /\ n \in Int /\ (IF 1 > n THEN 0 ELSE n - 1 + 1) = n  OBVIOUS
  <2> QED  BY <2>1, FS_Interval
<1> QED  BY <1>6, <1>7

\* is_reservation_possible, with the places the cars may take.
Places(s, types, reserved) == [i \in 1..Len(types) |-> UsableFor(s, types[i], reserved)]
LEMMA PossibleIsRoom ==
    ASSUME NEW s, NEW T, NEW types \in Seq(T), NEW reserved \in SUBSET Evses
    PROVE  IsPossible(s, types, reserved)
             <=> Room(Places(s, types, reserved), 1..Len(types), Evses)
<1> DEFINE n == Len(types)
           U == Places(s, types, reserved)
           order(p) == [i \in DOMAIN types |-> types[p[i]]]
<1>1. n \in Nat /\ DOMAIN types = 1..n /\ (types = <<>> <=> n = 0)  OBVIOUS
<1>2. U \in [1..n -> SUBSET Evses] /\ \A i \in 1..n : U[i] = UsableFor(s, types[i], reserved)
  BY DEF Places, UsableFor
<1>3. ASSUME n # 0, NEW p \in Bijection(1..n, 1..n)
      PROVE  CanArrive(s, order(p), reserved)
               <=> RoomFrom([i \in 1..n |-> U[p[i]]], {}, 1, n, Evses)
  <2>1. p \in [1..n -> 1..n]  BY <1>1, Inverted
  <2> DEFINE o == order(p)
             V == [i \in 1..Len(o) |-> UsableFor(s, o[i], reserved)]
  <2>2. o \in Seq(T) /\ Len(o) = n /\ \A i \in 1..n : o[i] = types[p[i]]
    <3>1. \A i \in 1..n : types[p[i]] \in T  BY <1>1, <2>1
    <3>2. o \in [1..n -> T]  BY <1>1, <3>1
    <3> QED  BY <1>1, <3>2
  <2> HIDE DEF o
  <2>3. CanArrive(s, o, reserved) <=> RoomFrom(V, {}, 1, Len(o), Evses)
    BY <1>1, <1>3, <2>2, CanArriveIs
  <2>4. V = [i \in 1..n |-> U[p[i]]]
    <3>1. ASSUME NEW i \in 1..n PROVE UsableFor(s, o[i], reserved) = U[p[i]]
      <4>1. p[i] \in 1..n  BY <2>1
      <4> QED  BY <1>2, <2>2, <4>1
    <3> QED  BY <2>2, <3>1
  <2> HIDE DEF V
  <2> QED  BY <2>2, <2>3, <2>4 DEF o
<1> HIDE DEF U
<1>4. ASSUME Room(U, 1..n, Evses)
      PROVE  /\ n + Cardinality(reserved) <= Cardinality(Evses)
             /\ n # 0 => \A p \in Bijection(1..n, 1..n) : CanArrive(s, order(p), reserved)
  <2> DEFINE F == Evses \ reserved
  <2>1. IsFiniteSet(Evses) /\ Evses \cap reserved = reserved  BY ReservationAssumption
  <2>2. /\ IsFiniteSet(F) /\ Cardinality(F) = Cardinality(Evses) - Cardinality(reserved)
    BY <2>1, FS_Difference
  <2>3. \A i \in 1..n : U[i] \subseteq F  BY <1>2 DEF UsableFor
  <2>4. n <= Cardinality(F)
    <3> HIDE DEF F, n
    <3>1. F \in SUBSET Evses  BY DEF F
    <3> QED  BY <1>1, <1>2, <1>4, <2>2, <2>3, <3>1, RoomCounts
  <2>5. IsFiniteSet(reserved)  BY <2>1, FS_Subset
  <2>6. Cardinality(reserved) \in Nat /\ Cardinality(Evses) \in Nat
    BY <2>1, <2>5, FS_CardinalityType
  <2>7. ASSUME n # 0, NEW p \in Bijection(1..n, 1..n)
        PROVE  CanArrive(s, order(p), reserved)
    <3> HIDE DEF n
    <3>3. RoomFrom([i \in 1..n |-> U[p[i]]], {}, 1, n, Evses)
      BY <1>1, <1>2, <1>4, RoomInOrder
    <3> HIDE DEF order
    <3> QED  BY <1>3, <2>7, <3>3
  <2> QED  BY <1>1, <2>2, <2>4, <2>6, <2>7
<1>5. ASSUME n # 0 => \A p \in Bijection(1..n, 1..n) : CanArrive(s, order(p), reserved)
      PROVE  Room(U, 1..n, Evses)
  <2>1. CASE n = 0
    <3>1. 1..n = {}  BY <2>1
    <3> QED  BY <3>1 DEF Room
  <2>2. CASE n # 0
    <3> HIDE DEF n, order
    <3>1. \A p \in Bijection(1..n, 1..n) :
             RoomFrom([i \in 1..n |-> U[p[i]]], {}, 1, n, Evses)
      BY <1>3, <1>5, <2>2
    <3> QED  BY <1>1, <1>2, <3>1, RoomInAny
  <2> QED  BY <2>1, <2>2
<1>6. IsPossible(s, types, reserved)
        <=> /\ n + Cardinality(reserved) <= Cardinality(Evses)
            /\ n # 0 => \A p \in Bijection(1..n, 1..n) : CanArrive(s, order(p), reserved)
  BY <1>1 DEF IsPossible
<1> HIDE DEF n, order
<1>7. IsPossible(s, types, reserved) <=> Room(U, 1..n, Evses)
  BY <1>4, <1>5, <1>6
<1> QED  BY <1>7 DEF n, U

\* The same with what is_reservation_possible is meant to say, here of any set
\* of cars.
LEMMA AlwaysRoomIs ==
    ASSUME NEW s, NEW types, NEW reserved, NEW C, C = DOMAIN types
    PROVE  AlwaysRoom(s, types, reserved)
             <=> Room([i \in C |-> UsableFor(s, types[i], reserved)], C, Evses)
<1> DEFINE U == [i \in C |-> UsableFor(s, types[i], reserved)]
           usable(i) == {e \in Evses \ reserved : Free(s, e) /\ Suitable(e, types[i])}
           Left(i, at) == usable(i) \ Range(at) # {}
           Fits(parked, at) == \A j \in parked : at[j] \in usable(j)
<1>2. \A i \in C : U[i] = usable(i)  BY DEF UsableFor
<1>3. AlwaysRoom(s, types, reserved)
        <=> \A i \in C : \A parked \in SUBSET (C \ {i}) :
               \A at \in Injection(parked, Evses) : Fits(parked, at) => Left(i, at)
  BY Zenon DEF AlwaysRoom
<1> HIDE DEF U
<1>4. ASSUME NEW i \in C, NEW parked \in SUBSET (C \ {i}),
             NEW at \in Injection(parked, Evses)
      PROVE  /\ Fits(parked, at) <=> Standing(at, parked, i, U, C, Evses)
             /\ Left(i, at) <=> Finds(at, parked, U[i])
  <2>1. at \in [parked -> Evses] /\ \A j, l \in parked : at[j] = at[l] => j = l
    BY DEF Injection, IsInjective
  <2>2. Fits(parked, at) <=> Standing(at, parked, i, U, C, Evses)
    <3> HIDE DEF usable
    <3>1. \A j \in parked : U[j] = usable(j)  BY <1>2
    <3> QED  BY <2>1, <3>1 DEF Standing
  <2>3. Left(i, at) <=> Finds(at, parked, U[i])
    <3>1. Range(at) = {at[j] : j \in parked}  BY <2>1 DEF Range
    <3> HIDE DEF usable
    <3> QED  BY <1>2, <3>1 DEF Finds
  <2> QED  BY <2>2, <2>3
<1>5. ASSUME NEW i \in C, NEW parked, NEW at, Standing(at, parked, i, U, C, Evses)
      PROVE  parked \in SUBSET (C \ {i}) /\ at \in Injection(parked, Evses)
  BY <1>5 DEF Standing, Injection, IsInjective
<1> HIDE DEF Fits, Left
<1>6. ASSUME AlwaysRoom(s, types, reserved), NEW i \in C, NEW parked, NEW at,
             Standing(at, parked, i, U, C, Evses)
      PROVE  Finds(at, parked, U[i])
  <2>1. parked \in SUBSET (C \ {i}) /\ at \in Injection(parked, Evses)
    BY <1>5, <1>6
  <2>2. Left(i, at)  BY <1>3, <1>4, <1>6, <2>1, Zenon
  <2> QED  BY <1>4, <2>1, <2>2, Zenon
<1>7. ASSUME Room(U, C, Evses), NEW i \in C, NEW parked \in SUBSET (C \ {i}),
             NEW at \in Injection(parked, Evses), Fits(parked, at)
      PROVE  Left(i, at)
  <2>1. Standing(at, parked, i, U, C, Evses)  BY <1>4, <1>7, Zenon
  <2>2. Finds(at, parked, U[i])  BY <1>7, <2>1 DEF Room
  <2> QED  BY <1>4, <2>2, Zenon
<1>8. AlwaysRoom(s, types, reserved) => Room(U, C, Evses)
  BY <1>6, Zenon DEF Room
<1>9. Room(U, C, Evses) => AlwaysRoom(s, types, reserved)
  BY <1>3, <1>7, Zenon
<1> QED  BY <1>8, <1>9 DEF U

\* So is_reservation_possible, which tries every order in which the cars may
\* come, says what it is meant to say, for any number of cars and EVSEs:
\* wherever some of the cars have parked, each of the others finds an EVSE.
THEOREM PossibleMeansRoom ==
    ASSUME NEW s, NEW T, NEW types \in Seq(T), NEW reserved \in SUBSET Evses
    PROVE  IsPossible(s, types, reserved) <=> AlwaysRoom(s, types, reserved)
<1>1. DOMAIN types = 1..Len(types)  OBVIOUS
<1>2. AlwaysRoom(s, types, reserved)
        <=> Room(Places(s, types, reserved), 1..Len(types), Evses)
  BY <1>1, AlwaysRoomIs DEF Places
<1> QED  BY <1>2, PossibleIsRoom

\* In particular in every state in which a reservation is about to be made or
\* loaded.
THEOREM PossibleIsRight == Spec => []PossibleIsAlwaysRoom
<1>1. PossibleIsAlwaysRoom
  <2> SUFFICES ASSUME NEW m \in 1..2, NEW types \in [1..m -> AllTypes],
                      NEW reserved \in SUBSET Evses
               PROVE  IsPossible(st, types, reserved) <=> AlwaysRoom(st, types, reserved)
    BY DEF PossibleIsAlwaysRoom
  <2>1. types \in Seq(AllTypes)  OBVIOUS
  <2> QED  BY <2>1, PossibleMeansRoom, Zenon
<1> QED  BY <1>1, PTL
-----------------------------------------------------------------------------
\* Room is kept when cars stay away and places become free for all of them: a
\* car at one of the new places D leaves the others the places they had.
LEMMA RoomKept ==
    ASSUME NEW E, NEW C, NEW U, Room(U, C, E), NEW D, NEW B, NEW W,
           NEW h \in [B -> C], \A i, j \in B : h[i] = h[j] => i = j,
           \A i \in B : \A e : e \in U[h[i]] <=> (e \in W[i] /\ e \notin D)
    PROVE  Room(W, B, E)
<1> SUFFICES ASSUME NEW i \in B, NEW parked, NEW at, Standing(at, parked, i, W, B, E)
             PROVE  Finds(at, parked, W[i])
  BY DEF Room
<1>1. /\ parked \subseteq B /\ i \notin parked /\ at \in [parked -> E]
      /\ \A j \in parked : at[j] \in W[j]
      /\ \A j, l \in parked : at[j] = at[l] => j = l
  BY DEF Standing
<1> DEFINE old == {j \in parked : at[j] \notin D}
           pk == {h[j] : j \in old}
           bt == [m \in pk |-> at[CHOOSE j \in old : h[j] = m]]
<1>2. ASSUME NEW j \in old PROVE h[j] \in pk /\ bt[h[j]] = at[j]
  <2>1. h[j] \in pk  OBVIOUS
  <2>2. PICK l : l = CHOOSE k \in old : h[k] = h[j]  OBVIOUS
  <2>3. l \in old /\ h[l] = h[j]  BY <2>2
  <2>4. l = j  BY <1>1, <2>3
  <2>5. bt[h[j]] = at[l]  BY <2>1, <2>2, Zenon
  <2> QED  BY <2>1, <2>4, <2>5
<1>3. ASSUME NEW m \in pk PROVE \E j \in old : m = h[j]  OBVIOUS
<1>4. ASSUME NEW j \in old
      PROVE  /\ j \in B /\ j \in parked /\ j # i /\ at[j] \in E /\ h[j] \in C
             /\ at[j] \in U[h[j]]
  BY <1>1
<1> HIDE DEF old
<1>5. bt \in [pk -> E]
  <2>1. ASSUME NEW m \in pk PROVE bt[m] \in E  BY <1>2, <1>3, <1>4
  <2>2. bt = [m \in pk |-> bt[m]]  OBVIOUS
  <2> HIDE DEF bt, pk
  <2> QED  BY <2>1, <2>2
<1> HIDE DEF pk, bt
<1>6. pk \subseteq C  BY <1>3, <1>4
<1>7. h[i] \notin pk
  <2> SUFFICES ASSUME h[i] \in pk PROVE FALSE  OBVIOUS
  <2>1. PICK j \in old : h[i] = h[j]  BY <1>3
  <2> QED  BY <1>4, <2>1
<1>8. ASSUME NEW m \in pk PROVE bt[m] \in U[m]  BY <1>2, <1>3, <1>4
<1>9. ASSUME NEW m \in pk, NEW l \in pk, bt[m] = bt[l] PROVE m = l
  <2>1. PICK j \in old : m = h[j]  BY <1>3
  <2>2. PICK k \in old : l = h[k]  BY <1>3
  <2>3. at[j] = at[k] /\ j \in parked /\ k \in parked  BY <1>2, <1>4, <1>9, <2>1, <2>2
  <2>4. j = k  BY <1>1, <2>3, Zenon
  <2> QED  BY <2>1, <2>2, <2>4
<1>10. Standing(bt, pk, h[i], U, C, E)
  BY <1>5, <1>6, <1>7, <1>8, <1>9 DEF Standing
<1>11. PICK e \in U[h[i]] : \A m \in pk : bt[m] # e
  <2>1. h[i] \in C  OBVIOUS
  <2>2. Finds(bt, pk, U[h[i]])  BY <1>10, <2>1 DEF Room
  <2> QED  BY <2>2 DEF Finds
<1>12. e \in W[i] /\ e \notin D  BY <1>11
<1>13. ASSUME NEW j \in parked PROVE at[j] # e
  <2>1. CASE j \in old  BY <1>2, <1>11, <2>1
  <2>2. CASE j \notin old
    <3>1. at[j] \in D  BY <2>2 DEF old
    <3> QED  BY <1>12, <3>1
  <2> QED  BY <2>1, <2>2
<1> QED  BY <1>12, <1>13 DEF Finds
-----------------------------------------------------------------------------
(* The reservations fit: what is_reservation_possible says when one is made  *)
(* stays so, because whatever ends leaves room and on_connector_state_-      *)
(* changed looks again when an EVSE is lost.                                 *)

TypedCars(g) == {i \in DOMAIN g : g[i].type # None}
\* Here an EV that is plugged in without a transaction does not count.
Open(s) == {e \in Evses : s.evse_reservations[e] = None /\ s.seen[e].connector = "AVAILABLE"}
OpenFor(s, g) == [i \in TypedCars(g) |-> {e \in Open(s) : Suitable(e, g[i].type)}]
Fit(s, g) == Room(OpenFor(s, g), TypedCars(g), Evses)
OwnFit(s) == \A e \in Evses :
    s.evse_reservations[e] # None /\ s.evse_reservations[e].type # None =>
        s.seen[e].connector = "AVAILABLE"
Fits(s) == Fit(s, s.global_reservations) /\ OwnFit(s)
FInv == Fits(st)

\* Fewer cars, more places.
LEMMA FitKept ==
    ASSUME NEW s, NEW g, Fit(s, g), NEW t, NEW h, Unique(h), Range(h) \subseteq Range(g),
           Open(s) \subseteq Open(t)
    PROVE  Fit(t, h)
<1> DEFINE f == [i \in TypedCars(h) |-> CHOOSE j \in DOMAIN g : g[j] = h[i]]
           D == Open(t) \ Open(s)
<1>1. ASSUME NEW i \in TypedCars(h) PROVE f[i] \in TypedCars(g) /\ g[f[i]] = h[i]
  <2>1. PICK j \in DOMAIN g : g[j] = h[i]  BY DEF TypedCars, Range
  <2>2. PICK l : l = CHOOSE k \in DOMAIN g : g[k] = h[i]  OBVIOUS
  <2>3. l \in DOMAIN g /\ g[l] = h[i]  BY <2>1, <2>2
  <2>4. f[i] = l  BY <2>2
  <2> QED  BY <2>3, <2>4 DEF TypedCars
<1>2. f \in [TypedCars(h) -> TypedCars(g)]
  <2>1. f = [i \in TypedCars(h) |-> f[i]]  OBVIOUS
  <2> HIDE DEF f
  <2> QED  BY <1>1, <2>1
<1> HIDE DEF f
<1>3. ASSUME NEW i \in TypedCars(h), NEW j \in TypedCars(h), f[i] = f[j] PROVE i = j
  <2>1. h[i] = h[j]  BY <1>1, <1>3
  <2> QED  BY <2>1 DEF Unique, TypedCars
<1>4. ASSUME NEW i \in TypedCars(h), NEW e
      PROVE  e \in OpenFor(s, g)[f[i]] <=> (e \in OpenFor(t, h)[i] /\ e \notin D)
  <2>1. OpenFor(s, g)[f[i]] = {o \in Open(s) : Suitable(o, h[i].type)}
    BY <1>1 DEF OpenFor
  <2>2. OpenFor(t, h)[i] = {o \in Open(t) : Suitable(o, h[i].type)}  BY DEF OpenFor
  <2> QED  BY <2>1, <2>2
<1> HIDE DEF D
<1>5. Room(OpenFor(s, g), TypedCars(g), Evses)  BY DEF Fit
<1>6. Room(OpenFor(t, h), TypedCars(h), Evses)
  BY <1>2, <1>3, <1>4, <1>5, RoomKept, Zenon
<1> QED  BY <1>6 DEF Fit

LEMMA FitsLess ==
    ASSUME NEW s, Fits(s), NEW t, HandlerOK(t), Less(s, t), t.seen = s.seen
    PROVE  Fits(t)
<1>1. Open(s) \subseteq Open(t)  BY DEF Open, Less
<1>2. Unique(t.global_reservations)  BY DEF HandlerOK, BookOK
<1>3. Fit(t, t.global_reservations)  BY <1>1, <1>2, FitKept DEF Fits, Less
<1>4. OwnFit(t)  BY DEF Fits, OwnFit, Less
<1> QED  BY <1>3, <1>4 DEF Fits

\* What is_reservation_possible accepts, fits.
LEMMA PossibleFits ==
    ASSUME NEW s, NEW T, NEW types \in Seq(T), NEW reserved \in SUBSET Evses,
           IsPossible(s, types, reserved), NEW t,
           \A e \in Evses \ reserved : Free(s, e) => e \in Open(t), NEW g,
           \A i \in TypedCars(g) : i \in 1..Len(types) /\ types[i] = g[i].type
    PROVE  Fit(t, g)
<1> DEFINE U == Places(s, types, reserved)
           C == 1..Len(types)
           D == {e \in Open(t) : e \in reserved \/ ~Free(s, e)}
           h == [i \in TypedCars(g) |-> i]
<1>1. Room(U, C, Evses)  BY PossibleIsRoom
<1>2. h \in [TypedCars(g) -> C] /\ \A i \in TypedCars(g) : h[i] = i  OBVIOUS
<1>3. ASSUME NEW i \in TypedCars(g), NEW e
      PROVE  e \in U[h[i]] <=> (e \in OpenFor(t, g)[i] /\ e \notin D)
  <2>1. U[h[i]] = UsableFor(s, g[i].type, reserved)  BY <1>2 DEF Places
  <2>2. OpenFor(t, g)[i] = {o \in Open(t) : Suitable(o, g[i].type)}  BY DEF OpenFor
  <2>3. e \in Open(t) => e \in Evses  BY DEF Open
  <2> QED  BY <2>1, <2>2, <2>3 DEF UsableFor
<1> HIDE DEF U, C, D, h
<1>4. Room(OpenFor(t, g), TypedCars(g), Evses)
  <2>1. \A i, j \in TypedCars(g) : h[i] = h[j] => i = j  BY <1>2
  <2> QED  BY <1>1, <1>2, <1>3, <2>1, RoomKept, Zenon
<1> QED  BY <1>4 DEF Fit

LEMMA NoneFit ==
    ASSUME NEW s, NEW g, TypedCars(g) = {}
    PROVE  Fit(s, g)
BY DEF Fit, Room

\* The types of a list of reservations.
LEMMA TypesAre ==
    ASSUME NEW g \in Seq(Requests)
    PROVE  /\ TypesOf(g) \in Seq(AllTypes) /\ Len(TypesOf(g)) = Len(g)
           /\ \A i \in 1..Len(g) : TypesOf(g)[i] = g[i].type
<1>1. Len(g) \in Nat /\ DOMAIN g = 1..Len(g) /\ \A i \in 1..Len(g) : g[i] \in Requests
  OBVIOUS
<1>2. \A i \in 1..Len(g) : g[i].type \in AllTypes  BY <1>1 DEF AllTypes
<1>3. TypesOf(g) = [i \in 1..Len(g) |-> g[i].type]  BY <1>1 DEF TypesOf
<1>4. TypesOf(g) \in [1..Len(g) -> AllTypes]  BY <1>2, <1>3
<1> QED  BY <1>1, <1>3, <1>4

TypesAdded(g, r, h, types) ==
    /\ h \in Seq(Requests) /\ types \in Seq(AllTypes)
    /\ \A i \in TypedCars(h) : i \in 1..Len(types) /\ types[i] = h[i].type
    /\ r.type = None => \A i \in TypedCars(h) :
          i \in 1..Len(TypesOf(g)) /\ TypesOf(g)[i] = h[i].type
LEMMA TypesAppend ==
    ASSUME NEW g \in Seq(Requests), NEW r \in Requests, NEW h, h = Append(g, r),
           NEW types, types = Append(TypesOf(g), r.type)
    PROVE  TypesAdded(g, r, h, types)
<1> DEFINE q == TypesOf(g)
<1>1. q \in Seq(AllTypes) /\ Len(q) = Len(g) /\ \A i \in 1..Len(g) : q[i] = g[i].type
  BY TypesAre
<1>2. r.type \in AllTypes  BY DEF AllTypes
<1> HIDE DEF q
<1>3. /\ h \in Seq(Requests) /\ Len(h) = Len(g) + 1 /\ DOMAIN h = 1..(Len(g) + 1)
      /\ Len(g) \in Nat /\ h[Len(g) + 1] = r /\ \A i \in 1..Len(g) : h[i] = g[i]
  OBVIOUS
<1>4. types = Append(q, r.type)  BY DEF q
<1>5. /\ types \in Seq(AllTypes) /\ Len(types) = Len(g) + 1
      /\ types[Len(g) + 1] = r.type /\ \A i \in 1..Len(g) : types[i] = q[i]
  BY <1>1, <1>2, <1>4
<1>6. ASSUME NEW i \in TypedCars(h)
      PROVE  /\ i \in 1..(Len(g) + 1) /\ types[i] = h[i].type
             /\ r.type = None => i \in 1..Len(g) /\ q[i] = h[i].type
  <2>1. i \in 1..(Len(g) + 1) /\ h[i].type # None  BY <1>3 DEF TypedCars
  <2>2. CASE i = Len(g) + 1  BY <1>3, <1>5, <2>1, <2>2
  <2>3. CASE i # Len(g) + 1
    <3>1. i \in 1..Len(g)  BY <1>3, <2>1, <2>3
    <3> QED  BY <1>1, <1>3, <1>5, <2>1, <3>1
  <2> QED  BY <2>2, <2>3
<1>7. /\ \A i \in TypedCars(h) : i \in 1..Len(types) /\ types[i] = h[i].type
      /\ r.type = None => \A i \in TypedCars(h) : i \in 1..Len(q) /\ q[i] = h[i].type
  BY <1>1, <1>5, <1>6
<1> QED  BY <1>3, <1>5, <1>7 DEF TypesAdded, q

\* make_reservation: what is added fits with what is there.
LEMMA AddFits ==
    ASSUME NEW x, NEW y, NEW s \in Handlers(x, y), HandlerOK(s), Fits(s),
           NEW r \in Requests, r.id \notin s.timers, CanMake(s, r), NEW t, t = Add(s, r)
    PROVE  Fits(t)
<1> DEFINE g == s.global_reservations
<1>0. g \in Seq(Requests) /\ ReservedEvses(s) \in SUBSET Evses
  BY DEF Handlers, ReservedEvses
<1>1. r.evse # None => s.evse_reservations[r.evse] = None  BY DEF CanMake
<1>2. /\ t \in Handlers(x, y)
      /\ t.global_reservations = IF r.evse = None THEN Append(g, r) ELSE g
  BY <1>1, AddKeeps
<1>3. t.seen = s.seen  BY <1>2 DEF Handlers
<1>4. CASE r.evse = None
  <2>1. t.evse_reservations = s.evse_reservations
    BY <1>4 DEF Add, Store, Handlers
  <2>2. PICK h : h = Append(g, r)  OBVIOUS
  <2>3. PICK types : types = Append(TypesOf(g), r.type)  OBVIOUS
  <2>4. IsPossible(s, types, ReservedEvses(s))  BY <1>4, <2>3 DEF CanMake
  <2>5. types \in Seq(AllTypes) /\ \A i \in TypedCars(h) :
                                      i \in 1..Len(types) /\ types[i] = h[i].type
    <3>1. g \in Seq(Requests)  BY <1>0
    <3> HIDE DEF g
    <3>2. TypesAdded(g, r, h, types)  BY <2>2, <2>3, <3>1, TypesAppend
    <3> QED  BY <3>2 DEF TypesAdded
  <2>6. \A e \in Evses \ ReservedEvses(s) : Free(s, e) => e \in Open(t)
    BY <1>3, <2>1 DEF ReservedEvses, Free, Open
  <2>7. Fit(t, h)
    <3>1. PICK R \in SUBSET Evses : R = ReservedEvses(s)  BY <1>0
    <3>2. IsPossible(s, types, R) /\ \A e \in Evses \ R : Free(s, e) => e \in Open(t)
      BY <2>4, <2>6, <3>1
    <3> QED  BY <2>5, <3>2, PossibleFits, Zenon
  <2>8. OwnFit(t)  BY <1>3, <2>1 DEF Fits, OwnFit
  <2> QED  BY <1>2, <1>4, <2>2, <2>7, <2>8 DEF Fits
<1>5. CASE r.evse # None
  <2>0. r.evse \in Evses  BY <1>5, ReservationAssumption DEF ReservationAssumption
  <2>1. \A e \in Evses : t.evse_reservations[e] = IF e = r.evse THEN r ELSE s.evse_reservations[e]
    <3>1. s.evse_reservations \in [Evses -> Requests \union {None}]  BY DEF Handlers, EvseBooks
    <3>2. t.evse_reservations = [s.evse_reservations EXCEPT ![r.evse] = r]
      BY <1>5 DEF Add, Store, Handlers
    <3> QED  BY <2>0, <3>1, <3>2
  <2>2. t.global_reservations = g  BY <1>2, <1>5
  <2>3. PICK types : types = TypesOf(g)  OBVIOUS
  <2>4. PICK R : R = ReservedEvses(s) \union {r.evse}  OBVIOUS
  <2>5. types \in Seq(AllTypes) /\ \A i \in TypedCars(g) : i \in 1..Len(types) /\ types[i] = g[i].type
    <3> HIDE DEF g
    <3>1. DOMAIN g = 1..Len(g)  BY <1>0
    <3> QED  BY <1>0, <2>3, <3>1, TypesAre DEF TypedCars
  <2>6. \A e \in Evses \ R : Free(s, e) => e \in Open(t)
    BY <1>3, <2>1, <2>4 DEF ReservedEvses, Free, Open
  <2>7. CASE g = <<>>
    <3>1. TypedCars(g) = {}  BY <2>7 DEF TypedCars
    <3> QED  BY <1>3, <1>5, <2>1, <2>2, <3>1, NoneFit DEF Fits, OwnFit, CanMake, Free
  <2>8. CASE g # <<>>
    <3>1. IsPossible(s, types, R)  BY <1>5, <2>3, <2>4, <2>8 DEF CanMake
    <3>2. R \in SUBSET Evses  BY <1>0, <2>0, <2>4
    <3>3. Fit(t, g)
      <4> HIDE DEF g
      <4> QED  BY <2>5, <2>6, <3>1, <3>2, PossibleFits, Zenon
    <3> QED  BY <1>3, <1>5, <2>1, <2>2, <3>3 DEF Fits, OwnFit, CanMake, Free
  <2> QED  BY <2>7, <2>8
<1> QED  BY <1>4, <1>5

\* check_reservations_and_cancel_if_not_possible: what is kept fits.
LEMMA KeptFits ==
    ASSUME NEW x, NEW y, NEW s \in Handlers(x, y), NEW u, u = Kept(s)
    PROVE  u \in Seq(Requests) /\ Fit(s, u)
<1> DEFINE t == s.global_reservations
           n == Len(t)
           Pass(k, r) == IF IsPossible(s, WithType(TypesOf(k), r.type), ReservedEvses(s))
                         THEN Append(k, r) ELSE k
           C == {k \in Seq(Requests) : Fit(s, k)}
           step == [k \in C |-> [r \in Requests |-> Pass(k, r)]]
           iter == CHOOSE g : g = [d \in SUBSET DOMAIN t |->
                      IF d = {} THEN <<>> ELSE Pass(g[d \ {Max(d)}], t[Max(d)])]
<1>1. u = iter[DOMAIN t]
  BY DEF Kept, FoldLeft, MapThenFoldSet
<1>2. n \in Nat /\ DOMAIN t = 1..n /\ t \in [1..n -> Requests]
  <2>1. t \in Seq(Requests)  BY DEF Handlers
  <2> QED  BY <2>1
<1>3. ASSUME NEW k \in C, NEW r \in Requests PROVE Pass(k, r) \in C
  <2>1. PICK types : types = WithType(TypesOf(k), r.type)  OBVIOUS
  <2>2. PICK h : h = Append(k, r)  OBVIOUS
  <2>3. PICK R \in SUBSET Evses : R = ReservedEvses(s)  BY DEF ReservedEvses
  <2>4. CASE IsPossible(s, types, R)
    <3>1. /\ h \in Seq(Requests) /\ types \in Seq(AllTypes)
          /\ \A i \in TypedCars(h) : i \in 1..Len(types) /\ types[i] = h[i].type
      <4>0. k \in Seq(Requests)  OBVIOUS
      <4>1. CASE r.type = None
        <5>1. types = TypesOf(k)  BY <2>1, <4>1 DEF WithType
        <5>2. types \in Seq(AllTypes)  BY <4>0, <5>1, TypesAre
        <5>3. PICK added : added = Append(types, r.type)  OBVIOUS
        <5>4. TypesAdded(k, r, h, added)  BY <2>2, <4>0, <5>1, <5>3, TypesAppend
        <5> QED  BY <4>1, <5>1, <5>2, <5>4 DEF TypesAdded
      <4>2. CASE r.type # None
        <5>1. types = Append(TypesOf(k), r.type)  BY <2>1, <4>2 DEF WithType
        <5>2. TypesAdded(k, r, h, types)  BY <2>2, <4>0, <5>1, TypesAppend
        <5> QED  BY <5>2 DEF TypesAdded
      <4> QED  BY <4>1, <4>2
    <3>2. \A e \in Evses \ R : Free(s, e) => e \in Open(s)
      BY <2>3 DEF ReservedEvses, Free, Open
    <3>3. Fit(s, h)  BY <2>4, <3>1, <3>2, PossibleFits, Zenon
    <3> QED  BY <2>1, <2>2, <2>3, <2>4, <3>1, <3>3, Zenon
  <2>5. CASE ~IsPossible(s, types, R)
    <3>1. Pass(k, r) = k  BY <2>1, <2>3, <2>5
    <3> QED  BY <3>1
  <2> QED  BY <2>4, <2>5
<1>4. <<>> \in C
  <2>1. TypedCars(<<>>) = {} /\ <<>> \in Seq(Requests)  BY DEF TypedCars
  <2>2. Fit(s, <<>>)  BY <2>1, NoneFit
  <2> QED  BY <2>1, <2>2
<1> HIDE DEF Pass, C
<1>5. step \in [C -> [Requests -> C]]  BY <1>3
<1>6. PICK g \in [SUBSET (1..n) -> C] : Folding(g, step, <<>>, t, n)
  <2>1. PICK base \in C : base = <<>>  BY <1>4, Zenon
  <2>2. \E g \in [SUBSET (1..n) -> C] : Folding(g, step, base, t, n)
    <3> HIDE DEF step, n, t
    <3> QED  BY <1>2, <1>5, FoldSolution
  <2> QED  BY <2>1, <2>2, Zenon
<1>7. g = [d \in SUBSET DOMAIN t |->
             IF d = {} THEN <<>> ELSE Pass(g[d \ {Max(d)}], t[Max(d)])]
  <2>1. \A d \in SUBSET (1..n) : d # {} => Max(d) \in d  BY <1>2, MaxInside
  <2>2. \A d \in SUBSET (1..n) : d # {} =>
           step[g[d \ {Max(d)}]][t[Max(d)]] = Pass(g[d \ {Max(d)}], t[Max(d)])
    <3> SUFFICES ASSUME NEW d \in SUBSET (1..n), d # {}
                 PROVE  step[g[d \ {Max(d)}]][t[Max(d)]]
                          = Pass(g[d \ {Max(d)}], t[Max(d)])
      OBVIOUS
    <3>1. d \ {Max(d)} \in SUBSET (1..n)  OBVIOUS
    <3>2. g[d \ {Max(d)}] \in C  BY <3>1
    <3>3. t[Max(d)] \in Requests  BY <1>2, <2>1
    <3> QED  BY <3>2, <3>3
  <2> HIDE DEF step
  <2> QED  BY <1>2, <1>6, <2>2 DEF Folding
<1>8. \E f : f = [d \in SUBSET DOMAIN t |->
             IF d = {} THEN <<>> ELSE Pass(f[d \ {Max(d)}], t[Max(d)])]
  BY <1>7
<1>9. iter = [d \in SUBSET DOMAIN t |->
             IF d = {} THEN <<>> ELSE Pass(iter[d \ {Max(d)}], t[Max(d)])]
  BY <1>8
<1> HIDE DEF iter, t
<1> DEFINE K == [i \in Nat |-> C]
<1>10. iter[{}] \in K[0]
  <2>1. {} \in SUBSET DOMAIN t  OBVIOUS
  <2>2. iter[{}] = <<>>  BY <1>9, <2>1
  <2> QED  BY <1>4, <2>2
<1>11. ASSUME NEW i \in 1..n, iter[1..(i - 1)] \in K[i - 1]
       PROVE  iter[1..i] \in K[i]
  <2>0. i \in Nat /\ i > 0 /\ i - 1 \in Nat  BY <1>2
  <2>1. Max(1..i) = i /\ (1..i) \ {i} = 1..(i - 1) /\ 1..i # {}  BY <2>0, BeforeLast
  <2>2. 1..i \in SUBSET DOMAIN t  BY <1>2
  <2>3. iter[1..i] = Pass(iter[(1..i) \ {Max(1..i)}], t[Max(1..i)])
    BY <1>9, <2>1, <2>2
  <2>4. t[i] \in Requests  BY <1>2
  <2>5. Pass(iter[1..(i - 1)], t[i]) \in C  BY <1>3, <1>11, <2>0, <2>4
  <2> QED  BY <2>0, <2>1, <2>3, <2>5
<1>12. iter[1..n] \in K[n]
  <2> HIDE DEF K, n
  <2> QED  BY <1>2, <1>10, <1>11, FoldWalk
<1>13. u \in C  BY <1>1, <1>2, <1>12
<1> QED  BY <1>13 DEF C

\* on_connector_state_changed, when p is what the handler had before it saw
\* the connector of e change.
LEMMA OnConnectorChangeFits ==
    ASSUME NEW x, NEW y, NEW s \in Handlers(x, y), HandlerOK(s), NEW e \in Evses,
           Suits(s, e), NEW p, Fits(p), SameBook(p, s),
           \A f \in Evses \ {e} : s.seen[f].connector = p.seen[f].connector,
           NEW u, u = OnConnectorChange(s, e)
    PROVE  Fits(u)
<1> DEFINE r == s.evse_reservations[e]
           g == s.global_reservations
<1>0. /\ p.evse_reservations = s.evse_reservations /\ p.global_reservations = g
      /\ Fit(p, g) /\ OwnFit(p)
  BY DEF SameBook, Fits
<1>1. u \in Handlers(x, y) /\ Fewer(s, u)  BY OnConnectorChangeKeeps
<1>2. /\ u.seen = s.seen /\ Less(s, u) /\ Unique(u.global_reservations)
      /\ Range(u.global_reservations) \subseteq Range(g)
  BY <1>1 DEF Fewer, Handlers, HandlerOK, BookOK, Less
<1>3. CASE s.seen[e].connector = "AVAILABLE"
  <2>1. u = s  BY <1>3 DEF OnConnectorChange
  <2>2. Open(p) \subseteq Open(s)  BY <1>0, <1>3 DEF Open
  <2>3. Fit(s, g)  BY <1>0, <1>2, <2>1, <2>2, FitKept
  <2>4. OwnFit(s)  BY <1>0, <1>3 DEF OwnFit
  <2> QED  BY <2>1, <2>3, <2>4 DEF Fits
<1>4. CASE s.seen[e].connector # "AVAILABLE" /\ r # None /\ r.type # None
  <2>1. u = CancelAndTell(s, r.id)  BY <1>4 DEF OnConnectorChange, Suits
  <2>2. ~HasId(u, e, r.id)  BY <2>1, CancelAndTellShrinks
  <2>3. u.evse_reservations[e] = None  BY <1>2, <1>4, <2>2 DEF Less, HasId
  <2>4. Open(p) \subseteq Open(u)
    <3> SUFFICES ASSUME NEW f \in Open(p) PROVE f \in Open(u)  OBVIOUS
    <3>1. f \in Evses /\ f # e  BY <1>0, <1>4 DEF Open
    <3> QED  BY <1>0, <1>2, <3>1 DEF Open, Less
  <2>5. Fit(u, u.global_reservations)  BY <1>0, <1>2, <2>4, FitKept
  <2>6. OwnFit(u)
    <3> SUFFICES ASSUME NEW f \in Evses, u.evse_reservations[f] # None,
                        u.evse_reservations[f].type # None
                 PROVE  u.seen[f].connector = "AVAILABLE"
      BY DEF OwnFit
    <3>1. f # e /\ u.evse_reservations[f] = p.evse_reservations[f]
      BY <1>0, <1>2, <2>3 DEF Less
    <3> QED  BY <1>0, <1>2, <3>1 DEF OwnFit
  <2> QED  BY <2>5, <2>6 DEF Fits
<1>5. CASE s.seen[e].connector # "AVAILABLE" /\ ~(r # None /\ r.type # None)
  <2>1. u = CancelImpossible(s)  BY <1>5 DEF OnConnectorChange
  <2>2. PICK k : k = Kept(s)  OBVIOUS
  <2>3. Range(u.global_reservations) \subseteq Range(k)
    BY <2>1, <2>2, CancelImpossibleKeeps
  <2>4. Fit(s, k)  BY <2>2, KeptFits
  <2>5. Open(s) \subseteq Open(u)  BY <1>2 DEF Open, Less
  <2>6. Fit(u, u.global_reservations)  BY <1>2, <2>3, <2>4, <2>5, FitKept
  <2>7. OwnFit(u)
    <3> SUFFICES ASSUME NEW f \in Evses, u.evse_reservations[f] # None,
                        u.evse_reservations[f].type # None
                 PROVE  u.seen[f].connector = "AVAILABLE"
      BY DEF OwnFit
    <3>1. u.evse_reservations[f] = p.evse_reservations[f]  BY <1>0, <1>2 DEF Less
    <3>2. f # e  BY <1>0, <1>5, <3>1
    <3> QED  BY <1>0, <1>2, <3>1, <3>2 DEF OwnFit
  <2> QED  BY <2>6, <2>7 DEF Fits
<1> QED  BY <1>3, <1>4, <1>5
-----------------------------------------------------------------------------
(* The steps. *)

\* Nothing of it changes.
SameFit(s, t) ==
    /\ t.evse_reservations = s.evse_reservations
    /\ t.global_reservations = s.global_reservations /\ t.seen = s.seen
LEMMA SameFits ==
    ASSUME NEW s, Fits(s), NEW t, SameFit(s, t)
    PROVE  Fits(t)
<1>1. OpenFor(t, t.global_reservations) = OpenFor(s, s.global_reservations)
  BY DEF OpenFor, Open, SameFit
<1> QED  BY <1>1 DEF Fits, Fit, OwnFit, SameFit

LEMMA BookFits ==
    ASSUME NEW x, NEW y, NEW s \in Handlers(x, y), Fits(s), NEW z, NEW t \in Handlers(x, z),
           SameBook(s, t)
    PROVE  Fits(t)
BY SameFits DEF SameFit, SameBook, Handlers

LEMMA FewerFits ==
    ASSUME NEW x, NEW y, NEW s \in Handlers(x, y), Fits(s), NEW z, NEW t \in Handlers(x, z),
           Fewer(s, t)
    PROVE  Fits(t)
<1>1. t.seen = s.seen  BY DEF Handlers
<1> QED  BY <1>1, FitsLess DEF Fewer

\* cancel_reservation, and the callback after it.
LEMMA CancelFits ==
    ASSUME RInv, FInv, NEW id, NEW es, NEW t, t = Release(Cancel(st, id), es)
    PROVE  Fits(t) /\ Fits(Cancel(st, id))
<1>1. PICK u : u = Cancel(st, id)  OBVIOUS
<1>2. u \in Handlers(st.seen, st.restored) /\ Fewer(st, u)  BY <1>1, Now, CancelKeeps
<1>3. Fits(u)  BY <1>2, Now, FewerFits DEF FInv
<1>4. t = Release(u, es)  BY <1>1
<1>5. t \in Handlers(st.seen, st.restored) /\ SameBook(u, t)  BY <1>2, <1>4, ReleaseKeeps
<1>6. Fits(t)  BY <1>2, <1>3, <1>5, BookFits
<1> QED  BY <1>1, <1>3, <1>6

LEMMA ReleaseFits ==
    ASSUME RInv, FInv, NEW es, NEW t, t = Release(st, es)
    PROVE  Fits(t)
BY Now, ReleaseKeeps, BookFits DEF FInv

LEMMA EmCancelFits ==
    ASSUME RInv, FInv, NEW es, NEW t, t = EmCancel(st, es)
    PROVE  Fits(t)
BY Now, EmCancelKeeps, BookFits DEF FInv

LEMMA PlaceMakesFits ==
    ASSUME RInv, FInv, PlaceMakes
    PROVE  FInv'
<1>1. PICK r : r = place.r  OBVIOUS
<1>2. r \in Requests  BY <1>1, Now DEF PlaceMakes, CommandsOK
<1>3. PICK t : t = Cancel(st, r.id)  OBVIOUS
<1>4. /\ t \in Handlers(st.seen, st.restored) /\ Fewer(st, t)
      /\ t.timers = st.timers \ {r.id}
  BY <1>3, Now, CancelKeeps
<1>5. HandlerOK(t) /\ r.id \notin t.timers  BY <1>4 DEF Fewer
<1>6. Fits(t)  BY <1>4, Now, FewerFits DEF FInv
<1>7. st' = st \/ st' = IF CanMake(t, r) THEN Add(t, r) ELSE t
  BY <1>1, <1>3 DEF PlaceMakes, Make
<1>8. CASE CanMake(t, r) /\ st' # st
  <2>1. st' = Add(t, r)  BY <1>7, <1>8
  <2> QED  BY <1>2, <1>4, <1>5, <1>6, <1>8, <2>1, AddFits DEF FInv
<1>9. CASE ~CanMake(t, r) /\ st' # st
  <2>1. st' = t  BY <1>7, <1>9
  <2> QED  BY <1>6, <2>1 DEF FInv
<1> QED  BY <1>8, <1>9 DEF FInv

LEMMA PlacingFits ==
    ASSUME RInv, FInv, Placing
    PROVE  FInv'
<1>1. CASE PlaceMakes  BY <1>1, PlaceMakesFits
<1>2. CASE PlaceReleases
  <2>1. st' = st \/ st' = Release(st, Dropped)  BY <1>2 DEF PlaceReleases, Step, ReleaseReplaced
  <2> QED  BY <2>1, ReleaseFits DEF FInv
<1>3. CASE PlaceReserves
  <2>1. st' = st \/ st' = CallReserved(place.r.evse, place.r.id)
    BY <1>3 DEF PlaceReserves, Step
  <2>2. place.r.id \in Ids  BY <1>3, Now DEF PlaceReserves, CommandsOK, Ids
  <2>3. ASSUME NEW t, t = CallReserved(place.r.evse, place.r.id) PROVE Fits(t)
    BY <2>2, <2>3, Now, CallReservedKeeps, BookFits DEF FInv
  <2> QED  BY <2>1, <2>3 DEF FInv
<1>4. CASE PlaceFails
  <2> DEFINE gone == {e \in place.replaced : e \notin EvseOf(Cancel(st, place.r.id), place.r.id)}
  <2>1. st' = Cancel(st, place.r.id) \/ st' = Release(Cancel(st, place.r.id), gone)
    BY <1>4 DEF PlaceFails, Refusal
  <2> HIDE DEF gone
  <2> QED  BY <2>1, CancelFits DEF FInv
<1>5. CASE PlaceChecks
  <2>1. st' = st \/ st' = EmCancel(st, {place.r.evse})  BY <1>5 DEF PlaceChecks, Step
  <2> QED  BY <2>1, EmCancelFits DEF FInv
<1> QED  BY <1>1, <1>2, <1>3, <1>4, <1>5 DEF Placing

LEMMA CancellingFits ==
    ASSUME RInv, FInv, NEW id, CancelStarts(id) \/ TimerExpires(id) \/ CancelReleases \/ ExpiryRuns
    PROVE  FInv'
<1>1. CASE CancelStarts(id)
  <2>1. st' = Cancel(st, id)  BY <1>1 DEF CancelStarts, Step
  <2> QED  BY <2>1, CancelFits DEF FInv
<1>2. CASE TimerExpires(id)
  <2>1. SameFit(st, st')  BY <1>2, Now DEF TimerExpires, SameFit, Handlers
  <2> QED  BY <2>1, SameFits DEF FInv
<1>3. CASE CancelReleases
  <2>1. st' = Release(st, cancel.evse)  BY <1>3 DEF CancelReleases, Step
  <2> QED  BY <2>1, ReleaseFits DEF FInv
<1>4. CASE ExpiryRuns
  <2>1. PICK t : t = CancelAndTell(st, Head(expired))  OBVIOUS
  <2>2. t \in Handlers(st.seen, st.restored) /\ Fewer(st, t)
    BY <2>1, Now, CancelAndTellKeeps
  <2>3. st' = t  BY <1>4, <2>1 DEF ExpiryRuns, Step
  <2> QED  BY <2>2, <2>3, Now, FewerFits DEF FInv
<1> QED  BY <1>1, <1>2, <1>3, <1>4

\* handle_session_event: the connector that changed is looked at before the
\* event is done with.
LEMMA HandleSessionEventFits ==
    ASSUME RInv, GInv, FInv, NEW e \in Evses, HandleSessionEvent(e)
    PROVE  FInv'
<1>1. PICK event : event = Head(st.events[e])  OBVIOUS
<1>2. PICK s : s = [st EXCEPT !.events[e] = Tail(@), !.seen[e] = AfterEvent(@, event)]
  OBVIOUS
<1>3. phase # "loading" /\ st.events[e] # <<>>  BY DEF HandleSessionEvent
<1>4. \/ event = "SessionStarted" /\ st' = s
      \/ /\ event = "ReservationEnd"
         /\ st' = s \/ st' = CancelAndTell(s, s.evse_reservations[e].id)
      \/ st' = Update(OnConnectorChange(s, e))
      \/ st' = Taken(Update(OnConnectorChange(s, e)), {e})
  BY <1>1, <1>2 DEF HandleSessionEvent, Step
<1>5. EventSeen(s, e, event)  BY <1>1, <1>2, <1>3, EventIsSeen
<1>6. /\ s \in Handlers(s.seen, st.restored) /\ HandlerOK(s) /\ SameBook(st, s)
      /\ Suits(s, e)
  BY <1>5 DEF EventSeen, CoreOK
<1>7. /\ \A f \in Evses \ {e} : s.seen[f].connector = st.seen[f].connector
      /\ event \in {"SessionStarted", "ReservationEnd"} =>
            s.seen[e].connector = st.seen[e].connector
  <2>1. st.seen \in [Evses -> SeenRecords] /\ st.seen[e] \in SeenRecords  BY NowAt DEF GInv
  <2>2. PICK w : w = AfterEvent(st.seen[e], event)  OBVIOUS
  <2>3. s.seen = [st.seen EXCEPT ![e] = w]  BY <1>2, <2>2, Now DEF Handlers
  <2>4. event \in {"SessionStarted", "ReservationEnd"} => w.connector = st.seen[e].connector
    BY <2>1, <2>2 DEF AfterEvent, SeenRecords
  <2> QED  BY <2>1, <2>3, <2>4
<1>8. CASE event \in {"SessionStarted", "ReservationEnd"}
  <2>1. \A f \in Evses : s.seen[f].connector = st.seen[f].connector  BY <1>7, <1>8
  <2>2. OpenFor(s, s.global_reservations) = OpenFor(st, st.global_reservations)
    <3>1. Open(s) = Open(st)  BY <1>6, <2>1 DEF Open, SameBook
    <3> QED  BY <1>6, <3>1 DEF OpenFor, SameBook
  <2>3. Fits(s)
    BY <1>6, <2>1, <2>2 DEF FInv, Fits, Fit, OwnFit, SameBook
  <2>4. ASSUME NEW t, t = CancelAndTell(s, s.evse_reservations[e].id) PROVE Fits(t)
    BY <1>6, <2>3, <2>4, CancelAndTellKeeps, FewerFits
  <2>5. CASE st' = s \/ st' = CancelAndTell(s, s.evse_reservations[e].id)
    BY <2>3, <2>4, <2>5 DEF FInv
  <2>6. event \in {"SessionStarted", "ReservationEnd"} =>
           st' = s \/ st' = CancelAndTell(s, s.evse_reservations[e].id)
    BY <1>1, <1>2 DEF HandleSessionEvent, Step
  <2> QED  BY <1>8, <2>5, <2>6
<1>9. CASE st' = Update(OnConnectorChange(s, e)) \/ st' = Taken(Update(OnConnectorChange(s, e)), {e})
  <2>1. PICK u : u = OnConnectorChange(s, e)  OBVIOUS
  <2>2. u \in Handlers(s.seen, st.restored) /\ Fewer(s, u)
    BY <1>6, <2>1, OnConnectorChangeKeeps
  <2>3. Fits(u)  BY <1>6, <1>7, <2>1, OnConnectorChangeFits DEF FInv
  <2>4. PICK t : t = Update(u)  OBVIOUS
  <2>5. t \in Handlers(s.seen, st.restored) /\ SameBook(u, t)  BY <2>2, <2>4, UpdateKeeps
  <2>6. Fits(t)  BY <2>2, <2>3, <2>5, BookFits
  <2>7. PICK v : v = Taken(t, {e})  OBVIOUS
  <2>8. SameFit(t, v)  BY <2>5, <2>7 DEF Taken, SameFit, Handlers
  <2>9. Fits(v)  BY <2>6, <2>8, SameFits
  <2> QED  BY <1>9, <2>1, <2>4, <2>6, <2>7, <2>9 DEF FInv
<1> QED  BY <1>4, <1>8, <1>9

LEMMA ApplyingFits ==
    ASSUME RInv, FInv, NEW e \in Evses, ApplyReserves(e) \/ ApplyChecks(e)
    PROVE  FInv'
<1>1. apply[e].at # "idle"  BY DEF ApplyReserves, ApplyChecks
<1>2. apply[e].id \in Ids  BY <1>1, Now DEF CommandsOK
<1>3. \/ st' = st \/ st' = CallReserved(e, apply[e].id)
      \/ st' = Release(Cancel(st, apply[e].id), {e}) \/ st' = EmCancel(st, {e})
  BY DEF ApplyReserves, ApplyChecks, Step, Refusal
<1>4. ASSUME NEW t, t = CallReserved(e, apply[e].id) PROVE Fits(t)
  BY <1>2, <1>4, Now, CallReservedKeeps, BookFits DEF FInv
<1> QED  BY <1>3, <1>4, CancelFits, EmCancelFits DEF FInv

\* A handler that starts has no reservation.
LEMMA NewFits ==
    ASSUME NEW s, s.evse_reservations = [e \in Evses |-> None], s.global_reservations = <<>>
    PROVE  Fits(s)
<1>1. TypedCars(s.global_reservations) = {}  BY DEF TypedCars
<1>2. OwnFit(s)  BY DEF OwnFit
<1> QED  BY <1>1, <1>2, NoneFit DEF Fits

LEMMA LoadingFits ==
    ASSUME RInv, FInv, Loading
    PROVE  FInv'
<1>1. CASE LoadStarts  BY <1>1, SameFits DEF LoadStarts, FInv, SameFit
<1>2. CASE LoadEnds
  <2>1. PICK s : s = Update(st)  OBVIOUS
  <2>2. s \in Handlers(st.seen, st.restored) /\ SameBook(st, s)  BY <2>1, Now, UpdateKeeps
  <2>3. Fits(s)  BY <2>2, Now, BookFits DEF FInv
  <2>4. PICK es : st' = Taken(s, es)  BY <1>2, <2>1 DEF LoadEnds, Step
  <2>5. SameFit(s, st')  BY <2>2, <2>4 DEF Taken, SameFit, Handlers
  <2> QED  BY <2>3, <2>5, SameFits DEF FInv
<1>3. CASE LoadNext
  <2> DEFINE r == Head(loading)
             es == {e \in Evses : e = r.evse}
  <2>1. loading \in Seq(Requests) /\ loading # <<>> /\ Unique(loading)
    BY <1>3 DEF LoadNext, RInv, LoadingOK
  <2>2. r \in Requests /\ r.id \notin st.timers
    <3>1. r \in Requests /\ r.id \in ListIds(loading)  BY <2>1, LoadingTail
    <3> QED  BY <3>1 DEF RInv, LoadingOK
  <2>3. \/ st' = Release(st, es) \/ st' = Release(Cancel(st, r.id), es)
        \/ /\ CanMake(st, r)
           /\ st' = IF r.evse = None THEN Add(st, r)
                    ELSE [Add(st, r) EXCEPT !.restored[r.evse] = r.id]
    BY <1>3 DEF LoadNext, Step
  <2> HIDE DEF r, es
  <2>4. CASE CanMake(st, r) /\ st' = IF r.evse = None THEN Add(st, r)
                                     ELSE [Add(st, r) EXCEPT !.restored[r.evse] = r.id]
    <3>1. PICK u : u = Add(st, r)  OBVIOUS
    <3>2. Fits(u)  BY <2>2, <2>4, <3>1, Now, AddFits DEF FInv
    <3>3. r.evse # None => st.evse_reservations[r.evse] = None  BY <2>4 DEF CanMake
    <3>4. u \in Handlers(st.seen, st.restored)  BY <2>2, <3>1, <3>3, Now, AddKeeps
    <3>5. SameFit(u, st')  BY <2>4, <3>1, <3>4 DEF SameFit, Handlers
    <3> QED  BY <3>2, <3>5, SameFits DEF FInv
  <2> QED  BY <2>3, <2>4, ReleaseFits, CancelFits DEF FInv
<1> QED  BY <1>1, <1>2, <1>3 DEF Loading

LEMMA DriverFits ==
    ASSUME RInv, FInv, NEW e \in Evses, Driver(e)
    PROVE  FInv'
<1>0. st \in Handlers(st.seen, st.restored)  BY Now
<1>1. CASE PlugIn(e) \/ Unplug(e) \/ EnableEvse(e) \/ TransactionStarts(e)
  <2>1. SameFit(st, st')
    BY <1>0, <1>1 DEF PlugIn, Unplug, EnableEvse, TransactionStarts, Step, Tell, SameFit, Handlers
  <2> QED  BY <2>1, SameFits DEF FInv
<1>2. CASE DisableEvse(e) \/ AuthorizationTimesOut(e)
  <2>1. SameFit(st, st')
    BY <1>0, <1>2 DEF DisableEvse, AuthorizationTimesOut, EmCancel, Step, Tell, SameFit, Handlers
  <2> QED  BY <2>1, SameFits DEF FInv
<1>3. ASSUME NEW token, TokenUsed(e, token) PROVE FInv'
  <2>1. \/ SameFit(st, st')
        \/ \E id : \/ st' = [Used(e, id) EXCEPT !.em[e].authorized = TRUE]
                   \/ st' = EmCancel(Used(e, id), {e})
    BY <1>0, <1>3 DEF TokenUsed, Step, SameFit, Handlers
  <2>2. ASSUME NEW id, \/ st' = [Used(e, id) EXCEPT !.em[e].authorized = TRUE]
                       \/ st' = EmCancel(Used(e, id), {e})
        PROVE  FInv'
    <3>1. PICK u : u = Cancel(st, id)  OBVIOUS
    <3>2. Fits(u)  BY <3>1, CancelFits
    <3>3. u \in Handlers(st.seen, st.restored)  BY <3>1, Now, CancelKeeps
    <3>4. SameFit(u, st')  BY <2>2, <3>1, <3>3 DEF Used, EmCancel, SameFit, Handlers
    <3> QED  BY <3>2, <3>4, SameFits DEF FInv
  <2> QED  BY <2>1, <2>2, SameFits DEF FInv
<1> QED  BY <1>1, <1>2, <1>3 DEF Driver

LEMMA InitFits ==
    ASSUME Init
    PROVE  FInv
<1>1. st.evse_reservations = [e \in Evses |-> None] /\ st.global_reservations = <<>>
  BY DEF Init, NewHandler
<1> QED  BY <1>1, NewFits DEF FInv

LEMMA NextFits ==
    ASSUME RInv, GInv, FInv, [Next]_vars
    PROVE  FInv'
<1>1. CASE Placing  BY <1>1, PlacingFits
<1>2. CASE CancelReleases \/ ExpiryRuns  BY <1>2, CancellingFits
<1>3. CASE Restart
  <2>1. st'.evse_reservations = [e \in Evses |-> None] /\ st'.global_reservations = <<>>
    BY <1>3 DEF Restart, NewHandler
  <2> QED  BY <2>1, NewFits DEF FInv
<1>4. CASE Loading  BY <1>4, LoadingFits
<1>5. CASE \E r \in Requests : PlaceStarts(r)
  BY <1>5, SameFits DEF PlaceStarts, FInv, SameFit
<1>6. CASE \E id \in Ids : CancelStarts(id) \/ TimerExpires(id)  BY <1>6, CancellingFits
<1>7. CASE \E e \in Evses : EventThread(e)
  BY <1>7, HandleSessionEventFits, ApplyingFits DEF EventThread
<1>8. CASE \E e \in Visited : Driver(e)
  <2>1. Visited \subseteq Evses  BY ReservationAssumption DEF ReservationAssumption
  <2> QED  BY <1>8, <2>1, DriverFits
<1>9. CASE UNCHANGED vars  BY <1>9, SameFits DEF vars, FInv, SameFit
<1> QED  BY <1>1, <1>2, <1>3, <1>4, <1>5, <1>6, <1>7, <1>8, <1>9 DEF Next

\* At rest the global reservations for a connector type fit, and no EVSE that
\* is reserved for a connector type is without its connector, whatever was
\* reserved, used, cancelled or restored before, and whichever EVSEs were lost:
\* on_connector_state_changed cancels enough.
THEOREM AllReservationsFit == Spec => []ReservationsFit
<1>1. Init => RInv /\ GInv /\ FInv  BY InitKeeps, InitAgrees, InitFits
<1>2. RInv /\ GInv /\ FInv /\ [Next]_vars => RInv' /\ GInv' /\ FInv'
  <2> SUFFICES ASSUME RInv, GInv, FInv, [Next]_vars PROVE RInv' /\ GInv' /\ FInv'  OBVIOUS
  <2>1. RInv'  BY NextKeeps
  <2> QED  BY <2>1, NextAgrees, NextFits
<1>3. RInv /\ FInv => ReservationsFit
  <2> DEFINE g == st.global_reservations
             C == TypedCars(g)
             types == [i \in C |-> g[i].type]
             R == ReservedEvses(st)
  <2> SUFFICES ASSUME RInv, FInv, Quiet,
                      \A e \in Evses : st.seen[e].plugged_in => st.seen[e].connector # "AVAILABLE"
               PROVE  /\ AlwaysRoom(st, types, R)
                      /\ \A e \in R : st.evse_reservations[e].type # None =>
                                         st.seen[e].connector = "AVAILABLE"
    BY DEF ReservationsFit, TypedCars
  <2>1. \A e \in Evses : Free(st, e) <=> st.seen[e].connector = "AVAILABLE"  BY DEF Free
  <2>2. DOMAIN types = C /\ \A i \in C : types[i] = g[i].type  OBVIOUS
  <2>3. ASSUME NEW i \in C
        PROVE  UsableFor(st, types[i], R) = {e \in Open(st) : Suitable(e, g[i].type)}
    BY <2>1, <2>2 DEF UsableFor, Open, ReservedEvses
  <2>4. [i \in C |-> UsableFor(st, types[i], R)] = OpenFor(st, g)
    <3> HIDE DEF types, R
    <3> QED  BY <2>3 DEF OpenFor
  <2>5. Room(OpenFor(st, g), C, Evses)  BY DEF FInv, Fits, Fit
  <2>6. AlwaysRoom(st, types, R)
    <3> HIDE DEF types, R, C, g
    <3> QED  BY <2>2, <2>4, <2>5, AlwaysRoomIs
  <2> QED  BY <2>6 DEF FInv, Fits, OwnFit, ReservedEvses
<1> QED  BY <1>1, <1>2, <1>3, PTL DEF Spec
=============================================================================
