----------------------------- MODULE AuthProofs -----------------------------
(***************************************************************************)
(* Proofs about AuthHandler for every number of EVSEs, tokens and requests *)
(* and every configuration.  The Auth module knows of an EvseManager what  *)
(* its session events say, and these arrive later.  The invariant says for *)
(* every EVSE what the events on the way are going to make of the          *)
(* knowledge: it only looks at which event of a kind is the last one, and  *)
(* which events lie between two others.                                    *)
(***************************************************************************)
EXTENDS AuthHandler, InductionFacts

-----------------------------------------------------------------------------
(* What the invariant says of the events on the way. *)

\* None of them is in S.
NoneOf(q, S) == \A i \in DOMAIN q : q[i] \notin S

\* There is an a, and none of S behind it.
Leaves(q, a, S) ==
    \E i \in DOMAIN q : q[i] = a /\ \A j \in DOMAIN q : j > i => q[j] \notin S

\* There is an a, and none of S in front of it.
Meets(q, a, S) ==
    \E i \in DOMAIN q : q[i] = a /\ \A j \in DOMAIN q : j < i => q[j] \notin S

\* There is an a, and behind it a b with none of S in between.
Crosses(q, a, b, S) ==
    \E i, k \in DOMAIN q :
        /\ i < k /\ q[i] = a /\ q[k] = b
        /\ \A j \in DOMAIN q : i < j /\ j < k => q[j] \notin S

\* Nothing is on its way.
LEMMA EmptyQueue ==
    ASSUME NEW a, NEW b, NEW S
    PROVE  /\ NoneOf(<<>>, S) /\ ~Leaves(<<>>, a, S) /\ ~Meets(<<>>, a, S)
           /\ ~Crosses(<<>>, a, b, S)
BY DEF NoneOf, Leaves, Meets, Crosses

\* One more event is sent.
LEMMA SentNone ==
    ASSUME NEW E, NEW q \in Seq(E), NEW x \in E, NEW S
    PROVE  NoneOf(Append(q, x), S) <=> NoneOf(q, S) /\ x \notin S
BY DEF NoneOf

\* The new event is the last one: it is what is left of its kind, or it hides
\* what was left.
LEMMA SentLeaves ==
    ASSUME NEW E, NEW q \in Seq(E), NEW x \in E, NEW a, NEW S
    PROVE  Leaves(Append(q, x), a, S) <=> x = a \/ (x \notin S /\ Leaves(q, a, S))
<1> DEFINE r == Append(q, x)
<1>0. /\ DOMAIN r = 1..(Len(q) + 1) /\ DOMAIN q = 1..Len(q) /\ Len(q) \in Nat
      /\ r[Len(q) + 1] = x /\ \A i \in DOMAIN q : r[i] = q[i]
  OBVIOUS
<1> HIDE DEF r
<1>1. ASSUME Leaves(r, a, S), x # a PROVE x \notin S /\ Leaves(q, a, S)
  <2>1. PICK i \in DOMAIN r : r[i] = a /\ \A j \in DOMAIN r : j > i => r[j] \notin S
    BY <1>1 DEF Leaves
  <2>2. i \in DOMAIN q /\ Len(q) + 1 \in DOMAIN r /\ Len(q) + 1 > i
    BY <1>0, <1>1, <2>1
  <2>3. \A j \in DOMAIN q : j \in DOMAIN r  BY <1>0
  <2> QED  BY <1>0, <2>1, <2>2, <2>3 DEF Leaves
<1>2. ASSUME x = a PROVE Leaves(r, a, S)
  <2>1. Len(q) + 1 \in DOMAIN r /\ \A j \in DOMAIN r : ~(j > Len(q) + 1)
    BY <1>0
  <2> QED  BY <1>0, <1>2, <2>1 DEF Leaves
<1>3. ASSUME x \notin S, Leaves(q, a, S) PROVE Leaves(r, a, S)
  <2>1. PICK i \in DOMAIN q : q[i] = a /\ \A j \in DOMAIN q : j > i => q[j] \notin S
    BY <1>3 DEF Leaves
  <2>2. i \in DOMAIN r /\ r[i] = a  BY <1>0, <2>1
  <2>3. ASSUME NEW j \in DOMAIN r, j > i PROVE r[j] \notin S
    <3>1. CASE j = Len(q) + 1  BY <1>0, <1>3, <3>1
    <3>2. CASE j # Len(q) + 1
      <4>1. j \in DOMAIN q  BY <1>0, <3>2
      <4> QED  BY <1>0, <2>1, <2>3, <4>1
    <3> QED  BY <3>1, <3>2
  <2> QED  BY <2>2, <2>3 DEF Leaves
<1>4. Leaves(r, a, S) <=> x = a \/ (x \notin S /\ Leaves(q, a, S))
  BY <1>1, <1>2, <1>3
<1> QED  BY <1>4 DEF r

\* The first event of a kind stays the first one.
LEMMA SentMeets ==
    ASSUME NEW E, NEW q \in Seq(E), NEW x \in E, NEW a, NEW S
    PROVE  Meets(Append(q, x), a, S) <=> Meets(q, a, S) \/ (x = a /\ NoneOf(q, S))
<1> DEFINE r == Append(q, x)
<1>0. /\ DOMAIN r = 1..(Len(q) + 1) /\ DOMAIN q = 1..Len(q) /\ Len(q) \in Nat
      /\ r[Len(q) + 1] = x /\ \A i \in DOMAIN q : r[i] = q[i]
  OBVIOUS
<1> HIDE DEF r
<1>1. ASSUME Meets(r, a, S), ~Meets(q, a, S) PROVE x = a /\ NoneOf(q, S)
  <2>1. PICK i \in DOMAIN r : r[i] = a /\ \A j \in DOMAIN r : j < i => r[j] \notin S
    BY <1>1 DEF Meets
  <2>2. \A j \in DOMAIN q : j \in DOMAIN r /\ r[j] = q[j]  BY <1>0
  <2>3. i \notin DOMAIN q  BY <1>1, <2>1, <2>2 DEF Meets
  <2>4. i = Len(q) + 1 /\ \A j \in DOMAIN q : j < i  BY <1>0, <2>3
  <2> QED  BY <1>0, <2>1, <2>2, <2>4 DEF NoneOf
<1>2. ASSUME x = a, NoneOf(q, S) PROVE Meets(r, a, S)
  <2>1. Len(q) + 1 \in DOMAIN r
        /\ \A j \in DOMAIN r : j < Len(q) + 1 => j \in DOMAIN q
    BY <1>0
  <2> QED  BY <1>0, <1>2, <2>1 DEF Meets, NoneOf
<1>3. ASSUME Meets(q, a, S) PROVE Meets(r, a, S)
  <2>1. PICK i \in DOMAIN q : q[i] = a /\ \A j \in DOMAIN q : j < i => q[j] \notin S
    BY <1>3 DEF Meets
  <2>2. i \in DOMAIN r /\ r[i] = a
        /\ \A j \in DOMAIN r : j < i => j \in DOMAIN q
    BY <1>0, <2>1
  <2> QED  BY <1>0, <2>1, <2>2 DEF Meets
<1>4. Meets(r, a, S) <=> Meets(q, a, S) \/ (x = a /\ NoneOf(q, S))
  BY <1>1, <1>2, <1>3
<1> QED  BY <1>4 DEF r

\* A new pair has the new event as its second one.
LEMMA SentCrosses ==
    ASSUME NEW E, NEW q \in Seq(E), NEW x \in E, NEW a, NEW b, NEW S
    PROVE  Crosses(Append(q, x), a, b, S)
             => Crosses(q, a, b, S) \/ (x = b /\ Leaves(q, a, S))
<1> DEFINE r == Append(q, x)
<1>0. /\ DOMAIN r = 1..(Len(q) + 1) /\ DOMAIN q = 1..Len(q) /\ Len(q) \in Nat
      /\ r[Len(q) + 1] = x /\ \A i \in DOMAIN q : r[i] = q[i]
  OBVIOUS
<1> HIDE DEF r
<1>1. ASSUME Crosses(r, a, b, S)
      PROVE  Crosses(q, a, b, S) \/ (x = b /\ Leaves(q, a, S))
  <2>1. PICK i \in DOMAIN r, k \in DOMAIN r :
            /\ i < k /\ r[i] = a /\ r[k] = b
            /\ \A j \in DOMAIN r : i < j /\ j < k => r[j] \notin S
    BY <1>1 DEF Crosses
  <2>2. \A j \in DOMAIN q : j \in DOMAIN r /\ r[j] = q[j]  BY <1>0
  <2>3. i \in DOMAIN q /\ q[i] = a  BY <1>0, <2>1
  <2>4. CASE k \in DOMAIN q
    BY <2>1, <2>2, <2>3, <2>4 DEF Crosses
  <2>5. CASE k \notin DOMAIN q
    <3>1. k = Len(q) + 1 /\ \A j \in DOMAIN q : j < k  BY <1>0, <2>5
    <3>2. x = b  BY <1>0, <2>1, <3>1
    <3>3. \A j \in DOMAIN q : j > i => q[j] \notin S
      BY <1>0, <2>1, <2>2, <3>1
    <3> QED  BY <2>3, <3>2, <3>3 DEF Leaves
  <2> QED  BY <2>4, <2>5
<1> QED  BY <1>1 DEF r

\* The first event is handled.
LEMMA Handled ==
    ASSUME NEW E, NEW q \in Seq(E), q # <<>>
    PROVE  /\ Tail(q) \in Seq(E) /\ Head(q) \in E /\ Head(q) = q[1]
           /\ DOMAIN Tail(q) = 1..(Len(q) - 1) /\ DOMAIN q = 1..Len(q)
           /\ Len(q) \in Nat /\ Len(q) > 0
           /\ \A i \in DOMAIN Tail(q) : Tail(q)[i] = q[i + 1]
OBVIOUS

\* The first event counts like any other where all of them do.
LEMMA HandledNone ==
    ASSUME NEW E, NEW q \in Seq(E), q # <<>>, NEW S
    PROVE  NoneOf(q, S) <=> Head(q) \notin S /\ NoneOf(Tail(q), S)
<1> DEFINE r == Tail(q)
<1>0. /\ Head(q) = q[1] /\ DOMAIN r = 1..(Len(q) - 1) /\ DOMAIN q = 1..Len(q)
      /\ Len(q) \in Nat /\ Len(q) > 0 /\ \A i \in DOMAIN r : r[i] = q[i + 1]
  BY Handled
<1> HIDE DEF r
<1>1. ASSUME NoneOf(q, S) PROVE Head(q) \notin S /\ NoneOf(r, S)
  <2>1. 1 \in DOMAIN q /\ \A i \in DOMAIN r : i + 1 \in DOMAIN q  BY <1>0
  <2> QED  BY <1>0, <1>1, <2>1 DEF NoneOf
<1>2. ASSUME Head(q) \notin S, NoneOf(r, S) PROVE NoneOf(q, S)
  <2>1. \A i \in DOMAIN q : i = 1 \/ (i - 1 \in DOMAIN r /\ (i - 1) + 1 = i)
    BY <1>0
  <2> QED  BY <1>0, <1>2, <2>1 DEF NoneOf
<1>3. NoneOf(q, S) <=> Head(q) \notin S /\ NoneOf(r, S)  BY <1>1, <1>2
<1> QED  BY <1>3 DEF r

\* The first event is what is left of its kind if nothing of S follows.
LEMMA HandledLeaves ==
    ASSUME NEW E, NEW q \in Seq(E), q # <<>>, NEW a, NEW S
    PROVE  Leaves(q, a, S)
             <=> Leaves(Tail(q), a, S) \/ (Head(q) = a /\ NoneOf(Tail(q), S))
<1> DEFINE r == Tail(q)
<1>0. /\ Head(q) = q[1] /\ DOMAIN r = 1..(Len(q) - 1) /\ DOMAIN q = 1..Len(q)
      /\ Len(q) \in Nat /\ Len(q) > 0 /\ \A i \in DOMAIN r : r[i] = q[i + 1]
  BY Handled
<1> HIDE DEF r
<1>a. \A i \in DOMAIN r : i + 1 \in DOMAIN q /\ i + 1 > 1  BY <1>0
<1>b. \A i \in DOMAIN q : i # 1 => i - 1 \in DOMAIN r /\ r[i - 1] = q[i]
  BY <1>0
<1>1. ASSUME Leaves(q, a, S)
      PROVE  Leaves(r, a, S) \/ (Head(q) = a /\ NoneOf(r, S))
  <2>1. PICK i \in DOMAIN q : q[i] = a /\ \A j \in DOMAIN q : j > i => q[j] \notin S
    BY <1>1 DEF Leaves
  <2>2. CASE i = 1  BY <1>0, <1>a, <2>1, <2>2 DEF NoneOf
  <2>3. CASE i # 1
    <3>1. i - 1 \in DOMAIN r /\ r[i - 1] = a  BY <1>b, <2>1, <2>3
    <3>2. \A j \in DOMAIN r : j > i - 1 => j + 1 > i  BY <1>0
    <3>3. \A j \in DOMAIN r : j > i - 1 => r[j] \notin S
      BY <1>0, <1>a, <2>1, <3>2
    <3> QED  BY <3>1, <3>3 DEF Leaves
  <2> QED  BY <2>2, <2>3
<1>2. ASSUME Leaves(r, a, S) PROVE Leaves(q, a, S)
  <2>1. PICK i \in DOMAIN r : r[i] = a /\ \A j \in DOMAIN r : j > i => r[j] \notin S
    BY <1>2 DEF Leaves
  <2>2. i + 1 \in DOMAIN q /\ q[i + 1] = a  BY <1>0, <1>a, <2>1
  <2>3. \A j \in DOMAIN q : j > i + 1 => j # 1 /\ j - 1 > i  BY <1>0
  <2>4. \A j \in DOMAIN q : j > i + 1 => q[j] \notin S
    BY <1>b, <2>1, <2>3
  <2> QED  BY <2>2, <2>4 DEF Leaves
<1>3. ASSUME Head(q) = a, NoneOf(r, S) PROVE Leaves(q, a, S)
  <2>1. 1 \in DOMAIN q /\ q[1] = a  BY <1>0, <1>3
  <2>2. \A j \in DOMAIN q : j > 1 => j # 1  BY <1>0
  <2>3. \A j \in DOMAIN q : j > 1 => q[j] \notin S
    BY <1>b, <1>3, <2>2 DEF NoneOf
  <2> QED  BY <2>1, <2>3 DEF Leaves
<1>4. Leaves(q, a, S) <=> Leaves(r, a, S) \/ (Head(q) = a /\ NoneOf(r, S))
  BY <1>1, <1>2, <1>3
<1> QED  BY <1>4 DEF r

\* What is met first is the first event, or is met after it.
LEMMA HandledMeets ==
    ASSUME NEW E, NEW q \in Seq(E), q # <<>>, NEW a, NEW S
    PROVE  /\ Head(q) = a => Meets(q, a, S)
           /\ Head(q) \notin S /\ Meets(Tail(q), a, S) => Meets(q, a, S)
<1> DEFINE r == Tail(q)
<1>0. /\ Head(q) = q[1] /\ DOMAIN r = 1..(Len(q) - 1) /\ DOMAIN q = 1..Len(q)
      /\ Len(q) \in Nat /\ Len(q) > 0 /\ \A i \in DOMAIN r : r[i] = q[i + 1]
  BY Handled
<1> HIDE DEF r
<1>1. ASSUME Head(q) = a PROVE Meets(q, a, S)
  <2>1. 1 \in DOMAIN q /\ \A j \in DOMAIN q : ~(j < 1)  BY <1>0
  <2> QED  BY <1>0, <1>1, <2>1 DEF Meets
<1>2. ASSUME Head(q) \notin S, Meets(r, a, S) PROVE Meets(q, a, S)
  <2>1. PICK i \in DOMAIN r : r[i] = a /\ \A j \in DOMAIN r : j < i => r[j] \notin S
    BY <1>2 DEF Meets
  <2>2. i + 1 \in DOMAIN q /\ q[i + 1] = a  BY <1>0, <2>1
  <2>3. ASSUME NEW j \in DOMAIN q, j < i + 1 PROVE q[j] \notin S
    <3>1. CASE j = 1  BY <1>0, <1>2, <3>1
    <3>2. CASE j # 1
      <4>1. j - 1 \in DOMAIN r /\ j - 1 < i /\ r[j - 1] = q[j]
        BY <1>0, <2>3, <3>2
      <4> QED  BY <2>1, <4>1
    <3> QED  BY <3>1, <3>2
  <2> QED  BY <2>2, <2>3 DEF Meets
<1>3. /\ Head(q) = a => Meets(q, a, S)
      /\ Head(q) \notin S /\ Meets(r, a, S) => Meets(q, a, S)
  BY <1>1, <1>2
<1> QED  BY <1>3 DEF r

\* A pair among the others, or one that the first event makes.
LEMMA HandledCrosses ==
    ASSUME NEW E, NEW q \in Seq(E), q # <<>>, NEW a, NEW b, NEW S
    PROVE  /\ Crosses(Tail(q), a, b, S) => Crosses(q, a, b, S)
           /\ Head(q) = a /\ Meets(Tail(q), b, S) => Crosses(q, a, b, S)
<1> DEFINE r == Tail(q)
<1>0. /\ Head(q) = q[1] /\ DOMAIN r = 1..(Len(q) - 1) /\ DOMAIN q = 1..Len(q)
      /\ Len(q) \in Nat /\ Len(q) > 0 /\ \A i \in DOMAIN r : r[i] = q[i + 1]
  BY Handled
<1> HIDE DEF r
<1>a. \A i \in DOMAIN r : i + 1 \in DOMAIN q /\ i + 1 > 1  BY <1>0
<1>b. \A i \in DOMAIN q : i # 1 => i - 1 \in DOMAIN r /\ r[i - 1] = q[i]
  BY <1>0
<1>1. ASSUME Crosses(r, a, b, S) PROVE Crosses(q, a, b, S)
  <2>1. PICK i \in DOMAIN r, k \in DOMAIN r :
            /\ i < k /\ r[i] = a /\ r[k] = b
            /\ \A j \in DOMAIN r : i < j /\ j < k => r[j] \notin S
    BY <1>1 DEF Crosses
  <2>2. /\ i + 1 \in DOMAIN q /\ k + 1 \in DOMAIN q /\ i + 1 < k + 1
        /\ q[i + 1] = a /\ q[k + 1] = b
    BY <1>0, <2>1
  <2>3. \A j \in DOMAIN q : i + 1 < j /\ j < k + 1
                               => j # 1 /\ i < j - 1 /\ j - 1 < k
    BY <1>0
  <2>4. \A j \in DOMAIN q : i + 1 < j /\ j < k + 1 => q[j] \notin S
    BY <1>b, <2>1, <2>3
  <2> QED  BY <2>2, <2>4 DEF Crosses
<1>2. ASSUME Head(q) = a, Meets(r, b, S) PROVE Crosses(q, a, b, S)
  <2>1. PICK k \in DOMAIN r : r[k] = b /\ \A j \in DOMAIN r : j < k => r[j] \notin S
    BY <1>2 DEF Meets
  <2>2. 1 \in DOMAIN q /\ k + 1 \in DOMAIN q /\ 1 < k + 1 /\ q[1] = a
        /\ q[k + 1] = b
    BY <1>0, <1>2, <2>1
  <2>3. \A j \in DOMAIN q : 1 < j /\ j < k + 1 => j # 1 /\ j - 1 < k
    BY <1>0
  <2>4. \A j \in DOMAIN q : 1 < j /\ j < k + 1 => q[j] \notin S
    BY <1>b, <2>1, <2>3
  <2> QED  BY <2>2, <2>4 DEF Crosses
<1>3. /\ Crosses(r, a, b, S) => Crosses(q, a, b, S)
      /\ Head(q) = a /\ Meets(r, b, S) => Crosses(q, a, b, S)
  BY <1>1, <1>2
<1> QED  BY <1>3 DEF r
-----------------------------------------------------------------------------
(* The invariant, for one EVSE: v is its EVSEContext, m its EvseManager, q   *)
(* the events on the way, h the event whose handler waits, p whether its     *)
(* plug-in is pending.                                                       *)

ConnectorStates == {"AVAILABLE", "UNAVAILABLE", "FAULTED", "OCCUPIED",
                    "UNAVAILABLE_FAULTED", "FAULTED_OCCUPIED"}
Unavailable == {"UNAVAILABLE", "UNAVAILABLE_FAULTED"}
Occupied == {"OCCUPIED", "FAULTED_OCCUPIED"}

EvseType == [identifier : Tokens \union {None}, transaction_active : BOOLEAN,
             plugged_in : BOOLEAN, plug_in_timeout : BOOLEAN,
             connector : ConnectorStates]
EmType == [plugged : BOOLEAN, enabled : BOOLEAN, session : BOOLEAN,
           token : Tokens \union {None}, transaction : BOOLEAN,
           over : BOOLEAN, crossed : BOOLEAN]

Transactions == {"TransactionStarted", "TransactionFinished"}
Switches == {"Disabled", "Enabled"}
Ends == {"SessionFinished"}

\* The EvseManager itself: an EVSE in use is not disabled, a session without
\* an EV is one that a token has started, a transaction has both, and there
\* is no token without a session.
ManagerOK(m) ==
    /\ m.plugged => m.enabled
    /\ ~m.session => m.token = None
    /\ m.session /\ ~m.plugged => m.token # None /\ ~m.over
    /\ m.transaction => m.plugged /\ m.session

\* The last event of a transaction tells whether there is one.
TransactionLink(v, m, q) ==
    /\ NoneOf(q, Transactions) => v.transaction_active = m.transaction
    /\ Leaves(q, "TransactionStarted", Transactions) => m.transaction
    /\ Leaves(q, "TransactionFinished", Transactions) => ~m.transaction

\* The last Disabled or Enabled tells whether the EVSE is enabled.
EnableLink(v, m, q) ==
    /\ NoneOf(q, Switches) => (v.connector \in Unavailable <=> ~m.enabled)
    /\ Leaves(q, "Disabled", Switches) => ~m.enabled
    /\ Leaves(q, "Enabled", Switches) => m.enabled

\* A connector that is occupied, or is going to be, is in use until the
\* session is seen to end, and that is before the EVSE is disabled: the
\* connector state machine ignores DISABLE while it is occupied.
OccupiedLink(v, m, q) ==
    /\ v.connector \in Occupied /\ NoneOf(q, Ends) => m.plugged
    /\ Leaves(q, "TransactionStarted", Ends) => m.plugged
    /\ v.connector \in Occupied => ~Meets(q, "Disabled", Ends)
    /\ ~Crosses(q, "TransactionStarted", "Disabled", Ends)

\* An EV that a token may be offered: it is there and has no token yet, or got
\* it while its plug-in was on its way.
Offered(m) ==
    m.plugged /\ m.session /\ (m.token = None \/ m.crossed)

\* A plug-in that is pending, or is going to be, is that of an EV that may be
\* offered, unless the end of its session is on its way; and an EV that waits
\* is pending or going to be, unless its time is over.
PlugInLink(v, m, q, h, p) ==
    /\ p /\ NoneOf(q, Ends) /\ h # "SessionFinished" => Offered(m)
    /\ Leaves(q, "SessionStarted", Ends) => Offered(m)
    /\ m.plugged /\ m.session /\ m.token = None /\ ~m.over
       => \/ Leaves(q, "SessionStarted", Ends)
          \/ NoneOf(q, Ends) /\ h # "SessionFinished" /\ (p \/ v.plug_in_timeout)

LinkType(v, m, q, p) ==
    v \in EvseType /\ m \in EmType /\ q \in Seq(SessionEvent) /\ p \in BOOLEAN

LinkOK(v, m, q, h, p) ==
    /\ LinkType(v, m, q, p)
    /\ ManagerOK(m)
    /\ TransactionLink(v, m, q)
    /\ EnableLink(v, m, q)
    /\ OccupiedLink(v, m, q)
    /\ PlugInLink(v, m, q, h, p)

AInv ==
    /\ evse = [e \in Evses |-> evse[e]] /\ em = [e \in Evses |-> em[e]]
    /\ events = [e \in Evses |-> events[e]]
    /\ handler = [e \in Evses |-> handler[e]]
    /\ plug_in_queue \in Seq(Evses)
    /\ \A e \in Evses :
          LinkOK(evse[e], em[e], events[e], handler[e], e \in Range(plug_in_queue))
-----------------------------------------------------------------------------
(* What can happen at one EVSE. *)

\* One more event x on the way, for everything the invariant asks: r is q
\* with x behind it.
AfterSending(q, x, r) ==
    /\ r \in Seq(SessionEvent)
    /\ NoneOf(r, Transactions) <=> NoneOf(q, Transactions) /\ x \notin Transactions
    /\ NoneOf(r, Switches) <=> NoneOf(q, Switches) /\ x \notin Switches
    /\ NoneOf(r, Ends) <=> NoneOf(q, Ends) /\ x # "SessionFinished"
    /\ Leaves(r, "TransactionStarted", Transactions)
         <=> \/ x = "TransactionStarted"
             \/ x \notin Transactions /\ Leaves(q, "TransactionStarted", Transactions)
    /\ Leaves(r, "TransactionFinished", Transactions)
         <=> \/ x = "TransactionFinished"
             \/ x \notin Transactions /\ Leaves(q, "TransactionFinished", Transactions)
    /\ Leaves(r, "Disabled", Switches)
         <=> x = "Disabled" \/ (x \notin Switches /\ Leaves(q, "Disabled", Switches))
    /\ Leaves(r, "Enabled", Switches)
         <=> x = "Enabled" \/ (x \notin Switches /\ Leaves(q, "Enabled", Switches))
    /\ Leaves(r, "TransactionStarted", Ends)
         <=> \/ x = "TransactionStarted"
             \/ x # "SessionFinished" /\ Leaves(q, "TransactionStarted", Ends)
    /\ Leaves(r, "SessionStarted", Ends)
         <=> \/ x = "SessionStarted"
             \/ x # "SessionFinished" /\ Leaves(q, "SessionStarted", Ends)
    /\ Meets(r, "Disabled", Ends)
         <=> Meets(q, "Disabled", Ends) \/ (x = "Disabled" /\ NoneOf(q, Ends))
    /\ Crosses(r, "TransactionStarted", "Disabled", Ends)
         => \/ Crosses(q, "TransactionStarted", "Disabled", Ends)
            \/ x = "Disabled" /\ Leaves(q, "TransactionStarted", Ends)

\* That is what sending an event does.
LEMMA Sent ==
    ASSUME NEW q \in Seq(SessionEvent), NEW x \in SessionEvent, NEW r,
           r = Append(q, x)
    PROVE  AfterSending(q, x, r)
<1>0. r \in Seq(SessionEvent)  OBVIOUS
<1>e. x \in Ends <=> x = "SessionFinished"  BY DEF Ends
<1>1. \A S : NoneOf(r, S) <=> NoneOf(q, S) /\ x \notin S  BY SentNone
<1>2. \A a, S : Leaves(r, a, S) <=> x = a \/ (x \notin S /\ Leaves(q, a, S))
  BY SentLeaves
<1>3. \A a, S : Meets(r, a, S) <=> Meets(q, a, S) \/ (x = a /\ NoneOf(q, S))
  BY SentMeets
<1>4. \A a, b, S : Crosses(r, a, b, S)
                     => Crosses(q, a, b, S) \/ (x = b /\ Leaves(q, a, S))
  BY SentCrosses
<1> QED  BY <1>0, <1>e, <1>1, <1>2, <1>3, <1>4 DEF AfterSending

\* The kinds of event.
LEMMA Kinds ==
    /\ {"TransactionStarted", "TransactionFinished"} \subseteq Transactions
    /\ {"SessionStarted", "SessionFinished", "Deauthorized", "Disabled", "Enabled"}
         \cap Transactions = {}
    /\ {"Disabled", "Enabled"} \subseteq Switches
    /\ {"SessionStarted", "SessionFinished", "Deauthorized", "TransactionStarted",
        "TransactionFinished"} \cap Switches = {}
    /\ {"SessionStarted", "SessionFinished", "Deauthorized", "Disabled", "Enabled",
        "TransactionStarted", "TransactionFinished"} \subseteq SessionEvent
BY DEF Transactions, Switches, SessionEvent

\* The identifier is set or reset: nothing the invariant asks for.
LEMMA IdentifierLink ==
    ASSUME NEW v, NEW m, NEW q, NEW h, NEW p, LinkOK(v, m, q, h, p),
           NEW t \in Tokens \union {None}
    PROVE  LinkOK([v EXCEPT !.identifier = t], m, q, h, p)
<1> DEFINE w == [v EXCEPT !.identifier = t]
<1>1. v \in EvseType  BY DEF LinkOK, LinkType
<1>2. /\ w \in EvseType /\ w.transaction_active = v.transaction_active
      /\ w.connector = v.connector /\ w.plug_in_timeout = v.plug_in_timeout
  BY <1>1 DEF EvseType
<1> HIDE DEF w
<1>3. LinkOK(w, m, q, h, p)
  BY <1>2
     DEF LinkOK, LinkType, TransactionLink, EnableLink, OccupiedLink, PlugInLink
<1> QED  BY <1>3 DEF w

\* authorize: the plug-in is taken from the queue, one that is on its way is
\* noted as crossed.
LEMMA AuthorizeLink ==
    ASSUME NEW v, NEW m, NEW q, NEW h, NEW p, LinkOK(v, m, q, h, p),
           NEW t \in Tokens, NEW p2 \in BOOLEAN, ~p2
    PROVE  LinkOK(v, Crossing(EmAuthorize(m, t), q), q, h, p2)
<1> DEFINE k == EmAuthorize(m, t)
           n == Crossing(k, q)
<1>1. m \in EmType /\ ManagerOK(m) /\ q \in Seq(SessionEvent)
  BY DEF LinkOK, LinkType
<1>2. /\ k \in EmType /\ k.transaction = m.transaction
      /\ k.enabled = m.enabled /\ k.plugged = m.plugged /\ k.over = m.over
      /\ m.session => k.session
      /\ k.plugged /\ k.session /\ ~k.over => k.token # None
      /\ k.session /\ ~m.session => k.token # None /\ ~k.over
      /\ k.token = m.token \/ k.token # None
      /\ ~k.session => k.token = m.token
  BY <1>1, AuthAssumption DEF EmAuthorize, EmType, ManagerOK
<1> HIDE DEF k
<1>3. /\ n \in EmType /\ n.transaction = k.transaction
      /\ n.enabled = k.enabled /\ n.plugged = k.plugged /\ n.over = k.over
      /\ n.session = k.session /\ n.token = k.token
      /\ "SessionStarted" \in Range(q) => n.crossed
  BY <1>2 DEF Crossing, EmType
<1> HIDE DEF n
<1>4. ManagerOK(n)  BY <1>1, <1>2, <1>3 DEF ManagerOK
<1>5. PlugInLink(v, n, q, h, p2)
  <2>1. Leaves(q, "SessionStarted", Ends) => "SessionStarted" \in Range(q)
    BY <1>1 DEF Leaves, Range
  <2>2. Leaves(q, "SessionStarted", Ends) => m.plugged /\ m.session
    BY DEF LinkOK, PlugInLink, Offered
  <2> QED  BY <1>1, <1>2, <1>3, <2>1, <2>2 DEF PlugInLink, Offered, EmType
<1>6. LinkOK(v, n, q, h, p2)
  BY <1>2, <1>3, <1>4, <1>5
     DEF LinkOK, LinkType, TransactionLink, EnableLink, OccupiedLink
<1> QED  BY <1>6 DEF n, k

\* stop_transaction
LEMMA StopLink ==
    ASSUME NEW v, NEW m, NEW q, NEW h, NEW p, LinkOK(v, m, q, h, p)
    PROVE  LinkOK(v, EmStop(m), q, h, p)
<1> DEFINE n == EmStop(m)
<1>1. m \in EmType /\ ManagerOK(m)  BY DEF LinkOK, LinkType
<1>2. /\ n \in EmType /\ n.transaction = m.transaction
      /\ n.enabled = m.enabled /\ n.plugged = m.plugged /\ n.session = m.session
      /\ m.over => n.over
      /\ ~n.over => n.token = m.token
      /\ n.session /\ ~n.plugged => n.token = m.token /\ n.over = m.over
      /\ n.token \in {m.token, None} /\ n.crossed = m.crossed
  BY <1>1 DEF EmStop, EmType, ManagerOK
<1> HIDE DEF n
<1>3. ManagerOK(n)  BY <1>1, <1>2 DEF ManagerOK
<1>4. PlugInLink(v, n, q, h, p)
  BY <1>1, <1>2 DEF LinkOK, PlugInLink, Offered, LinkType, EmType
<1>5. LinkOK(v, n, q, h, p)
  BY <1>2, <1>3, <1>4
     DEF LinkOK, LinkType, TransactionLink, EnableLink, OccupiedLink
<1> QED  BY <1>5 DEF n

\* withdraw_authorization, with the events it sends; the callback of the
\* plug-in also takes the plug-in from the queue and marks its time as over.
LEMMA WithdrawLink ==
    ASSUME NEW v, NEW m, NEW q, NEW h, NEW p, LinkOK(v, m, q, h, p),
           NEW w \in EvseType, w.transaction_active = v.transaction_active,
           w.connector = v.connector, v.plug_in_timeout => w.plug_in_timeout,
           NEW p2 \in BOOLEAN, p2 => p, p => p2 \/ w.plug_in_timeout, NEW fin
    PROVE  LinkOK(w, EmWithdraw(m, fin), q \o EmWithdrawEvents(m, fin), h, p2)
<1> DEFINE n == EmWithdraw(m, fin)
           d == Append(q, "Deauthorized")
           f == Append(d, "SessionFinished")
           r == q \o EmWithdrawEvents(m, fin)
<1>0. q \in Seq(SessionEvent) /\ v \in EvseType /\ p \in BOOLEAN
  BY DEF LinkOK, LinkType
<1>1. m \in EmType /\ ManagerOK(m)  BY DEF LinkOK, LinkType
<1>2. /\ n \in EmType /\ n.transaction = m.transaction
      /\ n.enabled = m.enabled /\ n.plugged = m.plugged
      /\ \/ n = m /\ r \in {q, d}
         \/ ~n.session /\ ~n.transaction /\ n.token = None /\ r = f
  <2>1. q \o <<>> = q /\ q \o <<"Deauthorized">> = d
        /\ q \o <<"Deauthorized", "SessionFinished">> = f
    BY <1>0
  <2>2. CASE m.session /\ ~m.transaction /\ ~(m.over /\ fin)
                /\ m.token # None
    <3>1. n = [m EXCEPT !.session = FALSE, !.token = None, !.over = FALSE]
      BY <2>2 DEF EmWithdraw
    <3>2. n.session = FALSE /\ n # m  BY <1>1, <2>2, <3>1 DEF EmType
    <3>3. EmWithdrawEvents(m, fin) = <<"Deauthorized", "SessionFinished">>
      BY <2>2, <3>2 DEF EmWithdrawEvents
    <3> QED  BY <1>1, <2>1, <2>2, <3>1, <3>2, <3>3 DEF EmType
  <2>3. CASE ~(m.session /\ ~m.transaction /\ ~(m.over /\ fin)
                /\ m.token # None)
    <3>1. n = m  BY <2>3 DEF EmWithdraw
    <3>2. EmWithdrawEvents(m, fin) \in {<<>>, <<"Deauthorized">>}
      BY <3>1 DEF EmWithdrawEvents
    <3> QED  BY <1>1, <2>1, <3>1, <3>2
  <2> QED  BY <2>2, <2>3
<1> HIDE DEF n, d, f, r
<1>3. "Deauthorized" \in SessionEvent /\ "SessionFinished" \in SessionEvent
  BY DEF SessionEvent
<1>4. LinkOK(w, m, q, h, p2)
  BY <1>0 DEF LinkOK, LinkType, TransactionLink, EnableLink, OccupiedLink, PlugInLink
<1>5. LinkOK(w, m, d, h, p2)
  <2>1. AfterSending(q, "Deauthorized", d)  BY <1>0, <1>3, Sent DEF d
  <2> QED
    BY <1>4, <2>1, Kinds
       DEF AfterSending, LinkOK, LinkType, TransactionLink, EnableLink, OccupiedLink,
           PlugInLink
<1>6. CASE n = m /\ r \in {q, d}  BY <1>4, <1>5, <1>6 DEF n, r
<1>7. CASE ~n.session /\ ~n.transaction /\ n.token = None /\ r = f
  <2>0. d \in Seq(SessionEvent)  BY <1>5 DEF LinkOK, LinkType
  <2>1. ManagerOK(n)  BY <1>1, <1>2, <1>7 DEF ManagerOK
  <2>2. AfterSending(d, "SessionFinished", f)  BY <1>3, <2>0, Sent DEF f
  <2>3. LinkOK(w, n, f, h, p2)
    BY <1>2, <1>5, <1>7, <2>1, <2>2, Kinds
       DEF AfterSending, LinkOK, LinkType, TransactionLink, EnableLink, OccupiedLink,
           PlugInLink
  <2> QED  BY <1>7, <2>3 DEF n, r
<1> QED  BY <1>2, <1>6, <1>7

\* The EvseManager changes to n and sends x: what is left to show is what the
\* event says of n.
LEMMA SendLink ==
    ASSUME NEW v, NEW m, NEW q, NEW h, NEW p, LinkOK(v, m, q, h, p),
           NEW n \in EmType, ManagerOK(n), NEW x \in SessionEvent, NEW r,
           r = Append(q, x),
           x = "TransactionStarted" => n.transaction /\ n.plugged,
           x = "TransactionFinished" => ~n.transaction,
           x \notin Transactions => n.transaction = m.transaction,
           x = "Disabled" => ~n.enabled /\ ~m.plugged,
           x = "Enabled" => n.enabled,
           x \notin Switches => n.enabled = m.enabled,
           x # "SessionFinished" => (m.plugged => n.plugged),
           x # "SessionFinished" => (Offered(m) => Offered(n)),
           x = "SessionStarted" => Offered(n),
           \/ x = "SessionStarted"
           \/ x # "SessionFinished" /\ n.plugged = m.plugged /\ n.session = m.session
                /\ n.token = m.token /\ n.over = m.over
           \/ ~n.session \/ ~n.plugged
    PROVE  LinkOK(v, n, r, h, p)
<1>0. LinkType(v, m, q, p)  BY DEF LinkOK
<1>1. q \in Seq(SessionEvent) /\ m \in EmType  BY <1>0 DEF LinkType
<1>2. AfterSending(q, x, r)  BY <1>1, Sent
<1>3. LinkType(v, n, r, p)  BY <1>0, <1>2 DEF LinkType, AfterSending
<1>4. TransactionLink(v, n, r)
  BY <1>2, Kinds DEF AfterSending, LinkOK, TransactionLink
<1>5. EnableLink(v, n, r)  BY <1>2, Kinds DEF AfterSending, LinkOK, EnableLink
<1>6. OccupiedLink(v, n, r)
  BY <1>2 DEF AfterSending, LinkOK, OccupiedLink
<1>7. PlugInLink(v, n, r, h, p)
  BY <1>1, <1>2 DEF AfterSending, LinkOK, PlugInLink, EmType
<1> QED  BY <1>3, <1>4, <1>5, <1>6, <1>7 DEF LinkOK

\* An EV is plugged in; a session that a token has started gets no event.
LEMMA PluggedLink ==
    ASSUME NEW v, NEW m, NEW q, NEW h, NEW p, LinkOK(v, m, q, h, p),
           ~m.plugged, m.enabled, NEW n,
           n = [m EXCEPT !.plugged = TRUE, !.session = TRUE], NEW r,
           r = q \o (IF m.session THEN <<>> ELSE <<"SessionStarted">>)
    PROVE  LinkOK(v, n, r, h, p)
<1>0. q \in Seq(SessionEvent) /\ m \in EmType /\ ManagerOK(m)
  BY DEF LinkOK, LinkType
<1>1. /\ n \in EmType /\ n.plugged /\ n.session /\ n.enabled = m.enabled
      /\ n.token = m.token /\ n.over = m.over /\ n.transaction = m.transaction
      /\ n.crossed = m.crossed
  BY <1>0 DEF EmType
<1>2. ManagerOK(n)  BY <1>0, <1>1 DEF ManagerOK
<1>a. ~m.session => Offered(n)  BY <1>0, <1>1 DEF ManagerOK, Offered
<1>b. ~Offered(m)  BY DEF Offered
<1>3. CASE m.session
  <2>1. r = q  BY <1>0, <1>3
  <2>2. m.token # None  BY <1>0, <1>3 DEF ManagerOK
  <2> QED
    BY <1>0, <1>1, <1>2, <1>b, <2>1, <2>2
       DEF LinkOK, LinkType, TransactionLink, EnableLink, OccupiedLink, PlugInLink
<1>4. CASE ~m.session
  <2>1. r = Append(q, "SessionStarted")  BY <1>0, <1>4
  <2>2. PICK x \in SessionEvent : x = "SessionStarted"  BY Kinds
  <2> QED  BY <1>0, <1>1, <1>2, <1>a, <1>4, <2>1, <2>2, Kinds, SendLink
<1> QED  BY <1>3, <1>4

\* The transaction starts, and ends.
LEMMA TransactionsLink ==
    ASSUME NEW v, NEW m, NEW q, NEW h, NEW p, LinkOK(v, m, q, h, p),
           NEW b \in BOOLEAN, b => m.plugged /\ m.session, NEW n,
           n = [m EXCEPT !.transaction = b], NEW r,
           r = q \o <<IF b THEN "TransactionStarted" ELSE "TransactionFinished">>
    PROVE  LinkOK(v, n, r, h, p)
<1>0. q \in Seq(SessionEvent) /\ m \in EmType /\ ManagerOK(m)
  BY DEF LinkOK, LinkType
<1>1. /\ n \in EmType /\ n.plugged = m.plugged /\ n.session = m.session
      /\ n.enabled = m.enabled /\ n.token = m.token /\ n.over = m.over
      /\ n.transaction = b /\ n.crossed = m.crossed
  BY <1>0 DEF EmType
<1>a. Offered(n) <=> Offered(m)  BY <1>1 DEF Offered
<1>2. ManagerOK(n)  BY <1>0, <1>1 DEF ManagerOK
<1>3. PICK x \in SessionEvent :
          x = IF b THEN "TransactionStarted" ELSE "TransactionFinished"
  BY Kinds
<1>4. r = Append(q, x)  BY <1>0, <1>3
<1>5. x \in Transactions /\ x \notin Switches  BY <1>3, Kinds
<1>6. /\ x \notin {"SessionStarted", "SessionFinished", "Disabled", "Enabled"}
      /\ x = "TransactionStarted" => n.transaction /\ n.plugged
      /\ x = "TransactionFinished" => ~n.transaction
      /\ m.plugged => n.plugged
  BY <1>1, <1>3
<1> QED  BY <1>0, <1>1, <1>a, <1>2, <1>4, <1>5, <1>6, SendLink

\* The EV leaves.
LEMMA UnpluggedLink ==
    ASSUME NEW v, NEW m, NEW q, NEW h, NEW p, LinkOK(v, m, q, h, p), m.plugged,
           NEW r,
           r = q \o ((IF m.transaction THEN <<"TransactionFinished">> ELSE <<>>)
                       \o <<"SessionFinished">>)
    PROVE  LinkOK(v, Idle, r, h, p)
<1>0. q \in Seq(SessionEvent) /\ m \in EmType /\ ManagerOK(m) /\ m.enabled
  BY DEF LinkOK, LinkType, ManagerOK
<1>1. /\ Idle \in EmType /\ ~Idle.plugged /\ ~Idle.session
      /\ Idle.enabled = TRUE /\ Idle.transaction = FALSE /\ Idle.token = None
  BY DEF Idle, EmType
<1>2. ManagerOK(Idle)  BY <1>1 DEF ManagerOK
<1>3. PICK x \in SessionEvent : x = "SessionFinished"  BY Kinds
<1>4. x \notin Transactions /\ x \notin Switches  BY <1>3, Kinds
<1>a. m.enabled = TRUE  BY <1>0 DEF EmType
<1>5. CASE m.transaction
  <2> DEFINE n == [m EXCEPT !.transaction = FALSE]
             d == Append(q, "TransactionFinished")
  <2>1. r = Append(d, x)  BY <1>0, <1>3, <1>5
  <2>2. PICK b \in BOOLEAN : b = FALSE  OBVIOUS
  <2>3. LinkOK(v, n, d, h, p)
    <3>1. d = q \o <<IF b THEN "TransactionStarted" ELSE "TransactionFinished">>
      BY <1>0, <2>2
    <3>2. n = [m EXCEPT !.transaction = b]  BY <2>2
    <3>3. ~b  BY <2>2
    <3> HIDE DEF n, d
    <3> QED  BY <3>1, <3>2, <3>3, TransactionsLink
  <2>4. n.enabled = m.enabled /\ n.transaction = FALSE  BY <1>0 DEF EmType
  <2> HIDE DEF n, d
  <2> QED  BY <1>1, <1>2, <1>3, <1>4, <1>a, <2>1, <2>3, <2>4, SendLink
<1>6. CASE ~m.transaction
  <2>1. r = Append(q, x)  BY <1>0, <1>3, <1>6
  <2>2. m.transaction = FALSE  BY <1>0, <1>6 DEF EmType
  <2> QED  BY <1>1, <1>2, <1>3, <1>4, <1>a, <2>1, <2>2, SendLink
<1> QED  BY <1>5, <1>6

\* The EVSE is disabled, with no EV there.
LEMMA DisabledLink ==
    ASSUME NEW v, NEW m, NEW q, NEW h, NEW p, LinkOK(v, m, q, h, p), ~m.plugged,
           NEW n, n = [m EXCEPT !.enabled = FALSE], NEW r, r = q \o <<"Disabled">>
    PROVE  LinkOK(v, n, r, h, p)
<1>0. q \in Seq(SessionEvent) /\ m \in EmType /\ ManagerOK(m)
  BY DEF LinkOK, LinkType
<1>1. /\ n \in EmType /\ n.plugged = m.plugged /\ n.session = m.session
      /\ ~n.enabled /\ n.token = m.token /\ n.over = m.over
      /\ n.transaction = m.transaction /\ n.crossed = m.crossed
  BY <1>0 DEF EmType
<1>a. Offered(n) <=> Offered(m)  BY <1>1 DEF Offered
<1>2. ManagerOK(n)  BY <1>0, <1>1 DEF ManagerOK
<1>3. PICK x \in SessionEvent : x = "Disabled"  BY Kinds
<1>4. r = Append(q, x) /\ x \notin Transactions /\ x \in Switches
  BY <1>0, <1>3, Kinds
<1> QED  BY <1>0, <1>1, <1>a, <1>2, <1>3, <1>4, SendLink

\* It is enabled again, and loses an authorization it still has.
LEMMA EnabledLink ==
    ASSUME NEW v, NEW m, NEW q, NEW h, NEW p, LinkOK(v, m, q, h, p), ~m.enabled,
           NEW n, n = [EmWithdraw(m, TRUE) EXCEPT !.enabled = TRUE], NEW r,
           r = q \o (<<"Enabled">> \o EmWithdrawEvents(m, TRUE))
    PROVE  LinkOK(v, n, r, h, p)
<1> DEFINE k == [m EXCEPT !.enabled = TRUE]
           d == Append(q, "Enabled")
<1>0. q \in Seq(SessionEvent) /\ m \in EmType /\ ManagerOK(m)
      /\ v \in EvseType /\ p \in BOOLEAN
  BY DEF LinkOK, LinkType
<1>1. /\ k \in EmType /\ k.plugged = m.plugged /\ k.session = m.session
      /\ k.enabled /\ k.token = m.token /\ k.over = m.over
      /\ k.transaction = m.transaction /\ k.crossed = m.crossed
  BY <1>0 DEF EmType
<1>a. Offered(k) <=> Offered(m)  BY <1>1 DEF Offered
<1>2. ManagerOK(k)  BY <1>0, <1>1 DEF ManagerOK
<1>3. LinkOK(v, k, d, h, p)
  <2>1. PICK x \in SessionEvent : x = "Enabled"  BY Kinds
  <2>2. d = Append(q, x) /\ x \notin Transactions /\ x \in Switches
    BY <2>1, Kinds
  <2> HIDE DEF k, d
  <2> QED  BY <1>0, <1>1, <1>a, <1>2, <2>1, <2>2, SendLink
<1>4. n = EmWithdraw(k, TRUE) /\ EmWithdrawEvents(k, TRUE) = EmWithdrawEvents(m, TRUE)
  <2>1. CASE m.session /\ ~m.transaction /\ ~m.over /\ m.token # None
    <3>1. EmWithdraw(m, TRUE) = [m EXCEPT !.session = FALSE, !.token = None, !.over = FALSE]
          /\ EmWithdraw(k, TRUE) = [k EXCEPT !.session = FALSE, !.token = None, !.over = FALSE]
      BY <1>1, <2>1 DEF EmWithdraw
    <3>2. EmWithdraw(k, TRUE) # k /\ EmWithdraw(m, TRUE) # m
      BY <1>0, <1>1, <2>1, <3>1 DEF EmType
    <3>3. EmWithdrawEvents(k, TRUE) = EmWithdrawEvents(m, TRUE)
      BY <1>1, <3>2 DEF EmWithdrawEvents
    <3>4. n = EmWithdraw(k, TRUE)  BY <1>0, <3>1 DEF EmType
    <3> QED  BY <3>3, <3>4
  <2>2. CASE ~(m.session /\ ~m.transaction /\ ~m.over /\ m.token # None)
    <3>1. EmWithdraw(m, TRUE) = m /\ EmWithdraw(k, TRUE) = k
      BY <1>1, <2>2 DEF EmWithdraw
    <3> QED  BY <1>1, <3>1 DEF EmWithdrawEvents
  <2> QED  BY <2>1, <2>2
<1>5. r = d \o EmWithdrawEvents(k, TRUE)
  <2> DEFINE w == EmWithdrawEvents(m, TRUE)
  <2>1. w \in Seq(SessionEvent)
    <3>1. w \in {<<>>, <<"Deauthorized">>, <<"Deauthorized", "SessionFinished">>}
      BY DEF EmWithdrawEvents
    <3>2. "Deauthorized" \in SessionEvent /\ "SessionFinished" \in SessionEvent
      BY DEF SessionEvent
    <3> HIDE DEF w
    <3>3. <<>> \in Seq(SessionEvent) /\ <<"Deauthorized">> \in Seq(SessionEvent)
          /\ <<"Deauthorized", "SessionFinished">> \in Seq(SessionEvent)
      BY <3>2
    <3> QED  BY <3>1, <3>3
  <2>2. <<"Enabled">> \in Seq(SessionEvent)  BY DEF SessionEvent
  <2> HIDE DEF w
  <2>3. q \o (<<"Enabled">> \o w) = (q \o <<"Enabled">>) \o w
    BY <1>0, <2>1, <2>2
  <2>4. q \o <<"Enabled">> = d  BY <1>0
  <2> QED  BY <1>4, <2>3, <2>4 DEF w
<1> HIDE DEF k, d
<1>6. LinkOK(v, EmWithdraw(k, TRUE), d \o EmWithdrawEvents(k, TRUE), h, p)
  BY <1>0, <1>3, WithdrawLink
<1> QED  BY <1>4, <1>5, <1>6

\* What handling the event x does to the EVSEContext v, for everything the
\* invariant asks.
EventEffects(v, x, w) ==
    /\ w \in EvseType
    /\ x = "TransactionStarted" => w.transaction_active = TRUE
    /\ x = "TransactionFinished" => w.transaction_active = FALSE
    /\ x \notin Transactions => w.transaction_active = v.transaction_active
    /\ x \notin Switches => (w.connector \in Unavailable <=> v.connector \in Unavailable)
    /\ x = "Disabled" /\ v.connector \notin Occupied => w.connector \in Unavailable
    /\ x = "Enabled" => w.connector \notin Unavailable
    /\ x # "TransactionStarted" /\ w.connector \in Occupied => v.connector \in Occupied
    /\ x = "SessionFinished" => w.connector \notin Occupied
    /\ x # "SessionFinished" => w.plug_in_timeout = v.plug_in_timeout

\* handle_session_event and ConnectorStateMachine::handle_event have these
\* effects.
LEMMA EventEffect ==
    ASSUME NEW v \in EvseType, NEW x \in SessionEvent, NEW w,
           w = AfterEvent(v, x)
    PROVE  EventEffects(v, x, w)
<1>0. v.connector \in ConnectorStates  BY DEF EvseType
<1>1. CASE x = "SessionStarted"
  <2>1. w = [v EXCEPT !.plugged_in = TRUE]
    BY <1>1 DEF AfterEvent
  <2>3. /\ w \in EvseType /\ w.connector = v.connector
        /\ w.transaction_active = v.transaction_active
        /\ w.plug_in_timeout = v.plug_in_timeout
    BY <1>0, <2>1, AuthAssumption DEF EvseType
  <2> QED  BY <1>1, <2>3, Kinds DEF EventEffects
<1>2. CASE x = "TransactionStarted"
  <2> DEFINE c == ConnectorNext(v.connector, "TRANSACTION_STARTED")
  <2>1. w = [v EXCEPT !.plugged_in = TRUE, !.transaction_active = TRUE,
                      !.connector = c]
    BY <1>2 DEF AfterEvent
  <2>2. c \in ConnectorStates /\ (c \in Unavailable <=> v.connector \in Unavailable)
    BY <1>0 DEF ConnectorNext, ConnectorStates, Unavailable, Occupied
  <2> HIDE DEF c
  <2>3. /\ w \in EvseType /\ w.connector = c
        /\ w.transaction_active = TRUE
        /\ w.plug_in_timeout = v.plug_in_timeout
    BY <1>0, <2>1, <2>2, AuthAssumption DEF EvseType
  <2> QED  BY <1>2, <2>2, <2>3, Kinds DEF EventEffects
<1>3. CASE x = "TransactionFinished"
  <2>1. w = [v EXCEPT !.transaction_active = FALSE, !.identifier = None]
    BY <1>3 DEF AfterEvent
  <2>3. /\ w \in EvseType /\ w.connector = v.connector
        /\ w.transaction_active = FALSE
        /\ w.plug_in_timeout = v.plug_in_timeout
    BY <1>0, <2>1, AuthAssumption DEF EvseType
  <2> QED  BY <1>3, <2>3, Kinds DEF EventEffects
<1>4. CASE x = "SessionFinished"
  <2> DEFINE c == ConnectorNext(v.connector, "SESSION_FINISHED")
  <2>1. w = [v EXCEPT !.plugged_in = FALSE, !.plug_in_timeout = FALSE,
                      !.identifier = None, !.connector = c]
    BY <1>4 DEF AfterEvent
  <2>2. c \in ConnectorStates /\ (c \in Unavailable <=> v.connector \in Unavailable)
        /\ c \notin Occupied
    BY <1>0 DEF ConnectorNext, ConnectorStates, Unavailable, Occupied
  <2> HIDE DEF c
  <2>3. /\ w \in EvseType /\ w.connector = c
        /\ w.transaction_active = v.transaction_active
    BY <1>0, <2>1, <2>2, AuthAssumption DEF EvseType
  <2> QED  BY <1>4, <2>2, <2>3, Kinds DEF EventEffects
<1>5. CASE x = "Deauthorized"
  <2>1. w = [v EXCEPT !.identifier = None]
    BY <1>5 DEF AfterEvent
  <2>3. /\ w \in EvseType /\ w.connector = v.connector
        /\ w.transaction_active = v.transaction_active
        /\ w.plug_in_timeout = v.plug_in_timeout
    BY <1>0, <2>1, AuthAssumption DEF EvseType
  <2> QED  BY <1>5, <2>3, Kinds DEF EventEffects
<1>6. CASE x = "Disabled"
  <2> DEFINE c == ConnectorNext(v.connector, "DISABLE")
  <2>1. w = [v EXCEPT !.connector = c]
    BY <1>6 DEF AfterEvent
  <2>2. c \in ConnectorStates /\ (v.connector \notin Occupied => c \in Unavailable)
        /\ (c \in Occupied => v.connector \in Occupied)
    BY <1>0 DEF ConnectorNext, ConnectorStates, Unavailable, Occupied
  <2> HIDE DEF c
  <2>3. /\ w \in EvseType /\ w.connector = c
        /\ w.transaction_active = v.transaction_active
        /\ w.plug_in_timeout = v.plug_in_timeout
    BY <1>0, <2>1, <2>2, AuthAssumption DEF EvseType
  <2> QED  BY <1>6, <2>2, <2>3, Kinds DEF EventEffects
<1>7. CASE x = "Enabled"
  <2> DEFINE c == ConnectorNext(v.connector, "ENABLE")
  <2>1. w = [v EXCEPT !.connector = c]
    BY <1>7 DEF AfterEvent
  <2>2. c \in ConnectorStates /\ c \notin Unavailable
        /\ (c \in Occupied => v.connector \in Occupied)
    BY <1>0 DEF ConnectorNext, ConnectorStates, Unavailable, Occupied
  <2> HIDE DEF c
  <2>3. /\ w \in EvseType /\ w.connector = c
        /\ w.transaction_active = v.transaction_active
        /\ w.plug_in_timeout = v.plug_in_timeout
    BY <1>0, <2>1, <2>2, AuthAssumption DEF EvseType
  <2> QED  BY <1>7, <2>2, <2>3, Kinds DEF EventEffects
<1> QED  BY <1>1, <1>2, <1>3, <1>4, <1>5, <1>6, <1>7 DEF SessionEvent

\* The first event of q is handled: for everything the invariant asks.
AfterTaking(q, x, r) ==
    /\ r \in Seq(SessionEvent) /\ x \in SessionEvent
    /\ NoneOf(q, Transactions) <=> NoneOf(r, Transactions) /\ x \notin Transactions
    /\ NoneOf(q, Switches) <=> NoneOf(r, Switches) /\ x \notin Switches
    /\ NoneOf(q, Ends) <=> NoneOf(r, Ends) /\ x # "SessionFinished"
    /\ Leaves(q, "TransactionStarted", Transactions)
         <=> \/ Leaves(r, "TransactionStarted", Transactions)
             \/ x = "TransactionStarted" /\ NoneOf(r, Transactions)
    /\ Leaves(q, "TransactionFinished", Transactions)
         <=> \/ Leaves(r, "TransactionFinished", Transactions)
             \/ x = "TransactionFinished" /\ NoneOf(r, Transactions)
    /\ Leaves(q, "Disabled", Switches)
         <=> Leaves(r, "Disabled", Switches) \/ (x = "Disabled" /\ NoneOf(r, Switches))
    /\ Leaves(q, "Enabled", Switches)
         <=> Leaves(r, "Enabled", Switches) \/ (x = "Enabled" /\ NoneOf(r, Switches))
    /\ Leaves(q, "TransactionStarted", Ends)
         <=> \/ Leaves(r, "TransactionStarted", Ends)
             \/ x = "TransactionStarted" /\ NoneOf(r, Ends)
    /\ Leaves(q, "SessionStarted", Ends)
         <=> \/ Leaves(r, "SessionStarted", Ends)
             \/ x = "SessionStarted" /\ NoneOf(r, Ends)
    /\ x = "Disabled" => Meets(q, "Disabled", Ends)
    /\ x # "SessionFinished" /\ Meets(r, "Disabled", Ends) => Meets(q, "Disabled", Ends)
    /\ Crosses(r, "TransactionStarted", "Disabled", Ends)
         => Crosses(q, "TransactionStarted", "Disabled", Ends)
    /\ x = "TransactionStarted" /\ Meets(r, "Disabled", Ends)
         => Crosses(q, "TransactionStarted", "Disabled", Ends)

\* That is what taking the first event does.
LEMMA Taken ==
    ASSUME NEW q \in Seq(SessionEvent), q # <<>>, NEW x, NEW r,
           x = Head(q), r = Tail(q)
    PROVE  AfterTaking(q, x, r)
<1>0. r \in Seq(SessionEvent) /\ x \in SessionEvent  OBVIOUS
<1>e. x \in Ends <=> x = "SessionFinished"  BY DEF Ends
<1>1. \A S : NoneOf(q, S) <=> x \notin S /\ NoneOf(r, S)  BY HandledNone
<1>2. \A a, S : Leaves(q, a, S) <=> Leaves(r, a, S) \/ (x = a /\ NoneOf(r, S))
  BY HandledLeaves
<1>3. \A a, S : /\ x = a => Meets(q, a, S)
                /\ x \notin S /\ Meets(r, a, S) => Meets(q, a, S)
  BY HandledMeets
<1>4. \A a, b, S : /\ Crosses(r, a, b, S) => Crosses(q, a, b, S)
                   /\ x = a /\ Meets(r, b, S) => Crosses(q, a, b, S)
  BY HandledCrosses
<1> QED  BY <1>0, <1>e, <1>1, <1>2, <1>3, <1>4 DEF AfterTaking

\* handle_session_event, for the pending plug-ins: there is one after
\* SessionStarted; after SessionFinished there is none, or the handler still
\* waits to remove it.
PendingAfter(x, p, p2, h2) ==
    /\ p2 \in BOOLEAN
    /\ x = "SessionStarted" => p2
    /\ x \notin {"SessionStarted", "SessionFinished"} => p2 = p
    /\ x # "SessionFinished" => h2 # "SessionFinished"
    /\ x = "SessionFinished" => ~p2 \/ h2 = "SessionFinished"

\* handle_session_event
LEMMA HandleLink ==
    ASSUME NEW v, NEW m, NEW q, NEW h, NEW p, LinkOK(v, m, q, h, p),
           h # "SessionFinished", q # <<>>, NEW x, x = Head(q), NEW r, r = Tail(q),
           NEW w, w = AfterEvent(v, x), NEW h2, NEW p2, PendingAfter(x, p, p2, h2)
    PROVE  LinkOK(w, m, r, h2, p2)
<1>p. /\ p2 \in BOOLEAN /\ (x = "SessionStarted" => p2)
      /\ x \notin {"SessionStarted", "SessionFinished"} => p2 = p
      /\ x # "SessionFinished" => h2 # "SessionFinished"
      /\ x = "SessionFinished" => ~p2 \/ h2 = "SessionFinished"
  BY DEF PendingAfter
<1>0. LinkType(v, m, q, p) /\ ManagerOK(m)  BY DEF LinkOK
<1>1. q \in Seq(SessionEvent) /\ m \in EmType /\ v \in EvseType
  BY <1>0 DEF LinkType
<1>2. AfterTaking(q, x, r)  BY <1>1, Taken
<1>x. x \in SessionEvent  BY <1>2 DEF AfterTaking
<1>3. EventEffects(v, x, w)  BY <1>1, <1>x, EventEffect
<1>4. LinkType(w, m, r, p2)
  BY <1>p, <1>0, <1>2, <1>3 DEF LinkType, AfterTaking, EventEffects
<1>5. TransactionLink(w, m, r)
  <2>1. m.transaction \in BOOLEAN  BY <1>1 DEF EmType
  <2>2. x \in Transactions => x \in {"TransactionStarted", "TransactionFinished"}
    BY DEF Transactions
  <2> QED  BY <1>2, <1>3, <2>1, <2>2 DEF AfterTaking, EventEffects, LinkOK, TransactionLink
<1>6. EnableLink(w, m, r)
  <2>1. x \in Switches => x \in {"Disabled", "Enabled"}  BY DEF Switches
  <2>2. x = "Disabled" => v.connector \notin Occupied
    BY <1>2 DEF AfterTaking, EventEffects, LinkOK, OccupiedLink
  <2> QED  BY <1>2, <1>3, <2>1, <2>2 DEF AfterTaking, EventEffects, LinkOK, EnableLink
<1>7. OccupiedLink(w, m, r)
  BY <1>2, <1>3 DEF AfterTaking, EventEffects, LinkOK, OccupiedLink
<1>8. PlugInLink(w, m, r, h2, p2)
  BY <1>p, <1>2, <1>3 DEF AfterTaking, EventEffects, LinkOK, PlugInLink
<1> QED  BY <1>0, <1>4, <1>5, <1>6, <1>7, <1>8 DEF LinkOK

\* The handler that waited for the timer callback goes on.
LEMMA WakesLink ==
    ASSUME NEW v, NEW m, NEW q, NEW h, NEW p, LinkOK(v, m, q, h, p),
           NEW h2, h2 # "SessionFinished", NEW p2 \in BOOLEAN,
           h = "SessionFinished" => ~p2, h # "SessionFinished" => p2 = p
    PROVE  LinkOK(v, m, q, h2, p2)
BY DEF LinkOK, LinkType, PlugInLink

\* A fault is raised or cleared: what the connector is used for, and whether it
\* is disabled, stays.
LEMMA FaultLink ==
    ASSUME NEW v, NEW m, NEW q, NEW h, NEW p, LinkOK(v, m, q, h, p),
           NEW x \in {"FAULTED", "ERROR_CLEARED"}, NEW w,
           w = [v EXCEPT !.connector = ConnectorNext(v.connector, x)]
    PROVE  LinkOK(w, m, q, h, p)
<1> DEFINE c == ConnectorNext(v.connector, x)
<1>0. v \in EvseType  BY DEF LinkOK, LinkType
<1>1. v.connector \in ConnectorStates  BY <1>0 DEF EvseType
<1>2. /\ c \in ConnectorStates
      /\ c \in Unavailable <=> v.connector \in Unavailable
      /\ c \in Occupied <=> v.connector \in Occupied
  BY <1>1 DEF ConnectorNext, ConnectorStates, Unavailable, Occupied
<1>a. w = [v EXCEPT !.connector = c]  OBVIOUS
<1> HIDE DEF c
<1>3. /\ w \in EvseType /\ w.connector = c
      /\ w.transaction_active = v.transaction_active
      /\ w.plug_in_timeout = v.plug_in_timeout
  BY <1>0, <1>2, <1>a DEF EvseType
<1> QED
  BY <1>2, <1>3
     DEF LinkOK, LinkType, TransactionLink, EnableLink, OccupiedLink, PlugInLink
-----------------------------------------------------------------------------
(* The queue of plug-ins without those of one EVSE. *)

\* One more element.
LEMMA RangeAppend ==
    ASSUME NEW S, NEW q \in Seq(S), NEW x \in S
    PROVE  Range(Append(q, x)) = Range(q) \union {x}
<1> DEFINE r == Append(q, x)
<1>0. /\ DOMAIN r = 1..(Len(q) + 1) /\ DOMAIN q = 1..Len(q) /\ Len(q) \in Nat
      /\ r[Len(q) + 1] = x /\ \A i \in DOMAIN q : r[i] = q[i]
  OBVIOUS
<1> HIDE DEF r
<1>1. /\ \A i \in DOMAIN r : i \in DOMAIN q \/ i = Len(q) + 1
      /\ Len(q) + 1 \in DOMAIN r /\ \A i \in DOMAIN q : i \in DOMAIN r
  BY <1>0
<1>2. Range(r) \subseteq Range(q) \union {x}
  BY <1>0, <1>1 DEF Range
<1>3. Range(q) \union {x} \subseteq Range(r)
  BY <1>0, <1>1 DEF Range
<1> QED  BY <1>2, <1>3 DEF r

\* plug_in_queue.remove_if leaves the others.
LEMMA WithoutEvse ==
    ASSUME plug_in_queue \in Seq(Evses), NEW e
    PROVE  /\ Without(e) \in Seq(Evses)
           /\ Range(Without(e)) = Range(plug_in_queue) \ {e}
<1> DEFINE t == plug_in_queue
           n == Len(t)
           Pass(kept, f) == IF f = e THEN kept ELSE Append(kept, f)
           step == [kept \in Seq(Evses) |-> [f \in Evses |-> Pass(kept, f)]]
           iter == CHOOSE g : g = [s \in SUBSET DOMAIN t |->
                      IF s = {} THEN <<>> ELSE Pass(g[s \ {Max(s)}], t[Max(s)])]
           C == [i \in Nat |-> {r \in Seq(Evses) :
                                  Range(r) = {t[j] : j \in 1..i} \ {e}}]
<1>1. Without(e) = iter[DOMAIN t]
  BY DEF Without, FoldLeft, MapThenFoldSet
<1>2. n \in Nat /\ DOMAIN t = 1..n /\ t \in [1..n -> Evses]  OBVIOUS
<1>3. step \in [Seq(Evses) -> [Evses -> Seq(Evses)]]
  <2>1. \A kept \in Seq(Evses), f \in Evses : Pass(kept, f) \in Seq(Evses)
    OBVIOUS
  <2> HIDE DEF Pass
  <2> QED  BY <2>1
<1>4. iter = [s \in SUBSET DOMAIN t |->
                IF s = {} THEN <<>> ELSE Pass(iter[s \ {Max(s)}], t[Max(s)])]
  <2>0. <<>> \in Seq(Evses)  OBVIOUS
  <2>1. PICK g \in [SUBSET (1..n) -> Seq(Evses)] :
            Folding(g, step, <<>>, t, n)
    <3> HIDE DEF step, n, t
    <3>1. PICK base \in Seq(Evses) : base = <<>>  BY <2>0
    <3>2. \E g \in [SUBSET (1..n) -> Seq(Evses)] :
              Folding(g, step, base, t, n)
      BY <1>2, <1>3, FoldSolution
    <3> QED  BY <3>1, <3>2
  <2>2. \A s \in SUBSET (1..n) : s # {} => Max(s) \in s  BY <1>2, MaxInside
  <2>3. \A s \in SUBSET (1..n) : s # {} =>
           step[g[s \ {Max(s)}]][t[Max(s)]] = Pass(g[s \ {Max(s)}], t[Max(s)])
    <3> SUFFICES ASSUME NEW s \in SUBSET (1..n), s # {}
                 PROVE  step[g[s \ {Max(s)}]][t[Max(s)]]
                          = Pass(g[s \ {Max(s)}], t[Max(s)])
      OBVIOUS
    <3>1. s \ {Max(s)} \in SUBSET (1..n)  OBVIOUS
    <3>2. g[s \ {Max(s)}] \in Seq(Evses)  BY <3>1
    <3>3. t[Max(s)] \in Evses  BY <1>2, <2>2
    <3> HIDE DEF Pass
    <3> QED  BY <3>2, <3>3
  <2> HIDE DEF step, Pass
  <2>4. g = [s \in SUBSET DOMAIN t |->
                IF s = {} THEN <<>> ELSE Pass(g[s \ {Max(s)}], t[Max(s)])]
    BY <1>2, <2>1, <2>3 DEF Folding
  <2> QED  BY <2>4
<1> HIDE DEF iter
<1>5. iter[{}] \in C[0]
  <2>1. {} \in SUBSET DOMAIN t  OBVIOUS
  <2>2. iter[{}] = <<>>  BY <1>4, <2>1
  <2>3. <<>> \in Seq(Evses) /\ Range(<<>>) = {}  BY DEF Range
  <2>4. {t[j] : j \in 1..0} = {}  OBVIOUS
  <2> QED  BY <2>2, <2>3, <2>4
<1>6. ASSUME NEW i \in 1..n, iter[1..(i - 1)] \in C[i - 1]
      PROVE  iter[1..i] \in C[i]
  <2> DEFINE r == iter[1..(i - 1)]
             R == {t[j] : j \in 1..(i - 1)}
  <2>0. i \in Nat /\ i > 0 /\ i - 1 \in Nat  BY <1>2
  <2>1. Max(1..i) = i /\ (1..i) \ {i} = 1..(i - 1) /\ 1..i # {}
    BY <2>0, BeforeLast
  <2>2. 1..i \in SUBSET DOMAIN t  BY <1>2
  <2>3. iter[1..i] = Pass(iter[(1..i) \ {Max(1..i)}], t[Max(1..i)])
    <3> HIDE DEF Pass
    <3> QED  BY <1>4, <2>1, <2>2
  <2>4. iter[1..i] = Pass(r, t[i])
    <3> HIDE DEF Pass
    <3> QED  BY <2>1, <2>3
  <2>5. r \in Seq(Evses) /\ Range(r) = R \ {e}  BY <1>6, <2>0
  <2>6. t[i] \in Evses  BY <1>2
  <2>7. {t[j] : j \in 1..i} = R \union {t[i]}
    <3>1. \A j \in 1..i : j = i \/ j \in 1..(i - 1)  BY <2>0
    <3>2. \A j \in 1..(i - 1) : j \in 1..i  BY <2>0
    <3>3. i \in 1..i  BY <2>0
    <3> QED  BY <3>1, <3>2, <3>3
  <2> HIDE DEF r, R
  <2>8. CASE t[i] = e
    <3>1. iter[1..i] = r  BY <2>4, <2>8
    <3>2. Range(r) = (R \union {t[i]}) \ {e}  BY <2>5, <2>8
    <3> QED  BY <2>0, <2>5, <2>7, <3>1, <3>2
  <2>9. CASE t[i] # e
    <3>1. iter[1..i] = Append(r, t[i])  BY <2>4, <2>9
    <3>2. Append(r, t[i]) \in Seq(Evses)  BY <2>5, <2>6
    <3>3. Range(Append(r, t[i])) = Range(r) \union {t[i]}
      <4> HIDE DEF t
      <4> QED  BY <2>5, <2>6, RangeAppend
    <3>4. Range(Append(r, t[i])) = (R \union {t[i]}) \ {e}
      BY <2>5, <2>9, <3>3
    <3> QED  BY <2>0, <2>7, <3>1, <3>2, <3>4
  <2> QED  BY <2>8, <2>9
<1>7. iter[1..n] \in C[n]
  <2> HIDE DEF C, n
  <2> QED  BY <1>2, <1>5, <1>6, FoldWalk
<1>8. Range(t) = {t[j] : j \in 1..n}  BY <1>2 DEF Range
<1> QED  BY <1>1, <1>2, <1>7, <1>8
-----------------------------------------------------------------------------
(* The steps. *)

\* What the invariant says of one EVSE.
LEMMA AtOne ==
    ASSUME AInv, NEW f \in Evses
    PROVE  /\ LinkOK(evse[f], em[f], events[f], handler[f], f \in Range(plug_in_queue))
           /\ evse[f] \in EvseType /\ em[f] \in EmType
           /\ events[f] \in Seq(SessionEvent)
BY DEF AInv, LinkOK, LinkType

\* Nothing of it changes.
LEMMA StillStep ==
    ASSUME AInv, UNCHANGED <<evse, em, events, handler, plug_in_queue>>
    PROVE  AInv'
BY DEF AInv

\* Transactions are stopped.
LEMMA StopStep ==
    ASSUME AInv, NEW es, StopAt(es), UNCHANGED <<evse, events, handler, plug_in_queue>>
    PROVE  AInv'
<1>1. em' = [e \in Evses |-> em'[e]]  BY DEF StopAt
<1>2. ASSUME NEW f \in Evses
      PROVE  LinkOK(evse[f], em'[f], events[f], handler[f], f \in Range(plug_in_queue))
  <2>1. em'[f] = em[f] \/ em'[f] = EmStop(em[f])  BY DEF StopAt
  <2> QED  BY <2>1, AtOne, StopLink
<1> QED  BY <1>1, <1>2 DEF AInv

\* An EVSE gets a token as its identifier, or its EvseManager is told about it
\* and its plug-in is no longer pending.
LEMMA TokenStep ==
    ASSUME AInv, NEW t \in Tokens, NEW e,
           evse' = evse \/ evse' = [evse EXCEPT ![e].identifier = t],
           \/ em' = em /\ plug_in_queue' = plug_in_queue
           \/ /\ em' = [em EXCEPT ![e] = Crossing(EmAuthorize(@, t), events[e])]
              /\ plug_in_queue' = Without(e),
           UNCHANGED <<events, handler>>
    PROVE  AInv'
<1>0. /\ evse = [f \in Evses |-> evse[f]] /\ em = [f \in Evses |-> em[f]]
      /\ plug_in_queue \in Seq(Evses)
  BY DEF AInv
<1>1. evse' = [f \in Evses |-> evse'[f]] /\ em' = [f \in Evses |-> em'[f]]
  BY <1>0
<1>2. plug_in_queue' \in Seq(Evses)  BY <1>0, WithoutEvse
<1>3. ASSUME NEW f \in Evses
      PROVE  LinkOK(evse'[f], em'[f], events[f], handler[f],
                    f \in Range(plug_in_queue)')
  <2>1. PICK p \in BOOLEAN : p <=> f \in Range(plug_in_queue)  OBVIOUS
  <2>2. PICK p2 \in BOOLEAN : p2 <=> f \in Range(plug_in_queue)'  OBVIOUS
  <2>3. LinkOK(evse[f], em[f], events[f], handler[f], p)  BY <2>1, AtOne
  <2>4. \/ em'[f] = em[f] /\ p2 = p
        \/ em'[f] = Crossing(EmAuthorize(em[f], t), events[f]) /\ ~p2
    <3>1. CASE em' = em /\ plug_in_queue' = plug_in_queue
      BY <2>1, <2>2, <3>1
    <3>2. CASE em' = [em EXCEPT ![e] = Crossing(EmAuthorize(@, t), events[e])]
               /\ plug_in_queue' = Without(e)
      <4>1. Range(plug_in_queue)' = Range(plug_in_queue) \ {e}
        BY <1>0, <3>2, WithoutEvse
      <4>2. em'[f] = IF f = e THEN Crossing(EmAuthorize(em[f], t), events[f])
                        ELSE em[f]
        BY <1>0, <3>2
      <4> QED  BY <2>1, <2>2, <4>1, <4>2
    <3> QED  BY <3>1, <3>2
  <2>5. LinkOK(evse[f], em'[f], events[f], handler[f], p2)
    <3>1. CASE em'[f] = em[f] /\ p2 = p  BY <2>3, <3>1
    <3>2. CASE em'[f] = Crossing(EmAuthorize(em[f], t), events[f]) /\ ~p2
      BY <2>3, <3>2, AuthorizeLink
    <3> QED  BY <2>4, <3>1, <3>2
  <2>6. evse'[f] = evse[f] \/ evse'[f] = [evse[f] EXCEPT !.identifier = t]
    BY <1>0
  <2>7. LinkOK(evse'[f], em'[f], events[f], handler[f], p2)
    BY <2>5, <2>6, IdentifierLink
  <2> QED  BY <2>2, <2>7
<1> QED  BY <1>1, <1>2, <1>3 DEF AInv

\* One EVSE changes, and the plug-ins of the others stay.
LEMMA OneStep ==
    ASSUME AInv, NEW e \in Evses, NEW v, NEW m, NEW q, NEW h,
           evse' = [evse EXCEPT ![e] = v], em' = [em EXCEPT ![e] = m],
           events' = [events EXCEPT ![e] = q], handler' = [handler EXCEPT ![e] = h],
           plug_in_queue' \in Seq(Evses),
           Range(plug_in_queue)' \ {e} = Range(plug_in_queue) \ {e},
           LinkOK(v, m, q, h, e \in Range(plug_in_queue)')
    PROVE  AInv'
<1>0. /\ evse = [f \in Evses |-> evse[f]] /\ em = [f \in Evses |-> em[f]]
      /\ events = [f \in Evses |-> events[f]]
      /\ handler = [f \in Evses |-> handler[f]]
  BY DEF AInv
<1>1. /\ evse' = [f \in Evses |-> evse'[f]] /\ em' = [f \in Evses |-> em'[f]]
      /\ events' = [f \in Evses |-> events'[f]]
      /\ handler' = [f \in Evses |-> handler'[f]]
  BY <1>0
<1>2. ASSUME NEW f \in Evses
      PROVE  LinkOK(evse'[f], em'[f], events'[f], handler'[f],
                    f \in Range(plug_in_queue)')
  <2>1. CASE f = e
    <3>1. evse'[f] = v /\ em'[f] = m /\ events'[f] = q /\ handler'[f] = h
      BY <1>0, <2>1
    <3> QED  BY <2>1, <3>1
  <2>2. CASE f # e
    <3>1. /\ evse'[f] = evse[f] /\ em'[f] = em[f] /\ events'[f] = events[f]
          /\ handler'[f] = handler[f]
      BY <1>0, <2>2
    <3>2. (f \in Range(plug_in_queue)') = (f \in Range(plug_in_queue))
      BY <2>2
    <3> QED  BY <3>1, <3>2, AtOne
  <2> QED  BY <2>1, <2>2
<1> QED  BY <1>1, <1>2 DEF AInv

\* Only what the EvseManager of one EVSE does, and what it sends.
LEMMA ManagerStep ==
    ASSUME AInv, NEW e \in Evses, NEW m, NEW q, em' = [em EXCEPT ![e] = m],
           events' = [events EXCEPT ![e] = q],
           UNCHANGED <<evse, handler, plug_in_queue>>,
           LinkOK(evse[e], m, q, handler[e], e \in Range(plug_in_queue))
    PROVE  AInv'
<1>1. plug_in_queue' \in Seq(Evses) /\ Range(plug_in_queue)' = Range(plug_in_queue)
  BY DEF AInv
<1>2. evse = [f \in Evses |-> evse[f]] /\ handler = [f \in Evses |-> handler[f]]
  BY DEF AInv
<1>3. evse' = [evse EXCEPT ![e] = evse[e]]
      /\ handler' = [handler EXCEPT ![e] = handler[e]]
  BY <1>2
<1>4. LinkOK(evse[e], m, q, handler[e], e \in Range(plug_in_queue)')  BY <1>1
<1> QED  BY <1>1, <1>3, <1>4, OneStep

\* The EvseManager's steps.
LEMMA EvseManagerStep ==
    ASSUME AInv, NEW e \in Evses, EvseManager(e)
    PROVE  AInv'
<1> DEFINE v == evse[e]
           m == em[e]
           q == events[e]
           h == handler[e]
<1>p. PICK p \in BOOLEAN : p <=> e \in Range(plug_in_queue)  OBVIOUS
<1>0. LinkOK(v, m, q, h, p)  BY <1>p, AtOne
<1>f. em = [f \in Evses |-> em[f]] /\ events = [f \in Evses |-> events[f]]
  BY DEF AInv
<1>m. ASSUME NEW n, NEW r, em' = [em EXCEPT ![e] = n],
             events' = [events EXCEPT ![e] = r],
             UNCHANGED <<evse, handler, plug_in_queue>>, LinkOK(v, n, r, h, p)
      PROVE  AInv'
  BY <1>m, <1>p, ManagerStep
<1>1. CASE PlugIn(e)
  <2> DEFINE n == [m EXCEPT !.plugged = TRUE, !.session = TRUE]
             r == q \o (IF m.session THEN <<>> ELSE <<"SessionStarted">>)
  <2>1. em' = [em EXCEPT ![e] = n] /\ events' = [events EXCEPT ![e] = r]
        /\ UNCHANGED <<evse, handler, plug_in_queue>> /\ ~m.plugged /\ m.enabled
    BY <1>1, <1>f DEF PlugIn, Send
  <2>2. LinkOK(v, n, r, h, p)  BY <1>0, <2>1, PluggedLink
  <2> HIDE DEF n, r
  <2> QED  BY <1>m, <2>1, <2>2
<1>2. CASE Unplug(e)
  <2> DEFINE r == q \o ((IF m.transaction THEN <<"TransactionFinished">> ELSE <<>>)
                          \o <<"SessionFinished">>)
  <2>1. em' = [em EXCEPT ![e] = Idle] /\ events' = [events EXCEPT ![e] = r]
        /\ UNCHANGED <<evse, handler, plug_in_queue>> /\ m.plugged
    BY <1>2, <1>f DEF Unplug, Send
  <2>2. LinkOK(v, Idle, r, h, p)  BY <1>0, <2>1, UnpluggedLink
  <2> HIDE DEF r
  <2> QED  BY <1>m, <2>1, <2>2
<1>3. CASE TransactionStarts(e)
  <2> DEFINE n == [m EXCEPT !.transaction = TRUE]
             r == q \o <<"TransactionStarted">>
  <2>1. em' = [em EXCEPT ![e] = n] /\ events' = [events EXCEPT ![e] = r]
        /\ UNCHANGED <<evse, handler, plug_in_queue>> /\ m.plugged /\ m.session
    BY <1>3, <1>f DEF TransactionStarts, Send
  <2>2. LinkOK(v, n, r, h, p)
    <3>1. PICK b \in BOOLEAN : b = TRUE  OBVIOUS
    <3> QED  BY <1>0, <2>1, <3>1, TransactionsLink
  <2> HIDE DEF n, r
  <2> QED  BY <1>m, <2>1, <2>2
<1>4. CASE TransactionEnds(e)
  <2> DEFINE n == [m EXCEPT !.transaction = FALSE]
             r == q \o <<"TransactionFinished">>
  <2>1. em' = [em EXCEPT ![e] = n] /\ events' = [events EXCEPT ![e] = r]
        /\ UNCHANGED <<evse, handler, plug_in_queue>>
    BY <1>4, <1>f DEF TransactionEnds, Send
  <2>2. LinkOK(v, n, r, h, p)
    <3>1. PICK b \in BOOLEAN : b = FALSE  OBVIOUS
    <3> QED  BY <1>0, <3>1, TransactionsLink
  <2> HIDE DEF n, r
  <2> QED  BY <1>m, <2>1, <2>2
<1>5. CASE DisableEvse(e)
  <2> DEFINE n == [m EXCEPT !.enabled = FALSE]
             r == q \o <<"Disabled">>
  <2>1. em' = [em EXCEPT ![e] = n] /\ events' = [events EXCEPT ![e] = r]
        /\ UNCHANGED <<evse, handler, plug_in_queue>> /\ ~m.plugged
    BY <1>5, <1>f DEF DisableEvse, Send
  <2>2. LinkOK(v, n, r, h, p)  BY <1>0, <2>1, DisabledLink
  <2> HIDE DEF n, r
  <2> QED  BY <1>m, <2>1, <2>2
<1>6. CASE EnableEvse(e)
  <2> DEFINE n == [EmWithdraw(m, TRUE) EXCEPT !.enabled = TRUE]
             r == q \o (<<"Enabled">> \o EmWithdrawEvents(m, TRUE))
  <2>1. em' = [em EXCEPT ![e] = n] /\ events' = [events EXCEPT ![e] = r]
        /\ UNCHANGED <<evse, handler, plug_in_queue>> /\ ~m.enabled
    BY <1>6, <1>f DEF EnableEvse, Send
  <2>2. LinkOK(v, n, r, h, p)  BY <1>0, <2>1, EnabledLink
  <2> HIDE DEF n, r
  <2> QED  BY <1>m, <2>1, <2>2
<1> QED  BY <1>1, <1>2, <1>3, <1>4, <1>5, <1>6 DEF EvseManager

\* A fault is raised or cleared.
LEMMA FaultStep ==
    ASSUME AInv, NEW e \in Evses, FaultRaised(e) \/ FaultCleared(e)
    PROVE  AInv'
<1>0. /\ evse = [f \in Evses |-> evse[f]] /\ em = [f \in Evses |-> em[f]]
      /\ events = [f \in Evses |-> events[f]]
      /\ handler = [f \in Evses |-> handler[f]] /\ plug_in_queue \in Seq(Evses)
  BY DEF AInv
<1>1. PICK x \in {"FAULTED", "ERROR_CLEARED"} :
          evse' = [evse EXCEPT ![e].connector = ConnectorNext(@, x)]
  BY DEF FaultRaised, FaultCleared
<1>2. UNCHANGED <<em, events, handler, plug_in_queue>>
  BY DEF FaultRaised, FaultCleared
<1> DEFINE w == [evse[e] EXCEPT !.connector = ConnectorNext(evse[e].connector, x)]
<1>3. evse' = [evse EXCEPT ![e] = w]  BY <1>0, <1>1
<1>4. LinkOK(w, em[e], events[e], handler[e], e \in Range(plug_in_queue))
  BY AtOne, FaultLink
<1> HIDE DEF w
<1>5. /\ em' = [em EXCEPT ![e] = em[e]] /\ events' = [events EXCEPT ![e] = events[e]]
      /\ handler' = [handler EXCEPT ![e] = handler[e]]
      /\ plug_in_queue' \in Seq(Evses) /\ Range(plug_in_queue)' = Range(plug_in_queue)
  BY <1>0, <1>2
<1>6. LinkOK(w, em[e], events[e], handler[e], e \in Range(plug_in_queue)')
  BY <1>4, <1>5
<1> QED  BY <1>3, <1>5, <1>6, OneStep

\* The callback of a timer: the authorization is withdrawn, and the identifier
\* or the plug-in with it.
LEMMA CallbackStep ==
    ASSUME AInv, NEW e \in Evses, CallbackRuns(e)
    PROVE  AInv'
<1>0. /\ evse = [f \in Evses |-> evse[f]] /\ em = [f \in Evses |-> em[f]]
      /\ events = [f \in Evses |-> events[f]]
      /\ handler = [f \in Evses |-> handler[f]] /\ plug_in_queue \in Seq(Evses)
  BY DEF AInv
<1>f. PICK fin \in BOOLEAN : /\ em' = [em EXCEPT ![e] = EmWithdraw(@, fin)]
                            /\ Send(e, EmWithdrawEvents(em[e], fin))
  BY DEF CallbackRuns
<1> DEFINE n == EmWithdraw(em[e], fin)
           r == events[e] \o EmWithdrawEvents(em[e], fin)
<1>p. PICK p \in BOOLEAN : p <=> e \in Range(plug_in_queue)  OBVIOUS
<1>1. LinkOK(evse[e], em[e], events[e], handler[e], p) /\ evse[e] \in EvseType
  BY <1>p, AtOne
<1>2. /\ em' = [em EXCEPT ![e] = n] /\ events' = [events EXCEPT ![e] = r]
      /\ handler' = [handler EXCEPT ![e] = handler[e]]
  BY <1>0, <1>f DEF CallbackRuns, Send
<1>3. CASE evse' = [evse EXCEPT ![e].identifier = None]
           /\ plug_in_queue' = plug_in_queue
  <2> DEFINE w == [evse[e] EXCEPT !.identifier = None]
  <2>1. evse' = [evse EXCEPT ![e] = w]  BY <1>0, <1>3
  <2>2. /\ w \in EvseType /\ w.connector = evse[e].connector
        /\ w.transaction_active = evse[e].transaction_active
        /\ w.plug_in_timeout = evse[e].plug_in_timeout
    BY <1>1 DEF EvseType
  <2> HIDE DEF w
  <2>3. LinkOK(w, n, r, handler[e], p)  BY <1>1, <2>2, WithdrawLink
  <2> HIDE DEF n, r
  <2>4. /\ plug_in_queue' \in Seq(Evses) /\ Range(plug_in_queue)' = Range(plug_in_queue)
    BY <1>0, <1>3
  <2>5. LinkOK(w, n, r, handler[e], e \in Range(plug_in_queue)')
    BY <1>p, <2>3, <2>4
  <2> QED  BY <1>2, <2>1, <2>4, <2>5, OneStep
<1>4. CASE evse' = [evse EXCEPT ![e].plug_in_timeout = TRUE]
           /\ plug_in_queue' = Without(e)
  <2> DEFINE w == [evse[e] EXCEPT !.plug_in_timeout = TRUE]
  <2>1. evse' = [evse EXCEPT ![e] = w]  BY <1>0, <1>4
  <2>2. /\ w \in EvseType /\ w.connector = evse[e].connector
        /\ w.transaction_active = evse[e].transaction_active
        /\ w.plug_in_timeout
    BY <1>1 DEF EvseType
  <2> HIDE DEF w
  <2>4. /\ plug_in_queue' \in Seq(Evses)
        /\ Range(plug_in_queue)' = Range(plug_in_queue) \ {e}
    BY <1>0, <1>4, WithoutEvse
  <2>7. PICK p2 \in BOOLEAN : p2 <=> e \in Range(plug_in_queue)'  OBVIOUS
  <2>3. LinkOK(w, n, r, handler[e], p2)
    <3>1. ~p2  BY <2>4, <2>7
    <3> QED  BY <1>1, <2>2, <3>1, WithdrawLink
  <2> HIDE DEF n, r
  <2>5. LinkOK(w, n, r, handler[e], e \in Range(plug_in_queue)')
    BY <2>3, <2>7
  <2>6. Range(plug_in_queue)' \ {e} = Range(plug_in_queue) \ {e}  BY <2>4
  <2> QED  BY <1>2, <2>1, <2>4, <2>5, <2>6, OneStep
<1> QED  BY <1>3, <1>4 DEF CallbackRuns

\* A request to withdraw reaches the authorizations that were granted.
LEMMA WithdrawStep ==
    ASSUME AInv, NEW w, WithdrawGranted(w), UNCHANGED <<evse, handler, plug_in_queue>>
    PROVE  AInv'
<1>1. em' = [e \in Evses |-> em'[e]] /\ events' = [e \in Evses |-> events'[e]]
  BY DEF WithdrawGranted
<1>2. ASSUME NEW f \in Evses
      PROVE  LinkOK(evse[f], em'[f], events'[f], handler[f],
                    f \in Range(plug_in_queue))
  <2>p. PICK p \in BOOLEAN : p <=> f \in Range(plug_in_queue)  OBVIOUS
  <2>0. LinkOK(evse[f], em[f], events[f], handler[f], p) /\ evse[f] \in EvseType
    BY <2>p, AtOne
  <2>1. \/ em'[f] = em[f] /\ events'[f] = events[f]
        \/ em'[f] = EmStop(em[f]) /\ events'[f] = events[f]
        \/ \E fin \in BOOLEAN :
              /\ em'[f] = EmWithdraw(em[f], fin)
              /\ events'[f] = events[f] \o EmWithdrawEvents(em[f], fin)
    <3> DEFINE es == {e \in Evses : /\ evse[e].identifier # None
                                    /\ w.evse \in {None, e}
                                    /\ w.token \in {None, evse[e].identifier}}
    <3>1. PICK finished \in SUBSET es :
             /\ em' = [e \in Evses |->
                          IF e \notin es THEN em[e]
                          ELSE IF evse[e].transaction_active THEN EmStop(em[e])
                          ELSE EmWithdraw(em[e], e \in finished)]
             /\ events' = [e \in Evses |->
                              IF e \in es /\ ~evse[e].transaction_active
                              THEN events[e] \o EmWithdrawEvents(em[e], e \in finished)
                              ELSE events[e]]
      BY DEF WithdrawGranted
    <3> HIDE DEF es
    <3>2. (f \in finished) \in BOOLEAN  OBVIOUS
    <3>3. CASE f \in es /\ ~evse[f].transaction_active
      <4>1. /\ em'[f] = EmWithdraw(em[f], f \in finished)
            /\ events'[f] = events[f] \o EmWithdrawEvents(em[f], f \in finished)
        BY <3>1, <3>3
      <4> QED  BY <3>2, <4>1
    <3>4. CASE ~(f \in es /\ ~evse[f].transaction_active)
      BY <3>1, <3>4
    <3> QED  BY <3>3, <3>4
  <2>2. LinkOK(evse[f], em'[f], events'[f], handler[f], p)
    <3>1. CASE em'[f] = em[f] /\ events'[f] = events[f]  BY <2>0, <3>1
    <3>2. CASE em'[f] = EmStop(em[f]) /\ events'[f] = events[f]
      BY <2>0, <3>2, StopLink
    <3>3. CASE \E fin \in BOOLEAN :
                  /\ em'[f] = EmWithdraw(em[f], fin)
                  /\ events'[f] = events[f] \o EmWithdrawEvents(em[f], fin)
      BY <2>0, <3>3, WithdrawLink
    <3> QED  BY <2>1, <3>1, <3>2, <3>3
  <2> QED  BY <2>p, <2>2
<1> QED  BY <1>1, <1>2 DEF AInv

\* A session event is handled, up to the end or to the wait for a callback.
LEMMA EventStep ==
    ASSUME AInv, NEW e \in Evses, HandleSessionEvent(e)
    PROVE  AInv'
<1> DEFINE x == Head(events[e])
           w == AfterEvent(evse[e], x)
           r == Tail(events[e])
           h2 == handler'[e]
<1>0. /\ evse = [f \in Evses |-> evse[f]] /\ em = [f \in Evses |-> em[f]]
      /\ events = [f \in Evses |-> events[f]]
      /\ handler = [f \in Evses |-> handler[f]] /\ plug_in_queue \in Seq(Evses)
  BY DEF AInv
<1>p. PICK p \in BOOLEAN : p <=> e \in Range(plug_in_queue)  OBVIOUS
<1>2. PICK p2 \in BOOLEAN : p2 <=> e \in Range(plug_in_queue)'  OBVIOUS
<1>1. LinkOK(evse[e], em[e], events[e], handler[e], p)  BY <1>p, AtOne
<1>3. /\ evse' = [evse EXCEPT ![e] = w] /\ em' = [em EXCEPT ![e] = em[e]]
      /\ events' = [events EXCEPT ![e] = r]
      /\ handler[e] = None /\ events[e] # <<>>
  BY <1>0 DEF HandleSessionEvent
<1>n. None # "SessionFinished"  BY AuthAssumption, Kinds
<1>4. /\ handler' = [handler EXCEPT ![e] = h2]
      /\ h2 = None \/ (h2 = x /\ x # "SessionStarted")
  BY <1>0, <1>3 DEF HandleSessionEvent
<1>5. \/ x = "SessionStarted" /\ plug_in_queue' = Append(plug_in_queue, e)
      \/ x = "SessionFinished" /\ h2 = None /\ plug_in_queue' = Without(e)
      \/ x = "SessionFinished" /\ h2 = x /\ plug_in_queue' = plug_in_queue
      \/ x \notin {"SessionStarted", "SessionFinished"} /\ plug_in_queue' = plug_in_queue
  BY <1>0, <1>3 DEF HandleSessionEvent, TimerStopped
<1> HIDE DEF x, w, r, h2
<1>6. /\ plug_in_queue' \in Seq(Evses)
      /\ Range(plug_in_queue)' \ {e} = Range(plug_in_queue) \ {e}
      /\ x = "SessionStarted" => p2
      /\ x \notin {"SessionStarted", "SessionFinished"} => p2 = p
      /\ x = "SessionFinished" => ~p2 \/ h2 = "SessionFinished"
  <2>1. CASE x = "SessionStarted" /\ plug_in_queue' = Append(plug_in_queue, e)
    <3>1. plug_in_queue' \in Seq(Evses)  BY <1>0, <2>1
    <3>2. Range(plug_in_queue)' = Range(plug_in_queue) \union {e}
      BY <1>0, <2>1, RangeAppend
    <3> QED  BY <1>2, <2>1, <3>1, <3>2
  <2>2. CASE x = "SessionFinished" /\ h2 = None /\ plug_in_queue' = Without(e)
    <3>1. /\ plug_in_queue' \in Seq(Evses)
          /\ Range(plug_in_queue)' = Range(plug_in_queue) \ {e}
      BY <1>0, <2>2, WithoutEvse
    <3> QED  BY <1>2, <2>2, <3>1
  <2>3. CASE x = "SessionFinished" /\ h2 = x /\ plug_in_queue' = plug_in_queue
    BY <1>0, <1>2, <1>p, <2>3
  <2>4. CASE x \notin {"SessionStarted", "SessionFinished"}
             /\ plug_in_queue' = plug_in_queue
    BY <1>0, <1>2, <1>p, <2>4
  <2> QED  BY <1>5, <2>1, <2>2, <2>3, <2>4
<1>7. LinkOK(w, em[e], r, h2, p2)
  <2>1. x = Head(events[e]) /\ r = Tail(events[e]) /\ w = AfterEvent(evse[e], x)
    BY DEF x, r, w
  <2>2. x # "SessionFinished" => h2 # "SessionFinished"  BY <1>4, <1>n
  <2>3. handler[e] # "SessionFinished" /\ events[e] # <<>>  BY <1>3, <1>n
  <2>4. PendingAfter(x, p, p2, h2)  BY <1>6, <2>2 DEF PendingAfter
  <2> QED  BY <1>1, <2>1, <2>3, <2>4, HandleLink
<1>8. LinkOK(w, em[e], r, h2, e \in Range(plug_in_queue)')  BY <1>2, <1>7
<1> QED  BY <1>3, <1>4, <1>6, <1>8, OneStep

\* A handler that waited goes on.
LEMMA WakesStep ==
    ASSUME AInv, NEW e \in Evses, HandlerWakes(e)
    PROVE  AInv'
<1>0. /\ evse = [f \in Evses |-> evse[f]] /\ em = [f \in Evses |-> em[f]]
      /\ events = [f \in Evses |-> events[f]]
      /\ handler = [f \in Evses |-> handler[f]] /\ plug_in_queue \in Seq(Evses)
  BY DEF AInv
<1>p. PICK p \in BOOLEAN : p <=> e \in Range(plug_in_queue)  OBVIOUS
<1>2. PICK p2 \in BOOLEAN : p2 <=> e \in Range(plug_in_queue)'  OBVIOUS
<1>1. LinkOK(evse[e], em[e], events[e], handler[e], p)  BY <1>p, AtOne
<1>n. None # "SessionFinished"  BY AuthAssumption, Kinds
<1>3. /\ evse' = [evse EXCEPT ![e] = evse[e]] /\ em' = [em EXCEPT ![e] = em[e]]
      /\ events' = [events EXCEPT ![e] = events[e]]
      /\ handler' = [handler EXCEPT ![e] = None]
  BY <1>0 DEF HandlerWakes
<1>4. plug_in_queue' = IF handler[e] = "SessionFinished" THEN Without(e)
                       ELSE plug_in_queue
  BY DEF HandlerWakes, TimerStopped
<1>5. /\ plug_in_queue' \in Seq(Evses)
      /\ Range(plug_in_queue)' \ {e} = Range(plug_in_queue) \ {e}
      /\ handler[e] = "SessionFinished" => ~p2
      /\ handler[e] # "SessionFinished" => p2 = p
  <2>1. CASE handler[e] = "SessionFinished"
    <3>1. /\ plug_in_queue' \in Seq(Evses)
          /\ Range(plug_in_queue)' = Range(plug_in_queue) \ {e}
      BY <1>0, <1>4, <2>1, WithoutEvse
    <3> QED  BY <1>2, <2>1, <3>1
  <2>2. CASE handler[e] # "SessionFinished"  BY <1>0, <1>2, <1>p, <1>4, <2>2
  <2> QED  BY <2>1, <2>2
<1>6. LinkOK(evse[e], em[e], events[e], None, p2)
  BY <1>1, <1>n, <1>5, WakesLink
<1>7. LinkOK(evse[e], em[e], events[e], None, e \in Range(plug_in_queue)')
  BY <1>2, <1>6
<1> QED  BY <1>3, <1>5, <1>7, OneStep

\* The thread of a token.
LEMMA TokenThreadStep ==
    ASSUME AInv, NEW t \in Tokens, TokenThread(t)
    PROVE  AInv'
<1>1. ASSUME NEW answers, NEW e, Decide(t, answers, e), UNCHANGED <<events, handler>>
      PROVE  AInv'
  <2>1. evse' = evse \/ evse' = [evse EXCEPT ![e].identifier = t]
    BY <1>1 DEF Decide, Grant
  <2>2. \/ em' = em /\ plug_in_queue' = plug_in_queue
        \/ /\ em' = [em EXCEPT ![e] = Crossing(EmAuthorize(@, t), events[e])]
           /\ plug_in_queue' = Without(e)
    BY <1>1 DEF Decide, Grant, NotifyEvse
  <2> QED  BY <1>1, <2>1, <2>2, TokenStep
<1>2. CASE ValidationStops(t)
  <2>1. StopAt(StoppedByParent(t))
        /\ UNCHANGED <<evse, events, handler, plug_in_queue>>
    BY <1>2 DEF ValidationStops
  <2> QED  BY <2>1, StopStep
<1>3. CASE ValidationSelects(t)
  <2>1. UNCHANGED <<events, handler>>  BY <1>3 DEF ValidationSelects
  <2>2. \/ UNCHANGED <<evse, plug_in_queue, em>>
        \/ \E answers \in Results, e \in
              SelectEvse({f \in req[t].refs : evse[f].identifier = None}) :
              Decide(t, answers, e)
    BY <1>3 DEF ValidationSelects, Select
  <2> QED  BY <1>1, <2>1, <2>2, StillStep
<1>4. CASE SelectWakes(t)
  <2>1. UNCHANGED <<events, handler>>  BY <1>4 DEF SelectWakes
  <2>2. \/ UNCHANGED <<evse, plug_in_queue, em>>
        \/ \E e \in SelectEvse(req[t].refs) : Decide(t, req[t].results, e)
    BY <1>4 DEF SelectWakes
  <2> QED  BY <1>1, <2>1, <2>2, StillStep
<1>5. CASE SelectTimesOut(t)  BY <1>5, StillStep DEF SelectTimesOut
<1>6. CASE NotifyWakes(t)
  <2>1. /\ evse' = evse /\ UNCHANGED <<events, handler>>
        /\ em' = [em EXCEPT ![req[t].evse] =
                        Crossing(EmAuthorize(@, t), events[req[t].evse])]
        /\ plug_in_queue' = Without(req[t].evse)
    BY <1>6 DEF NotifyWakes, NotifyEvse
  <2> QED  BY <2>1, TokenStep
<1> QED  BY <1>2, <1>3, <1>4, <1>5, <1>6 DEF TokenThread

\* Initially nothing is plugged in and nothing on its way.
LEMMA AtStart == Init => AInv
<1> SUFFICES ASSUME Init PROVE AInv  OBVIOUS
<1>0. /\ evse = [e \in Evses |-> evse[e]] /\ em = [e \in Evses |-> em[e]]
      /\ events = [e \in Evses |-> events[e]]
      /\ handler = [e \in Evses |-> handler[e]]
      /\ plug_in_queue = <<>> /\ plug_in_queue \in Seq(Evses)
  BY DEF Init
<1>1. Range(plug_in_queue) = {}  BY <1>0 DEF Range
<1>2. ASSUME NEW e \in Evses
      PROVE  LinkOK(evse[e], em[e], events[e], handler[e], e \in Range(plug_in_queue))
  <2>p. PICK p \in BOOLEAN : p <=> e \in Range(plug_in_queue)  OBVIOUS
  <2>1. /\ evse[e] \in EvseType /\ ~evse[e].transaction_active
        /\ evse[e].connector = "AVAILABLE"
    BY DEF Init, EvseType, ConnectorStates
  <2>2. em[e] = Idle /\ events[e] = <<>>  BY DEF Init
  <2>3. /\ Idle \in EmType /\ ~Idle.plugged /\ ~Idle.session
        /\ Idle.enabled = TRUE /\ Idle.transaction = FALSE /\ Idle.token = None
    BY DEF Idle, EmType
  <2>4. \A a, b, S : /\ ~Leaves(<<>>, a, S) /\ ~Meets(<<>>, a, S)
                     /\ ~Crosses(<<>>, a, b, S)
    BY EmptyQueue
  <2>5. evse[e].transaction_active = FALSE  BY <2>1 DEF EvseType
  <2>6. evse[e].connector \notin Unavailable /\ evse[e].connector \notin Occupied
    BY <2>1 DEF Unavailable, Occupied
  <2>7. ~p  BY <1>1, <2>p
  <2>8. <<>> \in Seq(SessionEvent)  OBVIOUS
  <2>9. LinkOK(evse[e], Idle, <<>>, handler[e], p)
    BY <2>1, <2>3, <2>4, <2>5, <2>6, <2>7, <2>8
       DEF LinkOK, LinkType, ManagerOK, TransactionLink, EnableLink, OccupiedLink,
           PlugInLink
  <2> QED  BY <2>p, <2>2, <2>9
<1> QED  BY <1>0, <1>2 DEF AInv

\* Whatever events, timer callbacks, tokens, withdrawals and faults cross each
\* other: what the Auth module holds for an EVSE is what its EvseManager was
\* before the events that are still on their way.
THEOREM AuthInvariant == Spec => []AInv
<1>1. AInv /\ [Next]_vars => AInv'
  <2> SUFFICES ASSUME AInv, [Next]_vars PROVE AInv'  OBVIOUS
  <2>1. CASE \E t \in Tokens : TokenThread(t)  BY <2>1, TokenThreadStep
  <2>2. CASE \E t \in Tokens : \E given \in Provided : TokenStops(t, given)
    BY <2>2, StopStep DEF TokenStops
  <2>3. CASE \E t \in Tokens : \E given \in Provided : TokenProvided(t, given)
    BY <2>3, StillStep DEF TokenProvided
  <2>4. CASE \E e \in Evses : Timeout(e)
    <3>1. PICK e \in Evses : TimerExpires(e) \/ CallbackStarts(e) \/ CallbackRuns(e)
      BY <2>4 DEF Timeout
    <3>2. CASE TimerExpires(e)  BY <3>2, StillStep DEF TimerExpires
    <3>3. CASE CallbackStarts(e)  BY <3>3, StillStep DEF CallbackStarts
    <3>4. CASE CallbackRuns(e)  BY <3>4, CallbackStep
    <3> QED  BY <3>1, <3>2, <3>3, <3>4
  <2>5. CASE \E e \in Evses : EventThread(e)
    BY <2>5, EventStep, WakesStep DEF EventThread
  <2>6. CASE \E e \in Evses : EvseManager(e)  BY <2>6, EvseManagerStep
  <2>7. CASE \E e \in Evses : FaultRaised(e) \/ FaultCleared(e)
    BY <2>7, FaultStep
  <2>8. CASE \E w \in Withdrawals : WithdrawRequested(w)
    <3>1. PICK w \in Withdrawals : WithdrawRequested(w)  BY <2>8
    <3>2. UNCHANGED <<evse, plug_in_queue, handler>>
      BY <3>1 DEF WithdrawRequested
    <3>3. WithdrawGranted(w) \/ UNCHANGED <<em, events>>
      BY <3>1 DEF WithdrawRequested
    <3> QED  BY <3>2, <3>3, StillStep, WithdrawStep
  <2>9. CASE WithdrawReturns
    <3>1. WithdrawGranted(withdraw) /\ UNCHANGED <<evse, plug_in_queue, handler>>
      BY <2>9 DEF WithdrawReturns
    <3> QED  BY <3>1, WithdrawStep
  <2>10. CASE UNCHANGED vars  BY <2>10, StillStep DEF vars
  <2> QED
    BY <2>1, <2>2, <2>3, <2>4, <2>5, <2>6, <2>7, <2>8, <2>9, <2>10 DEF Next
<1> QED  BY <1>1, AtStart, PTL DEF Spec

\* When nothing is on its way, what is known of an EVSE is what it is.
LEMMA QuietLink ==
    ASSUME AInv, Quiet, NEW e \in Evses
    PROVE  /\ evse[e].transaction_active = em[e].transaction
           /\ evse[e].connector \in Unavailable <=> ~em[e].enabled
           /\ evse[e].connector \in Occupied => em[e].plugged
           /\ e \in Range(plug_in_queue) => Offered(em[e])
           /\ em[e].plugged /\ em[e].session /\ em[e].token = None /\ ~em[e].over
                /\ ~evse[e].plug_in_timeout
              => e \in Range(plug_in_queue)
<1>1. events[e] = <<>> /\ handler[e] = None  BY DEF Quiet
<1>p. PICK p \in BOOLEAN : p <=> e \in Range(plug_in_queue)  OBVIOUS
<1>2. LinkOK(evse[e], em[e], <<>>, None, p)  BY <1>1, <1>p, AtOne
<1>3. \A a, b, S : NoneOf(<<>>, S) /\ ~Leaves(<<>>, a, S)  BY EmptyQueue
<1>4. None # "SessionFinished"  BY AuthAssumption, Kinds
<1>5. /\ evse[e].transaction_active = em[e].transaction
      /\ evse[e].connector \in Unavailable <=> ~em[e].enabled
      /\ evse[e].connector \in Occupied => em[e].plugged
  BY <1>2, <1>3 DEF LinkOK, TransactionLink, EnableLink, OccupiedLink
<1>6. /\ p => Offered(em[e])
      /\ em[e].plugged /\ em[e].session /\ em[e].token = None /\ ~em[e].over
           /\ ~evse[e].plug_in_timeout
         => p
  BY <1>2, <1>3, <1>4 DEF LinkOK, PlugInLink
<1> QED  BY <1>p, <1>5, <1>6

\* TransactionAgrees for every instance: however events, timeouts, requests and
\* withdrawals crossed each other, once nothing is on its way the Auth module
\* knows a transaction as active exactly when the EvseManager has one.
THEOREM TransactionsKnown == Spec => []TransactionAgrees
<1>1. AInv => TransactionAgrees  BY QuietLink DEF TransactionAgrees
<1> QED  BY <1>1, AuthInvariant, PTL

\* PendingPlugIns for every instance: once nothing is on its way, the plug-ins
\* that select_evse offers are those of EVs that are there and wait for a token
\* (or got theirs while their plug-in was on its way), and an EV that waits is
\* offered until a timeout of its EVSE is noted.
THEOREM PlugInsKnown == Spec => []PendingPlugIns
<1>1. AInv => PendingPlugIns  BY QuietLink DEF PendingPlugIns, Offered
<1> QED  BY <1>1, AuthInvariant, PTL

\* ConnectorAgrees for every instance: once nothing is on its way, the connector
\* state machine says unavailable exactly while the EVSE is disabled, and
\* occupied only while an EV is there; no DISABLE was lost because it came while
\* the connector was occupied.
THEOREM ConnectorsKnown == Spec => []ConnectorAgrees
<1>1. AInv => ConnectorAgrees
  BY QuietLink DEF ConnectorAgrees, IsUnavailable, Unavailable, Occupied
<1> QED  BY <1>1, AuthInvariant, PTL
=============================================================================
