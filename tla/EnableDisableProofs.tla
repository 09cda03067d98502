------------------------- MODULE EnableDisableProofs -------------------------
(***************************************************************************)
(* The source table decides by the rule, for every set of sources and      *)
(* priorities and however many requests were made.  The table is folded in *)
(* the order in which the sources first appeared; the rule looks at the    *)
(* set of entries only.  The proof opens the fold as a walk, whose every   *)
(* step is one iteration of parse_enable_disable_source_table, and carries *)
(* what the loop has established so far from position to position.         *)
(***************************************************************************)
EXTENDS EnableDisable, InductionFacts

\* The winner after each entry of the walk through the table t.
Walk(w, t) ==
    /\ w[0] = DefaultSource
    /\ \A i \in 1..Len(t) : w[i] = Prefer(w[i - 1], t[i])

\* The fold's own function on the sets of the first k positions.
Unfolds(g, t, k) ==
    g = [s \in SUBSET (1..k) |->
            IF s = {} THEN DefaultSource
            ELSE Prefer(g[s \ {Max(s)}], t[Max(s)])]

\* The recursion of the fold is well founded: it has a solution for every k.
LEMMA FoldExists ==
    ASSUME NEW t, NEW n \in Nat
    PROVE  \E g : Unfolds(g, t, n)
<1> DEFINE S == {k \in Nat : \E g : Unfolds(g, t, k)}
<1>1. 0 \in S
  <2> DEFINE g == [s \in {{}} |-> DefaultSource]
  <2>1. SUBSET (1..0) = {{}}
    <3>1. 1..0 = {}  OBVIOUS
    <3> QED  BY <3>1
  <2>2. g = [s \in SUBSET (1..0) |->
                IF s = {} THEN DefaultSource
                ELSE Prefer(g[s \ {Max(s)}], t[Max(s)])]
    <3>1. g = [s \in {{}} |->
                IF s = {} THEN DefaultSource
                ELSE Prefer(g[s \ {Max(s)}], t[Max(s)])]
      OBVIOUS
    <3> QED  BY <3>1, <2>1
  <2>3. Unfolds(g, t, 0)  BY <2>2 DEF Unfolds
  <2> QED  BY <2>3
<1>2. ASSUME NEW k \in Nat, NEW g, Unfolds(g, t, k)
      PROVE  k + 1 \in S
  <2> DEFINE h == [s \in SUBSET (1..(k + 1)) |->
                      IF k + 1 \in s THEN Prefer(g[s \ {k + 1}], t[k + 1])
                      ELSE g[s]]
  <2>1. ASSUME NEW s \in SUBSET (1..(k + 1))
        PROVE  h[s] = IF s = {} THEN DefaultSource
                      ELSE Prefer(h[s \ {Max(s)}], t[Max(s)])
    <3>1. CASE k + 1 \in s
      <4>1. Max(s) = k + 1
        <5>1. s \subseteq Nat  OBVIOUS
        <5>2. \A y \in s : k + 1 >= y  OBVIOUS
        <5> QED  BY <3>1, <5>1, <5>2, MaxOfPositions
      <4>2. s \ {k + 1} \in SUBSET (1..(k + 1))  OBVIOUS
      <4>3. h[s \ {k + 1}] = g[s \ {k + 1}]  BY <4>2
      <4>4. h[s] = Prefer(g[s \ {k + 1}], t[k + 1])  BY <3>1
      <4>5. s # {}  BY <3>1
      <4> HIDE DEF h
      <4> QED  BY <4>1, <4>3, <4>4, <4>5
    <3>2. CASE k + 1 \notin s
      <4>1. s \in SUBSET (1..k)  BY <3>2
      <4>2. g[s] = IF s = {} THEN DefaultSource
                   ELSE Prefer(g[s \ {Max(s)}], t[Max(s)])
        BY <1>2, <4>1 DEF Unfolds
      <4>3. h[s] = g[s]  BY <3>2
      <4>4. h[s \ {Max(s)}] = g[s \ {Max(s)}]  BY <3>2
      <4> HIDE DEF h
      <4> QED  BY <4>2, <4>3, <4>4
    <3> QED  BY <3>1, <3>2
  <2>2. Unfolds(h, t, k + 1)
    <3>1. h = [s \in SUBSET (1..(k + 1)) |-> h[s]]  OBVIOUS
    <3> HIDE DEF h
    <3>2. [s \in SUBSET (1..(k + 1)) |-> h[s]]
            = [s \in SUBSET (1..(k + 1)) |->
                IF s = {} THEN DefaultSource
                ELSE Prefer(h[s \ {Max(s)}], t[Max(s)])]
      BY <2>1
    <3> QED  BY <3>1, <3>2 DEF Unfolds
  <2> HIDE DEF h
  <2> QED  BY <2>2
<1>3. \A k \in S \cap Nat : k + 1 \in S  BY <1>2
<1>4. Nat \subseteq S
  <2> HIDE DEF S
  <2> QED  BY <1>1, <1>3, SetInduction
<1> QED  BY <1>4

\* Winner walks through the table from its first to its last entry.
LEMMA WinnerWalks ==
    ASSUME NEW t \in Seq(EnableDisableSource)
    PROVE  \E w : Walk(w, t) /\ Winner(t) = w[Len(t)]
<1> DEFINE n == Len(t)
           iter == CHOOSE g : g = [s \in SUBSET DOMAIN t |->
                      IF s = {} THEN DefaultSource
                      ELSE Prefer(g[s \ {Max(s)}], t[Max(s)])]
           w == [i \in 0..n |-> iter[1..i]]
<1>1. Winner(t) = iter[DOMAIN t]
  BY DEF Winner, FoldLeft, MapThenFoldSet
<1>2. n \in Nat /\ DOMAIN t = 1..n  OBVIOUS
<1>3. Unfolds(iter, t, n)
  <2>1. \E g : Unfolds(g, t, n)  BY <1>2, FoldExists
  <2>2. \E g : g = [s \in SUBSET DOMAIN t |->
                      IF s = {} THEN DefaultSource
                      ELSE Prefer(g[s \ {Max(s)}], t[Max(s)])]
    BY <2>1, <1>2 DEF Unfolds
  <2>3. iter = [s \in SUBSET DOMAIN t |->
                      IF s = {} THEN DefaultSource
                      ELSE Prefer(iter[s \ {Max(s)}], t[Max(s)])]
    BY <2>2
  <2> HIDE DEF iter
  <2> QED  BY <2>3, <1>2 DEF Unfolds
<1> HIDE DEF iter
<1>4. w[0] = DefaultSource
  <2>1. 1..0 = {}  OBVIOUS
  <2>2. iter[{}] = DefaultSource
    <3>1. {} \in SUBSET (1..n)  OBVIOUS
    <3> QED  BY <1>3, <3>1 DEF Unfolds
  <2> QED  BY <1>2, <2>1, <2>2
<1>5. ASSUME NEW i \in 1..n
      PROVE  w[i] = Prefer(w[i - 1], t[i])
  <2>1. 1..i \in SUBSET (1..n) /\ 1..i # {}  BY <1>2
  <2>2. Max(1..i) = i
    <3>1. 1..i \subseteq Nat /\ i \in 1..i /\ \A y \in 1..i : i >= y  BY <1>2
    <3> QED  BY <3>1, MaxOfPositions
  <2>3. (1..i) \ {i} = 1..(i - 1)  BY <1>2
  <2>4. iter[1..i] = Prefer(iter[(1..i) \ {Max(1..i)}], t[Max(1..i)])
    BY <1>3, <2>1 DEF Unfolds
  <2>5. w[i] = iter[1..i] /\ w[i - 1] = iter[1..(i - 1)]  BY <1>2
  <2> HIDE DEF w
  <2> QED  BY <2>2, <2>3, <2>4, <2>5
<1>6. Walk(w, t)
  <2> HIDE DEF w
  <2> QED  BY <1>4, <1>5 DEF Walk
<1>7. Winner(t) = w[n]  BY <1>1, <1>2
<1> QED  BY <1>6, <1>7

\* The entries among the first i that have an opinion.
Assigned(t, i) == {k \in 1..i : t[k].enable_state # "Unassigned"}

\* What the loop has established after i entries: the winner is the default as
\* long as no entry had an opinion, and then one of the entries of the highest
\* priority, a Disable if there is one.
Decided(w, t, i) ==
    \/ Assigned(t, i) = {} /\ w[i] = DefaultSource
    \/ \E k \in Assigned(t, i) :
          /\ w[i] = t[k]
          /\ \A d \in Assigned(t, i) :
                /\ t[k].enable_priority <= t[d].enable_priority
                /\ t[d].enable_priority = t[k].enable_priority
                     /\ t[d].enable_state = "Disable"
                   => t[k].enable_state = "Disable"

\* An entry's priority is a number.
LEMMA SourceType ==
    ASSUME NEW e \in EnableDisableSource
    PROVE  e.enable_priority \in Nat /\ e.enable_state \in EnableState
<1>1. /\ e.enable_priority \in Priorities \cup {LowestPriority}
      /\ e.enable_state \in EnableState
  BY DEF EnableDisableSource
<1>2. LowestPriority \in Nat  BY DEF LowestPriority
<1> QED  BY <1>1, <1>2, PriorityAssumption

\* The entries' priorities can be compared.
LEMMA EntryType ==
    ASSUME NEW t \in Seq(EnableDisableSource)
    PROVE  \A k \in 1..Len(t) : /\ t[k] \in EnableDisableSource
                               /\ t[k].enable_priority \in Nat
                               /\ t[k].enable_state \in EnableState
<1>1. \A k \in 1..Len(t) : t[k] \in EnableDisableSource  OBVIOUS
<1> QED  BY <1>1, SourceType

\* One iteration keeps what the loop has established.
LEMMA WalkDecides ==
    ASSUME NEW t \in Seq(EnableDisableSource), NEW w, Walk(w, t)
    PROVE  \A i \in 0..Len(t) : Decided(w, t, i)
<1> DEFINE n == Len(t)
           S == {i \in Nat : i <= n => Decided(w, t, i)}
<1>0. n \in Nat  OBVIOUS
<1>1. 0 \in S
  <2>1. Assigned(t, 0) = {}  BY DEF Assigned
  <2>2. w[0] = DefaultSource  BY DEF Walk
  <2> QED  BY <2>1, <2>2 DEF Decided
<1>2. ASSUME NEW i \in Nat, i + 1 <= n, Decided(w, t, i)
      PROVE  Decided(w, t, i + 1)
  <2> DEFINE e == t[i + 1]
  <2>1. i + 1 \in 1..n  BY <1>0, <1>2
  <2>2. w[i + 1] = Prefer(w[i], e)
    <3>1. (i + 1) - 1 = i  OBVIOUS
    <3> QED  BY <2>1, <3>1 DEF Walk
  <2>3. \A k \in 1..(i + 1) : t[k].enable_priority \in Nat
    BY EntryType, <1>0, <1>2
  <2>4. 1..(i + 1) = (1..i) \cup {i + 1}  OBVIOUS
  <2>5. CASE e.enable_state = "Unassigned"
    <3>1. Assigned(t, i + 1) = Assigned(t, i)  BY <2>4, <2>5 DEF Assigned
    <3>2. w[i + 1] = w[i]  BY <2>2, <2>5 DEF Prefer
    <3> QED  BY <3>1, <3>2, <1>2 DEF Decided
  <2>6. CASE e.enable_state # "Unassigned"
    <3>1. Assigned(t, i + 1) = Assigned(t, i) \cup {i + 1}
      BY <2>4, <2>6 DEF Assigned
    <3>2. Assigned(t, i) \subseteq 1..(i + 1)  BY DEF Assigned
    <3>3. CASE Assigned(t, i) = {} /\ w[i] = DefaultSource
      <4>1. w[i + 1] = t[i + 1]  BY <2>2, <2>6, <3>3 DEF Prefer, DefaultSource
      <4>2. Assigned(t, i + 1) = {i + 1}  BY <3>1, <3>3
      <4> QED  BY <4>1, <4>2, <2>3 DEF Decided
    <3>4. ASSUME NEW k \in Assigned(t, i),
                 w[i] = t[k],
                 \A d \in Assigned(t, i) :
                    /\ t[k].enable_priority <= t[d].enable_priority
                    /\ t[d].enable_priority = t[k].enable_priority
                         /\ t[d].enable_state = "Disable"
                       => t[k].enable_state = "Disable"
          PROVE  Decided(w, t, i + 1)
      <4>1. t[k].enable_state # "Unassigned"  BY DEF Assigned
      <4>2. k \in Assigned(t, i + 1) /\ i + 1 \in Assigned(t, i + 1)  BY <3>1
      <4>3. /\ t[k].enable_priority \in Nat
            /\ e.enable_priority \in Nat
            /\ \A d \in Assigned(t, i) : t[d].enable_priority \in Nat
        BY <2>3, <3>2
      <4>4. CASE \/ e.enable_priority < t[k].enable_priority
                 \/ /\ e.enable_priority = t[k].enable_priority
                    /\ e.enable_state = "Disable"
        <5>1. w[i + 1] = t[i + 1]  BY <2>2, <2>6, <3>4, <4>4 DEF Prefer
        <5>2. \A d \in Assigned(t, i + 1) :
                /\ e.enable_priority <= t[d].enable_priority
                /\ t[d].enable_priority = e.enable_priority
                     /\ t[d].enable_state = "Disable"
                   => e.enable_state = "Disable"
          BY <3>1, <3>4, <4>3, <4>4
        <5> QED  BY <4>2, <5>1, <5>2 DEF Decided
      <4>5. CASE ~ \/ e.enable_priority < t[k].enable_priority
                   \/ /\ e.enable_priority = t[k].enable_priority
                      /\ e.enable_state = "Disable"
        <5>1. w[i + 1] = t[k]  BY <2>2, <3>4, <4>1, <4>5 DEF Prefer
        <5>2. \A d \in Assigned(t, i + 1) :
                /\ t[k].enable_priority <= t[d].enable_priority
                /\ t[d].enable_priority = t[k].enable_priority
                     /\ t[d].enable_state = "Disable"
                   => t[k].enable_state = "Disable"
          BY <3>1, <3>4, <4>3, <4>5
        <5> QED  BY <4>2, <5>1, <5>2 DEF Decided
      <4> QED  BY <4>4, <4>5
    <3> QED  BY <1>2, <3>3, <3>4 DEF Decided
  <2> QED  BY <2>5, <2>6
<1>3. \A i \in S \cap Nat : i + 1 \in S  BY <1>0, <1>2
<1>4. Nat \subseteq S
  <2> HIDE DEF S
  <2> QED  BY <1>1, <1>3, SetInduction
<1> QED  BY <1>0, <1>4

\* The entries that decide in a table t: Decisive, of any table.
DecisiveIn(t) ==
    {k \in Assigned(t, Len(t)) :
        \A d \in Assigned(t, Len(t)) :
            t[k].enable_priority <= t[d].enable_priority}

\* parse_enable_disable_source_table follows its rule on every table.
LEMMA WinnerRule ==
    ASSUME NEW t \in Seq(EnableDisableSource)
    PROVE  /\ Winner(t) \in EnableDisableSource
           /\ IsEnabled(Winner(t))
                <=> \A k \in DecisiveIn(t) : t[k].enable_state # "Disable"
<1>1. PICK w : Walk(w, t) /\ Winner(t) = w[Len(t)]  BY WinnerWalks
<1>2. Decided(w, t, Len(t))
  <2>1. Len(t) \in 0..Len(t)  OBVIOUS
  <2> QED  BY <1>1, <2>1, WalkDecides
<1>3. CASE Assigned(t, Len(t)) = {} /\ w[Len(t)] = DefaultSource
  <2>1. DefaultSource \in EnableDisableSource
    BY DEF DefaultSource, EnableDisableSource, EnableState
  <2> QED  BY <1>1, <1>3, <2>1 DEF DecisiveIn, IsEnabled, DefaultSource
<1>4. ASSUME NEW k \in Assigned(t, Len(t)),
             w[Len(t)] = t[k],
             \A d \in Assigned(t, Len(t)) :
                /\ t[k].enable_priority <= t[d].enable_priority
                /\ t[d].enable_priority = t[k].enable_priority
                     /\ t[d].enable_state = "Disable"
                   => t[k].enable_state = "Disable"
      PROVE  /\ Winner(t) \in EnableDisableSource
             /\ IsEnabled(Winner(t))
                  <=> \A d \in DecisiveIn(t) : t[d].enable_state # "Disable"
  <2>1. Assigned(t, Len(t)) \subseteq 1..Len(t)  BY DEF Assigned
  <2>2. \A d \in Assigned(t, Len(t)) : t[d].enable_priority \in Nat
    BY <2>1, EntryType
  <2>3. k \in DecisiveIn(t)  BY <1>4 DEF DecisiveIn
  <2>4. \A d \in DecisiveIn(t) : d \in Assigned(t, Len(t))
                                 /\ t[d].enable_priority = t[k].enable_priority
    BY <1>4, <2>2 DEF DecisiveIn
  <2>5. Winner(t) \in EnableDisableSource  BY <1>1, <1>4, <2>1, EntryType
  <2>6. IsEnabled(Winner(t)) <=> t[k].enable_state # "Disable"
    BY <1>1, <1>4 DEF IsEnabled
  <2>7. (\A d \in DecisiveIn(t) : t[d].enable_state # "Disable")
          <=> t[k].enable_state # "Disable"
    BY <1>4, <2>3, <2>4
  <2> QED  BY <2>5, <2>6, <2>7
<1> QED  BY <1>2, <1>3, <1>4 DEF Decided

\* The rule by entries is the rule by positions.
LEMMA RuleByPosition ==
    ASSUME NEW t \in Seq(EnableDisableSource)
    PROVE  (\A e \in LET assigned == {e \in Range(t) :
                                         e.enable_state # "Unassigned"}
                     IN {e \in assigned : \A d \in assigned :
                            e.enable_priority <= d.enable_priority} :
                e.enable_state # "Disable")
           <=> \A k \in DecisiveIn(t) : t[k].enable_state # "Disable"
<1> DEFINE assigned == {e \in Range(t) : e.enable_state # "Unassigned"}
<1>1. DOMAIN t = 1..Len(t)  OBVIOUS
<1>2. \A e : e \in assigned <=> \E k \in Assigned(t, Len(t)) : e = t[k]
  BY <1>1 DEF Range, Assigned
<1> HIDE DEF assigned
<1>3. \A e : e \in {d \in assigned : \A c \in assigned :
                        d.enable_priority <= c.enable_priority}
             <=> \E k \in DecisiveIn(t) : e = t[k]
  BY <1>2 DEF DecisiveIn
<1>4. (\A e \in {d \in assigned : \A c \in assigned :
                     d.enable_priority <= c.enable_priority} :
          e.enable_state # "Disable")
      <=> \A k \in DecisiveIn(t) : t[k].enable_state # "Disable"
  BY <1>3
<1> QED  BY <1>4 DEF assigned

\* The table stays a table when a request is entered.
LEMMA UpdateType ==
    ASSUME NEW t \in Seq(EnableDisableSource), NEW s \in EnableDisableSource
    PROVE  TableUpdate(t, s) \in Seq(EnableDisableSource)
<1>1. CASE \E i \in DOMAIN t : t[i].enable_source = s.enable_source
  <2> DEFINE u == [i \in 1..Len(t) |->
                      IF t[i].enable_source = s.enable_source
                      THEN s ELSE t[i]]
  <2>1. TableUpdate(t, s) = u  BY <1>1 DEF TableUpdate
  <2>2. \A i \in 1..Len(t) : u[i] \in EnableDisableSource  OBVIOUS
  <2>3. Len(t) \in Nat  OBVIOUS
  <2>4. u \in [1..Len(t) -> EnableDisableSource]  BY <2>2
  <2> HIDE DEF u
  <2>5. u \in Seq(EnableDisableSource)  BY <2>3, <2>4
  <2> QED  BY <2>1, <2>5
<1>2. CASE ~ \E i \in DOMAIN t : t[i].enable_source = s.enable_source
  BY <1>2 DEF TableUpdate
<1> QED  BY <1>1, <1>2

\* The entry of a source: find_if looks for the first one, and there is no other.
OneEntryEach ==
    \A i, j \in DOMAIN table :
        table[i].enable_source = table[j].enable_source => i = j

TableInv == TableTypeOK /\ OneEntryEach

\* At start-up the table is empty and the default source is active.
LEMMA TableInvInit == TableInit => TableInv
<1> SUFFICES ASSUME TableInit PROVE TableInv  OBVIOUS
<1>1. table = <<>> /\ active = DefaultSource /\ published = FALSE
  BY DEF TableInit
<1>2. table \in Seq(EnableDisableSource) /\ DOMAIN table = {}  BY <1>1
<1>3. active \in EnableDisableSource
  BY <1>1 DEF DefaultSource, EnableDisableSource, EnableState
<1> QED  BY <1>1, <1>2, <1>3 DEF TableInv, TableTypeOK, OneEntryEach

\* A source that has an entry replaces it, and a new one gets the last entry.
LEMMA UpdateKeepsEntries ==
    ASSUME TableInv, NEW s \in EnableDisableSource,
           table' = TableUpdate(table, s)
    PROVE  OneEntryEach'
<1>1. table \in Seq(EnableDisableSource) /\ OneEntryEach
  BY DEF TableInv, TableTypeOK
<1>2. CASE \E i \in DOMAIN table : table[i].enable_source = s.enable_source
  <2>1. /\ DOMAIN table' = DOMAIN table
        /\ \A i \in DOMAIN table :
              table'[i].enable_source = table[i].enable_source
    BY <1>2 DEF TableUpdate
  <2> QED  BY <1>1, <2>1 DEF OneEntryEach
<1>3. CASE ~ \E i \in DOMAIN table : table[i].enable_source = s.enable_source
  <2>1. table' = Append(table, s)  BY <1>3 DEF TableUpdate
  <2>2. /\ DOMAIN table = 1..Len(table) /\ Len(table) \in Nat
        /\ DOMAIN table' = 1..(Len(table) + 1)
        /\ \A i \in DOMAIN table : table'[i] = table[i]
        /\ table'[Len(table) + 1] = s
    BY <1>1, <2>1
  <2> SUFFICES ASSUME NEW i \in DOMAIN table', NEW j \in DOMAIN table',
                      table'[i].enable_source = table'[j].enable_source
               PROVE  i = j
    BY DEF OneEntryEach
  <2>3. /\ i \in DOMAIN table \/ i = Len(table) + 1
        /\ j \in DOMAIN table \/ j = Len(table) + 1
    BY <2>2
  <2> QED  BY <1>1, <1>3, <2>2, <2>3 DEF OneEntryEach
<1> QED  BY <1>2, <1>3

\* enable_disable keeps the table's form.
LEMMA RequestKeeps ==
    ASSUME TableInv, NEW s \in Requests, Request(s)
    PROVE  TableInv'
<1>1. s \in EnableDisableSource  BY DEF Requests
<1>2. /\ table \in Seq(EnableDisableSource)
      /\ table' = TableUpdate(table, s)
      /\ active' = Winner(table')
      /\ published' = published /\ published \in BOOLEAN
  BY DEF Request, TableInv, TableTypeOK
<1>3. table' \in Seq(EnableDisableSource)  BY <1>1, <1>2, UpdateType
<1>4. active' \in EnableDisableSource  BY <1>2, <1>3, WinnerRule
<1>5. OneEntryEach'  BY <1>1, <1>2, UpdateKeepsEntries
<1> QED  BY <1>2, <1>3, <1>4, <1>5 DEF TableInv, TableTypeOK

\* enable_disable_initial_state_publish keeps the table's form.
LEMMA PublishKeeps ==
    ASSUME TableInv, NEW disabled \in BOOLEAN, InitialPublish(disabled)
    PROVE  TableInv'
<1> DEFINE own == [DefaultSource EXCEPT !.enable_state =
                    IF disabled THEN "Disable" ELSE "Enable"]
<1>1. active' = own /\ table' = TableUpdate(table, own) /\ published' = TRUE
  BY DEF InitialPublish
<1>2. own \in EnableDisableSource
  BY DEF DefaultSource, EnableDisableSource, EnableState
<1> HIDE DEF own
<1>3. table' \in Seq(EnableDisableSource)
  BY <1>1, <1>2, UpdateType DEF TableInv, TableTypeOK
<1>4. OneEntryEach'  BY <1>1, <1>2, UpdateKeepsEntries
<1> QED  BY <1>1, <1>2, <1>3, <1>4 DEF TableInv, TableTypeOK

\* The inductive invariant of the table.
THEOREM TableInvariant == TableSpec => []TableInv
<1>1. TableInv /\ [TableNext]_tableVars => TableInv'
  <2> SUFFICES ASSUME TableInv, [TableNext]_tableVars PROVE TableInv'  OBVIOUS
  <2>1. CASE \E disabled \in BOOLEAN : InitialPublish(disabled)
    BY <2>1, PublishKeeps
  <2>2. CASE \E s \in Requests : Request(s)  BY <2>2, RequestKeeps
  <2>3. CASE UNCHANGED tableVars
    BY <2>3 DEF tableVars, TableInv, TableTypeOK, OneEntryEach
  <2> QED  BY <2>1, <2>2, <2>3 DEF TableNext
<1> QED  BY TableInvInit, <1>1, PTL DEF TableSpec

\* After every request the fold over the table, in the order in which the
\* sources came, has decided what the rule decides on the set of entries: of
\* the entries with an opinion those of the highest priority, and one Disable
\* among them is enough.  Nothing is assumed of who calls enable_disable, nor
\* of the state the charger is in when it publishes it.
THEOREM RuleDecides == TableSpec => WinnerFollowsRule
<1> DEFINE Rule == \A e \in Decisive : e.enable_state # "Disable"
<1>1. TableInv /\ [TableNext]_tableVars
        => [UNCHANGED published => (IsEnabled(active) <=> Rule)']_tableVars
  <2> SUFFICES ASSUME TableInv, TableNext, published' = published
               PROVE  (IsEnabled(active) <=> Rule)'
    OBVIOUS
  <2>1. PICK s \in Requests : Request(s)
    <3>1. ASSUME NEW disabled \in BOOLEAN, InitialPublish(disabled) PROVE FALSE
      BY <3>1 DEF InitialPublish
    <3> QED  BY <3>1 DEF TableNext
  <2>2. TableInv'  BY <2>1, RequestKeeps
  <2>3. table' \in Seq(EnableDisableSource) /\ active' = Winner(table')
    BY <2>1, <2>2 DEF TableInv, TableTypeOK, Request
  <2>4. IsEnabled(active')
          <=> \A k \in DecisiveIn(table') : table'[k].enable_state # "Disable"
    BY <2>3, WinnerRule
  <2>5. Rule'
          <=> \A k \in DecisiveIn(table') : table'[k].enable_state # "Disable"
    BY <2>3, RuleByPosition DEF Decisive
  <2> QED  BY <2>4, <2>5
<1>2. TableSpec => [][TableNext]_tableVars  BY DEF TableSpec
<1> QED  BY TableInvariant, <1>1, <1>2, PTL DEF WinnerFollowsRule
=============================================================================
