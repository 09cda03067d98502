---------------------------- MODULE EnableDisable ----------------------------
(***************************************************************************)
(* The table of enable/disable sources that Charger keeps: every source    *)
(* owns one entry, a new request replaces the entry of its source, and the *)
(* table is folded into the one winning entry (Charger.cpp,                *)
(* parse_enable_disable_source_table, enable_disable_source_table_update). *)
(* Requests can be applied in any order by any number of sources.          *)
(***************************************************************************)
EXTENDS Naturals, Sequences, SequencesExt

CONSTANTS Sources, Priorities

EnableState == {"Unassigned", "Enable", "Disable"}
LowestPriority == 10000

\* types::evse_manager::EnableDisableSource
EnableDisableSource ==
    [enable_source : Sources \cup {"Unspecified"}, enable_state : EnableState,
     enable_priority : Priorities \cup {LowestPriority}]

ASSUME PriorityAssumption == Priorities \subseteq Nat

DefaultSource == [enable_source |-> "Unspecified",
                  enable_state |-> "Unassigned",
                  enable_priority |-> LowestPriority]

\* enable_disable_source_table_update
TableUpdate(table, source) ==
    IF \E i \in DOMAIN table : table[i].enable_source = source.enable_source
    THEN [i \in DOMAIN table |->
            IF table[i].enable_source = source.enable_source
            THEN source ELSE table[i]]
    ELSE Append(table, source)

\* Mutant: a tie goes to the first entry.
PreferFirst(winner, entry) ==
    IF entry.enable_state # "Unassigned"
       /\ (winner.enable_state = "Unassigned"
             \/ entry.enable_priority < winner.enable_priority)
    THEN entry ELSE winner

\* One iteration of the walk through the table.
Prefer(winner, entry) ==
    IF entry.enable_state # "Unassigned"
       /\ \/ winner.enable_state = "Unassigned"
          \/ entry.enable_priority < winner.enable_priority
          \/ /\ entry.enable_priority = winner.enable_priority
             /\ entry.enable_state = "Disable"
    THEN entry ELSE winner

\* parse_enable_disable_source_table: the winner, and the value it returns.
Winner(table) == FoldLeft(Prefer, DefaultSource, table)
IsEnabled(winner) == winner.enable_state # "Disable"
-----------------------------------------------------------------------------
VARIABLES table, active, published

tableVars == <<table, active, published>>

\* enable_disable may be called before the EvseManager is ready to charge.
TableInit ==
    /\ table = <<>>
    /\ active = DefaultSource
    /\ published = FALSE

\* enable_disable_initial_state_publish: the state the charger is in when it
\* becomes ready is entered in the table, and reported as the active source.
\* That state is current_state, which need not be what the table decided: an
\* enable of connector 0 leaves a connector disabled that was disabled by
\* itself.  Only a request can have disabled it before.
InitialPublish(disabled) ==
    /\ ~published
    /\ disabled => table # <<>>
    /\ published' = TRUE
    /\ active' = [DefaultSource EXCEPT !.enable_state =
                    IF disabled THEN "Disable" ELSE "Enable"]
    /\ table' = TableUpdate(table, active')

\* enable_disable: the part that concerns the table.
Request(source) ==
    /\ table' = TableUpdate(table, source)
    /\ active' = Winner(table')
    /\ UNCHANGED published

\* A caller of enable_disable may name itself Unspecified like the EvseManager
\* does for its own entry, and then shares that entry with it.
Requests == {s \in EnableDisableSource : s.enable_source \in Sources}

TableNext ==
    \/ \E disabled \in BOOLEAN : InitialPublish(disabled)
    \/ \E s \in Requests : Request(s)

TableSpec == TableInit /\ [][TableNext]_tableVars
-----------------------------------------------------------------------------
\* The entries are well formed.
TableTypeOK ==
    /\ table \in Seq(EnableDisableSource)
    /\ active \in EnableDisableSource
    /\ published \in BOOLEAN

\* The rule the comment of parse_enable_disable_source_table states, read off
\* the set of entries and so independent of the order in which the sources
\* made their requests: of the entries with an opinion those of the highest
\* priority decide, and one Disable among them is enough.
Decisive ==
    LET assigned == {e \in Range(table) : e.enable_state # "Unassigned"}
    IN {e \in assigned :
            \A d \in assigned : e.enable_priority <= d.enable_priority}

\* After every request the fold over the insertion order has decided what the
\* rule decides, also when the table holds an entry of the initial publication
\* that contradicts the requests before it.  The publication itself reports the
\* charger's state as the active source, whatever the table says.
WinnerFollowsRule ==
    [][UNCHANGED published =>
         (IsEnabled(active) <=> \A e \in Decisive : e.enable_state # "Disable")']_tableVars
=============================================================================
