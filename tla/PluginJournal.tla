---------------------------- MODULE PluginJournal ----------------------------
(****************************************************************************)
(* The bounded journal of refusals that every plugin shares                 *)
(* (src-tauri/src/plugin_runtime.rs, PluginJournal).  One action is one     *)
(* push under the lock of the ring.                                         *)
(****************************************************************************)
EXTENDS Naturals, Sequences, FiniteSets, SequencesExt

CONSTANTS
    Plugins,
    Refusals,   \* what a plugin may be refused: correlation, decision and detail
    MaxEntries  \* MAX_JOURNAL_ENTRIES

JournalAssumption == IsFiniteSet(Plugins) /\ MaxEntries \in Nat \ {0}

Entry == [plugin : Plugins, refusal : Refusals]

VARIABLES
    ring,
    recorded    \* for the property only: what was ever pushed

vars == <<ring, recorded>>

Held(entries, plugin) == Cardinality({i \in DOMAIN entries : entries[i].plugin = plugin})

\* Mutant: the oldest entry of all.
EvictOldest(entries) == Tail(entries)

\* evict_one: the oldest entry of the plugin that holds the most.  Between
\* equals the code takes the greater name.
EvictOne(entries) ==
    LET greediest == CHOOSE p \in Plugins :
                        \A q \in Plugins : Held(entries, p) >= Held(entries, q)
        oldest == CHOOSE i \in DOMAIN entries :
                    /\ entries[i].plugin = greediest
                    /\ \A j \in 1..(i - 1) : entries[j].plugin # greediest
    IN  RemoveAt(entries, oldest)

\* An entry that is there already is counted, not repeated.
Push(plugin, refusal) ==
    LET entry == [plugin |-> plugin, refusal |-> refusal]
    IN  /\ recorded' = recorded \cup {entry}
        /\ IF \E i \in DOMAIN ring : ring[i] = entry
           THEN UNCHANGED ring
           ELSE ring' = Append(IF Len(ring) = MaxEntries THEN EvictOne(ring) ELSE ring, entry)

Init == ring = <<>> /\ recorded = {}

Next == \E plugin \in Plugins, refusal \in Refusals : Push(plugin, refusal)

Spec == Init /\ [][Next]_vars
------------------------------------------------------------------------------

TypeOK ==
    /\ ring \in Seq(Entry) /\ Len(ring) <= MaxEntries
    /\ recorded \subseteq Entry

Share == (MaxEntries - 1) \div Cardinality(Plugins)

\* However much its neighbours are refused, a plugin keeps what it recorded, up
\* to its share: "dropping the oldest entry of the largest holder gives each
\* plugin its share".
KeepsItsShare ==
    \A p \in Plugins :
        LET own == {entry \in recorded : entry.plugin = p}
        IN  Held(ring, p) >= IF Cardinality(own) < Share THEN Cardinality(own) ELSE Share
=============================================================================
