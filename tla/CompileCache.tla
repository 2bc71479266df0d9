---------------------------- MODULE CompileCache ----------------------------
(****************************************************************************)
(* Compiled components kept between sessions                                *)
(* (src-tauri/src/plugin_compile_cache.rs): workers load an artifact or     *)
(* compile and store one, and every store brings the directory back under   *)
(* its ceiling, with nothing but the file system between them.              *)
(*                                                                          *)
(* An artifact has size one, and proves by its tag that it was made for its *)
(* slot in this installation, or does not.                                  *)
(****************************************************************************)
EXTENDS Naturals, Sequences, FiniteSets

CONSTANTS
    Workers,      \* workers that prepare a component
    Components,   \* the sources there are
    Engines,      \* engine fingerprints: one per build of the host
    Ceiling       \* max_total_bytes, in artifacts

CeilingAssumption == Engines # {} /\ Ceiling \in Nat

VARIABLES
    engine,     \* the one this process has
    artifacts,  \* the files with a slot's name, oldest first
    leftovers,  \* temporary files whose writer is gone
    prepare,    \* what each worker is doing
    unswept     \* an artifact was stored and no sweep has listed it yet

vars == <<engine, artifacts, leftovers, prepare, unswept>>

Slots == Engines \X Components
Slot(c) == <<engine, c>>
Stored(slot) == {i \in DOMAIN artifacts : artifacts[i].slot = slot}

\* The directory with the files of these places alone, oldest first.
Kept(places) ==
    LET Nth(n) == CHOOSE i \in places : Cardinality({j \in places : j <= i}) = n
    IN  [n \in 1..Cardinality(places) |-> artifacts[Nth(n)]]

Removed(slot) == Kept(DOMAIN artifacts \ Stored(slot))
Own == Kept({i \in DOMAIN artifacts : artifacts[i].slot[1] = engine})

At(w, at) == prepare[w].at = at
Goto(w, step) == prepare' = [prepare EXCEPT ![w] = step]
Idle == [at |-> "idle"]
Leave(w) == Goto(w, Idle)

------------------------------------------------------------------------------
(* component: load, refuse, store *)

\* An artifact that does not prove itself is refused.
Load(w, c) ==
    /\ At(w, "idle")
    /\ IF Stored(Slot(c)) = {}
       THEN Goto(w, [at |-> "store", slot |-> Slot(c)])
       ELSE \E i \in Stored(Slot(c)) :
            IF artifacts[i].proven
            THEN UNCHANGED prepare
            ELSE Goto(w, [at |-> "refuse", slot |-> Slot(c)])
    /\ UNCHANGED <<engine, artifacts, leftovers, unswept>>

\* Removed by name: whatever is there by now.
Refuse(w) ==
    /\ At(w, "refuse")
    /\ artifacts' = Removed(prepare[w].slot)
    /\ Goto(w, [at |-> "store", slot |-> prepare[w].slot])
    /\ UNCHANGED <<engine, leftovers, unswept>>

\* Compiled, written to a file of its own and flushed; then the rename.
Rename(w) ==
    /\ At(w, "store")
    /\ artifacts' = Append(Removed(prepare[w].slot),
                           [slot |-> prepare[w].slot, proven |-> TRUE])
    /\ unswept' = TRUE
    /\ Goto(w, [at |-> "list"])
    /\ UNCHANGED <<engine, leftovers>>

\* Best effort: a component that cannot be kept is compiled again next time.
GiveUp(w) ==
    /\ At(w, "store")
    /\ Leave(w)
    /\ UNCHANGED <<engine, artifacts, leftovers, unswept>>

------------------------------------------------------------------------------
(* enforce_ceiling *)

\* Mutant: what another engine left is neither removed nor counted.
ListOwn(w) ==
    /\ At(w, "list")
    /\ Goto(w, [at |-> "sweep", total |-> Len(Own), oldest |-> [i \in DOMAIN Own |-> Own[i].slot]])
    /\ unswept' = FALSE
    /\ UNCHANGED <<engine, artifacts, leftovers>>

\* The directory is listed: what another engine left is removed, and temporary
\* files past their lifetime.
List(w) ==
    /\ At(w, "list")
    /\ artifacts' = Own
    /\ Goto(w, [at |-> "sweep", total |-> Len(Own), oldest |-> [i \in DOMAIN Own |-> Own[i].slot]])
    /\ leftovers' \in SUBSET leftovers
    /\ unswept' = FALSE
    /\ UNCHANGED engine

\* One file at a time; only a removal that succeeds counts.
Sweep(w) ==
    /\ At(w, "sweep")
    /\ LET sweep == prepare[w] IN
        IF sweep.total <= Ceiling \/ sweep.oldest = <<>>
        THEN Leave(w) /\ UNCHANGED artifacts
        ELSE LET slot == Head(sweep.oldest)
                 gone == IF Stored(slot) = {} THEN 0 ELSE 1
             IN /\ artifacts' = Removed(slot)
                /\ Goto(w, [at |-> "sweep", total |-> sweep.total - gone,
                            oldest |-> Tail(sweep.oldest)])
    /\ UNCHANGED <<engine, leftovers, unswept>>

------------------------------------------------------------------------------
(* The rest of the world *)

\* purge: this module's own files, by name.
Purge ==
    /\ artifacts' = <<>> /\ leftovers' = {}
    /\ UNCHANGED <<engine, prepare, unswept>>

\* A file is damaged, or replaced by another slot's or another installation's.
Damage(i) ==
    /\ artifacts' = [artifacts EXCEPT ![i].proven = FALSE]
    /\ UNCHANGED <<engine, leftovers, prepare, unswept>>

\* The process ends, at any step, and another build may be the next to start.
Restart ==
    /\ engine' \in Engines
    /\ leftovers' = leftovers \cup {w \in Workers : At(w, "store")}
    /\ prepare' = [w \in Workers |-> Idle]
    /\ unswept' = (unswept \/ \E w \in Workers : At(w, "sweep"))
    /\ UNCHANGED artifacts

------------------------------------------------------------------------------

Init ==
    /\ engine = CHOOSE e \in Engines : TRUE
    /\ artifacts = <<>> /\ leftovers = {}
    /\ prepare = [w \in Workers |-> Idle]
    /\ unswept = FALSE

Next ==
    \/ \E w \in Workers :
        \/ \E c \in Components : Load(w, c)
        \/ Refuse(w) \/ Rename(w) \/ GiveUp(w) \/ List(w) \/ Sweep(w)
    \/ Purge \/ Restart
    \/ \E i \in DOMAIN artifacts : Damage(i)

Spec == Init /\ [][Next]_vars
------------------------------------------------------------------------------
(* Properties *)

TypeOK ==
    /\ engine \in Engines
    /\ \A i \in DOMAIN artifacts : artifacts[i] \in [slot : Slots, proven : BOOLEAN]
    /\ \A slot \in Slots : Cardinality(Stored(slot)) <= 1
    /\ leftovers \subseteq Workers
    /\ \A w \in Workers : prepare[w].at \in {"idle", "refuse", "store", "list", "sweep"}
    /\ unswept \in BOOLEAN

\* Once the stores are over, the directory is under its ceiling, however many
\* workers swept it at once, removed each other's files, or stored one under the
\* name another was about to remove; a process that ended in the middle leaves
\* it to the next store.
CeilingHolds ==
    unswept \/ (\E w \in Workers : At(w, "sweep")) \/ Len(artifacts) <= Ceiling
=============================================================================
