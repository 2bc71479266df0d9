------------------------------ MODULE WineSetup ------------------------------
(****************************************************************************)
(* Setting up a Wine profile (src-tauri/src/lib.rs): a background worker    *)
(* looks for Wine-Staging while the user may confirm what it found, pick a  *)
(* binary by hand, cancel the search, and create the profile.               *)
(*                                                                          *)
(* The commands run concurrently and share the map of setups behind a       *)
(* mutex they give up while a binary is probed and while a dialog is open.  *)
(* One action is one critical section of that mutex or one atomic access.   *)
(****************************************************************************)
EXTENDS Naturals, FiniteSets

CONSTANTS
    Setups,       \* setup ids
    MaxSetups,    \* MAX_WINE_SETUP_SESSIONS
    Commands,     \* commands in flight at once
    Found,        \* what the detection finds, if anything
    Picks,        \* the binaries a user may pick by hand
    None

BinariesAssumption == Found \notin Picks /\ None \notin Picks \cup {Found}

VARIABLES
    setups,     \* the live setups: chosen, detected, folders
    phase,      \* WineDetectionState of each detection job
    halted,     \* the detection jobs told to stop
    worker,     \* where each detection worker is, and what it is to publish
    command     \* the commands in flight

vars == <<setups, phase, halted, worker, command>>

Ended(c) == command' = [command EXCEPT ![c] = None]
Await(c, step) == command' = [command EXCEPT ![c] = step]
Idle(c) == command[c] = None
At(c, at) == ~Idle(c) /\ command[c].at = at

Live(s) == s \in DOMAIN setups
Put(s, setup) == [x \in DOMAIN setups \cup {s} |-> IF x = s THEN setup ELSE setups[x]]
Without(S) == [x \in DOMAIN setups \ S |-> setups[x]]
New == [chosen |-> None, detected |-> None, folders |-> FALSE]

------------------------------------------------------------------------------
(* begin_wine_profile_setup *)

\* The map is ordered by ids that are digests, so whichever setup sorts first is
\* evicted to make room; its job is told to stop.
Begin(s) ==
    /\ worker[s].at = "none"
    /\ \E E \in SUBSET DOMAIN setups :
        /\ Cardinality(E) = IF Cardinality(DOMAIN setups) >= MaxSetups
                            THEN Cardinality(DOMAIN setups) - MaxSetups + 1 ELSE 0
        /\ setups' = [x \in (DOMAIN setups \ E) \cup {s} |-> IF x = s THEN New ELSE setups[x]]
        /\ halted' = halted \cup E
    /\ worker' = [worker EXCEPT ![s] = [at |-> "detect", found |-> None, phase |-> "detecting"]]
    /\ UNCHANGED <<phase, command>>

\* Mutant: the outcome is published before the candidate is stored.
DetectAtOnce(s) ==
    /\ worker[s].at = "detect"
    /\ \E result \in IF s \in halted THEN {"cancelled"}
                     ELSE {"ready", "unavailable", "failed"} :
        /\ phase' = [phase EXCEPT ![s] = result]
        /\ worker' = [worker EXCEPT ![s] =
            [at |-> IF result = "ready" THEN "offer" ELSE "recheck",
             found |-> IF result = "ready" THEN Found ELSE None, phase |-> result]]
    /\ UNCHANGED <<setups, halted, command>>

\* The search ends and the flag is read once: a cancelled job keeps nothing.
Detect(s) ==
    /\ worker[s].at = "detect"
    /\ \E result \in IF s \in halted THEN {"cancelled"}
                     ELSE {"ready", "unavailable", "failed"} :
        worker' = [worker EXCEPT ![s] =
            [at |-> IF result = "ready" THEN "offer" ELSE "recheck",
             found |-> IF result = "ready" THEN Found ELSE None, phase |-> result]]
    /\ UNCHANGED <<setups, phase, halted, command>>

\* The flag is read once more, before the mutex is taken...
Offer(s) ==
    /\ worker[s].at = "offer"
    /\ worker' = [worker EXCEPT ![s].at = IF s \in halted THEN "recheck" ELSE "store"]
    /\ UNCHANGED <<setups, phase, halted, command>>

\* ...and the candidate is stored whatever happened while it was waited for.
Store(s) ==
    /\ worker[s].at = "store"
    /\ setups' = IF Live(s) THEN [setups EXCEPT ![s].detected = worker[s].found] ELSE setups
    /\ worker' = [worker EXCEPT ![s].at = "recheck"]
    /\ UNCHANGED <<phase, halted, command>>

Recheck(s) ==
    /\ worker[s].at = "recheck"
    /\ worker' = [worker EXCEPT ![s].at = "publish",
                                ![s].phase = IF s \in halted THEN "cancelled" ELSE @]
    /\ UNCHANGED <<setups, phase, halted, command>>

Publish(s) ==
    /\ worker[s].at = "publish"
    /\ phase' = [phase EXCEPT ![s] = worker[s].phase]
    /\ worker' = [worker EXCEPT ![s].at = "done"]
    /\ UNCHANGED <<setups, halted, command>>

------------------------------------------------------------------------------
(* The commands on a setup *)

\* cancel_wine_detection
CancelDetection(s) ==
    /\ Live(s)
    /\ halted' = halted \cup {s}
    /\ phase' = [phase EXCEPT ![s] = "cancelled"]
    /\ UNCHANGED <<setups, worker, command>>

\* confirm_detected_wine_staging: nothing to do for a setup that has a binary.
Confirm(c, s) ==
    /\ Idle(c) /\ Live(s)
    /\ setups[s].chosen = None /\ setups[s].detected # None
    /\ halted' = halted \cup {s}
    /\ Await(c, [at |-> "confirm", setup |-> s, binary |-> setups[s].detected])
    /\ UNCHANGED <<setups, phase, worker>>

\* Mutant: what was confirmed replaces a choice made meanwhile.
ConfirmedOver(c) ==
    /\ At(c, "confirm")
    /\ Ended(c)
    /\ LET s == command[c].setup IN
        \/ UNCHANGED <<setups, phase>>
        \/ /\ Live(s)
           /\ setups' = [setups EXCEPT ![s].chosen = command[c].binary, ![s].detected = None]
           /\ phase' = [phase EXCEPT ![s] = "ready"]
    /\ UNCHANGED <<halted, worker>>

\* The probe passes or fails; a choice made meanwhile stands.
Confirmed(c) ==
    /\ At(c, "confirm")
    /\ Ended(c)
    /\ LET s == command[c].setup IN
        \/ UNCHANGED <<setups, phase>>
        \/ /\ Live(s)
           /\ setups' = IF setups[s].chosen = None
                        THEN [setups EXCEPT ![s].chosen = command[c].binary, ![s].detected = None]
                        ELSE setups
           /\ phase' = [phase EXCEPT ![s] = "ready"]
    /\ UNCHANGED <<halted, worker>>

\* select_wine_staging: discovery is cancelled before the dialog opens...
Select(c, s) ==
    /\ Idle(c) /\ Live(s)
    /\ halted' = halted \cup {s}
    /\ phase' = [phase EXCEPT ![s] = "cancelled"]
    /\ Await(c, [at |-> "select", setup |-> s, binary |-> None])
    /\ UNCHANGED <<setups, worker>>

\* ...and the pick, once probed, is set over whatever is there.
Selected(c) ==
    /\ At(c, "select")
    /\ Ended(c)
    /\ LET s == command[c].setup IN
        \/ UNCHANGED <<setups, phase>>
        \/ /\ Live(s)
           /\ \E binary \in Picks :
                setups' = [setups EXCEPT ![s].chosen = binary, ![s].detected = None]
           /\ phase' = [phase EXCEPT ![s] = "ready"]
    /\ UNCHANGED <<halted, worker>>

\* choose_wine_game_directory, remove_wine_setup_directory
SetFolders(s) ==
    /\ Live(s)
    /\ \E folders \in BOOLEAN : setups' = [setups EXCEPT ![s].folders = folders]
    /\ UNCHANGED <<phase, halted, worker, command>>

\* create_wine_profile: a copy of the setup is probed...
Create(c, s) ==
    /\ Idle(c) /\ Live(s)
    /\ setups[s].chosen # None /\ setups[s].folders
    /\ Await(c, [at |-> "create", setup |-> s, binary |-> setups[s].chosen])
    /\ UNCHANGED <<setups, phase, halted, worker>>

\* ...and becomes a profile; the setup is removed if it is still there.
Created(c) ==
    /\ At(c, "create")
    /\ Ended(c)
    /\ \/ UNCHANGED setups
       \/ setups' = Without({command[c].setup})
    /\ UNCHANGED <<phase, halted, worker>>

------------------------------------------------------------------------------

Init ==
    /\ setups = [s \in {} |-> New]
    /\ phase = [s \in Setups |-> "detecting"]
    /\ halted = {}
    /\ worker = [s \in Setups |-> [at |-> "none", found |-> None, phase |-> "detecting"]]
    /\ command = [c \in Commands |-> None]

Worker(s) == Detect(s) \/ Offer(s) \/ Store(s) \/ Recheck(s) \/ Publish(s)

Next ==
    \/ \E s \in Setups : Begin(s) \/ Worker(s) \/ CancelDetection(s) \/ SetFolders(s)
    \/ \E c \in Commands :
        \/ \E s \in Setups : Confirm(c, s) \/ Select(c, s) \/ Create(c, s)
        \/ Confirmed(c) \/ Selected(c) \/ Created(c)

Spec == Init /\ [][Next]_vars
------------------------------------------------------------------------------
(* Properties *)

Binaries == Picks \cup {Found}
Phases == {"detecting", "ready", "unavailable", "cancelled", "failed"}

TypeOK ==
    /\ DOMAIN setups \subseteq Setups
    /\ \A s \in DOMAIN setups :
        setups[s] \in [chosen : Binaries \cup {None}, detected : {Found, None}, folders : BOOLEAN]
    /\ phase \in [Setups -> Phases]
    /\ halted \subseteq Setups
    /\ worker \in [Setups -> [at : {"none", "detect", "offer", "store", "recheck", "publish", "done"},
                              found : {Found, None}, phase : Phases]]
    /\ command \in [Commands -> {None} \cup
            [at : {"confirm", "select", "create"}, setup : Setups, binary : Binaries \cup {None}]]

\* The panel never shows a search that succeeded with nothing to confirm:
\* "a poll can never observe a completed detection with no confirmation target
\* to act on", whatever was confirmed, picked, cancelled or evicted while the
\* worker was between its critical sections.
ReadyHasTarget ==
    \A s \in DOMAIN setups :
        phase[s] = "ready" => setups[s].detected # None \/ setups[s].chosen # None

\* A binary picked by hand is replaced by another one picked by hand, and by
\* nothing else: "this prevents a late background candidate from overwriting
\* the binary the user explicitly chose".
PickStands ==
    \A s \in DOMAIN setups \cap DOMAIN setups' :
        setups[s].chosen \in Picks => setups'[s].chosen \in Picks
ManualChoiceStands == [][PickStands]_vars
=============================================================================
