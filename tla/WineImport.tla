------------------------------ MODULE WineImport ------------------------------
(****************************************************************************)
(* From the folders of a Wine profile to its inventory                      *)
(* (src-tauri/src/lib.rs, catalog.rs): scans that run in the background,    *)
(* imports of what they listed, Direct games given to a profile by hand,    *)
(* and a pass that gives the rest to a profile Orivo manages, while the     *)
(* user disables and deletes profiles.                                      *)
(*                                                                          *)
(* Commands that do not wait run one at a time on the main thread (`main`); *)
(* imports, associations, scans and the pass run beside it.  They share the *)
(* map of jobs, behind a mutex, and the catalog, which is changed under the *)
(* mutation lease: a command of two critical sections keeps the lease.      *)
(* Stopping a scan takes the mutexes only, so a list may be cancelled or    *)
(* evicted while an import that was let through is writing.                 *)
(****************************************************************************)
EXTENDS Naturals, FiniteSets, Functions

CONSTANTS
    Mine,       \* the profiles the user makes; an id is used once
    Managed,    \* AUTO_WINE_PROFILE_ID
    Games,      \* Windows executables: the path is the game and its Direct game
    Jobs,       \* scans in a run; an id is used once
    MaxJobs,    \* MAX_WINE_SCAN_JOBS
    Commands,   \* imports and associations in flight at once
    MaxStamp,   \* bound: changes of last_imported_at in a run
    None

Profiles == Mine \cup {Managed}
Profile == [enabled : BOOLEAN, folders : SUBSET Games, imported : 0..MaxStamp]
Job == [profile : Profiles, flag : BOOLEAN, found : SUBSET Games,
        phase : {"scanning", "ready", "cancelled", "failed"}]
Halting == [at : {"disabled", "deleted"}, profile : Profiles]

IdsAssumption == Managed \notin Mine /\ None \notin Job \cup Halting
BoundsAssumption == MaxJobs \in Nat \ {0} /\ MaxStamp \in Nat

VARIABLES
    directs,    \* the Direct games in the library
    profile,    \* profile -> enabled, folders (what is in them), last_imported_at
    used,       \* the profiles there ever were
    inventory,  \* <<profile, game>> -> whether it names the Direct game
    stamp,      \* the clock of last_imported_at
    job,        \* the scan of each job: profile, flag, phase, candidates
    live,       \* wine_scan_jobs
    main,       \* the command on the main thread that still has jobs to stop
    command,    \* the imports and associations in flight
    backlog,    \* the candidates the pass has left
    stopped,    \* the jobs that were cancelled or evicted
    void        \* the jobs whose profile was disabled or deleted since

catalog == <<directs, profile, used, inventory, stamp>>
scans == <<job, live>>
over == <<stopped, void>>
vars == <<catalog, scans, main, command, backlog, over>>

Exists(p) == p \in DOMAIN profile
Enabled(p) == Exists(p) /\ profile[p].enabled
With(f, k, v) == [x \in DOMAIN f \cup {k} |-> IF x = k THEN v ELSE f[x]]
At(c, at) == command[c].at = at

\* Mutant: an import gives the lease back before it writes.
LeasedToMain == main # None

\* Who holds the lease over several steps.
Leased == main # None \/ \E c \in Commands : At(c, "write")
Idle == [at |-> "idle"]
Await(c, step) == command' = [command EXCEPT ![c] = step]
JobsOf(p) == {j \in Jobs : job[j] # None /\ job[j].profile = p}

------------------------------------------------------------------------------
(* Profiles *)

\* create_wine_profile
CreateProfile(p) ==
    /\ ~Leased /\ p \in Mine \ used
    /\ profile' = With(profile, p, [enabled |-> TRUE, folders |-> Games, imported |-> 0])
    /\ used' = used \cup {p}
    /\ UNCHANGED <<directs, inventory, stamp, scans, main, command, backlog, over>>

\* set_wine_profile_enabled: the catalog first, and then, still with the lease, the
\* jobs of a profile that was disabled.
Enable(p) ==
    /\ ~Leased /\ Exists(p)
    /\ profile' = [profile EXCEPT ![p].enabled = TRUE]
    /\ UNCHANGED <<directs, used, inventory, stamp, scans, main, command, backlog, over>>

Disable(p) ==
    /\ ~Leased /\ Exists(p)
    /\ profile' = [profile EXCEPT ![p].enabled = FALSE]
    /\ main' = [at |-> "disabled", profile |-> p]
    /\ void' = void \cup JobsOf(p)
    /\ UNCHANGED <<directs, used, inventory, stamp, scans, command, backlog, stopped>>

Halt(j) == [job[j] EXCEPT !.flag = TRUE, !.phase = "cancelled"]

StopDisabled ==
    /\ main # None /\ main.at = "disabled"
    /\ main' = None
    /\ job' = [j \in Jobs |-> IF j \in live \cap JobsOf(main.profile) THEN Halt(j) ELSE job[j]]
    /\ UNCHANGED <<catalog, live, command, backlog, over>>

\* delete_wine_profile, remove_wine_profile: the jobs are told to stop and
\* forgotten, whatever phase they are in.
Delete(p) ==
    /\ ~Leased /\ Exists(p)
    /\ profile' = Restrict(profile, DOMAIN profile \ {p})
    /\ inventory' = Restrict(inventory, {e \in DOMAIN inventory : e[1] # p})
    /\ main' = [at |-> "deleted", profile |-> p]
    /\ void' = void \cup JobsOf(p)
    /\ UNCHANGED <<directs, used, stamp, scans, command, backlog, stopped>>

StopDeleted ==
    /\ main # None /\ main.at = "deleted"
    /\ main' = None
    /\ LET gone == live \cap JobsOf(main.profile)
       IN /\ job' = [j \in Jobs |-> IF j \in gone THEN [job[j] EXCEPT !.flag = TRUE] ELSE job[j]]
          /\ live' = live \ gone
    /\ UNCHANGED <<catalog, command, backlog, over>>

------------------------------------------------------------------------------
(* Scans *)

\* start_wine_profile_scan, without the lease: whichever jobs sort first are evicted
\* to make room.
StartScan(j, p) ==
    /\ main = None /\ job[j] = None /\ Enabled(p)
    /\ \E E \in SUBSET live :
        /\ Cardinality(E) = IF Cardinality(live) >= MaxJobs THEN Cardinality(live) - MaxJobs + 1 ELSE 0
        /\ live' = (live \ E) \cup {j}
        /\ stopped' = stopped \cup E
        /\ job' = [x \in Jobs |->
            CASE x = j -> [profile |-> p, flag |-> FALSE, phase |-> "scanning",
                           found |-> profile[p].folders]
              [] x \in E -> Halt(x)
              [] OTHER -> job[x]]
    /\ UNCHANGED <<catalog, main, command, backlog, void>>

\* The worker: a job whose flag is raised is cancelled, whatever was found.
FinishScan(j) ==
    /\ job[j] # None /\ job[j].phase = "scanning"
    /\ \E phase \in IF job[j].flag THEN {"cancelled"} ELSE {"ready", "failed"} :
        job' = [job EXCEPT ![j].phase = phase]
    /\ UNCHANGED <<catalog, live, main, command, backlog, over>>

\* cancel_wine_scan, without the lease, also of a list that is ready.
CancelScan(j) ==
    /\ main = None /\ j \in live
    /\ job' = [job EXCEPT ![j] = Halt(j)]
    /\ stopped' = stopped \cup {j}
    /\ UNCHANGED <<catalog, live, main, command, backlog, void>>

------------------------------------------------------------------------------
(* What is given to a profile *)

Linked(inv) == {e[2] : e \in {x \in DOMAIN inv : inv[x]}}

\* Mutant: a Direct game may stand for the cards of several profiles.
LinkableAnyway(inv, p, g) == g \in directs

\* can_associate_direct, and the check of associate_direct_game_with_wine_profile.
Linkable(inv, p, g) == g \in directs /\ \A e \in DOMAIN inv : inv[e] /\ e[2] = g => e = <<p, g>>

\* upsert_wine_inventory: an entry keeps the Direct game it names.
Upsert(inv, p, g, linked) ==
    With(inv, <<p, g>>, linked \/ (<<p, g>> \in DOMAIN inv /\ inv[<<p, g>>]))

\* import_wine_games takes a list that is live and ready...
Import(c, j) ==
    /\ At(c, "idle") /\ j \in live /\ job[j].phase = "ready"
    /\ \E picked \in (SUBSET job[j].found) \ {{}} :
        Await(c, [at |-> "profile", job |-> j, picked |-> picked])
    /\ UNCHANGED <<catalog, scans, main, backlog, over>>

\* ...reads the profile...
ReadProfile(c) ==
    /\ At(c, "profile")
    /\ LET p == job[command[c].job].profile
       IN Await(c, IF Enabled(p)
                   THEN [at |-> "revalidate", job |-> command[c].job, picked |-> command[c].picked,
                         snapshot |-> profile[p], directs |-> directs]
                   ELSE Idle)
    /\ UNCHANGED <<catalog, scans, main, backlog, over>>

\* ...and validates each file on a worker, until the job's flag is raised.
Revalidate(c) ==
    /\ At(c, "revalidate")
    /\ \/ Await(c, Idle)
       \/ /\ ~job[command[c].job].flag
          /\ command[c].picked \subseteq command[c].snapshot.folders
          /\ Await(c, [command[c] EXCEPT !.at = "commit"])
    /\ UNCHANGED <<catalog, scans, main, backlog, over>>

SameProfile(p, snapshot) == Exists(p) /\ profile[p] = snapshot

\* Every game of the selection, linked to its Direct game if it is one.
Entries(p, picked, known) ==
    [e \in DOMAIN inventory \cup ({p} \X picked) |->
        IF e[1] = p /\ e[2] \in picked
        THEN Upsert(inventory, p, e[2], e[2] \in known /\ Linkable(inventory, p, e[2]))[e]
        ELSE inventory[e]]

\* Mutant: the profile alone says whether the list is still good.
CheckProfileOnly(c) ==
    /\ At(c, "commit") /\ ~Leased
    /\ Await(c, IF SameProfile(job[command[c].job].profile, command[c].snapshot)
                THEN [command[c] EXCEPT !.at = "write"]
                ELSE Idle)
    /\ UNCHANGED <<catalog, scans, main, backlog, over>>

\* Under the lease, the profile is compared and the job asked once more, behind its
\* mutex...
CheckImport(c) ==
    /\ At(c, "commit") /\ ~Leased
    /\ Await(c, IF /\ SameProfile(job[command[c].job].profile, command[c].snapshot)
                   /\ job[command[c].job].phase = "ready"
                THEN [command[c] EXCEPT !.at = "write"]
                ELSE Idle)
    /\ UNCHANGED <<catalog, scans, main, backlog, over>>

\* ...and what was validated is saved and installed, still with the lease.  Nothing
\* keeps the job from being stopped meanwhile.
CommitImport(c) ==
    /\ At(c, "write")
    /\ Await(c, Idle)
    /\ LET p == job[command[c].job].profile
       IN \/ UNCHANGED catalog     \* not saved
          \/ /\ stamp < MaxStamp
             /\ inventory' = Entries(p, command[c].picked, command[c].directs)
             /\ stamp' = stamp + 1
             /\ profile' = [profile EXCEPT ![p].imported = stamp + 1]
             /\ UNCHANGED <<directs, used>>
    /\ UNCHANGED <<scans, main, backlog, over>>

\* associate_direct_game_with_wine_profile: read and validate...
Associate(c, p, g) ==
    /\ At(c, "idle") /\ g \in directs /\ Enabled(p) /\ g \in profile[p].folders
    /\ Await(c, [at |-> "associate", profile |-> p, game |-> g, snapshot |-> profile[p]])
    /\ UNCHANGED <<catalog, scans, main, backlog, over>>

\* ...and commit, if neither the profile nor the game changed.
CommitAssociation(c) ==
    /\ At(c, "associate") /\ ~Leased
    /\ Await(c, Idle)
    /\ LET p == command[c].profile
           g == command[c].game
       IN \/ UNCHANGED catalog
          \/ /\ SameProfile(p, command[c].snapshot) /\ stamp < MaxStamp
             /\ Linkable(inventory, p, g)
             /\ inventory' = Upsert(inventory, p, g, TRUE)
             /\ stamp' = stamp + 1
             /\ profile' = [profile EXCEPT ![p].imported = stamp + 1]
             /\ UNCHANGED <<directs, used>>
    /\ UNCHANGED <<scans, main, backlog, over>>

------------------------------------------------------------------------------
(* The managed profile: apply_wine_auto_apply_to_candidates *)

Pending == directs \ Linked(inventory)

\* Mutant: a managed profile that the user disabled is used all the same.
UsableAnyway == TRUE

\* One the user disabled is left alone; one that is gone is made again.
Usable == Exists(Managed) => profile[Managed].enabled

\* What validates among the candidates is given; each widens the folders of the
\* profile by the one it is in.
Apply(ds, candidates) ==
    \E given \in SUBSET {g \in candidates \cap ds : g \notin Linked(inventory)} :
        /\ given # {} => Usable /\ stamp < MaxStamp
        /\ IF given = {} THEN UNCHANGED <<inventory, profile, used, stamp>>
           ELSE /\ inventory' = [e \in DOMAIN inventory \cup ({Managed} \X given) |->
                        IF e[1] = Managed /\ e[2] \in given THEN TRUE ELSE inventory[e]]
                /\ profile' = With(profile, Managed,
                        [enabled |-> Exists(Managed) => profile[Managed].enabled,
                         imported |-> stamp + 1,
                         folders |-> given \cup IF Exists(Managed) THEN profile[Managed].folders
                                                ELSE {}])
                /\ used' = used \cup {Managed}
                /\ stamp' = stamp + 1

\* import_game, scan_game_folder, register_installed_game
AddDirect(g) ==
    /\ ~Leased /\ g \notin directs
    /\ directs' = directs \cup {g}
    /\ Apply(directs \cup {g}, (directs \cup {g}) \ Linked(inventory))
    /\ UNCHANGED <<scans, main, command, backlog, over>>

\* remove_game; one that an entry names is refused.
RemoveDirect(g) ==
    /\ ~Leased /\ g \in directs \ Linked(inventory)
    /\ directs' = directs \ {g}
    /\ UNCHANGED <<profile, used, inventory, stamp, scans, main, command, backlog, over>>

\* run_wine_auto_apply: what is pending is listed once...
StartPass ==
    /\ backlog = None
    /\ backlog' = Pending
    /\ UNCHANGED <<catalog, scans, main, command, over>>

\* ...and applied a page at a time, each under the lease.
ApplyPage ==
    /\ backlog # None /\ ~Leased
    /\ \E g \in backlog :
        /\ backlog' = backlog \ {g}
        /\ Apply(directs, {g})
    /\ UNCHANGED <<directs, scans, main, command, over>>

------------------------------------------------------------------------------

Init ==
    /\ directs \in SUBSET Games
    /\ profile = [p \in {} |-> None] /\ used = {}
    /\ inventory = [e \in {} |-> FALSE]
    /\ stamp = 0
    /\ job = [j \in Jobs |-> None] /\ live = {}
    /\ main = None
    /\ command = [c \in Commands |-> Idle]
    /\ backlog = None /\ stopped = {} /\ void = {}

Next ==
    \/ \E p \in Profiles : CreateProfile(p) \/ Enable(p) \/ Disable(p) \/ Delete(p)
    \/ StopDisabled \/ StopDeleted
    \/ \E j \in Jobs : FinishScan(j) \/ CancelScan(j) \/ \E p \in Profiles : StartScan(j, p)
    \/ \E c \in Commands :
        \/ \E j \in Jobs : Import(c, j)
        \/ \E p \in Profiles, g \in Games : Associate(c, p, g)
        \/ ReadProfile(c) \/ Revalidate(c) \/ CheckImport(c) \/ CommitImport(c)
        \/ CommitAssociation(c)
    \/ \E g \in Games : AddDirect(g) \/ RemoveDirect(g)
    \/ StartPass \/ ApplyPage

Spec == Init /\ [][Next]_vars
------------------------------------------------------------------------------
(* Properties *)

TypeOK ==
    /\ directs \subseteq Games
    /\ DOMAIN profile \subseteq used /\ used \subseteq Profiles
    /\ \A p \in DOMAIN profile : profile[p] \in Profile
    /\ \A e \in DOMAIN inventory : e \in Profiles \X Games /\ inventory[e] \in BOOLEAN
    /\ stamp \in 0..MaxStamp
    /\ job \in [Jobs -> {None} \cup Job]
    /\ live \subseteq {j \in Jobs : job[j] # None} /\ Cardinality(live) <= MaxJobs
    /\ main \in {None} \cup Halting
    /\ \A c \in Commands :
        command[c].at \in {"idle", "profile", "revalidate", "commit", "write", "associate"}
    /\ backlog = None \/ backlog \subseteq Games
    /\ stopped \subseteq Jobs /\ void \subseteq Jobs

\* Every entry is of a profile there is and inside its folders, and a Direct game
\* that stands behind a card is there and stands behind one only: whatever two
\* imports, an association, the pass and the user do to one game, "deleting the
\* managed profile restores it".
LinksHold ==
    /\ \A e \in DOMAIN inventory : Exists(e[1]) /\ e[2] \in profile[e[1]].folders
    /\ \A e \in DOMAIN inventory : inventory[e] =>
        e[2] \in directs /\ \A other \in DOMAIN inventory : inventory[other] /\ other[2] = e[2] => other = e

\* An import is let through only while its list has not been cancelled or evicted,
\* nor its profile disabled or deleted since, even if it was enabled or made again:
\* "This Wine import was cancelled. Scan again before importing games."  From there
\* on the profile can be neither disabled nor deleted until the games are in the
\* library; a cancellation or an eviction may still come, too late to keep them out.
LiveListsOnly ==
    \A c \in Commands :
        /\ At(c, "commit") /\ command'[c].at = "write" => command[c].job \notin stopped \cup void
        /\ At(c, "write") /\ stamp' # stamp => command[c].job \notin void

\* And whoever gives a game to a profile, the profile is enabled when it gets it:
\* "Respect an explicit user disable of the managed default profile."
EnabledOnly ==
    \A e \in DOMAIN inventory' \ DOMAIN inventory : profile'[e[1]].enabled
===============================================================================
