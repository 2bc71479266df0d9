------------------------------ MODULE WineProofs ------------------------------
(****************************************************************************)
(* Theorems about the two components of a Wine profile, for any number of   *)
(* profiles, games, jobs and commands at once: of WineImport, that an entry *)
(* stands inside a profile and a Direct game behind one card, that only a   *)
(* list that still stands is let through and that a profile is enabled when *)
(* it is given a game; of WineSetup (S), that a search shown as ready has   *)
(* something to confirm and that a binary picked by hand stands.            *)
(*                                                                          *)
(* An import reads the job, the profile and the catalog in three critical   *)
(* sections, and the last of them asks the job before it writes without     *)
(* keeping it from being stopped in between; the worker of a setup reads    *)
(* the flag of its job before and after the mutex.  The invariants say what *)
(* each of these steps may still believe after the commands that came in    *)
(* between.                                                                 *)
(****************************************************************************)
EXTENDS WineImport, FiniteSetTheorems, TLAPS

CONSTANTS
    Setups,     \* setup ids
    MaxSetups,  \* MAX_WINE_SETUP_SESSIONS
    Found,      \* what the detection finds, if anything
    Picks       \* the binaries a user may pick by hand

VARIABLES
    setups,     \* the live setups
    detection,  \* the state of each detection job
    halted,     \* the detection jobs told to stop
    worker,     \* where each detection worker is
    asked       \* the commands on a setup in flight

S == INSTANCE WineSetup WITH phase <- detection, command <- asked

------------------------------------------------------------------------------
(* Imports *)

\* The jobs that may give nothing any more, unless they were asked already.
Over == stopped \cup void

\* What a command holds at each step.
CommandType ==
    [at : {"idle"}]
        \cup [at : {"profile"}, job : Jobs, picked : SUBSET Games]
        \cup [at : {"revalidate", "commit", "write"}, job : Jobs, picked : SUBSET Games,
              snapshot : Profile, directs : SUBSET Games]
        \cup [at : {"associate"}, profile : Profiles, game : Games, snapshot : Profile]

Listed(c) == command[c].at \in {"profile", "revalidate", "commit", "write"}
Snapped(c) == command[c].at \in {"revalidate", "commit", "write", "associate"}

\* A command took its games from a list that was ready, and from a profile that was
\* enabled and had them in its folders.
CommandsSound ==
    /\ command \in [Commands -> CommandType]
    /\ \A c \in Commands : Listed(c) =>
        job[command[c].job] # None /\ job[command[c].job].phase \in {"ready", "cancelled"}
    /\ \A c \in Commands : Snapped(c) =>
        command[c].snapshot.enabled = TRUE /\ command[c].snapshot.imported <= stamp
    /\ \A c \in Commands : At(c, "commit") \/ At(c, "write") =>
        command[c].picked \subseteq command[c].snapshot.folders
    /\ \A c \in Commands : At(c, "associate") => command[c].game \in command[c].snapshot.folders

\* No profile is ahead of the clock.
ClockAhead == \A p \in DOMAIN profile : profile[p].imported <= stamp

\* The command on the main thread has still to stop this job.
ToStop(j) == main # None /\ main.profile = job[j].profile /\ j \in live

\* A job that left the map was told to stop, and so was one that may give nothing
\* any more, or is about to be.
JobsSound ==
    /\ IsFiniteSet(live)
    /\ \A j \in Jobs : job[j] # None => job[j].profile \in used
    /\ \A j \in Jobs : job[j] # None /\ j \notin live => job[j].flag = TRUE /\ j \in Over
    /\ \A j \in Over : job[j] # None /\ (job[j].flag = TRUE \/ ToStop(j))

\* What a disabling or a deletion does is half done while its command is on the
\* main thread.
MainSound ==
    main # None =>
        /\ JobsOf(main.profile) \subseteq void
        /\ main.at = "deleted" => ~Exists(main.profile)

\* The profile a command compares is not the one it read: it is gone, or made again
\* with a later stamp.
Outdated(c) ==
    LET p == job[command[c].job].profile
    IN ~Exists(p) \/ profile[p].imported > command[c].snapshot.imported

\* A list that may give nothing any more and still reads as ready is of a profile
\* that is about to stop it, or that the import will find changed.
ListsSound ==
    \A c \in Commands : At(c, "commit") /\ command[c].job \in Over
                        /\ job[command[c].job].phase = "ready" =>
        \/ main # None /\ main.at = "disabled" /\ ToStop(command[c].job)
        \/ Outdated(c)

\* An import that was let through has the lease to itself: the profile is the one it
\* compared, and was neither disabled nor deleted since its list was made.
WriteSound ==
    \A c \in Commands : At(c, "write") =>
        /\ main = None
        /\ SameProfile(job[command[c].job].profile, command[c].snapshot)
        /\ command[c].job \notin void
        /\ \A d \in Commands : At(d, "write") => d = c

ImportInv ==
    /\ TypeOK
    /\ LinksHold
    /\ CommandsSound
    /\ ClockAhead
    /\ JobsSound
    /\ MainSound
    /\ ListsSound
    /\ WriteSound

------------------------------------------------------------------------------
(* What every action needs. *)

USE DEF Over, over

LEMMA InitKeeps ==
    ASSUME IdsAssumption, BoundsAssumption, Init
    PROVE  ImportInv
<1>1. Cardinality({}) = 0 /\ IsFiniteSet({})
    BY FS_EmptySet
<1>2. TypeOK
    BY <1>1 DEF Init, TypeOK, BoundsAssumption, Idle
<1>3. LinksHold /\ ClockAhead /\ JobsSound /\ MainSound
    BY <1>1 DEF Init, LinksHold, ClockAhead, JobsSound, MainSound
<1>4. CommandsSound /\ ListsSound /\ WriteSound
    BY DEF Init, CommandsSound, ListsSound, WriteSound, CommandType, Listed, Snapped, At, Idle
<1> QED
    BY <1>2, <1>3, <1>4 DEF ImportInv

\* A step that leaves everything alone.
LEMMA StutterKeeps ==
    ASSUME ImportInv, UNCHANGED vars
    PROVE  ImportInv'
BY DEF ImportInv, vars, catalog, scans, TypeOK, LinksHold, CommandsSound, ClockAhead, JobsSound,
       MainSound, ListsSound, WriteSound, SameProfile, CommandType, Listed, Snapped, At, JobsOf,
       ToStop, Outdated, Exists, Profile, Job, Halting

\* The types of what a command can be about to do.
LEMMA CommandPlaces ==
    ASSUME NEW step \in CommandType
    PROVE  step.at \in {"idle", "profile", "revalidate", "commit", "write", "associate"}
BY DEF CommandType

------------------------------------------------------------------------------
(* A step that changes the catalog, with no command on the main thread before *)
(* it: profiles keep their stamps, get the next one, or are new.              *)
LEMMA CatalogKeeps ==
    ASSUME IdsAssumption, ImportInv, UNCHANGED scans, main = None, main' = None,
           UNCHANGED over,
           used \subseteq used', stamp' \in {stamp, stamp + 1},
           \A c \in Commands : command'[c] \in {command[c], Idle},
           command' \in [Commands -> CommandType], \A c \in Commands : ~At(c, "write")',
           \A p \in DOMAIN profile' :
               \/ p \in DOMAIN profile /\ profile'[p].imported = profile[p].imported
               \/ stamp' = stamp + 1 /\ profile'[p].imported = stamp'
               \/ p \notin used /\ profile'[p].imported = 0
    PROVE  CommandsSound' /\ ClockAhead' /\ JobsSound' /\ MainSound' /\ ListsSound' /\ WriteSound'
<1> USE DEF scans
<1>0. stamp \in Nat /\ stamp' >= stamp /\ DOMAIN profile \subseteq used
    BY DEF ImportInv, TypeOK
<1>1. CommandsSound'
    <2> SUFFICES ASSUME NEW c \in Commands
                 PROVE  /\ Listed(c)' => job[command'[c].job] # None
                                         /\ job[command'[c].job].phase \in {"ready", "cancelled"}
                        /\ Snapped(c)' => command'[c].snapshot.enabled = TRUE
                                          /\ command'[c].snapshot.imported <= stamp'
                        /\ At(c, "commit")' \/ At(c, "write")' =>
                            command'[c].picked \subseteq command'[c].snapshot.folders
                        /\ At(c, "associate")' =>
                            command'[c].game \in command'[c].snapshot.folders
        BY DEF CommandsSound
    <2>1. CASE command'[c] = Idle
        BY <2>1 DEF Listed, Snapped, At, Idle
    <2>2. CASE command'[c] = command[c]
        <3>1. command[c] \in CommandType
            BY DEF ImportInv, CommandsSound
        <3>2. Snapped(c) => command[c].snapshot.imported \in Nat
            BY <3>1 DEF Snapped, CommandType, Profile
        <3> QED
            BY <2>2, <3>2, <1>0 DEF ImportInv, CommandsSound, Listed, Snapped, At
    <2> QED
        BY <2>1, <2>2
<1>2. ClockAhead'
    <2> SUFFICES ASSUME NEW p \in DOMAIN profile'
                 PROVE  profile'[p].imported <= stamp'
        BY DEF ClockAhead
    <2>1. CASE p \in DOMAIN profile /\ profile'[p].imported = profile[p].imported
        <3>1. profile[p].imported \in Nat /\ profile[p].imported <= stamp
            BY <2>1 DEF ImportInv, TypeOK, ClockAhead, Profile
        <3> QED
            BY <2>1, <3>1, <1>0
    <2> QED
        BY <2>1, <1>0
<1>3. JobsSound' /\ MainSound'
    BY DEF ImportInv, JobsSound, MainSound, ToStop
<1>4. ListsSound'
    <2> SUFFICES ASSUME NEW c \in Commands, At(c, "commit")', command'[c].job \in Over,
                        job[command'[c].job].phase = "ready"
                 PROVE  Outdated(c)'
        BY DEF ListsSound
    <2>1. command'[c] = command[c] /\ At(c, "commit")
        BY DEF At, Idle
    <2>2. Outdated(c)
        BY <2>1 DEF ImportInv, ListsSound
    <2> DEFINE p == job[command[c].job].profile
    <2>3. command[c].job \in Jobs /\ command[c].snapshot.imported \in Nat
        BY <2>1 DEF ImportInv, CommandsSound, CommandType, At, Profile
    <2>4. p \in used /\ command[c].snapshot.imported <= stamp
        BY <2>1, <2>3 DEF ImportInv, CommandsSound, JobsSound, At, Listed, Snapped
    <2> QED
        BY <2>1, <2>2, <2>3, <2>4, <1>0 DEF Outdated, Exists
<1>5. WriteSound'
    BY DEF WriteSound
<1> QED
    BY <1>1, <1>2, <1>3, <1>4, <1>5

------------------------------------------------------------------------------
(* The profiles and the main thread *)

\* create_wine_profile
LEMMA CreateKeeps ==
    ASSUME IdsAssumption, BoundsAssumption, ImportInv, NEW p \in Profiles, CreateProfile(p)
    PROVE  ImportInv'
<1> DEFINE made == [enabled |-> TRUE, folders |-> Games, imported |-> 0]
<1>1. made \in Profile
    BY DEF BoundsAssumption, Profile
<1>2. /\ DOMAIN profile' = DOMAIN profile \cup {p}
      /\ \A q \in DOMAIN profile' : profile'[q] = IF q = p THEN made ELSE profile[q]
      /\ p \notin used /\ used' = used \cup {p} /\ main = None
    BY DEF CreateProfile, With, Leased
<1> HIDE DEF made
<1>3. TypeOK'
    BY <1>1, <1>2 DEF ImportInv, TypeOK, CreateProfile, scans
<1>4. LinksHold'
    BY <1>2 DEF ImportInv, TypeOK, LinksHold, CreateProfile, Exists
<1>5. CommandsSound' /\ ClockAhead' /\ JobsSound' /\ MainSound' /\ ListsSound' /\ WriteSound'
    <2>1. \A q \in DOMAIN profile' :
            \/ q \in DOMAIN profile /\ profile'[q].imported = profile[q].imported
            \/ q \notin used /\ profile'[q].imported = 0
        BY <1>2 DEF made
    <2> QED
        BY <2>1, <1>2, CatalogKeeps DEF CreateProfile, Leased, At, scans, ImportInv, CommandsSound
<1> QED
    BY <1>3, <1>4, <1>5 DEF ImportInv

\* set_wine_profile_enabled
LEMMA EnableKeeps ==
    ASSUME IdsAssumption, BoundsAssumption, ImportInv, NEW p \in Profiles, Enable(p)
    PROVE  ImportInv'
<1>1. /\ DOMAIN profile' = DOMAIN profile
      /\ \A q \in DOMAIN profile' :
            /\ profile'[q] \in Profile
            /\ profile'[q].imported = profile[q].imported
            /\ profile'[q].folders = profile[q].folders
    <2> SUFFICES ASSUME NEW q \in DOMAIN profile
                 PROVE  /\ profile'[q] \in Profile
                        /\ profile'[q].imported = profile[q].imported
                        /\ profile'[q].folders = profile[q].folders
        BY DEF Enable
    <2>1. profile[q] \in Profile
        BY DEF ImportInv, TypeOK
    <2>2. profile'[q] = profile[q] \/ profile'[q] = [profile[q] EXCEPT !.enabled = TRUE]
        BY DEF Enable
    <2> QED
        BY <2>1, <2>2 DEF Profile
<1>2. TypeOK'
    BY <1>1 DEF ImportInv, TypeOK, Enable, scans
<1>3. LinksHold'
    BY <1>1 DEF ImportInv, LinksHold, Enable, Exists
<1>4. CommandsSound' /\ ClockAhead' /\ JobsSound' /\ MainSound' /\ ListsSound' /\ WriteSound'
    BY <1>1, CatalogKeeps DEF Enable, Leased, At, scans, ImportInv, CommandsSound
<1> QED
    BY <1>2, <1>3, <1>4 DEF ImportInv

\* The first half of a disabling or a deletion: what may give nothing any more is
\* marked, and the command is on the main thread.
LEMMA MarkKeeps ==
    ASSUME IdsAssumption, ImportInv, NEW p \in Profiles, main = None,
           \/ main' = [at |-> "disabled", profile |-> p]
           \/ main' = [at |-> "deleted", profile |-> p] /\ p \notin DOMAIN profile',
           ~Leased, void' = void \cup JobsOf(p),
           UNCHANGED <<scans, command, used, stamp, stopped>>,
           DOMAIN profile' \subseteq DOMAIN profile,
           \A q \in DOMAIN profile' : profile'[q].imported = profile[q].imported
    PROVE  CommandsSound' /\ ClockAhead' /\ JobsSound' /\ MainSound' /\ ListsSound' /\ WriteSound'
<1> USE DEF scans
<1>0. main' # None /\ main'.profile = p
    BY DEF IdsAssumption, Halting
<1>1. CommandsSound' /\ ClockAhead'
    BY DEF ImportInv, CommandsSound, ClockAhead, Listed, Snapped, At
<1>2. JobsSound'
    <2>1. \A j \in Over' : job[j] # None /\ (job[j].flag = TRUE \/ ToStop(j)')
        BY <1>0 DEF ImportInv, JobsSound, ToStop, JobsOf
    <2> QED
        BY <2>1 DEF ImportInv, JobsSound
<1>3. MainSound'
    BY <1>0 DEF MainSound, JobsOf, Exists
<1>4. ListsSound'
    <2> SUFFICES ASSUME NEW c \in Commands, At(c, "commit"), command[c].job \in Over',
                        job[command[c].job].phase = "ready"
                 PROVE  \/ main'.at = "disabled" /\ ToStop(command[c].job)'
                        \/ Outdated(c)'
        BY <1>0 DEF ListsSound, At
    <2> DEFINE j == command[c].job
    <2>1. CASE j \in Over
        <3>1. Outdated(c)
            BY <2>1 DEF ImportInv, ListsSound
        <3> QED
            BY <3>1 DEF Outdated, Exists
    <2>2. CASE j \notin Over
        <3>1. j \in JobsOf(p) /\ j \in Jobs /\ job[j] # None /\ job[j].profile = p
            BY <2>2 DEF JobsOf
        <3>2. j \in live
            BY <2>2, <3>1 DEF ImportInv, JobsSound
        <3>3. ToStop(j)'
            BY <1>0, <3>1, <3>2 DEF ToStop
        <3> QED
            BY <3>1, <3>3, <1>0 DEF Outdated, Exists
    <2> QED
        BY <2>1, <2>2
<1>5. WriteSound'
    BY DEF WriteSound, Leased, At
<1> QED
    BY <1>1, <1>2, <1>3, <1>4, <1>5

LEMMA DisableKeeps ==
    ASSUME IdsAssumption, BoundsAssumption, ImportInv, NEW p \in Profiles, Disable(p)
    PROVE  ImportInv'
<1>1. /\ DOMAIN profile' = DOMAIN profile
      /\ \A q \in DOMAIN profile' :
            /\ profile'[q] \in Profile
            /\ profile'[q].imported = profile[q].imported
            /\ profile'[q].folders = profile[q].folders
    <2> SUFFICES ASSUME NEW q \in DOMAIN profile
                 PROVE  /\ profile'[q] \in Profile
                        /\ profile'[q].imported = profile[q].imported
                        /\ profile'[q].folders = profile[q].folders
        BY DEF Disable
    <2>1. profile[q] \in Profile
        BY DEF ImportInv, TypeOK
    <2>2. profile'[q] = profile[q] \/ profile'[q] = [profile[q] EXCEPT !.enabled = FALSE]
        BY DEF Disable
    <2> QED
        BY <2>1, <2>2 DEF Profile
<1>2. TypeOK'
    BY <1>1 DEF ImportInv, TypeOK, Disable, scans, JobsOf, Halting
<1>3. LinksHold'
    BY <1>1 DEF ImportInv, LinksHold, Disable, Exists
<1>4. CommandsSound' /\ ClockAhead' /\ JobsSound' /\ MainSound' /\ ListsSound' /\ WriteSound'
    BY <1>1, MarkKeeps DEF Disable, Leased, scans
<1> QED
    BY <1>2, <1>3, <1>4 DEF ImportInv

\* delete_wine_profile
LEMMA DeleteKeeps ==
    ASSUME IdsAssumption, BoundsAssumption, ImportInv, NEW p \in Profiles, Delete(p)
    PROVE  ImportInv'
<1>1. /\ DOMAIN profile' = DOMAIN profile \ {p}
      /\ \A q \in DOMAIN profile' : profile'[q] = profile[q]
    BY DEF Delete, Restrict
<1>2. /\ DOMAIN inventory' = {e \in DOMAIN inventory : e[1] # p}
      /\ \A e \in DOMAIN inventory' : inventory'[e] = inventory[e]
    BY DEF Delete, Restrict
<1>3. TypeOK'
    BY <1>1, <1>2 DEF ImportInv, TypeOK, Delete, scans, JobsOf, Halting
<1>4. LinksHold'
    BY <1>1, <1>2 DEF ImportInv, LinksHold, Delete, Exists
<1>5. CommandsSound' /\ ClockAhead' /\ JobsSound' /\ MainSound' /\ ListsSound' /\ WriteSound'
    BY <1>1, MarkKeeps DEF Delete, Leased, scans
<1> QED
    BY <1>3, <1>4, <1>5 DEF ImportInv

\* What telling a job to stop leaves of it.
LEMMA HaltedJob ==
    ASSUME NEW old \in Job, NEW new, new = [old EXCEPT !.flag = TRUE, !.phase = "cancelled"]
    PROVE  /\ new \in Job /\ new.profile = old.profile
           /\ new.flag = TRUE /\ new.phase = "cancelled"
<1>1. new = [profile |-> old.profile, flag |-> TRUE, found |-> old.found, phase |-> "cancelled"]
    BY DEF Job
<1> QED
    BY <1>1 DEF Job

LEMMA FlaggedJob ==
    ASSUME NEW old \in Job, NEW new, new = [old EXCEPT !.flag = TRUE]
    PROVE  /\ new \in Job /\ new.profile = old.profile
           /\ new.flag = TRUE /\ new.phase = old.phase
<1>1. new = [profile |-> old.profile, flag |-> TRUE, found |-> old.found, phase |-> old.phase]
    BY DEF Job
<1> QED
    BY <1>1 DEF Job

\* The second half: the jobs of a disabled profile are cancelled, those of a deleted
\* one told to stop and forgotten.
LEMMA StopDisabledKeeps ==
    ASSUME IdsAssumption, BoundsAssumption, ImportInv, StopDisabled
    PROVE  ImportInv'
<1> DEFINE gone == live \cap JobsOf(main.profile)
<1>0. main # None /\ main.at = "disabled" /\ main' = None /\ live' = live /\ UNCHANGED over
    BY DEF StopDisabled
<1>1. \A j \in gone : /\ job[j] # None /\ job[j].profile = main.profile
                      /\ job'[j] = [job[j] EXCEPT !.flag = TRUE, !.phase = "cancelled"]
    BY DEF StopDisabled, JobsOf, Halt
<1>2. \A j \in Jobs \ gone : job'[j] = job[j]
    BY DEF StopDisabled
<1>3. \A j \in gone : job[j] \in Job
    BY <1>1 DEF ImportInv, TypeOK, JobsOf
<1>4. \A j \in gone : /\ job'[j] \in Job /\ job'[j] # None /\ job'[j].profile = job[j].profile
                      /\ job'[j].flag = TRUE /\ job'[j].phase = "cancelled"
    <2> SUFFICES ASSUME NEW j \in gone
                 PROVE  /\ job'[j] \in Job /\ job'[j] # None
                        /\ job'[j].profile = job[j].profile
                        /\ job'[j].flag = TRUE /\ job'[j].phase = "cancelled"
        OBVIOUS
    <2>1. job[j] \in Job
        BY <1>3
    <2>2. job'[j] \in Job /\ job'[j].profile = job[j].profile
          /\ job'[j].flag = TRUE /\ job'[j].phase = "cancelled"
        BY <2>1, <1>1, HaltedJob
    <2> QED
        BY <2>2 DEF IdsAssumption
<1>5. \A j \in live : j \in gone \/ job[j].profile # main.profile
    BY DEF JobsOf, ImportInv, TypeOK
<1>6. job' = [j \in Jobs |-> job'[j]] /\ gone \subseteq Jobs
    BY DEF StopDisabled, JobsOf
<1> HIDE DEF gone
<1>7. TypeOK'
    <2>1. job' \in [Jobs -> {None} \cup Job]
        BY <1>2, <1>4, <1>6 DEF ImportInv, TypeOK
    <2>2. \A j \in Jobs : (job'[j] # None) <=> (job[j] # None)
        BY <1>1, <1>2, <1>4
    <2> QED
        BY <2>1, <2>2, <1>0 DEF ImportInv, TypeOK, StopDisabled, catalog
<1>8. LinksHold' /\ ClockAhead'
    BY DEF ImportInv, LinksHold, ClockAhead, StopDisabled, catalog, Exists
<1>9. CommandsSound'
    <2>1. \A j \in Jobs : job[j] # None /\ job[j].phase \in {"ready", "cancelled"}
                          => job'[j] # None /\ job'[j].phase \in {"ready", "cancelled"}
        BY <1>2, <1>4
    <2>2. \A c \in Commands : Listed(c) => command[c].job \in Jobs
        BY DEF ImportInv, CommandsSound, CommandType, Listed
    <2> QED
        BY <2>1, <2>2 DEF ImportInv, CommandsSound, StopDisabled, catalog, Listed, Snapped, At
<1>10. JobsSound'
    <2>1. \A j \in Jobs : job'[j] # None => job'[j].profile \in used
        BY <1>1, <1>2, <1>4 DEF ImportInv, JobsSound
    <2>2. \A j \in Jobs : job'[j] # None /\ j \notin live => job'[j].flag = TRUE /\ j \in Over
        BY <1>1, <1>2, <1>4 DEF ImportInv, JobsSound
    <2>3. \A j \in Over : job'[j] # None /\ job'[j].flag = TRUE
        <3> SUFFICES ASSUME NEW j \in Over PROVE job'[j] # None /\ job'[j].flag = TRUE
            OBVIOUS
        <3>1. j \in Jobs /\ job[j] # None /\ (job[j].flag = TRUE \/ ToStop(j))
            BY DEF ImportInv, JobsSound, TypeOK
        <3>2. CASE j \in gone
            BY <3>2, <1>4
        <3>3. CASE j \notin gone
            BY <3>1, <3>3, <1>2, <1>5 DEF ToStop
        <3> QED
            BY <3>2, <3>3
    <2> QED
        BY <2>1, <2>2, <2>3, <1>0 DEF ImportInv, JobsSound, StopDisabled, catalog
<1>11. MainSound'
    BY <1>0 DEF MainSound
<1>12. ListsSound'
    <2> SUFFICES ASSUME NEW c \in Commands, At(c, "commit"), command[c].job \in Over,
                        job'[command[c].job].phase = "ready"
                 PROVE  Outdated(c)'
        BY <1>0 DEF ListsSound, StopDisabled, At
    <2>1. command[c].job \in Jobs
        BY DEF ImportInv, TypeOK
    <2>2. command[c].job \notin gone
        BY <1>4
    <2>3. job'[command[c].job] = job[command[c].job]
        BY <2>1, <2>2, <1>2
    <2>4. ~ToStop(command[c].job)
        BY <2>2, <1>5 DEF ToStop
    <2>5. Outdated(c)
        BY <2>3, <2>4 DEF ImportInv, ListsSound
    <2> QED
        BY <2>3, <2>5 DEF Outdated, StopDisabled, catalog, Exists
<1>13. WriteSound'
    BY <1>0 DEF ImportInv, WriteSound, StopDisabled, At
<1> QED
    BY <1>7, <1>8, <1>9, <1>10, <1>11, <1>12, <1>13 DEF ImportInv

LEMMA StopDeletedKeeps ==
    ASSUME IdsAssumption, BoundsAssumption, ImportInv, StopDeleted
    PROVE  ImportInv'
<1> DEFINE gone == live \cap JobsOf(main.profile)
<1>0. main # None /\ main.at = "deleted" /\ main' = None /\ live' = live \ gone /\ UNCHANGED over
    BY DEF StopDeleted
<1>1. \A j \in gone : /\ job[j] # None /\ job[j].profile = main.profile
                      /\ job'[j] = [job[j] EXCEPT !.flag = TRUE]
    BY DEF StopDeleted, JobsOf
<1>2. \A j \in Jobs \ gone : job'[j] = job[j]
    BY DEF StopDeleted
<1>3. \A j \in gone : job[j] \in Job
    BY <1>1 DEF ImportInv, TypeOK, JobsOf
<1>4. \A j \in gone : /\ job'[j] \in Job /\ job'[j] # None /\ job'[j].profile = job[j].profile
                      /\ job'[j].flag = TRUE /\ job'[j].phase = job[j].phase
    <2> SUFFICES ASSUME NEW j \in gone
                 PROVE  /\ job'[j] \in Job /\ job'[j] # None
                        /\ job'[j].profile = job[j].profile
                        /\ job'[j].flag = TRUE /\ job'[j].phase = job[j].phase
        OBVIOUS
    <2>1. job[j] \in Job
        BY <1>3
    <2>2. job'[j] \in Job /\ job'[j].profile = job[j].profile
          /\ job'[j].flag = TRUE /\ job'[j].phase = job[j].phase
        BY <2>1, <1>1, FlaggedJob
    <2> QED
        BY <2>2 DEF IdsAssumption
<1>5. \A j \in live : j \in gone \/ job[j].profile # main.profile
    BY DEF JobsOf, ImportInv, TypeOK
<1>6. job' = [j \in Jobs |-> job'[j]] /\ gone \subseteq Jobs /\ gone \subseteq Over
    BY <1>0 DEF StopDeleted, JobsOf, ImportInv, MainSound
<1> HIDE DEF gone
<1>7. TypeOK'
    <2>1. job' \in [Jobs -> {None} \cup Job]
        BY <1>2, <1>4, <1>6 DEF ImportInv, TypeOK
    <2>2. \A j \in Jobs : (job'[j] # None) <=> (job[j] # None)
        BY <1>1, <1>2, <1>4
    <2>3. Cardinality(live') <= Cardinality(live) /\ Cardinality(live) \in Nat
                /\ Cardinality(live') \in Nat
        BY <1>0, FS_Subset, FS_CardinalityType DEF ImportInv, JobsSound
    <2>4. Cardinality(live') <= MaxJobs
        BY <2>3 DEF ImportInv, TypeOK, BoundsAssumption
    <2> QED
        BY <2>1, <2>2, <2>4, <1>0 DEF ImportInv, TypeOK, StopDeleted, catalog
<1>8. LinksHold' /\ ClockAhead'
    BY DEF ImportInv, LinksHold, ClockAhead, StopDeleted, catalog, Exists
<1>9. CommandsSound'
    <2>1. \A j \in Jobs : job[j] # None /\ job[j].phase \in {"ready", "cancelled"}
                          => job'[j] # None /\ job'[j].phase \in {"ready", "cancelled"}
        BY <1>2, <1>4
    <2>2. \A c \in Commands : Listed(c) => command[c].job \in Jobs
        BY DEF ImportInv, CommandsSound, CommandType, Listed
    <2> QED
        BY <2>1, <2>2 DEF ImportInv, CommandsSound, StopDeleted, catalog, Listed, Snapped, At
<1>10. JobsSound'
    <2>1. \A j \in Jobs : job'[j] # None => job'[j].profile \in used
        BY <1>1, <1>2, <1>4 DEF ImportInv, JobsSound
    <2>2. \A j \in Jobs : job'[j] # None /\ j \notin live' => job'[j].flag = TRUE /\ j \in Over
        BY <1>0, <1>1, <1>2, <1>4, <1>6 DEF ImportInv, JobsSound
    <2>3. \A j \in Over : job'[j] # None /\ job'[j].flag = TRUE
        <3> SUFFICES ASSUME NEW j \in Over PROVE job'[j] # None /\ job'[j].flag = TRUE
            OBVIOUS
        <3>1. j \in Jobs /\ job[j] # None /\ (job[j].flag = TRUE \/ ToStop(j))
            BY DEF ImportInv, JobsSound, TypeOK
        <3>2. CASE j \in gone
            BY <3>2, <1>4
        <3>3. CASE j \notin gone
            BY <3>1, <3>3, <1>2, <1>5 DEF ToStop
        <3> QED
            BY <3>2, <3>3
    <2>4. IsFiniteSet(live')
        BY <1>0, FS_Subset DEF ImportInv, JobsSound
    <2> QED
        BY <2>1, <2>2, <2>3, <2>4, <1>0 DEF JobsSound, StopDeleted, catalog
<1>11. MainSound'
    BY <1>0 DEF MainSound
<1>12. ListsSound'
    <2> SUFFICES ASSUME NEW c \in Commands, At(c, "commit"), command[c].job \in Over,
                        job'[command[c].job].phase = "ready"
                 PROVE  Outdated(c)'
        BY <1>0 DEF ListsSound, StopDeleted, At
    <2>1. command[c].job \in Jobs
        BY DEF ImportInv, TypeOK
    <2>3. /\ job'[command[c].job].phase = job[command[c].job].phase
          /\ job'[command[c].job].profile = job[command[c].job].profile
        BY <2>1, <1>2, <1>4
    <2>5. Outdated(c)
        BY <2>3, <1>0 DEF ImportInv, ListsSound
    <2> QED
        BY <2>3, <2>5 DEF Outdated, StopDeleted, catalog, Exists
<1>13. WriteSound'
    BY <1>0 DEF ImportInv, WriteSound, StopDeleted, At
<1> QED
    BY <1>7, <1>8, <1>9, <1>10, <1>11, <1>12, <1>13 DEF ImportInv

------------------------------------------------------------------------------
(* Scans *)

\* A step of the map of jobs with no command on the main thread: what is told to
\* stop may give nothing more, and a job of a command stays ready or is cancelled.
LEMMA JobsKeep ==
    ASSUME IdsAssumption, ImportInv, main = None,
           UNCHANGED <<catalog, main, command, backlog, void>>,
           stopped \subseteq stopped', stopped' \subseteq Jobs, IsFiniteSet(live'),
           live' \subseteq Jobs, Cardinality(live') <= MaxJobs,
           job' \in [Jobs -> {None} \cup Job],
           \A j \in live' : job'[j] # None,
           \A j \in Jobs : job[j] # None => job'[j] # None /\ job'[j].profile = job[j].profile,
           \A j \in Jobs : job'[j] # None => job'[j].profile \in used,
           \A j \in Jobs : job[j] # None /\ job[j].phase \in {"ready", "cancelled"} =>
               job'[j] = job[j] \/ job'[j].phase = "cancelled",
           \A j \in Jobs : job'[j] # None /\ j \notin live' => job'[j].flag = TRUE /\ j \in Over',
           \A j \in Over' : job'[j] # None /\ job'[j].flag = TRUE,
           \A j \in Over' \ Over : job'[j].phase = "cancelled"
    PROVE  ImportInv'
<1> USE DEF catalog
<1>1. TypeOK'
    BY DEF ImportInv, TypeOK
<1>2. LinksHold' /\ ClockAhead'
    BY DEF ImportInv, LinksHold, ClockAhead, Exists
<1>3. CommandsSound'
    <2>1. \A c \in Commands : Listed(c) => command[c].job \in Jobs
        BY DEF ImportInv, CommandsSound, CommandType, Listed
    <2>2. \A c \in Commands : Listed(c) =>
            job'[command[c].job] # None /\ job'[command[c].job].phase \in {"ready", "cancelled"}
        BY <2>1 DEF ImportInv, CommandsSound
    <2> QED
        BY <2>2 DEF ImportInv, CommandsSound, Listed, Snapped, At
<1>4. JobsSound' /\ MainSound'
    BY DEF JobsSound, MainSound
<1>5. ListsSound'
    <2> SUFFICES ASSUME NEW c \in Commands, At(c, "commit"), command[c].job \in Over',
                        job'[command[c].job].phase = "ready"
                 PROVE  Outdated(c)'
        BY DEF ListsSound, At
    <2>1. Listed(c)
        BY DEF At, Listed
    <2>2. command[c].job \in Jobs /\ job[command[c].job] # None
            /\ job[command[c].job].phase \in {"ready", "cancelled"}
        <3>1. command[c] \in CommandType /\ job[command[c].job] # None
                /\ job[command[c].job].phase \in {"ready", "cancelled"}
            BY <2>1 DEF ImportInv, CommandsSound
        <3>2. command[c].job \in Jobs
            BY <2>1, <3>1 DEF CommandType, Listed
        <3> QED
            BY <3>1, <3>2
    <2>3. job'[command[c].job] = job[command[c].job] /\ command[c].job \in Over
        BY <2>2
    <2>4. Outdated(c)
        BY <2>3 DEF ImportInv, ListsSound
    <2> QED
        BY <2>3, <2>4 DEF Outdated, Exists
<1>6. WriteSound'
    <2>1. \A c \in Commands : At(c, "write") => job'[command[c].job].profile
                                              = job[command[c].job].profile
        BY DEF ImportInv, CommandsSound, CommandType, Listed, At
    <2> QED
        BY <2>1 DEF ImportInv, WriteSound, SameProfile, Exists, At
<1> QED
    BY <1>1, <1>2, <1>3, <1>4, <1>5, <1>6 DEF ImportInv

\* While nothing is on the main thread, whatever may give nothing was told to stop.
LEMMA VoidIsFlagged ==
    ASSUME ImportInv, main = None
    PROVE  \A j \in Over : j \in Jobs /\ job[j] # None /\ job[j].flag = TRUE
BY DEF ImportInv, JobsSound, TypeOK, ToStop

\* start_wine_profile_scan
LEMMA StartKeeps ==
    ASSUME IdsAssumption, BoundsAssumption, ImportInv,
           NEW j \in Jobs, NEW p \in Profiles, StartScan(j, p)
    PROVE  ImportInv'
<1>0. /\ main = None /\ main' = None /\ job[j] = None /\ p \in DOMAIN profile
      /\ UNCHANGED <<catalog, main, command, backlog, void>>
    BY DEF StartScan, Enabled, Exists
<1> DEFINE new == [profile |-> p, flag |-> FALSE, phase |-> "scanning",
                   found |-> profile[p].folders]
<1>1. new \in Job /\ new.profile \in used
    BY <1>0 DEF ImportInv, TypeOK, Job, Profile
<1> HIDE DEF new
<1>2. SUFFICES ASSUME NEW E \in SUBSET live,
                      Cardinality(E) = IF Cardinality(live) >= MaxJobs
                                       THEN Cardinality(live) - MaxJobs + 1 ELSE 0,
                      live' = (live \ E) \cup {j}, stopped' = stopped \cup E,
                      job' = [x \in Jobs |->
                          CASE x = j -> new [] x \in E -> Halt(x) [] OTHER -> job[x]]
               PROVE  ImportInv'
    BY DEF StartScan, new
<1>3. j \notin live /\ live \subseteq Jobs /\ \A x \in live : job[x] # None /\ job[x] \in Job
    BY <1>0 DEF ImportInv, TypeOK
<1>4. /\ job'[j] = new /\ \A x \in Jobs \ (E \cup {j}) : job'[x] = job[x]
      /\ \A x \in E : job'[x] = [job[x] EXCEPT !.flag = TRUE, !.phase = "cancelled"]
    BY <1>2, <1>3 DEF Halt
<1>5. ASSUME NEW x \in E
      PROVE  /\ job'[x] \in Job /\ job'[x].profile = job[x].profile
             /\ job'[x].flag = TRUE /\ job'[x].phase = "cancelled"
    <2>1. job[x] \in Job
        BY <1>3
    <2>2. job'[x] = [job[x] EXCEPT !.flag = TRUE, !.phase = "cancelled"]
        BY <1>4
    <2> QED
        BY <2>1, <2>2, HaltedJob
<1>6. None \notin Job
    BY DEF IdsAssumption
<1>7. job' \in [Jobs -> {None} \cup Job]
    <2>1. \A x \in Jobs : job'[x] \in {None} \cup Job
        BY <1>1, <1>4, <1>5 DEF ImportInv, TypeOK
    <2> QED
        BY <2>1, <1>2
<1>8. IsFiniteSet(live') /\ Cardinality(live') <= MaxJobs
    <2>1. IsFiniteSet(live) /\ Cardinality(live) \in Nat /\ MaxJobs \in Nat \ {0}
            /\ Cardinality(live) <= MaxJobs
        BY FS_CardinalityType DEF ImportInv, JobsSound, TypeOK, BoundsAssumption
    <2>2. IsFiniteSet(live \ E) /\ Cardinality(live \ E) = Cardinality(live) - Cardinality(E)
        <3>1. live \cap E = E
            BY <1>2
        <3>2. /\ IsFiniteSet(live \ E)
              /\ Cardinality(live \ E) = Cardinality(live) - Cardinality(live \cap E)
            BY <2>1, FS_Difference
        <3> QED
            BY <3>1, <3>2
    <2>3. IsFiniteSet(live') /\ Cardinality(live') = Cardinality(live \ E) + 1
        BY <2>2, <1>2, <1>3, FS_AddElement
    <2> QED
        BY <2>1, <2>2, <2>3, <1>2
<1>9. \A x \in live' : job'[x] # None
    BY <1>1, <1>2, <1>3, <1>4, <1>5, <1>6
<1>10. \A x \in Jobs : job[x] # None => job'[x] # None /\ job'[x].profile = job[x].profile
    BY <1>0, <1>4, <1>5, <1>6
<1>11. \A x \in Jobs : job'[x] # None => job'[x].profile \in used
    BY <1>0, <1>1, <1>3, <1>4, <1>5 DEF ImportInv, JobsSound
<1>12. \A x \in Jobs : job[x] # None => job'[x] = job[x] \/ job'[x].phase = "cancelled"
    BY <1>0, <1>4, <1>5
<1>13. \A x \in Jobs : job'[x] # None /\ x \notin live' => job'[x].flag = TRUE /\ x \in Over'
    BY <1>0, <1>2, <1>3, <1>4, <1>5 DEF ImportInv, JobsSound
<1>14. \A x \in Over' : x \in Jobs /\ job'[x] # None /\ job'[x].flag = TRUE
    BY <1>0, <1>2, <1>3, <1>4, <1>5, <1>6, VoidIsFlagged
<1>15. \A x \in Over' \ Over : job'[x].phase = "cancelled"
    BY <1>0, <1>2, <1>5
<1>16. stopped \subseteq stopped' /\ stopped' \subseteq Jobs /\ live' \subseteq Jobs
    BY <1>2, <1>3 DEF ImportInv, TypeOK
<1> QED
    BY <1>0, <1>7, <1>8, <1>9, <1>10, <1>11, <1>12, <1>13, <1>14, <1>15, <1>16, JobsKeep

\* cancel_wine_scan
LEMMA CancelKeeps ==
    ASSUME IdsAssumption, BoundsAssumption, ImportInv, NEW j \in Jobs, CancelScan(j)
    PROVE  ImportInv'
<1>0. /\ main = None /\ j \in live /\ job[j] \in Job /\ job[j] # None /\ live' = live
      /\ UNCHANGED <<catalog, main, command, backlog, void>> /\ stopped' = stopped \cup {j}
    BY DEF CancelScan, ImportInv, TypeOK
<1>1. job'[j] = [job[j] EXCEPT !.flag = TRUE, !.phase = "cancelled"]
    BY DEF CancelScan, Halt, ImportInv, TypeOK
<1>2. /\ job'[j] \in Job /\ job'[j].profile = job[j].profile
      /\ job'[j].flag = TRUE /\ job'[j].phase = "cancelled"
    BY <1>0, <1>1, HaltedJob
<1>3. \A x \in Jobs \ {j} : job'[x] = job[x]
    BY DEF CancelScan, ImportInv, TypeOK
<1>4. job'[j] # None
    BY <1>2 DEF IdsAssumption
<1>5. job' \in [Jobs -> {None} \cup Job]
    BY <1>2 DEF CancelScan, ImportInv, TypeOK
<1>6. /\ IsFiniteSet(live) /\ Cardinality(live) <= MaxJobs /\ live \subseteq Jobs
      /\ \A x \in live : job'[x] # None
    BY <1>3, <1>4 DEF ImportInv, TypeOK, JobsSound
<1>7. \A x \in Jobs : job'[x] # None => job'[x].profile \in used
    BY <1>0, <1>2, <1>3 DEF ImportInv, JobsSound
<1>8. \A x \in Jobs : job'[x] # None /\ x \notin live => job'[x].flag = TRUE /\ x \in Over'
    BY <1>0, <1>3 DEF ImportInv, JobsSound
<1>9. \A x \in Over' : x \in Jobs /\ job'[x] # None /\ job'[x].flag = TRUE
    BY <1>0, <1>2, <1>3, <1>4, VoidIsFlagged
<1> QED
    BY <1>0, <1>2, <1>3, <1>4, <1>5, <1>6, <1>7, <1>8, <1>9, JobsKeep

\* The worker of a scan: no command holds a list that is still being made.
LEMMA FinishKeeps ==
    ASSUME IdsAssumption, BoundsAssumption, ImportInv, NEW j \in Jobs, FinishScan(j)
    PROVE  ImportInv'
<1>0. /\ job[j] # None /\ job[j].phase = "scanning" /\ job[j] \in Job
      /\ UNCHANGED <<catalog, live, main, command, backlog, over>>
    BY DEF FinishScan, ImportInv, TypeOK
<1>1. /\ job'[j] \in Job /\ job'[j].profile = job[j].profile /\ job'[j].flag = job[j].flag
      /\ \A x \in Jobs \ {j} : job'[x] = job[x]
      /\ job' \in [Jobs -> {None} \cup Job]
    <2>1. PICK phase \in {"cancelled", "ready", "failed"} : job' = [job EXCEPT ![j].phase = phase]
        BY DEF FinishScan
    <2>2. job \in [Jobs -> {None} \cup Job]
        BY DEF ImportInv, TypeOK
    <2>3. job'[j] = [job[j] EXCEPT !.phase = phase]
        BY <2>1, <2>2
    <2>4. /\ job'[j] \in Job /\ job'[j].profile = job[j].profile /\ job'[j].flag = job[j].flag
        BY <2>3, <1>0 DEF Job
    <2> QED
        BY <2>1, <2>2, <2>4
<1>2. \A x \in Jobs : /\ (job'[x] # None) <=> (job[x] # None)
                      /\ job[x] # None => /\ job'[x].profile = job[x].profile
                                          /\ job'[x].flag = job[x].flag
    BY <1>0, <1>1 DEF IdsAssumption
<1> USE DEF catalog
<1>3. TypeOK'
    BY <1>0, <1>1, <1>2 DEF ImportInv, TypeOK
<1>4. LinksHold' /\ ClockAhead'
    BY <1>0 DEF ImportInv, LinksHold, ClockAhead, Exists
<1>5. \A c \in Commands : Listed(c) =>
        command[c].job \in Jobs /\ job'[command[c].job] = job[command[c].job]
    BY <1>0, <1>1 DEF ImportInv, CommandsSound, CommandType, Listed
<1>6. CommandsSound'
    BY <1>0, <1>5 DEF ImportInv, CommandsSound, Listed, Snapped, At
<1>7. JobsSound'
    <2>1. \A x \in Over : x \in Jobs /\ job'[x] # None /\ (job'[x].flag = TRUE \/ ToStop(x)')
        BY <1>0, <1>2 DEF ImportInv, TypeOK, JobsSound, ToStop
    <2> QED
        BY <2>1, <1>0, <1>2 DEF ImportInv, JobsSound
<1>8. MainSound'
    BY <1>0, <1>2 DEF ImportInv, MainSound, JobsOf, Exists
<1>9. ListsSound'
    <2>1. \A c \in Commands : At(c, "commit") =>
            command[c].job \in Jobs /\ job'[command[c].job] = job[command[c].job]
        BY <1>5 DEF At, Listed
    <2> QED
        BY <2>1, <1>0 DEF ImportInv, ListsSound, ToStop, Outdated, Exists, At
<1>10. WriteSound'
    <2>1. \A c \in Commands : At(c, "write") => job'[command[c].job] = job[command[c].job]
        BY <1>5 DEF At, Listed
    <2> QED
        BY <2>1, <1>0 DEF ImportInv, WriteSound, SameProfile, Exists, At
<1> QED
    BY <1>3, <1>4, <1>6, <1>7, <1>8, <1>9, <1>10 DEF ImportInv

------------------------------------------------------------------------------
(* The steps of a command that change nothing else. *)
LEMMA CommandKeeps ==
    ASSUME ImportInv, NEW c \in Commands, NEW step \in CommandType,
           UNCHANGED <<catalog, scans, main, backlog, over>>,
           command' = [command EXCEPT ![c] = step],
           step.at \in {"profile", "revalidate", "commit", "write"} =>
               job[step.job] # None /\ job[step.job].phase \in {"ready", "cancelled"},
           step.at \in {"revalidate", "commit", "write", "associate"} =>
               step.snapshot.enabled = TRUE /\ step.snapshot.imported <= stamp,
           step.at \in {"commit", "write"} => step.picked \subseteq step.snapshot.folders,
           step.at = "commit" => job[step.job].flag = FALSE,
           step.at = "write" =>
               /\ ~Leased /\ SameProfile(job[step.job].profile, step.snapshot)
               /\ step.job \notin void,
           step.at = "associate" => step.game \in step.snapshot.folders
    PROVE  ImportInv'
<1> USE DEF catalog, scans
<1>0. command \in [Commands -> CommandType]
    BY DEF ImportInv, CommandsSound
<1>1. command'[c] = step /\ \A d \in Commands \ {c} : command'[d] = command[d]
    BY <1>0
<1>2. command' \in [Commands -> CommandType]
    BY <1>0
<1>3. TypeOK'
    <2>1. \A d \in Commands :
            command'[d].at \in {"idle", "profile", "revalidate", "commit", "write", "associate"}
        BY <1>2, CommandPlaces
    <2> QED
        BY <2>1 DEF ImportInv, TypeOK
<1>4. LinksHold' /\ ClockAhead'
    BY DEF ImportInv, LinksHold, ClockAhead, Exists
<1>5. CommandsSound'
    <2>1. \A d \in Commands : Listed(d)' =>
            job[command'[d].job] # None /\ job[command'[d].job].phase \in {"ready", "cancelled"}
        BY <1>1 DEF ImportInv, CommandsSound, Listed
    <2>2. \A d \in Commands : Snapped(d)' =>
            command'[d].snapshot.enabled = TRUE /\ command'[d].snapshot.imported <= stamp
        BY <1>1 DEF ImportInv, CommandsSound, Snapped
    <2>3. \A d \in Commands : At(d, "commit")' \/ At(d, "write")' =>
            command'[d].picked \subseteq command'[d].snapshot.folders
        BY <1>1 DEF ImportInv, CommandsSound, At
    <2>4. \A d \in Commands : At(d, "associate")' =>
            command'[d].game \in command'[d].snapshot.folders
        BY <1>1 DEF ImportInv, CommandsSound, At
    <2> QED
        BY <1>2, <2>1, <2>2, <2>3, <2>4 DEF CommandsSound
<1>6. JobsSound' /\ MainSound'
    BY DEF ImportInv, JobsSound, MainSound, ToStop, JobsOf, Exists
<1>7. ListsSound'
    <2> SUFFICES ASSUME NEW d \in Commands, At(d, "commit")', command'[d].job \in Over,
                        job[command'[d].job].phase = "ready"
                 PROVE  \/ main # None /\ main.at = "disabled" /\ ToStop(command'[d].job)
                        \/ Outdated(d)'
        BY DEF ListsSound, ToStop
    <2>1. CASE d = c
        <3>1. ToStop(command'[d].job)
            BY <1>1, <2>1 DEF At, ImportInv, JobsSound
        <3>2. main.at \in {"disabled", "deleted"}
            BY <3>1 DEF ToStop, ImportInv, TypeOK, Halting
        <3>3. main.at = "deleted" => ~Exists(job[command'[d].job].profile)
            BY <3>1 DEF ToStop, ImportInv, MainSound
        <3> QED
            BY <3>1, <3>2, <3>3 DEF ToStop, Outdated, Exists
    <2>2. CASE d # c
        BY <1>1, <2>2 DEF At, ImportInv, ListsSound, Outdated, Exists
    <2> QED
        BY <2>1, <2>2
<1>8. WriteSound'
    <2> SUFFICES ASSUME NEW d \in Commands, At(d, "write")'
                 PROVE  /\ main = None
                        /\ SameProfile(job[command'[d].job].profile, command'[d].snapshot)
                        /\ command'[d].job \notin void
                        /\ \A x \in Commands : At(x, "write")' => x = d
        BY DEF WriteSound, SameProfile, Exists
    <2>1. CASE d = c
        BY <1>1, <2>1 DEF Leased, At
    <2>2. CASE d # c
        <3>1. At(d, "write") /\ Leased /\ step.at # "write"
            BY <1>1, <2>2 DEF Leased, At
        <3> QED
            BY <1>1, <2>2, <3>1 DEF ImportInv, WriteSound, At
    <2> QED
        BY <2>1, <2>2
<1> QED
    BY <1>3, <1>4, <1>5, <1>6, <1>7, <1>8 DEF ImportInv

\* A list that is let through was neither stopped nor lost its profile: the profile
\* that is compared would be gone or made again, or the job would not be ready.
LEMMA LetThrough ==
    ASSUME ImportInv, NEW c \in Commands, command[c].at = "commit", ~Leased,
           SameProfile(job[command[c].job].profile, command[c].snapshot),
           job[command[c].job].phase = "ready"
    PROVE  command[c].job \notin Over
<1>1. command[c].snapshot.imported \in Nat
    BY DEF ImportInv, CommandsSound, CommandType, Profile
<1>2. ~Outdated(c)
    BY <1>1 DEF Outdated, SameProfile
<1> QED
    BY <1>2 DEF ImportInv, ListsSound, Leased, At

\* Whatever a command does, it may also give up.
LEMMA IdleKeeps ==
    ASSUME ImportInv, NEW c \in Commands, UNCHANGED <<catalog, scans, main, backlog, over>>,
           Await(c, Idle)
    PROVE  ImportInv'
<1>1. Idle \in CommandType
    BY DEF Idle, CommandType
<1>2. Idle.at = "idle"
    BY DEF Idle
<1> QED
    BY <1>1, <1>2, CommandKeeps DEF Await

\* import_wine_games takes a list...
LEMMA ImportKeeps ==
    ASSUME IdsAssumption, ImportInv, NEW c \in Commands, NEW j \in Jobs, Import(c, j)
    PROVE  ImportInv'
<1>1. job[j] \in Job /\ job[j].phase = "ready" /\ job[j] # None
    BY DEF Import, ImportInv, TypeOK
<1>2. SUFFICES ASSUME NEW picked \in SUBSET job[j].found,
                      Await(c, [at |-> "profile", job |-> j, picked |-> picked])
               PROVE  ImportInv'
    BY DEF Import
<1> DEFINE step == [at |-> "profile", job |-> j, picked |-> picked]
<1>3. step \in CommandType
    <2>1. picked \in SUBSET Games
        BY <1>1 DEF Job
    <2> QED
        BY <2>1 DEF CommandType
<1>4. step.at = "profile" /\ step.job = j
    OBVIOUS
<1>5. command' = [command EXCEPT ![c] = step] /\ UNCHANGED <<catalog, scans, main, backlog, over>>
    BY <1>2 DEF Await, Import
<1> HIDE DEF step
<1> QED
    BY <1>1, <1>3, <1>4, <1>5, CommandKeeps

\* ...reads the profile...
LEMMA ReadKeeps ==
    ASSUME IdsAssumption, ImportInv, NEW c \in Commands, ReadProfile(c)
    PROVE  ImportInv'
<1> DEFINE p == job[command[c].job].profile
           step == [at |-> "revalidate", job |-> command[c].job, picked |-> command[c].picked,
                    snapshot |-> profile[p], directs |-> directs]
<1>0. UNCHANGED <<catalog, scans, main, backlog, over>> /\ command[c].at = "profile"
    BY DEF ReadProfile, At
<1>1. CASE ~Enabled(p)
    BY <1>0, <1>1, IdleKeeps DEF ReadProfile
<1>2. CASE Enabled(p)
    <2>1. command[c] \in CommandType
        BY DEF ImportInv, CommandsSound
    <2>2. command[c].job \in Jobs /\ command[c].picked \in SUBSET Games
        BY <2>1, <1>0 DEF CommandType
    <2>3. /\ profile[p] \in Profile /\ profile[p].enabled = TRUE
          /\ profile[p].imported <= stamp /\ directs \in SUBSET Games
        BY <1>2 DEF Enabled, Exists, ImportInv, TypeOK, ClockAhead, Profile
    <2>4. step \in CommandType
        BY <2>2, <2>3 DEF CommandType
    <2>5. /\ step.at = "revalidate" /\ step.job = command[c].job
          /\ step.snapshot = profile[p]
        OBVIOUS
    <2>6. command' = [command EXCEPT ![c] = step]
        BY <1>2 DEF ReadProfile, Await
    <2>7. job[step.job] # None /\ job[step.job].phase \in {"ready", "cancelled"}
        BY <1>0, <2>5 DEF ImportInv, CommandsSound, Listed
    <2> HIDE DEF step
    <2> QED
        BY <1>0, <2>3, <2>4, <2>5, <2>6, <2>7, CommandKeeps
<1> QED
    BY <1>1, <1>2

\* ...and validates the files, until its job is told to stop.
LEMMA RevalidateKeeps ==
    ASSUME IdsAssumption, ImportInv, NEW c \in Commands, Revalidate(c)
    PROVE  ImportInv'
<1>0. UNCHANGED <<catalog, scans, main, backlog, over>> /\ command[c].at = "revalidate"
    BY DEF Revalidate, At
<1>1. CASE Await(c, Idle)
    BY <1>0, <1>1, IdleKeeps
<1>2. CASE /\ ~job[command[c].job].flag
           /\ command[c].picked \subseteq command[c].snapshot.folders
           /\ Await(c, [command[c] EXCEPT !.at = "commit"])
    <2> DEFINE step == [command[c] EXCEPT !.at = "commit"]
    <2>1. command[c] \in CommandType
        BY DEF ImportInv, CommandsSound
    <2>2. command[c] \in [at : {"revalidate", "commit", "write"}, job : Jobs,
                          picked : SUBSET Games, snapshot : Profile, directs : SUBSET Games]
        BY <2>1, <1>0 DEF CommandType
    <2>3. /\ step.at = "commit" /\ step.job = command[c].job /\ step.picked = command[c].picked
          /\ step.snapshot = command[c].snapshot
          /\ step \in [at : {"revalidate", "commit", "write"}, job : Jobs, picked : SUBSET Games,
                       snapshot : Profile, directs : SUBSET Games]
        BY <2>2
    <2>4. step \in CommandType
        BY <2>3 DEF CommandType
    <2>5. command' = [command EXCEPT ![c] = step]
        BY <1>2 DEF Await
    <2>6. /\ job[command[c].job] # None
          /\ job[command[c].job].phase \in {"ready", "cancelled"}
          /\ command[c].snapshot.enabled = TRUE /\ command[c].snapshot.imported <= stamp
        BY <1>0 DEF ImportInv, CommandsSound, Listed, Snapped
    <2>7. job[command[c].job].flag = FALSE
        <3>1. job[command[c].job] \in Job
            BY <2>2, <2>6 DEF ImportInv, TypeOK
        <3>2. job[command[c].job].flag \in BOOLEAN
            BY <3>1 DEF Job
        <3> QED
            BY <3>2, <1>2
    <2> HIDE DEF step
    <2> QED
        BY <1>0, <1>2, <2>3, <2>4, <2>5, <2>6, <2>7, CommandKeeps
<1> QED
    BY <1>1, <1>2 DEF Revalidate

\* ...compares the profile and asks the job once more, and is let through...
LEMMA CheckImportKeeps ==
    ASSUME IdsAssumption, ImportInv, NEW c \in Commands, CheckImport(c)
    PROVE  ImportInv'
<1> DEFINE p == job[command[c].job].profile
<1>0. /\ UNCHANGED <<catalog, scans, main, backlog, over>>
      /\ command[c].at = "commit" /\ ~Leased
    BY DEF CheckImport, At
<1>1. CASE Await(c, Idle)
    BY <1>0, <1>1, IdleKeeps
<1>2. CASE /\ SameProfile(p, command[c].snapshot) /\ job[command[c].job].phase = "ready"
           /\ Await(c, [command[c] EXCEPT !.at = "write"])
    <2> DEFINE step == [command[c] EXCEPT !.at = "write"]
    <2>1. command[c] \in CommandType
        BY DEF ImportInv, CommandsSound
    <2>2. command[c] \in [at : {"revalidate", "commit", "write"}, job : Jobs,
                          picked : SUBSET Games, snapshot : Profile, directs : SUBSET Games]
        BY <2>1, <1>0 DEF CommandType
    <2>3. /\ step.at = "write" /\ step.job = command[c].job /\ step.picked = command[c].picked
          /\ step.snapshot = command[c].snapshot
          /\ step \in [at : {"revalidate", "commit", "write"}, job : Jobs,
                       picked : SUBSET Games, snapshot : Profile, directs : SUBSET Games]
        BY <2>2
    <2>4. step \in CommandType
        BY <2>3 DEF CommandType
    <2>5. command' = [command EXCEPT ![c] = step]
        BY <1>2 DEF Await
    <2>6. /\ job[command[c].job] # None
          /\ job[command[c].job].phase \in {"ready", "cancelled"}
          /\ command[c].snapshot.enabled = TRUE /\ command[c].snapshot.imported <= stamp
          /\ command[c].picked \subseteq command[c].snapshot.folders
        BY <1>0 DEF ImportInv, CommandsSound, Listed, Snapped, At
    <2>7. command[c].job \notin void
        BY <1>0, <1>2, LetThrough
    <2> HIDE DEF step
    <2> QED
        BY <1>0, <1>2, <2>3, <2>4, <2>5, <2>6, <2>7, CommandKeeps
<1> QED
    BY <1>1, <1>2 DEF CheckImport

\* associate_direct_game_with_wine_profile reads and validates.
LEMMA AssociateKeeps ==
    ASSUME IdsAssumption, ImportInv, NEW c \in Commands, NEW p \in Profiles, NEW g \in Games,
           Associate(c, p, g)
    PROVE  ImportInv'
<1> DEFINE step == [at |-> "associate", profile |-> p, game |-> g, snapshot |-> profile[p]]
<1>1. /\ profile[p] \in Profile /\ profile[p].enabled = TRUE
      /\ profile[p].imported <= stamp /\ g \in profile[p].folders
    BY DEF Associate, Enabled, Exists, ImportInv, TypeOK, ClockAhead, Profile
<1>2. step \in CommandType
    BY <1>1 DEF CommandType
<1>3. step.at = "associate" /\ step.snapshot = profile[p] /\ step.game = g
    OBVIOUS
<1>4. command' = [command EXCEPT ![c] = step] /\ UNCHANGED <<catalog, scans, main, backlog, over>>
    BY DEF Associate, Await
<1> HIDE DEF step
<1> QED
    BY <1>1, <1>2, <1>3, <1>4, CommandKeeps

------------------------------------------------------------------------------
(* What is given to a profile. *)

\* One profile is given links, each to a Direct game that no other entry names.
LEMMA LinksKeep ==
    ASSUME ImportInv, NEW p, directs \subseteq directs',
           \A e \in DOMAIN inventory' :
               /\ e \in Profiles \X Games
               /\ e[1] \in DOMAIN profile' /\ e[2] \in profile'[e[1]].folders,
           \A e \in DOMAIN inventory' : inventory'[e] =>
               \/ e \in DOMAIN inventory /\ inventory[e]
               \/ /\ e[1] = p /\ e[2] \in directs'
                  /\ \A other \in DOMAIN inventory :
                        inventory[other] /\ other[2] = e[2] => other = e
    PROVE  LinksHold'
<1>1. ASSUME NEW e \in DOMAIN inventory', inventory'[e]
      PROVE  e[2] \in directs'
    BY <1>1 DEF ImportInv, LinksHold
<1>2. ASSUME NEW e \in DOMAIN inventory', inventory'[e],
             NEW other \in DOMAIN inventory', inventory'[other], other[2] = e[2]
      PROVE  other = e
    <2>1. CASE e \in DOMAIN inventory /\ inventory[e] /\ other \in DOMAIN inventory
               /\ inventory[other]
        BY <1>2, <2>1 DEF ImportInv, LinksHold
    <2>2. CASE e[1] = p /\ other[1] = p
        <3>1. e = <<e[1], e[2]>> /\ other = <<other[1], other[2]>>
            OBVIOUS
        <3> QED
            BY <1>2, <2>2, <3>1
    <2> QED
        BY <1>2, <2>1, <2>2
<1> QED
    BY <1>1, <1>2 DEF LinksHold, Exists

\* A commit of a command: its profile is the one it read, and enabled.
LEMMA CommitKeeps ==
    ASSUME IdsAssumption, BoundsAssumption, ImportInv, NEW c \in Commands, main = None,
           \A d \in Commands : At(d, "write") => d = c,
           Await(c, Idle), UNCHANGED <<directs, used, scans, main, backlog, over>>,
           NEW p \in DOMAIN profile, stamp < MaxStamp, stamp' = stamp + 1,
           profile' = [profile EXCEPT ![p].imported = stamp + 1],
           NEW given \in SUBSET profile[p].folders,
           DOMAIN inventory' = DOMAIN inventory \cup ({p} \X given),
           \A e \in DOMAIN inventory' : inventory'[e] \in BOOLEAN,
           \A e \in DOMAIN inventory' : inventory'[e] =>
               \/ e \in DOMAIN inventory /\ inventory[e]
               \/ e[1] = p /\ Linkable(inventory, p, e[2])
    PROVE  ImportInv'
<1>1. profile[p] \in Profile /\ p \in Profiles /\ given \subseteq Games
    BY DEF ImportInv, TypeOK, Profile
<1>2. /\ DOMAIN profile' = DOMAIN profile
      /\ \A q \in DOMAIN profile \ {p} : profile'[q] = profile[q]
      /\ profile'[p] = [profile[p] EXCEPT !.imported = stamp + 1]
    OBVIOUS
<1>3. stamp + 1 \in 0..MaxStamp
    BY DEF ImportInv, TypeOK, BoundsAssumption
<1>4. /\ profile'[p] \in Profile /\ profile'[p].imported = stamp + 1
      /\ profile'[p].folders = profile[p].folders
    BY <1>1, <1>2, <1>3 DEF Profile
<1>5. command' = [command EXCEPT ![c] = Idle] /\ command \in [Commands -> CommandType]
        /\ Idle \in CommandType
    BY DEF Await, ImportInv, CommandsSound, Idle, CommandType
<1>6. \A e \in DOMAIN inventory' : e \in Profiles \X Games
    BY <1>1 DEF ImportInv, TypeOK
<1>7. TypeOK'
    <2>1. command' \in [Commands -> CommandType]
        BY <1>5
    <2>2. \A d \in Commands :
            command'[d].at \in {"idle", "profile", "revalidate", "commit", "write", "associate"}
        BY <2>1, CommandPlaces
    <2>3. DOMAIN profile' \subseteq used /\ \A q \in DOMAIN profile' : profile'[q] \in Profile
        BY <1>2, <1>4 DEF ImportInv, TypeOK
    <2> QED
        BY <2>2, <2>3, <1>3, <1>6 DEF ImportInv, TypeOK, scans
<1>8. LinksHold'
    <2>1. \A e \in DOMAIN inventory' : e[1] \in DOMAIN profile' /\ e[2] \in profile'[e[1]].folders
        BY <1>2, <1>4 DEF ImportInv, LinksHold, Exists
    <2>2. \A e \in DOMAIN inventory' : inventory'[e] =>
               \/ e \in DOMAIN inventory /\ inventory[e]
               \/ /\ e[1] = p /\ e[2] \in directs'
                  /\ \A other \in DOMAIN inventory :
                        inventory[other] /\ other[2] = e[2] => other = e
        <3> SUFFICES ASSUME NEW e \in DOMAIN inventory', e[1] = p, Linkable(inventory, p, e[2])
                     PROVE  /\ e[2] \in directs'
                            /\ \A other \in DOMAIN inventory :
                                  inventory[other] /\ other[2] = e[2] => other = e
            OBVIOUS
        <3>1. e = <<p, e[2]>>
            BY <1>6
        <3> QED
            BY <3>1 DEF Linkable
    <2> QED
        BY <2>1, <2>2, <1>6, LinksKeep
<1>9. CommandsSound' /\ ClockAhead' /\ JobsSound' /\ MainSound' /\ ListsSound' /\ WriteSound'
    <2>1. \A q \in DOMAIN profile' :
            \/ q \in DOMAIN profile /\ profile'[q].imported = profile[q].imported
            \/ stamp' = stamp + 1 /\ profile'[q].imported = stamp'
        BY <1>2, <1>4
    <2>2. /\ command' \in [Commands -> CommandType]
          /\ \A d \in Commands : command'[d] \in {command[d], Idle} /\ ~At(d, "write")'
        BY <1>5 DEF At, Idle
    <2> QED
        BY <2>1, <2>2, CatalogKeeps
<1> QED
    BY <1>7, <1>8, <1>9 DEF ImportInv

\* import_wine_games commits.
LEMMA CommitImportKeeps ==
    ASSUME IdsAssumption, BoundsAssumption, ImportInv, NEW c \in Commands, CommitImport(c)
    PROVE  ImportInv'
<1> DEFINE p == job[command[c].job].profile
           given == command[c].picked
           known == command[c].directs
<1>0. /\ command[c].at = "write" /\ main = None /\ Await(c, Idle)
      /\ SameProfile(p, command[c].snapshot) /\ \A d \in Commands : At(d, "write") => d = c
      /\ UNCHANGED <<scans, main, backlog, over>>
    BY DEF CommitImport, At, ImportInv, WriteSound
<1>1. CASE UNCHANGED catalog
    BY <1>0, <1>1, IdleKeeps
<1>2. CASE /\ stamp < MaxStamp
           /\ inventory' = Entries(p, given, known)
           /\ stamp' = stamp + 1
           /\ profile' = [profile EXCEPT ![p].imported = stamp + 1]
           /\ UNCHANGED <<directs, used>>
    <2>1. p \in DOMAIN profile /\ given \in SUBSET profile[p].folders
        BY <1>0 DEF SameProfile, Exists, ImportInv, CommandsSound, At
    <2>2. DOMAIN inventory' = DOMAIN inventory \cup ({p} \X given)
        BY <1>2 DEF Entries
    <2>3. \A e \in DOMAIN inventory' \ ({p} \X given) : inventory'[e] = inventory[e]
        <3> SUFFICES ASSUME NEW e \in DOMAIN inventory, e \notin {p} \X given
                     PROVE  inventory'[e] = inventory[e]
            BY <2>2
        <3>1. e = <<e[1], e[2]>>
            BY DEF ImportInv, TypeOK
        <3>2. ~(e[1] = p /\ e[2] \in given)
            BY <3>1
        <3> QED
            BY <1>2, <3>2 DEF Entries
    <2>4. \A g \in given : inventory'[<<p, g>>] =
            (\/ g \in known /\ Linkable(inventory, p, g)
             \/ <<p, g>> \in DOMAIN inventory /\ inventory[<<p, g>>])
        <3> SUFFICES ASSUME NEW g \in given
                     PROVE  inventory'[<<p, g>>] =
                                (\/ g \in known /\ Linkable(inventory, p, g)
                                 \/ <<p, g>> \in DOMAIN inventory /\ inventory[<<p, g>>])
            OBVIOUS
        <3>1. inventory'[<<p, g>>] =
                Upsert(inventory, p, g, g \in known /\ Linkable(inventory, p, g))[<<p, g>>]
            BY <1>2 DEF Entries
        <3> QED
            BY <3>1 DEF Upsert, With
    <2>5. \A e \in {p} \X given : e = <<p, e[2]>> /\ e[2] \in given
        OBVIOUS
    <2>6. \A e \in DOMAIN inventory' : inventory'[e] \in BOOLEAN
        <3>1. \A e \in {p} \X given : inventory'[e] \in BOOLEAN
            BY <2>4, <2>5
        <3> QED
            BY <2>2, <2>3, <3>1 DEF ImportInv, TypeOK
    <2>7. \A e \in DOMAIN inventory' : inventory'[e] =>
               \/ e \in DOMAIN inventory /\ inventory[e]
               \/ e[1] = p /\ Linkable(inventory, p, e[2])
        <3>1. \A e \in {p} \X given : inventory'[e] =>
               \/ e \in DOMAIN inventory /\ inventory[e]
               \/ e[1] = p /\ Linkable(inventory, p, e[2])
            BY <2>4, <2>5
        <3> QED
            BY <2>2, <2>3, <3>1
    <2> HIDE DEF p, given, known
    <2> QED
        BY <1>0, <1>2, <2>1, <2>2, <2>6, <2>7, CommitKeeps
<1> QED
    BY <1>1, <1>2 DEF CommitImport

\* associate_direct_game_with_wine_profile commits.
LEMMA CommitAssociationKeeps ==
    ASSUME IdsAssumption, BoundsAssumption, ImportInv, NEW c \in Commands, CommitAssociation(c)
    PROVE  ImportInv'
<1> DEFINE p == command[c].profile
           g == command[c].game
<1>0. /\ command[c].at = "associate" /\ main = None /\ Await(c, Idle)
      /\ \A d \in Commands : At(d, "write") => d = c
      /\ UNCHANGED <<scans, main, backlog, over>>
    BY DEF CommitAssociation, At, Leased
<1>1. CASE UNCHANGED catalog
    BY <1>0, <1>1, IdleKeeps
<1>2. CASE /\ SameProfile(p, command[c].snapshot) /\ stamp < MaxStamp
           /\ Linkable(inventory, p, g)
           /\ inventory' = Upsert(inventory, p, g, TRUE)
           /\ stamp' = stamp + 1
           /\ profile' = [profile EXCEPT ![p].imported = stamp + 1]
           /\ UNCHANGED <<directs, used>>
    <2>1. p \in DOMAIN profile /\ {g} \in SUBSET profile[p].folders
        BY <1>0, <1>2 DEF SameProfile, Exists, ImportInv, CommandsSound, At
    <2>2. DOMAIN inventory' = DOMAIN inventory \cup ({p} \X {g})
        BY <1>2 DEF Upsert, With
    <2>3. /\ inventory'[<<p, g>>] = TRUE
          /\ \A e \in DOMAIN inventory : e # <<p, g>> => inventory'[e] = inventory[e]
        BY <1>2 DEF Upsert, With
    <2>4. \A e \in DOMAIN inventory' : e = <<p, g>> \/ e \in DOMAIN inventory
        BY <2>2
    <2>5. \A e \in DOMAIN inventory' : inventory'[e] \in BOOLEAN
        BY <2>3, <2>4 DEF ImportInv, TypeOK
    <2>6. \A e \in DOMAIN inventory' : inventory'[e] =>
               \/ e \in DOMAIN inventory /\ inventory[e]
               \/ e[1] = p /\ Linkable(inventory, p, e[2])
        <3> SUFFICES ASSUME NEW e \in DOMAIN inventory', inventory'[e]
                     PROVE  \/ e \in DOMAIN inventory /\ inventory[e]
                            \/ e[1] = p /\ Linkable(inventory, p, e[2])
            OBVIOUS
        <3>1. CASE e = <<p, g>>
            <4>1. e[1] = p /\ e[2] = g
                BY <3>1
            <4> QED
                BY <4>1, <1>2
        <3>2. CASE e # <<p, g>>
            BY <3>2, <2>3, <2>4
        <3> QED
            BY <3>1, <3>2
    <2> HIDE DEF p, g
    <2> QED
        BY <1>0, <1>2, <2>1, <2>2, <2>5, <2>6, CommitKeeps
<1> QED
    BY <1>1, <1>2 DEF CommitAssociation

------------------------------------------------------------------------------
(* The Direct games and the managed profile. *)

\* apply_wine_auto_apply_to_candidates: the managed profile is given games that no
\* entry names, each with the folder it is in.
LEMMA ApplyKeeps ==
    ASSUME IdsAssumption, BoundsAssumption, ImportInv, ~Leased, NEW candidates,
           directs \subseteq directs', directs' \subseteq Games, Apply(directs', candidates),
           UNCHANGED <<scans, main, command, over>>,
           backlog' = None \/ backlog' \subseteq Games
    PROVE  ImportInv'
<1>0. main = None /\ \A c \in Commands : command'[c] \in {command[c], Idle} /\ ~At(c, "write")'
    BY DEF Leased, At
<1>1. command' \in [Commands -> CommandType]
        /\ \A c \in Commands :
            command'[c].at \in {"idle", "profile", "revalidate", "commit", "write", "associate"}
    BY DEF ImportInv, CommandsSound, TypeOK
<1>2. SUFFICES ASSUME NEW given \in
                        SUBSET {g \in candidates \cap directs' : g \notin Linked(inventory)},
                      given # {} => Usable /\ stamp < MaxStamp,
                      IF given = {} THEN UNCHANGED <<inventory, profile, used, stamp>>
                      ELSE /\ inventory' = [e \in DOMAIN inventory \cup ({Managed} \X given) |->
                                IF e[1] = Managed /\ e[2] \in given THEN TRUE ELSE inventory[e]]
                           /\ profile' = With(profile, Managed,
                                [enabled |-> Exists(Managed) => profile[Managed].enabled,
                                 imported |-> stamp + 1,
                                 folders |-> given \cup IF Exists(Managed)
                                                        THEN profile[Managed].folders ELSE {}])
                           /\ used' = used \cup {Managed}
                           /\ stamp' = stamp + 1
               PROVE  ImportInv'
    BY DEF Apply
<1>3. CASE given = {}
    <2>1. TypeOK'
        BY <1>2, <1>3 DEF ImportInv, TypeOK, scans
    <2>2. LinksHold'
        BY <1>2, <1>3 DEF ImportInv, LinksHold, Exists
    <2>3. CommandsSound' /\ ClockAhead' /\ JobsSound' /\ MainSound' /\ ListsSound' /\ WriteSound'
        BY <1>0, <1>1, <1>2, <1>3, CatalogKeeps
    <2> QED
        BY <2>1, <2>2, <2>3 DEF ImportInv
<1>4. CASE given # {}
    <2> DEFINE folders == given \cup IF Exists(Managed) THEN profile[Managed].folders ELSE {}
               enabled == Exists(Managed) => profile[Managed].enabled
               made == [enabled |-> enabled, imported |-> stamp + 1, folders |-> folders]
    <2>1. /\ inventory' = [e \in DOMAIN inventory \cup ({Managed} \X given) |->
                IF e[1] = Managed /\ e[2] \in given THEN TRUE ELSE inventory[e]]
          /\ profile' = With(profile, Managed, made)
          /\ used' = used \cup {Managed} /\ stamp' = stamp + 1 /\ stamp < MaxStamp
        BY <1>2, <1>4
    <2>2. given \subseteq Games /\ given \subseteq directs' /\ Managed \in Profiles
            /\ \A g \in given : g \notin Linked(inventory)
        BY DEF Profiles
    <2>3. made \in Profile /\ made.imported = stamp + 1 /\ made.folders = folders
        <3>1. folders \in SUBSET Games
            BY <2>2 DEF ImportInv, TypeOK, Exists, Profile
        <3>2. stamp + 1 \in 0..MaxStamp
            BY <2>1 DEF ImportInv, TypeOK, BoundsAssumption
        <3>3. enabled \in BOOLEAN
            OBVIOUS
        <3> HIDE DEF folders, enabled
        <3> QED
            BY <3>1, <3>2, <3>3 DEF Profile
    <2>4. /\ given \subseteq folders
          /\ Managed \in DOMAIN profile => profile[Managed].folders \subseteq folders
        BY DEF Exists
    <2> HIDE DEF made, folders, enabled
    <2>5. /\ DOMAIN profile' = DOMAIN profile \cup {Managed} /\ profile'[Managed] = made
          /\ \A q \in DOMAIN profile \ {Managed} : profile'[q] = profile[q]
        BY <2>1 DEF With
    <2>6. DOMAIN inventory' = DOMAIN inventory \cup ({Managed} \X given)
        BY <2>1
    <2>7. \A e \in DOMAIN inventory' : e \in Profiles \X Games /\ inventory'[e] \in BOOLEAN
        <3> SUFFICES ASSUME NEW e \in DOMAIN inventory'
                     PROVE  e \in Profiles \X Games /\ inventory'[e] \in BOOLEAN
            OBVIOUS
        <3>1. inventory'[e] = IF e[1] = Managed /\ e[2] \in given THEN TRUE ELSE inventory[e]
            BY <2>1
        <3>2. CASE e \in DOMAIN inventory
            BY <3>1, <3>2 DEF ImportInv, TypeOK
        <3>3. CASE e \in {Managed} \X given
            BY <3>1, <3>3, <2>2
        <3> QED
            BY <3>2, <3>3, <2>6
    <2>8. TypeOK'
        <3>1. DOMAIN profile' \subseteq used' /\ used' \subseteq Profiles
                /\ \A q \in DOMAIN profile' : profile'[q] \in Profile
            BY <2>1, <2>2, <2>3, <2>5 DEF ImportInv, TypeOK
        <3>2. stamp' \in 0..MaxStamp
            BY <2>1 DEF ImportInv, TypeOK, BoundsAssumption
        <3> QED
            BY <3>1, <3>2, <2>7, <1>1 DEF ImportInv, TypeOK, scans
    <2>9. LinksHold'
        <3>1. \A e \in DOMAIN inventory' :
                e[1] \in DOMAIN profile' /\ e[2] \in profile'[e[1]].folders
            <4> SUFFICES ASSUME NEW e \in DOMAIN inventory'
                         PROVE  e[1] \in DOMAIN profile' /\ e[2] \in profile'[e[1]].folders
                OBVIOUS
            <4>1. CASE e \in DOMAIN inventory
                <5>1. e[1] \in DOMAIN profile /\ e[2] \in profile[e[1]].folders
                    BY <4>1 DEF ImportInv, LinksHold, Exists
                <5>2. CASE e[1] = Managed
                    <6>1. e[2] \in folders /\ e[1] \in DOMAIN profile'
                        BY <5>1, <5>2, <2>4, <2>5
                    <6>2. profile'[e[1]].folders = folders
                        BY <5>2, <2>3, <2>5
                    <6> QED
                        BY <6>1, <6>2
                <5>3. CASE e[1] # Managed
                    <6>1. e[1] \in DOMAIN profile' /\ profile'[e[1]] = profile[e[1]]
                        BY <5>1, <5>3, <2>5
                    <6> QED
                        BY <5>1, <6>1
                <5> QED
                    BY <5>2, <5>3
            <4>2. CASE e \in {Managed} \X given
                <5>1. e[1] = Managed /\ e[2] \in folders
                    BY <4>2, <2>4
                <5>2. profile'[Managed].folders = folders /\ Managed \in DOMAIN profile'
                    BY <2>3, <2>5
                <5> QED
                    BY <5>1, <5>2
            <4> QED
                BY <4>1, <4>2, <2>6
        <3>2. \A e \in DOMAIN inventory' : inventory'[e] =>
               \/ e \in DOMAIN inventory /\ inventory[e]
               \/ /\ e[1] = Managed /\ e[2] \in directs'
                  /\ \A other \in DOMAIN inventory :
                        inventory[other] /\ other[2] = e[2] => other = e
            <4> SUFFICES ASSUME NEW e \in DOMAIN inventory', inventory'[e]
                         PROVE  \/ e \in DOMAIN inventory /\ inventory[e]
                                \/ /\ e[1] = Managed /\ e[2] \in directs'
                                   /\ \A other \in DOMAIN inventory :
                                        inventory[other] /\ other[2] = e[2] => other = e
                OBVIOUS
            <4>1. CASE e[1] = Managed /\ e[2] \in given
                <5>1. ASSUME NEW other \in DOMAIN inventory, inventory[other], other[2] = e[2]
                      PROVE  FALSE
                    BY <4>1, <5>1, <2>2 DEF Linked
                <5> QED
                    BY <4>1, <5>1, <2>2
            <4>2. CASE ~(e[1] = Managed /\ e[2] \in given)
                BY <4>2, <2>1, <2>6
            <4> QED
                BY <4>1, <4>2
        <3> QED
            BY <3>1, <3>2, <2>7, LinksKeep
    <2>10. CommandsSound' /\ ClockAhead' /\ JobsSound' /\ MainSound' /\ ListsSound' /\ WriteSound'
        <3>1. \A q \in DOMAIN profile' :
            \/ q \in DOMAIN profile /\ profile'[q].imported = profile[q].imported
            \/ stamp' = stamp + 1 /\ profile'[q].imported = stamp'
            BY <2>1, <2>3, <2>5
        <3> QED
            BY <3>1, <2>1, <1>0, <1>1, CatalogKeeps
    <2> QED
        BY <2>8, <2>9, <2>10 DEF ImportInv
<1> QED
    BY <1>3, <1>4

\* import_game, scan_game_folder, register_installed_game
LEMMA AddKeeps ==
    ASSUME IdsAssumption, BoundsAssumption, ImportInv, NEW g \in Games, AddDirect(g)
    PROVE  ImportInv'
<1>1. /\ directs' = directs \cup {g} /\ ~Leased
      /\ Apply(directs', (directs \cup {g}) \ Linked(inventory))
      /\ UNCHANGED <<scans, main, command, backlog, over>>
    BY DEF AddDirect
<1>2. directs \subseteq directs' /\ directs' \subseteq Games
        /\ (backlog' = None \/ backlog' \subseteq Games)
    BY <1>1 DEF ImportInv, TypeOK
<1> QED
    BY <1>1, <1>2, ApplyKeeps

\* run_wine_auto_apply, a page
LEMMA PageKeeps ==
    ASSUME IdsAssumption, BoundsAssumption, ImportInv, ApplyPage
    PROVE  ImportInv'
<1>1. PICK g \in backlog : backlog' = backlog \ {g} /\ Apply(directs, {g})
    BY DEF ApplyPage
<1>2. ~Leased /\ backlog # None /\ UNCHANGED <<directs, scans, main, command, over>>
    BY DEF ApplyPage
<1>3. directs \subseteq directs' /\ directs' \subseteq Games
        /\ (backlog' = None \/ backlog' \subseteq Games)
    BY <1>1, <1>2 DEF ImportInv, TypeOK
<1>4. Apply(directs', {g})
    BY <1>1, <1>2 DEF Apply
<1> QED
    BY <1>2, <1>3, <1>4, ApplyKeeps

\* run_wine_auto_apply, its list
LEMMA PassKeeps ==
    ASSUME ImportInv, StartPass
    PROVE  ImportInv'
<1> USE DEF StartPass, catalog, scans
<1>1. TypeOK'
    BY DEF ImportInv, TypeOK, Pending
<1> QED
    BY <1>1 DEF ImportInv, LinksHold, CommandsSound, ClockAhead, JobsSound, MainSound,
           ListsSound, WriteSound, SameProfile, Exists, Listed, Snapped, At, ToStop, JobsOf,
           Outdated

\* remove_game
LEMMA RemoveKeeps ==
    ASSUME IdsAssumption, BoundsAssumption, ImportInv, NEW g \in Games, RemoveDirect(g)
    PROVE  ImportInv'
<1> USE DEF RemoveDirect, scans
<1>1. TypeOK'
    BY DEF ImportInv, TypeOK
<1>2. LinksHold'
    BY DEF ImportInv, LinksHold, Exists, Linked
<1> QED
    BY <1>1, <1>2 DEF ImportInv, CommandsSound, ClockAhead, JobsSound, MainSound, ListsSound,
                WriteSound, SameProfile, Exists, Listed, Snapped, At, ToStop, JobsOf, Outdated

------------------------------------------------------------------------------
(* The theorems *)

LEMMA NextKeeps ==
    ASSUME IdsAssumption, BoundsAssumption, ImportInv, [Next]_vars
    PROVE  ImportInv'
<1>1. CASE UNCHANGED vars
    BY <1>1, StutterKeeps
<1>2. CASE Next
    BY <1>2, CreateKeeps, EnableKeeps, DisableKeeps, DeleteKeeps, StopDisabledKeeps,
       StopDeletedKeeps, FinishKeeps, CancelKeeps, StartKeeps, ImportKeeps, AssociateKeeps,
       ReadKeeps, RevalidateKeeps, CheckImportKeeps, CommitImportKeeps, CommitAssociationKeeps,
       AddKeeps, RemoveKeeps, PassKeeps, PageKeeps
    DEF Next
<1> QED
    BY <1>1, <1>2

\* The invariant of the imports of Wine.
THEOREM ImportInvariant ==
    ASSUME IdsAssumption, BoundsAssumption
    PROVE  Spec => []ImportInv
BY InitKeeps, NextKeeps, PTL DEF Spec

\* Type correctness.
THEOREM ImportTypes ==
    ASSUME IdsAssumption, BoundsAssumption
    PROVE  Spec => []TypeOK
<1>1. ImportInv => TypeOK
    BY DEF ImportInv
<1> QED
    BY <1>1, ImportInvariant, PTL

\* Every entry is inside the folders of a profile there is, and a Direct game stands
\* behind one card at most, whatever imports, associations and the pass do to it.
THEOREM LinksAreSingle ==
    ASSUME IdsAssumption, BoundsAssumption
    PROVE  Spec => []LinksHold
<1>1. ImportInv => LinksHold
    BY DEF ImportInv
<1> QED
    BY <1>1, ImportInvariant, PTL

\* Only the check puts a command where it writes.
LEMMA WriteFollowsCheck ==
    ASSUME ImportInv, Next, NEW c \in Commands, command[c].at # "write",
           command'[c].at = "write"
    PROVE  CheckImport(c)
<1>1. command \in [Commands -> CommandType]
    BY DEF ImportInv, CommandsSound
<1>2. command' # command
    OBVIOUS
<1>3. ASSUME NEW d \in Commands, NEW step, Await(d, step), step.at # "write"
      PROVE  FALSE
    BY <1>1, <1>3 DEF Await
<1>4. ASSUME NEW d \in Commands, d # c, NEW step, Await(d, step)
      PROVE  FALSE
    BY <1>1, <1>4 DEF Await
<1>5. ASSUME NEW d \in Commands, NEW j \in Jobs, Import(d, j)
      PROVE  FALSE
    BY <1>3, <1>5 DEF Import
<1>6. ASSUME NEW d \in Commands, NEW p \in Profiles, NEW g \in Games, Associate(d, p, g)
      PROVE  FALSE
    BY <1>3, <1>6 DEF Associate
<1>7. ASSUME NEW d \in Commands, ReadProfile(d)
      PROVE  FALSE
    BY <1>3, <1>7 DEF ReadProfile, Idle
<1>8. ASSUME NEW d \in Commands, Revalidate(d)
      PROVE  FALSE
    <2>1. command[d].at = "revalidate" /\ Idle.at = "idle"
        BY <1>8 DEF Revalidate, At, Idle
    <2>2. [command[d] EXCEPT !.at = "commit"].at = "commit"
        BY <1>1, <2>1 DEF CommandType
    <2> QED
        BY <1>3, <1>8, <2>1, <2>2 DEF Revalidate
<1>9. ASSUME NEW d \in Commands, CommitImport(d) \/ CommitAssociation(d)
      PROVE  FALSE
    BY <1>3, <1>9 DEF CommitImport, CommitAssociation, Idle
<1>10. ASSUME NEW d \in Commands, CheckImport(d)
       PROVE  d = c
    BY <1>4, <1>10 DEF CheckImport
<1> QED
    BY <1>2, <1>5, <1>6, <1>7, <1>8, <1>9, <1>10
    DEF Next, CreateProfile, Enable, Disable, Delete, StopDisabled, StopDeleted, FinishScan,
        CancelScan, StartScan, AddDirect, RemoveDirect, StartPass, ApplyPage

\* An import is let through only while its list has not been cancelled or evicted, nor
\* its profile disabled or deleted, even if it was made again; and from there on the
\* profile is neither disabled nor deleted until the games are in the library.
THEOREM ListsAreLive ==
    ASSUME IdsAssumption, BoundsAssumption
    PROVE  Spec => [][LiveListsOnly]_vars
<1>1. ASSUME ImportInv, Next, NEW c \in Commands, At(c, "commit"), command'[c].at = "write"
      PROVE  command[c].job \notin stopped \cup void
    <2>1. CheckImport(c)
        BY <1>1, WriteFollowsCheck DEF At
    <2>2. /\ SameProfile(job[command[c].job].profile, command[c].snapshot)
          /\ job[command[c].job].phase = "ready" /\ ~Leased
        BY <1>1, <2>1 DEF CheckImport, Await, Idle, ImportInv, CommandsSound
    <2> QED
        BY <1>1, <2>2, LetThrough DEF At
<1>2. ASSUME ImportInv, NEW c \in Commands, At(c, "write")
      PROVE  command[c].job \notin void
    BY <1>2 DEF ImportInv, WriteSound
<1>3. ImportInv /\ [Next]_vars => [LiveListsOnly]_vars
    BY <1>1, <1>2 DEF LiveListsOnly
<1> QED
    BY <1>3, ImportInvariant, PTL DEF Spec

\* Whoever gives a game to a profile, the profile is enabled when it gets it.
THEOREM GivenWhenEnabled ==
    ASSUME IdsAssumption, BoundsAssumption
    PROVE  Spec => [][EnabledOnly]_vars
<1>1. ImportInv /\ [Next]_vars => [EnabledOnly]_vars
    <2> SUFFICES ASSUME ImportInv, Next, NEW e \in DOMAIN inventory' \ DOMAIN inventory
                 PROVE  profile'[e[1]].enabled
        BY DEF EnabledOnly
    <2>1. ASSUME NEW c \in Commands, CommitImport(c)
          PROVE  profile'[e[1]].enabled
        <3> DEFINE p == job[command[c].job].profile
        <3>1. /\ SameProfile(p, command[c].snapshot)
              /\ inventory' = Entries(p, command[c].picked, command[c].directs)
              /\ profile' = [profile EXCEPT ![p].imported = stamp + 1]
            BY <2>1 DEF CommitImport, catalog, ImportInv, WriteSound
        <3>2. e[1] = p
            BY <3>1 DEF Entries
        <3>3. p \in DOMAIN profile /\ profile[p].enabled = TRUE
            BY <2>1, <3>1 DEF CommitImport, At, SameProfile, Exists, ImportInv, CommandsSound,
                   Snapped
        <3>4. profile[p] \in Profile
            BY <3>3 DEF ImportInv, TypeOK
        <3>5. profile'[p] = [profile[p] EXCEPT !.imported = stamp + 1]
            BY <3>1, <3>3
        <3> QED
            BY <3>2, <3>3, <3>4, <3>5 DEF Profile
    <2>2. ASSUME NEW c \in Commands, CommitAssociation(c)
          PROVE  profile'[e[1]].enabled
        <3> DEFINE p == command[c].profile
        <3>1. /\ SameProfile(p, command[c].snapshot)
              /\ inventory' = Upsert(inventory, p, command[c].game, TRUE)
              /\ profile' = [profile EXCEPT ![p].imported = stamp + 1]
            BY <2>2 DEF CommitAssociation, catalog
        <3>2. e = <<p, command[c].game>>
            BY <3>1 DEF Upsert, With
        <3>3. p \in DOMAIN profile /\ profile[p].enabled = TRUE
            BY <2>2, <3>1 DEF CommitAssociation, At, SameProfile, Exists, ImportInv,
                   CommandsSound, Snapped
        <3>4. profile[p] \in Profile
            BY <3>3 DEF ImportInv, TypeOK
        <3>5. profile'[p] = [profile[p] EXCEPT !.imported = stamp + 1] /\ e[1] = p
            BY <3>1, <3>2, <3>3
        <3> QED
            BY <3>3, <3>4, <3>5 DEF Profile
    <2>3. ASSUME NEW ds, NEW candidates, Apply(ds, candidates)
          PROVE  profile'[e[1]].enabled
        <3>1. PICK given \in SUBSET candidates :
                /\ given # {} => Usable
                /\ IF given = {} THEN inventory' = inventory
                   ELSE /\ inventory' = [x \in DOMAIN inventory \cup ({Managed} \X given) |->
                                IF x[1] = Managed /\ x[2] \in given THEN TRUE ELSE inventory[x]]
                        /\ profile' = With(profile, Managed,
                                [enabled |-> Exists(Managed) => profile[Managed].enabled,
                                 imported |-> stamp + 1,
                                 folders |-> given \cup IF Exists(Managed)
                                                        THEN profile[Managed].folders ELSE {}])
            BY <2>3 DEF Apply
        <3>2. given # {}
            BY <3>1
        <3> DEFINE enabled == Exists(Managed) => profile[Managed].enabled
                   folders == given \cup IF Exists(Managed) THEN profile[Managed].folders ELSE {}
        <3>3. enabled
            BY <3>1, <3>2 DEF Usable
        <3>4. /\ DOMAIN inventory' = DOMAIN inventory \cup ({Managed} \X given)
              /\ profile' = With(profile, Managed,
                    [enabled |-> enabled, imported |-> stamp + 1, folders |-> folders])
            BY <3>1, <3>2
        <3> HIDE DEF enabled, folders
        <3>5. e[1] = Managed
            BY <3>4
        <3>6. profile'[Managed] =
                [enabled |-> enabled, imported |-> stamp + 1, folders |-> folders]
            BY <3>4 DEF With
        <3> QED
            BY <3>3, <3>5, <3>6
    <2>4. inventory' # inventory
        OBVIOUS
    <2>5. ASSUME NEW p \in Profiles, Delete(p)
          PROVE  FALSE
        BY <2>5 DEF Delete, Restrict
    <2> QED
        BY <2>1, <2>2, <2>3, <2>4, <2>5
        DEF Next, CreateProfile, Enable, Disable, StopDisabled, StopDeleted, FinishScan,
            CancelScan, StartScan, Import, Associate, ReadProfile, Revalidate, CheckImport,
            AddDirect, RemoveDirect, StartPass, ApplyPage, catalog
<1> QED
    BY <1>1, ImportInvariant, PTL DEF Spec

------------------------------------------------------------------------------
(* Setups *)

Setup == [chosen : S!Binaries \cup {None}, detected : {Found, None}, folders : BOOLEAN]

SetupJob ==
    [at : {"none", "detect", "offer", "store", "recheck", "publish", "done"},
     found : {Found, None}, phase : S!Phases]
SetupOrder ==
    [at : {"confirm", "select", "create"}, setup : Setups, binary : S!Binaries \cup {None}]

\* Something to confirm, or already confirmed or picked; vacuous once evicted.
Target(s) == S!Live(s) => setups[s].detected # None \/ setups[s].chosen # None

\* A setup is not there before its search, and cannot be begun twice.  A worker that
\* offers has found something; one that goes on as ready stored it, or was told to
\* stop and will say so.
WorkerInv ==
    \A s \in Setups :
        /\ worker[s].at = "none" => ~S!Live(s) /\ detection[s] = "detecting"
        /\ worker[s].at \in {"offer", "store"} => worker[s].found = Found
        /\ worker[s].at = "recheck" /\ worker[s].phase = "ready" => s \in halted \/ Target(s)
        /\ worker[s].at = "publish" /\ worker[s].phase = "ready" => Target(s)

\* What is confirmed was found.
CommandInv == \A c \in Commands : S!At(c, "confirm") => asked[c].binary = Found

SetupInv == S!TypeOK /\ S!ReadyHasTarget /\ WorkerInv /\ CommandInv

------------------------------------------------------------------------------
(* Writes *)

\* A binary is chosen, and what was found is forgotten.
LEMMA SetupChosen ==
    ASSUME NEW setup \in Setup, NEW binary \in S!Binaries \cup {None}
    PROVE  LET new == [setup EXCEPT !.chosen = binary, !.detected = None]
           IN  new \in Setup /\ new.chosen = binary /\ new.detected = None
<1> SUFFICES ASSUME NEW new, new = [setup EXCEPT !.chosen = binary, !.detected = None]
             PROVE  new \in Setup /\ new.chosen = binary /\ new.detected = None
    BY Zenon
<1>1. new = [chosen |-> binary, detected |-> None, folders |-> setup.folders]
    BY DEF Setup
<1> QED
    BY <1>1 DEF Setup

\* The worker of one setup moves.
LEMMA WorkerMoves ==
    ASSUME SetupInv, NEW s \in Setups, NEW new, worker' = [worker EXCEPT ![s] = new],
           new \in SetupJob
    PROVE  /\ worker' \in
                [Setups -> SetupJob]
           /\ worker'[s] = new /\ \A x \in Setups \ {s} : worker'[x] = worker[x]
BY DEF SetupInv, S!TypeOK, SetupJob

\* The worker moves and no command does: what it believes of its setup is what has to
\* be shown.
LEMMA WorkerKeeps ==
    ASSUME SetupInv, NEW s \in Setups, UNCHANGED <<setups, halted, asked>>,
           detection' \in [Setups -> S!Phases],
           \A x \in Setups \ {s} : detection'[x] = detection[x],
           NEW new, worker' = [worker EXCEPT ![s] = new],
           new \in SetupJob,
           new.at # "none",
           new.at \in {"offer", "store"} => new.found = Found,
           new.at = "recheck" /\ new.phase = "ready" => s \in halted \/ Target(s),
           new.at = "publish" /\ new.phase = "ready" => Target(s),
           detection'[s] = "ready" => Target(s)
    PROVE  SetupInv'
<1>1. /\ worker' \in
             [Setups -> SetupJob]
      /\ worker'[s] = new /\ \A x \in Setups \ {s} : worker'[x] = worker[x]
    BY WorkerMoves
<1>2. S!TypeOK'
    BY <1>1 DEF SetupInv, S!TypeOK, SetupJob
<1>3. S!ReadyHasTarget'
    BY DEF SetupInv, S!TypeOK, S!ReadyHasTarget, Target, S!Live
<1>4. WorkerInv'
    BY <1>1 DEF SetupInv, WorkerInv, Target, S!Live
<1>5. CommandInv'
    BY DEF SetupInv, CommandInv, S!At, S!Idle
<1> QED
    BY <1>2, <1>3, <1>4, <1>5 DEF SetupInv

\* Detect, Offer, Recheck, Publish.
LEMMA SearchKeeps ==
    ASSUME SetupInv, NEW s \in Setups, S!Detect(s) \/ S!Offer(s) \/ S!Recheck(s) \/ S!Publish(s)
    PROVE  SetupInv'
<1>1. /\ worker[s] \in
             SetupJob
      /\ detection \in [Setups -> S!Phases]
      /\ worker[s].at \in {"offer", "store"} => worker[s].found = Found
      /\ worker[s].at = "recheck" /\ worker[s].phase = "ready" => s \in halted \/ Target(s)
      /\ worker[s].at = "publish" /\ worker[s].phase = "ready" => Target(s)
      /\ detection[s] = "ready" => Target(s)
    BY DEF SetupInv, S!TypeOK, SetupJob, WorkerInv, S!ReadyHasTarget, Target, S!Live
<1>2. ASSUME S!Detect(s) PROVE SetupInv'
    <2> SUFFICES ASSUME NEW result \in IF s \in halted THEN {"cancelled"}
                                       ELSE {"ready", "unavailable", "failed"},
                        NEW new,
                        new = [at |-> IF result = "ready" THEN "offer" ELSE "recheck",
                               found |-> IF result = "ready" THEN Found ELSE None,
                               phase |-> result],
                        worker' = [worker EXCEPT ![s] = new]
                 PROVE  SetupInv'
        BY <1>2 DEF S!Detect
    <2>1. new \in SetupJob
        BY DEF SetupJob, S!Phases
    <2>2. UNCHANGED <<setups, detection, halted, asked>>
        BY <1>2 DEF S!Detect
    <2>3. /\ new.at \in {"offer", "recheck"}
          /\ new.at = "offer" => new.found = Found
          /\ new.at = "recheck" => new.phase # "ready"
        OBVIOUS
    <2> QED
        BY <1>1, <2>1, <2>2, <2>3, WorkerKeeps
<1>3. ASSUME S!Offer(s) PROVE SetupInv'
    <2> SUFFICES ASSUME NEW new,
                        new = [worker[s] EXCEPT !.at =
                                IF s \in halted THEN "recheck" ELSE "store"]
                 PROVE  SetupInv'
        OBVIOUS
    <2>1. worker' = [worker EXCEPT ![s] = new] /\ UNCHANGED <<setups, detection, halted, asked>>
        BY <1>3 DEF S!Offer
    <2>2. /\ new \in SetupJob
          /\ new.at = (IF s \in halted THEN "recheck" ELSE "store")
          /\ new.found = Found
        BY <1>1, <1>3 DEF S!Offer, SetupJob
    <2>3. /\ new.at # "none" /\ new.at # "publish"
          /\ new.at = "recheck" => s \in halted
        BY <2>2
    <2> QED
        BY <1>1, <2>1, <2>2, <2>3, WorkerKeeps
<1>4. ASSUME S!Recheck(s) PROVE SetupInv'
    <2> SUFFICES ASSUME NEW result,
                        result = IF s \in halted THEN "cancelled" ELSE worker[s].phase,
                        NEW new, new = [worker[s] EXCEPT !.at = "publish", !.phase = result]
                 PROVE  SetupInv'
        OBVIOUS
    <2>1. worker' = [worker EXCEPT ![s] = new] /\ UNCHANGED <<setups, detection, halted, asked>>
        BY <1>4 DEF S!Recheck
    <2>2. result \in S!Phases
        BY <1>1 DEF SetupJob, S!Phases
    <2>3. /\ new \in SetupJob
          /\ new.at = "publish" /\ new.phase = result
        BY <1>1, <2>2 DEF SetupJob
    <2>4. result = "ready" => Target(s)
        BY <1>1, <1>4 DEF S!Recheck
    <2>5. /\ new \in SetupJob /\ new.at \notin {"none", "offer", "store", "recheck"}
          /\ new.phase = "ready" => Target(s)
        BY <2>3, <2>4
    <2> QED
        BY <1>1, <2>1, <2>4, <2>5, WorkerKeeps
<1>5. ASSUME S!Publish(s) PROVE SetupInv'
    <2> SUFFICES ASSUME NEW new, new = [worker[s] EXCEPT !.at = "done"] PROVE SetupInv'
        OBVIOUS
    <2>1. /\ worker' = [worker EXCEPT ![s] = new] /\ UNCHANGED <<setups, halted, asked>>
          /\ detection' = [detection EXCEPT ![s] = worker[s].phase] /\ worker[s].at = "publish"
        BY <1>5 DEF S!Publish
    <2>2. /\ new \in SetupJob
          /\ new.at = "done"
        BY <1>1 DEF SetupJob
    <2>3. /\ detection' \in [Setups -> S!Phases] /\ detection'[s] = worker[s].phase
          /\ \A x \in Setups \ {s} : detection'[x] = detection[x]
        BY <1>1, <2>1 DEF SetupJob
    <2> QED
        BY <1>1, <2>1, <2>2, <2>3, WorkerKeeps
<1> QED
    BY <1>2, <1>3, <1>4, <1>5

------------------------------------------------------------------------------
(* The steps that write a setup *)

\* Begin: the setups that are left keep what they had; the new one has nothing yet, and
\* its search has not been heard of.
LEMMA BeginKeeps ==
    ASSUME SetupInv, NEW s \in Setups, S!Begin(s)
    PROVE  SetupInv'
<1>1. PICK E \in SUBSET DOMAIN setups :
        /\ setups' = [x \in (DOMAIN setups \ E) \cup {s} |-> IF x = s THEN S!New ELSE setups[x]]
        /\ halted' = halted \cup E
    BY DEF S!Begin
<1> DEFINE new == [at |-> "detect", found |-> None, phase |-> "detecting"]
<1>2. worker[s].at = "none" /\ worker' = [worker EXCEPT ![s] = new]
      /\ UNCHANGED <<detection, asked>>
    BY DEF S!Begin
<1>3. new \in SetupJob
    BY DEF SetupJob, S!Phases
<1>4. new.at = "detect"
    OBVIOUS
<1> HIDE DEF new
<1>5. worker' \in [Setups -> SetupJob] /\ worker'[s] = new
      /\ \A x \in Setups \ {s} : worker'[x] = worker[x]
    BY <1>2, <1>3, WorkerMoves
<1>6. ~S!Live(s) /\ detection[s] = "detecting"
    BY <1>2 DEF SetupInv, WorkerInv
<1>7. /\ DOMAIN setups' = (DOMAIN setups \ E) \cup {s}
      /\ setups'[s] = S!New
      /\ \A x \in DOMAIN setups' \ {s} : x \in DOMAIN setups /\ setups'[x] = setups[x]
    BY <1>1
<1>8. S!New \in Setup
    BY DEF S!New, Setup
<1>9. /\ DOMAIN setups \subseteq Setups /\ halted \subseteq Setups
      /\ \A x \in DOMAIN setups : setups[x] \in Setup
    BY DEF SetupInv, S!TypeOK, Setup
<1>10. S!TypeOK'
    <2>1. \A x \in DOMAIN setups' : setups'[x] \in Setup
        BY <1>7, <1>8, <1>9
    <2>2. DOMAIN setups' \subseteq Setups /\ halted' \subseteq Setups
        BY <1>1, <1>7, <1>9
    <2> QED
        BY <1>2, <1>5, <2>1, <2>2 DEF SetupInv, S!TypeOK, Setup, SetupJob
<1>11. S!ReadyHasTarget'
    BY <1>2, <1>6, <1>7 DEF SetupInv, S!ReadyHasTarget
<1>12. WorkerInv'
    <2> SUFFICES ASSUME NEW x \in Setups
                 PROVE  /\ worker'[x].at = "none" => ~S!Live(x)' /\ detection'[x] = "detecting"
                        /\ worker'[x].at \in {"offer", "store"} => worker'[x].found = Found
                        /\ worker'[x].at = "recheck" /\ worker'[x].phase = "ready"
                                => x \in halted' \/ Target(x)'
                        /\ worker'[x].at = "publish" /\ worker'[x].phase = "ready"
                                => Target(x)'
        BY DEF WorkerInv
    <2>1. CASE x = s
        BY <1>4, <1>5, <2>1
    <2>2. CASE x # s
        BY <1>1, <1>2, <1>5, <1>7, <2>2 DEF SetupInv, WorkerInv, Target, S!Live
    <2> QED
        BY <2>1, <2>2
<1>13. CommandInv'
    BY <1>2 DEF SetupInv, CommandInv, S!At, S!Idle
<1> QED
    BY <1>10, <1>11, <1>12, <1>13 DEF SetupInv

\* Store: what was found is there to be confirmed, if the setup still is.
LEMMA StoreKeeps ==
    ASSUME S!BinariesAssumption, SetupInv, NEW s \in Setups, S!Store(s)
    PROVE  SetupInv'
<1> SUFFICES ASSUME NEW new, new = [worker[s] EXCEPT !.at = "recheck"] PROVE SetupInv'
    OBVIOUS
<1>1. /\ worker[s].at = "store" /\ worker[s].found = Found /\ worker[s] \in SetupJob
      /\ worker' = [worker EXCEPT ![s] = new] /\ UNCHANGED <<detection, halted, asked>>
    BY DEF S!Store, SetupInv, S!TypeOK, WorkerInv, SetupJob
<1>2. new \in SetupJob /\ new.at = "recheck"
    BY <1>1 DEF SetupJob
<1>3. worker' \in [Setups -> SetupJob] /\ worker'[s] = new
      /\ \A x \in Setups \ {s} : worker'[x] = worker[x]
    BY <1>1, <1>2, WorkerMoves
<1>4. Found # None
    BY DEF S!BinariesAssumption
<1>5. \A x \in DOMAIN setups : setups[x] \in Setup
    BY DEF SetupInv, S!TypeOK, Setup
<1>6. /\ DOMAIN setups' = DOMAIN setups
      /\ \A x \in DOMAIN setups \ {s} : setups'[x] = setups[x]
      /\ S!Live(s) => setups'[s] = [setups[s] EXCEPT !.detected = Found]
    BY <1>1 DEF S!Store, S!Live
<1>7. S!Live(s) => setups'[s] \in Setup /\ setups'[s].detected = Found
    BY <1>5, <1>6 DEF Setup, S!Live
<1>8. S!TypeOK'
    <2>1. \A x \in DOMAIN setups' : setups'[x] \in Setup
        BY <1>5, <1>6, <1>7 DEF S!Live
    <2> QED
        BY <1>1, <1>3, <1>6, <2>1 DEF SetupInv, S!TypeOK, Setup, SetupJob
<1>9. \A x \in Setups : S!Live(x)' <=> S!Live(x)
    BY <1>6 DEF S!Live
<1>10. \A x \in Setups : x = s \/ Target(x) => Target(x)'
    BY <1>4, <1>6, <1>7 DEF Target, S!Live
<1>11. S!ReadyHasTarget'
    BY <1>1, <1>4, <1>6, <1>7 DEF SetupInv, S!ReadyHasTarget, S!Live
<1>12. WorkerInv'
    <2> SUFFICES ASSUME NEW x \in Setups
                 PROVE  /\ worker'[x].at = "none" => ~S!Live(x)' /\ detection'[x] = "detecting"
                        /\ worker'[x].at \in {"offer", "store"} => worker'[x].found = Found
                        /\ worker'[x].at = "recheck" /\ worker'[x].phase = "ready"
                                => x \in halted' \/ Target(x)'
                        /\ worker'[x].at = "publish" /\ worker'[x].phase = "ready"
                                => Target(x)'
        BY DEF WorkerInv
    <2>1. CASE x = s
        BY <1>2, <1>3, <1>10, <2>1
    <2>2. CASE x # s
        BY <1>1, <1>3, <1>9, <1>10, <2>2 DEF SetupInv, WorkerInv
    <2> QED
        BY <2>1, <2>2
<1>13. CommandInv'
    BY <1>1 DEF SetupInv, CommandInv, S!At, S!Idle
<1> QED
    BY <1>8, <1>11, <1>12, <1>13 DEF SetupInv

\* A command leaves the workers alone and takes nothing away from them: setups may go,
\* what is left has a target if it had one, and jobs are only ever told to stop.
LEMMA AskedKeeps ==
    ASSUME SetupInv, UNCHANGED worker,
           halted \subseteq halted', halted' \subseteq Setups,
           DOMAIN setups' \subseteq DOMAIN setups,
           \A s \in DOMAIN setups' : setups'[s] \in Setup,
           \A s \in DOMAIN setups' : Target(s) => Target(s)',
           detection' \in [Setups -> S!Phases],
           \A s \in Setups : detection'[s] = detection[s] \/ S!Live(s),
           \A s \in DOMAIN setups' :
               detection'[s] = "ready" => detection[s] = "ready" \/ Target(s)',
           asked' \in [Commands -> {None} \cup SetupOrder], CommandInv'
    PROVE  SetupInv'
<1>1. S!TypeOK'
    BY DEF SetupInv, S!TypeOK, Setup, SetupOrder
<1>2. \A s \in DOMAIN setups' : s \in Setups /\ S!Live(s) /\ S!Live(s)'
    BY DEF SetupInv, S!TypeOK, S!Live
<1>3. S!ReadyHasTarget'
    BY <1>2 DEF SetupInv, S!ReadyHasTarget, Target
<1>4. WorkerInv'
    BY <1>2 DEF SetupInv, WorkerInv, Target, S!Live
<1> QED
    BY <1>1, <1>3, <1>4 DEF SetupInv

\* CancelDetection, SetFolders.
LEMMA PanelKeeps ==
    ASSUME SetupInv, NEW s \in Setups, S!CancelDetection(s) \/ S!SetFolders(s)
    PROVE  SetupInv'
<1>1. /\ detection \in [Setups -> S!Phases] /\ halted \subseteq Setups
      /\ \A x \in DOMAIN setups : setups[x] \in Setup
      /\ asked \in [Commands -> {None} \cup SetupOrder] /\ CommandInv
    BY DEF SetupInv, S!TypeOK, Setup, SetupOrder
<1>2. ASSUME S!CancelDetection(s) PROVE SetupInv'
    <2>1. S!Live(s) /\ UNCHANGED <<setups, worker, asked>> /\ halted' = halted \cup {s}
        BY <1>2 DEF S!CancelDetection
    <2>2. /\ detection' \in [Setups -> S!Phases] /\ detection'[s] = "cancelled"
          /\ \A x \in Setups \ {s} : detection'[x] = detection[x]
        BY <1>1, <1>2 DEF S!CancelDetection, S!Phases
    <2>3. CommandInv'
        BY <1>1, <2>1 DEF CommandInv, S!At, S!Idle
    <2>4. \A x \in DOMAIN setups' : Target(x) => Target(x)'
        BY <2>1 DEF Target, S!Live
    <2>5. \A x \in DOMAIN setups' : detection'[x] = "ready" => detection[x] = "ready"
        BY <2>1, <2>2 DEF SetupInv, S!TypeOK
    <2> QED
        BY <1>1, <2>1, <2>2, <2>3, <2>4, <2>5, AskedKeeps
<1>3. ASSUME S!SetFolders(s) PROVE SetupInv'
    <2>1. S!Live(s) /\ UNCHANGED <<detection, halted, worker, asked>>
        BY <1>3 DEF S!SetFolders
    <2>2. PICK folders \in BOOLEAN : setups' = [setups EXCEPT ![s].folders = folders]
        BY <1>3 DEF S!SetFolders
    <2>3. /\ DOMAIN setups' = DOMAIN setups
          /\ \A x \in DOMAIN setups \ {s} : setups'[x] = setups[x]
          /\ setups'[s] = [setups[s] EXCEPT !.folders = folders]
        BY <2>1, <2>2 DEF S!Live
    <2>4. /\ setups'[s] \in Setup
          /\ setups'[s].chosen = setups[s].chosen /\ setups'[s].detected = setups[s].detected
        BY <1>1, <2>1, <2>3 DEF Setup, S!Live
    <2>5. \A x \in DOMAIN setups' : setups'[x] \in Setup
        BY <1>1, <2>3, <2>4
    <2>6. \A x \in DOMAIN setups' : Target(x) => Target(x)'
        BY <2>3, <2>4 DEF Target, S!Live
    <2>7. CommandInv'
        BY <1>1, <2>1 DEF CommandInv, S!At, S!Idle
    <2> QED
        BY <1>1, <2>1, <2>3, <2>5, <2>6, <2>7, AskedKeeps
<1> QED
    BY <1>2, <1>3

\* Confirm, Select, Create.
LEMMA AskedBegins ==
    ASSUME SetupInv, NEW c \in Commands, NEW s \in Setups,
           S!Confirm(c, s) \/ S!Select(c, s) \/ S!Create(c, s)
    PROVE  SetupInv'
<1>1. /\ detection \in [Setups -> S!Phases] /\ halted \subseteq Setups
      /\ \A x \in DOMAIN setups : setups[x] \in Setup
      /\ asked \in [Commands -> {None} \cup SetupOrder] /\ CommandInv
    BY DEF SetupInv, S!TypeOK, Setup, SetupOrder
<1>2. S!Live(s) /\ UNCHANGED <<setups, worker>> /\ halted' \in {halted, halted \cup {s}}
    BY DEF S!Confirm, S!Select, S!Create
<1>3. setups[s] \in Setup
    BY <1>1, <1>2 DEF S!Live
<1>4. ASSUME NEW order \in SetupOrder, asked' = [asked EXCEPT ![c] = order],
             order.at = "confirm" => order.binary = Found
      PROVE  SetupInv'
    <2>1. /\ asked' \in [Commands -> {None} \cup SetupOrder] /\ asked'[c] = order
          /\ \A x \in Commands \ {c} : asked'[x] = asked[x]
        BY <1>1, <1>4
    <2>2. CommandInv'
        BY <1>1, <1>4, <2>1 DEF CommandInv, S!At, S!Idle
    <2>3. /\ detection' \in [Setups -> S!Phases]
          /\ \A x \in Setups : detection'[x] = detection[x] \/ x = s
          /\ \A x \in Setups : detection'[x] = "ready" => detection[x] = "ready"
        <3>1. CASE detection' = detection
            BY <1>1, <3>1
        <3>2. CASE detection' = [detection EXCEPT ![s] = "cancelled"]
            BY <1>1, <3>2 DEF S!Phases
        <3> QED
            BY <3>1, <3>2 DEF S!Confirm, S!Select, S!Create
    <2>4. \A x \in DOMAIN setups' : Target(x) => Target(x)'
        BY <1>2 DEF Target, S!Live
    <2>5. DOMAIN setups \subseteq Setups
        BY DEF SetupInv, S!TypeOK
    <2> QED
        BY <1>1, <1>2, <2>1, <2>2, <2>3, <2>4, <2>5, AskedKeeps
<1>5. ASSUME S!Confirm(c, s) PROVE SetupInv'
    <2>1. setups[s].detected = Found
        BY <1>3, <1>5 DEF S!Confirm, Setup
    <2>2. [at |-> "confirm", setup |-> s, binary |-> Found] \in SetupOrder
        BY DEF SetupOrder, S!Binaries
    <2> QED
        BY <1>4, <1>5, <2>1, <2>2 DEF S!Confirm, S!Await
<1>6. ASSUME S!Select(c, s) PROVE SetupInv'
    <2>1. [at |-> "select", setup |-> s, binary |-> None] \in SetupOrder
        BY DEF SetupOrder
    <2> QED
        BY <1>4, <1>6, <2>1 DEF S!Select, S!Await
<1>7. ASSUME S!Create(c, s) PROVE SetupInv'
    <2>1. [at |-> "create", setup |-> s, binary |-> setups[s].chosen] \in SetupOrder
        BY <1>3 DEF SetupOrder, Setup
    <2> QED
        BY <1>4, <1>7, <2>1 DEF S!Create, S!Await
<1> QED
    BY <1>5, <1>6, <1>7

\* Confirmed, Selected, Created.
LEMMA AskedEnds ==
    ASSUME S!BinariesAssumption, SetupInv, NEW c \in Commands,
           S!Confirmed(c) \/ S!Selected(c) \/ S!Created(c)
    PROVE  SetupInv'
<1>1. /\ detection \in [Setups -> S!Phases] /\ halted \subseteq Setups
      /\ DOMAIN setups \subseteq Setups /\ \A x \in DOMAIN setups : setups[x] \in Setup
      /\ asked \in [Commands -> {None} \cup SetupOrder] /\ CommandInv
    BY DEF SetupInv, S!TypeOK, Setup, SetupOrder
<1>2. UNCHANGED <<halted, worker>> /\ asked' = [asked EXCEPT ![c] = None] /\ ~S!Idle(c)
    BY DEF S!Confirmed, S!Selected, S!Created, S!Ended, S!At
<1>3. /\ asked' \in [Commands -> {None} \cup SetupOrder] /\ asked'[c] = None
      /\ \A x \in Commands \ {c} : asked'[x] = asked[x]
    BY <1>1, <1>2
<1>4. CommandInv'
    BY <1>1, <1>3 DEF CommandInv, S!At, S!Idle
<1>5. asked[c] \in SetupOrder
    BY <1>1, <1>2 DEF S!Idle
<1>6. ASSUME UNCHANGED <<setups, detection>> PROVE SetupInv'
    <2>1. \A x \in DOMAIN setups' : Target(x) => Target(x)'
        BY <1>6 DEF Target, S!Live
    <2>2. \A x \in DOMAIN setups' : x \in Setups
        BY <1>1, <1>6
    <2> QED
        BY <1>1, <1>2, <1>3, <1>4, <1>6, <2>1, <2>2, AskedKeeps
<1>7. ASSUME NEW s \in Setups, S!Live(s), detection' = [detection EXCEPT ![s] = "ready"],
             NEW binary \in S!Binaries,
             \/ setups[s].chosen # None /\ setups' = setups
             \/ setups' = [setups EXCEPT ![s].chosen = binary, ![s].detected = None]
      PROVE  SetupInv'
    <2>1. binary # None
        BY DEF S!BinariesAssumption, S!Binaries
    <2>2. setups[s] \in Setup
        BY <1>1, <1>7 DEF S!Live
    <2>3. /\ DOMAIN setups' = DOMAIN setups
          /\ \A x \in DOMAIN setups \ {s} : setups'[x] = setups[x]
          /\ setups'[s] \in Setup /\ setups'[s].chosen # None
        <3>1. CASE setups[s].chosen # None /\ setups' = setups
            BY <2>2, <3>1
        <3>2. CASE setups' = [setups EXCEPT ![s].chosen = binary, ![s].detected = None]
            <4> DEFINE new == [setups[s] EXCEPT !.chosen = binary, !.detected = None]
            <4>1. new \in Setup /\ new.chosen = binary
                <5>1. binary \in S!Binaries \cup {None}
                    OBVIOUS
                <5> QED
                    BY <2>2, <5>1, SetupChosen, Zenon
            <4>2. setups' = [setups EXCEPT ![s] = new]
                BY <3>2
            <4> HIDE DEF new
            <4> QED
                BY <1>7, <2>1, <4>1, <4>2 DEF S!Live
        <3> QED
            BY <1>7, <3>1, <3>2
    <2>4. \A x \in DOMAIN setups' : setups'[x] \in Setup
        BY <1>1, <2>3
    <2>5. \A x \in DOMAIN setups' : Target(x) => Target(x)'
        BY <2>3 DEF Target, S!Live
    <2>6. Target(s)'
        BY <2>3 DEF Target
    <2>7. /\ detection' \in [Setups -> S!Phases]
          /\ \A x \in Setups \ {s} : detection'[x] = detection[x]
        BY <1>1, <1>7 DEF S!Phases
    <2>8. \A x \in DOMAIN setups' :
              detection'[x] = "ready" => detection[x] = "ready" \/ Target(x)'
        BY <1>1, <2>3, <2>6, <2>7
    <2>9. \A x \in Setups : detection'[x] = detection[x] \/ S!Live(x)
        BY <1>7, <2>7
    <2> QED
        BY <1>1, <1>2, <1>3, <1>4, <2>3, <2>4, <2>5, <2>7, <2>8, <2>9, AskedKeeps
<1>8. ASSUME S!Confirmed(c) PROVE SetupInv'
    <2> DEFINE s == asked[c].setup
    <2>1. s \in Setups
        BY <1>5 DEF SetupOrder
    <2>2. asked[c].binary = Found
        BY <1>1, <1>8 DEF S!Confirmed, CommandInv
    <2>3. CASE UNCHANGED <<setups, detection>>
        BY <1>6, <2>3
    <2>4. CASE /\ S!Live(s)
               /\ setups' = IF setups[s].chosen = None
                            THEN [setups EXCEPT ![s].chosen = Found, ![s].detected = None]
                            ELSE setups
               /\ detection' = [detection EXCEPT ![s] = "ready"]
        <3>1. Found \in S!Binaries
            BY DEF S!Binaries
        <3> HIDE DEF s
        <3> QED
            BY <1>7, <2>1, <2>4, <3>1
    <2> QED
        BY <1>8, <2>2, <2>3, <2>4 DEF S!Confirmed
<1>9. ASSUME S!Selected(c) PROVE SetupInv'
    <2> DEFINE s == asked[c].setup
    <2>1. s \in Setups
        BY <1>5 DEF SetupOrder
    <2>2. CASE UNCHANGED <<setups, detection>>
        BY <1>6, <2>2
    <2>3. ASSUME NEW binary \in Picks, S!Live(s), detection' = [detection EXCEPT ![s] = "ready"],
                 setups' = [setups EXCEPT ![s].chosen = binary, ![s].detected = None]
          PROVE  SetupInv'
        <3>1. binary \in S!Binaries
            BY DEF S!Binaries
        <3> HIDE DEF s
        <3> QED
            BY <1>7, <2>1, <2>3, <3>1
    <2> QED
        BY <1>9, <2>2, <2>3 DEF S!Selected
<1>10. ASSUME S!Created(c), setups' = S!Without({asked[c].setup}) PROVE SetupInv'
    <2>1. /\ DOMAIN setups' \subseteq DOMAIN setups
          /\ \A x \in DOMAIN setups' : setups'[x] = setups[x]
        BY <1>10 DEF S!Without
    <2>2. detection' = detection
        BY <1>10 DEF S!Created
    <2>3. \A x \in DOMAIN setups' : setups'[x] \in Setup
        BY <1>1, <2>1
    <2>4. \A x \in DOMAIN setups' : Target(x) => Target(x)'
        BY <2>1 DEF Target, S!Live
    <2> QED
        BY <1>1, <1>2, <1>3, <1>4, <2>1, <2>2, <2>3, <2>4, AskedKeeps
<1>11. ASSUME S!Created(c), UNCHANGED setups PROVE SetupInv'
    BY <1>6, <1>11 DEF S!Created
<1> QED
    BY <1>8, <1>9, <1>10, <1>11 DEF S!Created

------------------------------------------------------------------------------
(* The theorems *)

\* Nothing was begun.
LEMMA SetupInit ==
    ASSUME S!Init
    PROVE  SetupInv
<1>1. setups = [s \in {} |-> S!New] /\ DOMAIN setups = {}
    BY DEF S!Init
<1>2. S!TypeOK
    BY <1>1 DEF S!Init, S!TypeOK, S!Phases
<1>3. S!ReadyHasTarget
    BY <1>1 DEF S!ReadyHasTarget
<1>4. WorkerInv
    BY <1>1 DEF S!Init, WorkerInv, S!Live
<1>5. CommandInv
    BY DEF S!Init, CommandInv, S!At, S!Idle
<1> QED
    BY <1>2, <1>3, <1>4, <1>5 DEF SetupInv

\* Every step keeps the invariant.
LEMMA SetupNext ==
    ASSUME S!BinariesAssumption, SetupInv, [S!Next]_(S!vars)
    PROVE  SetupInv'
<1>1. ASSUME UNCHANGED S!vars PROVE SetupInv'
    <2>1. S!TypeOK'
        BY <1>1 DEF SetupInv, S!TypeOK, S!vars
    <2>2. S!ReadyHasTarget'
        BY <1>1 DEF SetupInv, S!ReadyHasTarget, S!vars
    <2>3. WorkerInv'
        BY <1>1 DEF SetupInv, WorkerInv, Target, S!Live, S!vars
    <2>4. CommandInv'
        BY <1>1 DEF SetupInv, CommandInv, S!At, S!Idle, S!vars
    <2> QED
        BY <2>1, <2>2, <2>3, <2>4 DEF SetupInv
<1>2. ASSUME NEW s \in Setups,
             S!Begin(s) \/ S!Worker(s) \/ S!CancelDetection(s) \/ S!SetFolders(s)
      PROVE  SetupInv'
    BY <1>2, BeginKeeps, SearchKeeps, StoreKeeps, PanelKeeps DEF S!Worker
<1>3. ASSUME NEW c \in Commands, NEW s \in Setups,
             S!Confirm(c, s) \/ S!Select(c, s) \/ S!Create(c, s)
      PROVE  SetupInv'
    BY <1>3, AskedBegins
<1>4. ASSUME NEW c \in Commands, S!Confirmed(c) \/ S!Selected(c) \/ S!Created(c)
      PROVE  SetupInv'
    BY <1>4, AskedEnds
<1> QED
    BY <1>1, <1>2, <1>3, <1>4 DEF S!Next

\* The invariant the other theorems rest on: what the search, its worker and the
\* commands in flight may believe of a setup, for any number of them.
THEOREM SetupInvariant ==
    ASSUME S!BinariesAssumption
    PROVE  S!Spec => []SetupInv
<1>1. S!Init => SetupInv
    BY SetupInit
<1>2. SetupInv /\ [S!Next]_(S!vars) => SetupInv'
    BY SetupNext
<1> QED
    BY <1>1, <1>2, PTL DEF S!Spec

\* The variables keep their types.
THEOREM SetupTypes ==
    ASSUME S!BinariesAssumption
    PROVE  S!Spec => []S!TypeOK
<1>1. SetupInv => S!TypeOK
    BY DEF SetupInv
<1> QED
    BY <1>1, SetupInvariant, PTL

\* Whatever was confirmed, picked, cancelled, evicted or created while the worker was
\* between its critical sections, a panel that shows a search as ready has a binary to
\* confirm, or one that was chosen already.
THEOREM ReadyIsConfirmable ==
    ASSUME S!BinariesAssumption
    PROVE  S!Spec => []S!ReadyHasTarget
<1>1. SetupInv => S!ReadyHasTarget
    BY DEF SetupInv
<1> QED
    BY <1>1, SetupInvariant, PTL

\* A binary picked by hand is not replaced by what the search found or by what was
\* confirmed before: only another pick replaces it.
THEOREM PicksStand ==
    ASSUME S!BinariesAssumption
    PROVE  S!Spec => S!ManualChoiceStands
<1>1. None \notin Picks
    BY DEF S!BinariesAssumption
<1>2. ASSUME SetupInv, [S!Next]_(S!vars) PROVE S!PickStands
    <2> SUFFICES ASSUME NEW s \in DOMAIN setups \cap DOMAIN setups',
                        setups[s].chosen \in Picks
                 PROVE  setups'[s].chosen \in Picks
        BY DEF S!PickStands
    <2>1. setups[s] \in Setup
        BY <1>2 DEF SetupInv, S!TypeOK, Setup
    <2>2. CASE UNCHANGED setups
        BY <2>2
    <2>3. ASSUME NEW x \in Setups, S!Begin(x) PROVE setups'[s].chosen \in Picks
        <3>1. ~S!Live(x)
            BY <1>2, <2>3 DEF S!Begin, SetupInv, WorkerInv
        <3> QED
            BY <2>3, <3>1 DEF S!Begin, S!Live
    <2>4. ASSUME NEW x \in Setups, S!Store(x) PROVE setups'[s].chosen \in Picks
        BY <2>1, <2>4 DEF S!Store, S!Live, Setup
    <2>5. ASSUME NEW x \in Setups, S!SetFolders(x) PROVE setups'[s].chosen \in Picks
        BY <2>1, <2>5 DEF S!SetFolders, S!Live, Setup
    <2>6. ASSUME NEW c \in Commands, S!Confirmed(c) PROVE setups'[s].chosen \in Picks
        BY <1>1, <2>1, <2>6 DEF S!Confirmed, Setup
    <2>7. ASSUME NEW c \in Commands, S!Selected(c) PROVE setups'[s].chosen \in Picks
        BY <2>1, <2>7 DEF S!Selected, Setup
    <2>8. ASSUME NEW c \in Commands, S!Created(c) PROVE setups'[s].chosen \in Picks
        BY <2>8 DEF S!Created, S!Without
    <2> QED
        BY <1>2, <2>2, <2>3, <2>4, <2>5, <2>6, <2>7, <2>8
           DEF S!Next, S!Worker, S!Detect, S!Offer, S!Recheck, S!Publish, S!CancelDetection,
               S!Confirm, S!Select, S!Create, S!vars
<1>3. SetupInv /\ [S!Next]_(S!vars) => [S!PickStands]_(S!vars)
    BY <1>2
<1> QED
    BY <1>3, SetupInvariant, PTL DEF S!Spec, S!ManualChoiceStands
==============================================================================
