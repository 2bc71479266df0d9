------------------------ MODULE RunnerProfilesProofs ------------------------
(****************************************************************************)
(* Theorems about RunnerProfiles, for any threads, profiles, folders and    *)
(* packages and a library of any length; about RunnerImportPanel, as the    *)
(* instance P; about the pictures of a card, ArtworkSlots, as A; and about  *)
(* the cards the imports file, LibraryCards, as K.                          *)
(*                                                                          *)
(* Two things go wrong when commands interleave: a permission given to one  *)
(* package is used with another, and a copy of a profile, written back      *)
(* late, takes the cursor of its import past games nobody imported.  The    *)
(* invariant says of every copy a command carries what the theorems say of  *)
(* the catalog.                                                             *)
(****************************************************************************)
EXTENDS RunnerProfiles, Sequences, TLAPS, FiniteSetTheorems, SequenceTheorems,
        WellFoundedInduction

CONSTANTS Tasks, Jobs, MaxJobs, None
VARIABLES table, phase, ours, flagged, worker, shown, task, finding, deleted

\* The panel on which a profile is imported.
P == INSTANCE RunnerImportPanel

CONSTANTS Commands, Roles
VARIABLES files, slots, command, missed

A == INSTANCE ArtworkSlots

CONSTANTS Owners, Roms, StoreGames, Directs, Title
VARIABLES cards, profiles, entries, reached, holding, wine, gone

\* The cards of the library, of any number of profiles.
K == INSTANCE LibraryCards WITH
    Profiles <- Owners, cursor <- reached, folder <- holding, removed <- gone

\* The pages an import that resumes from this profile does not ask for.
Behind(value) == 1..(IF value.complete THEN Pages ELSE value.cursor)

\* The steps that have a profile, a package they loaded, and a copy to write.
HasProfile(c) ==
    c.at \in {"load", "create", "save", "ask", "answer", "grant", "remove", "resolve", "page",
              "merge"}
HasPackage(c) ==
    \/ c.at \in {"create", "ask", "answer", "grant", "resolve"}
    \/ c.at = "save" /\ c.command = "edit"
HasCopy(c) ==
    \/ c.at \in {"create", "save", "answer", "grant", "page", "merge"}
    \/ c.at = "load" /\ c.command # "import"

\* The walk of an import stops before the last page, and what a profile or a copy
\* of it puts behind is in the inventory of the profile, unless that is deleted.
Resumes(p, value) ==
    value.cursor < Pages /\ (p \in removed \/ Behind(value) \subseteq inventory[p])

Sound(c) ==
    /\ HasProfile(c) => c.p \in Profiles
    /\ HasPackage(c) => c.package \in Packages
    /\ HasCopy(c) => c.held \in Profile /\ Resumes(c.p, c.held)
    /\ c.at = "load" => c.command \in {"create", "edit", "grant", "import"}
    /\ c.at = "save" => c.command \in {"edit", "flip"}

ThreadInv == \A t \in Threads : Sound(thread[t])
ProfileInv == \A p \in Profiles : profile[p] # Absent => Resumes(p, profile[p])

RunnerInv == TypeOK /\ ThreadInv /\ ProfileInv /\ GrantsFollowConsent

------------------------------------------------------------------------------
(* Packages and grants *)

\* Consent to one package covers what a grant recorded against it applies to.
LEMMA CoversOn ==
    ASSUME NEW asked, NEW grant, NEW package, Covers(asked, grant.package),
           AppliesTo(grant, package)
    PROVE  Covers(asked, package)
BY DEF Covers, AppliesTo, Trusted

\* A package covers itself.
LEMMA CoversSelf ==
    ASSUME NEW package, package # Absent
    PROVE  Covers(package, package)
BY DEF Covers, AppliesTo, Trusted

\* allow_plugin_scope_value, with the consent it is given with.
LEMMA AllowFollows ==
    ASSUME ValuesAssumption, TypeOK, GrantsFollowConsent,
           NEW c \in Capabilities, NEW p \in Profiles, NEW package \in Packages,
           grants' = [grants EXCEPT ![c] = Allow(@, package, p)],
           consent' = [consent EXCEPT ![c][p] = package], UNCHANGED removed
    PROVE  /\ grants' \in [Capabilities -> Grant \cup {Absent}]
           /\ consent' \in [Capabilities -> [Profiles -> Packages \cup {Absent}]]
           /\ GrantsFollowConsent'
<1> DEFINE grant == Allow(grants[c], package, p)
<1>1. /\ grant \in Grant /\ grant.package = package
      /\ \A q \in grant.scope :
             \/ q = p
             \/ grants[c] # Absent /\ AppliesTo(grants[c], package) /\ q \in grants[c].scope
    BY DEF TypeOK, Allow, Grant
<1>2. /\ grants' = [grants EXCEPT ![c] = grant]
      /\ grants'[c] = grant /\ \A d \in Capabilities \ {c} : grants'[d] = grants[d]
    BY DEF TypeOK
<1> HIDE DEF grant
<1>3. /\ consent' \in [Capabilities -> [Profiles -> Packages \cup {Absent}]]
      /\ consent'[c][p] = package
      /\ \A d \in Capabilities, q \in Profiles :
             d # c \/ q # p => consent'[d][q] = consent[d][q]
    BY DEF TypeOK
<1>4. ASSUME NEW d \in Capabilities, NEW q \in Profiles \ removed,
             grants'[d] # Absent, q \in grants'[d].scope
      PROVE  Covers(consent'[d][q], grants'[d].package)
    <2>1. CASE d # c
        BY <1>2, <1>3, <1>4, <2>1 DEF GrantsFollowConsent
    <2>2. CASE d = c /\ q = p
        BY <1>1, <1>2, <1>3, <2>2, CoversSelf DEF ValuesAssumption
    <2>3. CASE d = c /\ q # p
        <3>1. grants[c] # Absent /\ AppliesTo(grants[c], package) /\ q \in grants[c].scope
            BY <1>1, <1>2, <1>4, <2>3
        <3>2. Covers(consent[c][q], grants[c].package)
            BY <3>1 DEF GrantsFollowConsent
        <3>3. Covers(consent[c][q], package)
            BY <3>1, <3>2, CoversOn
        <3> QED
            BY <1>1, <1>2, <1>3, <2>3, <3>3
    <2> QED
        BY <2>1, <2>2, <2>3
<1> QED
    BY <1>1, <1>2, <1>3, <1>4 DEF GrantsFollowConsent, TypeOK

\* revoke_plugin_scope_value.
LEMMA NarrowTaken ==
    ASSUME NEW grant \in Grant \cup {Absent}, NEW p \in Profiles
    PROVE  /\ Narrow(grant, p) \in Grant \cup {Absent}
           /\ Narrow(grant, p) # Absent =>
                  /\ grant # Absent /\ Narrow(grant, p).package = grant.package
                  /\ Narrow(grant, p).scope = grant.scope \ {p}
BY DEF Narrow, Grant

------------------------------------------------------------------------------
(* Profiles *)

\* A profile whose cursor is moved.
LEMMA CursorMoves ==
    ASSUME PagesAssumption, NEW value \in Profile, NEW cursor \in 0..Pages,
           NEW complete \in BOOLEAN
    PROVE  LET new == [value EXCEPT !.cursor = cursor, !.complete = complete]
           IN  new \in Profile /\ new.cursor = cursor /\ new.complete = complete
<1> SUFFICES ASSUME NEW new, new = [value EXCEPT !.cursor = cursor, !.complete = complete]
             PROVE  new \in Profile /\ new.cursor = cursor /\ new.complete = complete
    BY Zenon
<1>1. new = [folder |-> value.folder, accepted |-> value.accepted,
             cursor |-> cursor, complete |-> complete]
    BY DEF Profile
<1> QED
    BY <1>1 DEF Profile

\* What an import carries of the profile it walks for.
LEMMA WalkFrom ==
    ASSUME PagesAssumption, NEW value \in Profile, NEW folder \in Folders \cup {Absent},
           NEW cursor \in 0..Pages
    PROVE  LET new == [value EXCEPT !.folder = folder, !.cursor = cursor]
           IN  new \in Profile /\ new.cursor = cursor /\ new.complete = value.complete
<1> SUFFICES ASSUME NEW new, new = [value EXCEPT !.folder = folder, !.cursor = cursor]
             PROVE  new \in Profile /\ new.cursor = cursor /\ new.complete = value.complete
    BY Zenon
<1>1. new = [folder |-> folder, accepted |-> value.accepted,
             cursor |-> cursor, complete |-> value.complete]
    BY DEF Profile
<1> QED
    BY <1>1 DEF Profile

------------------------------------------------------------------------------
(* Threads *)

\* The copies a command carries stay sound while inventories grow and profiles
\* are deleted.
LEMMA SoundLater ==
    ASSUME NEW c, Sound(c), removed \subseteq removed',
           \A p \in Profiles : p \in removed' \/ inventory[p] \subseteq inventory'[p]
    PROVE  Sound(c)'
BY DEF Sound, HasProfile, HasPackage, HasCopy, Resumes, Behind

\* One command moves.
LEMMA OneMoves ==
    ASSUME TypeOK, ThreadInv, removed \subseteq removed',
           \A p \in Profiles : p \in removed' \/ inventory[p] \subseteq inventory'[p],
           NEW t \in Threads, NEW c \in Command \cup {Idle}, Sound(c)',
           thread' = [thread EXCEPT ![t] = c]
    PROVE  ThreadInv' /\ thread' \in [Threads -> Command \cup {Idle}]
<1>1. \A u \in Threads \ {t} : Sound(thread[u])'
    BY SoundLater DEF ThreadInv
<1> QED
    BY <1>1 DEF ThreadInv, TypeOK

\* A command moves and nothing else does.
LEMMA ThreadKeeps ==
    ASSUME RunnerInv, Stutters, NEW t \in Threads, NEW c \in Command \cup {Idle}, Sound(c)',
           thread' = [thread EXCEPT ![t] = c]
    PROVE  RunnerInv'
<1>1. UNCHANGED <<live, profile, inventory, grants, made, removed, consent>>
    BY DEF Stutters, catalog, history
<1>2. ThreadInv' /\ thread' \in [Threads -> Command \cup {Idle}]
    BY <1>1, OneMoves DEF RunnerInv
<1> QED
    BY <1>1, <1>2 DEF RunnerInv, TypeOK, ProfileInv, Resumes, GrantsFollowConsent

\* An idle thread carries nothing.
LEMMA IdleSound == Idle \in Command \cup {Idle} /\ Sound(Idle) /\ Sound(Idle)'
BY DEF Sound, HasProfile, HasPackage, HasCopy, Idle

\* A command that begins.
LEMMA StartKeeps ==
    ASSUME RunnerInv, Stutters, NEW t \in Threads, NEW p \in Profiles,
           NEW name \in {"create", "edit", "flip", "grant", "import"},
           NEW at \in {"load", "save"}, NEW held \in Profile \cup {Absent},
           name = "flip" <=> at = "save",
           name # "import" => held \in Profile /\ Resumes(p, held),
           Start(t, name, at, p, held)
    PROVE  RunnerInv'
<1> DEFINE c == [at |-> at, command |-> name, p |-> p, package |-> Absent,
                 held |-> held, cancelled |-> FALSE]
<1>1. thread' = [thread EXCEPT ![t] = c]
    BY DEF Start
<1>2. c \in Command \cup {Idle}
    BY DEF Command, Places
<1>3. Sound(c)'
    BY DEF Sound, HasProfile, HasPackage, HasCopy, Resumes, Stutters, catalog, history
<1> HIDE DEF c
<1> QED
    BY <1>1, <1>2, <1>3, ThreadKeeps

------------------------------------------------------------------------------
(* The steps *)

\* A command begins: every copy it takes is of the profile as it is.
LEMMA BeginKeeps ==
    ASSUME PagesAssumption, RunnerInv, NEW t \in Threads, Begin(t), ~BeginOperation(t)
    PROVE  RunnerInv'
<1> USE PagesAssumption DEF PagesAssumption
<1>1. ASSUME NEW p \in Profiles, NEW value, value.complete = FALSE, value.cursor = 0
      PROVE  Resumes(p, value)
    BY <1>1 DEF Resumes, Behind
<1>2. NewProfile \in Profile /\ NewProfile.cursor = 0 /\ NewProfile.complete = FALSE
    BY DEF NewProfile, Profile
<1>3. ASSUME NEW p \in Profiles, profile[p] # Absent
      PROVE  profile[p] \in Profile /\ Resumes(p, profile[p])
    BY <1>3 DEF RunnerInv, TypeOK, ProfileInv
<1>4. ASSUME NEW p \in Profiles, EditProfile(t, p) PROVE RunnerInv'
    BY <1>3, <1>4, StartKeeps DEF EditProfile, Opens
<1>5. ASSUME NEW p \in Profiles, SetEnabled(t, p) PROVE RunnerInv'
    BY <1>3, <1>5, StartKeeps DEF SetEnabled, Opens
<1>6. ASSUME NEW p \in Profiles, SetLaunchMode(t, p) PROVE RunnerInv'
    <2> DEFINE held == [profile[p] EXCEPT !.cursor = 0, !.complete = FALSE]
    <2>1. held \in Profile /\ held.cursor = 0 /\ held.complete = FALSE
        <3>1. profile[p] \in Profile
            BY <1>3, <1>6 DEF SetLaunchMode, Opens
        <3>2. 0 \in 0..Pages /\ FALSE \in BOOLEAN
            OBVIOUS
        <3> QED
            BY <3>1, <3>2, CursorMoves, Zenon
    <2>2. Start(t, "flip", "save", p, held) /\ Stutters
        BY <1>6 DEF SetLaunchMode
    <2> HIDE DEF held
    <2> QED
        BY <1>1, <2>1, <2>2, StartKeeps
<1>7. ASSUME NEW p \in Profiles, StartImport(t, p) PROVE RunnerInv'
    BY <1>7, StartKeeps DEF StartImport
<1>8. ASSUME NEW p \in Profiles, NEW folder \in Folders, PickFolder(t, p, folder)
      PROVE  RunnerInv'
    <2> DEFINE held == [NewProfile EXCEPT !.folder = folder]
    <2>1. held \in Profile /\ held.cursor = 0 /\ held.complete = FALSE
        BY <1>2 DEF Profile
    <2> QED
        BY <1>1, <1>8, <2>1, StartKeeps DEF PickFolder
<1>9. ASSUME NEW p \in Profiles, CreateProfile(t, p) PROVE RunnerInv'
    <2>1. thread' = [thread EXCEPT ![t] = [at |-> "load", command |-> "create", p |-> p,
              package |-> Absent, held |-> NewProfile, cancelled |-> FALSE]]
        BY <1>9 DEF CreateProfile, Start
    <2> DEFINE c == [at |-> "load", command |-> "create", p |-> p,
                     package |-> Absent, held |-> NewProfile, cancelled |-> FALSE]
    <2>2. c \in Command \cup {Idle}
        BY <1>2 DEF Command, Places
    <2>3. Sound(c)'
        BY <1>1, <1>2, <1>9 DEF CreateProfile, catalog, Sound, HasProfile, HasPackage,
           HasCopy, Resumes
    <2>4. /\ UNCHANGED <<live, profile, inventory, grants, removed, consent>>
          /\ made' \subseteq Profiles
        BY <1>9 DEF CreateProfile, catalog, RunnerInv, TypeOK
    <2> HIDE DEF c
    <2>5. ThreadInv' /\ thread' \in [Threads -> Command \cup {Idle}]
        BY <2>1, <2>2, <2>3, <2>4, OneMoves DEF RunnerInv, c
    <2> QED
        BY <2>4, <2>5 DEF RunnerInv, TypeOK, ProfileInv, Resumes, GrantsFollowConsent
<1>10. ASSUME NEW p \in Profiles, DeleteProfile(t, p) PROVE RunnerInv'
    <2>1. ThreadInv'
        <3>1. ASSUME NEW u \in Threads PROVE Sound(thread'[u])
            BY <1>10 DEF DeleteProfile, RunnerInv, ThreadInv, Sound, HasProfile, HasPackage,
               HasCopy, TypeOK, Command, At, Idle
        <3> QED
            BY <3>1, <1>10, SoundLater DEF DeleteProfile, Stutters, catalog, history, ThreadInv
    <2>2. thread' \in [Threads -> Command \cup {Idle}]
        <3>1. ASSUME NEW u \in Threads PROVE thread'[u] \in Command \cup {Idle}
            <4>1. thread[u] \in Command => [thread[u] EXCEPT !.cancelled = TRUE] \in Command
                BY DEF Command
            <4>2. [at |-> "remove", command |-> "delete", p |-> p, package |-> Absent,
                   held |-> Absent, cancelled |-> FALSE] \in Command
                BY DEF Command, Places
            <4>3. thread[u] \in Command \cup {Idle} /\ (~At(u, "idle") => thread[u] \in Command)
                BY DEF RunnerInv, TypeOK, At, Idle
            <4> QED
                BY <1>10, <4>1, <4>2, <4>3 DEF DeleteProfile
        <3> QED
            BY <1>10, <3>1 DEF DeleteProfile
    <2>3. UNCHANGED <<live, profile, inventory, grants, made, removed, consent>>
        BY <1>10 DEF DeleteProfile, Stutters, catalog, history
    <2> QED
        BY <2>1, <2>2, <2>3 DEF RunnerInv, TypeOK, ProfileInv, Resumes, GrantsFollowConsent
<1> QED
    BY <1>4, <1>5, <1>6, <1>7, <1>8, <1>9, <1>10 DEF Begin

\* The steps that only read: the package, a profile, the grants, a page.
LEMMA ReadKeeps ==
    ASSUME PagesAssumption, RunnerInv, NEW t \in Threads,
           Load(t) \/ Ask(t) \/ ResolveGrants(t) \/ DiscoverPage(t) \/ CompareIdentity(t)
               \/ CancelImport(t) \/ BeginOperation(t)
    PROVE  RunnerInv'
<1> USE PagesAssumption DEF PagesAssumption
<1> USE DEF At, Sound, HasProfile, HasPackage, HasCopy
<1>1. Stutters
    BY DEF Load, Ask, ResolveGrants, DiscoverPage, CompareIdentity, CancelImport,
           BeginOperation
<1>2. ~At(t, "idle") => thread[t] \in Command /\ Sound(thread[t])
    BY DEF RunnerInv, ThreadInv, TypeOK, Idle
<1>3. ASSUME NEW c \in Command \cup {Idle}, Sound(c), thread' = [thread EXCEPT ![t] = c]
      PROVE  RunnerInv'
    <2>1. Sound(c)'
        BY <1>1, <1>3, SoundLater DEF Stutters, catalog, history
    <2> QED
        BY <1>1, <1>3, <2>1, ThreadKeeps
<1>4. ASSUME Finish(t) PROVE RunnerInv'
    BY <1>3, <1>4, IdleSound DEF Finish
<1>5. ASSUME Load(t), ~Finish(t) PROVE RunnerInv'
    <2> DEFINE c == [thread[t] EXCEPT !.package = live, !.at = AfterLoad(thread[t].command)]
    <2>1. thread' = [thread EXCEPT ![t] = c] /\ live # Absent /\ At(t, "load")
        BY <1>5 DEF Load, RunnerInv, TypeOK
    <2>2. c \in Command /\ Sound(c)
        BY <1>2, <2>1 DEF RunnerInv, TypeOK, Command, Places, AfterLoad
    <2> QED
        BY <1>3, <2>1, <2>2
<1>6. ASSUME Ask(t), ~Finish(t) PROVE RunnerInv'
    <2> DEFINE p == thread[t].p
               c == [thread[t] EXCEPT !.at = "answer", !.held = profile[p]]
    <2>1. thread' = [thread EXCEPT ![t] = c] /\ At(t, "ask") /\ profile[p] # Absent
        BY <1>6 DEF Ask, Continue, RunnerInv, TypeOK
    <2>2. profile[p] \in Profile /\ Resumes(p, profile[p])
        BY <1>2, <2>1 DEF RunnerInv, TypeOK, ProfileInv
    <2>3. c \in Command /\ Sound(c)
        BY <1>2, <2>1, <2>2 DEF Command, Places
    <2> QED
        BY <1>3, <2>1, <2>3
<1>7. ASSUME ResolveGrants(t), ~Finish(t) PROVE RunnerInv'
    <2> DEFINE p == thread[t].p
               cursor == IF profile[p].complete THEN 0 ELSE profile[p].cursor
               held == [NewProfile EXCEPT !.folder = profile[p].folder, !.cursor = cursor]
               c == [thread[t] EXCEPT !.at = "page", !.package = Absent, !.held = held]
    <2>1. thread' = [thread EXCEPT ![t] = c] /\ At(t, "resolve") /\ profile[p] # Absent
        BY <1>7 DEF ResolveGrants, Usable, RunnerInv, TypeOK
    <2>2. profile[p] \in Profile /\ Resumes(p, profile[p])
        BY <1>2, <2>1 DEF RunnerInv, TypeOK, ProfileInv
    <2>3. held \in Profile /\ Resumes(p, held)
        <3>1. /\ profile[p].folder \in Folders \cup {Absent} /\ profile[p].complete \in BOOLEAN
              /\ profile[p].cursor \in 0..Pages
            BY <2>2 DEF Profile
        <3>2. cursor \in 0..Pages
            BY <3>1
        <3> HIDE DEF cursor
        <3>3. NewProfile \in Profile /\ ~NewProfile.complete
            BY DEF Profile, NewProfile
        <3>4. held \in Profile /\ held.cursor = cursor /\ held.complete = NewProfile.complete
            <4> HIDE DEF PagesAssumption, p
            <4> QED
                BY PagesAssumption, <3>1, <3>2, <3>3, WalkFrom, Zenon
        <3> HIDE DEF held
        <3> QED
            BY <2>2, <3>1, <3>3, <3>4 DEF Resumes, Behind, cursor
    <2> HIDE DEF held
    <2>4. c \in Command /\ Sound(c)
        BY <1>2, <2>1, <2>3 DEF Command, Places
    <2> QED
        BY <1>3, <2>1, <2>4
<1>8. ASSUME DiscoverPage(t), ~Finish(t) PROVE RunnerInv'
    <2> DEFINE c == [thread[t] EXCEPT !.at = "merge", !.held = thread[t].held]
    <2>1. thread' = [thread EXCEPT ![t] = c] /\ At(t, "page")
        BY <1>8 DEF DiscoverPage, Continue, RunnerInv, TypeOK
    <2>2. c \in Command /\ Sound(c)
        BY <1>2, <2>1 DEF Command, Places
    <2> QED
        BY <1>3, <2>1, <2>2
<1>9. ASSUME CompareIdentity(t), ~Finish(t) PROVE RunnerInv'
    <2> DEFINE c == [thread[t] EXCEPT !.at = "forget", !.held = Absent]
    <2>1. thread' = [thread EXCEPT ![t] = c] /\ At(t, "compare")
        BY <1>9 DEF CompareIdentity, Continue, RunnerInv, TypeOK
    <2>2. c \in Command /\ Sound(c)
        BY <1>2, <2>1 DEF Command, Places
    <2> QED
        BY <1>3, <2>1, <2>2
<1>10. ASSUME CancelImport(t) PROVE RunnerInv'
    <2> DEFINE c == [thread[t] EXCEPT !.cancelled = TRUE]
    <2>1. thread' = [thread EXCEPT ![t] = c] /\ ~At(t, "idle")
        BY <1>10 DEF CancelImport, RunnerInv, TypeOK
    <2>2. c \in Command /\ Sound(c)
        BY <1>2, <2>1 DEF Command
    <2> QED
        BY <1>3, <2>1, <2>2
<1>11. ASSUME BeginOperation(t) PROVE RunnerInv'
    <2> DEFINE c == [at |-> "replace", command |-> "store", p |-> Absent, package |-> live,
                     held |-> Absent, cancelled |-> FALSE]
    <2>1. c \in Command /\ Sound(c)
        BY DEF Command, Places, RunnerInv, TypeOK
    <2> QED
        BY <1>3, <1>11, <2>1 DEF BeginOperation
<1> QED
    BY <1>4, <1>5, <1>6, <1>7, <1>8, <1>9, <1>10, <1>11

\* A profile is written whole: the ones beside it, and what the commands carry,
\* stay as they were.
LEMMA UpsertKeeps ==
    ASSUME TypeOK, ProfileInv, NEW p \in Profiles, NEW value \in Profile, Upsert(p, value),
           Resumes(p, value), UNCHANGED <<inventory, removed>>
    PROVE  profile' \in [Profiles -> Profile \cup {Absent}] /\ ProfileInv'
<1>1. /\ profile' \in [Profiles -> Profile \cup {Absent}]
      /\ profile'[p] = value /\ \A q \in Profiles \ {p} : profile'[q] = profile[q]
    BY DEF Upsert, TypeOK
<1> QED
    BY <1>1 DEF ProfileInv, Resumes

\* commit_profile, revalidate_profile: the copy is written whole, late, and its
\* cursor is behind nothing that was not imported.
LEMMA SaveKeeps ==
    ASSUME RunnerInv, NEW t \in Threads,
           Save(t) \/ \E verdict \in {"valid", "rejected", "failed"} : Answer(t, verdict)
    PROVE  RunnerInv'
<1> DEFINE p == thread[t].p
<1>1. /\ thread[t] \in Command /\ p \in Profiles
      /\ thread[t].held \in Profile /\ Resumes(p, thread[t].held)
      /\ UNCHANGED <<live, inventory, grants, made, removed, consent>>
    BY DEF RunnerInv, ThreadInv, TypeOK, Sound, HasProfile, HasCopy, Save, Answer, At, Idle,
       history
<1>2. profile' \in [Profiles -> Profile \cup {Absent}] /\ ProfileInv'
    <2>1. ASSUME UNCHANGED profile
          PROVE  profile' \in [Profiles -> Profile \cup {Absent}] /\ ProfileInv'
        BY <1>1, <2>1 DEF RunnerInv, TypeOK, ProfileInv, Resumes
    <2>2. CASE Save(t)
        BY <1>1, <2>1, <2>2, UpsertKeeps DEF Save, RunnerInv
    <2>3. ASSUME NEW verdict \in {"valid", "rejected", "failed"}, Answer(t, verdict)
          PROVE  profile' \in [Profiles -> Profile \cup {Absent}] /\ ProfileInv'
        <3> DEFINE accepted == IF verdict = "valid" THEN thread[t].package.component ELSE Absent
                   value == [thread[t].held EXCEPT !.accepted = accepted]
        <3>1. thread[t].package \in Packages
            BY <2>3 DEF Answer, At, RunnerInv, ThreadInv, Sound, HasPackage
        <3>2. accepted \in Components \cup {Absent}
            BY <3>1 DEF Components
        <3> HIDE DEF accepted
        <3>3. /\ value \in Profile /\ value.cursor = thread[t].held.cursor
              /\ value.complete = thread[t].held.complete
            BY <1>1, <3>2 DEF Profile
        <3>4. Resumes(p, value)
            BY <1>1, <3>3 DEF Resumes, Behind
        <3>5. Upsert(p, value) \/ UNCHANGED profile
            BY <2>3 DEF Answer, accepted
        <3> HIDE DEF value
        <3> QED
            BY <1>1, <2>1, <3>3, <3>4, <3>5, UpsertKeeps DEF RunnerInv
    <2> QED
        BY <2>2, <2>3
<1>3. ThreadInv' /\ thread' \in [Threads -> Command \cup {Idle}]
    <2>1. CASE Finish(t)
        BY <1>1, <2>1, IdleSound, OneMoves DEF Finish, RunnerInv
    <2>2. CASE Revalidate(t) /\ Save(t) /\ thread[t].command = "edit"
        <3> DEFINE c == [thread[t] EXCEPT !.at = "ask", !.command = "edit", !.held = Absent]
        <3>1. thread' = [thread EXCEPT ![t] = c]
            BY <2>2 DEF Revalidate, RunnerInv, TypeOK
        <3>2. c \in Command /\ Sound(c)
            BY <1>1, <2>2 DEF Command, Places, Sound, HasProfile, HasPackage, HasCopy, Save, At,
               RunnerInv, ThreadInv
        <3> HIDE DEF c
        <3> QED
            BY <1>1, <3>1, <3>2, SoundLater, OneMoves DEF RunnerInv
    <2> QED
        BY <2>1, <2>2 DEF Save, Answer
<1> QED
    BY <1>1, <1>2, <1>3 DEF RunnerInv, TypeOK, GrantsFollowConsent

\* create_profile_with_id, grant_directory: the package the user was asked about
\* is the one the permission is recorded against.
LEMMA ConsentKeeps ==
    ASSUME ValuesAssumption, RunnerInv, NEW t \in Threads, CommitCreated(t) \/ CommitFolder(t)
    PROVE  RunnerInv'
<1> DEFINE p == thread[t].p
           package == thread[t].package
<1>1. /\ thread[t] \in Command /\ p \in Profiles /\ package \in Packages
      /\ thread[t].held \in Profile /\ Resumes(p, thread[t].held)
      /\ UNCHANGED <<live, inventory, made, removed>>
    BY DEF RunnerInv, ThreadInv, TypeOK, Sound, HasProfile, HasPackage, HasCopy, CommitCreated,
       CommitFolder, At, Idle
<1>2. CASE CommitCreated(t)
    <2>1. profile' \in [Profiles -> Profile \cup {Absent}] /\ ProfileInv'
        BY <1>1, <1>2, UpsertKeeps DEF CommitCreated, RunnerInv
    <2>2. /\ grants' \in [Capabilities -> Grant \cup {Absent}]
          /\ consent' \in [Capabilities -> [Profiles -> Packages \cup {Absent}]]
          /\ GrantsFollowConsent'
        BY <1>1, <1>2, AllowFollows DEF CommitCreated, RunnerInv, Capabilities
    <2> DEFINE c == [thread[t] EXCEPT !.at = "ask", !.command = "edit", !.held = Absent]
    <2>3. thread' = [thread EXCEPT ![t] = c]
        BY <1>2 DEF CommitCreated, Revalidate, RunnerInv, TypeOK
    <2>4. c \in Command /\ Sound(c)
        BY <1>1 DEF Command, Places, Sound, HasProfile, HasPackage, HasCopy
    <2> HIDE DEF c
    <2>5. ThreadInv' /\ thread' \in [Threads -> Command \cup {Idle}]
        BY <1>1, <2>3, <2>4, SoundLater, OneMoves DEF RunnerInv
    <2> QED
        BY <1>1, <2>1, <2>2, <2>5 DEF RunnerInv, TypeOK
<1>3. CASE CommitFolder(t)
    <2> DEFINE folder == thread[t].held.folder
               value == [profile[p] EXCEPT !.folder = folder]
    <2>1. ThreadInv' /\ thread' \in [Threads -> Command \cup {Idle}]
        BY <1>1, <1>3, IdleSound, OneMoves DEF CommitFolder, Finish, RunnerInv
    <2>2. CASE profile[p] # Absent /\ Fits(p, value)
        <3>1. /\ profile[p] \in Profile /\ Resumes(p, profile[p])
              /\ folder \in Folders \cup {Absent}
            BY <1>1, <2>2 DEF RunnerInv, TypeOK, ProfileInv, Profile
        <3> HIDE DEF folder
        <3>2. /\ value \in Profile /\ value.cursor = profile[p].cursor
              /\ value.complete = profile[p].complete
            BY <3>1 DEF Profile
        <3>3. Resumes(p, value)
            BY <3>1, <3>2 DEF Resumes, Behind
        <3>4. /\ Upsert(p, value)
              /\ grants' = [grants EXCEPT !["files"] = Allow(@, package, p)]
              /\ consent' = [consent EXCEPT !["files"][p] = package]
            BY <1>3, <2>2 DEF CommitFolder, folder
        <3> HIDE DEF value
        <3>5. profile' \in [Profiles -> Profile \cup {Absent}] /\ ProfileInv'
            BY <1>1, <3>2, <3>3, <3>4, UpsertKeeps DEF RunnerInv
        <3>6. /\ grants' \in [Capabilities -> Grant \cup {Absent}]
              /\ consent' \in [Capabilities -> [Profiles -> Packages \cup {Absent}]]
              /\ GrantsFollowConsent'
            BY <1>1, <3>4, AllowFollows DEF RunnerInv, Capabilities
        <3> QED
            BY <1>1, <2>1, <3>5, <3>6 DEF RunnerInv, TypeOK
    <2>3. CASE ~(profile[p] # Absent /\ Fits(p, value))
        <3>1. UNCHANGED <<profile, grants, consent>>
            BY <1>3, <2>3 DEF CommitFolder
        <3> QED
            BY <1>1, <2>1, <3>1
            DEF RunnerInv, TypeOK, ProfileInv, Resumes, GrantsFollowConsent
    <2> QED
        BY <2>2, <2>3
<1> QED
    BY <1>2, <1>3

\* revoke_directory, delete_profile and the observer of the installer: a
\* permission is taken back with the consent it rests on.
LEMMA RevokeKeeps ==
    ASSUME ValuesAssumption, RunnerInv,
           \/ \E t \in Threads : CommitRemoved(t) \/ ForgetPlugin(t)
           \/ \E p \in Profiles : RevokeFolder(p)
    PROVE  RunnerInv'
<1>1. ASSUME NEW p \in Profiles, RevokeFolder(p) PROVE RunnerInv'
    <2> DEFINE grant == Narrow(grants["files"], p)
    <2>1. /\ grants["files"] \in Grant \cup {Absent}
          /\ grants' = [grants EXCEPT !["files"] = grant]
          /\ UNCHANGED <<live, profile, inventory, thread, made, removed>>
        BY <1>1 DEF RevokeFolder, RunnerInv, TypeOK, Capabilities
    <2>2. /\ grant \in Grant \cup {Absent}
          /\ grant # Absent =>
                 grants["files"] # Absent /\ grant.package = grants["files"].package
                               /\ grant.scope = grants["files"].scope \ {p}
        BY <2>1, NarrowTaken
    <2> HIDE DEF grant
    <2>3. /\ grants' \in [Capabilities -> Grant \cup {Absent}]
          /\ \A c \in Capabilities : grants'[c] = IF c = "files" THEN grant ELSE grants[c]
        BY <2>1, <2>2 DEF RunnerInv, TypeOK, Capabilities
    <2>4. /\ consent' \in [Capabilities -> [Profiles -> Packages \cup {Absent}]]
          /\ \A c \in Capabilities, q \in Profiles :
                 c # "files" \/ q # p => consent'[c][q] = consent[c][q]
        BY <1>1 DEF RevokeFolder, RunnerInv, TypeOK, Capabilities
    <2>5. GrantsFollowConsent'
        BY <2>1, <2>2, <2>3, <2>4 DEF RunnerInv, GrantsFollowConsent, Capabilities
    <2>6. ThreadInv' /\ ProfileInv'
        BY <2>1
        DEF RunnerInv, ThreadInv, ProfileInv, Sound, HasProfile, HasPackage, HasCopy, Resumes
    <2> QED
        BY <2>1, <2>3, <2>4, <2>5, <2>6 DEF RunnerInv, TypeOK
<1>2. ASSUME NEW t \in Threads, ForgetPlugin(t) PROVE RunnerInv'
    <2>1. /\ UNCHANGED <<live, inventory, made, removed>>
          /\ grants' = [c \in Capabilities |-> Absent]
        BY <1>2 DEF ForgetPlugin
    <2>2. /\ profile' \in [Profiles -> Profile \cup {Absent}]
          /\ \A p \in Profiles : profile'[p] # Absent =>
                 /\ profile[p] # Absent /\ profile'[p].cursor = profile[p].cursor
                 /\ profile'[p].complete = profile[p].complete
        <3>1. ASSUME NEW p \in Profiles, profile[p] # Absent
              PROVE  LET value == [profile[p] EXCEPT !.accepted = Absent]
                     IN  /\ value \in Profile /\ value.cursor = profile[p].cursor
                         /\ value.complete = profile[p].complete
            <4>1. profile[p] \in Profile
                BY <3>1 DEF RunnerInv, TypeOK
            <4> QED
                BY <4>1 DEF Profile
        <3> QED
            BY <1>2, <3>1 DEF ForgetPlugin
    <2>3. ProfileInv'
        BY <2>1, <2>2 DEF RunnerInv, ProfileInv, Resumes, Behind
    <2>4. ThreadInv' /\ thread' \in [Threads -> Command \cup {Idle}]
        BY <1>2, <2>1, IdleSound, OneMoves DEF ForgetPlugin, Finish, RunnerInv
    <2>5. consent' \in [Capabilities -> [Profiles -> Packages \cup {Absent}]]
        BY <1>2 DEF ForgetPlugin
    <2> QED
        BY <2>1, <2>2, <2>3, <2>4, <2>5 DEF RunnerInv, TypeOK, GrantsFollowConsent
<1>3. ASSUME NEW t \in Threads, CommitRemoved(t) PROVE RunnerInv'
    <2> DEFINE p == thread[t].p
    <2>1. p \in Profiles /\ UNCHANGED <<live, made>>
        BY <1>3 DEF CommitRemoved, At, RunnerInv, ThreadInv, Sound, HasProfile
    <2>2. CASE UNCHANGED <<catalog, removed, consent>>
        <3>1. ThreadInv' /\ thread' \in [Threads -> Command \cup {Idle}]
            BY <1>3, <2>2, IdleSound, OneMoves DEF CommitRemoved, Finish, RunnerInv, catalog
        <3> QED
            BY <2>1, <2>2, <3>1
            DEF RunnerInv, TypeOK, ProfileInv, Resumes, GrantsFollowConsent, catalog
    <2>3. CASE profile[p] # Absent /\ removed' = removed \cup {p}
        <3>1. /\ profile' = [profile EXCEPT ![p] = Absent]
              /\ inventory' = [inventory EXCEPT ![p] = {}]
              /\ grants' = [files |-> IF profile[p].folder # Absent
                                      THEN Narrow(grants["files"], p) ELSE grants["files"],
                            prepare |-> Narrow(grants["prepare"], p)]
              /\ consent' = [c \in Capabilities |-> [consent[c] EXCEPT ![p] = Absent]]
            BY <1>3, <2>3 DEF CommitRemoved, Upsert, catalog
        <3>2. /\ inventory' \in [Profiles -> SUBSET (1..Pages)]
              /\ removed \subseteq removed' /\ removed' \subseteq Profiles
              /\ \A q \in Profiles : q \in removed' \/ inventory[q] \subseteq inventory'[q]
            BY <2>1, <2>3, <3>1 DEF RunnerInv, TypeOK
        <3>3. ThreadInv' /\ thread' \in [Threads -> Command \cup {Idle}]
            BY <1>3, <3>2, IdleSound, OneMoves DEF CommitRemoved, Finish, RunnerInv
        <3>4. profile' \in [Profiles -> Profile \cup {Absent}] /\ ProfileInv'
            BY <2>1, <3>1, <3>2 DEF RunnerInv, TypeOK, ProfileInv, Resumes
        <3>5. /\ consent' \in [Capabilities -> [Profiles -> Packages \cup {Absent}]]
              /\ \A c \in Capabilities, q \in Profiles \ removed' : consent'[c][q] = consent[c][q]
            BY <2>1, <2>3, <3>1 DEF RunnerInv, TypeOK
        <3>6. \A c \in Capabilities :
                  /\ grants'[c] \in Grant \cup {Absent}
                  /\ grants'[c] # Absent =>
                         /\ grants[c] # Absent /\ grants'[c].package = grants[c].package
                         /\ grants'[c].scope \subseteq grants[c].scope
            BY <2>1, <3>1, NarrowTaken DEF RunnerInv, TypeOK, Capabilities
        <3>7. grants' \in [Capabilities -> Grant \cup {Absent}]
            BY <3>1, <3>6 DEF Capabilities
        <3>8. GrantsFollowConsent'
            BY <3>2, <3>5, <3>6 DEF RunnerInv, GrantsFollowConsent
        <3> QED
            BY <2>1, <3>2, <3>3, <3>4, <3>5, <3>7, <3>8 DEF RunnerInv, TypeOK
    <2> QED
        BY <1>3, <2>2, <2>3 DEF CommitRemoved
<1> QED
    BY <1>1, <1>2, <1>3

\* commit_resolved_page: the games of a page and the cursor move together, on the
\* profile as it is now.
LEMMA MergeKeeps ==
    ASSUME PagesAssumption, RunnerInv, NEW t \in Threads, MergePage(t)
    PROVE  RunnerInv'
<1>1. /\ thread[t] \in Command /\ thread[t].p \in Profiles
      /\ thread[t].held \in Profile /\ Resumes(thread[t].p, thread[t].held)
      /\ UNCHANGED <<live, grants, made, removed, consent>>
    BY DEF MergePage, RunnerInv, ThreadInv, TypeOK, Sound, HasProfile, HasCopy, At, Idle, history
<1> SUFFICES ASSUME NEW p \in Profiles, p = thread[t].p, NEW held \in Profile,
                    held = thread[t].held
             PROVE  RunnerInv'
    BY <1>1
<1> DEFINE page == held.cursor + 1
           last == page = Pages
           cursor == IF last THEN 0 ELSE page
<1>2. /\ page \in 1..Pages /\ cursor \in 0..Pages /\ cursor < Pages
      /\ p \in removed \/ Behind(held) \subseteq inventory[p]
    BY <1>1 DEF Resumes, Profile, PagesAssumption
<1>3. CASE profile[p] # Absent /\ profile[p].folder = held.folder
    <2>1. profile[p] \in Profile /\ last \in BOOLEAN
        BY <1>1, <1>3 DEF RunnerInv, TypeOK
    <2> SUFFICES ASSUME NEW value,
                        value = [profile[p] EXCEPT !.cursor = cursor, !.complete = last],
                        NEW copy, copy = [held EXCEPT !.cursor = page]
                 PROVE  RunnerInv'
        OBVIOUS
    <2>2. /\ inventory' = [inventory EXCEPT ![p] = @ \cup {page}]
          /\ profile' = [profile EXCEPT ![p] = value]
          /\ IF last THEN Finish(t) ELSE Continue(t, "page", copy)
        BY <1>3 DEF MergePage, Upsert
    <2>3. value \in Profile /\ value.cursor = cursor /\ (value.complete <=> last)
        <3>1. CASE last
            <4>1. value = [profile[p] EXCEPT !.cursor = cursor, !.complete = TRUE]
                BY <3>1
            <4> HIDE DEF last, cursor
            <4> DEFINE new == [profile[p] EXCEPT !.cursor = cursor, !.complete = TRUE]
            <4>2. new \in Profile /\ new.cursor = cursor /\ new.complete = TRUE
                <5>1. cursor \in 0..Pages /\ TRUE \in BOOLEAN
                    BY <1>2
                <5> QED
                    BY <2>1, <5>1, CursorMoves, Zenon
            <4> QED
                BY <3>1, <4>1, <4>2
        <3>2. CASE ~last
            <4>1. value = [profile[p] EXCEPT !.cursor = cursor, !.complete = FALSE]
                BY <3>2
            <4> HIDE DEF last, cursor
            <4> DEFINE new == [profile[p] EXCEPT !.cursor = cursor, !.complete = FALSE]
            <4>2. new \in Profile /\ new.cursor = cursor /\ new.complete = FALSE
                <5>1. cursor \in 0..Pages /\ FALSE \in BOOLEAN
                    BY <1>2
                <5> QED
                    BY <2>1, <5>1, CursorMoves, Zenon
            <4> QED
                BY <3>2, <4>1, <4>2
        <3> QED
            BY <3>1, <3>2
    <2>4. /\ inventory' \in [Profiles -> SUBSET (1..Pages)]
          /\ \A q \in Profiles : inventory[q] \subseteq inventory'[q]
          /\ inventory'[p] = inventory[p] \cup {page}
        BY <1>2, <2>2 DEF RunnerInv, TypeOK
    <2>5. p \in removed \/ 1..page \subseteq inventory'[p]
        <3>1. 1..page = 1..held.cursor \cup {page}
            BY DEF Profile, PagesAssumption
        <3>2. 1..held.cursor \subseteq Behind(held)
            BY DEF Behind, Profile, PagesAssumption
        <3> QED
            BY <1>2, <2>4, <3>1, <3>2
    <2>6. Resumes(p, value)'
        BY <1>1, <1>2, <2>3, <2>5 DEF Resumes, Behind, PagesAssumption
    <2>7. profile' \in [Profiles -> Profile \cup {Absent}] /\ ProfileInv'
        <3>1. /\ profile' \in [Profiles -> Profile \cup {Absent}]
              /\ profile'[p] = value /\ \A q \in Profiles \ {p} : profile'[q] = profile[q]
            BY <2>2, <2>3 DEF RunnerInv, TypeOK
        <3>2. \A q \in Profiles \ {p} : profile'[q] # Absent => Resumes(q, profile[q])'
            BY <1>1, <2>4, <3>1 DEF RunnerInv, ProfileInv, Resumes, Behind
        <3> QED
            BY <2>6, <3>1, <3>2 DEF ProfileInv, Resumes, Behind
    <2>8. ThreadInv' /\ thread' \in [Threads -> Command \cup {Idle}]
        <3>1. CASE last
            BY <1>1, <2>2, <2>4, <3>1, IdleSound, OneMoves DEF Finish, RunnerInv
        <3>2. CASE ~last
            <4>1. copy \in Profile /\ copy.cursor = page /\ copy.complete = held.complete
                BY <1>2 DEF Profile
            <4>2. Resumes(p, copy)'
                <5>1. ~held.complete \/ p \in removed \/ 1..Pages \subseteq inventory[p]
                    BY <1>2 DEF Behind
                <5> QED
                    BY <1>1, <1>2, <2>4, <2>5, <3>2, <4>1, <5>1
                    DEF Resumes, Behind, PagesAssumption
            <4> SUFFICES ASSUME NEW c, c = [thread[t] EXCEPT !.at = "page", !.held = copy]
                         PROVE  ThreadInv' /\ thread' \in [Threads -> Command \cup {Idle}]
                OBVIOUS
            <4>3. thread' = [thread EXCEPT ![t] = c]
                BY <2>2, <3>2 DEF Continue, RunnerInv, TypeOK
            <4>4. /\ c \in Command /\ c.at = "page" /\ c.p = p /\ c.held = copy
                BY <1>1, <4>1 DEF Command, Places
            <4>5. Sound(c)'
                BY <4>1, <4>2, <4>4 DEF Sound, HasProfile, HasPackage, HasCopy
            <4> QED
                BY <1>1, <2>4, <4>3, <4>4, <4>5, OneMoves DEF RunnerInv
        <3> QED
            BY <3>1, <3>2
    <2> QED
        BY <1>1, <2>4, <2>7, <2>8 DEF RunnerInv, TypeOK, GrantsFollowConsent
<1>4. CASE ~(profile[p] # Absent /\ profile[p].folder = held.folder)
    <2>1. UNCHANGED <<profile, inventory>> /\ Finish(t)
        BY <1>4 DEF MergePage
    <2>2. ThreadInv' /\ thread' \in [Threads -> Command \cup {Idle}]
        BY <1>1, <2>1, IdleSound, OneMoves DEF Finish, RunnerInv
    <2> QED
        BY <1>1, <2>1, <2>2 DEF RunnerInv, TypeOK, ProfileInv, Resumes, GrantsFollowConsent
<1> QED
    BY <1>3, <1>4

\* The package is replaced under everything the commands loaded.
LEMMA ReplaceKeeps ==
    ASSUME RunnerInv, NEW t \in Threads, NEW package \in Packages \cup {Absent},
           ReplacePackage(t, package)
    PROVE  RunnerInv'
<1> DEFINE c == [thread[t] EXCEPT !.at = "compare", !.held = Absent]
<1>1. /\ thread' = [thread EXCEPT ![t] = c] /\ At(t, "replace") /\ live' = package
      /\ UNCHANGED <<profile, inventory, grants, made, removed, consent>>
    BY DEF ReplacePackage, Continue, RunnerInv, TypeOK, catalog, history
<1>2. c \in Command /\ Sound(c)
    <2>1. thread[t] \in Command
        BY <1>1 DEF RunnerInv, TypeOK, At, Idle
    <2> QED
        BY <2>1 DEF Command, Places, Sound, HasProfile, HasPackage, HasCopy
<1> HIDE DEF c
<1>3. ThreadInv' /\ thread' \in [Threads -> Command \cup {Idle}]
    BY <1>1, <1>2, SoundLater, OneMoves DEF RunnerInv
<1> QED
    BY <1>1, <1>3 DEF RunnerInv, TypeOK, ProfileInv, Resumes, GrantsFollowConsent

\* The program stops, or something else moves.
LEMMA RestKeeps ==
    ASSUME RunnerInv, Restart \/ UNCHANGED vars
    PROVE  RunnerInv'
<1>1. UNCHANGED <<live, profile, inventory, grants, made, removed, consent>>
    BY DEF Restart, Stutters, catalog, history, vars
<1>2. ThreadInv' /\ thread' \in [Threads -> Command \cup {Idle}]
    <2>1. CASE Restart
        BY <2>1, IdleSound DEF Restart, ThreadInv
    <2>2. CASE UNCHANGED thread
        BY <1>1, <2>2 DEF RunnerInv, TypeOK, ThreadInv, Sound, HasProfile, HasPackage, HasCopy,
           Resumes
    <2> QED
        BY <2>1, <2>2 DEF vars
<1> QED
    BY <1>1, <1>2 DEF RunnerInv, TypeOK, ProfileInv, Resumes, GrantsFollowConsent

------------------------------------------------------------------------------
(* The theorems *)

\* A library without a profile.
LEMMA InitKeeps == Init => RunnerInv
BY IdleSound DEF Init, RunnerInv, TypeOK, ThreadInv, ProfileInv, GrantsFollowConsent

\* Every step keeps the invariant.
LEMMA NextKeeps ==
    ASSUME ValuesAssumption, PagesAssumption, RunnerInv, [Next]_vars
    PROVE  RunnerInv'
<1>1. ASSUME NEW t \in Threads, Begin(t) \/ CancelImport(t) PROVE RunnerInv'
    BY <1>1, BeginKeeps, ReadKeeps
<1>2. ASSUME NEW t \in Threads, Step(t) PROVE RunnerInv'
    BY <1>2, ReadKeeps, SaveKeeps, ConsentKeeps, RevokeKeeps, MergeKeeps, ReplaceKeeps DEF Step
<1> QED
    BY <1>1, <1>2, RevokeKeeps, RestKeeps DEF Next

\* Whatever the commands, the installer and the restarts do in whatever order, the
\* catalog and the copies the commands carry say the same of every profile.
THEOREM RunnerInvariant ==
    ASSUME ValuesAssumption, PagesAssumption
    PROVE  Spec => []RunnerInv
BY InitKeeps, NextKeeps, PTL DEF Spec

\* Every variable keeps its type.
THEOREM TypeCorrect ==
    ASSUME ValuesAssumption, PagesAssumption
    PROVE  Spec => []TypeOK
<1>1. RunnerInv => TypeOK
    BY DEF RunnerInv
<1> QED
    BY <1>1, RunnerInvariant, PTL

\* A permission is never recorded against a package its user's word does not cover.
THEOREM GrantsAreGiven ==
    ASSUME ValuesAssumption, PagesAssumption
    PROVE  Spec => []GrantsFollowConsent
<1>1. RunnerInv => GrantsFollowConsent
    BY DEF RunnerInv
<1> QED
    BY <1>1, RunnerInvariant, PTL

\* No stale copy of a profile takes its cursor past a game that was not imported.
THEOREM ImportsResume ==
    ASSUME ValuesAssumption, PagesAssumption
    PROVE  Spec => []ResumeSkipsNothing
<1>1. RunnerInv => ResumeSkipsNothing
    BY DEF RunnerInv, ProfileInv, Resumes, Behind, ResumeSkipsNothing
<1> QED
    BY <1>1, RunnerInvariant, PTL

\* A command that had its grants to resolve comes to the pages by resolving them.
LEMMA OnlyResolveReads ==
    ASSUME RunnerInv, Next, NEW t \in Threads, At(t, "resolve"), thread'[t].at = "page"
    PROVE  ResolveGrants(t)
<1> USE DEF Start, Continue, Finish, Revalidate, Idle, At
<1>1. ASSUME NEW u \in Threads \ {t}, Begin(u) PROVE thread'[t].at = thread[t].at
    <2>1. ASSUME NEW p \in Profiles, DeleteProfile(u, p) PROVE thread'[t].at = thread[t].at
        BY <1>1, <2>1 DEF DeleteProfile, RunnerInv, TypeOK, Command
    <2>2. CASE BeginOperation(u)
        BY <1>1, <2>2 DEF BeginOperation, RunnerInv, TypeOK
    <2> QED
        BY <1>1, <2>1, <2>2 DEF Begin, CreateProfile, EditProfile, SetEnabled, SetLaunchMode,
           StartImport, PickFolder, RunnerInv, TypeOK
<1>2. ASSUME NEW u \in Threads \ {t}, Step(u) \/ CancelImport(u)
      PROVE  thread'[t].at = thread[t].at
    BY <1>2 DEF Step, Load, CommitCreated, Save, Ask, Answer, CommitRemoved, CommitFolder,
       ResolveGrants, DiscoverPage, MergePage, ReplacePackage, CompareIdentity, ForgetPlugin,
       CancelImport, RunnerInv, TypeOK
<1>3. ASSUME Step(t) PROVE ResolveGrants(t)
    BY <1>3 DEF Step, Load, CommitCreated, Save, Ask, Answer, CommitRemoved, CommitFolder,
       DiscoverPage, MergePage, ReplacePackage, CompareIdentity, ForgetPlugin
<1>4. ~Begin(t)
    BY DEF Begin, CreateProfile, EditProfile, SetEnabled, SetLaunchMode, DeleteProfile,
       StartImport, PickFolder, BeginOperation, Opens
<1>5. ~CancelImport(t)
    BY DEF CancelImport, RunnerInv, TypeOK, Command
<1>6. ASSUME (\E p \in Profiles : RevokeFolder(p)) \/ Restart PROVE FALSE
    BY <1>6 DEF RevokeFolder, Restart
<1> QED
    BY <1>1, <1>2, <1>3, <1>4, <1>5, <1>6 DEF Next

\* An import that starts to read has the user's word, for its profile and for a
\* package it covers.
THEOREM ReadsAreAllowed ==
    ASSUME ValuesAssumption, PagesAssumption
    PROVE  Spec => ReadsWithConsent
<1>1. RunnerInv /\ [Next]_vars => [ReadHasConsent]_vars
    <2> SUFFICES ASSUME RunnerInv, Next, NEW t \in Threads, At(t, "resolve"),
                        thread'[t].at = "page", thread[t].p \notin removed
                 PROVE  Covers(consent["files"][thread[t].p], thread[t].package)
        BY DEF ReadHasConsent
    <2>1. ResolveGrants(t)
        BY OnlyResolveReads
    <2>2. /\ thread[t].p \in Profiles
          /\ grants["files"] # Absent /\ AppliesTo(grants["files"], thread[t].package)
          /\ thread[t].p \in grants["files"].scope
        <3>1. ~Finish(t)
            BY DEF Finish, Idle, RunnerInv, TypeOK
        <3>2. thread[t].p \in Profiles
            BY DEF At, RunnerInv, ThreadInv, Sound, HasProfile
        <3> QED
            BY <2>1, <3>1, <3>2 DEF ResolveGrants, Holds
    <2>3. Covers(consent["files"][thread[t].p], grants["files"].package)
        BY <2>2 DEF RunnerInv, GrantsFollowConsent, Capabilities
    <2> QED
        BY <2>2, <2>3, CoversOn
<1> QED
    BY <1>1, RunnerInvariant, PTL DEF Spec, ReadsWithConsent

------------------------------------------------------------------------------
(* RunnerImportPanel, for any number of jobs, and of calls of its panel     *)
(*                                                                          *)
(* An answer may cross another, the job it speaks of ending in between; so  *)
(* the invariant says of every answer on its way what the theorem says of   *)
(* the panel.                                                               *)

Phases == {"running"} \cup P!Ended

\* What is shown, or answered, is of a job there was, and an end it speaks of is its end.
TrueView(v) ==
    /\ v.phase \in Phases
    /\ v.phase = "failed" \/ v.job \in Jobs
    /\ v.phase \in {"ready", "cancelled"} => phase[v.job] = v.phase

TaskSound(t) ==
    /\ DOMAIN task[t] = {"kind", "at", "job", "answer"}
    /\ task[t].job \in Jobs \cup {None}
    /\ task[t].kind \in {"cancel", "poll"} \/ task[t].at = "started" => task[t].job \in Jobs
    /\ task[t].at = "answered" =>
        task[t].answer = P!Error \/ (TrueView(task[t].answer) /\ task[t].job \in Jobs)

TasksSound == DOMAIN task = Tasks /\ \A t \in Tasks : TaskSound(t)

\* Jobs are made one after another, and one that has a thread runs and is in the table.
JobsSound ==
    /\ phase \in [Jobs -> {"none"} \cup Phases]
    /\ \E n \in 0..Cardinality(Jobs) : P!Made = 1..n
    /\ table \subseteq P!Made /\ ours \subseteq Jobs /\ flagged \subseteq Jobs
    /\ IsFiniteSet(table) /\ Cardinality(table) <= MaxJobs
    /\ worker \subseteq table /\ \A j \in worker : phase[j] = "running"

Watched == P!IsRunning => \E t \in Tasks : task[t].kind \in {"start", "cancel", "poll"}

PanelInv ==
    /\ JobsSound
    /\ TasksSound
    /\ shown = None \/ TrueView(shown)
    /\ Watched
    /\ finding \in BOOLEAN /\ deleted \in BOOLEAN

\* What has ended stays as it ended.
EndsStay == \A j \in Jobs : phase[j] \in P!Ended => phase'[j] = phase[j]

------------------------------------------------------------------------------

\* The operators on finite sets are those of the library.
LEMMA CardinalityIs ==
    \A S : P!Cardinality(S) = Cardinality(S) /\ P!IsFiniteSet(S) = IsFiniteSet(S)
BY DEF P!Cardinality, Cardinality, P!IsFiniteSet, IsFiniteSet

\* There are finitely many jobs, numbered from 1.
LEMMA JobsFinite ==
    ASSUME P!PanelAssumption
    PROVE  /\ MaxJobs \in Nat /\ MaxJobs > 0 /\ Cardinality(Jobs) \in Nat
           /\ Jobs = 1..Cardinality(Jobs)
BY CardinalityIs, FS_CardinalityType DEF P!PanelAssumption

\* A job that starts is a new one, and makes place in the table if it has to.
LEMMA StartsKeeps ==
    ASSUME P!PanelAssumption, JobsSound, NEW mine, NEW spawned, P!Starts(mine, spawned)
    PROVE  JobsSound' /\ EndsStay /\ P!NewJob \in Jobs
<1> DEFINE j == P!NewJob
<1>1. PICK n \in 0..Cardinality(Jobs) : P!Made = 1..n
    BY DEF JobsSound
<1>2. n \in Nat /\ Cardinality(1..n) = n
    <2>1. Cardinality(Jobs) \in Nat
        BY JobsFinite
    <2>2. n \in Nat
        BY <2>1
    <2> QED
        BY <2>2, FS_Interval
<1>3. j = n + 1 /\ j \in Jobs /\ j \notin P!Made
    BY <1>1, <1>2, CardinalityIs DEF P!NewJob, P!Starts
<1> HIDE DEF j
<1>4. /\ phase' = [phase EXCEPT ![j] = "running"]
      /\ ours' \in {ours, ours \cup {j}} /\ worker' \in {worker, worker \cup {j}}
      /\ flagged' = flagged
    BY DEF P!Starts, j
<1>5. phase[j] = "none"
    BY <1>3 DEF P!Made
<1>6. PICK kept \in P!MakesPlace : table' = kept \cup {j}
    BY DEF P!Starts, j
<1>7. /\ kept \subseteq table /\ worker \subseteq kept
      /\ IsFiniteSet(kept) /\ Cardinality(kept) < MaxJobs
    <2>0. IsFiniteSet(table) /\ Cardinality(table) \in Nat /\ Cardinality(table) <= MaxJobs
        BY FS_CardinalityType DEF JobsSound
    <2>1. CASE Cardinality(table) < MaxJobs
        BY <1>6, <2>0, <2>1, CardinalityIs DEF P!MakesPlace, JobsSound
    <2>2. CASE ~(Cardinality(table) < MaxJobs)
        <3>1. PICK k \in table : phase[k] \in P!Ended /\ kept = table \ {k}
            BY <1>6, <2>2, CardinalityIs DEF P!MakesPlace
        <3>2. k \notin worker
            BY <3>1 DEF JobsSound, P!Ended
        <3>3. IsFiniteSet(kept) /\ Cardinality(kept) = Cardinality(table) - 1
            BY <2>0, <3>1, FS_RemoveElement
        <3> QED
            BY <2>0, <3>1, <3>2, <3>3, JobsFinite DEF JobsSound
    <2> QED
        BY <2>1, <2>2
<1>8. IsFiniteSet(table') /\ Cardinality(table') <= MaxJobs
    <2>1. /\ IsFiniteSet(table')
          /\ Cardinality(table') \in {Cardinality(kept), Cardinality(kept) + 1}
        BY <1>6, <1>7, FS_AddElement
    <2>2. Cardinality(kept) \in Nat
        BY <1>7, FS_CardinalityType
    <2> QED
        BY <1>7, <2>1, <2>2, JobsFinite
<1>9. phase' \in [Jobs -> {"none"} \cup Phases]
    BY <1>4 DEF JobsSound, Phases
<1>10. \A k \in Jobs \ {j} : phase'[k] = phase[k]
    BY <1>4 DEF JobsSound
<1>11. phase'[j] = "running"
    BY <1>3, <1>4 DEF JobsSound
<1>12. EndsStay
    BY <1>5, <1>10 DEF EndsStay, P!Ended
<1>13. P!Made' = P!Made \cup {j}
    BY <1>3, <1>10, <1>11 DEF P!Made
<1>14. \E m \in 0..Cardinality(Jobs) : P!Made' = 1..m
    <2>1. n + 1 \in 0..Cardinality(Jobs)
        <3>1. n + 1 \in Jobs
            BY <1>3
        <3>2. n + 1 \in 1..Cardinality(Jobs) /\ Cardinality(Jobs) \in Nat
            BY <3>1, JobsFinite
        <3> QED
            BY <1>2, <3>2
    <2>2. P!Made' = 1..(n + 1)
        BY <1>1, <1>2, <1>3, <1>13
    <2> QED
        BY <2>1, <2>2
<1>15. table' \subseteq P!Made' /\ worker' \subseteq table'
    BY <1>4, <1>6, <1>7, <1>13 DEF JobsSound
<1>16. \A k \in worker' : phase'[k] = "running"
    <2>1. worker \subseteq Jobs
        BY DEF JobsSound, P!Made
    <2> QED
        BY <1>4, <1>10, <1>11, <2>1 DEF JobsSound
<1>17. ours' \subseteq Jobs /\ flagged' \subseteq Jobs
    BY <1>3, <1>4 DEF JobsSound
<1> QED
    BY <1>3, <1>8, <1>9, <1>12, <1>14, <1>15, <1>16, <1>17 DEF JobsSound, j

\* Finish: the thread is gone, and only now is there an end.
LEMMA FinishKeeps ==
    ASSUME JobsSound, NEW j \in Jobs, P!Finish(j)
    PROVE  JobsSound' /\ EndsStay
<1>1. /\ j \in worker /\ worker' = worker \ {j} /\ UNCHANGED <<table, ours, flagged>>
    BY DEF P!Finish
<1>2. PICK outcome \in P!Ended : phase' = [phase EXCEPT ![j] = outcome]
    BY DEF P!Finish
<1>3. /\ phase' \in [Jobs -> {"none"} \cup Phases]
      /\ \A k \in Jobs \ {j} : phase'[k] = phase[k]
      /\ phase'[j] = outcome
    BY <1>2 DEF JobsSound, Phases
<1>4. phase[j] = "running" /\ worker \subseteq Jobs
    BY <1>1 DEF JobsSound, P!Made
<1>5. EndsStay
    BY <1>3, <1>4 DEF EndsStay, P!Ended
<1>6. P!Made' = P!Made
    BY <1>3, <1>4 DEF P!Made, P!Ended
<1>7. \A k \in worker' : phase'[k] = "running"
    BY <1>1, <1>3, <1>4 DEF JobsSound
<1> QED
    BY <1>1, <1>3, <1>5, <1>6, <1>7 DEF JobsSound

\* What a call is told, and what the panel shows, stays true of its job.
LEMMA ViewStays ==
    ASSUME JobsSound, EndsStay, NEW v, TrueView(v)
    PROVE  v.phase \in {"ready", "cancelled"} => phase'[v.job] = v.phase
BY DEF TrueView, EndsStay, P!Ended

\* A call that does not move stays sound.
LEMMA TaskStays ==
    ASSUME JobsSound, EndsStay, NEW t, TaskSound(t), task'[t] = task[t]
    PROVE  TaskSound(t)'
<1>1. CASE task[t].at = "answered" /\ task[t].answer # P!Error
    <2>1. TrueView(task[t].answer)
        BY <1>1 DEF TaskSound
    <2>2. TrueView(task[t].answer)'
        BY <2>1 DEF TrueView, EndsStay, P!Ended
    <2> QED
        BY <1>1, <2>2 DEF TaskSound
<1>2. CASE ~(task[t].at = "answered" /\ task[t].answer # P!Error)
    BY <1>2 DEF TaskSound, P!Error, P!View
<1> QED
    BY <1>1, <1>2

\* What is shown stays true of its job.
LEMMA ShownStays ==
    ASSUME JobsSound, EndsStay, shown = None \/ TrueView(shown), shown' = shown
    PROVE  shown' = None \/ TrueView(shown)'
BY DEF TrueView, EndsStay, P!Ended

\* A call moves, and the others stay as they are.
LEMMA TaskMoves ==
    ASSUME JobsSound, EndsStay, TasksSound, NEW t \in Tasks, DOMAIN task' = Tasks,
           \A x \in Tasks \ {t} : task'[x] = task[x], TaskSound(t)'
    PROVE  TasksSound'
<1>1. ASSUME NEW x \in Tasks PROVE TaskSound(x)'
    BY TaskStays DEF TasksSound
<1> QED
    BY <1>1 DEF TasksSound

\* What is watched stays so while a call, a cancel or a poll stays one.
LEMMA WatchStays ==
    ASSUME Watched, shown' = shown,
           \A x \in Tasks : task'[x].kind = task[x].kind
                            \/ task[x].kind \notin {"start", "cancel", "poll"}
    PROVE  Watched'
BY DEF Watched, P!IsRunning

\* Answer.
LEMMA AnswerMoves ==
    ASSUME TasksSound, NEW t \in Tasks, NEW view, P!Answer(t, view)
    PROVE  /\ DOMAIN task' = Tasks /\ \A x \in Tasks \ {t} : task'[x] = task[x]
           /\ DOMAIN task'[t] = {"kind", "at", "job", "answer"}
           /\ task'[t].kind = task[t].kind /\ task'[t].job = task[t].job
           /\ task'[t].at = "answered" /\ task'[t].answer = view
BY DEF TasksSound, TaskSound, P!Answer

\* The status of a job there was is an error, or true.
LEMMA StatusIs ==
    ASSUME JobsSound, NEW j \in Jobs
    PROVE  P!StatusOf(j) = P!Error \/ TrueView(P!StatusOf(j))
BY DEF P!StatusOf, P!View, TrueView, JobsSound, P!Made

\* A call at rest.
LEMMA IdleIs ==
    /\ DOMAIN P!Idle = {"kind", "at", "job", "answer"}
    /\ P!Idle.kind = "none" /\ P!Idle.at = "idle" /\ P!Idle.job = None
BY DEF P!Idle


------------------------------------------------------------------------------
(* The commands *)

\* StartOther, Finish: the panel looks on.
LEMMA JobsMove ==
    ASSUME PanelInv, JobsSound', EndsStay, UNCHANGED <<shown, finding, task, deleted>>
    PROVE  PanelInv'
<1>1. TasksSound'
    BY TaskStays DEF PanelInv, TasksSound
<1>2. shown' = None \/ TrueView(shown)'
    BY ShownStays DEF PanelInv
<1>3. Watched'
    BY DEF PanelInv, Watched, P!IsRunning
<1> QED
    BY <1>1, <1>2, <1>3 DEF PanelInv

\* A step that leaves the jobs as they are.
LEMMA Unmoved ==
    ASSUME JobsSound, UNCHANGED <<table, phase, ours, worker>>,
           flagged' = flagged \/ flagged' \subseteq Jobs
    PROVE  JobsSound' /\ EndsStay
BY DEF JobsSound, EndsStay, P!Made

\* Start, status, cancel and delete, as the host answers them.
LEMMA CommandMoves ==
    ASSUME PanelInv, JobsSound', EndsStay, NEW t \in Tasks, DOMAIN task' = Tasks,
           \A x \in Tasks \ {t} : task'[x] = task[x], TaskSound(t)',
           task'[t].kind = task[t].kind \/ task[t].kind \notin {"start", "cancel", "poll"},
           UNCHANGED <<shown, finding>>, deleted' \in BOOLEAN
    PROVE  PanelInv'
<1>1. TasksSound'
    BY TaskMoves DEF PanelInv
<1>2. shown' = None \/ TrueView(shown)'
    BY ShownStays DEF PanelInv
<1>3. Watched'
    BY WatchStays DEF PanelInv
<1> QED
    BY <1>1, <1>2, <1>3 DEF PanelInv

\* An answer that is an error, or true of its job when it is given.
LEMMA AnswerKeeps ==
    ASSUME PanelInv, JobsSound', EndsStay, NEW t \in Tasks, NEW view, P!Answer(t, view),
           task[t].kind \in {"cancel", "poll"} => task[t].job \in Jobs,
           view = P!Error \/ (TrueView(view) /\ task[t].job \in Jobs /\ UNCHANGED phase),
           UNCHANGED <<shown, finding, deleted>>
    PROVE  PanelInv'
<1>1. /\ DOMAIN task' = Tasks /\ \A x \in Tasks \ {t} : task'[x] = task[x]
      /\ DOMAIN task'[t] = {"kind", "at", "job", "answer"}
      /\ task'[t].kind = task[t].kind /\ task'[t].job = task[t].job
      /\ task'[t].at = "answered" /\ task'[t].answer = view
    BY AnswerMoves DEF PanelInv
<1>2. task[t].job \in Jobs \cup {None}
    BY DEF PanelInv, TasksSound, TaskSound
<1>3. view = P!Error \/ (TrueView(task[t].answer)' /\ task[t].job \in Jobs)
    BY <1>1 DEF TrueView
<1>4. TaskSound(t)'
    BY <1>1, <1>2, <1>3 DEF TaskSound, P!Error, P!View
<1> QED
    BY <1>1, <1>4, CommandMoves DEF PanelInv

\* StartCommand, whether its thread can be spawned, or it is refused.
LEMMA CommandStarts ==
    ASSUME P!PanelAssumption, PanelInv, NEW t \in Tasks, P!StartCommand(t)
    PROVE  PanelInv'
<1>1. /\ JobsSound /\ task[t].kind = "start" /\ UNCHANGED <<shown, finding, deleted>>
      /\ DOMAIN task = Tasks /\ DOMAIN task[t] = {"kind", "at", "job", "answer"}
    BY DEF PanelInv, P!StartCommand, P!Screen, TasksSound, TaskSound
<1>2. CASE P!Starts(TRUE, TRUE) /\ task' = [task EXCEPT ![t].at = "started", ![t].job = P!NewJob]
    <2>1. JobsSound' /\ EndsStay /\ P!NewJob \in Jobs
        BY <1>1, <1>2, StartsKeeps
    <2>2. /\ DOMAIN task' = Tasks /\ \A x \in Tasks \ {t} : task'[x] = task[x]
          /\ DOMAIN task'[t] = {"kind", "at", "job", "answer"}
          /\ task'[t].kind = task[t].kind /\ task'[t].job = P!NewJob /\ task'[t].at = "started"
        BY <1>1, <1>2
    <2>3. TaskSound(t)'
        BY <2>1, <2>2 DEF TaskSound
    <2> QED
        BY <1>1, <2>1, <2>2, <2>3, CommandMoves DEF PanelInv
<1>3. CASE P!Starts(TRUE, FALSE) /\ P!Answer(t, P!Error)
    <2>1. JobsSound' /\ EndsStay
        BY <1>1, <1>3, StartsKeeps
    <2> QED
        BY <1>1, <1>3, <2>1, AnswerKeeps
<1>4. CASE P!Answer(t, P!Error) /\ UNCHANGED P!Host
    <2>1. JobsSound' /\ EndsStay
        BY <1>1, <1>4, Unmoved DEF P!Host
    <2> QED
        BY <1>1, <1>4, <2>1, AnswerKeeps
<1> QED
    BY <1>2, <1>3, <1>4 DEF P!StartCommand

\* StatusCommand.
LEMMA StatusKeeps ==
    ASSUME PanelInv, NEW t \in Tasks, P!StatusCommand(t)
    PROVE  PanelInv'
<1>1. /\ JobsSound /\ task[t].job \in Jobs
      /\ P!Answer(t, P!StatusOf(task[t].job))
      /\ UNCHANGED <<table, phase, ours, flagged, worker, shown, finding, deleted>>
    BY DEF PanelInv, P!StatusCommand, P!Host, P!Screen, TasksSound, TaskSound
<1>2. JobsSound' /\ EndsStay
    BY <1>1, Unmoved
<1>3. P!StatusOf(task[t].job) = P!Error \/ TrueView(P!StatusOf(task[t].job))
    BY <1>1, StatusIs
<1> QED
    BY <1>1, <1>2, <1>3, AnswerKeeps

\* CancelCommand.
LEMMA CancelKeeps ==
    ASSUME PanelInv, NEW t \in Tasks, P!CancelCommand(t)
    PROVE  PanelInv'
<1>1. /\ JobsSound /\ task[t].job \in Jobs
      /\ P!Answer(t, P!StatusOf(task[t].job))
      /\ flagged' = flagged \cup ({task[t].job} \cap table)
      /\ UNCHANGED <<table, phase, ours, worker, shown, finding, deleted>>
    BY DEF PanelInv, P!CancelCommand, P!Screen, TasksSound, TaskSound
<1>2. JobsSound' /\ EndsStay
    <2>1. flagged' \subseteq Jobs
        BY <1>1 DEF JobsSound
    <2> QED
        BY <1>1, <2>1, Unmoved
<1>3. P!StatusOf(task[t].job) = P!Error \/ TrueView(P!StatusOf(task[t].job))
    BY <1>1, StatusIs
<1> QED
    BY <1>1, <1>2, <1>3, AnswerKeeps

\* DeleteCommand, in its two steps.
LEMMA DeleteKeeps ==
    ASSUME PanelInv, NEW t \in Tasks, P!DeleteCommand(t)
    PROVE  PanelInv'
<1>1. /\ JobsSound /\ task[t].kind = "delete" /\ deleted \in BOOLEAN
      /\ DOMAIN task = Tasks /\ TaskSound(t)
      /\ UNCHANGED <<table, phase, ours, worker, shown, finding>>
    BY DEF PanelInv, P!DeleteCommand, P!Screen, TasksSound
<1>2. CASE /\ flagged' = flagged \cup (ours \cap table) /\ UNCHANGED deleted
           /\ task' = [task EXCEPT ![t].at = "commit"]
    <2>1. JobsSound' /\ EndsStay
        <3>1. flagged' \subseteq Jobs
            BY <1>1, <1>2 DEF JobsSound
        <3> QED
            BY <1>1, <3>1, Unmoved
    <2>2. /\ DOMAIN task' = Tasks /\ \A x \in Tasks \ {t} : task'[x] = task[x]
          /\ DOMAIN task'[t] = {"kind", "at", "job", "answer"}
          /\ task'[t].kind = "delete" /\ task'[t].job = task[t].job /\ task'[t].at = "commit"
        BY <1>1, <1>2 DEF TaskSound
    <2>3. TaskSound(t)'
        BY <1>1, <2>2 DEF TaskSound
    <2> QED
        BY <1>1, <1>2, <2>1, <2>2, <2>3, CommandMoves DEF PanelInv
<1>3. CASE deleted' = TRUE /\ task' = [task EXCEPT ![t] = P!Idle] /\ UNCHANGED flagged
    <2>1. JobsSound' /\ EndsStay
        BY <1>1, <1>3, Unmoved
    <2>2. /\ DOMAIN task' = Tasks /\ \A x \in Tasks \ {t} : task'[x] = task[x]
          /\ task'[t] = P!Idle
        BY <1>1, <1>3
    <2>3. TaskSound(t)'
        BY <2>2, IdleIs DEF TaskSound
    <2> QED
        BY <1>1, <1>3, <2>1, <2>2, <2>3, CommandMoves DEF PanelInv
<1> QED
    BY <1>2, <1>3 DEF P!DeleteCommand

------------------------------------------------------------------------------
(* The panel *)

\* A click drops the polls, and calls a command.
LEMMA ClickKeeps ==
    ASSUME PanelInv, NEW kind, NEW j \in Jobs \cup {None}, P!Click(kind, j),
           kind \in {"cancel", "poll"} => j \in Jobs,
           UNCHANGED <<table, phase, ours, flagged, worker>>
    PROVE  JobsSound' /\ EndsStay /\ TasksSound' /\ \E t \in Tasks : task'[t].kind = kind
<1>1. JobsSound /\ JobsSound' /\ EndsStay
    BY Unmoved DEF PanelInv
<1>2. PICK t \in Tasks :
        task' = [P!Invalidated EXCEPT
                   ![t] = [P!Idle EXCEPT !.kind = kind, !.at = "asked", !.job = j]]
    BY DEF P!Click
<1>3. /\ DOMAIN task' = Tasks
      /\ \A x \in Tasks \ {t} : task'[x] = task[x] \/ task'[x] = P!Idle
      /\ task'[t] = [P!Idle EXCEPT !.kind = kind, !.at = "asked", !.job = j]
    BY <1>2 DEF P!Invalidated
<1>4. /\ DOMAIN task'[t] = {"kind", "at", "job", "answer"}
      /\ task'[t].kind = kind /\ task'[t].at = "asked" /\ task'[t].job = j
    BY <1>3 DEF P!Idle
<1>5. TaskSound(t)'
    BY <1>4 DEF TaskSound
<1>6. ASSUME NEW x \in Tasks \ {t}
      PROVE  TaskSound(x)'
    <2>1. CASE task'[x] = task[x]
        BY <1>1, <2>1, TaskStays DEF PanelInv, TasksSound
    <2>2. CASE task'[x] = P!Idle
        BY <2>2, IdleIs DEF TaskSound
    <2> QED
        BY <1>3, <2>1, <2>2
<1>7. TasksSound'
    <2>1. \A x \in Tasks : TaskSound(x)'
        BY <1>5, <1>6
    <2> QED
        BY <1>3, <2>1 DEF TasksSound
<1> QED
    BY <1>1, <1>4, <1>7

\* StartImport, CancelImport, DeleteProfile.
LEMMA ClicksKeep ==
    ASSUME PanelInv, P!StartImport \/ P!CancelImport \/ P!DeleteProfile
    PROVE  PanelInv'
<1>1. CASE P!StartImport
    <2>1. /\ ~P!IsRunning /\ P!Click("start", None)
          /\ UNCHANGED <<table, phase, ours, flagged, worker, shown, finding, deleted>>
        BY <1>1 DEF P!StartImport, P!Host, P!Screen
    <2>2. JobsSound' /\ EndsStay /\ TasksSound'
        BY <2>1, ClickKeeps
    <2>3. shown' = None \/ TrueView(shown)'
        BY <2>1, <2>2, ShownStays DEF PanelInv
    <2> QED
        BY <2>1, <2>2, <2>3 DEF PanelInv, Watched, P!IsRunning
<1>2. CASE P!CancelImport
    <2>1. /\ P!IsRunning /\ P!Click("cancel", shown.job)
          /\ UNCHANGED <<table, phase, ours, flagged, worker, shown, finding, deleted>>
        BY <1>2 DEF P!CancelImport, P!Host, P!Screen
    <2>2. shown.job \in Jobs
        BY <2>1 DEF PanelInv, TrueView, P!IsRunning
    <2>3. JobsSound' /\ EndsStay /\ TasksSound' /\ \E t \in Tasks : task'[t].kind = "cancel"
        BY <2>1, <2>2, ClickKeeps
    <2>4. shown' = None \/ TrueView(shown)'
        BY <2>1, <2>3, ShownStays DEF PanelInv
    <2> QED
        BY <2>1, <2>3, <2>4 DEF PanelInv, Watched
<1>3. CASE P!DeleteProfile
    <2>1. /\ P!Click("delete", None) /\ shown' = None /\ finding' = FALSE
          /\ UNCHANGED <<table, phase, ours, flagged, worker, deleted>>
        BY <1>3 DEF P!DeleteProfile, P!Host
    <2>2. JobsSound' /\ EndsStay /\ TasksSound'
        BY <2>1, ClickKeeps
    <2> QED
        BY <2>1, <2>2 DEF PanelInv, Watched, P!IsRunning
<1> QED
    BY <1>1, <1>2, <1>3

\* SetLaunchMode: nothing is shown, and no poll acts again.
LEMMA LaunchModeKeeps ==
    ASSUME PanelInv, P!SetLaunchMode
    PROVE  PanelInv'
<1>1. /\ task' = P!Invalidated /\ shown' = None
      /\ UNCHANGED <<table, phase, ours, flagged, worker, finding, deleted>>
    BY DEF P!SetLaunchMode, P!Host
<1>2. JobsSound /\ JobsSound' /\ EndsStay
    BY <1>1, Unmoved DEF PanelInv
<1>3. DOMAIN task' = Tasks /\ \A x \in Tasks : task'[x] = task[x] \/ task'[x] = P!Idle
    BY <1>1 DEF P!Invalidated
<1>4. ASSUME NEW x \in Tasks
      PROVE  TaskSound(x)'
    <2>1. CASE task'[x] = task[x]
        BY <1>2, <2>1, TaskStays DEF PanelInv, TasksSound
    <2>2. CASE task'[x] = P!Idle
        BY <2>2, IdleIs DEF TaskSound
    <2> QED
        BY <1>3, <2>1, <2>2
<1> QED
    BY <1>1, <1>2, <1>3, <1>4 DEF PanelInv, TasksSound, Watched, P!IsRunning

\* Fire.
LEMMA FireKeeps ==
    ASSUME PanelInv, NEW t \in Tasks, P!Fire(t)
    PROVE  PanelInv'
<1>1. /\ JobsSound /\ task[t].kind = "poll" /\ task' = [task EXCEPT ![t].at = "asked"]
      /\ DOMAIN task = Tasks /\ TaskSound(t) /\ deleted \in BOOLEAN
      /\ UNCHANGED <<table, phase, ours, flagged, worker, shown, finding, deleted>>
    BY DEF PanelInv, P!Fire, P!Host, P!Screen, TasksSound
<1>2. JobsSound' /\ EndsStay
    BY <1>1, Unmoved
<1>3. /\ DOMAIN task' = Tasks /\ \A x \in Tasks \ {t} : task'[x] = task[x]
      /\ DOMAIN task'[t] = {"kind", "at", "job", "answer"}
      /\ task'[t].kind = "poll" /\ task'[t].job = task[t].job /\ task'[t].at = "asked"
    BY <1>1 DEF TaskSound
<1>4. TaskSound(t)'
    BY <1>1, <1>3 DEF TaskSound
<1> QED
    BY <1>1, <1>2, <1>3, <1>4, CommandMoves DEF PanelInv

\* Answered: what is told is shown, and polled again while it runs.
LEMMA AnsweredKeeps ==
    ASSUME PanelInv, NEW t \in Tasks, P!Answered(t)
    PROVE  PanelInv'
<1> DEFINE view == task[t].answer
<1>1. /\ JobsSound /\ TaskSound(t) /\ DOMAIN task = Tasks
      /\ task[t].at = "answered" /\ deleted \in BOOLEAN
      /\ UNCHANGED <<table, phase, ours, flagged, worker, finding, deleted>>
    BY DEF PanelInv, P!Answered, P!Host, TasksSound
<1>2. JobsSound' /\ EndsStay
    BY <1>1, Unmoved
<1>3. CASE view = P!Error
    <2>1. /\ shown' = P!View(IF task[t].kind = "cancel" THEN task[t].job ELSE None, "failed")
          /\ task' = [task EXCEPT ![t] = P!Idle]
        BY <1>3 DEF P!Answered
    <2>2. shown'.phase = "failed"
        BY <2>1 DEF P!View
    <2>3. /\ DOMAIN task' = Tasks /\ \A x \in Tasks \ {t} : task'[x] = task[x]
          /\ task'[t] = P!Idle
        BY <1>1, <2>1
    <2>4. TaskSound(t)'
        BY <2>3, IdleIs DEF TaskSound
    <2>5. TasksSound'
        BY <1>1, <1>2, <2>3, <2>4, TaskMoves DEF PanelInv
    <2> QED
        BY <1>1, <1>2, <2>2, <2>5
        DEF PanelInv, TrueView, Watched, P!IsRunning, Phases, P!Ended
<1>4. CASE view # P!Error
    <2>1. shown' = view /\ TrueView(view)
        BY <1>1, <1>4 DEF P!Answered, TaskSound
    <2>2. TrueView(shown)'
        BY <1>1, <2>1 DEF TrueView
    <2>3. CASE view.phase = "running"
        <3>1. P!Polls(t, task[t].job)
            BY <1>4, <2>3 DEF P!Answered, P!WatchesOn
        <3>2. /\ DOMAIN task' = Tasks /\ \A x \in Tasks \ {t} : task'[x] = task[x]
              /\ DOMAIN task'[t] = {"kind", "at", "job", "answer"}
              /\ task'[t].kind = "poll" /\ task'[t].job = task[t].job
              /\ task'[t].at = "armed"
            BY <1>1, <3>1 DEF P!Polls, P!Idle
        <3>3. task[t].job \in Jobs
            BY <1>1, <1>4 DEF TaskSound
        <3>4. TaskSound(t)'
            BY <3>2, <3>3 DEF TaskSound
        <3>5. TasksSound'
            BY <1>1, <1>2, <3>2, <3>4, TaskMoves DEF PanelInv
        <3> QED
            BY <1>1, <1>2, <2>2, <3>2, <3>5 DEF PanelInv, Watched
    <2>4. CASE view.phase # "running"
        <3>1. \/ task' = [task EXCEPT ![t] = P!Idle]
              \/ task' = [task EXCEPT ![t] = [P!Idle EXCEPT !.kind = "artwork", !.at = "refresh"]]
            BY <1>4, <2>4 DEF P!Answered, P!WatchesOn
        <3>2. /\ DOMAIN task' = Tasks /\ \A x \in Tasks \ {t} : task'[x] = task[x]
              /\ DOMAIN task'[t] = {"kind", "at", "job", "answer"}
              /\ task'[t].kind \in {"none", "artwork"} /\ task'[t].job = None
              /\ task'[t].at \in {"idle", "refresh"}
            <4>1. CASE task' = [task EXCEPT ![t] = P!Idle]
                BY <1>1, <4>1, IdleIs
            <4>2. CASE task' = [task EXCEPT ![t] =
                                  [P!Idle EXCEPT !.kind = "artwork", !.at = "refresh"]]
                BY <1>1, <4>2 DEF P!Idle
            <4> QED
                BY <3>1, <4>1, <4>2
        <3>3. TaskSound(t)'
            BY <3>2 DEF TaskSound
        <3>4. TasksSound'
            BY <1>1, <1>2, <3>2, <3>3, TaskMoves DEF PanelInv
        <3> QED
            BY <1>1, <1>2, <2>1, <2>2, <2>4, <3>4 DEF PanelInv, Watched, P!IsRunning
    <2> QED
        BY <2>3, <2>4
<1> QED
    BY <1>3, <1>4

\* FindArtwork.
LEMMA ArtworkKeeps ==
    ASSUME PanelInv, NEW t \in Tasks, P!FindArtwork(t)
    PROVE  PanelInv'
<1>1. /\ JobsSound /\ TaskSound(t) /\ DOMAIN task = Tasks /\ task[t].kind = "artwork"
      /\ UNCHANGED <<table, phase, ours, flagged, worker, shown, deleted>>
      /\ finding' \in BOOLEAN
      /\ task' = [task EXCEPT ![t].at = "fetch"] \/ task' = [task EXCEPT ![t] = P!Idle]
    BY DEF PanelInv, P!FindArtwork, P!Host, TasksSound
<1>2. JobsSound' /\ EndsStay
    BY <1>1, Unmoved
<1>3. /\ DOMAIN task' = Tasks /\ \A x \in Tasks \ {t} : task'[x] = task[x]
      /\ DOMAIN task'[t] = {"kind", "at", "job", "answer"}
      /\ task'[t].kind \in {"none", "artwork"} /\ task'[t].job \in Jobs \cup {None}
      /\ task'[t].at \in {"idle", "fetch"}
    BY <1>1, IdleIs DEF TaskSound
<1>4. TaskSound(t)'
    BY <1>3 DEF TaskSound
<1>5. TasksSound'
    BY <1>2, <1>3, <1>4, TaskMoves DEF PanelInv
<1>6. shown' = None \/ TrueView(shown)'
    BY <1>1, <1>2, ShownStays DEF PanelInv
<1>7. Watched'
    <2>1. \A x \in Tasks : task'[x].kind = task[x].kind
                            \/ task[x].kind \notin {"start", "cancel", "poll"}
        BY <1>1, <1>3
    <2> QED
        BY <1>1, <2>1, WatchStays DEF PanelInv
<1> QED
    BY <1>1, <1>2, <1>5, <1>6, <1>7 DEF PanelInv


\* The panel opens on a profile of which no import has been asked.
LEMMA PanelInit ==
    ASSUME P!PanelAssumption, P!Init
    PROVE  PanelInv
<1>1. /\ table = {} /\ ours = {} /\ flagged = {} /\ worker = {} /\ shown = None
      /\ phase = [j \in Jobs |-> "none"] /\ task = [t \in Tasks |-> P!Idle]
      /\ finding = FALSE /\ deleted = FALSE
    BY DEF P!Init
<1>2. P!Made = {} /\ phase \in [Jobs -> {"none"} \cup Phases]
    BY <1>1 DEF P!Made
<1>3. \E n \in 0..Cardinality(Jobs) : P!Made = 1..n
    <2>1. Cardinality(Jobs) \in Nat
        BY JobsFinite
    <2>2. 0 \in 0..Cardinality(Jobs) /\ 1..0 = {}
        BY <2>1
    <2> QED
        BY <1>2, <2>2
<1>4. IsFiniteSet(table) /\ Cardinality(table) <= MaxJobs
    BY <1>1, FS_EmptySet, JobsFinite
<1>5. JobsSound
    BY <1>1, <1>2, <1>3, <1>4 DEF JobsSound
<1>6. ASSUME NEW t \in Tasks PROVE TaskSound(t)
    <2>1. task[t] = P!Idle
        BY <1>1
    <2> QED
        BY <2>1, IdleIs DEF TaskSound
<1>7. TasksSound
    BY <1>1, <1>6 DEF TasksSound
<1> QED
    BY <1>1, <1>5, <1>7 DEF PanelInv, Watched, P!IsRunning

\* Every step of the host and of the panel.
LEMMA PanelNext ==
    ASSUME P!PanelAssumption, PanelInv, [P!Next]_(P!vars)
    PROVE  PanelInv'
<1>1. CASE UNCHANGED P!vars
    <2>1. UNCHANGED <<table, phase, ours, flagged, worker, shown, task, finding, deleted>>
        BY <1>1 DEF P!vars
    <2>2. JobsSound' /\ EndsStay
        BY <2>1, Unmoved DEF PanelInv
    <2> QED
        BY <2>1, <2>2, JobsMove
<1>2. CASE P!StartOther
    <2>1. PICK spawned \in BOOLEAN : P!Starts(FALSE, spawned)
        BY <1>2 DEF P!StartOther
    <2>2. UNCHANGED <<shown, finding, task, deleted>>
        BY <1>2 DEF P!StartOther, P!Screen
    <2>3. JobsSound' /\ EndsStay
        BY <2>1, StartsKeeps DEF PanelInv
    <2> QED
        BY <2>2, <2>3, JobsMove
<1>3. ASSUME NEW j \in Jobs, P!Finish(j)
      PROVE  PanelInv'
    <2>1. UNCHANGED <<shown, finding, task, deleted>>
        BY <1>3 DEF P!Finish, P!Screen
    <2>2. JobsSound' /\ EndsStay
        BY <1>3, FinishKeeps DEF PanelInv
    <2> QED
        BY <2>1, <2>2, JobsMove
<1>4. ASSUME NEW t \in Tasks,
             \/ P!StartCommand(t) \/ P!StatusCommand(t) \/ P!CancelCommand(t)
             \/ P!DeleteCommand(t)
             \/ P!Fire(t) \/ P!Answered(t) \/ P!FindArtwork(t)
      PROVE  PanelInv'
    BY <1>4, CommandStarts, StatusKeeps, CancelKeeps, DeleteKeeps, FireKeeps, AnsweredKeeps,
       ArtworkKeeps
<1>5. CASE P!StartImport \/ P!CancelImport \/ P!SetLaunchMode \/ P!DeleteProfile
    BY <1>5, ClicksKeep, LaunchModeKeeps
<1> QED
    BY <1>1, <1>2, <1>3, <1>4, <1>5 DEF P!Next

\* The table of jobs, their threads, what the calls and polls of the panel carry and what
\* it shows agree, for any number of jobs and calls.
THEOREM PanelInvariant ==
    ASSUME P!PanelAssumption
    PROVE  P!Spec => []PanelInv
BY PanelInit, PanelNext, PTL DEF P!Spec

\* Every variable keeps its type, and the table its bound.
THEOREM PanelTypes ==
    ASSUME P!PanelAssumption
    PROVE  P!Spec => []P!TypeOK
<1>1. PanelInv => P!TypeOK
    <2>1. PanelInv => /\ table \subseteq Jobs /\ ours \subseteq Jobs /\ flagged \subseteq Jobs
                      /\ worker \subseteq Jobs /\ Cardinality(table) <= MaxJobs
                      /\ phase \in [Jobs -> {"none", "running"} \cup P!Ended]
        BY DEF PanelInv, JobsSound, P!Made, Phases
    <2>2. PanelInv => /\ shown = None \/ shown.phase \in {"running"} \cup P!Ended
                      /\ \A t \in Tasks : task[t].job \in Jobs \cup {None}
                      /\ finding \in BOOLEAN /\ deleted \in BOOLEAN
        BY DEF PanelInv, TasksSound, TaskSound, TrueView, Phases
    <2> QED
        BY <2>1, <2>2, CardinalityIs DEF P!TypeOK
<1> QED
    BY <1>1, PanelInvariant, PTL

\* RunnerImportPanel!RunningIsWatched and EndIsTrue, which run library checks on two jobs:
\* an import that is shown as running has a call or a poll that will move it, the host
\* answers for whatever runs, and one that is shown as over ended as it is shown.
THEOREM ImportsAreWatched ==
    ASSUME P!PanelAssumption
    PROVE  P!Spec => [](P!RunningIsWatched /\ P!EndIsTrue)
<1>1. PanelInv => P!RunningIsWatched /\ P!EndIsTrue
    BY DEF PanelInv, Watched, P!RunningIsWatched, P!EndIsTrue, TrueView, JobsSound, P!Ended
<1> QED
    BY <1>1, PanelInvariant, PTL

------------------------------------------------------------------------------
(* ArtworkSlots *)

Asking(r) == r \in Roles \cup {"fetched"}

CommandSound(c) ==
    \/ command[c] = [at |-> "new"] \/ command[c] = [at |-> "done"]
    \/ /\ DOMAIN command[c] = {"at", "kind", "role"} /\ command[c].at = "search"
       /\ A!Asked(c) \subseteq Roles \cup {"fetched"}

\* A slot names what a store published, or the picture of a command that is over.
SlotSound(s) ==
    \/ slots[s] = None \/ slots[s] = A!Published
    \/ slots[s].by \in Commands /\ command[slots[s].by] = [at |-> "done"]

SlotsInv ==
    /\ DOMAIN command = Commands /\ \A c \in Commands : CommandSound(c)
    /\ DOMAIN slots = A!Slots /\ \A s \in A!Slots : SlotSound(s)

LEMMA CommandKinds ==
    ASSUME NEW c \in Commands, CommandSound(c)
    PROVE  /\ A!At(c, "search") =>
                /\ DOMAIN command[c] = {"at", "kind", "role"}
                /\ A!Asked(c) \subseteq Roles \cup {"fetched"}
                /\ command[c] # [at |-> "done"]
           /\ A!Active(c) <=> A!At(c, "search")
           /\ A!At(c, "new") => command[c] = [at |-> "new"]
           /\ command[c] = [at |-> "done"] =>
               ~A!Active(c) /\ ~A!At(c, "search") /\ ~A!At(c, "new")
BY DEF CommandSound, A!At, A!Active

\* A command that is over stays over: what a slot names goes on being sound.
LEMMA SlotKept ==
    ASSUME SlotsInv, NEW c \in Commands, command[c] # [at |-> "done"], slots' = slots,
           \A d \in Commands \ {c} : command'[d] = command[d]
    PROVE  \A s \in A!Slots : SlotSound(s)'
BY DEF SlotsInv, SlotSound

LEMMA BeginSound ==
    ASSUME SlotsInv, NEW c \in Commands, NEW kind, NEW roles,
           roles \subseteq Roles \cup {"fetched"}, A!Begin(c, kind, roles)
    PROVE  DOMAIN command' = Commands /\ CommandSound(c)'
           /\ \A d \in Commands \ {c} : command'[d] = command[d]
<1>1. /\ DOMAIN command' = Commands
      /\ command'[c] = [at |-> "search", kind |-> kind, role |-> [r \in roles |-> "asked"]]
      /\ \A d \in Commands \ {c} : command'[d] = command[d]
    BY DEF A!Begin, SlotsInv
<1>2. A!Asked(c)' = roles  BY <1>1 DEF A!Asked
<1> QED  BY <1>1, <1>2 DEF CommandSound

LEMMA StartSound ==
    ASSUME SlotsInv, NEW c \in Commands, A!Start(c)
    PROVE  SlotsInv'
<1>1. command[c] # [at |-> "done"] /\ slots' = slots
    BY DEF A!Start, A!At
<1>2. \E kind : \E roles \in SUBSET (Roles \cup {"fetched"}) : A!Begin(c, kind, roles)
  <2>1. A!Missing \subseteq Roles  BY DEF A!Missing
  <2> QED  BY <2>1 DEF A!Start, A!Reset, A!Fill, A!Fetch, A!TopUp, A!Pick
<1>3. /\ DOMAIN command' = Commands /\ CommandSound(c)'
      /\ \A d \in Commands \ {c} : command'[d] = command[d]
    BY <1>2, BeginSound
<1>4. \A d \in Commands : CommandSound(d)'
    BY <1>3 DEF SlotsInv, CommandSound, A!Asked
<1> QED  BY <1>1, <1>3, <1>4, SlotKept DEF SlotsInv

LEMMA AdvanceSound ==
    ASSUME SlotsInv, NEW c \in Commands, NEW r, NEW to, A!At(c, "search"), A!Advance(c, r, to)
    PROVE  /\ DOMAIN command' = Commands /\ \A d \in Commands : CommandSound(d)'
           /\ \A d \in Commands \ {c} : command'[d] = command[d]
           /\ command[c] # [at |-> "done"]
<1>1. CommandSound(c)  BY DEF SlotsInv
<1>2. /\ DOMAIN command[c] = {"at", "kind", "role"} /\ command[c] # [at |-> "done"]
      /\ A!Asked(c) \subseteq Roles \cup {"fetched"} /\ command[c].at = "search"
    BY <1>1, CommandKinds DEF A!At
<1>3. /\ DOMAIN command' = Commands
      /\ command'[c] = [command[c] EXCEPT !.role[r] = to]
      /\ \A d \in Commands \ {c} : command'[d] = command[d]
    BY DEF A!Advance, SlotsInv
<1>4. /\ DOMAIN command'[c] = {"at", "kind", "role"} /\ command'[c].at = "search"
      /\ command'[c].role = [command[c].role EXCEPT ![r] = to]
    BY <1>2, <1>3
<1>5. A!Asked(c)' = A!Asked(c)  BY <1>4 DEF A!Asked
<1>6. CommandSound(c)'  BY <1>2, <1>4, <1>5 DEF CommandSound
<1>7. \A d \in Commands : CommandSound(d)'
    BY <1>3, <1>6 DEF SlotsInv, CommandSound, A!Asked
<1> QED  BY <1>2, <1>3, <1>7

LEMMA FilesMove ==
    ASSUME SlotsInv, NEW c \in Commands, NEW r,
           A!NotFound(c, r) \/ A!Sweep(c, r) \/ A!Write(c, r)
    PROVE  SlotsInv'
<1>1. A!At(c, "search") /\ slots' = slots /\ \E to : A!Advance(c, r, to)
    BY DEF A!NotFound, A!Sweep, A!Write, A!Searching
<1>2. /\ DOMAIN command' = Commands /\ \A d \in Commands : CommandSound(d)'
      /\ \A d \in Commands \ {c} : command'[d] = command[d]
      /\ command[c] # [at |-> "done"]
    BY <1>1, AdvanceSound
<1> QED  BY <1>1, <1>2, SlotKept DEF SlotsInv

LEMMA CommitSound ==
    ASSUME SlotsInv, NEW c \in Commands, A!Commit(c)
    PROVE  SlotsInv'
<1>1. /\ DOMAIN command' = Commands /\ command'[c] = [at |-> "done"]
      /\ \A d \in Commands \ {c} : command'[d] = command[d]
    BY DEF A!Commit, A!End, SlotsInv
<1>2. command[c] # [at |-> "done"]  BY CommandKinds DEF A!Commit, SlotsInv
<1>3. \A d \in Commands : CommandSound(d)'
    BY <1>1 DEF SlotsInv, CommandSound, A!Asked
<1>4. DOMAIN slots' = A!Slots /\ \A s \in A!Slots : SlotSound(s)'
  <2>1. CASE slots' = slots  BY <1>2, <1>1, <2>1, SlotKept DEF SlotsInv
  <2>2. CASE slots' = A!Set(c)
    <3>1. DOMAIN slots' = A!Slots  BY <2>2 DEF A!Set
    <3> SUFFICES ASSUME NEW s \in A!Slots PROVE SlotSound(s)'
      BY <3>1
    <3>2. slots'[s] = slots[s] \/ \E r : slots'[s] = A!Picture(r, c)
      BY <2>2 DEF A!Set
    <3>3. CASE slots'[s] = slots[s]
      BY <1>1, <1>2, <3>3 DEF SlotsInv, SlotSound
    <3>4. CASE \E r : slots'[s] = A!Picture(r, c)
      <4>1. slots'[s].by = c  BY <3>4 DEF A!Picture
      <4> QED  BY <1>1, <4>1 DEF SlotSound
    <3> QED  BY <3>2, <3>3, <3>4
  <2> QED  BY <2>1, <2>2 DEF A!Commit
<1> QED  BY <1>1, <1>3, <1>4 DEF SlotsInv

\* artwork_backfill.rs, lib.rs: the inductive invariant of the pictures: a slot names
\* what the store published, or a picture whose command is over, which names no other.
THEOREM SlotsInvariant == A!Spec => []SlotsInv
<1>1. A!Init => SlotsInv
    BY DEF A!Init, SlotsInv, SlotSound, CommandSound
<1>2. SlotsInv /\ [A!Next]_(A!vars) => SlotsInv'
  <2> SUFFICES ASSUME SlotsInv, [A!Next]_(A!vars)  PROVE SlotsInv'
    OBVIOUS
  <2>1. CASE \E c \in Commands : A!Start(c)  BY <2>1, StartSound
  <2>2. CASE \E c \in Commands : A!Commit(c)  BY <2>2, CommitSound
  <2>3. CASE \E c \in Commands, r \in Roles \cup {"fetched"} :
                A!NotFound(c, r) \/ A!Sweep(c, r) \/ A!Write(c, r)
    BY <2>3, FilesMove
  <2>4. CASE A!Prune \/ A!Retry \/ UNCHANGED A!vars
    BY <2>4 DEF A!Prune, A!Retry, A!vars, SlotsInv, SlotSound, CommandSound, A!Asked
  <2> QED  BY <2>1, <2>2, <2>3, <2>4 DEF A!Next
<1> QED  BY <1>1, <1>2, PTL DEF A!Spec

\* The step of a top-up is a step it takes itself.
LEMMA OwnStep ==
    ASSUME SlotsInv, [A!Next]_(A!vars), NEW c \in Commands, A!Active(c), command'[c] # command[c]
    PROVE  \/ A!Commit(c)
           \/ \E r \in Roles \cup {"fetched"} : A!NotFound(c, r) \/ A!Sweep(c, r) \/ A!Write(c, r)
<1>1. CASE \E d \in Commands : A!Start(d)
  <2>1. PICK d \in Commands : A!Start(d)  BY <1>1
  <2>2. d = c  BY <2>1 DEF A!Start, A!Begin, A!Reset, A!Fill, A!Fetch, A!TopUp, A!Pick, SlotsInv
  <2> QED  BY <2>1, <2>2 DEF A!Start, A!Active
<1>2. CASE \E d \in Commands : A!Commit(d)
  <2>1. PICK d \in Commands : A!Commit(d)  BY <1>2
  <2>2. d = c  BY <2>1 DEF A!Commit, A!End, SlotsInv
  <2> QED  BY <2>1, <2>2
<1>3. CASE \E d \in Commands, r \in Roles \cup {"fetched"} :
                A!NotFound(d, r) \/ A!Sweep(d, r) \/ A!Write(d, r)
  <2>1. PICK d \in Commands, r \in Roles \cup {"fetched"} :
                A!NotFound(d, r) \/ A!Sweep(d, r) \/ A!Write(d, r)
      BY <1>3
  <2>2. \E to : A!Advance(d, r, to)  BY <2>1 DEF A!NotFound, A!Sweep, A!Write
  <2>3. d = c  BY <2>2 DEF A!Advance, SlotsInv
  <2> QED  BY <2>1, <2>3
<1>4. CASE A!Prune \/ A!Retry \/ UNCHANGED A!vars
  BY <1>4 DEF A!Prune, A!Retry, A!vars
<1> QED  BY <1>1, <1>2, <1>3, <1>4 DEF A!Next

\* artwork_backfill.rs: no step of a top-up changes a slot that shows a picture, or
\* takes its file, whatever other commands and the system do meanwhile.
THEOREM GapsAreFilled ==
    ASSUME A!RolesAssumption
    PROVE  A!Spec => [][A!TopUpFillsGaps]_(A!vars)
<1>1. SlotsInv /\ [A!Next]_(A!vars) => A!TopUpFillsGaps
  <2> SUFFICES ASSUME SlotsInv, [A!Next]_(A!vars), NEW c \in Commands, A!Active(c),
                      command[c].kind = "topup", command'[c] # command[c],
                      NEW s \in A!Slots, slots[s] \in files
               PROVE  slots'[s] = slots[s] /\ slots[s] \in files'
    BY DEF A!TopUpFillsGaps, A!Usable
  <2>1. CASE \E r \in Roles \cup {"fetched"} : A!NotFound(c, r) \/ A!Sweep(c, r) \/ A!Write(c, r)
    BY <2>1 DEF A!NotFound, A!Sweep, A!Write
  <2>2. CASE A!Commit(c)
    <3>1. A!Allowed(c) = A!Written(c) \cap A!Missing  BY DEF A!Allowed
    <3>2. \A r \in A!Missing : s \notin A!Target("topup", r)
        BY A!RolesAssumption DEF A!Missing, A!Target, A!Usable, A!RolesAssumption
    <3>3. slots'[s] = slots[s]  BY <2>2, <3>1, <3>2 DEF A!Commit, A!Set
    <3>4. SlotSound(s) /\ CommandSound(c)  BY DEF SlotsInv
    <3>5. ASSUME NEW r \in A!Written(c), slots[s] = A!Picture(r, c)  PROVE FALSE
      <4>1. slots[s].by = c  BY <3>5 DEF A!Picture
      <4>2. r \in Roles \cup {"fetched"} /\ command[c] # [at |-> "done"]
          BY <2>2, <3>4, <3>5, CommandKinds DEF A!Commit, A!Written
      <4>3. slots[s] # None  BY <3>5, <4>2, A!RolesAssumption DEF A!RolesAssumption, A!Picture
      <4>4. A!Published.by = None /\ None # c
          BY A!RolesAssumption DEF A!RolesAssumption, A!Published, A!Picture
      <4> QED  BY <3>4, <4>1, <4>2, <4>3, <4>4 DEF SlotSound
    <3>6. slots[s] \in files'  BY <2>2, <3>5 DEF A!Commit
    <3> QED  BY <3>3, <3>6
  <2> QED  BY <2>1, <2>2, OwnStep
<1> QED  BY <1>1, SlotsInvariant, PTL DEF A!Spec

------------------------------------------------------------------------------
(* The cards of the library *)

\* What Min picks out of a set of numbers is one of them, and the least.
LEMMA LeastExists ==
    ASSUME NEW S \in SUBSET Nat, S # {}
    PROVE  K!Min(S) \in S /\ \A n \in S : K!Min(S) =< n
<1> DEFINE R == {ss \in Nat \X Nat : ss[1] < ss[2]}
<1>1. OpToRel(<, Nat) = R
    BY Zenon DEF OpToRel
<1>2. \A m \in S, n \in S : <<m, n>> \in R <=> m < n
    OBVIOUS
<1>3. IsWellFoundedOn(R, Nat)
    BY <1>1, NatLessThanWellFounded, Zenon
<1> HIDE DEF R
<1>4. \E n \in S : \A m \in S : ~ (<<m, n>> \in R)
    BY <1>3, WFMin, Zenon
<1>5. PICK n \in S : \A m \in S : ~ (<<m, n>> \in R)
    BY <1>4, Zenon
<1>6. \A m \in S : ~(m < n)
    BY <1>2, <1>5, Zenon
<1>7. \A m \in S : n =< m
    BY <1>6
<1> QED
    BY <1>7 DEF K!Min


------------------------------------------------------------------------------
(* What the walks over a sequence leave.  A walk is a function defined by   *)
(* recursion on the places: that there is one is shown first.               *)

\* What is appended is one more.
LEMMA AppendSet ==
    ASSUME NEW E, NEW s \in Seq(E), NEW x
    PROVE  K!ToSet(Append(s, x)) = K!ToSet(s) \cup {x}
<1> DEFINE r == Append(s, x)
<1>1. /\ DOMAIN r = 1..Len(s) + 1 /\ r[Len(s) + 1] = x
      /\ \A i \in 1..Len(s) : r[i] = s[i]
      /\ Len(s) \in Nat /\ DOMAIN s = 1..Len(s)
    OBVIOUS
<1> HIDE DEF r
<1>2. \A c \in K!ToSet(r) : c \in K!ToSet(s) \cup {x}
    <2> SUFFICES ASSUME NEW i \in 1..Len(s) + 1  PROVE r[i] \in K!ToSet(s) \cup {x}
        BY <1>1 DEF K!ToSet
    <2> QED  BY <1>1 DEF K!ToSet
<1>3. \A c \in K!ToSet(s) \cup {x} : c \in K!ToSet(r)
    <2>1. \A i \in 1..Len(s) : i \in DOMAIN r /\ r[i] = s[i]  BY <1>1
    <2>2. Len(s) + 1 \in DOMAIN r  BY <1>1
    <2> QED  BY <1>1, <2>1, <2>2 DEF K!ToSet
<1> QED  BY <1>2, <1>3 DEF r

\* No two cards are of one way.
Lone(s) == \A i, j \in DOMAIN s : s[i].way = s[j].way => i = j

LEMMA AppendLone ==
    ASSUME NEW E, NEW s \in Seq(E), NEW x, Lone(s), \A c \in K!ToSet(s) : c.way # x.way
    PROVE  Lone(Append(s, x))
<1> DEFINE r == Append(s, x)
<1>1. /\ DOMAIN r = 1..Len(s) + 1 /\ r[Len(s) + 1] = x
      /\ \A i \in 1..Len(s) : r[i] = s[i]
      /\ Len(s) \in Nat /\ DOMAIN s = 1..Len(s)
    OBVIOUS
<1> HIDE DEF r
<1>2. \A i \in 1..Len(s) : r[i].way # x.way  BY <1>1 DEF K!ToSet
<1>3. \A i, j \in 1..Len(s) : r[i].way = r[j].way => i = j  BY <1>1 DEF Lone
<1>4. \A i \in 1..Len(s) + 1 : i \in 1..Len(s) \/ i = Len(s) + 1  BY <1>1
<1> QED  BY <1>1, <1>2, <1>3, <1>4 DEF Lone, r

KeptBy(s, some, k, m) ==
    k = [n \in 0..m |-> IF n = 0 THEN <<>>
                        ELSE IF s[n] \in some THEN Append(k[n - 1], s[n]) ELSE k[n - 1]]

LEMMA KeepExists ==
    ASSUME NEW s, NEW some, NEW m \in Nat
    PROVE  \E k : KeptBy(s, some, k, m)
<1> DEFINE Bad == {n \in Nat : ~\E k : KeptBy(s, some, k, n)}
<1>1. SUFFICES ASSUME Bad # {}  PROVE FALSE  OBVIOUS
<1>2. K!Min(Bad) \in Bad /\ \A n \in Bad : K!Min(Bad) =< n  BY <1>1, LeastExists
<1>3. PICK least \in Nat : least \in Bad /\ \A n \in Bad : least =< n  BY <1>2
<1>4. CASE least = 0
    <2>1. KeptBy(s, some, [n \in 0..0 |-> <<>>], 0)  BY DEF KeptBy
    <2> QED  BY <1>3, <1>4, <2>1
<1>5. CASE least # 0
    <2>1. least - 1 \in Nat /\ least - 1 \notin Bad  BY <1>3, <1>5
    <2>2. PICK k : KeptBy(s, some, k, least - 1)  BY <2>1
    <2> DEFINE last == IF s[least] \in some THEN Append(k[least - 1], s[least])
                       ELSE k[least - 1]
               all == [n \in 0..least |-> IF n = least THEN last ELSE k[n]]
    <2>3. \A n \in 0..least - 1 :
            k[n] = IF n = 0 THEN <<>>
                   ELSE IF s[n] \in some THEN Append(k[n - 1], s[n]) ELSE k[n - 1]
        BY <2>2 DEF KeptBy
    <2>4. all[least] = last /\ \A n \in 0..least - 1 : all[n] = k[n]  BY <1>3, <1>5
    <2>5. ASSUME NEW n \in 0..least
          PROVE  all[n] = IF n = 0 THEN <<>>
                          ELSE IF s[n] \in some THEN Append(all[n - 1], s[n]) ELSE all[n - 1]
        <3>1. CASE n = least
            <4>1. all[n] = last /\ all[n - 1] = k[least - 1]  BY <1>3, <1>5, <2>4, <3>1
            <4> QED  BY <1>5, <3>1, <4>1
        <3>2. CASE n # least
            <4>1. n \in 0..least - 1 /\ (n # 0 => n - 1 \in 0..least - 1)  BY <3>2
            <4>2. all[n] = k[n] /\ (n # 0 => all[n - 1] = k[n - 1])  BY <2>4, <4>1
            <4> QED  BY <2>3, <4>1, <4>2
        <3> QED  BY <3>1, <3>2
    <2>6. KeptBy(s, some, all, least)
        <3>1. all = [n \in 0..least |-> all[n]]  OBVIOUS
        <3> HIDE DEF all
        <3> QED  BY <2>5, <3>1 DEF KeptBy
    <2> QED  BY <1>3, <2>6
<1> QED  BY <1>4, <1>5

\* One step of the walk after the other.
LEMMA KeepSteps ==
    ASSUME NEW s, Len(s) \in Nat, NEW some
    PROVE  \E k : /\ K!Keep(s, some) = k[Len(s)] /\ k[0] = <<>>
                  /\ \A n \in 1..Len(s) :
                        k[n] = IF s[n] \in some THEN Append(k[n - 1], s[n]) ELSE k[n - 1]
<1> DEFINE k == CHOOSE c : KeptBy(s, some, c, Len(s))
<1>1. KeptBy(s, some, k, Len(s))  BY KeepExists
<1>2. K!Keep(s, some) = k[Len(s)]  BY DEF K!Keep, KeptBy
<1> HIDE DEF k
<1>3. \A n \in 0..Len(s) :
            k[n] = IF n = 0 THEN <<>>
                   ELSE IF s[n] \in some THEN Append(k[n - 1], s[n]) ELSE k[n - 1]
    BY <1>1 DEF KeptBy
<1> QED  BY <1>2, <1>3

\* What is kept is what is there and among some.
LEMMA KeepIs ==
    ASSUME NEW E, NEW s \in Seq(E), NEW some
    PROVE  /\ K!Keep(s, some) \in Seq(E)
           /\ K!ToSet(K!Keep(s, some)) = K!ToSet(s) \cap some
           /\ Lone(s) => Lone(K!Keep(s, some))
<1>1. PICK k : /\ K!Keep(s, some) = k[Len(s)] /\ k[0] = <<>>
               /\ \A n \in 1..Len(s) :
                     k[n] = IF s[n] \in some THEN Append(k[n - 1], s[n]) ELSE k[n - 1]
    BY KeepSteps
<1>2. /\ Len(s) \in Nat /\ DOMAIN s = 1..Len(s)
      /\ \A n \in 1..Len(s) : n - 1 \in 0..Len(s) /\ s[n] \in E
    OBVIOUS
<1> DEFINE Upto(n) == {s[i] : i \in 1..n}
           Fine(n) == /\ k[n] \in Seq(E) /\ K!ToSet(k[n]) = Upto(n) \cap some
                      /\ Lone(s) => Lone(k[n])
           Bad == {n \in 0..Len(s) : ~Fine(n)}
<1>3. Fine(0)
    <2>1. k[0] = <<>> /\ Upto(0) = {}  BY <1>1
    <2> QED  BY <2>1 DEF K!ToSet, Lone
<1>4. ASSUME NEW n \in 1..Len(s), Fine(n - 1)  PROVE Fine(n)
    <2>1. Upto(n) = Upto(n - 1) \cup {s[n]}  BY <1>2
    <2>2. k[n] = IF s[n] \in some THEN Append(k[n - 1], s[n]) ELSE k[n - 1]  BY <1>1
    <2>3. /\ k[n - 1] \in Seq(E) /\ K!ToSet(k[n - 1]) = Upto(n - 1) \cap some
          /\ s[n] \in E
          /\ Lone(s) => Lone(k[n - 1])
        BY <1>2, <1>4
    <2>6. Lone(s) => \A c \in Upto(n - 1) : c.way # s[n].way
        BY <1>2 DEF Lone
    <2> HIDE DEF Upto
    <2>4. CASE s[n] \in some
        <3>1. k[n] = Append(k[n - 1], s[n])  BY <2>2, <2>4
        <3>2. k[n] \in Seq(E)  BY <2>3, <3>1
        <3>3. K!ToSet(k[n]) = K!ToSet(k[n - 1]) \cup {s[n]}  BY <2>3, <3>1, AppendSet
        <3>4. Lone(s) => Lone(k[n])  BY <2>3, <2>6, <3>1, AppendLone
        <3> QED  BY <2>1, <2>3, <2>4, <3>2, <3>3, <3>4
    <2>5. CASE s[n] \notin some
        BY <2>1, <2>2, <2>3, <2>5
    <2> QED  BY <2>4, <2>5
<1> HIDE DEF Fine
<1>5. Bad = {}
    <2> SUFFICES ASSUME Bad # {}  PROVE FALSE  OBVIOUS
    <2>1. Bad \in SUBSET Nat  BY <1>2
    <2>2. K!Min(Bad) \in Bad /\ \A n \in Bad : K!Min(Bad) =< n  BY <2>1, LeastExists
    <2>3. PICK n \in 0..Len(s) : ~Fine(n) /\ \A m \in Bad : n =< m  BY <2>2
    <2>4. n # 0  BY <1>3, <2>3
    <2>5. n \in 1..Len(s) /\ n - 1 \in 0..Len(s) /\ ~(n =< n - 1)  BY <1>2, <2>4
    <2>6. Fine(n - 1)  BY <2>3, <2>5
    <2> QED  BY <1>4, <2>3, <2>5, <2>6
<1>6. Fine(Len(s)) /\ Upto(Len(s)) = K!ToSet(s)
    <2>1. Len(s) \in 0..Len(s)  BY <1>2
    <2> QED  BY <1>2, <1>5, <2>1 DEF K!ToSet
<1> QED  BY <1>1, <1>6 DEF Fine

\* The numbers the instance counts are those of this module.
LEMMA SizeInK == \A S : K!Cardinality(S) = Cardinality(S) /\ K!IsFiniteSet(S) = IsFiniteSet(S)
BY DEF K!Cardinality, Cardinality, K!IsFiniteSet, IsFiniteSet

\* A set, as a sequence.
LEMMA SetToSeqIs ==
    ASSUME NEW S, IsFiniteSet(S)
    PROVE  /\ K!SetToSeq(S) \in Seq(S) /\ K!ToSet(K!SetToSeq(S)) = S
           /\ \A i, j \in DOMAIN K!SetToSeq(S) : K!SetToSeq(S)[i] = K!SetToSeq(S)[j] => i = j
<1> DEFINE n == Cardinality(S)
           q == K!SetToSeq(S)
<1>1. n \in Nat /\ ExistsBijection(1..n, S)  BY FS_CardinalityType
<1>2. \E b \in [1..n -> S] : K!IsInjective(b)
    BY <1>1 DEF ExistsBijection, Bijection, Injection, IsInjective, K!IsInjective
<1>3. q \in [1..n -> S] /\ K!IsInjective(q)  BY <1>2, SizeInK DEF K!SetToSeq
<1>4. IsFiniteSet(1..n) /\ Cardinality(1..n) = n
    <2>1. 1 \in Int /\ n \in Int  BY <1>1
    <2> QED  BY <1>1, <2>1, FS_Interval
<1> HIDE DEF q, n
<1>5. q \in Injection(1..n, S)  BY <1>3 DEF Injection, IsInjective, K!IsInjective
<1>6. q \in Surjection(1..n, S)  BY <1>4, <1>5, FS_Injection DEF n
<1>7. q \in Seq(S) /\ DOMAIN q = 1..n  BY <1>1, <1>3
<1>8. K!ToSet(q) = S  BY <1>6, <1>7 DEF K!ToSet, Surjection
<1> QED  BY <1>3, <1>7, <1>8 DEF q, K!IsInjective

------------------------------------------------------------------------------
(* The cards *)

CardSet == [way : K!Ways, others : SUBSET K!RunnerWays]

LEMMA CardIs ==
    ASSUME NEW way \in K!Ways
    PROVE  K!Card(way) \in CardSet /\ K!Card(way).way = way /\ K!Card(way).others = {}
BY DEF K!Card, CardSet

\* The cards of these ways are new, and every other is as it was.
LEMMA UpsertAllIs ==
    ASSUME NEW cs \in Seq(CardSet), NEW ways \in SUBSET K!Ways, IsFiniteSet(ways)
    PROVE  /\ K!UpsertAll(cs, ways) \in Seq(CardSet)
           /\ K!ToSet(K!UpsertAll(cs, ways)) =
                {c \in K!ToSet(cs) : c.way \notin ways} \cup {K!Card(w) : w \in ways}
           /\ Lone(cs) => Lone(K!UpsertAll(cs, ways))
<1> DEFINE kept == [i \in DOMAIN cs |-> IF cs[i].way \in ways THEN K!Card(cs[i].way) ELSE cs[i]]
           fresh == {v \in ways : ~K!Has(cs, v)}
           recent == {K!Card(w) : w \in fresh}
           last == K!SetToSeq(recent)
<1>1. DOMAIN cs = 1..Len(cs) /\ Len(cs) \in Nat /\ \A i \in 1..Len(cs) : cs[i] \in CardSet
    OBVIOUS
<1>2. \A i \in 1..Len(cs) : /\ kept[i] \in CardSet /\ kept[i].way = cs[i].way
                            /\ cs[i].way \in ways => kept[i] = K!Card(cs[i].way)
                            /\ cs[i].way \notin ways => kept[i] = cs[i]
    BY <1>1, CardIs DEF CardSet
<1>3. kept \in [1..Len(cs) -> CardSet] /\ kept \in Seq(CardSet) /\ Len(kept) = Len(cs)
    <2>1. kept \in [1..Len(cs) -> CardSet]  BY <1>1, <1>2
    <2> QED  BY <1>1, <2>1
<1>4. IsFiniteSet(recent)
    <2>1. IsFiniteSet(fresh)  BY FS_Subset
    <2> DEFINE f == [v \in fresh |-> K!Card(v)]
    <2>2. f \in Surjection(fresh, recent)  BY DEF Surjection
    <2> QED  BY <2>1, <2>2, FS_Surjection
<1>5. last \in Seq(recent) /\ K!ToSet(last) = recent
      /\ \A i, j \in DOMAIN last : last[i] = last[j] => i = j
    BY <1>4, SetToSeqIs
<1>6. recent \subseteq CardSet  BY CardIs
<1>7. K!UpsertAll(cs, ways) = kept \o last  BY DEF K!UpsertAll
<1> HIDE DEF kept, fresh, recent, last
<1>8. last \in Seq(CardSet) /\ DOMAIN last = 1..Len(last) /\ Len(last) \in Nat
    BY <1>5, <1>6
<1> DEFINE r == kept \o last
<1>9. /\ r \in Seq(CardSet) /\ Len(r) = Len(cs) + Len(last)
      /\ DOMAIN r = 1..Len(cs) + Len(last)
      /\ \A i \in 1..Len(cs) + Len(last) :
            r[i] = IF i <= Len(cs) THEN kept[i] ELSE last[i - Len(cs)]
    <2>1. /\ r \in Seq(CardSet) /\ Len(r) = Len(kept) + Len(last)
          /\ \A i \in 1..Len(kept) + Len(last) :
                r[i] = IF i <= Len(kept) THEN kept[i] ELSE last[i - Len(kept)]
        BY <1>3, <1>8, ConcatProperties, Zenon
    <2> HIDE DEF r
    <2>2. DOMAIN r = 1..Len(r)  BY <2>1
    <2> QED  BY <1>3, <2>1, <2>2
<1> HIDE DEF r
<1>10. K!ToSet(r) = {c \in K!ToSet(cs) : c.way \notin ways} \cup {K!Card(w) : w \in ways}
    <2>1. ASSUME NEW i \in 1..Len(cs) + Len(last)
          PROVE  r[i] \in {c \in K!ToSet(cs) : c.way \notin ways} \cup {K!Card(w) : w \in ways}
        <3>1. CASE i <= Len(cs)
            <4>1. i \in 1..Len(cs) /\ r[i] = kept[i]  BY <1>1, <1>9, <3>1
            <4> QED  BY <1>1, <1>2, <4>1 DEF K!ToSet
        <3>2. CASE i > Len(cs)
            <4>1. i - Len(cs) \in 1..Len(last) /\ r[i] = last[i - Len(cs)]
                BY <1>1, <1>8, <1>9, <3>2
            <4>2. r[i] \in recent  BY <1>5, <1>8, <4>1 DEF K!ToSet
            <4> QED  BY <4>2 DEF recent, fresh
        <3> QED  BY <1>1, <3>1, <3>2
    <2>2. ASSUME NEW i \in 1..Len(cs)  PROVE kept[i] \in K!ToSet(r)
        <3>1. i \in DOMAIN r /\ r[i] = kept[i]  BY <1>1, <1>8, <1>9
        <3> QED  BY <3>1 DEF K!ToSet
    <2>3. ASSUME NEW c \in K!ToSet(cs), c.way \notin ways  PROVE c \in K!ToSet(r)
        BY <1>1, <1>2, <2>2, <2>3 DEF K!ToSet
    <2>4. ASSUME NEW w \in ways  PROVE K!Card(w) \in K!ToSet(r)
        <3>1. CASE K!Has(cs, w)
            BY <1>1, <1>2, <2>2, <3>1 DEF K!Has
        <3>2. CASE ~K!Has(cs, w)
            <4>1. K!Card(w) \in K!ToSet(last)  BY <1>5, <3>2 DEF recent, fresh
            <4>2. PICK i \in 1..Len(last) : last[i] = K!Card(w)  BY <1>8, <4>1 DEF K!ToSet
            <4>3. /\ Len(cs) + i \in 1..Len(cs) + Len(last) /\ ~(Len(cs) + i <= Len(cs))
                  /\ Len(cs) + i - Len(cs) = i
                BY <1>1, <1>8
            <4>4. r[Len(cs) + i] = last[i]  BY <1>9, <4>3
            <4> QED  BY <1>9, <4>2, <4>3, <4>4 DEF K!ToSet
        <3> QED  BY <3>1, <3>2
    <2> QED  BY <1>9, <2>1, <2>3, <2>4 DEF K!ToSet
<1>11. ASSUME Lone(cs)  PROVE Lone(r)
    <2> SUFFICES ASSUME NEW i \in 1..Len(cs) + Len(last), NEW j \in 1..Len(cs) + Len(last),
                        r[i].way = r[j].way
                 PROVE  i = j
        BY <1>9 DEF Lone
    <2>1. \A m \in 1..Len(cs) + Len(last) : m > Len(cs) =>
            /\ m - Len(cs) \in 1..Len(last) /\ r[m] = last[m - Len(cs)]
            /\ \E w \in fresh : r[m] = K!Card(w)
        <3> SUFFICES ASSUME NEW m \in 1..Len(cs) + Len(last), m > Len(cs)
                     PROVE  /\ m - Len(cs) \in 1..Len(last) /\ r[m] = last[m - Len(cs)]
                            /\ \E w \in fresh : r[m] = K!Card(w)
            OBVIOUS
        <3>1. m - Len(cs) \in 1..Len(last) /\ r[m] = last[m - Len(cs)]
            BY <1>1, <1>8, <1>9
        <3>2. r[m] \in recent  BY <1>5, <1>8, <3>1 DEF K!ToSet
        <3> QED  BY <3>1, <3>2 DEF recent
    <2>2. \A m \in 1..Len(cs) + Len(last) : m <= Len(cs) =>
            m \in DOMAIN cs /\ r[m].way = cs[m].way
        BY <1>1, <1>2, <1>8, <1>9
    <2>3. \A w \in fresh : K!Card(w).way = w /\ ~K!Has(cs, w)  BY CardIs DEF fresh
    <2>4. CASE i <= Len(cs) /\ j <= Len(cs)  BY <1>11, <2>2, <2>4 DEF Lone
    <2>5. CASE i > Len(cs) /\ j > Len(cs)
        <3>1. r[i] = r[j]  BY <2>1, <2>3, <2>5
        <3>2. last[i - Len(cs)] = last[j - Len(cs)] /\ i - Len(cs) \in 1..Len(last)
              /\ j - Len(cs) \in 1..Len(last)
            BY <2>1, <2>5, <3>1
        <3>3. i - Len(cs) = j - Len(cs)  BY <1>5, <1>8, <3>2
        <3> QED  BY <1>1, <1>8, <3>3
    <2>6. CASE i <= Len(cs) /\ j > Len(cs)  BY <2>1, <2>2, <2>3, <2>6 DEF K!Has
    <2>7. CASE j <= Len(cs) /\ i > Len(cs)  BY <2>1, <2>2, <2>3, <2>7 DEF K!Has
    <2> QED  BY <1>1, <1>8, <2>4, <2>5, <2>6, <2>7
<1> QED  BY <1>7, <1>9, <1>10, <1>11 DEF r

\* One card.
LEMMA UpsertIs ==
    ASSUME NEW cs \in Seq(CardSet), NEW way \in K!Ways
    PROVE  /\ K!Upsert(cs, way) \in Seq(CardSet)
           /\ K!ToSet(K!Upsert(cs, way)) = {c \in K!ToSet(cs) : c.way # way} \cup {K!Card(way)}
           /\ Lone(cs) => Lone(K!Upsert(cs, way))
<1>1. IsFiniteSet({way})  BY FS_Singleton
<1>2. /\ K!UpsertAll(cs, {way}) \in Seq(CardSet)
      /\ K!ToSet(K!UpsertAll(cs, {way})) =
            {c \in K!ToSet(cs) : c.way \notin {way}} \cup {K!Card(w) : w \in {way}}
      /\ Lone(cs) => Lone(K!UpsertAll(cs, {way}))
    BY <1>1, UpsertAllIs
<1> QED  BY <1>2 DEF K!Upsert

\* A way more on the card of this one.
LEMMA AttachIs ==
    ASSUME NEW cs \in Seq(CardSet), NEW way \in K!RunnerWays, NEW h \in K!ToSet(cs), Lone(cs),
           h.way # way
    PROVE  /\ K!Attach(cs, h.way, way) \in Seq(CardSet)
           /\ K!ToSet(K!Attach(cs, h.way, way)) =
                {c \in K!ToSet(cs) : c.way # h.way} \cup {[h EXCEPT !.others = @ \cup {way}]}
           /\ Lone(K!Attach(cs, h.way, way))
<1> DEFINE r == K!Attach(cs, h.way, way)
           more == [h EXCEPT !.others = @ \cup {way}]
<1>1. DOMAIN cs = 1..Len(cs) /\ Len(cs) \in Nat /\ \A i \in 1..Len(cs) : cs[i] \in CardSet
    OBVIOUS
<1>2. PICK at \in 1..Len(cs) : h = cs[at]  BY <1>1 DEF K!ToSet
<1>3. \A i \in 1..Len(cs) : cs[i].way = h.way <=> i = at  BY <1>1, <1>2 DEF Lone
<1>4. more \in CardSet /\ more.way = h.way  BY <1>1, <1>2 DEF CardSet
<1>5. /\ DOMAIN r = 1..Len(cs) /\ r[at] = more
      /\ \A i \in 1..Len(cs) \ {at} : r[i] = cs[i]
    BY <1>1, <1>2, <1>3 DEF K!Attach
<1>6. r \in Seq(CardSet)
    <2>1. r \in [1..Len(cs) -> CardSet]
        <3>1. \A i \in 1..Len(cs) : r[i] \in CardSet  BY <1>1, <1>4, <1>5
        <3>2. r = [i \in 1..Len(cs) |-> r[i]]  BY <1>1 DEF K!Attach
        <3> HIDE DEF r
        <3> QED  BY <3>1, <3>2
    <2> QED  BY <1>1, <2>1
<1> HIDE DEF r, more
<1>7. K!ToSet(r) = {c \in K!ToSet(cs) : c.way # h.way} \cup {more}
    <2>1. ASSUME NEW i \in 1..Len(cs)
          PROVE  r[i] \in {c \in K!ToSet(cs) : c.way # h.way} \cup {more}
        BY <1>1, <1>3, <1>5 DEF K!ToSet
    <2>2. ASSUME NEW c \in K!ToSet(cs), c.way # h.way  PROVE c \in K!ToSet(r)
        <3>1. PICK i \in 1..Len(cs) : c = cs[i]  BY <1>1 DEF K!ToSet
        <3>2. i # at /\ r[i] = c  BY <1>3, <1>5, <2>2, <3>1
        <3> QED  BY <1>5, <3>2 DEF K!ToSet
    <2>3. more \in K!ToSet(r)  BY <1>5 DEF K!ToSet
    <2> QED  BY <1>5, <2>1, <2>2, <2>3 DEF K!ToSet
<1>8. Lone(r)
    <2>1. \A i \in 1..Len(cs) : r[i].way = cs[i].way  BY <1>2, <1>4, <1>5
    <2> QED  BY <1>1, <1>5, <2>1 DEF Lone
<1> QED  BY <1>6, <1>7, <1>8 DEF r, more

\* The cards of the title of a game, but its own.
Same(c, way) == Title[c.way[2]] = Title[way[2]]
Rivals(S, way) == {c \in S : c.way # way /\ Same(c, way)}

LEMMA WaysAreNotNone ==
    ASSUME K!GamesAssumption
    PROVE  None \notin K!Ways
BY DEF K!GamesAssumption, K!Ways, K!RunnerWays

\* A host is a card of the title, and a runner's only if they all are.
LEMMA HostIs ==
    ASSUME K!GamesAssumption, NEW cs \in Seq(CardSet), NEW way \in K!RunnerWays
    PROVE  \/ K!Host(cs, way) = None /\ Rivals(K!ToSet(cs), way) = {}
           \/ \E h \in Rivals(K!ToSet(cs), way) :
                /\ K!Host(cs, way) = h.way /\ h.way # None
                /\ K!IsRunner(h) => \A c \in Rivals(K!ToSet(cs), way) : K!IsRunner(c)
<1> DEFINE named == K!Named(cs, way)
           owned == {i \in named : ~K!IsRunner(cs[i])}
           found == IF owned # {} THEN owned ELSE named
<1>1. DOMAIN cs = 1..Len(cs) /\ Len(cs) \in Nat /\ \A i \in 1..Len(cs) : cs[i] \in CardSet
    OBVIOUS
<1>2. K!Host(cs, way) = IF found = {} THEN None ELSE cs[K!Min(found)].way
    BY DEF K!Host, K!First
<1>3. \A c : c \in Rivals(K!ToSet(cs), way) <=> \E i \in named : c = cs[i]
    BY DEF Rivals, Same, K!Named, K!ToSet
<1>4. found \in SUBSET Nat /\ named \subseteq 1..Len(cs)  BY <1>1 DEF K!Named
<1>5. CASE found = {}
    <2>1. named = {}  BY <1>5
    <2> QED  BY <1>2, <1>3, <1>5, <2>1
<1>6. CASE found # {}
    <2>1. K!Min(found) \in found  BY <1>4, <1>6, LeastExists
    <2>2. PICK i \in named : i = K!Min(found) /\ (K!IsRunner(cs[i]) => owned = {})  BY <2>1
    <2>3. cs[i] \in Rivals(K!ToSet(cs), way) /\ K!Host(cs, way) = cs[i].way
        BY <1>2, <1>3, <1>6, <2>2
    <2>4. cs[i].way # None  BY <1>1, <1>4, <2>2, WaysAreNotNone DEF CardSet
    <2>5. K!IsRunner(cs[i]) => \A c \in Rivals(K!ToSet(cs), way) : K!IsRunner(c)
        BY <1>3, <2>2
    <2> QED  BY <2>3, <2>4, <2>5
<1> QED  BY <1>5, <1>6

\* What filing one entry does: its card is alone under its title, or another card of
\* the title has its way, and its own is gone.
Hosted(S, R, h, way) ==
    R = {c \in S : c.way # way /\ c.way # h.way} \cup {[h EXCEPT !.others = @ \cup {way}]}

LEMMA FileIs ==
    ASSUME K!GamesAssumption, NEW cs \in Seq(CardSet), Lone(cs), NEW way \in K!RunnerWays
    PROVE  /\ K!File(cs, way) \in Seq(CardSet) /\ Lone(K!File(cs, way))
           /\ \/ /\ Rivals(K!ToSet(cs), way) = {}
                 /\ K!ToSet(K!File(cs, way)) =
                       {c \in K!ToSet(cs) : c.way # way} \cup {K!Card(way)}
              \/ \E h \in Rivals(K!ToSet(cs), way) :
                    /\ Hosted(K!ToSet(cs), K!ToSet(K!File(cs, way)), h, way)
                    /\ K!IsRunner(h) => \A c \in Rivals(K!ToSet(cs), way) : K!IsRunner(c)
<1>1. CASE K!Host(cs, way) = None
    <2>1. Rivals(K!ToSet(cs), way) = {}
        BY <1>1, HostIs
    <2>2. K!File(cs, way) = K!Upsert(cs, way)  BY <1>1 DEF K!File
    <2>3. way \in K!Ways  BY DEF K!Ways
    <2> QED  BY <2>1, <2>2, <2>3, UpsertIs
<1>2. CASE K!Host(cs, way) # None
    <2>1. PICK h \in Rivals(K!ToSet(cs), way) :
            /\ K!Host(cs, way) = h.way
            /\ K!IsRunner(h) => \A c \in Rivals(K!ToSet(cs), way) : K!IsRunner(c)
        BY <1>2, HostIs
    <2>2. h \in K!ToSet(cs) /\ h.way # way  BY DEF Rivals
    <2> DEFINE more == K!Attach(cs, h.way, way)
               new == [h EXCEPT !.others = @ \cup {way}]
    <2>3. /\ more \in Seq(CardSet) /\ Lone(more)
          /\ K!ToSet(more) = {c \in K!ToSet(cs) : c.way # h.way} \cup {new}
        BY <2>2, AttachIs
    <2>4. K!File(cs, way) = K!Drop(more, way)  BY <1>2, <2>1 DEF K!File
    <2>5. new.way # way
        <3>1. h \in CardSet  BY <2>2 DEF K!ToSet
        <3> QED  BY <2>2, <3>1 DEF CardSet
    <2> HIDE DEF more, new
    <2>6. /\ K!File(cs, way) \in Seq(CardSet) /\ Lone(K!File(cs, way))
          /\ K!ToSet(K!File(cs, way)) = {c \in K!ToSet(more) : c.way # way}
        BY <2>3, <2>4, KeepIs DEF K!Drop
    <2>7. Hosted(K!ToSet(cs), K!ToSet(K!File(cs, way)), h, way)
        BY <2>3, <2>5, <2>6 DEF Hosted, new
    <2> QED  BY <2>1, <2>6, <2>7
<1> QED  BY <1>1, <1>2
------------------------------------------------------------------------------
(* A page *)

FiledBy(cs, page, k, m) ==
    k = [n \in 0..m |-> IF n = 0 THEN cs ELSE K!File(k[n - 1], page[n])]

LEMMA FilingExists ==
    ASSUME NEW cs, NEW page, NEW m \in Nat
    PROVE  \E k : FiledBy(cs, page, k, m)
<1> DEFINE Bad == {n \in Nat : ~\E k : FiledBy(cs, page, k, n)}
<1>1. SUFFICES ASSUME Bad # {}  PROVE FALSE  OBVIOUS
<1>2. K!Min(Bad) \in Bad /\ \A n \in Bad : K!Min(Bad) =< n  BY <1>1, LeastExists
<1>3. PICK least \in Nat : least \in Bad /\ \A n \in Bad : least =< n  BY <1>2
<1>4. CASE least = 0
    <2>1. FiledBy(cs, page, [n \in 0..0 |-> cs], 0)  BY DEF FiledBy
    <2> QED  BY <1>3, <1>4, <2>1
<1>5. CASE least # 0
    <2>1. least - 1 \in Nat /\ least - 1 \notin Bad  BY <1>3, <1>5
    <2>2. PICK k : FiledBy(cs, page, k, least - 1)  BY <2>1
    <2> DEFINE last == K!File(k[least - 1], page[least])
               all == [n \in 0..least |-> IF n = least THEN last ELSE k[n]]
    <2>3. \A n \in 0..least - 1 : k[n] = IF n = 0 THEN cs ELSE K!File(k[n - 1], page[n])
        BY <2>2 DEF FiledBy
    <2>4. all[least] = last /\ \A n \in 0..least - 1 : all[n] = k[n]  BY <1>3, <1>5
    <2>5. ASSUME NEW n \in 0..least
          PROVE  all[n] = IF n = 0 THEN cs ELSE K!File(all[n - 1], page[n])
        <3>1. CASE n = least
            <4>1. all[n] = last /\ all[n - 1] = k[least - 1]  BY <1>3, <1>5, <2>4, <3>1
            <4> QED  BY <1>5, <3>1, <4>1
        <3>2. CASE n # least
            <4>1. n \in 0..least - 1 /\ (n # 0 => n - 1 \in 0..least - 1)  BY <3>2
            <4>2. all[n] = k[n] /\ (n # 0 => all[n - 1] = k[n - 1])  BY <2>4, <4>1
            <4> QED  BY <2>3, <4>1, <4>2
        <3> QED  BY <3>1, <3>2
    <2>6. FiledBy(cs, page, all, least)
        <3>1. all = [n \in 0..least |-> all[n]]  OBVIOUS
        <3> HIDE DEF all
        <3> QED  BY <2>5, <3>1 DEF FiledBy
    <2> QED  BY <1>3, <2>6
<1> QED  BY <1>4, <1>5

\* One entry after the other.
Filing(cs, page, k) ==
    /\ K!FileAll(cs, page) = k[Len(page)] /\ k[0] = cs
    /\ \A n \in 1..Len(page) : k[n] = K!File(k[n - 1], page[n])

LEMMA FileSteps ==
    ASSUME NEW cs, NEW page, Len(page) \in Nat
    PROVE  \E k : Filing(cs, page, k)
<1> DEFINE k == CHOOSE c : FiledBy(cs, page, c, Len(page))
<1>1. FiledBy(cs, page, k, Len(page))  BY FilingExists
<1>2. K!FileAll(cs, page) = k[Len(page)]  BY DEF K!FileAll, FiledBy
<1> HIDE DEF k
<1>3. \A n \in 0..Len(page) : k[n] = IF n = 0 THEN cs ELSE K!File(k[n - 1], page[n])
    BY <1>1 DEF FiledBy
<1>4. k[0] = cs /\ \A n \in 1..Len(page) : k[n] = K!File(k[n - 1], page[n])
    BY <1>3
<1>5. Filing(cs, page, k)  BY <1>2, <1>4 DEF Filing
<1> QED  BY <1>5

\* Every way a card offers is one of the page, or was offered.
Within(S, R, page) ==
    \A c \in R : \A w \in K!Offers(c) : w \in page \/ \E d \in S : w \in K!Offers(d)

LEMMA FileWithin ==
    ASSUME K!GamesAssumption, NEW cs \in Seq(CardSet), Lone(cs), NEW way \in K!RunnerWays
    PROVE  Within(K!ToSet(cs), K!ToSet(K!File(cs, way)), {way})
<1>1. CASE K!ToSet(K!File(cs, way)) = {c \in K!ToSet(cs) : c.way # way} \cup {K!Card(way)}
    <2>1. \A w \in K!Offers(K!Card(way)) : w = way  BY DEF K!Offers, K!Card
    <2> QED  BY <1>1, <2>1 DEF Within
<1>2. ASSUME NEW h \in Rivals(K!ToSet(cs), way),
             Hosted(K!ToSet(cs), K!ToSet(K!File(cs, way)), h, way)
      PROVE  Within(K!ToSet(cs), K!ToSet(K!File(cs, way)), {way})
    <2> DEFINE new == [h EXCEPT !.others = @ \cup {way}]
    <2>1. h \in K!ToSet(cs) /\ h \in CardSet  BY DEF Rivals, K!ToSet
    <2>2. \A w \in K!Offers(new) : w \in {way} \/ w \in K!Offers(h)
        BY <2>1 DEF K!Offers, CardSet
    <2> HIDE DEF new
    <2>3. K!ToSet(K!File(cs, way)) = {c \in K!ToSet(cs) : c.way # way /\ c.way # h.way} \cup {new}
        BY <1>2 DEF Hosted, new
    <2> QED  BY <2>1, <2>2, <2>3 DEF Within
<1> QED  BY <1>1, <1>2, FileIs

\* What a page promises of one of its games.
Alone(w, page) == \A v \in page \ {w} : Title[v[2]] # Title[w[2]]
OwnAlone(S, w) == (\E c \in S : c.way = w) => \A c \in S : Same(c, w) => c.way = w
OfferedBy(S, w) ==
    \E c \in S : /\ Same(c, w) /\ w \in K!Offers(c)
                 /\ K!IsRunner(c) => \A o \in S : Same(o, w) => K!IsRunner(o)
FiledFor(S, w, page) == OwnAlone(S, w) /\ (Alone(w, page) => OfferedBy(S, w))

\* An entry that is filed is filed.
LEMMA FileServes ==
    ASSUME K!GamesAssumption, NEW cs \in Seq(CardSet), Lone(cs), NEW w \in K!RunnerWays
    PROVE  LET R == K!ToSet(K!File(cs, w)) IN OwnAlone(R, w) /\ OfferedBy(R, w)
<1> DEFINE S == K!ToSet(cs)
           R == K!ToSet(K!File(cs, w))
<1>1. \A c \in S : c \in CardSet  BY DEF K!ToSet
<1>2. CASE Rivals(S, w) = {} /\ R = {c \in S : c.way # w} \cup {K!Card(w)}
    <2>1. \A c \in R : Same(c, w) => c = K!Card(w)  BY <1>2 DEF Rivals
    <2>2. K!Card(w).way = w /\ w \in K!Offers(K!Card(w)) /\ K!Card(w) \in R
        BY <1>2 DEF K!Card, K!Offers
    <2>3. Same(K!Card(w), w)  BY <2>2 DEF Same
    <2> QED  BY <2>1, <2>2, <2>3 DEF OwnAlone, OfferedBy
<1>3. ASSUME NEW h \in Rivals(S, w), Hosted(S, R, h, w),
             K!IsRunner(h) => \A c \in Rivals(S, w) : K!IsRunner(c)
      PROVE  OwnAlone(R, w) /\ OfferedBy(R, w)
    <2> DEFINE new == [h EXCEPT !.others = @ \cup {w}]
    <2>1. h \in S /\ h.way # w /\ Same(h, w) /\ h \in CardSet  BY <1>1 DEF Rivals
    <2>2. new.way = h.way /\ w \in new.others  BY <2>1 DEF CardSet
    <2>3. R = {c \in S : c.way # w /\ c.way # h.way} \cup {new}  BY <1>3 DEF Hosted
    <2> HIDE DEF new, S, R
    <2>4. OwnAlone(R, w)  BY <2>1, <2>2, <2>3 DEF OwnAlone
    <2>5. new \in R /\ Same(new, w) /\ w \in K!Offers(new) /\ (K!IsRunner(new) <=> K!IsRunner(h))
        BY <2>1, <2>2, <2>3 DEF Same, K!Offers, K!IsRunner
    <2>6. ASSUME K!IsRunner(h), NEW o \in R, Same(o, w)  PROVE K!IsRunner(o)
        <3>1. CASE o = new  BY <2>5, <2>6, <3>1
        <3>2. CASE o # new
            <4>1. o \in Rivals(S, w)  BY <2>3, <2>6, <3>2 DEF Rivals
            <4> QED  BY <1>3, <2>6, <4>1
        <3> QED  BY <3>1, <3>2
    <2> QED  BY <2>4, <2>5, <2>6 DEF OfferedBy
<1> QED  BY <1>2, <1>3, FileIs

\* And stays filed while the others are, but for the offer of a title of theirs.
LEMMA FileSpares ==
    ASSUME K!GamesAssumption, NEW cs \in Seq(CardSet), Lone(cs), NEW v \in K!RunnerWays,
           NEW w \in K!RunnerWays, w # v, OwnAlone(K!ToSet(cs), w)
    PROVE  LET R == K!ToSet(K!File(cs, v)) IN
           /\ OwnAlone(R, w)
           /\ Title[v[2]] # Title[w[2]] /\ OfferedBy(K!ToSet(cs), w) => OfferedBy(R, w)
<1> DEFINE S == K!ToSet(cs)
           R == K!ToSet(K!File(cs, v))
<1>1. \A c \in S : c \in CardSet  BY DEF K!ToSet
<1>2. CASE Rivals(S, v) = {} /\ R = {c \in S : c.way # v} \cup {K!Card(v)}
    <2>1. K!Card(v).way = v  BY DEF K!Card
    <2>2. OwnAlone(R, w)
        <3> SUFFICES ASSUME NEW own \in R, own.way = w, NEW c \in R, Same(c, w)
                     PROVE  c.way = w
            BY DEF OwnAlone
        <3>1. own \in S  BY <1>2, <2>1
        <3>2. c \in S => c.way = w  BY <3>1 DEF OwnAlone
        <3>3. ASSUME c = K!Card(v)  PROVE FALSE
            <4>1. Same(own, v) /\ own.way # v  BY <2>1, <3>3 DEF Same
            <4> QED  BY <1>2, <3>1, <4>1 DEF Rivals
        <3> QED  BY <1>2, <3>2, <3>3
    <2>3. ASSUME Title[v[2]] # Title[w[2]], OfferedBy(S, w)  PROVE OfferedBy(R, w)
        <3>1. \A c : Same(c, w) => (c \in S <=> c \in R)  BY <1>2, <2>1, <2>3 DEF Same
        <3> QED  BY <2>3, <3>1 DEF OfferedBy
    <2> QED  BY <2>2, <2>3
<1>3. ASSUME NEW h \in Rivals(S, v), Hosted(S, R, h, v)
      PROVE  /\ OwnAlone(R, w)
             /\ Title[v[2]] # Title[w[2]] /\ OfferedBy(S, w) => OfferedBy(R, w)
    <2> DEFINE new == [h EXCEPT !.others = @ \cup {v}]
    <2>1. h \in S /\ h.way # v /\ Same(h, v) /\ h \in CardSet  BY <1>1 DEF Rivals
    <2>2. new.way = h.way  BY <2>1 DEF CardSet
    <2>3. R = {c \in S : c.way # v /\ c.way # h.way} \cup {new}  BY <1>3 DEF Hosted
    <2> HIDE DEF new
    <2>4. OwnAlone(R, w)
        <3>1. \A c \in R : \E d \in S : c.way = d.way  BY <2>1, <2>2, <2>3
        <3> QED  BY <3>1 DEF OwnAlone, Same
    <2>5. ASSUME Title[v[2]] # Title[w[2]], OfferedBy(S, w)  PROVE OfferedBy(R, w)
        <3>1. \A c : Same(c, w) => (c \in S <=> c \in R)
            <4>1. ~Same(h, w) /\ ~Same(new, w)  BY <2>1, <2>2, <2>5 DEF Same
            <4>2. \A c \in S : c.way = h.way => ~Same(c, w)  BY <4>1 DEF Same
            <4>3. \A c \in S : c.way = v => ~Same(c, w)  BY <2>5 DEF Same
            <4> QED  BY <2>3, <4>1, <4>2, <4>3
        <3> QED  BY <2>5, <3>1 DEF OfferedBy
    <2> QED  BY <2>4, <2>5
<1> QED  BY <1>2, <1>3, FileIs

\* What is true of the page when it is filed: nothing but its ways is new, and each
\* of its games is filed.
LEMMA FileAllIs ==
    ASSUME K!GamesAssumption, NEW cs \in Seq(CardSet), Lone(cs), NEW page \in Seq(K!RunnerWays)
    PROVE  LET r == K!FileAll(cs, page) IN
           /\ r \in Seq(CardSet) /\ Lone(r) /\ Within(K!ToSet(cs), K!ToSet(r), K!ToSet(page))
           /\ \A w \in K!ToSet(page) : FiledFor(K!ToSet(r), w, K!ToSet(page))
<1>1. /\ Len(page) \in Nat /\ DOMAIN page = 1..Len(page)
      /\ \A n \in 1..Len(page) : n - 1 \in 0..Len(page) /\ page[n] \in K!RunnerWays
    OBVIOUS
<1>2. PICK k : Filing(cs, page, k)  BY <1>1, FileSteps
<1>3. /\ K!FileAll(cs, page) = k[Len(page)] /\ k[0] = cs
      /\ \A n \in 1..Len(page) : k[n] = K!File(k[n - 1], page[n])
    BY <1>2 DEF Filing
<1> DEFINE Upto(n) == {page[i] : i \in 1..n}
           Fine(n) == /\ k[n] \in Seq(CardSet) /\ Lone(k[n])
                      /\ Within(K!ToSet(cs), K!ToSet(k[n]), Upto(n))
                      /\ \A w \in Upto(n) : FiledFor(K!ToSet(k[n]), w, K!ToSet(page))
           Bad == {n \in 0..Len(page) : ~Fine(n)}
<1>4. Fine(0)
    <2>1. k[0] = cs /\ Upto(0) = {}  BY <1>3
    <2> QED  BY <2>1 DEF Within
<1>5. ASSUME NEW n \in 1..Len(page), Fine(n - 1)  PROVE Fine(n)
    <2> DEFINE before == k[n - 1]
               v == page[n]
    <2>1. Upto(n) = Upto(n - 1) \cup {v} /\ v \in K!RunnerWays /\ v \in K!ToSet(page)
        BY <1>1 DEF K!ToSet
    <2>2. k[n] = K!File(before, v)  BY <1>3
    <2>3. /\ before \in Seq(CardSet) /\ Lone(before)
          /\ Within(K!ToSet(cs), K!ToSet(before), Upto(n - 1))
          /\ \A w \in Upto(n - 1) : FiledFor(K!ToSet(before), w, K!ToSet(page))
        BY <1>5
    <2>4. \A w \in Upto(n - 1) : w \in K!RunnerWays /\ w \in K!ToSet(page)
        BY <1>1 DEF K!ToSet
    <2> HIDE DEF Upto, before, v
    <2>5. k[n] \in Seq(CardSet) /\ Lone(k[n])  BY <2>1, <2>2, <2>3, FileIs
    <2>6. Within(K!ToSet(before), K!ToSet(k[n]), {v})  BY <2>1, <2>2, <2>3, FileWithin
    <2>7. Within(K!ToSet(cs), K!ToSet(k[n]), Upto(n))  BY <2>1, <2>3, <2>6 DEF Within
    <2>8. FiledFor(K!ToSet(k[n]), v, K!ToSet(page))
        BY <2>1, <2>2, <2>3, FileServes DEF FiledFor
    <2>9. ASSUME NEW w \in Upto(n - 1), w # v  PROVE FiledFor(K!ToSet(k[n]), w, K!ToSet(page))
        <3>1. w \in K!RunnerWays /\ OwnAlone(K!ToSet(before), w)
              /\ (Alone(w, K!ToSet(page)) => OfferedBy(K!ToSet(before), w))
            BY <2>3, <2>4 DEF FiledFor
        <3>2. /\ OwnAlone(K!ToSet(k[n]), w)
              /\ (Title[v[2]] # Title[w[2]] /\ OfferedBy(K!ToSet(before), w)
                    => OfferedBy(K!ToSet(k[n]), w))
            BY <2>1, <2>2, <2>3, <2>9, <3>1, FileSpares
        <3>3. Alone(w, K!ToSet(page)) => Title[v[2]] # Title[w[2]]  BY <2>1, <2>9 DEF Alone
        <3> QED  BY <3>1, <3>2, <3>3 DEF FiledFor
    <2> QED  BY <2>1, <2>5, <2>7, <2>8, <2>9
<1> HIDE DEF Fine
<1>6. Bad = {}
    <2> SUFFICES ASSUME Bad # {}  PROVE FALSE  OBVIOUS
    <2>1. Bad \in SUBSET Nat  BY <1>1
    <2>2. K!Min(Bad) \in Bad /\ \A n \in Bad : K!Min(Bad) =< n  BY <2>1, LeastExists
    <2>3. PICK n \in 0..Len(page) : ~Fine(n) /\ \A m \in Bad : n =< m  BY <2>2
    <2>4. n # 0  BY <1>4, <2>3
    <2>5. n \in 1..Len(page) /\ n - 1 \in 0..Len(page) /\ ~(n =< n - 1)  BY <1>1, <2>4
    <2>6. Fine(n - 1)  BY <2>3, <2>5
    <2> QED  BY <1>5, <2>3, <2>5, <2>6
<1>7. Fine(Len(page)) /\ Upto(Len(page)) = K!ToSet(page)
    <2>1. Len(page) \in 0..Len(page)  BY <1>1
    <2> QED  BY <1>1, <1>6, <2>1 DEF K!ToSet
<1> QED  BY <1>3, <1>7 DEF Fine

LEMMA PageIsOnce ==
    ASSUME NEW cs, NEW page, \A w \in K!ToSet(page) : FiledFor(K!ToSet(cs), w, K!ToSet(page))
    PROVE  K!FiledOnce(cs, page)
<1> SUFFICES ASSUME NEW w \in K!ToSet(page)
             PROVE  LET named == {c \in K!ToSet(cs) : Title[c.way[2]] = Title[w[2]]}
                        alone == \A v \in K!ToSet(page) \ {w} : Title[v[2]] # Title[w[2]]
                    IN  /\ K!Has(cs, w) => \A c \in named : c.way = w
                        /\ alone => \E c \in named :
                                        /\ w \in K!Offers(c)
                                        /\ K!IsRunner(c) => \A o \in named : K!IsRunner(o)
    BY DEF K!FiledOnce
<1>1. K!Has(cs, w) => \E c \in K!ToSet(cs) : c.way = w  BY DEF K!Has, K!ToSet
<1> QED  BY <1>1 DEF FiledFor, OwnAlone, Alone, OfferedBy, Same

------------------------------------------------------------------------------
(* The invariant *)

\* The records of a way.
Recorded(w) ==
    /\ w[1] \in Owners => w \in entries /\ w[1] \in profiles
    /\ w[1] = "wine" => w[2] \in DOMAIN wine
AllRecorded == \A c \in K!ToSet(cards) : \A w \in K!Offers(c) : Recorded(w)

RestTypes ==
    /\ profiles \subseteq Owners /\ entries \subseteq K!RunnerWays /\ gone \subseteq entries
    /\ reached \in [Owners -> 0..Len(Roms)]
    /\ holding \in [Owners -> SUBSET K!ToSet(Roms)]
    /\ DOMAIN wine \subseteq Directs /\ \A d \in DOMAIN wine : wine[d] \in BOOLEAN

CardsInv ==
    /\ cards \in Seq(CardSet) /\ Lone(cards) /\ RestTypes /\ AllRecorded

\* The owners are told apart.
LEMMA OwnersDiffer ==
    ASSUME K!GamesAssumption
    PROVE  /\ "store" \notin Owners /\ "direct" \notin Owners /\ "wine" \notin Owners
           /\ \A w \in K!RunnerWays : w[1] \in Owners /\ w[2] \in K!ToSet(Roms)
           /\ \A p \in Owners, rom \in K!ToSet(Roms) : <<p, rom>> \in K!RunnerWays
           /\ K!RunnerWays \subseteq K!Ways
           /\ Len(Roms) \in Nat /\ K!ToSet(Roms) = {Roms[i] : i \in 1..Len(Roms)}
<1>1. Roms \in Seq(K!ToSet(Roms))  BY DEF K!GamesAssumption
<1>2. Len(Roms) \in Nat /\ DOMAIN Roms = 1..Len(Roms)  BY <1>1
<1> QED  BY <1>2 DEF K!GamesAssumption, K!RunnerWays, K!Ways, K!ToSet

LEMMA CardsTyped ==
    ASSUME cards \in Seq(CardSet), NEW c \in K!ToSet(cards)
    PROVE  /\ c \in CardSet /\ c.way \in K!Ways /\ c.others \subseteq K!RunnerWays
           /\ c.way \in K!Offers(c)
<1>1. c \in CardSet  BY DEF K!ToSet
<1> QED  BY <1>1 DEF CardSet, K!Offers

LEMMA InvIsTyped ==
    ASSUME K!GamesAssumption, CardsInv
    PROVE  K!TypeOK /\ K!EveryWayHasEntry
<1>1. K!TypeOK
    <2>1. \A i \in DOMAIN cards : cards[i] \in CardSet  BY DEF CardsInv
    <2> QED  BY <2>1 DEF CardsInv, RestTypes, Lone, K!TypeOK, CardSet
<1>2. K!EveryWayHasEntry  BY DEF CardsInv, AllRecorded, Recorded, K!EveryWayHasEntry
<1> QED  BY <1>1, <1>2

\* The cards change, and no record is taken back.
LEMMA CardsKeep ==
    ASSUME CardsInv, cards' \in Seq(CardSet), Lone(cards'), RestTypes',
           profiles \subseteq profiles', entries \subseteq entries',
           DOMAIN wine \subseteq DOMAIN wine',
           \A c \in K!ToSet(cards') : \A w \in K!Offers(c) :
                Recorded(w)' \/ \E d \in K!ToSet(cards) : w \in K!Offers(d)
    PROVE  CardsInv'
<1>1. \A w : Recorded(w) => Recorded(w)'  BY DEF Recorded
<1>2. K!ToSet(cards)' = K!ToSet(cards')  BY DEF K!ToSet
<1>3. \A c \in K!ToSet(cards') : \A w \in K!Offers(c) : Recorded(w)'
    BY <1>1 DEF CardsInv, AllRecorded
<1> QED  BY <1>2, <1>3 DEF CardsInv, AllRecorded, Lone, Recorded, K!Offers
LEMMA PageIs ==
    ASSUME K!GamesAssumption, CardsInv, NEW p \in Owners, NEW n \in 0..Len(K!Listed(p))
    PROVE  /\ K!Listed(p) \in Seq(1..Len(Roms))
           /\ K!Page(p, n) \in Seq(K!RunnerWays)
           /\ \A w \in K!ToSet(K!Page(p, n)) : w \in K!RunnerWays /\ w[1] = p
<1> DEFINE places == [i \in 1..Len(Roms) |-> i]
<1>1. Len(Roms) \in Nat  BY OwnersDiffer
<1>2. places \in Seq(1..Len(Roms))  BY <1>1
<1> HIDE DEF places
<1>3. K!Listed(p) \in Seq(1..Len(Roms))  BY <1>2, KeepIs DEF K!Listed, places
<1>4. \A i \in 1..n : K!Listed(p)[i] \in 1..Len(Roms)  BY <1>3
<1>5. \A i \in 1..n : <<p, Roms[K!Listed(p)[i]]>> \in K!RunnerWays  BY <1>4, OwnersDiffer
<1>6. n \in Nat  BY <1>3
<1>7. K!Page(p, n) \in [1..n -> K!RunnerWays]  BY <1>5 DEF K!Page
<1>8. \A w \in K!ToSet(K!Page(p, n)) : \E i \in 1..n : w = <<p, Roms[K!Listed(p)[i]]>>
    BY DEF K!Page, K!ToSet
<1>9. K!Page(p, n) \in Seq(K!RunnerWays)  BY <1>6, <1>7
<1> QED  BY <1>3, <1>5, <1>8, <1>9

LEMMA CommitKeeps ==
    ASSUME K!GamesAssumption, CardsInv, NEW p \in Owners, NEW n \in 0..Len(K!Listed(p)),
           n = 0 => K!Listed(p) = <<>>, K!CommitPage(p, n)
    PROVE  CardsInv' /\ K!FiledOnce(cards', K!Page(p, n))
<1> DEFINE page == K!Page(p, n)
<1>1. /\ p \in profiles /\ cards' = K!FileAll(cards, page)
      /\ entries' = entries \cup K!ToSet(page) /\ gone' = gone \ K!ToSet(page)
      /\ reached' = [reached EXCEPT ![p] = IF n = Len(K!Listed(p)) THEN 0 ELSE K!Listed(p)[n]]
      /\ UNCHANGED <<profiles, holding, wine>>
    BY DEF K!CommitPage
<1>2. page \in Seq(K!RunnerWays) /\ \A w \in K!ToSet(page) : w \in K!RunnerWays /\ w[1] = p
    BY PageIs
<1>3. cards \in Seq(CardSet) /\ Lone(cards) /\ RestTypes  BY DEF CardsInv
<1> HIDE DEF page
<1>4. /\ cards' \in Seq(CardSet) /\ Lone(cards')
      /\ Within(K!ToSet(cards), K!ToSet(cards'), K!ToSet(page))
      /\ \A w \in K!ToSet(page) : FiledFor(K!ToSet(cards'), w, K!ToSet(page))
    BY <1>1, <1>2, <1>3, FileAllIs
<1>5. \A w \in K!ToSet(page) : Recorded(w)'
    BY <1>1, <1>2, OwnersDiffer DEF Recorded
<1>6. (IF n = Len(K!Listed(p)) THEN 0 ELSE K!Listed(p)[n]) \in 0..Len(Roms)
    <2>1. K!Listed(p) \in Seq(1..Len(Roms)) /\ Len(Roms) \in Nat  BY PageIs, OwnersDiffer
    <2>2. n = 0 => n = Len(K!Listed(p))  OBVIOUS
    <2>3. n # 0 => K!Listed(p)[n] \in 1..Len(Roms)  BY <2>1
    <2> QED  BY <2>1, <2>2, <2>3
<1>7. RestTypes'
    <2>1. reached' \in [Owners -> 0..Len(Roms)]  BY <1>1, <1>3, <1>6 DEF RestTypes
    <2> QED  BY <1>1, <1>2, <1>3, <2>1 DEF RestTypes
<1>8. \A c \in K!ToSet(cards') : \A w \in K!Offers(c) :
            Recorded(w)' \/ \E d \in K!ToSet(cards) : w \in K!Offers(d)
    BY <1>4, <1>5 DEF Within
<1>9. CardsInv'  BY <1>1, <1>4, <1>7, <1>8, CardsKeep
<1> QED  BY <1>4, <1>9, PageIsOnce DEF page

\* Cards that go take their ways, and the rest stay as they were.
LEMMA WithoutIs ==
    ASSUME NEW cs \in Seq(CardSet), NEW owner, Lone(cs)
    PROVE  /\ K!Without(cs, owner) \in Seq(CardSet) /\ Lone(K!Without(cs, owner))
           /\ K!ToSet(K!Without(cs, owner)) = {c \in K!ToSet(cs) : c.way[1] # owner}
BY KeepIs DEF K!Without

LEMMA DropIs ==
    ASSUME NEW cs \in Seq(CardSet), NEW way, Lone(cs)
    PROVE  /\ K!Drop(cs, way) \in Seq(CardSet) /\ Lone(K!Drop(cs, way))
           /\ K!ToSet(K!Drop(cs, way)) = {c \in K!ToSet(cs) : c.way # way}
BY KeepIs DEF K!Drop

LEMMA DetachIs ==
    ASSUME NEW cs \in Seq(CardSet), NEW p, Lone(cs)
    PROVE  /\ K!Detach(cs, p) \in Seq(CardSet) /\ Lone(K!Detach(cs, p))
           /\ \A c \in K!ToSet(K!Detach(cs, p)) : \E d \in K!ToSet(cs) :
                c.way = d.way /\ c.others = {w \in d.others : w[1] # p}
<1> DEFINE r == K!Detach(cs, p)
<1>1. DOMAIN cs = 1..Len(cs) /\ Len(cs) \in Nat /\ \A i \in 1..Len(cs) : cs[i] \in CardSet
    OBVIOUS
<1>2. /\ DOMAIN r = 1..Len(cs)
      /\ \A i \in 1..Len(cs) : r[i] = [cs[i] EXCEPT !.others = {w \in @ : w[1] # p}]
      /\ r = [i \in 1..Len(cs) |-> r[i]]
    BY <1>1 DEF K!Detach
<1> HIDE DEF r
<1>3. \A i \in 1..Len(cs) :
        /\ r[i] \in CardSet /\ r[i].way = cs[i].way
        /\ r[i].others = {w \in cs[i].others : w[1] # p}
    BY <1>1, <1>2 DEF CardSet
<1>4. r \in [1..Len(cs) -> CardSet]  BY <1>2, <1>3
<1>5. r \in Seq(CardSet)  BY <1>1, <1>4
<1>6. Lone(r)  BY <1>1, <1>2, <1>3 DEF Lone
<1> QED  BY <1>1, <1>2, <1>3, <1>5, <1>6 DEF K!ToSet, r

LEMMA RemoveProfileKeeps ==
    ASSUME K!GamesAssumption, CardsInv, NEW p \in Owners, K!RemoveProfile(p)
    PROVE  CardsInv'
<1>1. /\ profiles' = profiles \ {p} /\ entries' = {w \in entries : w[1] # p}
      /\ cards' = K!Without(K!Detach(cards, p), p)
      /\ reached' = [reached EXCEPT ![p] = 0] /\ gone' = {w \in gone : w[1] # p}
      /\ UNCHANGED <<holding, wine>>
    BY DEF K!RemoveProfile
<1>2. cards \in Seq(CardSet) /\ Lone(cards) /\ RestTypes /\ AllRecorded  BY DEF CardsInv
<1>3. /\ K!Detach(cards, p) \in Seq(CardSet) /\ Lone(K!Detach(cards, p))
      /\ \A c \in K!ToSet(K!Detach(cards, p)) : \E d \in K!ToSet(cards) :
            c.way = d.way /\ c.others = {w \in d.others : w[1] # p}
    BY <1>2, DetachIs
<1>4. /\ cards' \in Seq(CardSet) /\ Lone(cards')
      /\ K!ToSet(cards') = {c \in K!ToSet(K!Detach(cards, p)) : c.way[1] # p}
    BY <1>1, <1>3, WithoutIs
<1>5. RestTypes'
    <2>1. 0 \in 0..Len(Roms)  BY OwnersDiffer
    <2> QED  BY <1>1, <1>2, <2>1 DEF RestTypes
<1>6. ASSUME NEW c \in K!ToSet(cards'), NEW w \in K!Offers(c)  PROVE Recorded(w)'
    <2>1. PICK d \in K!ToSet(cards) : c.way = d.way /\ c.others = {v \in d.others : v[1] # p}
        BY <1>3, <1>4
    <2>2. w \in K!Offers(d) /\ w[1] # p  BY <1>4, <1>6, <2>1 DEF K!Offers
    <2>3. Recorded(w)  BY <1>2, <2>2 DEF AllRecorded
    <2> QED  BY <1>1, <2>2, <2>3 DEF Recorded
<1>7. K!ToSet(cards)' = K!ToSet(cards')  BY DEF K!ToSet
<1> QED  BY <1>4, <1>5, <1>6, <1>7 DEF CardsInv, AllRecorded, Lone, Recorded, K!Offers

LEMMA ProfilesKeep ==
    ASSUME K!GamesAssumption, CardsInv, NEW p \in Owners, K!CreateProfile(p) \/ K!AddRom(p)
    PROVE  CardsInv'
<1>1. /\ UNCHANGED <<cards, entries, reached, wine, gone>>
      /\ profiles \subseteq profiles' /\ profiles' \subseteq profiles \cup {p}
    BY DEF K!CreateProfile, K!AddRom
<1>2. holding' \in [Owners -> SUBSET K!ToSet(Roms)]
    <2>1. CASE K!CreateProfile(p)  BY <2>1 DEF K!CreateProfile, CardsInv, RestTypes
    <2>2. CASE K!AddRom(p)  BY <2>2 DEF K!AddRom, CardsInv, RestTypes
    <2> QED  BY <2>1, <2>2
<1>3. RestTypes'  BY <1>1, <1>2 DEF CardsInv, RestTypes
<1>4. cards' = cards /\ cards \in Seq(CardSet) /\ Lone(cards)  BY <1>1 DEF CardsInv
<1>5. K!ToSet(cards') = K!ToSet(cards)  BY <1>4
<1> QED  BY <1>1, <1>3, <1>4, <1>5, CardsKeep

\* Some cards are made anew, and others go.
LEMMA CardsUpsertKeep ==
    ASSUME K!GamesAssumption, CardsInv, RestTypes', NEW cs \in Seq(CardSet), Lone(cs),
           NEW ways \in SUBSET K!Ways, IsFiniteSet(ways), cards' = K!UpsertAll(cs, ways),
           UNCHANGED <<profiles, entries>>, DOMAIN wine \subseteq DOMAIN wine',
           \A w \in ways : Recorded(w)',
           \A c \in K!ToSet(cs) : \A w \in K!Offers(c) :
                Recorded(w)' \/ \E d \in K!ToSet(cards) : w \in K!Offers(d)
    PROVE  CardsInv'
<1>1. /\ cards' \in Seq(CardSet) /\ Lone(cards')
      /\ K!ToSet(cards') = {c \in K!ToSet(cs) : c.way \notin ways} \cup {K!Card(w) : w \in ways}
    BY UpsertAllIs
<1>2. \A w \in ways : \A v \in K!Offers(K!Card(w)) : v = w  BY DEF K!Offers, K!Card
<1> QED  BY <1>1, <1>2, CardsKeep

LEMMA SyncKeeps ==
    ASSUME K!GamesAssumption, CardsInv, K!SyncStore
    PROVE  CardsInv'
<1>1. PICK answer \in SUBSET StoreGames : cards' = K!UpsertAll(cards, {"store"} \X answer)
    BY DEF K!SyncStore
<1>2. UNCHANGED <<profiles, entries, reached, holding, wine, gone>>  BY DEF K!SyncStore
<1>3. cards \in Seq(CardSet) /\ Lone(cards) /\ RestTypes  BY DEF CardsInv
<1> DEFINE ways == {"store"} \X answer
<1>4. ways \in SUBSET K!Ways  BY DEF K!Ways
<1>5. IsFiniteSet(ways)
    <2>1. IsFiniteSet({"store"}) /\ IsFiniteSet(answer)
        BY FS_Singleton, FS_Subset, SizeInK DEF K!GamesAssumption
    <2> QED  BY <2>1, FS_Product
<1>6. RestTypes'  BY <1>2, <1>3 DEF RestTypes
<1>7. \A w \in ways : w[1] = "store"  OBVIOUS
<1>8. \A w \in ways : Recorded(w)'  BY <1>7, OwnersDiffer DEF Recorded
<1>9. UNCHANGED <<profiles, entries>> /\ DOMAIN wine \subseteq DOMAIN wine'  BY <1>2
<1>10. cards' = K!UpsertAll(cards, ways)  BY <1>1
<1> HIDE DEF ways
<1> QED  BY <1>3, <1>4, <1>5, <1>6, <1>8, <1>9, <1>10, CardsUpsertKeep

\* Cards go, and records that no card needs any more.
LEMMA CardsGo ==
    ASSUME CardsInv, RestTypes', cards' \in Seq(CardSet), Lone(cards'),
           K!ToSet(cards') \subseteq K!ToSet(cards), UNCHANGED <<profiles, entries>>,
           \A c \in K!ToSet(cards') : \A w \in K!Offers(c) :
                w[1] = "wine" /\ w[2] \in DOMAIN wine => w[2] \in DOMAIN wine'
    PROVE  CardsInv'
<1>1. \A c \in K!ToSet(cards') : \A w \in K!Offers(c) : Recorded(w)'
    BY DEF CardsInv, AllRecorded, Recorded
<1>2. K!ToSet(cards)' = K!ToSet(cards')  BY DEF K!ToSet
<1> QED  BY <1>1, <1>2 DEF CardsInv, AllRecorded, Lone, Recorded, K!Offers

LEMMA ForgetKeeps ==
    ASSUME K!GamesAssumption, CardsInv, K!ForgetStore
    PROVE  CardsInv'
<1>1. cards \in Seq(CardSet) /\ Lone(cards) /\ RestTypes  BY DEF CardsInv
<1>2. /\ cards' = K!Without(cards, "store")
      /\ UNCHANGED <<profiles, entries, reached, holding, wine>>
      /\ gone' = gone
            \cup UNION {K!Removes(c) : c \in {d \in K!ToSet(cards) : d.way[1] = "store"}}
    BY DEF K!ForgetStore
<1>3. gone' \subseteq entries  BY <1>1, <1>2 DEF K!Removes, RestTypes
<1>4. RestTypes'  BY <1>1, <1>2, <1>3 DEF RestTypes
<1>5. /\ cards' \in Seq(CardSet) /\ Lone(cards')
      /\ K!ToSet(cards') = {c \in K!ToSet(cards) : c.way[1] # "store"}
    BY <1>1, <1>2, WithoutIs
<1> QED  BY <1>2, <1>4, <1>5, CardsGo

LEMMA RemoveWineKeeps ==
    ASSUME K!GamesAssumption, CardsInv, K!RemoveWineProfile
    PROVE  CardsInv'
<1>1. cards \in Seq(CardSet) /\ Lone(cards) /\ RestTypes  BY DEF CardsInv
<1>2. /\ cards' = K!Without(cards, "wine") /\ wine' = <<>>
      /\ UNCHANGED <<profiles, entries, reached, holding, gone>>
    BY DEF K!RemoveWineProfile
<1>3. DOMAIN wine' = {}  BY <1>2
<1>4. RestTypes'  BY <1>1, <1>2, <1>3 DEF RestTypes
<1>5. /\ cards' \in Seq(CardSet) /\ Lone(cards')
      /\ K!ToSet(cards') = {c \in K!ToSet(cards) : c.way[1] # "wine"}
    BY <1>1, <1>2, WithoutIs
<1>6. ASSUME NEW c \in K!ToSet(cards'), NEW w \in K!Offers(c), w[1] = "wine"  PROVE FALSE
    <2>1. c \in K!ToSet(cards) /\ c.way[1] # "wine"  BY <1>5
    <2>2. c.others \subseteq K!RunnerWays  BY <1>1, <2>1, CardsTyped
    <2>3. w \in K!RunnerWays  BY <1>6, <2>1, <2>2 DEF K!Offers
    <2> QED  BY <1>6, <2>3, OwnersDiffer
<1> QED  BY <1>2, <1>4, <1>5, <1>6, CardsGo

LEMMA RemoveGameKeeps ==
    ASSUME K!GamesAssumption, CardsInv, NEW c \in K!Shelf, K!RemoveGame(c)
    PROVE  CardsInv'
<1>1. cards \in Seq(CardSet) /\ Lone(cards) /\ RestTypes  BY DEF CardsInv
<1>2. /\ cards' = K!Drop(cards, c.way) /\ gone' = gone \cup K!Removes(c)
      /\ UNCHANGED <<profiles, entries, reached, holding, wine>>
    BY DEF K!RemoveGame
<1>3. RestTypes'  BY <1>1, <1>2 DEF RestTypes, K!Removes
<1>4. /\ cards' \in Seq(CardSet) /\ Lone(cards') /\ K!ToSet(cards') \subseteq K!ToSet(cards)
    BY <1>1, <1>2, DropIs
<1> QED  BY <1>2, <1>3, <1>4, CardsGo

\* Games given to Wine have an entry there.
LEMMA AssociateKeeps ==
    ASSUME K!GamesAssumption, CardsInv, NEW cs \in Seq(CardSet), Lone(cs),
           NEW ds \in SUBSET Directs, NEW links \in [ds -> BOOLEAN],
           cards' = K!UpsertAll(cs, {"wine"} \X ds), wine' = K!Give(ds, links),
           UNCHANGED <<profiles, entries, reached, holding, gone>>,
           \A c \in K!ToSet(cs) : \A w \in K!Offers(c) :
                w[1] \in {"direct"} \/ \E d \in K!ToSet(cards) : w \in K!Offers(d)
    PROVE  CardsInv'
<1>1. RestTypes  BY DEF CardsInv
<1> DEFINE ways == {"wine"} \X ds
<1>2. ways \in SUBSET K!Ways  BY DEF K!Ways
<1>3. IsFiniteSet(ways)
    <2>1. IsFiniteSet({"wine"}) /\ IsFiniteSet(ds)
        BY FS_Singleton, FS_Subset, SizeInK DEF K!GamesAssumption
    <2> QED  BY <2>1, FS_Product
<1>4. DOMAIN wine' = DOMAIN wine \cup ds /\ \A d \in DOMAIN wine' : wine'[d] \in BOOLEAN
    BY <1>1 DEF K!Give, RestTypes
<1>5. RestTypes'  BY <1>1, <1>4 DEF RestTypes
<1>6. \A w \in ways : w[1] = "wine" /\ w[2] \in ds  OBVIOUS
<1>7. \A w \in ways : Recorded(w)'  BY <1>4, <1>6, OwnersDiffer DEF Recorded
<1>8. \A w : w[1] \in {"direct"} => Recorded(w)'
    BY OwnersDiffer DEF Recorded
<1>9. UNCHANGED <<profiles, entries>> /\ DOMAIN wine \subseteq DOMAIN wine'  BY <1>4
<1>10. cards' = K!UpsertAll(cs, ways)  OBVIOUS
<1>11. \A c \in K!ToSet(cs) : \A w \in K!Offers(c) :
            Recorded(w)' \/ \E d \in K!ToSet(cards) : w \in K!Offers(d)
    BY <1>8
<1> HIDE DEF ways
<1> QED  BY <1>2, <1>3, <1>5, <1>7, <1>9, <1>10, <1>11, CardsUpsertKeep

LEMMA GiveKeeps ==
    ASSUME K!GamesAssumption, CardsInv, NEW d \in Directs, K!AddDirect(d) \/ K!ScanWine(d)
    PROVE  CardsInv'
<1>1. cards \in Seq(CardSet) /\ Lone(cards) /\ RestTypes  BY DEF CardsInv
<1>2. CASE K!AddDirect(d)
    <2> DEFINE new == K!Card(<<"direct", d>>)
               added == Append(cards, new)
    <2>1. <<"direct", d>> \in K!Ways  BY DEF K!Ways
    <2>2. new \in CardSet /\ new.way = <<"direct", d>> /\ K!Offers(new) = {<<"direct", d>>}
        BY <2>1, CardIs DEF K!Offers
    <2>3. \A c \in K!ToSet(cards) : c.way # <<"direct", d>>
        BY <1>2 DEF K!AddDirect, K!Has, K!ToSet
    <2>4. PICK ds \in SUBSET K!Pending(added) : K!Associate(added, ds)
        BY <1>2 DEF K!AddDirect
    <2>5. UNCHANGED <<profiles, entries, reached, holding, gone>>  BY <1>2 DEF K!AddDirect
    <2> HIDE DEF new
    <2>6. added \in Seq(CardSet)  BY <1>1, <2>2
    <2>7. Lone(added)  BY <1>1, <2>2, <2>3, AppendLone
    <2>8. K!ToSet(added) = K!ToSet(cards) \cup {new}  BY <1>1, AppendSet
    <2> HIDE DEF added
    <2>9. ds \in SUBSET Directs  BY DEF K!Pending
    <2>10. /\ cards' = K!UpsertAll(added, {"wine"} \X ds)
           /\ wine' = K!Give(ds, [x \in ds |-> TRUE])
           /\ [x \in ds |-> TRUE] \in [ds -> BOOLEAN]
        BY <2>4 DEF K!Associate
    <2>11. \A c \in K!ToSet(added) : \A w \in K!Offers(c) :
            w[1] \in {"direct"} \/ \E o \in K!ToSet(cards) : w \in K!Offers(o)
        BY <2>2, <2>8
    <2> QED  BY <2>5, <2>6, <2>7, <2>9, <2>10, <2>11, AssociateKeeps
<1>3. CASE K!ScanWine(d)
    <2> DEFINE ds == {d}
               links == [x \in ds |-> d \in K!Linked \/ K!Has(cards, <<"direct", d>>)]
    <2>1. /\ cards' = K!Upsert(cards, <<"wine", d>>) /\ wine' = K!Give(ds, links)
          /\ UNCHANGED <<profiles, entries, reached, holding, gone>>
        BY <1>3 DEF K!ScanWine
    <2>2. {<<"wine", d>>} = {"wine"} \X ds  OBVIOUS
    <2>3. cards' = K!UpsertAll(cards, {"wine"} \X ds)  BY <2>1, <2>2 DEF K!Upsert
    <2>4. (d \in K!Linked \/ K!Has(cards, <<"direct", d>>)) \in BOOLEAN  OBVIOUS
    <2>5. links \in [ds -> BOOLEAN] /\ ds \in SUBSET Directs  BY <2>4
    <2> HIDE DEF ds, links
    <2> QED  BY <1>1, <2>1, <2>3, <2>5, AssociateKeeps
<1> QED  BY <1>2, <1>3

LEMMA GiveToWineKeeps ==
    ASSUME K!GamesAssumption, CardsInv, K!GiveToWine
    PROVE  CardsInv'
<1>1. cards \in Seq(CardSet) /\ Lone(cards)  BY DEF CardsInv
<1>2. PICK ds \in SUBSET K!Pending(cards) : K!Associate(cards, ds)  BY DEF K!GiveToWine
<1>3. UNCHANGED <<profiles, entries, reached, holding, gone>>  BY DEF K!GiveToWine
<1>4. ds \in SUBSET Directs  BY DEF K!Pending
<1>5. /\ cards' = K!UpsertAll(cards, {"wine"} \X ds)
      /\ wine' = K!Give(ds, [x \in ds |-> TRUE])
      /\ [x \in ds |-> TRUE] \in [ds -> BOOLEAN]
    BY <1>2 DEF K!Associate
<1> QED  BY <1>1, <1>3, <1>4, <1>5, AssociateKeeps

LEMMA CardsStart ==
    ASSUME K!GamesAssumption, K!Init
    PROVE  CardsInv
<1>1. 0 \in 0..Len(Roms)  BY OwnersDiffer
<1> QED  BY <1>1 DEF K!Init, CardsInv, Lone, RestTypes, AllRecorded, K!ToSet

LEMMA CardsNext ==
    ASSUME K!GamesAssumption, CardsInv, [K!Next]_(K!vars)
    PROVE  CardsInv'
<1>1. ASSUME NEW p \in Owners, K!CreateProfile(p) \/ K!AddRom(p)  PROVE CardsInv'
    BY <1>1, ProfilesKeep
<1>2. ASSUME NEW p \in Owners, K!ImportPage(p)  PROVE CardsInv'
    BY <1>2, CommitKeeps DEF K!ImportPage
<1>3. ASSUME NEW p \in Owners, K!RemoveProfile(p)  PROVE CardsInv'
    BY <1>3, RemoveProfileKeeps
<1>4. ASSUME NEW d \in Directs, K!AddDirect(d) \/ K!ScanWine(d)  PROVE CardsInv'
    BY <1>4, GiveKeeps
<1>5. ASSUME NEW c \in K!Shelf, K!RemoveGame(c)  PROVE CardsInv'
    BY <1>5, RemoveGameKeeps
<1>6. CASE K!SyncStore \/ K!ForgetStore  BY <1>6, SyncKeeps, ForgetKeeps
<1>7. CASE K!GiveToWine \/ K!RemoveWineProfile  BY <1>7, GiveToWineKeeps, RemoveWineKeeps
<1>8. CASE UNCHANGED K!vars
    BY <1>8 DEF K!vars, CardsInv, Lone, RestTypes, AllRecorded, K!ToSet, Recorded, K!Offers
<1> QED  BY <1>1, <1>2, <1>3, <1>4, <1>5, <1>6, <1>7, <1>8 DEF K!Next

LEMMA CardsInvariant ==
    ASSUME K!GamesAssumption
    PROVE  K!Spec => []CardsInv
<1>1. K!Init => CardsInv  BY CardsStart
<1>2. CardsInv /\ [K!Next]_(K!vars) => CardsInv'  BY CardsNext
<1> QED  BY <1>1, <1>2, PTL DEF K!Spec

\* catalog.rs: every way a card offers has the record a launch reads, for any library.
THEOREM WaysAreRecorded ==
    ASSUME K!GamesAssumption
    PROVE  K!Spec => [](K!TypeOK /\ K!EveryWayHasEntry)
<1>1. CardsInv => K!TypeOK /\ K!EveryWayHasEntry  BY InvIsTyped
<1> QED  BY <1>1, CardsInvariant, PTL

\* runner_host.rs: a page of an import leaves one card for each of its games.
THEOREM PagesAreFiled ==
    ASSUME K!GamesAssumption
    PROVE  K!Spec => K!ImportFilesEachGame
<1>1. CardsInv => K!PageIsFiled
    <2> SUFFICES ASSUME CardsInv, NEW p \in Owners, NEW n \in 1..Len(K!Listed(p)),
                        K!CommitPage(p, n)
                 PROVE  K!FiledOnce(cards', K!Page(p, n))
        BY DEF K!PageIsFiled
    <2>1. n \in 0..Len(K!Listed(p)) /\ n # 0  OBVIOUS
    <2> QED  BY <2>1, CommitKeeps
<1> QED  BY <1>1, CardsInvariant, PTL DEF K!ImportFilesEachGame
===============================================================================
