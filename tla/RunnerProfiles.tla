--------------------------- MODULE RunnerProfiles ---------------------------
(****************************************************************************)
(* The runner profiles of one plugin, the permissions recorded against its  *)
(* package, and the import of its games (src-tauri/src/runner_commands.rs,  *)
(* runner_host.rs and the operations of catalog.rs they commit), while the  *)
(* installer changes the package underneath (plugin_update.rs, lib.rs).     *)
(*                                                                          *)
(* A thread runs one command at a time.  One action is one read of the      *)
(* installed package, one snapshot of the catalog, or one commit under its  *)
(* mutation lease: what a command read before is what it still holds.       *)
(****************************************************************************)
EXTENDS Naturals

CONSTANTS
    Threads,
    Profiles,    \* the identifiers profiles are given, each of them once
    Folders,     \* what the picker of the one folder slot may return
    Packages,    \* what may be installed under the plugin's identifier
    Unsigned,    \* the channel of a sideloaded package
    Pages,       \* how many pages the plugin's library has, one game on each
    Absent

ValuesAssumption ==
    /\ Absent \notin Folders /\ Absent \notin Packages
    /\ Absent \notin {package.component : package \in Packages}
PagesAssumption == Pages \in Nat \ {0}

Capabilities == {"files", "prepare"}     \* scoped by folder key and by profile id
Components == {package.component : package \in Packages}

\* RunnerProfile.  `accepted` is the component whose verdict is Valid, Absent
\* when the profile is Rejected or Unvalidated: neither is usable.
Profile == [folder : Folders \cup {Absent},
            accepted : Components \cup {Absent},
            cursor : 0..Pages, complete : BOOLEAN]

\* PluginGrantRecord, when it is active.  A folder key has one slot, so it is
\* named by its profile.
Grant == [package : Packages, scope : SUBSET Profiles]

\* Where a command is: what it does next.
Places == {"load", "create", "save", "ask", "answer", "grant", "remove",
           "resolve", "page", "merge", "replace", "compare", "forget"}

VARIABLES
    live,        \* the installed package
    \* the catalog, on disk and in memory
    profile,     \* runner_profiles
    inventory,   \* runner_inventory: the pages whose games were imported
    grants,      \* the active row of each capability
    thread,
    \* what happened, for the properties only
    made,        \* the identifiers given so far
    removed,     \* those whose profile was deleted
    consent      \* the package the user last said yes to, for each value of a scope

catalog == <<profile, inventory, grants>>
history == <<made, removed, consent>>
vars == <<live, profile, inventory, grants, thread, made, removed, consent>>

------------------------------------------------------------------------------
(* Packages and grants *)

Trusted(package) == package.channel # Unsigned

\* PluginGrantRecord::applies_to.
AppliesTo(grant, package) ==
    IF Trusted(grant.package)
    THEN Trusted(package)
    ELSE ~Trusted(package) /\ grant.package.component = package.component

\* Mutant: the scope is carried over whatever package it was allowed to.
AllowCarrying(grant, package, p) ==
    [package |-> package, scope |-> {p} \cup IF grant # Absent THEN grant.scope ELSE {}]

\* allow_plugin_scope_value: a value joins the scope of a grant that applies to
\* this package, and starts it over otherwise.
Allow(grant, package, p) ==
    [package |-> package,
     scope |-> {p} \cup IF grant # Absent /\ AppliesTo(grant, package)
                        THEN grant.scope ELSE {}]

\* revoke_plugin_scope_value: the row is narrowed, and an empty one is revoked.
Narrow(grant, p) ==
    IF grant = Absent \/ grant.scope \ {p} = {}
    THEN (IF grant # Absent /\ p \notin grant.scope THEN grant ELSE Absent)
    ELSE [grant EXCEPT !.scope = @ \ {p}]

\* What resolve_profile_grants lets a call use of one capability.
Holds(capability, package, p) ==
    /\ grants[capability] # Absent
    /\ AppliesTo(grants[capability], package)
    /\ p \in grants[capability].scope
    /\ capability = "files" => profile[p].folder # Absent

\* grant_verdict: whether the consent chain goes from one package to the next.
Successor(previous, current) ==
    \/ previous.component = current.component /\ previous.channel = current.channel
    \/ /\ Trusted(previous) /\ previous.channel = current.channel
       /\ current.version > previous.version

\* The observer of lib.rs, told that the package went from one to the other.
Lapsed(previous, current) ==
    \/ current = Absent
    \/ previous # Absent /\ ~Successor(previous, current)

------------------------------------------------------------------------------
(* The catalog *)

\* Catalog::validate, as far as a profile write can fail it: a game stays inside
\* the folder it was imported from.
Fits(p, value) ==
    profile[p] # Absent /\ inventory[p] # {} => value.folder = profile[p].folder

\* upsert_runner_profile replaces the profile as a whole, and inserts one that
\* is not there.
Upsert(p, value) == profile' = [profile EXCEPT ![p] = value]

\* usable_profile, as far as the verdict: given by the very component that asks.
Usable(p, package) == profile[p] # Absent /\ profile[p].accepted = package.component

------------------------------------------------------------------------------
(* Threads *)

Idle == [at |-> "idle"]

\* What a command carries: its profile, the package it loaded, and the copy of
\* the profile it read, with the changes it is going to write.
Command == [at : Places, command : {"create", "edit", "flip", "grant", "delete", "import", "store"},
            p : Profiles \cup {Absent}, package : Packages \cup {Absent},
            held : Profile \cup {Absent}, cancelled : BOOLEAN]

Start(t, command, at, p, held) ==
    thread' = [thread EXCEPT ![t] =
        [at |-> at, command |-> command, p |-> p, package |-> Absent,
         held |-> held, cancelled |-> FALSE]]
Continue(t, at, held) == thread' = [thread EXCEPT ![t].at = at, ![t].held = held]
Revalidate(t) ==   \* of a profile just created, too
    thread' = [thread EXCEPT ![t].at = "ask", ![t].command = "edit", ![t].held = Absent]
Finish(t) == thread' = [thread EXCEPT ![t] = Idle]

At(t, at) == thread[t].at = at
Opens(t, p) == At(t, "idle") /\ profile[p] # Absent
Stutters == UNCHANGED <<live, catalog, history>>

\* RunnerCommandService::package reads and identifies the installed package.
AfterLoad(command) ==
    CASE command = "create" -> "create" [] command = "edit" -> "save"
      [] command = "grant" -> "grant" [] command = "import" -> "resolve"

Load(t) ==
    /\ At(t, "load")
    /\ IF live = Absent
       THEN Finish(t)
       ELSE thread' = [thread EXCEPT ![t].package = live, ![t].at = AfterLoad(thread[t].command)]
    /\ Stutters

------------------------------------------------------------------------------
(* Profiles: create_profile_with_id, rename_profile, set_profile_application, *)
(* set_profile_enabled, set_profile_launch_mode                               *)

NewProfile == [folder |-> Absent,
               accepted |-> Absent, cursor |-> 0, complete |-> FALSE]

CreateProfile(t, p) ==
    /\ At(t, "idle") /\ p \notin made
    /\ Start(t, "create", "load", p, NewProfile)
    /\ made' = made \cup {p}
    /\ UNCHANGED <<live, catalog, removed, consent>>

\* Creating a profile is the consent to prepare its launches.
CommitCreated(t) ==
    LET p == thread[t].p  package == thread[t].package
    IN  /\ At(t, "create")
        /\ Upsert(p, thread[t].held)
        /\ grants' = [grants EXCEPT !["prepare"] = Allow(@, package, p)]
        /\ consent' = [consent EXCEPT !["prepare"][p] = package]
        /\ Revalidate(t)
        /\ UNCHANGED <<live, inventory, made, removed>>

\* The new name or application is beside the question of any property: what
\* matters is the whole profile it is written with.
EditProfile(t, p) ==
    /\ Opens(t, p)
    /\ Start(t, "edit", "load", p, profile[p])
    /\ Stutters

\* The switch itself is not kept: a profile that is off refuses its next import,
\* and an import may be refused for other reasons.
SetEnabled(t, p) ==
    /\ Opens(t, p)
    /\ Start(t, "flip", "save", p, profile[p])
    /\ Stutters

\* A folder means something else under the other mode, so the cursor is reset;
\* the mode itself is beside the question of any property.
SetLaunchMode(t, p) ==
    /\ Opens(t, p)
    /\ Start(t, "flip", "save", p, [profile[p] EXCEPT !.cursor = 0, !.complete = FALSE])
    /\ Stutters

\* commit_profile: the copy is written whole, over whatever is there now.
Save(t) ==
    LET p == thread[t].p
    IN  /\ At(t, "save")
        /\ IF Fits(p, thread[t].held)
           THEN /\ Upsert(p, thread[t].held)
                /\ IF thread[t].command = "edit" THEN Revalidate(t) ELSE Finish(t)
           ELSE UNCHANGED profile /\ Finish(t)
        /\ UNCHANGED <<live, inventory, grants, history>>

\* revalidate_profile: the snapshot it takes, the plugin's answer about it (a
\* verdict, or a call that failed), and the copy it writes back.
Ask(t) ==
    LET p == thread[t].p
    IN  /\ At(t, "ask")
        /\ IF profile[p] = Absent THEN Finish(t) ELSE Continue(t, "answer", profile[p])
        /\ Stutters

Answer(t, verdict) ==
    LET p == thread[t].p
        value == [thread[t].held EXCEPT !.accepted =
                     IF verdict = "valid" THEN thread[t].package.component ELSE Absent]
    IN  /\ At(t, "answer")
        /\ IF verdict # "failed" /\ Fits(p, value) THEN Upsert(p, value) ELSE UNCHANGED profile
        /\ Finish(t)
        /\ UNCHANGED <<live, inventory, grants, history>>

\* delete_profile tells the imports of the profile to stop, then removes it and
\* what it authorised: the keys of the folders it has at that moment.
DeleteProfile(t, p) ==
    /\ Opens(t, p)
    /\ thread' = [u \in Threads |->
          IF u = t THEN [at |-> "remove", command |-> "delete", p |-> p,
                         package |-> Absent, held |-> Absent, cancelled |-> FALSE]
          ELSE IF ~At(u, "idle") /\ thread[u].command = "import" /\ thread[u].p = p
          THEN [thread[u] EXCEPT !.cancelled = TRUE]
          ELSE thread[u]]
    /\ Stutters

CommitRemoved(t) ==
    LET p == thread[t].p
    IN  /\ At(t, "remove")
        /\ Finish(t)
        /\ UNCHANGED <<live, made>>
        /\ \/ /\ profile[p] = Absent
              /\ UNCHANGED <<catalog, removed, consent>>
           \/ /\ profile[p] # Absent
              /\ Upsert(p, Absent)
              /\ inventory' = [inventory EXCEPT ![p] = {}]
              /\ grants' = [files |-> IF profile[p].folder # Absent
                                      THEN Narrow(grants["files"], p) ELSE grants["files"],
                            prepare |-> Narrow(grants["prepare"], p)]
              /\ removed' = removed \cup {p}
              /\ consent' = [c \in Capabilities |-> [consent[c] EXCEPT ![p] = Absent]]

------------------------------------------------------------------------------
(* Folders: grant_directory, revoke_directory *)

PickFolder(t, p, folder) ==
    /\ Opens(t, p)
    /\ Start(t, "grant", "load", p, [NewProfile EXCEPT !.folder = folder])
    /\ Stutters

\* The profile is read again under the lease.  A slot that holds imported games
\* is not given another folder.
CommitFolder(t) ==
    LET p == thread[t].p
        package == thread[t].package
        value == [profile[p] EXCEPT !.folder = thread[t].held.folder]
    IN  /\ At(t, "grant")
        /\ Finish(t)
        /\ UNCHANGED <<live, inventory, made, removed>>
        /\ IF profile[p] # Absent /\ Fits(p, value)
           THEN /\ Upsert(p, value)
                /\ grants' = [grants EXCEPT !["files"] = Allow(@, package, p)]
                /\ consent' = [consent EXCEPT !["files"][p] = package]
           ELSE UNCHANGED <<profile, grants, consent>>

\* The permission goes and the folder stays; without a folder, nothing is done.
RevokeFolder(p) ==
    /\ profile[p] # Absent /\ profile[p].folder # Absent
    /\ grants' = [grants EXCEPT !["files"] = Narrow(@, p)]
    /\ consent' = [consent EXCEPT !["files"][p] = Absent]
    /\ UNCHANGED <<live, profile, inventory, thread, made, removed>>

------------------------------------------------------------------------------
(* Imports: start_import, import_now, import_runner_games *)

StartImport(t, p) ==
    /\ Opens(t, p)
    /\ Start(t, "import", "load", p, Absent)
    /\ Stutters

\* Mutant: a usable profile with a folder is enough.
ResolveFolder(t) ==
    LET p == thread[t].p
    IN  /\ At(t, "resolve")
        /\ \/ /\ Usable(p, thread[t].package) /\ profile[p].folder # Absent
              /\ thread' = [thread EXCEPT ![t].at = "page", ![t].package = Absent,
                     ![t].held = [NewProfile EXCEPT !.folder = profile[p].folder]]
           \/ Finish(t)
        /\ Stutters

\* The grants are resolved once, at the start, and the walk goes on from the
\* cursor of an import that was not completed.  An import may also be refused
\* because the profile is off or its folder cannot be opened.
ResolveGrants(t) ==
    LET p == thread[t].p
        cursor == IF profile[p].complete THEN 0 ELSE profile[p].cursor
    IN  /\ At(t, "resolve")
        /\ \/ /\ Usable(p, thread[t].package) /\ Holds("files", thread[t].package, p)
              /\ thread' = [thread EXCEPT ![t].at = "page", ![t].package = Absent,
                     ![t].held = [NewProfile EXCEPT !.folder = profile[p].folder,
                                                    !.cursor = cursor]]
           \/ Finish(t)
        /\ Stutters

\* cancel_import.
CancelImport(t) ==
    /\ ~At(t, "idle") /\ thread[t].command = "import" /\ ~thread[t].cancelled
    /\ thread' = [thread EXCEPT ![t].cancelled = TRUE]
    /\ Stutters

\* The flag is read, then the plugin is asked for the page after the cursor: a
\* call that fails, or the limit on pages and games, ends the import.
DiscoverPage(t) ==
    /\ At(t, "page")
    /\ \/ ~thread[t].cancelled /\ Continue(t, "merge", thread[t].held)
       \/ Finish(t)
    /\ Stutters

\* Mutant: the cursor moves on from wherever the profile's is by now.
MergePageAfterProfile(t) ==
    LET p == thread[t].p
        held == thread[t].held
        page == held.cursor + 1
        last == page = Pages
    IN  /\ At(t, "merge")
        /\ UNCHANGED <<live, grants, history>>
        /\ IF profile[p] # Absent /\ profile[p].folder = held.folder
           THEN /\ inventory' = [inventory EXCEPT ![p] = @ \cup {page}]
                /\ Upsert(p, [profile[p] EXCEPT !.cursor = IF last THEN 0 ELSE @ + 1, !.complete = last])
                /\ IF last THEN Finish(t) ELSE Continue(t, "page", [held EXCEPT !.cursor = page])
           ELSE UNCHANGED <<profile, inventory>> /\ Finish(t)

\* commit_resolved_page: the games and the cursor move together, on the profile
\* as it is now, unless its folder is no longer the one the page was resolved in.
MergePage(t) ==
    LET p == thread[t].p
        held == thread[t].held
        page == held.cursor + 1
        last == page = Pages
        cursor == IF last THEN 0 ELSE page
    IN  /\ At(t, "merge")
        /\ UNCHANGED <<live, grants, history>>
        /\ IF profile[p] # Absent /\ profile[p].folder = held.folder
           THEN /\ inventory' = [inventory EXCEPT ![p] = @ \cup {page}]
                /\ Upsert(p, [profile[p] EXCEPT !.cursor = cursor, !.complete = last])
                /\ IF last THEN Finish(t) ELSE Continue(t, "page", [held EXCEPT !.cursor = page])
           ELSE UNCHANGED <<profile, inventory>> /\ Finish(t)

------------------------------------------------------------------------------
(* The package: announcing, the observer of lib.rs, forget_plugin *)

\* The identity before and after an operation of the store is read outside its
\* gate; what the operation does to the package, if anything, is PluginStore's
\* matter.
BeginOperation(t) ==
    /\ At(t, "idle")
    /\ thread' = [thread EXCEPT ![t] =
           [at |-> "replace", command |-> "store", p |-> Absent, package |-> live,
            held |-> Absent, cancelled |-> FALSE]]
    /\ Stutters

ReplacePackage(t, package) ==
    /\ At(t, "replace")
    /\ live' = package
    /\ Continue(t, "compare", Absent)
    /\ UNCHANGED <<catalog, history>>

CompareIdentity(t) ==
    /\ At(t, "compare")
    /\ IF thread[t].package # live /\ Lapsed(thread[t].package, live)
       THEN Continue(t, "forget", Absent)
       ELSE Finish(t)
    /\ Stutters

\* Every permission is taken back and every profile waits for a verdict.
ForgetPlugin(t) ==
    /\ At(t, "forget")
    /\ grants' = [c \in Capabilities |-> Absent]
    /\ profile' = [p \in Profiles |->
          IF profile[p] = Absent THEN Absent ELSE [profile[p] EXCEPT !.accepted = Absent]]
    /\ consent' = [c \in Capabilities |-> [p \in Profiles |-> Absent]]
    /\ Finish(t)
    /\ UNCHANGED <<live, inventory, made, removed>>

------------------------------------------------------------------------------

\* The program stops: the catalog was saved by each commit, the rest is lost.
Restart ==
    /\ \E t \in Threads : ~At(t, "idle")
    /\ thread' = [t \in Threads |-> Idle]
    /\ Stutters

Init ==
    /\ live \in Packages \cup {Absent}
    /\ profile = [p \in Profiles |-> Absent]
    /\ inventory = [p \in Profiles |-> {}]
    /\ grants = [c \in Capabilities |-> Absent]
    /\ thread = [t \in Threads |-> Idle]
    /\ made = {} /\ removed = {}
    /\ consent = [c \in Capabilities |-> [p \in Profiles |-> Absent]]

Begin(t) ==
    \/ \E p \in Profiles :
        \/ CreateProfile(t, p) \/ EditProfile(t, p) \/ SetEnabled(t, p)
        \/ SetLaunchMode(t, p) \/ DeleteProfile(t, p) \/ StartImport(t, p)
        \/ \E folder \in Folders : PickFolder(t, p, folder)
    \/ BeginOperation(t)

Step(t) ==
    \/ Load(t) \/ CommitCreated(t) \/ Save(t) \/ Ask(t)
    \/ \E verdict \in {"valid", "rejected", "failed"} : Answer(t, verdict)
    \/ CommitRemoved(t) \/ CommitFolder(t)
    \/ ResolveGrants(t) \/ DiscoverPage(t) \/ MergePage(t)
    \/ \E package \in Packages \cup {Absent} : ReplacePackage(t, package)
    \/ CompareIdentity(t) \/ ForgetPlugin(t)

Next ==
    \/ \E t \in Threads : Begin(t) \/ Step(t) \/ CancelImport(t)
    \/ \E p \in Profiles : RevokeFolder(p)
    \/ Restart

Spec == Init /\ [][Next]_vars
------------------------------------------------------------------------------
(* Properties *)

\* The state has the types of the code.
TypeOK ==
    /\ live \in Packages \cup {Absent}
    /\ profile \in [Profiles -> Profile \cup {Absent}]
    /\ inventory \in [Profiles -> SUBSET (1..Pages)]
    /\ grants \in [Capabilities -> Grant \cup {Absent}]
    /\ thread \in [Threads -> Command \cup {Idle}]
    /\ made \subseteq Profiles /\ removed \subseteq Profiles
    /\ consent \in [Capabilities -> [Profiles -> Packages \cup {Absent}]]

\* What the user said yes to for one package covers another: any signed one
\* succeeds a signed one, and an unsigned build is itself only.
Covers(asked, package) ==
    asked # Absent /\ AppliesTo([package |-> asked, scope |-> {}], package)

\* Every value of a scope was allowed by the user, was not taken back since, and
\* was allowed to a package that covers the one its row is recorded against:
\* however commands, package changes and restarts interleave, no write of a
\* profile, and no permission given to one package, lets another have it.
\* (A folder key of a deleted profile can be left behind by a lost folder.)
GrantsFollowConsent ==
    \A c \in Capabilities, p \in Profiles \ removed :
        grants[c] # Absent /\ p \in grants[c].scope
            => Covers(consent[c][p], grants[c].package)

\* An import reads a folder only with the user's word for that folder and a
\* package it covers, at the moment the grants are resolved.
ReadHasConsent ==
    \A t \in Threads :
        At(t, "resolve") /\ thread'[t].at = "page" /\ thread[t].p \notin removed
            => Covers(consent["files"][thread[t].p], thread[t].package)
ReadsWithConsent == [][ReadHasConsent]_vars

\* An import that resumes misses nothing: every page before the cursor of a
\* profile is in its inventory, and all of them once the import is complete,
\* whatever copies of the profile other commands wrote back meanwhile.
ResumeSkipsNothing ==
    \A p \in Profiles \ removed :
        profile[p] # Absent
            => 1..(IF profile[p].complete THEN Pages ELSE profile[p].cursor) \subseteq inventory[p]

\* A folder permission names a folder its profile records: "a grant naming a
\* folder no profile records would be a permission over nothing".
GrantNamesAFolder ==
    \A p \in Profiles :
        grants["files"] # Absent /\ p \in grants["files"].scope
            => profile[p] # Absent /\ profile[p].folder # Absent
=============================================================================
