---------------------------- MODULE ConsoleReview ----------------------------
(****************************************************************************)
(* Connecting the folder an emulator's games are in                         *)
(* (src-tauri/src/console_commands.rs): the user picks a folder, which      *)
(* Android grants for good, is shown what is in it, and picks what becomes  *)
(* a card.  A review that starts stops the one before it, and a folder that *)
(* no profile points at any more is given back.                             *)
(*                                                                          *)
(* Commands run on blocking threads.  They share the preview, the cancel    *)
(* flag and the catalog, each behind a mutex of its own, and the granted    *)
(* folders, which are the system's.  The profiles of one emulator, one for  *)
(* each of its consoles, are enabled and pointed together: `folder` has     *)
(* what they share.                                                         *)
(****************************************************************************)
EXTENDS Naturals, Functions

CONSTANTS
    Emulators,
    Paths,      \* <<folder, name>>: the files there may be
    Versions,   \* the contents a file may have
    Threads,    \* commands in flight at once
    MaxTokens,  \* bound: scans in a run
    MaxEdits,   \* bound: files written or removed in a run
    None

BoundsAssumption == Versions # {} /\ MaxTokens \in Nat /\ MaxEdits \in Nat

FolderOf(path) == path[1]
Folders == {FolderOf(path) : path \in Paths}

VARIABLES
    disk,       \* path -> version, of the files there are
    edits,      \* how many the bound has left
    grants,     \* the document trees the system holds for the application
    folder,     \* emulator -> where its profiles point
    inventory,  \* <<emulator, path>> -> the fingerprint it was imported with
    cards,      \* the <<emulator, path>> that have a card
    preview,    \* ConsoleImportState: the list that may be answered,
    scanning,   \*   the token of the scan whose flag is not raised,
    tokens,     \*   and next_token
    thread,     \* the command of each thread
    shown,      \* token -> the list shown under it
    agreed      \* <<emulator, path, version>> of everything the user picked

files == <<disk, edits>>
profiles == <<folder, inventory, cards>>
vars == <<files, grants, profiles, preview, scanning, tokens, thread, shown, agreed>>

At(t, at) == thread[t].at = at
Idle == [at |-> "idle"]
Goto(t, step) == thread' = [thread EXCEPT ![t] = step]
EmulatorOf(t) == thread[t].emulator
Of(t, at) == [at |-> at, emulator |-> EmulatorOf(t)]
Keys(emulator, S) == {<<emulator, path>> : path \in S}

\* The file system: whoever has access writes and removes files.
Write(path) ==
    /\ edits > 0
    /\ edits' = edits - 1
    /\ \/ \E version \in Versions :
            disk' = [p \in DOMAIN disk \cup {path} |-> IF p = path THEN version ELSE disk[p]]
       \/ disk' = Restrict(disk, DOMAIN disk \ {path})
    /\ UNCHANGED <<grants, profiles, preview, scanning, tokens, thread, shown, agreed>>

------------------------------------------------------------------------------
(* connect_console_rom_folder *)

\* A connected folder is reviewed without a chooser.
Connect(t, emulator) ==
    /\ At(t, "idle")
    /\ Goto(t, [at |-> IF folder[emulator] = None THEN "picker" ELSE "profiles",
                emulator |-> emulator, asked |-> FALSE])
    /\ UNCHANGED <<files, grants, profiles, preview, scanning, tokens, shown, agreed>>

\* The chooser is dismissed, or the system grants a folder, until it is released.
Pick(t) ==
    /\ At(t, "picker")
    /\ \/ Goto(t, Idle) /\ UNCHANGED grants
       \/ \E picked \in Folders :
            /\ grants' = grants \cup {picked}
            /\ Goto(t, [at |-> "point", emulator |-> EmulatorOf(t), folder |-> picked])
    /\ UNCHANGED <<files, profiles, preview, scanning, tokens, shown, agreed>>

\* grant_for_picked_rom_folder, then point_managed_console_profiles under the
\* mutation lock: what lies outside the folder goes, and the cards that stand on
\* it.
Point(t) ==
    /\ At(t, "point")
    /\ LET emulator == EmulatorOf(t)
           to == thread[t].folder
           kept == {key \in DOMAIN inventory : key[1] = emulator => FolderOf(key[2]) = to}
       IN \/ /\ to \in grants
             /\ folder' = [folder EXCEPT ![emulator] = to]
             /\ inventory' = Restrict(inventory, kept)
             /\ cards' = cards \cap kept
             /\ Goto(t, Of(t, "sweep"))
          \/ Goto(t, Idle) /\ UNCHANGED profiles   \* not granted, or not saved
    /\ UNCHANGED <<files, grants, preview, scanning, tokens, shown, agreed>>

\* release_stale_document_grants: what is in use is read first...
Sweep(t) ==
    /\ At(t, "sweep")
    /\ Goto(t, [at |-> "release", emulator |-> EmulatorOf(t),
                used |-> {folder[e] : e \in Emulators}])
    /\ UNCHANGED <<files, grants, profiles, preview, scanning, tokens, shown, agreed>>

\* ...and whatever else is granted by now is released, with no lock held.
Release(t) ==
    /\ At(t, "release")
    /\ grants' = grants \cap thread[t].used
    /\ Goto(t, [at |-> "profiles", emulator |-> EmulatorOf(t), asked |-> TRUE])
    /\ UNCHANGED <<files, profiles, preview, scanning, tokens, shown, agreed>>

------------------------------------------------------------------------------
(* preview_console_roms *)

\* A review that fails asks for the folder, unless it has just been asked for.
Failed(t) == Goto(t, IF thread[t].asked THEN Idle ELSE Of(t, "picker"))

\* console_managed_profiles, and rom_source_for_profile: whatever folder the
\* profiles have by now, if it is still granted.
ReadProfiles(t) ==
    /\ At(t, "profiles")
    /\ LET at == folder[EmulatorOf(t)]
       IN IF at \in grants
          THEN Goto(t, [at |-> "begin", emulator |-> EmulatorOf(t), asked |-> thread[t].asked,
                        folder |-> at])
          ELSE Failed(t)
    /\ UNCHANGED <<files, grants, profiles, preview, scanning, tokens, shown, agreed>>

\* begin_scan: the flag of the scan before is raised, and this one gets its own.
BeginScan(t) ==
    /\ At(t, "begin") /\ tokens < MaxTokens
    /\ tokens' = tokens + 1
    /\ scanning' = tokens + 1
    /\ Goto(t, [at |-> "scan", emulator |-> EmulatorOf(t), asked |-> thread[t].asked,
                folder |-> thread[t].folder, token |-> tokens + 1])
    /\ UNCHANGED <<files, grants, profiles, preview, shown, agreed>>

Listing(at) == Restrict(disk, {path \in DOMAIN disk : FolderOf(path) = at})

\* scan_roms: a scan whose flag is raised fails at the next file, as one that cannot
\* read the folder does; while the last file is read, it leaves that one out and
\* succeeds.
Scan(t) ==
    /\ At(t, "scan")
    /\ LET found == Listing(thread[t].folder)
           Done(S) == Goto(t, [at |-> "store", emulator |-> EmulatorOf(t),
                               token |-> thread[t].token,
                               found |-> Restrict(found, S)])
       IN \/ Failed(t)
          \/ scanning = thread[t].token /\ Done(DOMAIN found)
          \/ /\ scanning # thread[t].token
             /\ \E last \in DOMAIN found : Done(DOMAIN found \ {last})
    /\ UNCHANGED <<files, grants, profiles, preview, scanning, tokens, shown, agreed>>

\* The snapshot is replaced by whichever scan ends last, and its list is shown.
StorePreview(t) ==
    /\ At(t, "store")
    /\ preview' = [token |-> thread[t].token, emulator |-> EmulatorOf(t),
                   found |-> thread[t].found]
    /\ shown' = [k \in DOMAIN shown \cup {thread[t].token} |->
                    IF k = thread[t].token
                    THEN [emulator |-> EmulatorOf(t), found |-> thread[t].found]
                    ELSE shown[k]]
    /\ Goto(t, Idle)
    /\ UNCHANGED <<files, grants, profiles, scanning, tokens, agreed>>

------------------------------------------------------------------------------
(* import_console_roms_now *)

\* Mutant: the answer is taken for the preview, whichever list it was given for.
AnswersPreview(token) == preview.token # 0

\* The answer belongs to the list it was given for.
Answers(token) == preview.token = token

\* The user picks from a list still on the screen; the candidates, and the
\* emulator, are those of the preview.
Import(t, token) ==
    /\ At(t, "idle")
    /\ \E picked \in (SUBSET DOMAIN shown[token].found) \ {{}} :
        /\ agreed' = agreed \cup
            {<<shown[token].emulator, path, shown[token].found[path]>> : path \in picked}
        /\ Goto(t, IF Answers(token)
                   THEN [at |-> "grant", emulator |-> preview.emulator,
                         found |-> Restrict(preview.found, picked \cap DOMAIN preview.found)]
                   ELSE Idle)
    /\ UNCHANGED <<files, grants, profiles, preview, scanning, tokens, shown>>

ReadGrant(t) ==
    /\ At(t, "grant")
    /\ LET at == folder[EmulatorOf(t)]
       IN Goto(t, IF at \in grants
                  THEN [at |-> "revalidate", emulator |-> EmulatorOf(t), folder |-> at,
                        found |-> thread[t].found]
                  ELSE Idle)
    /\ UNCHANGED <<files, grants, profiles, preview, scanning, tokens, shown, agreed>>

\* revalidate_rom_import_candidate: inside the folder, and the same bytes.
Unchanged(at, found) ==
    {path \in DOMAIN found :
        FolderOf(path) = at /\ path \in DOMAIN disk /\ disk[path] = found[path]}

\* What is imported is what was read now.
Revalidate(t) ==
    /\ At(t, "revalidate")
    /\ Goto(t, [at |-> "commit", emulator |-> EmulatorOf(t),
                found |-> Restrict(disk, Unchanged(thread[t].folder, thread[t].found))])
    /\ UNCHANGED <<files, grants, profiles, preview, scanning, tokens, shown, agreed>>

\* Mutant: what was validated before the lock is written under it.
InAnyScope(emulator, path) == TRUE

\* validate_console_inventory_scope, against the profiles of the moment.
InScope(emulator, path) == FolderOf(path) = folder[emulator]

\* apply_console_import under the mutation lock: an entry outside is skipped.
Commit(t) ==
    /\ At(t, "commit")
    /\ Goto(t, Idle)
    /\ LET emulator == EmulatorOf(t)
           imported == {path \in DOMAIN thread[t].found : InScope(emulator, path)}
           keys == Keys(emulator, imported)
       IN \/ /\ inventory' = [key \in DOMAIN inventory \cup keys |->
                    IF key \in keys THEN thread[t].found[key[2]] ELSE inventory[key]]
             /\ cards' = cards \cup keys
             /\ UNCHANGED folder
          \/ UNCHANGED profiles   \* persist_catalog failed
    /\ UNCHANGED <<files, grants, preview, scanning, tokens, shown, agreed>>

------------------------------------------------------------------------------

Init ==
    /\ disk = [path \in Paths |-> CHOOSE version \in Versions : TRUE]
    /\ edits = MaxEdits
    /\ grants = {}
    /\ folder = [emulator \in Emulators |-> None]
    /\ inventory = <<>> /\ cards = {}
    /\ preview = [token |-> 0, emulator |-> None, found |-> <<>>]
    /\ scanning = 0 /\ tokens = 0
    /\ thread = [t \in Threads |-> Idle]
    /\ shown = <<>> /\ agreed = {}

Next ==
    \/ \E t \in Threads :
        \/ \E emulator \in Emulators : Connect(t, emulator)
        \/ Pick(t) \/ Point(t) \/ Sweep(t) \/ Release(t)
        \/ ReadProfiles(t) \/ BeginScan(t) \/ Scan(t) \/ StorePreview(t)
        \/ \E token \in DOMAIN shown : Import(t, token)
        \/ ReadGrant(t) \/ Revalidate(t) \/ Commit(t)
    \/ \E path \in Paths : Write(path)

Spec == Init /\ [][Next]_vars
------------------------------------------------------------------------------
(* Properties *)

IsListing(f) == DOMAIN f \subseteq Paths /\ \A path \in DOMAIN f : f[path] \in Versions

TypeOK ==
    /\ IsListing(disk) /\ edits \in 0..MaxEdits
    /\ grants \subseteq Folders
    /\ folder \in [Emulators -> Folders \cup {None}]
    /\ DOMAIN inventory \subseteq Emulators \X Paths
    /\ \A key \in DOMAIN inventory : inventory[key] \in Versions
    /\ cards \subseteq Emulators \X Paths
    /\ tokens \in 0..MaxTokens /\ scanning = tokens
    /\ preview.token \in 0..tokens /\ IsListing(preview.found)
    /\ DOMAIN shown \subseteq 1..tokens
    /\ \A token \in DOMAIN shown : IsListing(shown[token].found)
    /\ agreed \subseteq Emulators \X Paths \X Versions
    /\ \A t \in Threads : thread[t].at \in
        {"idle", "picker", "point", "sweep", "release", "profiles", "begin", "scan", "store",
         "grant", "revalidate", "commit"}

\* A game is in the library for the emulator whose list it was picked from, in
\* the version that list named: "an answer can never land on another snapshot",
\* with reviews of two emulators stopping each other and the files changing.
ImportedWasPicked ==
    \A key \in DOMAIN inventory : <<key[1], key[2], inventory[key]>> \in agreed

\* Every card stands on an entry inside the folder its profile points at, also
\* when another connect points it elsewhere between an import's validation and
\* its commit: one entry outside, and the catalog would refuse every write.
CardsInsideGrant ==
    /\ cards \subseteq DOMAIN inventory
    /\ \A key \in DOMAIN inventory : FolderOf(key[2]) = folder[key[1]]
==============================================================================
