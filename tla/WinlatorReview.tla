--------------------------- MODULE WinlatorReview ---------------------------
(****************************************************************************)
(* Reviewing the folder Winlator exports shortcuts into                     *)
(* (src-tauri/src/lib.rs): the user connects a folder, is shown what is in  *)
(* it, and picks what becomes a card; meanwhile the files change, another   *)
(* review starts, and a pass started with the application walks the folder. *)
(*                                                                          *)
(* Reviews and imports run on blocking threads.  They share the preview and *)
(* the catalog, each behind a mutex, and the folder, behind nothing.        *)
(****************************************************************************)
EXTENDS Naturals, FiniteSets, Functions

CONSTANTS
    Folders,    \* the folders a user may connect
    Names,      \* the names of the files in a folder
    Versions,   \* the contents a file may have
    Threads,    \* reviews and imports in flight at once
    Settled,    \* whether the background pass of this start is over
    MaxTokens,  \* bound: reviews in a run
    MaxEdits,   \* bound: files written or removed in a run
    None

BoundsAssumption == Versions # {} /\ MaxTokens \in Nat /\ MaxEdits \in Nat

Paths == Folders \X Names
FolderOf(path) == path[1]

VARIABLES
    disk,       \* path -> version, of the files there are
    edits,      \* how many the bound has left
    granted,    \* the folder of the managed profile
    inventory,  \* path -> the fingerprint it was imported with
    cards,      \* the paths that have a card
    preview,    \* the snapshot of the last review to finish
    tokens,     \* winlator_preview_token
    thread,     \* the review or the import of each thread
    shown,      \* token -> what the user was shown under it
    agreed,     \* <<path, version>> of everything the user picked
    inFlight,   \* WinlatorAdoption
    cancelled,
    pass        \* where the background pass is

profile == <<granted, inventory, cards>>
adoption == <<inFlight, cancelled, pass>>
vars == <<disk, edits, profile, preview, tokens, thread, shown, agreed, adoption>>

Idle(t) == thread[t] = None
At(t, at) == ~Idle(t) /\ thread[t].at = at
Goto(t, step) == thread' = [thread EXCEPT ![t] = step]
Listing(folder) == Restrict(disk, {path \in DOMAIN disk : FolderOf(path) = folder})

------------------------------------------------------------------------------
(* The folder: Winlator, or the user, writes and removes files *)

Write(path) ==
    /\ edits > 0
    /\ edits' = edits - 1
    /\ \/ \E version \in Versions :
            disk' = [p \in DOMAIN disk \cup {path} |-> IF p = path THEN version ELSE disk[p]]
       \/ disk' = Restrict(disk, DOMAIN disk \ {path})
    /\ UNCHANGED <<profile, preview, tokens, thread, shown, agreed, adoption>>

------------------------------------------------------------------------------
(* A review: connect_winlator_export_folder, preview_winlator_shortcuts *)

\* The connected folder is reviewed again, or a folder was picked and the
\* background pass is told to stop first.
Review(t) ==
    /\ Idle(t)
    /\ \/ granted # None /\ Goto(t, [at |-> "profile"]) /\ UNCHANGED cancelled
       \/ \E folder \in Folders :
            /\ cancelled' = TRUE
            /\ Goto(t, [at |-> "waiting", folder |-> folder, overtakes |-> inFlight])
    /\ UNCHANGED <<disk, edits, profile, preview, tokens, shown, agreed, inFlight, pass>>

\* The pass is over, or two seconds are.
Waited(t) ==
    /\ At(t, "waiting")
    /\ Goto(t, [at |-> "point", folder |-> thread[t].folder])
    /\ UNCHANGED <<disk, edits, profile, preview, tokens, shown, agreed, adoption>>

\* point_managed_winlator_profile: what lies outside the new folder goes, and
\* the cards that stand on it.
Point(t) ==
    /\ At(t, "point")
    /\ LET folder == thread[t].folder
           kept == {path \in DOMAIN inventory : FolderOf(path) = folder}
       IN \/ /\ granted' = folder
             /\ inventory' = Restrict(inventory, kept)
             /\ cards' = cards \cap kept
             /\ Goto(t, [at |-> "profile"])
          \/ Goto(t, None) /\ UNCHANGED profile   \* persist_catalog failed
    /\ UNCHANGED <<disk, edits, preview, tokens, shown, agreed, adoption>>

\* winlator_managed_profile: whatever folder the profile has by now.
ReadProfile(t) ==
    /\ At(t, "profile")
    /\ Goto(t, [at |-> "scan", folder |-> granted])
    /\ UNCHANGED <<disk, edits, profile, preview, tokens, shown, agreed, adoption>>

Scan(t) ==
    /\ At(t, "scan")
    /\ Goto(t, [at |-> "token", found |-> Listing(thread[t].folder)])
    /\ UNCHANGED <<disk, edits, profile, preview, tokens, shown, agreed, adoption>>

TakeToken(t) ==
    /\ At(t, "token") /\ tokens < MaxTokens
    /\ tokens' = tokens + 1
    /\ Goto(t, [at |-> "store", token |-> tokens + 1, found |-> thread[t].found])
    /\ UNCHANGED <<disk, edits, profile, preview, shown, agreed, adoption>>

\* The preview is replaced, by whichever review comes last, and the list shown.
StorePreview(t) ==
    /\ At(t, "store")
    /\ preview' = [token |-> thread[t].token, found |-> thread[t].found]
    /\ shown' = [k \in DOMAIN shown \cup {thread[t].token} |->
                    IF k = thread[t].token THEN thread[t].found ELSE shown[k]]
    /\ Goto(t, None)
    /\ UNCHANGED <<disk, edits, profile, tokens, agreed, adoption>>

------------------------------------------------------------------------------
(* An import: import_winlator_shortcuts_now *)

\* Mutant: the preview supplies the candidates whichever list was shown.
ImportLatest(t) ==
    /\ Idle(t)
    /\ \E token \in DOMAIN shown : \E picked \in (SUBSET DOMAIN shown[token]) \ {{}} :
        /\ agreed' = agreed \cup {<<path, shown[token][path]>> : path \in picked}
        /\ Goto(t, [at |-> "enabled",
                    found |-> Restrict(preview.found, picked \cap DOMAIN preview.found)])
    /\ UNCHANGED <<disk, edits, profile, preview, tokens, shown, adoption>>

\* The user picks from a list still on the screen; the token must be that of
\* the preview, which supplies the candidates.
Import(t) ==
    /\ Idle(t)
    /\ \E token \in DOMAIN shown : \E picked \in (SUBSET DOMAIN shown[token]) \ {{}} :
        /\ agreed' = agreed \cup {<<path, shown[token][path]>> : path \in picked}
        /\ Goto(t, IF preview.token = token
                   THEN [at |-> "enabled",
                         found |-> Restrict(preview.found, picked \cap DOMAIN preview.found)]
                   ELSE None)
    /\ UNCHANGED <<disk, edits, profile, preview, tokens, shown, adoption>>

ReadGrant(t) ==
    /\ At(t, "enabled")
    /\ Goto(t, [at |-> "revalidate", folder |-> granted, found |-> thread[t].found])
    /\ UNCHANGED <<disk, edits, profile, preview, tokens, shown, agreed, adoption>>

\* revalidate_winlator_import_candidate: inside the grant, and the same bytes.
Unchanged(folder, found) ==
    {path \in DOMAIN found : FolderOf(path) = folder /\ path \in DOMAIN disk /\ disk[path] = found[path]}

Revalidate(t) ==
    /\ At(t, "revalidate")
    /\ Goto(t, [at |-> "commit",
                found |-> Restrict(thread[t].found, Unchanged(thread[t].folder, thread[t].found))])
    /\ UNCHANGED <<disk, edits, profile, preview, tokens, shown, agreed, adoption>>

\* Mutant: what was in the folder before the lock is taken to be in it still.
InAnyScope(path) == TRUE

\* apply_winlator_import under the mutation lock: an entry outside the folder
\* the profile has now is refused, and skipped.
InScope(path) == FolderOf(path) = granted

Commit(t) ==
    /\ At(t, "commit")
    /\ Goto(t, None)
    /\ LET imported == {path \in DOMAIN thread[t].found : InScope(path)} IN
        \/ /\ inventory' = [path \in DOMAIN inventory \cup imported |->
                    IF path \in imported THEN thread[t].found[path] ELSE inventory[path]]
           /\ cards' = cards \cup imported
           /\ UNCHANGED granted
        \/ UNCHANGED profile   \* persist_catalog failed
    /\ UNCHANGED <<disk, edits, preview, tokens, shown, agreed, adoption>>

------------------------------------------------------------------------------
(* The background pass: spawn_winlator_adoption, run_winlator_shortcut_report *)

PassEnter ==
    /\ pass = "spawned"
    /\ inFlight' = TRUE
    /\ pass' = "entered"
    /\ UNCHANGED <<disk, edits, profile, preview, tokens, thread, shown, agreed, cancelled>>

PassClear ==
    /\ pass = "entered"
    /\ cancelled' = FALSE
    /\ pass' = "walking"
    /\ UNCHANGED <<disk, edits, profile, preview, tokens, thread, shown, agreed, inFlight>>

\* It ends at the end of the folder, or at the first file once cancelled.
PassEnd ==
    /\ pass = "walking"
    /\ inFlight' = FALSE
    /\ pass' = "ended"
    /\ UNCHANGED <<disk, edits, profile, preview, tokens, thread, shown, agreed, cancelled>>

------------------------------------------------------------------------------

Init ==
    /\ disk = [path \in Folders \X Names |-> CHOOSE version \in Versions : TRUE]
    /\ edits = MaxEdits
    /\ granted = None
    /\ inventory = <<>> /\ cards = {}
    /\ preview = [token |-> 0, found |-> <<>>]
    /\ tokens = 0
    /\ thread = [t \in Threads |-> None]
    /\ shown = <<>> /\ agreed = {}
    /\ inFlight = FALSE /\ cancelled = FALSE /\ pass = IF Settled THEN "ended" ELSE "spawned"

Pass == PassEnter \/ PassClear \/ PassEnd

Next ==
    \/ \E t \in Threads :
        \/ Review(t) \/ Waited(t) \/ Point(t) \/ ReadProfile(t) \/ Scan(t)
        \/ TakeToken(t) \/ StorePreview(t)
        \/ Import(t) \/ ReadGrant(t) \/ Revalidate(t) \/ Commit(t)
    \/ Pass
    \/ \E path \in Paths : Write(path)

Spec == Init /\ [][Next]_vars
------------------------------------------------------------------------------
(* Properties *)

IsListing(f) == DOMAIN f \subseteq Paths /\ \A path \in DOMAIN f : f[path] \in Versions

TypeOK ==
    /\ IsListing(disk) /\ edits \in 0..MaxEdits
    /\ granted \in Folders \cup {None}
    /\ IsListing(inventory) /\ cards \subseteq Paths
    /\ tokens \in 0..MaxTokens
    /\ preview.token \in 0..tokens /\ IsListing(preview.found)
    /\ DOMAIN shown \subseteq 1..tokens /\ \A token \in DOMAIN shown : IsListing(shown[token])
    /\ agreed \subseteq Paths \X Versions
    /\ \A t \in Threads : Idle(t) \/ thread[t].at \in
        {"waiting", "point", "profile", "scan", "token", "store", "enabled", "revalidate", "commit"}
    /\ inFlight \in BOOLEAN /\ cancelled \in BOOLEAN
    /\ pass \in {"spawned", "entered", "walking", "ended"}

\* What is in the library is what the user picked from a list, in the version
\* that list named: "the shortcut that gets imported, and whose fingerprint the
\* launch guard then pins, is the one the user actually read a name for", with
\* two reviews overlapping and the files changing at any step.
ImportedWasPicked == \A path \in DOMAIN inventory : <<path, inventory[path]>> \in agreed

\* Every card stands on an entry inside the folder the profile has now, also
\* when the folder is replaced between an import's validation and its commit.
CardsInsideGrant ==
    /\ cards \subseteq DOMAIN inventory
    /\ \A path \in DOMAIN inventory : FolderOf(path) = granted
=============================================================================
