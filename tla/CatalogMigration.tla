--------------------------- MODULE CatalogMigration ---------------------------
(****************************************************************************)
(* Opening the library of an older build (src-tauri/src/catalog.rs, lib.rs, *)
(* game_detail.rs): the ids of local games are rewritten in two files, the  *)
(* catalog and the state of the games, each published by one rename.  A     *)
(* call may fail and the process may die before any of them; a failed start *)
(* puts both files back and ends.                                           *)
(*                                                                          *)
(* The catalog is its schema and a number for the library it describes,     *)
(* the state what is kept under each id.                                    *)
(****************************************************************************)
EXTENDS Naturals, Sequences

CONSTANTS
    OldId, NewId,    \* a local game before and after the migration
    Media,           \* what the user may import for it
    MaxBackups,      \* MAX_CATALOG_BACKUPS_PER_SCHEMA
    MaxEdits,        \* bound: how often an older build changes the library
    ReadBackFails,   \* reading back a catalog that is as it was written may fail
    None

BackupsAssumption ==
    /\ MaxBackups \in Nat \ {0} /\ MaxEdits \in Nat
    /\ OldId # NewId /\ None \notin Media

VARIABLES
    catalog,    \* catalog.json
    backups,    \* catalog.json.v6.bak, catalog.json.v6-1.bak...
    games,      \* game-state.json
    start,      \* where a start is, with what it staged and what it may put back
    library,    \* the library the user made
    imports,    \* what the user imported for the game
    choice      \* the import the user selected last

vars == <<catalog, backups, games, start, library, imports, choice>>
user == <<library, imports, choice>>

Kept == [media : SUBSET Media, selected : Media \cup {None}]
Nothing == [media |-> {}, selected |-> None]
Under(id, states) == IF id \in DOMAIN states THEN states[id] ELSE Nothing
With(id, kept, states) ==
    [x \in DOMAIN states \cup {id} |-> IF x = id THEN kept ELSE states[x]]

\* Mutant: what was under the new id wins.
MergeOver(winner, loser) ==
    [media |-> winner.media \cup loser.media,
     selected |-> IF loser.selected # None THEN loser.selected ELSE winner.selected]

\* merge_persisted_state
Merge(winner, loser) ==
    [media |-> winner.media \cup loser.media,
     selected |-> IF winner.selected # None THEN winner.selected ELSE loser.selected]

\* rekey_game_states: what was under the renamed id wins.
Rekey(states) ==
    IF OldId \in DOMAIN states
    THEN [x \in {NewId} |-> Merge(states[OldId], Under(NewId, states))]
    ELSE states

At(at) == start.at = at
Off == [at |-> "off", staged |-> <<>>, before |-> <<>>, backup |-> 0]
Running == [Off EXCEPT !.at = "running"]
Goto(at) == start' = [start EXCEPT !.at = at]
Pending == start.staged # start.before

------------------------------------------------------------------------------
(* A start: load_or_migrate_catalog *)

Load ==
    /\ At("off")
    /\ start' = IF catalog.schema = "new" THEN Running ELSE [Off EXCEPT !.at = "backup"]
    /\ UNCHANGED <<catalog, backups, games, user>>

\* Mutant: the first backup serves every later attempt.
BackupOnce ==
    /\ At("backup")
    /\ backups' = IF backups = <<>> THEN <<catalog.library>> ELSE backups
    /\ start' = [start EXCEPT !.at = "stage", !.backup = 1]
    /\ UNCHANGED <<catalog, games, user>>

\* backup_catalog: a copy under the first free name; without one the start fails.
Backup ==
    /\ At("backup")
    /\ \/ /\ Len(backups) < MaxBackups
          /\ backups' = Append(backups, catalog.library)
          /\ start' = [start EXCEPT !.at = "stage", !.backup = Len(backups) + 1]
       \/ start' = Off /\ UNCHANGED backups
    /\ UNCHANGED <<catalog, games, user>>

\* StagedGameState::stage: nothing is written when nothing changes.
Stage ==
    /\ At("stage")
    /\ \/ start' = [start EXCEPT !.at = "commit", !.staged = Rekey(games), !.before = games]
       \/ Rekey(games) # games /\ Goto("restore_catalog")
    /\ UNCHANGED <<catalog, backups, games, user>>

\* Mutant: the catalog is published before the state.
CommitLast ==
    /\ At("commit")
    /\ IF catalog.schema = "old"
       THEN catalog' = [catalog EXCEPT !.schema = "new"] /\ UNCHANGED <<games, start>>
       ELSE games' = start.staged /\ Goto("verify") /\ UNCHANGED catalog
    /\ UNCHANGED <<backups, user>>

Commit ==
    /\ At("commit")
    /\ \/ games' = start.staged /\ Goto("save")
       \/ Pending /\ Goto("restore_catalog") /\ UNCHANGED games
    /\ UNCHANGED <<catalog, backups, user>>

Save ==
    /\ At("save")
    /\ \/ catalog' = [catalog EXCEPT !.schema = "new"] /\ Goto("verify")
       \/ Goto("restore_state") /\ UNCHANGED catalog
    /\ UNCHANGED <<backups, games, user>>

\* A file-syncing client puts back the file it knew.
Resync ==
    /\ At("verify") /\ catalog.schema = "new"
    /\ catalog' = [catalog EXCEPT !.schema = "old"]
    /\ UNCHANGED <<backups, games, start, user>>

\* verify_published
Verify ==
    /\ At("verify")
    /\ \/ catalog.schema = "new" /\ start' = Running
       \/ (catalog.schema = "old" \/ ReadBackFails) /\ Goto("restore_state")
    /\ UNCHANGED <<catalog, backups, games, user>>

\* StagedGameState::restore
RestoreState ==
    /\ At("restore_state")
    /\ Goto("restore_catalog")
    /\ \/ games' = start.before
       \/ Pending /\ UNCHANGED games
    /\ UNCHANGED <<catalog, backups, user>>

\* restore_catalog_backup, and the process ends.
RestoreCatalog ==
    /\ At("restore_catalog")
    /\ start' = Off
    /\ \/ catalog' = [schema |-> "old", library |-> backups[start.backup]]
       \/ UNCHANGED catalog
    /\ UNCHANGED <<backups, games, user>>

\* The process dies, or the user quits.
Stop ==
    /\ ~At("off")
    /\ start' = Off
    /\ UNCHANGED <<catalog, backups, games, user>>

------------------------------------------------------------------------------
(* The user *)

\* register_media, register_and_select_media, of either build, under the id it
\* knows.
Import(id) ==
    \E m \in Media, select \in BOOLEAN :
        LET kept == Under(id, games)
        IN  /\ games' = With(id, [media |-> kept.media \cup {m},
                                  selected |-> IF select THEN m ELSE kept.selected], games)
            /\ imports' = imports \cup {m}
            /\ choice' = IF select THEN m ELSE choice

Use == At("running") /\ Import(NewId) /\ UNCHANGED <<catalog, backups, start, library>>

\* The older build opens what it wrote, and adds to it.
UseOlder ==
    /\ At("off") /\ catalog.schema = "old"
    /\ \/ Import(OldId) /\ UNCHANGED <<catalog, library>>
       \/ /\ library < MaxEdits
          /\ library' = library + 1
          /\ catalog' = [catalog EXCEPT !.library = library + 1]
          /\ UNCHANGED <<games, imports, choice>>
    /\ UNCHANGED <<backups, start>>

------------------------------------------------------------------------------

Init ==
    /\ catalog = [schema |-> "old", library |-> 0]
    /\ backups = <<>>
    /\ games = <<>>
    /\ start = Off
    /\ library = 0 /\ imports = {} /\ choice = None

Next ==
    \/ Load \/ Backup \/ Stage \/ Commit \/ Save \/ Resync \/ Verify
    \/ RestoreState \/ RestoreCatalog \/ Stop
    \/ Use \/ UseOlder

Spec == Init /\ [][Next]_vars
------------------------------------------------------------------------------
(* Properties *)

States == UNION {[ids -> Kept] : ids \in SUBSET {OldId, NewId}}

TypeOK ==
    /\ catalog \in [schema : {"old", "new"}, library : 0..MaxEdits]
    /\ backups \in Seq(0..MaxEdits) /\ Len(backups) <= MaxBackups
    /\ games \in States
    /\ start \in [at : {"off", "backup", "stage", "commit", "save", "verify",
                        "restore_state", "restore_catalog", "running"},
                  staged : States, before : States, backup : 0..MaxBackups]
    /\ library \in 0..MaxEdits /\ imports \subseteq Media /\ choice \in Media \cup {None}

\* A library that opens shows, under its new id, everything ever imported for the
\* game and the last selection, however many starts failed or were cut before
\* and whatever an older build added in between: orphaned state "would silently
\* lose the user's selections".
NothingOrphaned ==
    At("running") =>
        /\ Under(NewId, games) = [media |-> imports, selected |-> choice]
        /\ OldId \notin DOMAIN games

\* No attempt brings an earlier library back, and a migrated catalog leaves a copy
\* of the last one the older build can read: a migration that cannot be
\* published "leaves the library exactly as the older build wrote it", and "a
\* later migration cannot overwrite an earlier one".
LibraryIsKept ==
    /\ catalog.library = library
    /\ catalog.schema = "new" => \E i \in 1..Len(backups) : backups[i] = library
===============================================================================
