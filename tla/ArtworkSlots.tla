----------------------------- MODULE ArtworkSlots -----------------------------
(****************************************************************************)
(* The pictures a card shows (src-tauri/src/lib.rs, artwork_backfill.rs):   *)
(* the commands that search for them, the user who picks one, and the       *)
(* top-up that runs by itself after a launch.  They sweep and write files   *)
(* of one cache without a lock, and set the slots of the game under one.    *)
(*                                                                          *)
(* One game.  A search finds a picture for a role or not; the landscape and *)
(* the logo have a slot of their own, as the cover has.                     *)
(****************************************************************************)
EXTENDS Naturals, FiniteSets

CONSTANTS
    Commands,   \* the commands, each run once: what they write is named after them
    Roles,      \* the roles that are searched for
    None

RolesAssumption ==
    /\ Roles \subseteq {"cover", "background"} /\ Roles # {}
    /\ None \notin Commands
    /\ \A r \in Roles \cup {"fetched"}, c \in Commands : None # [role |-> r, by |-> c]

VARIABLES
    files,      \* the pictures in the cache
    slots,      \* the picture each slot of the game names
    command,    \* what each command is doing
    missed      \* the roles the attempts file says were looked for in vain

vars == <<files, slots, command, missed>>

Slots == {"cover", "home", "hero"}
Picture(role, c) == [role |-> role, by |-> c]
Published == Picture("published", None)

\* The slots a command sets for a role.  "fetched" is the one picture that
\* fetch_game_artwork uses for all; a user who picks a background leaves the hero.
Target(kind, role) ==
    CASE role = "cover" -> {"cover"}
      [] role = "background" -> IF kind = "pick" THEN {"home"} ELSE {"home", "hero"}
      [] role = "fetched" -> {"cover", "hero"}

Usable(s) == slots[s] \in files
Missing == {r \in Roles : \A s \in Target("search", r) : ~Usable(s)}

At(c, at) == command[c].at = at
Active(c) == ~At(c, "new") /\ ~At(c, "done")
Alone(kind) == \A c \in Commands : Active(c) => command[c].kind # kind
Begin(c, kind, roles) ==
    command' = [command EXCEPT ![c] =
        [at |-> "search", kind |-> kind, role |-> [r \in roles |-> "asked"]]]
End(c) == command' = [command EXCEPT ![c] = [at |-> "done"]]
Advance(c, r, to) == command' = [command EXCEPT ![c].role[r] = to]
Asked(c) == DOMAIN command[c].role
Written(c) == {r \in Asked(c) : command[c].role[r] = "written"}

------------------------------------------------------------------------------
(* How each command begins *)

\* reset_game_artwork
Reset(c) == Begin(c, "reset", Roles)

\* fetch_runner_profile_artwork: a card with nothing in its slots.
Fill(c) ==
    /\ \A s \in Slots : slots[s] = None
    /\ Begin(c, "fill", Roles)

\* fetch_game_artwork: unforced, it is for a card with no picture.
Fetch(c) ==
    /\ \E force \in BOOLEAN : force \/ (slots["cover"] = None /\ slots["hero"] = None)
    /\ Begin(c, "fetch", {"fetched"})

\* select_candidates: something is missing, and was not looked for lately.
Candidate == Missing # {} /\ missed # Missing

\* artwork_backfill::run, once a launch.
TopUp(c) ==
    /\ Alone("topup") /\ Candidate
    /\ Begin(c, "topup", Missing)

\* set_home_image: a command of the main thread, one at a time.
Pick(c) ==
    /\ Alone("pick")
    /\ \E r \in Roles : Begin(c, "pick", {r})

Start(c) ==
    /\ At(c, "new")
    /\ Reset(c) \/ Fill(c) \/ Fetch(c) \/ TopUp(c) \/ Pick(c)
    /\ UNCHANGED <<files, slots, missed>>

------------------------------------------------------------------------------
(* The files *)

Searching(c, r) == At(c, "search") /\ r \in Asked(c) /\ command[c].role[r] = "asked"

\* No source has a picture for the role.
NotFound(c, r) ==
    /\ Searching(c, r) /\ command[c].kind # "pick"
    /\ Advance(c, r, "none")
    /\ UNCHANGED <<files, slots, missed>>

\* Mutant: the sweep a reset does is done by a top-up as well.
SweepAlways(c, r) ==
    /\ Searching(c, r)
    /\ files' = {f \in files : f.role # r}
    /\ Advance(c, r, "swept")
    /\ UNCHANGED <<slots, missed>>

\* remove_cached_artwork: a picture was downloaded, and those it replaces go. A
\* top-up sweeps nothing.
Sweep(c, r) ==
    /\ Searching(c, r)
    /\ files' = IF command[c].kind = "topup" THEN files ELSE {f \in files : f.role # r}
    /\ Advance(c, r, "swept")
    /\ UNCHANGED <<slots, missed>>

\* The write may fail, and another candidate be tried.
Write(c, r) ==
    /\ At(c, "search") /\ r \in Asked(c) /\ command[c].role[r] = "swept"
    /\ \/ files' = files \cup {Picture(r, c)} /\ Advance(c, r, "written")
       \/ \E to \in {"asked", "none"} : Advance(c, r, to) /\ UNCHANGED files
    /\ UNCHANGED <<slots, missed>>

------------------------------------------------------------------------------
(* The slots: one critical section of catalog_mutation *)

\* Mutant: a top-up writes what was missing when it began.
AllowsAsked(c) == Written(c)

\* ArtworkWrite::allows
Allowed(c) == IF command[c].kind = "topup" THEN Written(c) \cap Missing ELSE Written(c)

Set(c) ==
    LET kind == command[c].kind
        role(s) == {r \in Allowed(c) : s \in Target(kind, r)}
    IN  [s \in Slots |-> IF role(s) = {} THEN slots[s]
                         ELSE Picture(CHOOSE r \in role(s) : TRUE, c)]

\* What a top-up remembers of its roles, when it has set some of them.
Remember(c, done) ==
    missed' = IF command[c].kind # "topup" THEN missed
              ELSE IF Asked(c) = done THEN {} ELSE Asked(c) \ done

\* A file that is not wanted any more is removed by the one who wrote it. A
\* catalog that cannot be saved leaves the slots as they were.
Commit(c) ==
    /\ At(c, "search")
    /\ \A r \in Asked(c) : command[c].role[r] \in {"written", "none"}
    /\ End(c)
    /\ files' = files \ {Picture(r, c) : r \in Written(c) \ Allowed(c)}
    /\ \/ slots' = Set(c) /\ Remember(c, Allowed(c))
       \/ slots' = slots /\ (Remember(c, {}) \/ UNCHANGED missed)

------------------------------------------------------------------------------

\* The system empties its cache directory.
Prune ==
    /\ files # {} /\ files' = {}
    /\ UNCHANGED <<slots, command, missed>>

\* RETRY_AFTER_SECONDS
Retry ==
    /\ missed # {} /\ missed' = {}
    /\ UNCHANGED <<files, slots, command>>

Init ==
    /\ files = {Published}
    /\ slots \in {s \in [Slots -> {None, Published}] : s["home"] = None}
    /\ command = [c \in Commands |-> [at |-> "new"]]
    /\ missed = {}

Next ==
    \/ \E c \in Commands :
        \/ Start(c) \/ Commit(c)
        \/ \E r \in Roles \cup {"fetched"} : NotFound(c, r) \/ Sweep(c, r) \/ Write(c, r)
    \/ Prune \/ Retry

Spec == Init /\ [][Next]_vars
------------------------------------------------------------------------------
(* Properties *)

Pictures ==
    {Published} \cup {Picture(r, c) : r \in Roles \cup {"fetched"}, c \in Commands}

TypeOK ==
    /\ files \subseteq Pictures
    /\ slots \in [Slots -> Pictures \cup {None}]
    /\ \A c \in Commands :
        IF Active(c)
        THEN /\ command[c].kind \in {"reset", "fill", "fetch", "topup", "pick"}
             /\ \A r \in Asked(c) : command[c].role[r] \in {"asked", "swept", "written", "none"}
        ELSE command[c] \in [at : {"new", "done"}]
    /\ missed \subseteq Roles

\* The top-up takes no picture away: a slot that shows one goes on naming it, and
\* its file stays, through every step of a top-up, whatever was picked, swept or
\* searched since it began: it "can never replace art a store published or the
\* player chose, even one chosen while the search was running".
TopUpFillsGaps ==
    \A c \in Commands :
        Active(c) /\ command[c].kind = "topup" /\ command'[c] # command[c] =>
            \A s \in Slots : Usable(s) => slots'[s] = slots[s] /\ slots[s] \in files'
GapsOnly == [][TopUpFillsGaps]_vars
===============================================================================
