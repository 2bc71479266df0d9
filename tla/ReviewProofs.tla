----------------------------- MODULE ReviewProofs -----------------------------
(****************************************************************************)
(* Theorems about the two reviews of a folder, ConsoleReview and            *)
(* WinlatorReview (W), for any folders, files, versions and commands in     *)
(* flight: what is in the library was picked from a list that named it, and *)
(* lies in the folder its profile points at.                                *)
(*                                                                          *)
(* A list is answered long after it was made, and an answer is written long *)
(* after it was given, so the invariants say of everything a command        *)
(* carries that the user agreed to it.                                      *)
(*                                                                          *)
(* And about another list the user picks from, the index of plugins:        *)
(* PluginIndex, as the instance X.                                          *)
(****************************************************************************)
EXTENDS ConsoleReview, FiniteSetTheorems, TLAPS

CONSTANTS
    Names,      \* the names of the files in a folder Winlator exports into
    Settled     \* whether the background pass of this start is over

VARIABLES
    granted,    \* the folder of the profile of Winlator
    inFlight,   \* WinlatorAdoption
    cancelled,
    pass        \* where the background pass is

W == INSTANCE WinlatorReview

CONSTANTS Refreshes, Minimum, Latest

VARIABLES published, expired, inodes, cache, temporary, ttl, flag, refresh, overlapped

X == INSTANCE PluginIndex

------------------------------------------------------------------------------
(* The emulators *)

Places ==
    {"idle", "picker", "point", "sweep", "release", "profiles", "begin", "scan", "store",
     "grant", "revalidate", "commit"}

Agreed(emulator, found, picked) ==
    \A path \in DOMAIN found : <<emulator, path, found[path]>> \in picked

\* What a command carries: a token that was given out, a list of files there may be, and
\* on its way to the library nothing but what the user picked.
Sound(c, given, picked) ==
    /\ c.at \in Places
    /\ c.at # "idle" => c.emulator \in Emulators
    /\ c.at \in {"scan", "store"} => c.token \in 1..given
    /\ c.at \in {"store", "grant", "revalidate", "commit"} => IsListing(c.found)
    /\ c.at \in {"grant", "revalidate", "commit"} => Agreed(c.emulator, c.found, picked)

ThreadInv ==
    /\ DOMAIN thread = Threads
    /\ \A t \in Threads : Sound(thread[t], tokens, agreed)

\* What may be answered is what was shown under its token.
PreviewInv ==
    /\ \A token \in DOMAIN shown : shown[token].emulator \in Emulators
    /\ preview.token # 0 =>
           /\ preview.token \in DOMAIN shown
           /\ preview.emulator = shown[preview.token].emulator
           /\ preview.found = shown[preview.token].found

ReviewInv == TypeOK /\ ThreadInv /\ PreviewInv /\ ImportedWasPicked /\ CardsInsideGrant

------------------------------------------------------------------------------
(* What a command carries *)

\* More tokens and more that is agreed take nothing from it.
LEMMA SoundGrows ==
    ASSUME NEW c, NEW given \in Nat, NEW more \in Nat, given <= more,
           NEW picked, NEW wider, picked \subseteq wider, Sound(c, given, picked)
    PROVE  Sound(c, more, wider)
BY DEF Sound, Agreed

\* One command moves.
LEMMA ThreadMoves ==
    ASSUME ThreadInv, NEW t \in Threads, NEW step, Goto(t, step),
           tokens \in Nat, tokens' \in Nat, tokens <= tokens', agreed \subseteq agreed',
           Sound(step, tokens', agreed')
    PROVE  ThreadInv'
<1>1. DOMAIN thread' = Threads /\ thread'[t] = step
      /\ \A u \in Threads \ {t} : thread'[u] = thread[u]
    BY DEF ThreadInv, Goto
<1>2. ASSUME NEW u \in Threads PROVE Sound(thread'[u], tokens', agreed')
    <2>1. CASE u = t
        BY <1>1, <2>1
    <2>2. CASE u # t
        <3>1. Sound(thread[u], tokens, agreed)
            BY DEF ThreadInv
        <3>2. Sound(thread[u], tokens', agreed')
            BY <3>1, SoundGrows
        <3> QED
            BY <1>1, <2>2, <3>2
    <2> QED
        BY <2>1, <2>2
<1> QED
    BY <1>1, <1>2 DEF ThreadInv

\* A step that leaves the catalog and the lists alone is about what its command carries.
LEMMA StepKeeps ==
    ASSUME ReviewInv, NEW t \in Threads, NEW step, Goto(t, step),
           UNCHANGED <<files, profiles, preview, shown>>, grants' \subseteq Folders,
           tokens' \in 0..MaxTokens, tokens <= tokens', scanning' = tokens',
           agreed \subseteq agreed', agreed' \subseteq Emulators \X Paths \X Versions,
           Sound(step, tokens', agreed'), MaxTokens \in Nat
    PROVE  ReviewInv'
<1>1. tokens \in Nat /\ tokens' \in Nat
    BY DEF ReviewInv, TypeOK
<1>2. ThreadInv'
    BY <1>1, ThreadMoves DEF ReviewInv
<1>3. UNCHANGED <<disk, edits, folder, inventory, cards, preview, shown>>
    BY DEF files, profiles
<1>4. TypeOK'
    <2>1. \A u \in Threads : thread'[u].at \in Places
        BY <1>2 DEF ThreadInv, Sound
    <2>2. preview.token \in 0..tokens' /\ DOMAIN shown \subseteq 1..tokens'
        BY <1>1 DEF ReviewInv, TypeOK
    <2> QED
        BY <1>3, <2>1, <2>2 DEF ReviewInv, TypeOK, IsListing, Places
<1>5. PreviewInv'
    BY <1>3 DEF ReviewInv, PreviewInv
<1>6. ImportedWasPicked'
    BY <1>3 DEF ReviewInv, ImportedWasPicked
<1>7. CardsInsideGrant'
    BY <1>3 DEF ReviewInv, CardsInsideGrant
<1> QED
    BY <1>2, <1>4, <1>5, <1>6, <1>7 DEF ReviewInv

------------------------------------------------------------------------------
(* Connecting and scanning *)

\* Connect, Pick, Sweep, Release, ReadProfiles: nothing is listed yet.
LEMMA ConnectKeeps ==
    ASSUME BoundsAssumption, ReviewInv, NEW t \in Threads,
           \/ \E emulator \in Emulators : Connect(t, emulator)
           \/ Pick(t) \/ Sweep(t) \/ Release(t) \/ ReadProfiles(t)
    PROVE  ReviewInv'
<1>1. /\ grants \subseteq Folders /\ tokens \in 0..MaxTokens /\ scanning = tokens
      /\ agreed \subseteq Emulators \X Paths \X Versions
      /\ MaxTokens \in Nat
      /\ ~At(t, "idle") => EmulatorOf(t) \in Emulators
    BY DEF BoundsAssumption, ReviewInv, TypeOK, ThreadInv, Sound, At, EmulatorOf
<1>2. ASSUME NEW step, Goto(t, step), grants' \subseteq Folders,
             UNCHANGED <<files, profiles, preview, scanning, tokens, shown, agreed>>,
             step.at \in {"idle", "picker", "point", "sweep", "release", "profiles", "begin"},
             step.at # "idle" => step.emulator \in Emulators
      PROVE  ReviewInv'
    <2>1. Sound(step, tokens', agreed')
        BY <1>2 DEF Sound, Places
    <2> QED
        BY <1>1, <1>2, <2>1, StepKeeps
<1>3. ASSUME NEW emulator \in Emulators, Connect(t, emulator) PROVE ReviewInv'
    <2> DEFINE step == [at |-> IF folder[emulator] = None THEN "picker" ELSE "profiles",
                        emulator |-> emulator, asked |-> FALSE]
    <2>1. Goto(t, step) /\ UNCHANGED <<files, grants, profiles, preview, scanning, tokens,
                                       shown, agreed>>
        BY <1>3 DEF Connect
    <2>2. step.at \in {"picker", "profiles"} /\ step.emulator \in Emulators
        OBVIOUS
    <2> HIDE DEF step
    <2> QED
        BY <1>1, <1>2, <2>1, <2>2
<1>4. ASSUME Pick(t) PROVE ReviewInv'
    <2>1. ~At(t, "idle")
        BY <1>4 DEF Pick, At
    <2>2. UNCHANGED <<files, profiles, preview, scanning, tokens, shown, agreed>>
        BY <1>4 DEF Pick
    <2>3. CASE Goto(t, Idle) /\ UNCHANGED grants
        <3>1. Idle.at = "idle"
            BY DEF Idle
        <3> QED
            BY <1>1, <1>2, <2>2, <2>3, <3>1
    <2>4. ASSUME NEW picked \in Folders, grants' = grants \cup {picked},
                 Goto(t, [at |-> "point", emulator |-> EmulatorOf(t), folder |-> picked])
          PROVE  ReviewInv'
        <3> DEFINE step == [at |-> "point", emulator |-> EmulatorOf(t), folder |-> picked]
        <3>1. step.at = "point" /\ step.emulator \in Emulators /\ Goto(t, step)
            BY <1>1, <2>1, <2>4
        <3>2. grants' \subseteq Folders
            BY <1>1, <2>4
        <3> HIDE DEF step
        <3> QED
            BY <1>2, <2>2, <3>1, <3>2
    <2> QED
        BY <1>4, <2>3, <2>4 DEF Pick
<1>5. ASSUME Sweep(t) PROVE ReviewInv'
    <2> DEFINE step == [at |-> "release", emulator |-> EmulatorOf(t),
                        used |-> {folder[e] : e \in Emulators}]
    <2>1. Goto(t, step) /\ ~At(t, "idle")
        BY <1>5 DEF Sweep, At
    <2>2. step.at = "release" /\ step.emulator \in Emulators
        BY <1>1, <2>1
    <2>3. UNCHANGED <<files, grants, profiles, preview, scanning, tokens, shown, agreed>>
        BY <1>5 DEF Sweep
    <2> HIDE DEF step
    <2> QED
        BY <1>1, <1>2, <2>1, <2>2, <2>3
<1>6. ASSUME Release(t) PROVE ReviewInv'
    <2> DEFINE step == [at |-> "profiles", emulator |-> EmulatorOf(t), asked |-> TRUE]
    <2>1. Goto(t, step) /\ ~At(t, "idle")
        BY <1>6 DEF Release, At
    <2>2. step.at = "profiles" /\ step.emulator \in Emulators
        BY <1>1, <2>1
    <2>3. /\ UNCHANGED <<files, profiles, preview, scanning, tokens, shown, agreed>>
          /\ grants' \subseteq Folders
        BY <1>1, <1>6 DEF Release
    <2> HIDE DEF step
    <2> QED
        BY <1>2, <2>1, <2>2, <2>3
<1>7. ASSUME ReadProfiles(t) PROVE ReviewInv'
    <2>1. UNCHANGED <<files, grants, profiles, preview, scanning, tokens, shown, agreed>>
          /\ ~At(t, "idle")
        BY <1>7 DEF ReadProfiles, At
    <2>2. ASSUME Failed(t) PROVE ReviewInv'
        <3> DEFINE step == IF thread[t].asked THEN Idle ELSE Of(t, "picker")
        <3>1. Goto(t, step)
            BY <2>2 DEF Failed
        <3>2. step.at \in {"idle", "picker"} /\ (step.at # "idle" => step.emulator \in Emulators)
            BY <1>1, <2>1 DEF Idle, Of
        <3> HIDE DEF step
        <3> QED
            BY <1>1, <1>2, <2>1, <3>1, <3>2
    <2>3. ASSUME NEW at, Goto(t, [at |-> "begin", emulator |-> EmulatorOf(t),
                                  asked |-> thread[t].asked, folder |-> at])
          PROVE  ReviewInv'
        <3> DEFINE step == [at |-> "begin", emulator |-> EmulatorOf(t),
                            asked |-> thread[t].asked, folder |-> at]
        <3>1. step.at = "begin" /\ step.emulator \in Emulators /\ Goto(t, step)
            BY <1>1, <2>1, <2>3
        <3> HIDE DEF step
        <3> QED
            BY <1>1, <1>2, <2>1, <3>1
    <2> QED
        BY <1>7, <2>2, <2>3 DEF ReadProfiles
<1> QED
    BY <1>3, <1>4, <1>5, <1>6, <1>7

\* BeginScan, Scan: a token that is new, and a list of files there were.
LEMMA ScanKeeps ==
    ASSUME BoundsAssumption, ReviewInv, NEW t \in Threads, BeginScan(t) \/ Scan(t)
    PROVE  ReviewInv'
<1>1. /\ grants \subseteq Folders /\ tokens \in 0..MaxTokens /\ scanning = tokens
      /\ agreed \subseteq Emulators \X Paths \X Versions
      /\ MaxTokens \in Nat /\ IsListing(disk)
      /\ Sound(thread[t], tokens, agreed)
    BY DEF BoundsAssumption, ReviewInv, TypeOK, ThreadInv
<1>2. EmulatorOf(t) \in Emulators
    BY <1>1 DEF Sound, At, EmulatorOf, BeginScan, Scan
<1>3. ASSUME BeginScan(t) PROVE ReviewInv'
    <2> DEFINE step == [at |-> "scan", emulator |-> EmulatorOf(t), asked |-> thread[t].asked,
                        folder |-> thread[t].folder, token |-> tokens + 1]
    <2>1. /\ Goto(t, step) /\ tokens' = tokens + 1 /\ scanning' = tokens + 1
          /\ tokens < MaxTokens
          /\ UNCHANGED <<files, grants, profiles, preview, shown, agreed>>
        BY <1>3 DEF BeginScan
    <2>2. tokens' \in 0..MaxTokens /\ tokens <= tokens' /\ tokens + 1 \in 1..tokens'
        BY <1>1, <2>1
    <2>3. step.at = "scan" /\ step.emulator \in Emulators /\ step.token \in 1..tokens'
        BY <1>2, <2>2
    <2> HIDE DEF step
    <2>4. Sound(step, tokens', agreed')
        BY <2>3 DEF Sound, Places
    <2> QED
        BY <1>1, <2>1, <2>2, <2>4, StepKeeps
<1>4. ASSUME Scan(t) PROVE ReviewInv'
    <2>1. /\ UNCHANGED <<files, grants, profiles, preview, scanning, tokens, shown, agreed>>
          /\ thread[t].at = "scan"
        BY <1>4 DEF Scan, At
    <2>2. ASSUME NEW step, Goto(t, step), Sound(step, tokens, agreed) PROVE ReviewInv'
        <3>1. /\ grants' \subseteq Folders /\ tokens' \in 0..MaxTokens /\ tokens <= tokens'
              /\ scanning' = tokens' /\ agreed \subseteq agreed'
              /\ agreed' \subseteq Emulators \X Paths \X Versions
            BY <1>1, <2>1
        <3>2. Sound(step, tokens', agreed')
            BY <2>1, <2>2
        <3> QED
            BY <1>1, <2>1, <2>2, <3>1, <3>2, StepKeeps
    <2>3. ASSUME Failed(t) PROVE ReviewInv'
        <3> DEFINE step == IF thread[t].asked THEN Idle ELSE Of(t, "picker")
        <3>1. Goto(t, step)
            BY <2>3 DEF Failed
        <3>2. step.at \in {"idle", "picker"} /\ (step.at # "idle" => step.emulator \in Emulators)
            BY <1>2 DEF Idle, Of
        <3> HIDE DEF step
        <3>3. Sound(step, tokens, agreed)
            BY <3>2 DEF Sound, Places
        <3> QED
            BY <2>2, <3>1, <3>3
    <2>4. ASSUME NEW S \in SUBSET DOMAIN Listing(thread[t].folder),
                 Goto(t, [at |-> "store", emulator |-> EmulatorOf(t), token |-> thread[t].token,
                          found |-> Restrict(Listing(thread[t].folder), S)])
          PROVE  ReviewInv'
        <3> DEFINE found == Restrict(Listing(thread[t].folder), S)
                   step == [at |-> "store", emulator |-> EmulatorOf(t),
                            token |-> thread[t].token, found |-> found]
        <3>1. IsListing(found)
            BY <1>1 DEF IsListing, Listing, Restrict
        <3> HIDE DEF found
        <3>2. /\ step.at = "store" /\ step.emulator \in Emulators /\ Goto(t, step)
              /\ step.token = thread[t].token /\ step.found = found
            BY <1>2, <2>4 DEF found
        <3> HIDE DEF step
        <3>3. Sound(step, tokens, agreed)
            BY <1>1, <2>1, <3>1, <3>2 DEF Sound, Places
        <3> QED
            BY <2>2, <3>2, <3>3
    <2> QED
        BY <1>4, <2>3, <2>4 DEF Scan
<1> QED
    BY <1>3, <1>4

------------------------------------------------------------------------------
(* Importing *)

\* Import: what the user picked is agreed to, and only what was picked from the list
\* that may be answered goes on.
LEMMA ImportKeeps ==
    ASSUME BoundsAssumption, ReviewInv, NEW t \in Threads, NEW token \in DOMAIN shown,
           Import(t, token)
    PROVE  ReviewInv'
<1>1. /\ grants \subseteq Folders /\ tokens \in 0..MaxTokens /\ scanning = tokens
      /\ agreed \subseteq Emulators \X Paths \X Versions
      /\ MaxTokens \in Nat /\ DOMAIN shown \subseteq 1..tokens
      /\ IsListing(shown[token].found) /\ shown[token].emulator \in Emulators
    BY DEF BoundsAssumption, ReviewInv, TypeOK, PreviewInv
<1>2. UNCHANGED <<files, grants, profiles, preview, scanning, tokens, shown>>
    BY DEF Import
<1>3. PICK picked \in SUBSET DOMAIN shown[token].found :
        /\ agreed' = agreed \cup
            {<<shown[token].emulator, path, shown[token].found[path]>> : path \in picked}
        /\ Goto(t, IF Answers(token)
                   THEN [at |-> "grant", emulator |-> preview.emulator,
                         found |-> Restrict(preview.found, picked \cap DOMAIN preview.found)]
                   ELSE Idle)
    BY DEF Import
<1>4. agreed \subseteq agreed' /\ agreed' \subseteq Emulators \X Paths \X Versions
    BY <1>1, <1>3 DEF IsListing
<1>5. ASSUME NEW step, Goto(t, step), Sound(step, tokens', agreed') PROVE ReviewInv'
    BY <1>1, <1>2, <1>4, <1>5, StepKeeps
<1>6. CASE Answers(token)
    <2> DEFINE found == Restrict(preview.found, picked \cap DOMAIN preview.found)
               step == [at |-> "grant", emulator |-> preview.emulator, found |-> found]
    <2>1. preview.token = token /\ preview.token # 0
        BY <1>1, <1>6 DEF Answers
    <2>2. preview.emulator = shown[token].emulator /\ preview.found = shown[token].found
        BY <2>1 DEF ReviewInv, PreviewInv
    <2>3. IsListing(found) /\ Agreed(preview.emulator, found, agreed')
        BY <1>1, <1>3, <2>2 DEF IsListing, Agreed, Restrict
    <2> HIDE DEF found
    <2>4. /\ step.at = "grant" /\ step.emulator \in Emulators
          /\ step.emulator = preview.emulator /\ step.found = found /\ Goto(t, step)
        BY <1>1, <1>3, <1>6, <2>2 DEF found
    <2> HIDE DEF step
    <2>5. Sound(step, tokens', agreed')
        BY <2>3, <2>4 DEF Sound, Places
    <2> QED
        BY <1>5, <2>4, <2>5
<1>7. CASE ~Answers(token)
    <2>1. Goto(t, Idle)
        BY <1>3, <1>7
    <2>2. Sound(Idle, tokens', agreed')
        BY DEF Sound, Idle, Places
    <2> QED
        BY <1>5, <2>1, <2>2
<1> QED
    BY <1>6, <1>7

\* ReadGrant, Revalidate: what goes on is what came, or less of it.
LEMMA CheckKeeps ==
    ASSUME BoundsAssumption, ReviewInv, NEW t \in Threads, ReadGrant(t) \/ Revalidate(t)
    PROVE  ReviewInv'
<1>1. /\ grants \subseteq Folders /\ tokens \in 0..MaxTokens /\ scanning = tokens
      /\ agreed \subseteq Emulators \X Paths \X Versions
      /\ MaxTokens \in Nat /\ IsListing(disk)
      /\ Sound(thread[t], tokens, agreed)
    BY DEF BoundsAssumption, ReviewInv, TypeOK, ThreadInv
<1>2. UNCHANGED <<files, grants, profiles, preview, scanning, tokens, shown, agreed>>
    BY DEF ReadGrant, Revalidate
<1>3. /\ thread[t].at \in {"grant", "revalidate"} /\ EmulatorOf(t) \in Emulators
      /\ IsListing(thread[t].found) /\ Agreed(EmulatorOf(t), thread[t].found, agreed)
    BY <1>1 DEF ReadGrant, Revalidate, At, Sound, EmulatorOf
<1>4. ASSUME NEW step, Goto(t, step), Sound(step, tokens, agreed) PROVE ReviewInv'
    <2>1. /\ grants' \subseteq Folders /\ tokens' \in 0..MaxTokens /\ tokens <= tokens'
          /\ scanning' = tokens' /\ agreed \subseteq agreed'
          /\ agreed' \subseteq Emulators \X Paths \X Versions
        BY <1>1, <1>2
    <2>2. Sound(step, tokens', agreed')
        BY <1>2, <1>4
    <2> QED
        BY <1>1, <1>2, <1>4, <2>1, <2>2, StepKeeps
<1>5. ASSUME NEW step, Goto(t, step), step.at \in {"revalidate", "commit"},
             step.emulator = EmulatorOf(t), IsListing(step.found),
             Agreed(EmulatorOf(t), step.found, agreed)
      PROVE  ReviewInv'
    BY <1>3, <1>4, <1>5 DEF Sound, Places
<1>6. ASSUME ReadGrant(t) PROVE ReviewInv'
    <2>1. ASSUME Goto(t, Idle) PROVE ReviewInv'
        <3>1. Sound(Idle, tokens, agreed)
            BY DEF Sound, Idle, Places
        <3> QED
            BY <1>4, <2>1, <3>1
    <2>2. ASSUME NEW at, Goto(t, [at |-> "revalidate", emulator |-> EmulatorOf(t),
                                  folder |-> at, found |-> thread[t].found])
          PROVE  ReviewInv'
        <3> DEFINE step == [at |-> "revalidate", emulator |-> EmulatorOf(t), folder |-> at,
                            found |-> thread[t].found]
        <3>1. /\ step.at = "revalidate" /\ step.emulator = EmulatorOf(t)
              /\ step.found = thread[t].found /\ Goto(t, step)
            BY <2>2
        <3> HIDE DEF step
        <3> QED
            BY <1>3, <1>5, <3>1
    <2> QED
        BY <1>6, <2>1, <2>2 DEF ReadGrant
<1>7. ASSUME Revalidate(t) PROVE ReviewInv'
    <2> DEFINE found == Restrict(disk, Unchanged(thread[t].folder, thread[t].found))
               step == [at |-> "commit", emulator |-> EmulatorOf(t), found |-> found]
    <2>1. IsListing(found) /\ Agreed(EmulatorOf(t), found, agreed)
        BY <1>1, <1>3 DEF Unchanged, Restrict, IsListing, Agreed
    <2>2. /\ step.at = "commit" /\ step.emulator = EmulatorOf(t)
          /\ step.found = found /\ Goto(t, step)
        BY <1>7 DEF Revalidate
    <2> HIDE DEF step, found
    <2> QED
        BY <1>5, <2>1, <2>2
<1> QED
    BY <1>6, <1>7

------------------------------------------------------------------------------
(* What is written *)

\* Point: what lies outside the new folder goes, and the cards that stand on it.
LEMMA PointKeeps ==
    ASSUME ReviewInv, NEW t \in Threads, Point(t)
    PROVE  ReviewInv'
<1>1. /\ grants \subseteq Folders /\ tokens \in Nat
      /\ folder \in [Emulators -> Folders \cup {None}]
      /\ UNCHANGED <<files, grants, preview, scanning, tokens, shown, agreed>>
      /\ EmulatorOf(t) \in Emulators
    BY DEF ReviewInv, TypeOK, ThreadInv, Sound, Point, At, EmulatorOf
<1>2. PICK step : Goto(t, step) /\ Sound(step, tokens', agreed')
    <2>1. Sound(Idle, tokens', agreed')
        BY DEF Sound, Idle, Places
    <2>2. Of(t, "sweep").at = "sweep" /\ Of(t, "sweep").emulator \in Emulators
        BY <1>1 DEF Of
    <2>3. Sound(Of(t, "sweep"), tokens', agreed')
        BY <2>2 DEF Sound, Places
    <2>4. Goto(t, Idle) \/ Goto(t, Of(t, "sweep"))
        BY DEF Point
    <2> QED
        BY <2>1, <2>3, <2>4
<1>3. ThreadInv'
    BY <1>1, <1>2, ThreadMoves DEF ReviewInv
<1>4. \A u \in Threads : thread'[u].at \in Places
    BY <1>3 DEF ThreadInv, Sound
<1>5. PreviewInv'
    BY <1>1 DEF ReviewInv, PreviewInv
<1>6. CASE UNCHANGED profiles
    <2>1. UNCHANGED <<disk, edits, folder, inventory, cards>>
        BY <1>1, <1>6 DEF files, profiles
    <2>2. TypeOK'
        BY <1>1, <1>4, <2>1 DEF ReviewInv, TypeOK, IsListing, Places
    <2>3. ImportedWasPicked' /\ CardsInsideGrant'
        BY <1>1, <2>1 DEF ReviewInv, ImportedWasPicked, CardsInsideGrant
    <2> QED
        BY <1>3, <1>5, <2>2, <2>3 DEF ReviewInv
<1>7. ASSUME NEW emulator \in Emulators, NEW to \in Folders, NEW kept,
             kept = {key \in DOMAIN inventory : key[1] = emulator => FolderOf(key[2]) = to},
             folder' = [folder EXCEPT ![emulator] = to],
             inventory' = Restrict(inventory, kept), cards' = cards \cap kept
      PROVE  ReviewInv'
    <2>1. /\ DOMAIN inventory' \subseteq DOMAIN inventory
          /\ \A key \in DOMAIN inventory' :
                 /\ inventory'[key] = inventory[key]
                 /\ key[1] = emulator => FolderOf(key[2]) = to
          /\ cards' \subseteq cards
          /\ cards \subseteq DOMAIN inventory => cards' \subseteq DOMAIN inventory'
        BY <1>7 DEF Restrict
    <2>2. /\ folder' \in [Emulators -> Folders \cup {None}] /\ folder'[emulator] = to
          /\ \A e \in Emulators \ {emulator} : folder'[e] = folder[e]
        BY <1>1, <1>7
    <2>3. TypeOK'
        BY <1>1, <1>4, <2>1, <2>2 DEF ReviewInv, TypeOK, IsListing, Places, files
    <2>4. ImportedWasPicked'
        BY <1>1, <2>1 DEF ReviewInv, ImportedWasPicked
    <2>5. CardsInsideGrant'
        <3>1. \A key \in DOMAIN inventory : key[1] \in Emulators
            BY DEF ReviewInv, TypeOK
        <3> QED
            BY <2>1, <2>2, <3>1 DEF ReviewInv, CardsInsideGrant
    <2> QED
        BY <1>3, <1>5, <2>3, <2>4, <2>5 DEF ReviewInv
<1>8. CASE ~UNCHANGED profiles
    <2> DEFINE to == thread[t].folder
               kept == {key \in DOMAIN inventory :
                            key[1] = EmulatorOf(t) => FolderOf(key[2]) = to}
    <2>1. /\ to \in grants /\ folder' = [folder EXCEPT ![EmulatorOf(t)] = to]
          /\ inventory' = Restrict(inventory, kept) /\ cards' = cards \cap kept
        BY <1>8 DEF Point
    <2>2. to \in Folders
        BY <1>1, <2>1
    <2> QED
        BY <1>1, <1>7, <2>1, <2>2
<1> QED
    BY <1>6, <1>8

\* StorePreview: the list is shown under the token it is stored with.
LEMMA StoreKeeps ==
    ASSUME ReviewInv, NEW t \in Threads, StorePreview(t)
    PROVE  ReviewInv'
<1>1. /\ tokens \in Nat
      /\ UNCHANGED <<files, grants, profiles, scanning, tokens, agreed>> /\ Goto(t, Idle)
      /\ EmulatorOf(t) \in Emulators
      /\ thread[t].token \in 1..tokens /\ IsListing(thread[t].found)
    BY DEF ReviewInv, TypeOK, ThreadInv, Sound, StorePreview, At, EmulatorOf
<1>2. UNCHANGED <<disk, edits, folder, inventory, cards>>
    BY <1>1 DEF files, profiles
<1>3. /\ preview'.token = thread[t].token /\ preview'.emulator = EmulatorOf(t)
      /\ preview'.found = thread[t].found
    BY DEF StorePreview
<1>4. /\ DOMAIN shown' = DOMAIN shown \cup {thread[t].token}
      /\ shown'[thread[t].token].emulator = EmulatorOf(t)
      /\ shown'[thread[t].token].found = thread[t].found
      /\ \A k \in DOMAIN shown \ {thread[t].token} : shown'[k] = shown[k]
    BY DEF StorePreview
<1>5. ThreadInv'
    <2>1. Sound(Idle, tokens', agreed')
        BY DEF Sound, Idle, Places
    <2> QED
        BY <1>1, <2>1, ThreadMoves DEF ReviewInv
<1>6. PreviewInv'
    BY <1>1, <1>3, <1>4 DEF ReviewInv, PreviewInv
<1>7. TypeOK'
    <2>1. \A u \in Threads : thread'[u].at \in Places
        BY <1>5 DEF ThreadInv, Sound
    <2>2. preview'.token \in 0..tokens' /\ IsListing(preview'.found)
        BY <1>1, <1>3
    <2>3. /\ DOMAIN shown' \subseteq 1..tokens'
          /\ \A token \in DOMAIN shown' : IsListing(shown'[token].found)
        BY <1>1, <1>4 DEF ReviewInv, TypeOK
    <2>4. IsListing(disk') /\ UNCHANGED <<grants, scanning, tokens, agreed>>
        BY <1>1, <1>2 DEF ReviewInv, TypeOK
    <2> QED
        BY <1>2, <2>1, <2>2, <2>3, <2>4 DEF ReviewInv, TypeOK, IsListing, Places
<1>8. ImportedWasPicked' /\ CardsInsideGrant'
    BY <1>1, <1>2 DEF ReviewInv, ImportedWasPicked, CardsInsideGrant
<1> QED
    BY <1>5, <1>6, <1>7, <1>8 DEF ReviewInv

\* Commit: what is written was agreed to, and lies in the folder of the moment.
LEMMA CommitKeeps ==
    ASSUME ReviewInv, NEW t \in Threads, Commit(t)
    PROVE  ReviewInv'
<1>1. /\ tokens \in Nat
      /\ UNCHANGED <<files, grants, preview, scanning, tokens, shown, agreed>> /\ Goto(t, Idle)
      /\ EmulatorOf(t) \in Emulators
      /\ IsListing(thread[t].found) /\ Agreed(EmulatorOf(t), thread[t].found, agreed)
    BY DEF ReviewInv, TypeOK, ThreadInv, Sound, Commit, At, EmulatorOf
<1>2. ThreadInv'
    <2>1. Sound(Idle, tokens', agreed')
        BY DEF Sound, Idle, Places
    <2> QED
        BY <1>1, <2>1, ThreadMoves DEF ReviewInv
<1>3. \A u \in Threads : thread'[u].at \in Places
    BY <1>2 DEF ThreadInv, Sound
<1>4. PreviewInv'
    BY <1>1 DEF ReviewInv, PreviewInv
<1>5. CASE UNCHANGED profiles
    <2>1. UNCHANGED <<disk, edits, folder, inventory, cards>>
        BY <1>1, <1>5 DEF files, profiles
    <2>2. TypeOK'
        BY <1>1, <1>3, <2>1 DEF ReviewInv, TypeOK, IsListing, Places
    <2>3. ImportedWasPicked' /\ CardsInsideGrant'
        BY <1>1, <2>1 DEF ReviewInv, ImportedWasPicked, CardsInsideGrant
    <2> QED
        BY <1>2, <1>4, <2>2, <2>3 DEF ReviewInv
<1>6. ASSUME NEW emulator \in Emulators, NEW found, IsListing(found),
             Agreed(emulator, found, agreed), NEW keys,
             keys = Keys(emulator, {path \in DOMAIN found : InScope(emulator, path)}),
             inventory' = [key \in DOMAIN inventory \cup keys |->
                               IF key \in keys THEN found[key[2]] ELSE inventory[key]],
             cards' = cards \cup keys, UNCHANGED folder
      PROVE  ReviewInv'
    <2>1. \A key \in keys :
              /\ key[1] = emulator /\ key[2] \in DOMAIN found /\ key = <<key[1], key[2]>>
              /\ FolderOf(key[2]) = folder[emulator]
        BY <1>6 DEF Keys, InScope
    <2>2. /\ DOMAIN inventory' = DOMAIN inventory \cup keys
          /\ \A key \in keys : inventory'[key] = found[key[2]]
          /\ \A key \in DOMAIN inventory \ keys : inventory'[key] = inventory[key]
        BY <1>6
    <2>3. TypeOK'
        <3>1. keys \subseteq Emulators \X Paths
            BY <1>6, <2>1 DEF IsListing
        <3>2. /\ DOMAIN inventory' \subseteq Emulators \X Paths
              /\ \A key \in DOMAIN inventory' : inventory'[key] \in Versions
            BY <1>6, <2>1, <2>2, <3>1 DEF IsListing, ReviewInv, TypeOK
        <3>3. cards' \subseteq Emulators \X Paths
            BY <1>6, <3>1 DEF ReviewInv, TypeOK
        <3> QED
            BY <1>1, <1>3, <1>6, <3>2, <3>3 DEF ReviewInv, TypeOK, IsListing, Places, files
    <2>4. ImportedWasPicked'
        BY <1>1, <1>6, <2>1, <2>2 DEF ReviewInv, ImportedWasPicked, Agreed
    <2>5. CardsInsideGrant'
        BY <1>6, <2>1, <2>2 DEF ReviewInv, CardsInsideGrant
    <2> QED
        BY <1>2, <1>4, <2>3, <2>4, <2>5 DEF ReviewInv
<1>7. CASE ~UNCHANGED profiles
    <2> DEFINE found == thread[t].found
               keys == Keys(EmulatorOf(t),
                            {path \in DOMAIN found : InScope(EmulatorOf(t), path)})
    <2>1. /\ inventory' = [key \in DOMAIN inventory \cup keys |->
                               IF key \in keys THEN found[key[2]] ELSE inventory[key]]
          /\ cards' = cards \cup keys /\ UNCHANGED folder
        BY <1>7 DEF Commit
    <2> QED
        BY <1>1, <1>6, <2>1
<1> QED
    BY <1>5, <1>7

\* Write: the disk is nobody's evidence.
LEMMA WriteKeeps ==
    ASSUME BoundsAssumption, ReviewInv, NEW path \in Paths, Write(path)
    PROVE  ReviewInv'
<1>1. /\ UNCHANGED <<grants, folder, inventory, cards, preview, scanning, tokens, thread,
                     shown, agreed>>
      /\ edits' \in 0..MaxEdits
    BY DEF Write, profiles, BoundsAssumption, ReviewInv, TypeOK
<1>2. IsListing(disk)'
    BY DEF Write, Restrict, IsListing, ReviewInv, TypeOK
<1>3. TypeOK'
    BY <1>1, <1>2 DEF ReviewInv, TypeOK, IsListing
<1>4. ThreadInv' /\ PreviewInv' /\ ImportedWasPicked' /\ CardsInsideGrant'
    BY <1>1 DEF ReviewInv, ThreadInv, PreviewInv, ImportedWasPicked, CardsInsideGrant
<1> QED
    BY <1>3, <1>4 DEF ReviewInv

------------------------------------------------------------------------------
(* The theorems *)

\* Nothing is connected, listed or imported.
LEMMA InitKeeps ==
    ASSUME BoundsAssumption, Init
    PROVE  ReviewInv
<1>1. IsListing(disk) /\ edits \in 0..MaxEdits
    BY DEF BoundsAssumption, Init, IsListing
<1>2. preview.token = 0 /\ preview.found = <<>> /\ DOMAIN shown = {} /\ DOMAIN inventory = {}
    BY DEF Init
<1>3. \A t \in Threads : thread[t].at = "idle"
    BY DEF Init, Idle
<1>4. TypeOK
    <2>1. 0 \in 0..MaxTokens
        BY DEF BoundsAssumption
    <2>2. IsListing(preview.found)
        BY <1>2 DEF IsListing
    <2> QED
        BY <1>1, <1>2, <1>3, <2>1, <2>2 DEF Init, TypeOK
<1>5. ThreadInv
    BY <1>3 DEF Init, ThreadInv, Sound, Places
<1>6. PreviewInv
    BY <1>2 DEF PreviewInv
<1>7. ImportedWasPicked /\ CardsInsideGrant
    BY <1>2 DEF Init, ImportedWasPicked, CardsInsideGrant
<1> QED
    BY <1>4, <1>5, <1>6, <1>7 DEF ReviewInv

\* Every step keeps the invariant.
LEMMA NextKeeps ==
    ASSUME BoundsAssumption, ReviewInv, [Next]_vars
    PROVE  ReviewInv'
<1>1. CASE UNCHANGED vars
    <2>1. UNCHANGED <<disk, edits, grants, folder, inventory, cards, preview, scanning,
                      tokens, thread, shown, agreed>>
        BY <1>1 DEF vars, files, profiles
    <2>2. TypeOK'
        BY <2>1 DEF ReviewInv, TypeOK, IsListing
    <2>3. ThreadInv' /\ PreviewInv' /\ ImportedWasPicked' /\ CardsInsideGrant'
        BY <2>1 DEF ReviewInv, ThreadInv, PreviewInv, ImportedWasPicked, CardsInsideGrant
    <2> QED
        BY <2>2, <2>3 DEF ReviewInv
<1>2. ASSUME NEW t \in Threads,
             \/ \E emulator \in Emulators : Connect(t, emulator)
             \/ Pick(t) \/ Point(t) \/ Sweep(t) \/ Release(t)
             \/ ReadProfiles(t) \/ BeginScan(t) \/ Scan(t) \/ StorePreview(t)
             \/ \E token \in DOMAIN shown : Import(t, token)
             \/ ReadGrant(t) \/ Revalidate(t) \/ Commit(t)
      PROVE  ReviewInv'
    BY <1>2, ConnectKeeps, ScanKeeps, ImportKeeps, CheckKeeps, PointKeeps, StoreKeeps,
       CommitKeeps
<1>3. ASSUME NEW path \in Paths, Write(path) PROVE ReviewInv'
    BY <1>3, WriteKeeps
<1> QED
    BY <1>1, <1>2, <1>3 DEF Next

\* Reviews and imports of any emulators, in any number and order, beside any edits:
\* whatever a command carries to the library was agreed to.
THEOREM ReviewInvariant ==
    ASSUME BoundsAssumption
    PROVE  Spec => []ReviewInv
<1>1. Init => ReviewInv
    BY InitKeeps
<1>2. ReviewInv /\ [Next]_vars => ReviewInv'
    BY NextKeeps
<1> QED
    BY <1>1, <1>2, PTL DEF Spec

\* Every variable keeps its type.
THEOREM TypeCorrect ==
    ASSUME BoundsAssumption
    PROVE  Spec => []TypeOK
<1>1. ReviewInv => TypeOK
    BY DEF ReviewInv
<1> QED
    BY <1>1, ReviewInvariant, PTL

\* What is in the library was picked, for its emulator and in its version, from a list
\* that named it.
THEOREM ImportsWerePicked ==
    ASSUME BoundsAssumption
    PROVE  Spec => []ImportedWasPicked
<1>1. ReviewInv => ImportedWasPicked
    BY DEF ReviewInv
<1> QED
    BY <1>1, ReviewInvariant, PTL

\* No entry, and so no card, is outside the folder its profile points at.
THEOREM CardsAreInside ==
    ASSUME BoundsAssumption
    PROVE  Spec => []CardsInsideGrant
<1>1. ReviewInv => CardsInsideGrant
    BY DEF ReviewInv
<1> QED
    BY <1>1, ReviewInvariant, PTL

------------------------------------------------------------------------------
(* Winlator *)

WinlatorPlaces ==
    {"waiting", "point", "profile", "scan", "token", "store", "enabled", "revalidate", "commit"}

Picked(found, picked) == \A path \in DOMAIN found : <<path, found[path]>> \in picked

\* What a review or an import carries: as of an emulator, with one folder for all.
Carried(c, given, picked) ==
    \/ c = None
    \/ /\ c.at \in WinlatorPlaces
       /\ c.at \in {"waiting", "point"} => c.folder \in Folders
       /\ c.at = "store" => c.token \in 1..given
       /\ c.at \in {"token", "store", "enabled", "revalidate", "commit"} => W!IsListing(c.found)
       /\ c.at \in {"enabled", "revalidate", "commit"} => Picked(c.found, picked)

CarriedInv ==
    /\ DOMAIN thread = Threads
    /\ \A t \in Threads : Carried(thread[t], tokens, agreed)

\* What may be answered is what was shown under its token.
ShownInv ==
    preview.token # 0 => preview.token \in DOMAIN shown /\ preview.found = shown[preview.token]

WinlatorInv ==
    W!TypeOK /\ CarriedInv /\ ShownInv /\ W!ImportedWasPicked /\ W!CardsInsideGrant

\* More tokens and more that is agreed take nothing from what is carried.
LEMMA CarriedGrows ==
    ASSUME NEW c, NEW given \in Nat, NEW more \in Nat, given <= more,
           NEW picked, NEW wider, picked \subseteq wider, Carried(c, given, picked)
    PROVE  Carried(c, more, wider)
BY DEF Carried, Picked

\* One thread moves.
LEMMA CarrierMoves ==
    ASSUME CarriedInv, NEW t \in Threads, NEW step, W!Goto(t, step),
           tokens \in Nat, tokens' \in Nat, tokens <= tokens', agreed \subseteq agreed',
           Carried(step, tokens', agreed')
    PROVE  CarriedInv'
<1>1. /\ DOMAIN thread' = Threads /\ thread'[t] = step
      /\ \A u \in Threads \ {t} : thread'[u] = thread[u]
    BY DEF CarriedInv, W!Goto
<1>2. ASSUME NEW u \in Threads PROVE Carried(thread'[u], tokens', agreed')
    <2>1. CASE u = t
        BY <1>1, <2>1
    <2>2. CASE u # t
        <3>1. Carried(thread[u], tokens, agreed)
            BY DEF CarriedInv
        <3>2. Carried(thread[u], tokens', agreed')
            BY <3>1, CarriedGrows
        <3> QED
            BY <1>1, <2>2, <3>2
    <2> QED
        BY <2>1, <2>2
<1> QED
    BY <1>1, <1>2 DEF CarriedInv

\* A step that leaves the catalog and the lists alone is about what its thread carries.
LEMMA CarrierKeeps ==
    ASSUME WinlatorInv, NEW t \in Threads, NEW step, W!Goto(t, step),
           UNCHANGED <<disk, edits, W!profile, preview, shown, inFlight, pass>>,
           cancelled' \in BOOLEAN,
           tokens' \in 0..MaxTokens, tokens <= tokens',
           agreed \subseteq agreed', agreed' \subseteq W!Paths \X Versions,
           Carried(step, tokens', agreed'), MaxTokens \in Nat
    PROVE  WinlatorInv'
<1>1. tokens \in Nat /\ tokens' \in Nat
    BY DEF WinlatorInv, W!TypeOK
<1>2. CarriedInv'
    BY <1>1, CarrierMoves DEF WinlatorInv
<1>3. UNCHANGED <<disk, edits, granted, inventory, cards, preview, shown, inFlight, pass>>
    BY DEF W!profile
<1>4. W!TypeOK'
    <2>1. \A u \in Threads : W!Idle(u)' \/ thread'[u].at \in WinlatorPlaces
        BY <1>2 DEF CarriedInv, Carried, W!Idle
    <2>2. preview.token \in 0..tokens' /\ DOMAIN shown \subseteq 1..tokens'
        BY <1>1 DEF WinlatorInv, W!TypeOK
    <2> QED
        BY <1>3, <2>1, <2>2 DEF WinlatorInv, W!TypeOK, W!IsListing, WinlatorPlaces
<1>5. ShownInv'
    BY <1>3 DEF WinlatorInv, ShownInv
<1>6. W!ImportedWasPicked'
    BY <1>3 DEF WinlatorInv, W!ImportedWasPicked
<1>7. W!CardsInsideGrant'
    BY <1>3 DEF WinlatorInv, W!CardsInsideGrant
<1> QED
    BY <1>2, <1>4, <1>5, <1>6, <1>7 DEF WinlatorInv

\* Of a step that also takes no token and hears nothing from the user.
LEMMA CarrierGoesOn ==
    ASSUME WinlatorInv, NEW t \in Threads, NEW step, W!Goto(t, step),
           UNCHANGED <<disk, edits, W!profile, preview, tokens, shown, agreed, inFlight, pass>>,
           cancelled' \in BOOLEAN,
           Carried(step, tokens, agreed), MaxTokens \in Nat
    PROVE  WinlatorInv'
<1>1. /\ tokens' \in 0..MaxTokens /\ tokens <= tokens' /\ agreed \subseteq agreed'
      /\ agreed' \subseteq W!Paths \X Versions /\ Carried(step, tokens', agreed')
    BY DEF WinlatorInv, W!TypeOK
<1> QED
    BY <1>1, CarrierKeeps

\* Review, Waited, ReadProfile, Scan: what is listed was there.
LEMMA WinlatorReviews ==
    ASSUME W!BoundsAssumption, WinlatorInv, NEW t \in Threads,
           W!Review(t) \/ W!Waited(t) \/ W!ReadProfile(t) \/ W!Scan(t)
    PROVE  WinlatorInv'
<1>1. /\ MaxTokens \in Nat /\ cancelled \in BOOLEAN /\ W!IsListing(disk)
      /\ Carried(thread[t], tokens, agreed)
    BY DEF W!BoundsAssumption, WinlatorInv, W!TypeOK, CarriedInv
<1>2. UNCHANGED <<disk, edits, W!profile, preview, tokens, shown, agreed, inFlight, pass>>
        /\ cancelled' \in BOOLEAN
    BY <1>1 DEF W!Review, W!Waited, W!ReadProfile, W!Scan, W!adoption
<1>3. ASSUME NEW step, W!Goto(t, step), Carried(step, tokens, agreed)
      PROVE  WinlatorInv'
    BY <1>1, <1>2, <1>3, CarrierGoesOn
<1>4. ASSUME W!Review(t) PROVE WinlatorInv'
    <2>1. ASSUME W!Goto(t, [at |-> "profile"]) PROVE WinlatorInv'
        <3>1. Carried([at |-> "profile"], tokens, agreed)
            BY DEF Carried, WinlatorPlaces
        <3> QED
            BY <1>3, <2>1, <3>1
    <2>2. ASSUME NEW to \in Folders,
                 W!Goto(t, [at |-> "waiting", folder |-> to, overtakes |-> inFlight])
          PROVE  WinlatorInv'
        <3> DEFINE step == [at |-> "waiting", folder |-> to, overtakes |-> inFlight]
        <3>1. step.at = "waiting" /\ step.folder \in Folders /\ W!Goto(t, step)
            BY <2>2
        <3> HIDE DEF step
        <3>2. Carried(step, tokens, agreed)
            BY <3>1 DEF Carried, WinlatorPlaces
        <3> QED
            BY <1>3, <3>1, <3>2
    <2> QED
        BY <1>4, <2>1, <2>2 DEF W!Review
<1>5. ASSUME W!Waited(t) PROVE WinlatorInv'
    <2> DEFINE step == [at |-> "point", folder |-> thread[t].folder]
    <2>1. thread[t].folder \in Folders
        BY <1>1, <1>5 DEF W!Waited, W!At, W!Idle, Carried
    <2>2. step.at = "point" /\ step.folder \in Folders /\ W!Goto(t, step)
        BY <1>5, <2>1 DEF W!Waited
    <2> HIDE DEF step
    <2>3. Carried(step, tokens, agreed)
        BY <2>2 DEF Carried, WinlatorPlaces
    <2> QED
        BY <1>3, <2>2, <2>3
<1>6. ASSUME W!ReadProfile(t) PROVE WinlatorInv'
    <2> DEFINE step == [at |-> "scan", folder |-> granted]
    <2>1. step.at = "scan" /\ W!Goto(t, step)
        BY <1>6 DEF W!ReadProfile
    <2> HIDE DEF step
    <2>2. Carried(step, tokens, agreed)
        BY <2>1 DEF Carried, WinlatorPlaces
    <2> QED
        BY <1>3, <2>1, <2>2
<1>7. ASSUME W!Scan(t) PROVE WinlatorInv'
    <2> DEFINE found == W!Listing(thread[t].folder)
               step == [at |-> "token", found |-> found]
    <2>1. W!IsListing(found)
        BY <1>1 DEF W!IsListing, W!Listing, W!Restrict
    <2>2. step.at = "token" /\ step.found = found /\ W!Goto(t, step)
        BY <1>7 DEF W!Scan
    <2> HIDE DEF step, found
    <2>3. Carried(step, tokens, agreed)
        BY <2>1, <2>2 DEF Carried, WinlatorPlaces
    <2> QED
        BY <1>3, <2>2, <2>3
<1> QED
    BY <1>4, <1>5, <1>6, <1>7

\* TakeToken: a token that is new.
LEMMA WinlatorTakes ==
    ASSUME W!BoundsAssumption, WinlatorInv, NEW t \in Threads, W!TakeToken(t)
    PROVE  WinlatorInv'
<1> DEFINE step == [at |-> "store", token |-> tokens + 1, found |-> thread[t].found]
<1>1. /\ MaxTokens \in Nat /\ cancelled \in BOOLEAN /\ tokens \in 0..MaxTokens
      /\ agreed \subseteq W!Paths \X Versions /\ W!IsListing(thread[t].found)
    BY DEF W!BoundsAssumption, WinlatorInv, W!TypeOK, CarriedInv, Carried, W!TakeToken, W!At,
           W!Idle
<1>2. /\ W!Goto(t, step) /\ tokens' = tokens + 1 /\ tokens < MaxTokens
      /\ UNCHANGED <<disk, edits, W!profile, preview, shown, agreed, inFlight, pass, cancelled>>
    BY DEF W!TakeToken, W!adoption
<1>3. tokens' \in 0..MaxTokens /\ tokens <= tokens' /\ tokens + 1 \in 1..tokens'
    BY <1>1, <1>2
<1>4. step.at = "store" /\ step.token \in 1..tokens' /\ W!IsListing(step.found)
    BY <1>1, <1>3
<1> HIDE DEF step
<1>5. Carried(step, tokens', agreed')
    BY <1>4 DEF Carried, WinlatorPlaces
<1>6. cancelled' \in BOOLEAN /\ agreed \subseteq agreed' /\ agreed' \subseteq W!Paths \X Versions
    BY <1>1, <1>2
<1> QED
    BY <1>1, <1>2, <1>3, <1>5, <1>6, CarrierKeeps

\* Import: only what was picked from the list that may be answered goes on.
LEMMA WinlatorImports ==
    ASSUME W!BoundsAssumption, WinlatorInv, NEW t \in Threads, W!Import(t)
    PROVE  WinlatorInv'
<1>1. /\ MaxTokens \in Nat /\ cancelled \in BOOLEAN /\ tokens \in 0..MaxTokens
      /\ agreed \subseteq W!Paths \X Versions /\ DOMAIN shown \subseteq 1..tokens
      /\ \A token \in DOMAIN shown : W!IsListing(shown[token])
    BY DEF W!BoundsAssumption, WinlatorInv, W!TypeOK
<1>2. UNCHANGED <<disk, edits, W!profile, preview, tokens, shown, inFlight, pass, cancelled>>
    BY DEF W!Import, W!adoption
<1>3. ASSUME NEW token \in DOMAIN shown, NEW picked \in SUBSET DOMAIN shown[token],
             agreed' = agreed \cup {<<path, shown[token][path]>> : path \in picked},
             W!Goto(t, IF preview.token = token
                       THEN [at |-> "enabled",
                             found |-> W!Restrict(preview.found,
                                                  picked \cap DOMAIN preview.found)]
                       ELSE None)
      PROVE  WinlatorInv'
    <2>1. /\ agreed \subseteq agreed' /\ agreed' \subseteq W!Paths \X Versions
          /\ cancelled' \in BOOLEAN /\ tokens' \in 0..MaxTokens /\ tokens <= tokens'
        BY <1>1, <1>2, <1>3 DEF W!IsListing
    <2>2. ASSUME NEW step, W!Goto(t, step), Carried(step, tokens', agreed') PROVE WinlatorInv'
        BY <1>1, <1>2, <2>1, <2>2, CarrierKeeps
    <2>3. CASE preview.token = token
        <3> DEFINE found == W!Restrict(preview.found, picked \cap DOMAIN preview.found)
                   step == [at |-> "enabled", found |-> found]
        <3>1. preview.token # 0
            BY <1>1, <2>3
        <3>2. preview.found = shown[token]
            BY <2>3, <3>1 DEF WinlatorInv, ShownInv
        <3>3. W!IsListing(found) /\ Picked(found, agreed')
            BY <1>1, <1>3, <3>2 DEF W!IsListing, Picked, W!Restrict
        <3>4. step.at = "enabled" /\ step.found = found /\ W!Goto(t, step)
            BY <1>3, <2>3
        <3> HIDE DEF step, found
        <3>5. Carried(step, tokens', agreed')
            BY <3>3, <3>4 DEF Carried, WinlatorPlaces
        <3> QED
            BY <2>2, <3>4, <3>5
    <2>4. CASE preview.token # token
        <3>1. W!Goto(t, None)
            BY <1>3, <2>4
        <3>2. Carried(None, tokens', agreed')
            BY DEF Carried
        <3> QED
            BY <2>2, <3>1, <3>2
    <2> QED
        BY <2>3, <2>4
<1> QED
    BY <1>3 DEF W!Import

\* ReadGrant, Revalidate: nothing is added to what was picked.
LEMMA WinlatorChecks ==
    ASSUME W!BoundsAssumption, WinlatorInv, NEW t \in Threads, W!ReadGrant(t) \/ W!Revalidate(t)
    PROVE  WinlatorInv'
<1>1. /\ MaxTokens \in Nat /\ cancelled \in BOOLEAN
      /\ W!IsListing(thread[t].found) /\ Picked(thread[t].found, agreed)
    BY DEF W!BoundsAssumption, WinlatorInv, W!TypeOK, CarriedInv, Carried, W!ReadGrant,
           W!Revalidate, W!At, W!Idle
<1>2. /\ UNCHANGED <<disk, edits, W!profile, preview, tokens, shown, agreed, inFlight, pass>>
      /\ cancelled' \in BOOLEAN
    BY <1>1 DEF W!ReadGrant, W!Revalidate, W!adoption
<1>3. ASSUME NEW step, W!Goto(t, step), step.at \in {"revalidate", "commit"},
             W!IsListing(step.found), Picked(step.found, agreed)
      PROVE  WinlatorInv'
    <2>1. Carried(step, tokens, agreed)
        BY <1>3 DEF Carried, WinlatorPlaces
    <2> QED
        BY <1>1, <1>2, <1>3, <2>1, CarrierGoesOn
<1>4. ASSUME W!ReadGrant(t) PROVE WinlatorInv'
    <2> DEFINE step == [at |-> "revalidate", folder |-> granted, found |-> thread[t].found]
    <2>1. step.at = "revalidate" /\ step.found = thread[t].found /\ W!Goto(t, step)
        BY <1>4 DEF W!ReadGrant
    <2> HIDE DEF step
    <2> QED
        BY <1>1, <1>3, <2>1
<1>5. ASSUME W!Revalidate(t) PROVE WinlatorInv'
    <2> DEFINE same == W!Unchanged(thread[t].folder, thread[t].found)
               found == W!Restrict(thread[t].found, same)
               step == [at |-> "commit", found |-> found]
    <2>1. W!IsListing(found) /\ Picked(found, agreed)
        BY <1>1 DEF W!Unchanged, W!Restrict, W!IsListing, Picked
    <2>2. step.at = "commit" /\ step.found = found /\ W!Goto(t, step)
        BY <1>5 DEF W!Revalidate
    <2> HIDE DEF step, found
    <2> QED
        BY <1>3, <2>1, <2>2
<1> QED
    BY <1>4, <1>5

\* A thread ends and the lists are left alone: what the profile is left with decides.
LEMMA WinlatorWrites ==
    ASSUME WinlatorInv, NEW t \in Threads, NEW step, W!Goto(t, step),
           Carried(step, tokens, agreed),
           UNCHANGED <<disk, edits, preview, tokens, shown, agreed, inFlight, cancelled, pass>>,
           granted' \in Folders \cup {None},
           DOMAIN inventory' \subseteq W!Paths, cards' \subseteq DOMAIN inventory',
           \A path \in DOMAIN inventory' :
               <<path, inventory'[path]>> \in agreed /\ W!FolderOf(path) = granted'
    PROVE  WinlatorInv'
<1>1. tokens \in Nat /\ agreed \subseteq W!Paths \X Versions
    BY DEF WinlatorInv, W!TypeOK
<1>2. CarriedInv'
    BY <1>1, CarrierMoves DEF WinlatorInv
<1>3. \A u \in Threads : W!Idle(u)' \/ thread'[u].at \in WinlatorPlaces
    BY <1>2 DEF CarriedInv, Carried, W!Idle
<1>4. W!IsListing(inventory')
    BY <1>1 DEF W!IsListing
<1>5. W!TypeOK'
    BY <1>3, <1>4 DEF WinlatorInv, W!TypeOK, W!IsListing, WinlatorPlaces
<1>6. ShownInv' /\ W!ImportedWasPicked' /\ W!CardsInsideGrant'
    BY DEF WinlatorInv, ShownInv, W!ImportedWasPicked, W!CardsInsideGrant
<1> QED
    BY <1>2, <1>5, <1>6 DEF WinlatorInv

\* Point: what lies outside the new folder goes, and the cards that stand on it.
LEMMA WinlatorPoints ==
    ASSUME WinlatorInv, NEW t \in Threads, W!Point(t)
    PROVE  WinlatorInv'
<1>1. /\ thread[t].folder \in Folders
      /\ UNCHANGED <<disk, edits, preview, tokens, shown, agreed, inFlight, cancelled, pass>>
    BY DEF W!Point, W!At, W!Idle, W!adoption, WinlatorInv, CarriedInv, Carried
<1>2. ASSUME W!Goto(t, None), UNCHANGED W!profile PROVE WinlatorInv'
    <2>1. Carried(None, tokens, agreed)
        BY DEF Carried
    <2>2. /\ granted' \in Folders \cup {None} /\ DOMAIN inventory' \subseteq W!Paths
          /\ cards' \subseteq DOMAIN inventory'
          /\ \A path \in DOMAIN inventory' :
                <<path, inventory'[path]>> \in agreed /\ W!FolderOf(path) = granted'
        BY <1>2 DEF W!profile, WinlatorInv, W!TypeOK, W!IsListing, W!ImportedWasPicked,
                    W!CardsInsideGrant
    <2> QED
        BY <1>1, <1>2, <2>1, <2>2, WinlatorWrites
<1>3. ASSUME NEW to \in Folders, NEW kept,
             kept = {path \in DOMAIN inventory : W!FolderOf(path) = to},
             granted' = to, inventory' = W!Restrict(inventory, kept), cards' = cards \cap kept,
             W!Goto(t, [at |-> "profile"])
      PROVE  WinlatorInv'
    <2>1. Carried([at |-> "profile"], tokens, agreed)
        BY DEF Carried, WinlatorPlaces
    <2>2. /\ DOMAIN inventory' = kept /\ kept \subseteq DOMAIN inventory
          /\ \A path \in kept : inventory'[path] = inventory[path] /\ W!FolderOf(path) = to
        BY <1>3 DEF W!Restrict
    <2>3. /\ granted' \in Folders \cup {None} /\ DOMAIN inventory' \subseteq W!Paths
          /\ cards' \subseteq DOMAIN inventory'
          /\ \A path \in DOMAIN inventory' :
                <<path, inventory'[path]>> \in agreed /\ W!FolderOf(path) = granted'
        BY <1>3, <2>2 DEF WinlatorInv, W!TypeOK, W!IsListing, W!ImportedWasPicked
    <2> QED
        BY <1>1, <1>3, <2>1, <2>3, WinlatorWrites
<1> QED
    BY <1>1, <1>2, <1>3 DEF W!Point

\* Commit: what is written was agreed to, and lies in the folder of the moment.
LEMMA WinlatorCommits ==
    ASSUME WinlatorInv, NEW t \in Threads, W!Commit(t)
    PROVE  WinlatorInv'
<1>1. /\ W!IsListing(thread[t].found) /\ Picked(thread[t].found, agreed)
      /\ UNCHANGED <<disk, edits, preview, tokens, shown, agreed, inFlight, cancelled, pass>>
      /\ W!Goto(t, None) /\ Carried(None, tokens, agreed)
    BY DEF W!Commit, W!At, W!Idle, W!adoption, WinlatorInv, CarriedInv, Carried
<1>2. CASE UNCHANGED W!profile
    <2>1. /\ granted' \in Folders \cup {None} /\ DOMAIN inventory' \subseteq W!Paths
          /\ cards' \subseteq DOMAIN inventory'
          /\ \A path \in DOMAIN inventory' :
                <<path, inventory'[path]>> \in agreed /\ W!FolderOf(path) = granted'
        BY <1>2 DEF W!profile, WinlatorInv, W!TypeOK, W!IsListing, W!ImportedWasPicked,
                    W!CardsInsideGrant
    <2> QED
        BY <1>1, <2>1, WinlatorWrites
<1>3. CASE ~UNCHANGED W!profile
    <2> DEFINE found == thread[t].found
               imported == {path \in DOMAIN found : W!InScope(path)}
    <2>1. /\ inventory' = [path \in DOMAIN inventory \cup imported |->
                               IF path \in imported THEN found[path] ELSE inventory[path]]
          /\ cards' = cards \cup imported /\ UNCHANGED granted
        BY <1>3 DEF W!Commit
    <2>2. \A path \in imported :
            path \in W!Paths /\ <<path, found[path]>> \in agreed /\ W!FolderOf(path) = granted
        BY <1>1 DEF W!InScope, W!IsListing, Picked
    <2> HIDE DEF found, imported
    <2>3. /\ DOMAIN inventory' = DOMAIN inventory \cup imported
          /\ \A path \in imported : inventory'[path] = found[path]
          /\ \A path \in DOMAIN inventory \ imported : inventory'[path] = inventory[path]
        BY <2>1
    <2>4. /\ granted' \in Folders \cup {None} /\ DOMAIN inventory' \subseteq W!Paths
          /\ cards' \subseteq DOMAIN inventory'
        BY <2>1, <2>2, <2>3 DEF WinlatorInv, W!TypeOK, W!IsListing, W!CardsInsideGrant
    <2>5. \A path \in DOMAIN inventory' :
            <<path, inventory'[path]>> \in agreed /\ W!FolderOf(path) = granted'
        BY <2>1, <2>2, <2>3 DEF WinlatorInv, W!ImportedWasPicked, W!CardsInsideGrant
    <2> QED
        BY <1>1, <2>4, <2>5, WinlatorWrites
<1> QED
    BY <1>2, <1>3

\* StorePreview: the list is shown under the token it is stored with.
LEMMA WinlatorStores ==
    ASSUME WinlatorInv, NEW t \in Threads, W!StorePreview(t)
    PROVE  WinlatorInv'
<1>1. /\ tokens \in Nat /\ thread[t].token \in 1..tokens /\ W!IsListing(thread[t].found)
      /\ W!Goto(t, None) /\ Carried(None, tokens', agreed')
      /\ UNCHANGED <<disk, edits, W!profile, tokens, agreed, inFlight, cancelled, pass>>
    BY DEF W!StorePreview, W!At, W!Idle, W!adoption, WinlatorInv, W!TypeOK, CarriedInv, Carried
<1>2. UNCHANGED <<granted, inventory, cards>>
    BY <1>1 DEF W!profile
<1>3. preview'.token = thread[t].token /\ preview'.found = thread[t].found
    BY DEF W!StorePreview
<1>4. /\ DOMAIN shown' = DOMAIN shown \cup {thread[t].token}
      /\ shown'[thread[t].token] = thread[t].found
      /\ \A k \in DOMAIN shown \ {thread[t].token} : shown'[k] = shown[k]
    BY DEF W!StorePreview
<1>5. CarriedInv'
    BY <1>1, CarrierMoves DEF WinlatorInv
<1>6. ShownInv'
    BY <1>3, <1>4 DEF ShownInv
<1>7. W!TypeOK'
    <2>1. \A u \in Threads : W!Idle(u)' \/ thread'[u].at \in WinlatorPlaces
        BY <1>5 DEF CarriedInv, Carried, W!Idle
    <2>2. preview'.token \in 0..tokens' /\ W!IsListing(preview'.found)
        BY <1>1, <1>3
    <2>3. /\ DOMAIN shown' \subseteq 1..tokens'
          /\ \A token \in DOMAIN shown' : W!IsListing(shown'[token])
        BY <1>1, <1>4 DEF WinlatorInv, W!TypeOK
    <2> QED
        BY <1>1, <1>2, <2>1, <2>2, <2>3
           DEF WinlatorInv, W!TypeOK, W!IsListing, WinlatorPlaces
<1>8. W!ImportedWasPicked' /\ W!CardsInsideGrant'
    BY <1>1, <1>2 DEF WinlatorInv, W!ImportedWasPicked, W!CardsInsideGrant
<1> QED
    BY <1>5, <1>6, <1>7, <1>8 DEF WinlatorInv

\* Write, and the background pass: neither is anybody's evidence.
LEMMA WinlatorAround ==
    ASSUME W!BoundsAssumption, WinlatorInv,
           W!Pass \/ \E path \in W!Paths : W!Write(path)
    PROVE  WinlatorInv'
<1>1. UNCHANGED <<granted, inventory, cards, preview, tokens, thread, shown, agreed>>
    BY DEF W!Pass, W!PassEnter, W!PassClear, W!PassEnd, W!Write, W!profile
<1>2. W!IsListing(disk)' /\ edits' \in 0..MaxEdits
    <2>1. CASE W!Pass
        BY <2>1 DEF W!Pass, W!PassEnter, W!PassClear, W!PassEnd, WinlatorInv, W!TypeOK,
                    W!IsListing
    <2>2. ASSUME NEW path \in W!Paths, W!Write(path)
          PROVE  W!IsListing(disk)' /\ edits' \in 0..MaxEdits
        <3>1. edits' \in 0..MaxEdits
            BY <2>2 DEF W!Write, W!BoundsAssumption, WinlatorInv, W!TypeOK
        <3>2. W!IsListing(disk)'
            BY <2>2 DEF W!Write, W!Restrict, W!IsListing, WinlatorInv, W!TypeOK
        <3> QED
            BY <3>1, <3>2
    <2> QED
        BY <2>1, <2>2
<1>3. /\ inFlight' \in BOOLEAN /\ cancelled' \in BOOLEAN
      /\ pass' \in {"spawned", "entered", "walking", "ended"}
    BY DEF W!Pass, W!PassEnter, W!PassClear, W!PassEnd, W!Write, W!adoption, WinlatorInv,
           W!TypeOK
<1>4. W!TypeOK'
    BY <1>1, <1>2, <1>3 DEF WinlatorInv, W!TypeOK, W!IsListing, W!Idle
<1>5. CarriedInv' /\ ShownInv' /\ W!ImportedWasPicked' /\ W!CardsInsideGrant'
    BY <1>1 DEF WinlatorInv, CarriedInv, ShownInv, W!ImportedWasPicked, W!CardsInsideGrant
<1> QED
    BY <1>4, <1>5 DEF WinlatorInv

\* Nothing is connected, listed or imported.
LEMMA WinlatorInit ==
    ASSUME W!BoundsAssumption, W!Init
    PROVE  WinlatorInv
<1>1. /\ W!IsListing(disk) /\ edits \in 0..MaxEdits /\ 0 \in 0..MaxTokens
      /\ pass \in {"spawned", "entered", "walking", "ended"}
    BY DEF W!BoundsAssumption, W!Init, W!IsListing, W!Paths
<1>2. preview.token = 0 /\ preview.found = <<>> /\ DOMAIN shown = {} /\ DOMAIN inventory = {}
    BY DEF W!Init
<1>3. W!IsListing(preview.found) /\ W!IsListing(inventory)
    BY <1>2 DEF W!IsListing
<1>4. /\ granted = None /\ tokens = 0 /\ cards = {} /\ agreed = {} /\ preview.token \in 0..tokens
      /\ inFlight \in BOOLEAN /\ cancelled \in BOOLEAN /\ \A t \in Threads : W!Idle(t)
    <2>1. granted = None /\ tokens = 0 /\ cards = {} /\ agreed = {}
        BY DEF W!Init
    <2>2. inFlight \in BOOLEAN /\ cancelled \in BOOLEAN
        BY DEF W!Init
    <2>3. \A t \in Threads : W!Idle(t)
        BY DEF W!Init, W!Idle
    <2> QED
        BY <1>2, <2>1, <2>2, <2>3
<1>5. W!TypeOK
    BY <1>1, <1>2, <1>3, <1>4 DEF W!TypeOK
<1>6. CarriedInv
    BY DEF W!Init, CarriedInv, Carried
<1>7. ShownInv /\ W!ImportedWasPicked /\ W!CardsInsideGrant
    BY <1>2, <1>4 DEF ShownInv, W!ImportedWasPicked, W!CardsInsideGrant
<1> QED
    BY <1>5, <1>6, <1>7 DEF WinlatorInv

\* Every step keeps the invariant.
LEMMA WinlatorNext ==
    ASSUME W!BoundsAssumption, WinlatorInv, [W!Next]_(W!vars)
    PROVE  WinlatorInv'
<1>1. CASE UNCHANGED W!vars
    <2>1. UNCHANGED <<disk, edits, granted, inventory, cards, preview, tokens, thread, shown,
                      agreed, inFlight, cancelled, pass>>
        BY <1>1 DEF W!vars, W!profile, W!adoption
    <2>2. W!TypeOK'
        BY <2>1 DEF WinlatorInv, W!TypeOK, W!IsListing, W!Idle
    <2>3. CarriedInv' /\ ShownInv' /\ W!ImportedWasPicked' /\ W!CardsInsideGrant'
        BY <2>1 DEF WinlatorInv, CarriedInv, ShownInv, W!ImportedWasPicked, W!CardsInsideGrant
    <2> QED
        BY <2>2, <2>3 DEF WinlatorInv
<1>2. ASSUME NEW t \in Threads,
             \/ W!Review(t) \/ W!Waited(t) \/ W!Point(t) \/ W!ReadProfile(t) \/ W!Scan(t)
             \/ W!TakeToken(t) \/ W!StorePreview(t)
             \/ W!Import(t) \/ W!ReadGrant(t) \/ W!Revalidate(t) \/ W!Commit(t)
      PROVE  WinlatorInv'
    BY <1>2, WinlatorReviews, WinlatorPoints, WinlatorTakes, WinlatorStores, WinlatorImports,
       WinlatorChecks, WinlatorCommits
<1>3. CASE W!Pass \/ \E path \in W!Paths : W!Write(path)
    BY <1>3, WinlatorAround
<1> QED
    BY <1>1, <1>2, <1>3 DEF W!Next

\* Reviews and imports in any number and order, beside any edits and the pass of the
\* start: whatever a thread carries to the library was agreed to.
THEOREM WinlatorInvariant ==
    ASSUME W!BoundsAssumption
    PROVE  W!Spec => []WinlatorInv
<1>1. W!Init => WinlatorInv
    BY WinlatorInit
<1>2. WinlatorInv /\ [W!Next]_(W!vars) => WinlatorInv'
    BY WinlatorNext
<1> QED
    BY <1>1, <1>2, PTL DEF W!Spec

\* What became a card was picked, in its version, from a list that named it, and no
\* card is outside the folder the profile of Winlator points at.
THEOREM ShortcutsWerePicked ==
    ASSUME W!BoundsAssumption
    PROVE  W!Spec => [](W!TypeOK /\ W!ImportedWasPicked /\ W!CardsInsideGrant)
<1>1. WinlatorInv => W!TypeOK /\ W!ImportedWasPicked /\ W!CardsInsideGrant
    BY DEF WinlatorInv
<1> QED
    BY <1>1, WinlatorInvariant, PTL

------------------------------------------------------------------------------
(* PluginIndex *)

\* Which inodes may be named, and what they hold.
FilesSound ==
    /\ DOMAIN inodes = X!Inodes /\ \A i \in X!Inodes : inodes[i] \in Nat
    /\ cache \in X!Inodes \cup {None} /\ temporary \in X!Inodes \cup {None}
    /\ temporary # None => temporary # cache

\* What a refresh that runs alone knows: what it is to write is no older than what the
\* cache holds, and nobody else writes to its file.
AloneSound(r) ==
    /\ \A q \in Refreshes \ {r} : X!At(q, "idle")
    /\ X!At(r, "create") => refresh[r].sequence \in Nat /\ refresh[r].sequence >= X!Loaded
    /\ X!At(r, "fill") =>
        /\ refresh[r].sequence \in Nat /\ refresh[r].sequence >= X!Loaded
        /\ refresh[r].inode = temporary /\ temporary # None /\ inodes[temporary] = 0
    /\ X!At(r, "rename") /\ temporary # None => inodes[temporary] >= X!Loaded

RefreshSound(r) ==
    /\ X!At(r, "fill") => refresh[r].inode \in X!Inodes /\ refresh[r].sequence \in Nat
    /\ X!At(r, "create") => refresh[r].sequence \in Nat
    /\ X!At(r, "fetched") => refresh[r].sequence \in Nat
    /\ ~X!At(r, "idle") /\ r \notin overlapped => AloneSound(r)

IndexInv ==
    /\ published \in Nat /\ FilesSound
    /\ DOMAIN refresh = Refreshes /\ overlapped \subseteq Refreshes
    /\ \A r \in Refreshes : RefreshSound(r)

LEMMA LoadedType ==
    ASSUME FilesSound, X!SequencesAssumption
    PROVE  /\ X!Read(cache) \in Nat /\ X!Loaded \in Nat /\ X!Loaded <= X!Read(cache)
           /\ X!Floor \in Nat /\ X!Loaded <= X!Floor
BY DEF FilesSound, X!SequencesAssumption, X!Loaded, X!Read, X!Floor

\* The cardinality of the standard module, as the instance has it.
LEMMA SizeIs == \A S : X!Cardinality(S) = Cardinality(S) /\ X!IsFiniteSet(S) = IsFiniteSet(S)
BY DEF X!Cardinality, Cardinality, X!IsFiniteSet, IsFiniteSet

\* Writers are fewer than inodes.
LEMMA FreeInode ==
    ASSUME X!SequencesAssumption
    PROVE  \E i \in X!Inodes : /\ i # cache
                             /\ \A q \in Refreshes : X!At(q, "fill") => refresh[q].inode # i
<1> DEFINE f == [q \in Refreshes |-> refresh[q].inode]
           used == {refresh[q].inode : q \in Refreshes}
           n == Cardinality(Refreshes)
<1>1. IsFiniteSet(Refreshes) /\ n \in Nat
    BY SizeIs, FS_CardinalityType DEF X!SequencesAssumption
<1>2. f \in Surjection(Refreshes, used)  BY DEF Surjection
<1>3. IsFiniteSet(used) /\ Cardinality(used) <= n /\ Cardinality(used) \in Nat
    BY <1>1, <1>2, FS_Surjection, FS_CardinalityType
<1>4. IsFiniteSet(used \cup {cache}) /\ Cardinality(used \cup {cache}) <= n + 1
  <2> HIDE DEF used, n
  <2>1. /\ IsFiniteSet(used \cup {cache})
        /\ Cardinality(used \cup {cache})
             = IF cache \in used THEN Cardinality(used) ELSE Cardinality(used) + 1
      BY <1>3, FS_AddElement
  <2> QED  BY <1>1, <1>3, <2>1
<1>5. IsFiniteSet(1..(n + 2)) /\ Cardinality(1..(n + 2)) = n + 2
  <2>1. 1 \in Int /\ n + 2 \in Int /\ ~(1 > n + 2) /\ n + 2 - 1 + 1 = n + 2  BY <1>1
  <2> QED  BY <2>1, FS_Interval
<1>6. \E i \in 1..(n + 2) : i \notin used \cup {cache}
  <2> SUFFICES ASSUME 1..(n + 2) \subseteq used \cup {cache}  PROVE FALSE
    OBVIOUS
  <2>1. Cardinality(1..(n + 2)) <= Cardinality(used \cup {cache})  BY <1>4, FS_Subset
  <2>2. Cardinality(used \cup {cache}) \in Nat  BY <1>4, FS_CardinalityType
  <2> QED  BY <1>1, <1>4, <1>5, <2>1, <2>2
<1> QED  BY <1>6, SizeIs DEF X!Inodes

\* A step of one refresh changes nothing another relies on: they overlap.
LEMMA StepSound ==
    ASSUME IndexInv, NEW r \in Refreshes, ~X!At(r, "idle"), NEW step, X!Goto(r, step),
           overlapped' \in {overlapped, overlapped \ {r}}, published' = published,
           FilesSound', RefreshSound(r)'
    PROVE  IndexInv'
<1>1. DOMAIN refresh' = Refreshes /\ \A d \in Refreshes \ {r} : refresh'[d] = refresh[d]
    BY DEF X!Goto, IndexInv
<1>2. overlapped' \subseteq Refreshes  BY DEF IndexInv
<1>3. ASSUME NEW d \in Refreshes \ {r}  PROVE RefreshSound(d)'
  <2>1. refresh'[d] = refresh[d] /\ RefreshSound(d)  BY <1>1 DEF IndexInv
  <2>2. X!At(d, "idle") \/ d \in overlapped  BY <2>1 DEF RefreshSound, AloneSound
  <2>3. X!At(d, "idle")' \/ d \in overlapped'  BY <2>1, <2>2 DEF X!At
  <2> QED  BY <2>1, <2>3 DEF RefreshSound, X!At
<1> QED  BY <1>1, <1>2, <1>3 DEF IndexInv

LEMMA AloneStays ==
    ASSUME IndexInv, NEW r \in Refreshes, ~X!At(r, "idle"), r \notin overlapped,
           NEW step, X!Goto(r, step)
    PROVE  AloneSound(r) /\ \A q \in Refreshes \ {r} : X!At(q, "idle")'
BY DEF IndexInv, RefreshSound, AloneSound, X!Goto, X!At

LEMMA SameFiles ==
    ASSUME UNCHANGED X!files
    PROVE  /\ FilesSound => FilesSound'
           /\ X!Read(cache)' = X!Read(cache)
           /\ expired' = expired => X!Loaded' = X!Loaded
BY DEF X!files, FilesSound, X!Read, X!Loaded

LEMMA OverSound ==
    ASSUME IndexInv, NEW r \in Refreshes, ~X!At(r, "idle"), X!Over(r), published' = published,
           FilesSound'
    PROVE  IndexInv'
<1>1. refresh'[r] = X!Idle  BY DEF X!Over, X!Goto, IndexInv
<1>2. RefreshSound(r)'  BY <1>1 DEF RefreshSound, X!At, X!Idle
<1> QED  BY <1>2, StepSound DEF X!Over

LEMMA BeginIndex ==
    ASSUME IndexInv, NEW r \in Refreshes, X!Begin(r)
    PROVE  IndexInv'
<1>1. FilesSound' /\ X!Loaded' = X!Loaded /\ inodes' = inodes /\ temporary' = temporary
      /\ published' = published
    BY SameFiles DEF X!Begin, IndexInv, X!files
<1>2. CASE UNCHANGED <<refresh, overlapped>>
  <2>1. \A d \in Refreshes : RefreshSound(d)'
      BY <1>1, <1>2 DEF IndexInv, RefreshSound, AloneSound, X!At
  <2> QED  BY <1>1, <1>2, <2>1 DEF IndexInv
<1>3. CASE X!Goto(r, [at |-> "ask"])
            /\ overlapped' = overlapped \cup
                 (IF {q \in Refreshes \ {r} : ~X!At(q, "idle")} = {} THEN {}
                  ELSE {q \in Refreshes \ {r} : ~X!At(q, "idle")} \cup {r})
  <2>1. /\ DOMAIN refresh' = Refreshes /\ refresh'[r] = [at |-> "ask"]
        /\ \A d \in Refreshes \ {r} : refresh'[d] = refresh[d]
      BY <1>3 DEF X!Goto, IndexInv
  <2>2. overlapped' \subseteq Refreshes /\ overlapped \subseteq overlapped'
      BY <1>3 DEF IndexInv
  <2>3. RefreshSound(r)'
    <3>1. r \notin overlapped' => \A q \in Refreshes \ {r} : X!At(q, "idle")'
        BY <1>3, <2>1 DEF X!At
    <3> QED  BY <2>1, <3>1 DEF RefreshSound, AloneSound, X!At
  <2>4. ASSUME NEW d \in Refreshes \ {r}  PROVE RefreshSound(d)'
    <3>1. X!At(d, "idle")' \/ d \in overlapped'  BY <1>3, <2>1 DEF X!At
    <3>2. RefreshSound(d) /\ refresh'[d] = refresh[d]  BY <2>1 DEF IndexInv
    <3> QED  BY <3>1, <3>2 DEF RefreshSound, X!At
  <2> QED  BY <1>1, <2>1, <2>2, <2>3, <2>4 DEF IndexInv
<1> QED  BY <1>2, <1>3 DEF X!Begin

LEMMA AskIndex ==
    ASSUME IndexInv, NEW r \in Refreshes, X!Ask(r)
    PROVE  IndexInv'
<1>1. ~X!At(r, "idle") /\ X!Goto(r, [at |-> "answer", tag |-> X!Read(cache)])
      /\ overlapped' = overlapped /\ published' = published /\ UNCHANGED X!files
    BY DEF X!Ask, X!At, X!files
<1>2. FilesSound'  BY <1>1, SameFiles DEF IndexInv
<1>3. refresh'[r].at = "answer"  BY <1>1 DEF X!Goto, IndexInv
<1>4. r \notin overlapped => AloneSound(r)'
    BY <1>1, <1>3, AloneStays DEF AloneSound, X!At
<1>5. RefreshSound(r)'  BY <1>1, <1>3, <1>4 DEF RefreshSound, X!At
<1> QED  BY <1>1, <1>2, <1>5, StepSound

LEMMA AnswerIndex ==
    ASSUME IndexInv, NEW r \in Refreshes, X!Answer(r)
    PROVE  IndexInv'
<1>1. ~X!At(r, "idle") /\ published' = published /\ FilesSound'
    BY SameFiles DEF X!Answer, X!At, IndexInv
<1>2. CASE X!Over(r)  BY <1>1, <1>2, OverSound
<1>3. CASE X!Goto(r, [at |-> "touch"]) /\ overlapped' = overlapped
  <2>1. refresh'[r].at = "touch"  BY <1>3 DEF X!Goto, IndexInv
  <2>2. r \notin overlapped => AloneSound(r)'
      BY <1>1, <1>3, <2>1, AloneStays DEF AloneSound, X!At
  <2>3. RefreshSound(r)'  BY <1>3, <2>1, <2>2 DEF RefreshSound, X!At
  <2> QED  BY <1>1, <1>3, <2>3, StepSound
<1>4. CASE \E sequence \in 1..published :
            X!Goto(r, [at |-> "fetched", sequence |-> sequence]) /\ overlapped' = overlapped
  <2>1. PICK sequence \in 1..published :
            X!Goto(r, [at |-> "fetched", sequence |-> sequence]) /\ overlapped' = overlapped
      BY <1>4
  <2>2. refresh'[r].at = "fetched" /\ refresh'[r].sequence = sequence /\ sequence \in Nat
      BY <2>1 DEF X!Goto, IndexInv
  <2>3. r \notin overlapped => AloneSound(r)'
      BY <1>1, <2>1, <2>2, AloneStays DEF AloneSound, X!At
  <2>4. RefreshSound(r)'  BY <2>1, <2>2, <2>3 DEF RefreshSound, X!At
  <2> QED  BY <1>1, <2>1, <2>4, StepSound
<1> QED  BY <1>2, <1>3, <1>4 DEF X!Answer

\* What is taken to be written is no older than the cache.
LEMMA TakenIndex ==
    ASSUME IndexInv, X!SequencesAssumption, NEW r \in Refreshes, ~X!At(r, "idle"),
           NEW sequence \in Nat, sequence >= X!Loaded,
           X!Goto(r, [at |-> "create", sequence |-> sequence]),
           UNCHANGED <<published, expired, X!files, overlapped>>
    PROVE  IndexInv'
<1>1. FilesSound' /\ X!Loaded' = X!Loaded  BY SameFiles DEF IndexInv, X!files
<1>2. refresh'[r].at = "create" /\ refresh'[r].sequence = sequence  BY DEF X!Goto, IndexInv
<1>3. r \notin overlapped => AloneSound(r)'
    BY <1>1, <1>2, AloneStays DEF AloneSound, X!At
<1>4. RefreshSound(r)'  BY <1>2, <1>3 DEF RefreshSound, X!At
<1> QED  BY <1>1, <1>4, StepSound

LEMMA AcceptIndex ==
    ASSUME IndexInv, X!SequencesAssumption, NEW r \in Refreshes, X!Accept(r)
    PROVE  IndexInv'
<1>1. ~X!At(r, "idle") /\ published' = published /\ FilesSound' /\ X!At(r, "fetched")
    BY SameFiles DEF X!Accept, X!At, IndexInv
<1>2. CASE X!Over(r)  BY <1>1, <1>2, OverSound
<1>3. CASE /\ ~(refresh[r].sequence < X!Floor)
           /\ X!Goto(r, [at |-> "create", sequence |-> refresh[r].sequence])
           /\ overlapped' = overlapped
  <2>1. refresh[r].sequence \in Nat  BY <1>1 DEF IndexInv, RefreshSound
  <2>2. refresh[r].sequence >= X!Loaded  BY <1>3, <2>1, LoadedType DEF IndexInv
  <2> QED  BY <1>1, <1>3, <2>1, <2>2, TakenIndex DEF X!Accept, X!files
<1> QED  BY <1>2, <1>3 DEF X!Accept

LEMMA TouchIndex ==
    ASSUME IndexInv, X!SequencesAssumption, NEW r \in Refreshes, X!Touch(r)
    PROVE  IndexInv'
<1>1. ~X!At(r, "idle") /\ published' = published /\ FilesSound'
    BY SameFiles DEF X!Touch, X!At, IndexInv
<1>2. CASE X!Over(r)  BY <1>1, <1>2, OverSound
<1>3. CASE X!Goto(r, [at |-> "create", sequence |-> X!Read(cache)]) /\ overlapped' = overlapped
  <2>1. X!Read(cache) \in Nat /\ X!Read(cache) >= X!Loaded  BY LoadedType DEF IndexInv
  <2> QED  BY <1>1, <1>3, <2>1, TakenIndex DEF X!Touch, X!files
<1> QED  BY <1>2, <1>3 DEF X!Touch

LEMMA CreateIndex ==
    ASSUME IndexInv, X!SequencesAssumption, NEW r \in Refreshes, X!Create(r)
    PROVE  IndexInv'
<1> DEFINE inode == IF temporary # None THEN temporary
                    ELSE CHOOSE i \in X!Inodes : i # cache
                            /\ \A q \in Refreshes : X!At(q, "fill") => refresh[q].inode # i
<1>1. /\ temporary' = inode /\ inodes' = [inodes EXCEPT ![inode] = 0]
      /\ X!Goto(r, [at |-> "fill", sequence |-> refresh[r].sequence, inode |-> inode])
      /\ cache' = cache /\ expired' = expired /\ overlapped' = overlapped
      /\ published' = published /\ X!At(r, "create") /\ ~X!At(r, "idle")
    BY DEF X!Create, X!At
<1>2. inode \in X!Inodes /\ inode # cache
    BY FreeInode DEF IndexInv, FilesSound
<1>3. None \notin X!Inodes  BY DEF X!SequencesAssumption, X!Inodes
<1> HIDE DEF inode
<1>4. FilesSound /\ RefreshSound(r)  BY DEF IndexInv
<1>5. /\ DOMAIN inodes' = X!Inodes /\ inodes'[inode] = 0
      /\ \A i \in X!Inodes : i # inode => inodes'[i] = inodes[i]
    BY <1>1, <1>2, <1>4 DEF FilesSound
<1>6. FilesSound'  BY <1>1, <1>2, <1>4, <1>5 DEF FilesSound
<1>7. X!Read(cache)' = X!Read(cache) /\ X!Loaded' = X!Loaded
    BY <1>1, <1>2, <1>4, <1>5 DEF FilesSound, X!Read, X!Loaded
<1>8. /\ refresh'[r].at = "fill" /\ refresh'[r].sequence = refresh[r].sequence
      /\ refresh'[r].inode = inode /\ refresh[r].sequence \in Nat
    BY <1>1, <1>4 DEF X!Goto, IndexInv, RefreshSound
<1>9. r \notin overlapped => AloneSound(r)'
  <2> SUFFICES ASSUME r \notin overlapped  PROVE AloneSound(r)'
    OBVIOUS
  <2>1. AloneSound(r) /\ \A q \in Refreshes \ {r} : X!At(q, "idle")'  BY <1>1, AloneStays
  <2> QED  BY <1>1, <1>2, <1>3, <1>5, <1>7, <1>8, <2>1 DEF AloneSound, X!At
<1>10. RefreshSound(r)'  BY <1>1, <1>2, <1>8, <1>9 DEF RefreshSound, X!At
<1> QED  BY <1>1, <1>6, <1>10, StepSound

LEMMA FillIndex ==
    ASSUME IndexInv, X!SequencesAssumption, NEW r \in Refreshes, X!Fill(r)
    PROVE  IndexInv'
<1> DEFINE inode == refresh[r].inode
<1>1. /\ X!At(r, "fill") /\ ~X!At(r, "idle") /\ X!Goto(r, [at |-> "rename"])
      /\ cache' = cache /\ temporary' = temporary /\ expired' = expired
      /\ overlapped' = overlapped /\ published' = published
    BY DEF X!Fill, X!At
<1>2. FilesSound /\ inode \in X!Inodes /\ refresh[r].sequence \in Nat
    BY <1>1 DEF IndexInv, RefreshSound
<1>3. PICK content \in {refresh[r].sequence} \cup (IF inodes[inode] = 0 THEN {} ELSE {0}) :
            inodes' = [inodes EXCEPT ![inode] = content]
    BY DEF X!Fill
<1>4. /\ DOMAIN inodes' = X!Inodes /\ inodes'[inode] = content /\ content \in Nat
      /\ \A i \in X!Inodes : i # inode => inodes'[i] = inodes[i]
    BY <1>2, <1>3 DEF FilesSound
<1>5. FilesSound'  BY <1>1, <1>2, <1>4 DEF FilesSound
<1>6. refresh'[r].at = "rename"  BY <1>1 DEF X!Goto, IndexInv
<1>7. r \notin overlapped => AloneSound(r)'
  <2> SUFFICES ASSUME r \notin overlapped  PROVE AloneSound(r)'
    OBVIOUS
  <2>1. AloneSound(r) /\ \A q \in Refreshes \ {r} : X!At(q, "idle")'  BY <1>1, AloneStays
  <2>2. /\ inode = temporary /\ inodes[inode] = 0 /\ temporary # None
        /\ refresh[r].sequence >= X!Loaded
      BY <1>1, <2>1 DEF AloneSound
  <2>3. content = refresh[r].sequence  BY <1>3, <2>2
  <2>4. X!Loaded' = X!Loaded
      BY <1>1, <1>2, <1>4, <2>2 DEF FilesSound, X!Read, X!Loaded
  <2>5. inodes'[temporary'] >= X!Loaded'  BY <1>1, <1>4, <2>2, <2>3, <2>4
  <2> QED  BY <1>6, <2>1, <2>5 DEF AloneSound, X!At
<1>8. RefreshSound(r)'  BY <1>1, <1>6, <1>7 DEF RefreshSound, X!At
<1> QED  BY <1>1, <1>5, <1>8, StepSound

LEMMA RenameIndex ==
    ASSUME IndexInv, NEW r \in Refreshes, X!Rename(r)
    PROVE  IndexInv'
<1>1. ~X!At(r, "idle") /\ published' = published /\ X!Over(r)
    BY DEF X!Rename, X!At
<1>2. FilesSound'  BY DEF X!Rename, IndexInv, FilesSound
<1> QED  BY <1>1, <1>2, OverSound

LEMMA WorldIndex ==
    ASSUME IndexInv, X!SequencesAssumption,
           \/ X!Publish \/ X!Age \/ X!Cancel \/ \E sequence \in 1..Latest : X!Expire(sequence)
           \/ UNCHANGED X!vars
    PROVE  IndexInv'
<1>1. UNCHANGED X!files /\ refresh' = refresh /\ overlapped' = overlapped /\ published' \in Nat
      /\ expired \subseteq expired'
    BY DEF X!Publish, X!Age, X!Cancel, X!Expire, X!vars, X!files, IndexInv
<1>2. FilesSound' /\ X!Read(cache)' = X!Read(cache)  BY <1>1, SameFiles DEF IndexInv
<1>3. X!Loaded' <= X!Loaded /\ X!Loaded' \in Nat /\ X!Loaded \in Nat
    BY <1>1, <1>2, LoadedType DEF X!Loaded, IndexInv
<1>4. ASSUME NEW d \in Refreshes  PROVE RefreshSound(d)'
  <2>1. RefreshSound(d)  BY DEF IndexInv
  <2>2. AloneSound(d) => AloneSound(d)'
    <3>1. temporary # None => inodes[temporary] \in Nat  BY DEF IndexInv, FilesSound
    <3> QED  BY <1>1, <1>3, <3>1 DEF AloneSound, X!At, X!files
  <2> QED  BY <1>1, <2>1, <2>2 DEF RefreshSound, X!At
<1> QED  BY <1>1, <1>2, <1>4 DEF IndexInv

LEMMA CrashIndex ==
    ASSUME IndexInv, X!Crash
    PROVE  IndexInv'
<1>1. UNCHANGED X!files /\ published' = published /\ overlapped' = {}
      /\ refresh' = [r \in Refreshes |-> X!Idle]
    BY DEF X!Crash, X!files
<1>2. FilesSound'  BY <1>1, SameFiles DEF IndexInv
<1>3. \A r \in Refreshes : RefreshSound(r)'  BY <1>1 DEF RefreshSound, X!At, X!Idle
<1> QED  BY <1>1, <1>2, <1>3 DEF IndexInv

\* plugin_index.rs: the inductive invariant of the refreshes: one that met no other
\* carries a document no older than what the cache holds, in a file of its own.
THEOREM IndexInvariant ==
    ASSUME X!SequencesAssumption
    PROVE  X!Spec => []IndexInv
<1>1. X!Init => IndexInv
    BY DEF X!Init, IndexInv, FilesSound, RefreshSound, X!At, X!Idle, X!SequencesAssumption
<1>2. IndexInv /\ [X!Next]_(X!vars) => IndexInv'
  <2> SUFFICES ASSUME IndexInv, [X!Next]_(X!vars)  PROVE IndexInv'
    OBVIOUS
  <2>1. ASSUME NEW r \in Refreshes, X!Refresh(r)  PROVE IndexInv'
    BY <2>1, BeginIndex, AskIndex, AnswerIndex, AcceptIndex, TouchIndex, CreateIndex,
       FillIndex, RenameIndex DEF X!Refresh
  <2>2. CASE \/ X!Publish \/ X!Age \/ X!Cancel \/ \E sequence \in 1..Latest : X!Expire(sequence)
             \/ UNCHANGED X!vars
    BY <2>2, WorldIndex
  <2>3. CASE X!Crash  BY <2>3, CrashIndex
  <2> QED  BY <2>1, <2>2, <2>3 DEF X!Next
<1> QED  BY <1>1, <1>2, PTL DEF X!Spec

\* plugin_index.rs: a refresh that ran alone never replaces a document that still
\* verifies by an older one, or by one that does not parse.
THEOREM IndexGoesForward ==
    ASSUME X!SequencesAssumption
    PROVE  X!Spec => X!LoneRefreshNeverFallsBack
<1>1. IndexInv /\ [X!Next]_(X!vars) => X!NoFallBack
  <2> SUFFICES ASSUME IndexInv, [X!Next]_(X!vars), overlapped = {}
               PROVE  X!Read(cache)' >= X!Loaded
    BY DEF X!NoFallBack
  <2>1. X!Read(cache) \in Nat /\ X!Loaded \in Nat /\ X!Loaded <= X!Read(cache)
      BY LoadedType DEF IndexInv
  <2>2. CASE UNCHANGED X!files  BY <2>1, <2>2, SameFiles
  <2>3. ASSUME NEW r \in Refreshes, X!Create(r)  PROVE X!Read(cache)' >= X!Loaded
    <3> DEFINE inode == IF temporary # None THEN temporary
                    ELSE CHOOSE i \in X!Inodes : i # cache
                            /\ \A q \in Refreshes : X!At(q, "fill") => refresh[q].inode # i
    <3>1. inode \in X!Inodes /\ inode # cache  BY FreeInode DEF IndexInv, FilesSound
    <3>2. inodes' = [inodes EXCEPT ![inode] = 0] /\ cache' = cache  BY <2>3 DEF X!Create
    <3> HIDE DEF inode
    <3>3. X!Read(cache)' = X!Read(cache)  BY <3>1, <3>2 DEF X!Read, IndexInv, FilesSound
    <3> QED  BY <2>1, <3>3
  <2>4. ASSUME NEW r \in Refreshes, X!Fill(r)  PROVE X!Read(cache)' >= X!Loaded
    <3>1. X!At(r, "fill") /\ ~X!At(r, "idle") /\ cache' = cache  BY <2>4 DEF X!Fill, X!At
    <3>2. AloneSound(r) /\ FilesSound  BY <3>1 DEF IndexInv, RefreshSound
    <3>3. refresh[r].inode = temporary /\ temporary # None  BY <3>1, <3>2 DEF AloneSound
    <3>4. \E content : inodes' = [inodes EXCEPT ![refresh[r].inode] = content]
        BY <2>4 DEF X!Fill
    <3>5. X!Read(cache)' = X!Read(cache)  BY <3>1, <3>2, <3>3, <3>4 DEF X!Read, FilesSound
    <3> QED  BY <2>1, <3>5
  <2>5. ASSUME NEW r \in Refreshes, X!Rename(r)  PROVE X!Read(cache)' >= X!Loaded
    <3>1. X!At(r, "rename") /\ ~X!At(r, "idle") /\ inodes' = inodes  BY <2>5 DEF X!Rename, X!At
    <3>2. AloneSound(r) /\ FilesSound  BY <3>1 DEF IndexInv, RefreshSound
    <3>3. CASE temporary = None /\ cache' = cache
      <4>1. X!Read(cache)' = X!Read(cache)  BY <3>1, <3>3 DEF X!Read
      <4> QED  BY <2>1, <4>1
    <3>4. CASE temporary # None /\ cache' = temporary
      <4>1. X!Read(cache)' = inodes[temporary]  BY <3>1, <3>4 DEF X!Read
      <4> QED  BY <3>1, <3>2, <3>4, <4>1 DEF AloneSound
    <3> QED  BY <2>5, <3>3, <3>4 DEF X!Rename
  <2> QED
      BY <2>2, <2>3, <2>4, <2>5 DEF X!Next, X!Refresh, X!Begin, X!Ask, X!Answer, X!Accept,
         X!Touch, X!Publish, X!Age, X!Cancel, X!Crash, X!Expire, X!vars, X!files
<1> QED  BY <1>1, IndexInvariant, PTL DEF X!Spec, X!LoneRefreshNeverFallsBack
===============================================================================
