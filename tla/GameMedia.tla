------------------------------ MODULE GameMedia ------------------------------
(****************************************************************************)
(* The artwork of one game (src-tauri/src/game_media.rs, and what it writes *)
(* into the state of game_detail.rs): commands that apply an artwork, by    *)
(* downloading it if it is not saved, or import a file, beside cancels,     *)
(* dropped commands and a process that dies.                                *)
(*                                                                          *)
(* A saved file is named by its content; a byte is the unit of its size.    *)
(* Every artwork has an address, and its host may serve any content.        *)
(****************************************************************************)
EXTENDS Naturals, Sequences, FiniteSets, SequencesExt

CONSTANTS
    Requests,   \* commands of the pages
    Media,      \* artwork ids
    Contents,   \* what a host or the user may have: the names of saved files
    Size,       \* the size of each content
    Picks,      \* contents the user may import
    Quota,      \* limits.quota_bytes
    Cap,        \* limits.max_image_bytes
    Permits,    \* limits.max_concurrent_downloads
    None

SizesAssumption ==
    /\ IsFiniteSet(Requests) /\ None \notin Requests \cup Media \cup Contents
    /\ Quota \in Nat /\ Cap \in 1..Quota /\ Permits \in Nat \ {0}
    /\ Size \in [Contents -> Nat \ {0}] /\ Picks \subseteq {c \in Contents : Size[c] <= Cap}

VARIABLES
    saved,      \* the files of the media directory, oldest first
    leftovers,  \* bytes of .part files whose process is gone
    record,     \* local_file of each artwork
    imported,   \* files of imported records
    selected,   \* the artwork, or the imported file, that is shown
    request,    \* what each command is doing
    lock,       \* the command that holds the download registry across steps
    inflight,   \* registry.inflight
    reserved    \* registry.reserved_bytes

state == <<record, imported, selected>>
registry == <<lock, inflight, reserved>>
vars == <<saved, leftovers, state, request, registry>>

At(r, at) == request[r].at = at
Goto(r, step) == request' = [request EXCEPT ![r] = step]
Step(r, at) == request' = [request EXCEPT ![r].at = at]
Idle == [at |-> "idle"]

\* A transfer: of an artwork or, with no artwork, of a file to import.
Transfer(m, pick) ==
    [at |-> IF m = None THEN "reserve" ELSE "permit", media |-> m, pick |-> pick, part |-> 0,
     budget |-> 0, file |-> None, flagged |-> FALSE, gone |-> FALSE]
Transfers == {"permit", "reserve", "sweep", "transfer", "release", "publish"}
Downloading(r) == request[r].at \in Transfers /\ request[r].media # None
Imports(r) == request[r].media = None

Needed(r) == IF Imports(r) THEN Size[request[r].pick] ELSE Cap

\* The bytes of some files or transfers, counted one by one.
Bytes(of, some) == Cardinality(UNION {{x} \X (1..of[x]) : x \in some})
Parts == [r \in Requests |-> IF At(r, "transfer") THEN request[r].part ELSE 0]
Usage == Bytes(Size, ToSet(saved)) + leftovers + Bytes(Parts, Requests)

\* protected_local_files: what is shown and what was imported.
Protected == imported \cup
    IF selected \in Media THEN {record[selected]} \ {None} ELSE {}

Minus(a, b) == IF a > b THEN a - b ELSE 0

------------------------------------------------------------------------------
(* apply, download *)

\* An artwork that says where it is saved is not downloaded.
ApplySaved(r, m) ==
    /\ At(r, "idle") /\ record[m] # None
    /\ Goto(r, IF record[m] \in ToSet(saved)
               THEN [at |-> "register", media |-> m, file |-> record[m], gone |-> FALSE]
               ELSE [at |-> "refused", media |-> m])
    /\ UNCHANGED <<saved, leftovers, state, registry>>

ApplyImported(r, f) ==
    /\ At(r, "idle") /\ f \in imported /\ f \in ToSet(saved)
    /\ Goto(r, [at |-> "register", media |-> f, file |-> f, gone |-> FALSE])
    /\ UNCHANGED <<saved, leftovers, state, registry>>

\* A download that is already running is joined.
ApplyOnline(r, m) ==
    /\ At(r, "idle") /\ record[m] = None /\ lock = None
    /\ IF m \in inflight
       THEN Goto(r, [at |-> "follow", media |-> m]) /\ UNCHANGED inflight
       ELSE Goto(r, Transfer(m, None)) /\ inflight' = inflight \cup {m}
    /\ UNCHANGED <<saved, leftovers, state, lock, reserved>>

\* run_download: one of the permits, if it was not cancelled in the queue.
Permit(r) ==
    /\ At(r, "permit")
    /\ Cardinality({q \in Requests :
            Downloading(q) /\ request[q].at \in {"reserve", "sweep", "transfer", "release"}}) < Permits
    /\ Step(r, IF request[r].flagged THEN "publish" ELSE "reserve")
    /\ UNCHANGED <<saved, leftovers, state, registry>>

\* import, from the file the user picked.
Import(r, f) ==
    /\ At(r, "idle") /\ Goto(r, Transfer(None, f))
    /\ UNCHANGED <<saved, leftovers, state, registry>>

------------------------------------------------------------------------------
(* reserve_budget, prune: under the lock of the registry, which the state,  *)
(* the directory and the running downloads do not take                      *)

\* What may be swept is listed, with what is used.
Reserve(r) ==
    /\ At(r, "reserve") /\ lock = None /\ lock' = r
    /\ Goto(r, [at |-> "sweep", transfer |-> request[r], media |-> request[r].media, usage |-> Usage,
                needed |-> Needed(r), listed |-> saved, left |-> ToSet(saved) \ Protected])
    /\ UNCHANGED <<saved, leftovers, state, inflight, reserved>>

\* The state or the directory cannot be read: nothing is reserved.
Unmeasured(r) ==
    /\ At(r, "reserve") /\ lock = None
    /\ IF Imports(r) THEN Goto(r, Idle) ELSE Step(r, "publish")
    /\ UNCHANGED <<saved, leftovers, state, registry>>

Fits(sweep) == sweep.usage + sweep.needed <= Quota

\* One file at a time, the oldest first; a removal that fails is passed over.
Sweep(r) ==
    /\ At(r, "sweep")
    /\ LET sweep == request[r] IN
        \E i \in DOMAIN sweep.listed :
            LET f == sweep.listed[i]
                rest == [sweep EXCEPT !.left = @ \ {f}]
            IN  /\ ~Fits(sweep) /\ f \in sweep.left
                /\ \A k \in 1..(i - 1) : sweep.listed[k] \notin sweep.left
                /\ \/ /\ saved' = RemoveFirst(saved, f)
                      /\ Goto(r, [rest EXCEPT !.usage = Minus(@, Size[f])])
                   \/ Goto(r, rest) /\ UNCHANGED saved
    /\ UNCHANGED <<leftovers, state, registry>>

\* Mutant: the bytes promised to running transfers are free.
BudgetMeasured(sweep) == Minus(Quota, sweep.usage)

\* What is left of the quota beside what running transfers were promised.
Budget(sweep) == Minus(Minus(Quota, sweep.usage), reserved)

Reserved(r) ==
    /\ At(r, "sweep") /\ (Fits(request[r]) \/ request[r].left = {})
    /\ Goto(r, [request[r].transfer EXCEPT !.at = "transfer", !.budget = Budget(request[r])])
    /\ reserved' = reserved + request[r].needed
    /\ lock' = None
    /\ UNCHANGED <<saved, leftovers, state, inflight>>

------------------------------------------------------------------------------
(* stream_to_disk, MediaStaging *)

Receive(r) ==
    /\ At(r, "transfer") /\ ~request[r].flagged
    /\ request[r].part + 1 <= Cap /\ request[r].part + 1 <= request[r].budget
    /\ Imports(r) => request[r].part < Size[request[r].pick]
    /\ Goto(r, [request[r] EXCEPT !.part = @ + 1])
    /\ UNCHANGED <<saved, leftovers, state, registry>>

\* The size is that of a content; the rename makes it the newest file.
Finish(r) ==
    /\ At(r, "transfer") /\ ~request[r].flagged
    /\ \E f \in IF Imports(r) THEN {request[r].pick} ELSE Contents :
        /\ Size[f] = request[r].part
        /\ saved' = Append(RemoveFirst(saved, f), f)
        /\ Goto(r, [request[r] EXCEPT !.at = IF Imports(r) THEN "register" ELSE "release",
                                      !.file = f, !.part = 0, !.budget = 0])
    /\ UNCHANGED <<leftovers, state, registry>>

\* The host, the disk, a limit or a cancel ends it, and its .part goes.
Fail(r) ==
    /\ At(r, "transfer")
    /\ Goto(r, [request[r] EXCEPT !.at = "release", !.part = 0, !.budget = 0, !.flagged = FALSE])
    /\ UNCHANGED <<saved, leftovers, state, registry>>

\* Mutant: a transfer that failed keeps its promise of bytes.
ReleaseSaved(r) ==
    /\ At(r, "release") /\ lock = None
    /\ reserved' = IF request[r].file = None THEN reserved ELSE Minus(reserved, Needed(r))
    /\ IF Imports(r) THEN Goto(r, Idle) ELSE Step(r, "publish")
    /\ UNCHANGED <<saved, leftovers, state, lock, inflight>>

\* BudgetReservation::drop, and the permit.
Release(r) ==
    /\ At(r, "release") /\ lock = None
    /\ reserved' = Minus(reserved, Needed(r))
    /\ IF Imports(r) THEN Goto(r, Idle) ELSE Step(r, "publish")
    /\ UNCHANGED <<saved, leftovers, state, lock, inflight>>

------------------------------------------------------------------------------
(* InFlightLease, register_and_select_media *)

Answered(m, file) ==
    IF file = None THEN Idle ELSE [at |-> "register", media |-> m, file |-> file, gone |-> FALSE]

\* finish_download: the entry goes, and all who wait on it are answered.
Publish(r) ==
    /\ At(r, "publish") /\ lock = None
    /\ LET m == request[r].media IN
        /\ inflight' = inflight \ {m}
        /\ request' = [q \in Requests |->
             CASE q = r -> IF request[r].gone THEN Idle ELSE Answered(m, request[r].file)
               [] At(q, "follow") /\ request[q].media = m -> Answered(m, request[r].file)
               [] OTHER -> request[q]]
    /\ UNCHANGED <<saved, leftovers, state, lock, reserved>>

\* A follower's deadline.
GiveUp(r) ==
    /\ At(r, "follow") /\ Goto(r, Idle)
    /\ UNCHANGED <<saved, leftovers, state, registry>>

\* One mutation of the state, or none if it cannot be saved.  An import keeps
\* its reservation until then.
Register(r) ==
    /\ At(r, "register")
    /\ LET m == request[r].media
           file == request[r].file
       IN  \/ m = None /\ imported' = imported \cup {file} /\ UNCHANGED <<record, selected>>
           \/ m \in imported /\ selected' = m /\ UNCHANGED <<record, imported>>
           \/ /\ m \in Media /\ record' = [record EXCEPT ![m] = file] /\ selected' = m
              /\ UNCHANGED imported
           \/ UNCHANGED state
    /\ IF Imports(r) THEN Step(r, "release") ELSE Goto(r, Idle)
    /\ UNCHANGED <<saved, leftovers, registry>>

\* The page is told that the artwork is no longer available.
Refused(r) ==
    /\ At(r, "refused") /\ Goto(r, Idle)
    /\ UNCHANGED <<saved, leftovers, state, registry>>

------------------------------------------------------------------------------
(* cancel, a dropped command, a process that dies *)

\* Every download of the game is flagged; one that has ended reads no flag.
Cancel ==
    LET flagged == {r \in Requests : Downloading(r) /\ ~(request[r].at \in {"release", "publish"})} IN
    /\ lock = None /\ flagged # {}
    /\ request' = [r \in Requests |->
         IF r \in flagged THEN [request[r] EXCEPT !.flagged = TRUE] ELSE request[r]]
    /\ UNCHANGED <<saved, leftovers, state, registry>>

\* Mutant: the lease of a command dropped in the queue is not released.
DropQuietly(r) ==
    /\ Downloading(r) /\ request[r].at \in {"permit", "transfer"}
    /\ IF At(r, "permit") THEN Goto(r, Idle)
       ELSE Goto(r, [request[r] EXCEPT !.at = "release", !.part = 0, !.gone = TRUE])
    /\ UNCHANGED <<saved, leftovers, state, registry>>

\* The future of a download is dropped where it waits; its guards run.
Drop(r) ==
    /\ Downloading(r) /\ request[r].at \in {"permit", "transfer"}
    /\ Goto(r, [request[r] EXCEPT !.at = IF @ = "permit" THEN "publish" ELSE "release",
                                  !.part = 0, !.budget = 0, !.flagged = FALSE, !.gone = TRUE])
    /\ UNCHANGED <<saved, leftovers, state, registry>>

Crash ==
    /\ \E r \in Requests : ~At(r, "idle")
    /\ leftovers' = leftovers + Bytes(Parts, Requests)
    /\ request' = [r \in Requests |-> Idle]
    /\ lock' = None /\ inflight' = {} /\ reserved' = 0
    /\ UNCHANGED <<saved, state>>

------------------------------------------------------------------------------

Init ==
    /\ saved = <<>> /\ leftovers = 0
    /\ record = [m \in Media |-> None] /\ imported = {} /\ selected = None
    /\ request = [r \in Requests |-> Idle]
    /\ lock = None /\ inflight = {} /\ reserved = 0

Next ==
    \/ \E r \in Requests :
        \/ \E m \in Media : ApplySaved(r, m) \/ ApplyOnline(r, m)
        \/ \E f \in Picks : ApplyImported(r, f) \/ Import(r, f)
        \/ Permit(r) \/ Reserve(r) \/ Unmeasured(r) \/ Sweep(r) \/ Reserved(r)
        \/ Receive(r) \/ Finish(r) \/ Fail(r) \/ Release(r)
        \/ Publish(r) \/ GiveUp(r) \/ Register(r) \/ Refused(r) \/ Drop(r)
    \/ Cancel \/ Crash

Spec == Init /\ [][Next]_vars
------------------------------------------------------------------------------
(* Properties *)

TypeOK ==
    /\ \A i \in DOMAIN saved : saved[i] \in Contents
    /\ Cardinality(ToSet(saved)) = Len(saved)
    /\ leftovers \in 0..Quota /\ reserved \in 0..(Cap * Cardinality(Requests))
    /\ record \in [Media -> Contents \cup {None}]
    /\ imported \subseteq Picks /\ selected \in Media \cup Picks \cup {None}
    /\ \A r \in Requests :
        request[r].at \in Transfers \cup {"idle", "follow", "register", "refused"}
    /\ lock \in Requests \cup {None} /\ inflight \subseteq Media

\* The directory never holds more than the quota, whatever transfers measure it
\* while others write, finish, fail, are cancelled or dropped: the bytes promised
\* to them are counted until theirs are on disk.
QuotaHolds == Usage <= Quota

\* Every download in the registry has the one command that will complete it, and
\* every follower waits on one of these: none is left to its deadline.
EntriesHaveLeader ==
    /\ \A m \in inflight : Cardinality({r \in Requests : Downloading(r) /\ request[r].media = m}) = 1
    /\ \A r \in Requests : At(r, "follow") => request[r].media \in inflight
=============================================================================
