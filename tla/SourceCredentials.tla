-------------------------- MODULE SourceCredentials --------------------------
(****************************************************************************)
(* The credential of a store (src-tauri/src/sources.rs): kept in pieces in  *)
(* the keychain of the system, cached for the run, and listed in a file     *)
(* that says which stores are connected.                                    *)
(*                                                                          *)
(* One namespace, as Xbox and the Microsoft Store share one.  No lock is    *)
(* held over the calls to the keychain, each of which may fail, and a       *)
(* refresh of a token is a load and, after a request, a save.               *)
(****************************************************************************)
EXTENDS Naturals, Sequences

CONSTANTS
    Calls,        \* commands on the credential at one time
    Credentials,  \* what may be saved
    Pieces,       \* how many pieces each is split in
    MaxPieces,    \* KEYRING_MAX_CHUNKS
    None

PiecesAssumption == MaxPieces \in Nat \ {0} /\ Pieces \in [Credentials -> 1..MaxPieces]

VARIABLES
    items,    \* the pieces in the keychain, by index
    cache,    \* CREDENTIAL_CACHE
    listed,   \* CONNECTIONS holds the namespace
    filed,    \* and so does its file
    call,     \* where each command is
    promised  \* the outcome of the last call that wrote, when it met nothing

vars == <<items, cache, listed, filed, call, promised>>

Indices == 0..MaxPieces - 1

Gone == "gone"
Torn == "torn"

ValuesAssumption ==
    /\ Credentials \cap {None, Gone, Torn} = {} /\ None # Gone
    /\ None \notin Credentials \X Nat

Idle == [kind |-> "none", at |-> "idle", piece |-> 0, last |-> 0, credential |-> None,
         read |-> <<>>, alone |-> FALSE]

Split(c) == [i \in 1..Pieces[c] |-> <<c, i - 1>>]

\* What the pieces read may parse as: the credential they were split from, or,
\* where pieces of several saves end with the last of one, one that nobody saved.
Parsed(pieces) ==
    LET whole == {c \in Credentials : Split(c) = pieces}
        ends == pieces[Len(pieces)]
    IN  IF whole # {} THEN whole
        ELSE {None} \cup (IF ends[2] = Pieces[ends[1]] - 1 THEN {Torn} ELSE {})

------------------------------------------------------------------------------
(* Commands begin beside each other, and end *)

\* A call that writes is alone when none was under way and none begins before it ends.
Begin(k, kind, at, c) ==
    /\ call[k] = Idle
    /\ call' = [j \in Calls |->
         IF j = k
         THEN [Idle EXCEPT !.kind = kind, !.at = at, !.credential = c,
                           !.alone = \A other \in Calls : call[other] = Idle]
         ELSE [call[j] EXCEPT !.alone = FALSE]]
    /\ promised' = IF kind = "load" THEN promised ELSE None

At(k, at) == call[k].at = at

Go(k, at, piece) == call' = [call EXCEPT ![k].at = at, ![k].piece = piece]

Return(k) == call' = [call EXCEPT ![k] = Idle]

\* It returns without an error.
Done(k, outcome) ==
    /\ Return(k)
    /\ promised' = IF call[k].alone /\ call[k].kind # "load" THEN outcome ELSE promised

Delete(i) == items' = [items EXCEPT ![i] = None]

Keychain == <<items, promised>>
Memory == <<cache, listed, filed>>

------------------------------------------------------------------------------
(* load_credential *)

\* What is cached is served from memory.
Load(k) ==
    /\ cache = None
    /\ Begin(k, "load", "read", None)
    /\ UNCHANGED <<items, cache, listed, filed>>

\* A missing first piece is a store that is not connected; a missing later one
\* ends the credential.
Read(k) ==
    /\ At(k, "read")
    /\ LET i == call[k].piece IN
       IF i = MaxPieces \/ items[i] = None
       THEN IF i = 0
            THEN Go(k, "unlist", 0)
            ELSE \E c \in Parsed(call[k].read) :
                   IF c = None
                   THEN Return(k)
                   ELSE call' = [call EXCEPT ![k].at = "cache", ![k].credential = c,
                                             ![k].read = <<>>, ![k].piece = 0]
       ELSE call' = [call EXCEPT ![k].piece = @ + 1, ![k].read = Append(@, items[i])]
    /\ UNCHANGED <<Keychain, Memory>>

ReadFails(k) == At(k, "read") /\ Return(k) /\ UNCHANGED <<Keychain, Memory>>

------------------------------------------------------------------------------
(* save_credential *)

\* The overflow pieces land before the first.
Save(k, c) ==
    /\ Begin(k, "save", "write", c)
    /\ UNCHANGED <<items, cache, listed, filed>>

NextPiece(k) == IF call[k].piece + 1 < Pieces[call[k].credential] THEN call[k].piece + 1 ELSE 0

\* Mutant: the piece after the last one is left.
SecondLeft(c) == Pieces[c] + 1

\* The first piece an earlier, longer credential may have left behind.
FirstLeft(c) == Pieces[c]

Write(k) ==
    /\ At(k, "write")
    /\ LET c == call[k].credential
           i == NextPiece(k)
       IN  /\ items' = [items EXCEPT ![i] = <<c, i>>]
           /\ IF i = 0 THEN Go(k, "trim", FirstLeft(c)) ELSE Go(k, "write", i)
    /\ UNCHANGED <<promised, Memory>>

\* An item that cannot be opened leaves what has landed.
OpenFails(k) == At(k, "write") /\ Return(k) /\ UNCHANGED <<Keychain, Memory>>

\* wipe_credential_chunks: of all the pieces up to the one that failed, or all there are.
WriteFails(k) ==
    /\ At(k, "write")
    /\ LET i == NextPiece(k) IN
       call' = [call EXCEPT ![k].at = "wipe", ![k].piece = 0,
                  ![k].last = IF i = 0 THEN Pieces[call[k].credential] - 1 ELSE i]
    /\ UNCHANGED <<Keychain, Memory>>

\* Its errors are ignored.
Wipe(k) ==
    /\ At(k, "wipe")
    /\ LET i == call[k].piece IN
       /\ Delete(i) \/ UNCHANGED items
       /\ IF i = call[k].last THEN Return(k) ELSE Go(k, "wipe", i + 1)
    /\ UNCHANGED <<promised, Memory>>

\* "The reader joins every index it finds": up to the first that is not there.
Trim(k) ==
    /\ At(k, "trim")
    /\ LET i == call[k].piece IN
       IF i < MaxPieces /\ items[i] # None
       THEN Delete(i) /\ Go(k, "trim", i + 1)
       ELSE Go(k, "cache", 0) /\ UNCHANGED items
    /\ UNCHANGED <<promised, Memory>>

\* A tail that cannot be deleted is left, and the save goes on.
TrimFails(k) ==
    /\ At(k, "trim") /\ call[k].piece < MaxPieces
    /\ call' = [call EXCEPT ![k].at = "cache", ![k].piece = 0, ![k].alone = FALSE]
    /\ UNCHANGED <<Keychain, Memory>>

------------------------------------------------------------------------------
(* cache_credential, remember_connection, forget_connection *)

Cache(k) ==
    /\ At(k, "cache")
    /\ cache' = call[k].credential
    /\ Go(k, "list", 0)
    /\ UNCHANGED <<Keychain, listed, filed>>

\* "A directory that cannot be written is not worth failing a sign-in over."
List(k) ==
    /\ At(k, "list")
    /\ listed' = TRUE
    /\ \/ filed' = TRUE /\ Done(k, call[k].credential)
       \/ Return(k) /\ promised' = None /\ UNCHANGED filed
    /\ UNCHANGED <<items, cache>>

Unlist(k) ==
    /\ At(k, "unlist")
    /\ listed' = FALSE
    /\ \/ filed' = FALSE /\ Go(k, "uncache", 0) /\ UNCHANGED promised
       \/ /\ call' = [call EXCEPT ![k].at = "uncache", ![k].alone = FALSE]
          /\ promised' = None /\ UNCHANGED filed
    /\ UNCHANGED <<items, cache>>

\* A load that found nothing is over, and a disconnection begins with the keychain.
Uncache(k) ==
    /\ At(k, "uncache")
    /\ cache' = None
    /\ IF call[k].kind = "load" THEN Return(k) ELSE Go(k, "delete", 0)
    /\ UNCHANGED <<Keychain, listed, filed>>

------------------------------------------------------------------------------
(* disconnect *)

Disconnect(k) ==
    /\ Begin(k, "disconnect", "unlist", None)
    /\ UNCHANGED <<items, cache, listed, filed>>

\* The first piece may be missing; a later one that is missing ends it.
DeletePiece(k) ==
    /\ At(k, "delete")
    /\ LET i == call[k].piece IN
       IF i = MaxPieces \/ (i > 0 /\ items[i] = None)
       THEN Done(k, Gone) /\ UNCHANGED items
       ELSE Delete(i) /\ Go(k, "delete", i + 1) /\ UNCHANGED promised
    /\ UNCHANGED Memory

DeleteFails(k) == At(k, "delete") /\ Return(k) /\ UNCHANGED <<Keychain, Memory>>

------------------------------------------------------------------------------
(* Around it *)

\* The user clears an item of the keychain by hand.
UserClears(i) ==
    /\ items[i] # None
    /\ Delete(i)
    /\ promised' = None
    /\ call' = [k \in Calls |-> [call[k] EXCEPT !.alone = FALSE]]
    /\ UNCHANGED Memory

\* The program ends and starts again, wherever its commands were.
Restart ==
    /\ call' = [k \in Calls |-> Idle]
    /\ cache' = None
    /\ listed' = filed
    /\ UNCHANGED <<items, filed, promised>>

Init ==
    /\ items = [i \in Indices |-> None]
    /\ cache = None /\ listed = FALSE /\ filed = FALSE
    /\ call = [k \in Calls |-> Idle]
    /\ promised = None

Step(k) ==
    \/ Load(k) \/ Read(k) \/ ReadFails(k)
    \/ \E c \in Credentials : Save(k, c)
    \/ Write(k) \/ OpenFails(k) \/ WriteFails(k) \/ Wipe(k) \/ Trim(k) \/ TrimFails(k)
    \/ Cache(k) \/ List(k) \/ Unlist(k) \/ Uncache(k)
    \/ Disconnect(k) \/ DeletePiece(k) \/ DeleteFails(k)

Next ==
    \/ \E k \in Calls : Step(k)
    \/ \E i \in Indices : UserClears(i)
    \/ Restart

Spec == Init /\ [][Next]_vars
------------------------------------------------------------------------------
(* Properties *)

TypeOK ==
    /\ \A i \in Indices : items[i] = None \/ items[i][1] \in Credentials
    /\ cache \in Credentials \cup {None, Torn}
    /\ listed \in BOOLEAN /\ filed \in BOOLEAN
    /\ promised \in Credentials \cup {None, Gone}
    /\ \A k \in Calls : call[k].piece \in 0..MaxPieces

\* What the keychain holds, read to the end as a load does.
Joined ==
    LET missing == {i \in Indices : items[i] = None}
        end == IF missing = {} THEN MaxPieces
               ELSE CHOOSE i \in missing : \A j \in missing : i <= j
    IN  [i \in 1..end |-> items[i - 1]]

\* A save that met no other call and no error reads back whole, after a restart
\* too, and a disconnection leaves nothing to read, whatever earlier calls that
\* failed, overlapped or were cut have left in the keychain.
LastCallHolds ==
    /\ promised \in Credentials =>
        /\ Joined = Split(promised)
        /\ cache \in {None, promised}
        /\ listed
    /\ promised = Gone =>
        /\ Joined = <<>>
        /\ cache = None
        /\ ~listed
=============================================================================
