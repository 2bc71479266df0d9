----------------------------- MODULE PluginIndex -----------------------------
(****************************************************************************)
(* The cached registry index (src-tauri/src/plugin_index.rs): a refresh     *)
(* reads the cache, asks the server, and stores what verifies and is not    *)
(* older than what the cache holds, with no lock between its steps.  The    *)
(* refreshes share one cancel flag (plugin_installer.rs).                   *)
(*                                                                          *)
(* A document is its sequence; 0 is a file that does not parse, or none.    *)
(* A file is an inode: both paths name one, and renaming moves the name.    *)
(****************************************************************************)
EXTENDS Naturals, FiniteSets

CONSTANTS
    Refreshes,  \* refreshes in flight at once
    Minimum,    \* MINIMUM_INDEX_SEQUENCE
    Latest,     \* bound: the last sequence the server publishes
    None

SequencesAssumption ==
    /\ Minimum \in Nat /\ Latest \in Nat /\ 1 <= Minimum /\ Minimum <= Latest
    /\ IsFiniteSet(Refreshes) /\ None \notin 1..(Cardinality(Refreshes) + 2)

VARIABLES
    published,   \* the sequence the server publishes
    expired,     \* the documents past their own expiry
    inodes,      \* the content of each file
    cache,       \* the inode the cache's path names
    temporary,   \* the inode the .json.tmp path names
    ttl,         \* the cache is younger than INDEX_TTL
    flag,        \* PluginInstallerService::cancelled
    refresh,     \* the refreshes in flight
    overlapped   \* those that ran beside another one

files == <<inodes, cache, temporary>>
vars == <<published, expired, files, ttl, flag, refresh, overlapped>>

\* An inode for every file there can be: the cache, a leftover, one per writer.
Inodes == 1..(Cardinality(Refreshes) + 2)
Read(inode) == IF inode = None THEN 0 ELSE inodes[inode]

At(r, at) == refresh[r].at = at
Goto(r, step) == refresh' = [refresh EXCEPT ![r] = step]
Idle == [at |-> "idle"]
Over(r) ==
    /\ Goto(r, Idle)
    /\ overlapped' = overlapped \ {r}

\* IndexCache::load: what the cache holds, if it still verifies.
Loaded == IF Read(cache) \in expired \/ Read(cache) < Minimum THEN 0 ELSE Read(cache)

\* Mutant: what the cache holds does not raise the floor.
FloorOfBuild == Minimum

\* The sequence a document has to match or beat.
Floor == IF Loaded > Minimum THEN Loaded ELSE Minimum

------------------------------------------------------------------------------
(* The world: the server publishes, documents expire, time passes *)

Publish ==
    /\ published < Latest
    /\ published' = published + 1
    /\ UNCHANGED <<expired, files, ttl, flag, refresh, overlapped>>

Expire(sequence) ==
    /\ sequence \notin expired /\ sequence <= published
    /\ expired' = expired \cup {sequence}
    /\ UNCHANGED <<published, files, ttl, flag, refresh, overlapped>>

Age ==
    /\ ttl /\ ttl' = FALSE
    /\ UNCHANGED <<published, expired, files, flag, refresh, overlapped>>

\* cancel_plugin_update
Cancel ==
    /\ ~flag /\ flag' = TRUE
    /\ UNCHANGED <<published, expired, files, ttl, refresh, overlapped>>

\* The process dies: what is on disk stays, and the flag is a new one.
Crash ==
    /\ refresh' = [r \in Refreshes |-> Idle]
    /\ overlapped' = {}
    /\ flag' = FALSE
    /\ UNCHANGED <<published, expired, files, ttl>>

------------------------------------------------------------------------------
(* refresh_index *)

\* begin_network_operation clears the flag, whoever's it was; a fresh cache that
\* verifies is the answer.
Begin(r) ==
    /\ At(r, "idle")
    /\ flag' = FALSE
    /\ LET others == {q \in Refreshes \ {r} : ~At(q, "idle")} IN
        IF ttl /\ Loaded # 0
        THEN UNCHANGED <<refresh, overlapped>>
        ELSE /\ Goto(r, [at |-> "ask"])
             /\ overlapped' = overlapped \cup (IF others = {} THEN {} ELSE others \cup {r})
    /\ UNCHANGED <<published, expired, files, ttl>>

\* The request names the tag of the document in the cache, verified or not.
Ask(r) ==
    /\ At(r, "ask")
    /\ Goto(r, [at |-> "answer", tag |-> Read(cache)])
    /\ UNCHANGED <<published, expired, files, ttl, flag, overlapped>>

\* The server still has the tagged document, or sends one: the one published, or
\* an older one from a mirror that lags.
Answer(r) ==
    /\ At(r, "answer")
    /\ \/ refresh[r].tag # 0 /\ Goto(r, [at |-> "touch"]) /\ UNCHANGED overlapped
       \/ \E sequence \in 1..published :
            Goto(r, [at |-> "fetched", sequence |-> sequence]) /\ UNCHANGED overlapped
       \/ Over(r)
    /\ UNCHANGED <<published, expired, files, ttl, flag>>

\* The flag is read at every chunk, and accept verifies against the floor.
Accept(r) ==
    /\ At(r, "fetched")
    /\ LET sequence == refresh[r].sequence IN
        IF flag \/ sequence < Floor \/ sequence \in expired
        THEN Over(r)
        ELSE Goto(r, [at |-> "create", sequence |-> sequence]) /\ UNCHANGED overlapped
    /\ UNCHANGED <<published, expired, files, ttl, flag>>

\* touch: the document is read, and written back with a new clock.
Touch(r) ==
    /\ At(r, "touch")
    /\ IF Read(cache) = 0
       THEN Over(r)
       ELSE Goto(r, [at |-> "create", sequence |-> Read(cache)]) /\ UNCHANGED overlapped
    /\ UNCHANGED <<published, expired, files, ttl, flag>>

\* write: File::create empties the file at the temporary path, whoever is
\* writing to it, and makes one if there is none...
Create(r) ==
    /\ At(r, "create")
    /\ LET inode == IF temporary # None THEN temporary
                    ELSE CHOOSE i \in Inodes : i # cache
                            /\ \A q \in Refreshes : At(q, "fill") => refresh[q].inode # i
       IN /\ temporary' = inode
          /\ inodes' = [inodes EXCEPT ![inode] = 0]
          /\ Goto(r, [at |-> "fill", sequence |-> refresh[r].sequence, inode |-> inode])
    /\ UNCHANGED <<published, expired, cache, ttl, flag, overlapped>>

\* ...and a document written over another may leave the end of it.
Fill(r) ==
    /\ At(r, "fill")
    /\ LET inode == refresh[r].inode IN
        \E content \in {refresh[r].sequence} \cup (IF inodes[inode] = 0 THEN {} ELSE {0}) :
            inodes' = [inodes EXCEPT ![inode] = content]
    /\ Goto(r, [at |-> "rename"])
    /\ UNCHANGED <<published, expired, cache, temporary, ttl, flag, overlapped>>

Rename(r) ==
    /\ At(r, "rename")
    /\ Over(r)
    /\ IF temporary = None
       THEN UNCHANGED <<cache, temporary, ttl>>
       ELSE cache' = temporary /\ temporary' = None /\ ttl' = TRUE
    /\ UNCHANGED <<published, expired, inodes, flag>>

------------------------------------------------------------------------------

Init ==
    /\ published = Minimum
    /\ expired = {}
    /\ inodes = [i \in Inodes |-> 0]
    /\ cache = None /\ temporary = None
    /\ ttl = FALSE /\ flag = FALSE
    /\ refresh = [r \in Refreshes |-> Idle]
    /\ overlapped = {}

Refresh(r) ==
    \/ Begin(r) \/ Ask(r) \/ Answer(r) \/ Accept(r) \/ Touch(r)
    \/ Create(r) \/ Fill(r) \/ Rename(r)

Next ==
    \/ \E r \in Refreshes : Refresh(r)
    \/ Publish \/ Age \/ Cancel \/ Crash
    \/ \E sequence \in 1..Latest : Expire(sequence)

Spec == Init /\ [][Next]_vars
------------------------------------------------------------------------------
(* Properties *)

Sequences == 0..Latest

TypeOK ==
    /\ published \in Minimum..Latest
    /\ expired \subseteq 1..published
    /\ inodes \in [Inodes -> Sequences]
    /\ cache \in Inodes \cup {None} /\ temporary \in Inodes \cup {None}
    /\ ttl \in BOOLEAN /\ flag \in BOOLEAN
    /\ \A r \in Refreshes : refresh[r].at \in
        {"idle", "ask", "answer", "fetched", "touch", "create", "fill", "rename"}
    /\ overlapped \subseteq Refreshes

\* "The sequence a freshly fetched index has to match or beat": a refresh that
\* ran alone never replaces a document that still verifies by an older one or by
\* one that does not parse, whatever the server sends, wherever an earlier one
\* was cut, and however its temporary file was left.
NoFallBack == overlapped = {} => Read(cache)' >= Loaded
LoneRefreshNeverFallsBack == [][NoFallBack]_vars
=============================================================================
