---------------------------- MODULE LibraryProofs ----------------------------
(****************************************************************************)
(* Theorems about the sources of a library, for any number of commands,     *)
(* credentials and pieces: SourceCredentials, which this module extends,    *)
(* and SourceLogin, as its instance L; about the opening of a library of an *)
(* older build, CatalogMigration, as M; and about the install of a game by  *)
(* Quiky, QuikyInstall, as Q.                                               *)
(*                                                                          *)
(* The keychain holds whatever calls that failed, overlapped or were cut    *)
(* have left in it.  So the invariant of SourceCredentials speaks of one    *)
(* call that has met no other, of what it has done so far, and then of what *)
(* its outcome keeps true while only loads are under way.                   *)
(****************************************************************************)
EXTENDS SourceCredentials, TLAPS

\* SourceLogin: its own variables, and the same commands.
VARIABLES wait, session, logins, window, closing, exchange, settled, slot, saved, told

L == INSTANCE SourceLogin

CONSTANTS OldId, NewId, Media, MaxBackups, MaxEdits, ReadBackFails

VARIABLES catalog, backups, games, start, library, imports, choice

M == INSTANCE CatalogMigration

CONSTANTS Tasks, Chunks, Versions

VARIABLES offered, job, task, cancelled, part, package, destination, orphan

Q == INSTANCE QuikyInstall WITH listed <- offered

------------------------------------------------------------------------------
(* SourceCredentials *)

(* What may be believed of one command: where it may be, and what it carries. *)
Fields == {"kind", "at", "piece", "last", "credential", "read", "alone"}

Resting(r) == r.kind = "none" /\ r.at = "idle"

Sound(r) ==
    \/ Resting(r)
    \/ /\ r.piece \in 0..MaxPieces
       /\ \/ r.kind = "load" /\ r.at \in {"read", "cache", "list", "unlist", "uncache"}
          \/ /\ r.kind = "save" /\ r.at \in {"write", "wipe", "trim", "cache", "list"}
             /\ r.credential \in Credentials
          \/ r.kind = "disconnect" /\ r.at \in {"unlist", "uncache", "delete"}
       /\ r.at \in {"cache", "list"} => r.credential \in Credentials \cup {Torn}
       /\ r.at = "write" => r.piece < Pieces[r.credential]
       /\ r.at = "wipe" => r.piece <= r.last /\ r.last \in Indices

CallsSound ==
    /\ DOMAIN call = Calls
    /\ \A k \in Calls : DOMAIN call[k] = Fields /\ Sound(call[k])
    /\ \A k \in Calls : call[k].alone = TRUE => \A j \in Calls \ {k} : call[j].kind = "none"

\* The keychain has the pieces of one credential, and a load stops after them.
Whole(c) ==
    /\ \A i \in 0..Pieces[c] - 1 : items[i] = <<c, i>>
    /\ Pieces[c] < MaxPieces => items[Pieces[c]] = None

\* What a save, and what a disconnection, that has met no other call and no error
\* has done so far.
Saved(k) ==
    LET r == call[k] IN
    /\ r.at = "write" => \A i \in 1..r.piece : items[i] = <<r.credential, i>>
    /\ r.at = "trim" =>
        /\ \A i \in 0..Pieces[r.credential] - 1 : items[i] = <<r.credential, i>>
        /\ Pieces[r.credential] <= r.piece
        /\ r.piece > Pieces[r.credential] => items[Pieces[r.credential]] = None
    /\ r.at \in {"cache", "list"} => Whole(r.credential)
    /\ r.at = "list" => cache = r.credential

Disconnected(k) ==
    LET r == call[k] IN
    /\ r.at \in {"uncache", "delete"} => ~listed /\ ~filed
    /\ r.at = "delete" => cache = None /\ (r.piece > 0 => items[0] = None)

Prepared(k) ==
    call[k].alone = TRUE =>
        /\ call[k].kind = "save" => Saved(k)
        /\ call[k].kind = "disconnect" => Disconnected(k)

\* Once a call that wrote has its outcome, only loads are under way, and what they read
\* and cache is that outcome.
Loading(k) ==
    LET r == call[k] IN
    /\ promised \in Credentials =>
        /\ r.at = "read" =>
            /\ r.piece <= Pieces[promised]
            /\ r.read = [i \in 1..r.piece |-> <<promised, i - 1>>]
        /\ r.at \in {"cache", "list"} => r.credential = promised
        /\ r.at \notin {"unlist", "uncache"}
    /\ promised = Gone =>
        /\ r.at = "read" => r.piece = 0
        /\ r.at \notin {"cache", "list"}

Outcome ==
    /\ promised \in Credentials =>
        Whole(promised) /\ cache \in {None, promised} /\ listed /\ filed
    /\ promised = Gone => items[0] = None /\ cache = None /\ ~listed /\ ~filed

Kept ==
    promised # None =>
        Outcome /\ \A k \in Calls : call[k].kind \in {"none", "load"} /\ Loading(k)

KeychainType ==
    /\ DOMAIN items = Indices
    /\ \A i \in Indices : items[i] = None \/ items[i][1] \in Credentials
    /\ cache \in Credentials \cup {None, Torn}
    /\ listed \in BOOLEAN /\ filed \in BOOLEAN
    /\ promised \in Credentials \cup {None, Gone}

PreparedInv == \A k \in Calls : Prepared(k)

SourceInv == KeychainType /\ CallsSound /\ PreparedInv /\ Kept

------------------------------------------------------------------------------
(* What every step needs *)

\* The pieces of a credential are among those there are.
LEMMA PieceBounds ==
    ASSUME PiecesAssumption, NEW c \in Credentials
    PROVE  /\ MaxPieces \in Nat /\ MaxPieces > 0 /\ 0 \in Indices
           /\ Pieces[c] \in Nat /\ 1 <= Pieces[c] /\ Pieces[c] <= MaxPieces
           /\ \A i \in 0..Pieces[c] - 1 : i \in Indices
           /\ Pieces[c] < MaxPieces => Pieces[c] \in Indices
BY DEF PiecesAssumption, Indices

\* The values are told apart.
LEMMA Values ==
    ASSUME ValuesAssumption
    PROVE  /\ None \notin Credentials /\ Gone \notin Credentials /\ Torn \notin Credentials
           /\ None # Gone
           /\ \A c \in Credentials : \A i \in Nat : <<c, i>> # None
BY DEF ValuesAssumption

\* What a command at rest is.
LEMMA IdleIs ==
    /\ Idle.kind = "none" /\ Idle.at = "idle" /\ Idle.alone = FALSE /\ DOMAIN Idle = Fields
    /\ Resting(Idle) /\ Sound(Idle)
BY DEF Idle, Fields, Sound, Resting

\* A command that is alone is the only one.
LEMMA Alone ==
    ASSUME CallsSound, NEW k \in Calls, call[k].kind # "none",
           NEW j \in Calls, call[j].alone = TRUE
    PROVE  j = k
BY DEF CallsSound

\* The kind of a command that is under way, by where it is.
LEMMA Kinds ==
    ASSUME CallsSound, NEW k \in Calls, call[k].at # "idle"
    PROVE  /\ call[k].kind # "none" /\ call[k].piece \in 0..MaxPieces
           /\ call[k].at = "read" => call[k].kind = "load"
           /\ call[k].at \in {"write", "wipe", "trim"} => call[k].kind = "save"
           /\ call[k].at = "delete" => call[k].kind = "disconnect"
           /\ call[k].at \in {"cache", "list"} =>
                /\ call[k].kind \in {"load", "save"}
                /\ call[k].credential \in Credentials \cup {Torn}
           /\ call[k].at \in {"unlist", "uncache"} => call[k].kind \in {"load", "disconnect"}
           /\ call[k].kind = "save" => call[k].credential \in Credentials
           /\ call[k].at = "write" => call[k].piece < Pieces[call[k].credential]
           /\ call[k].at = "wipe" =>
                call[k].piece <= call[k].last /\ call[k].last \in Indices
BY DEF CallsSound, Sound, Resting

\* A command that is under way goes on, or ends: those beside it were not alone.
LEMMA CallMoves ==
    ASSUME CallsSound, PreparedInv, NEW k \in Calls, call[k].kind # "none",
           DOMAIN call' = Calls, DOMAIN call'[k] = Fields,
           \A j \in Calls \ {k} : call'[j] = call[j],
           Sound(call'[k]), call'[k].alone = TRUE => call[k].alone = TRUE,
           Prepared(k)'
    PROVE  CallsSound' /\ PreparedInv'
<1>1. CallsSound'
    BY DEF CallsSound
<1>2. ASSUME NEW j \in Calls PROVE Prepared(j)'
    <2>1. CASE j = k
        BY <2>1
    <2>2. CASE j # k
        <3>1. ~(call[j].alone = TRUE)
            BY <2>2, Alone
        <3> QED
            BY <2>2, <3>1 DEF Prepared
    <2> QED
        BY <2>1, <2>2
<1> QED
    BY <1>1, <1>2 DEF PreparedInv

\* Go leaves a command's kind and what it carries.
LEMMA GoMoves ==
    ASSUME CallsSound, NEW k \in Calls, NEW at, NEW piece, Go(k, at, piece)
    PROVE  /\ DOMAIN call' = Calls /\ DOMAIN call'[k] = Fields
           /\ \A j \in Calls \ {k} : call'[j] = call[j]
           /\ call'[k].at = at /\ call'[k].piece = piece
           /\ call'[k].kind = call[k].kind /\ call'[k].last = call[k].last
           /\ call'[k].credential = call[k].credential /\ call'[k].read = call[k].read
           /\ call'[k].alone = call[k].alone
BY DEF CallsSound, Go, Fields

\* Return puts a command to rest.
LEMMA ReturnMoves ==
    ASSUME CallsSound, NEW k \in Calls, Return(k)
    PROVE  /\ DOMAIN call' = Calls /\ DOMAIN call'[k] = Fields
           /\ \A j \in Calls \ {k} : call'[j] = call[j]
           /\ call'[k] = Idle /\ Sound(call'[k]) /\ call'[k].alone = FALSE
           /\ call'[k].kind = "none" /\ Prepared(k)' /\ Loading(k)'
<1>1. /\ DOMAIN call' = Calls /\ \A j \in Calls \ {k} : call'[j] = call[j]
      /\ call'[k] = Idle
    BY DEF CallsSound, Return
<1>2. Prepared(k)' /\ Loading(k)'
    BY <1>1, IdleIs DEF Prepared, Loading
<1> QED
    BY <1>1, <1>2, IdleIs

\* A command that writes is under way: nothing is promised.
LEMMA Unpromised ==
    ASSUME Kept, NEW k \in Calls, call[k].kind \in {"save", "disconnect"}
    PROVE  promised = None
BY DEF Kept

\* A command goes on when nothing is promised.
LEMMA WriterMoves ==
    ASSUME SourceInv, NEW k \in Calls, call[k].kind # "none",
           DOMAIN call' = Calls, DOMAIN call'[k] = Fields,
           \A j \in Calls \ {k} : call'[j] = call[j],
           Sound(call'[k]), call'[k].alone = TRUE => call[k].alone = TRUE,
           promised' = None, Prepared(k)', KeychainType'
    PROVE  SourceInv'
<1>1. Kept'
    BY DEF Kept
<1>2. CallsSound' /\ PreparedInv'
    BY CallMoves DEF SourceInv
<1> QED
    BY <1>1, <1>2 DEF SourceInv

\* A load goes on, or a command ends, and what was promised still is.
LEMMA LoadMoves ==
    ASSUME SourceInv, NEW k \in Calls, call[k].kind # "none",
           DOMAIN call' = Calls, DOMAIN call'[k] = Fields,
           \A j \in Calls \ {k} : call'[j] = call[j],
           Sound(call'[k]), call'[k].alone = TRUE => call[k].alone = TRUE,
           call'[k].kind \in {"none", "load"}, Loading(k)',
           promised' = promised, promised # None => Outcome', KeychainType'
    PROVE  SourceInv'
<1>1. Prepared(k)'
    BY DEF Prepared
<1>2. CallsSound' /\ PreparedInv'
    BY <1>1, CallMoves DEF SourceInv
<1>3. Kept'
    <2> SUFFICES ASSUME promised' # None
                 PROVE  Kept'
        BY DEF Kept
    <2>1. ASSUME NEW j \in Calls
          PROVE  call'[j].kind \in {"none", "load"} /\ Loading(j)'
        <3>1. CASE j = k
            BY <3>1
        <3>2. CASE j # k
            <4>1. call'[j] = call[j] /\ call[j].kind \in {"none", "load"} /\ Loading(j)
                BY <3>2 DEF SourceInv, Kept
            <4> QED
                BY <4>1 DEF Loading
        <3> QED
            BY <3>1, <3>2
    <2> QED
        BY <2>1 DEF Kept
<1> QED
    BY <1>2, <1>3 DEF SourceInv

\* A command that was under way returns, and leaves everything else as it is.
LEMMA ReturnKeeps ==
    ASSUME SourceInv, NEW k \in Calls, call[k].at # "idle", Return(k),
           UNCHANGED <<items, promised, cache, listed, filed>>
    PROVE  SourceInv'
<1>1. CallsSound
    BY DEF SourceInv
<1>2. promised # None => Outcome'
    BY DEF SourceInv, Kept, Outcome, Whole
<1>3. KeychainType'
    BY DEF SourceInv, KeychainType
<1> QED
    BY <1>1, <1>2, <1>3, ReturnMoves, Kinds, LoadMoves


------------------------------------------------------------------------------
(* Commands begin *)

\* Whatever a command begins beside is alone no more, and otherwise as it was.
Beside(k) ==
    /\ DOMAIN call' = Calls /\ DOMAIN call'[k] = Fields
    /\ call'[k].alone = TRUE => \A j \in Calls : call[j].kind = "none"
    /\ \A j \in Calls \ {k} :
        /\ DOMAIN call'[j] = Fields
        /\ call'[j].kind = call[j].kind /\ call'[j].at = call[j].at
        /\ call'[j].piece = call[j].piece /\ call'[j].last = call[j].last
        /\ call'[j].credential = call[j].credential /\ call'[j].read = call[j].read
        /\ call'[j].alone = FALSE

LEMMA BeginMoves ==
    ASSUME CallsSound, NEW k \in Calls, NEW kind, NEW at, NEW c, Begin(k, kind, at, c)
    PROVE  Beside(k)
<1>1. /\ DOMAIN call' = Calls
      /\ call'[k] = [Idle EXCEPT !.kind = kind, !.at = at, !.credential = c,
                                 !.alone = \A other \in Calls : call[other] = Idle]
      /\ \A j \in Calls \ {k} : call'[j] = [call[j] EXCEPT !.alone = FALSE]
    BY DEF Begin
<1>2. DOMAIN call'[k] = Fields
    BY <1>1 DEF Idle, Fields
<1>3. call'[k].alone = (\A other \in Calls : call[other] = Idle)
    BY <1>1 DEF Idle
<1>4. call'[k].alone = TRUE => \A j \in Calls : call[j].kind = "none"
    BY <1>3, IdleIs
<1>5. ASSUME NEW j \in Calls \ {k}
      PROVE  /\ DOMAIN call'[j] = Fields
             /\ call'[j].kind = call[j].kind /\ call'[j].at = call[j].at
             /\ call'[j].piece = call[j].piece /\ call'[j].last = call[j].last
             /\ call'[j].credential = call[j].credential /\ call'[j].read = call[j].read
             /\ call'[j].alone = FALSE
    BY <1>1 DEF CallsSound, Fields
<1> QED
    BY <1>1, <1>2, <1>4, <1>5 DEF Beside

\* The commands there were are sound, and none of them is alone.
LEMMA BeginSound ==
    ASSUME CallsSound, NEW k \in Calls, NEW kind, NEW at, NEW c, Begin(k, kind, at, c),
           Sound(call'[k]), Prepared(k)'
    PROVE  CallsSound' /\ PreparedInv'
<1>0. Beside(k)
    BY BeginMoves
<1>1. ASSUME NEW j \in Calls \ {k} PROVE Sound(call'[j])
    <2>1. Sound(call[j])
        BY DEF CallsSound
    <2>2. /\ call'[j].kind = call[j].kind /\ call'[j].at = call[j].at
          /\ call'[j].piece = call[j].piece /\ call'[j].last = call[j].last
          /\ call'[j].credential = call[j].credential
        BY <1>0 DEF Beside
    <2> QED
        BY <2>1, <2>2 DEF Sound, Resting
<1>2. ASSUME NEW i \in Calls, call'[i].alone = TRUE, NEW j \in Calls \ {i}
      PROVE  call'[j].kind = "none"
    <2>1. i = k
        BY <1>0, <1>2 DEF Beside
    <2> QED
        BY <1>0, <1>2, <2>1 DEF Beside
<1>3. ASSUME NEW j \in Calls PROVE Prepared(j)'
    <2>1. CASE j = k
        BY <2>1
    <2>2. CASE j # k
        BY <1>0, <2>2 DEF Beside, Prepared
    <2> QED
        BY <2>1, <2>2
<1>4. DOMAIN call' = Calls /\ \A j \in Calls : DOMAIN call'[j] = Fields
    BY <1>0 DEF Beside
<1>5. \A j \in Calls : Sound(call'[j])
    BY <1>1
<1> QED
    BY <1>2, <1>3, <1>4, <1>5 DEF CallsSound, PreparedInv

\* Load: what is promised stays so, and is what will be read.
LEMMA LoadKeeps ==
    ASSUME PiecesAssumption, SourceInv, NEW k \in Calls, Load(k)
    PROVE  SourceInv'
<1>1. Begin(k, "load", "read", None) /\ UNCHANGED <<items, cache, listed, filed, promised>>
    BY DEF Load, Begin
<1>2. CallsSound
    BY DEF SourceInv
<1>3. /\ call'[k].kind = "load" /\ call'[k].at = "read" /\ call'[k].piece = 0
      /\ call'[k].read = <<>>
    BY <1>1 DEF Begin, Idle
<1>4. Sound(call'[k]) /\ Prepared(k)'
    BY <1>3 DEF Sound, Prepared, PiecesAssumption
<1>5. CallsSound' /\ PreparedInv'
    BY <1>1, <1>2, <1>4, BeginSound
<1>6. Kept'
    <2> SUFFICES ASSUME promised' # None
                 PROVE  Kept'
        BY DEF Kept
    <2>1. Loading(k)'
        <3>1. promised \in Credentials =>
                0 <= Pieces[promised] /\ <<>> = [i \in 1..0 |-> <<promised, i - 1>>]
            BY PieceBounds
        <3> QED
            BY <1>1, <1>3, <3>1 DEF Loading
    <2>2. ASSUME NEW j \in Calls \ {k}
          PROVE  call'[j].kind \in {"none", "load"} /\ Loading(j)'
        <3>1. call[j].kind \in {"none", "load"} /\ Loading(j)
            BY <1>1 DEF SourceInv, Kept
        <3>2. /\ call'[j].kind = call[j].kind /\ call'[j].at = call[j].at
              /\ call'[j].piece = call[j].piece /\ call'[j].read = call[j].read
              /\ call'[j].credential = call[j].credential
            <4>1. Beside(k)
                BY <1>1, <1>2, BeginMoves
            <4> QED
                BY <4>1 DEF Beside
        <3> QED
            BY <1>1, <3>1, <3>2 DEF Loading
    <2>3. Outcome'
        BY <1>1 DEF SourceInv, Kept, Outcome, Whole
    <2>4. ASSUME NEW j \in Calls
          PROVE  call'[j].kind \in {"none", "load"} /\ Loading(j)'
        BY <1>3, <2>1, <2>2
    <2> QED
        BY <2>3, <2>4 DEF Kept
<1>7. KeychainType'
    BY <1>1 DEF SourceInv, KeychainType
<1> QED
    BY <1>5, <1>6, <1>7 DEF SourceInv

\* Save, Disconnect: nothing is promised until they end.
LEMMA WriterBegins ==
    ASSUME PiecesAssumption, SourceInv, NEW k \in Calls,
           NEW kind \in {"save", "disconnect"}, NEW at, NEW c, Begin(k, kind, at, c),
           UNCHANGED <<items, cache, listed, filed>>,
           \/ kind = "save" /\ at = "write" /\ c \in Credentials
           \/ kind = "disconnect" /\ at = "unlist"
    PROVE  SourceInv'
<1>1. CallsSound
    BY DEF SourceInv
<1>2. /\ call'[k].piece = 0 /\ call'[k].kind = kind /\ call'[k].at = at
      /\ call'[k].credential = c
    BY DEF Begin, Idle
<1>3. Sound(call'[k])
    BY <1>2, PieceBounds DEF Sound, PiecesAssumption
<1>4. Prepared(k)'
    BY <1>2 DEF Prepared, Saved, Disconnected
<1>5. promised' = None
    BY DEF Begin
<1>6. KeychainType'
    BY <1>5 DEF SourceInv, KeychainType
<1>7. CallsSound' /\ PreparedInv'
    BY <1>1, <1>3, <1>4, BeginSound
<1> QED
    BY <1>5, <1>6, <1>7 DEF SourceInv, Kept

------------------------------------------------------------------------------
(* load_credential *)

\* Read, where something is promised: the pieces of that credential, one after another.
LEMMA ReadPromised ==
    ASSUME PiecesAssumption, ValuesAssumption, SourceInv, promised \in Credentials,
           NEW k \in Calls, call[k].at = "read"
    PROVE  LET i == call[k].piece IN
           /\ i = MaxPieces \/ items[i] = None => i = Pieces[promised] /\ i # 0
           /\ ~(i = MaxPieces \/ items[i] = None) =>
                /\ i + 1 <= Pieces[promised]
                /\ items[i] = <<promised, i>>
<1>1. call[k].piece \in 0..MaxPieces /\ call[k].piece <= Pieces[promised]
    BY Kinds, Values DEF SourceInv, Kept, Loading
<1>2. Whole(promised)
    BY Values DEF SourceInv, Kept, Outcome
<1>3. \A i \in 0..Pieces[promised] - 1 : items[i] # None
    <2>1. \A i \in 0..Pieces[promised] - 1 : i \in Nat
        BY PieceBounds
    <2> QED
        BY <1>2, <2>1, Values DEF Whole
<1> QED
    BY <1>1, <1>2, <1>3, PieceBounds DEF Whole

\* The pieces of a credential parse as that credential.
LEMMA ParsedWhole ==
    ASSUME PiecesAssumption, NEW c \in Credentials, NEW d \in Parsed(Split(c))
    PROVE  d = c
<1>1. c \in {e \in Credentials : Split(e) = Split(c)}
    OBVIOUS
<1>2. d \in {e \in Credentials : Split(e) = Split(c)}
    BY <1>1 DEF Parsed
<1>3. Split(d) = Split(c) /\ d \in Credentials
    BY <1>2
<1>4. Split(d)[1] = <<d, 0>> /\ Split(c)[1] = <<c, 0>>
    BY <1>3, PieceBounds DEF Split
<1> QED
    BY <1>3, <1>4

\* What pieces parse as is a credential, none, or one nobody saved.
LEMMA ParsedIs ==
    ASSUME NEW pieces, NEW d \in Parsed(pieces)
    PROVE  d \in Credentials \cup {None, Torn}
BY DEF Parsed

\* A piece is read after those before it.
LEMMA AppendPiece ==
    ASSUME NEW c, NEW n \in Nat
    PROVE  Append([i \in 1..n |-> <<c, i - 1>>], <<c, n>>) = [i \in 1..n + 1 |-> <<c, i - 1>>]
OBVIOUS

\* Read.
LEMMA ReadKeeps ==
    ASSUME PiecesAssumption, ValuesAssumption, SourceInv, NEW k \in Calls, Read(k)
    PROVE  SourceInv'
<1> DEFINE i == call[k].piece
           ends == i = MaxPieces \/ items[i] = None
<1>1. /\ CallsSound /\ call[k].at = "read" /\ call[k].kind = "load" /\ call[k].kind # "none"
      /\ i \in 0..MaxPieces /\ call[k].at # "idle"
    BY Kinds DEF SourceInv, Read, At
<1>2. UNCHANGED <<items, promised, cache, listed, filed>>
    BY DEF Read, Keychain, Memory
<1>3. KeychainType'
    BY <1>2 DEF SourceInv, KeychainType
<1>4. promised # None => Outcome'
    BY <1>2 DEF SourceInv, Kept, Outcome, Whole
<1>5. CASE ends /\ i = 0
    <2>1. Go(k, "unlist", 0)
        BY <1>5 DEF Read
    <2>2. /\ DOMAIN call' = Calls /\ DOMAIN call'[k] = Fields
          /\ \A j \in Calls \ {k} : call'[j] = call[j]
          /\ call'[k].at = "unlist" /\ call'[k].piece = 0 /\ call'[k].kind = "load"
          /\ call'[k].alone = call[k].alone
        BY <1>1, <2>1, GoMoves
    <2>3. Sound(call'[k])
        BY <2>2 DEF Sound, PiecesAssumption
    <2>4. Loading(k)'
        BY <1>1, <1>2, <1>5, <2>2, ReadPromised DEF Loading
    <2> QED
        BY <1>1, <1>2, <1>3, <1>4, <2>2, <2>3, <2>4, LoadMoves
<1>6. CASE ends /\ i # 0 /\ Return(k)
    BY <1>1, <1>2, <1>6, ReturnKeeps
<1>7. CASE ends /\ i # 0 /\ ~Return(k)
    <2>1. PICK c \in Parsed(call[k].read) :
            /\ c # None
            /\ call' = [call EXCEPT ![k].at = "cache", ![k].credential = c,
                                    ![k].read = <<>>, ![k].piece = 0]
        BY <1>7 DEF Read
    <2>2. /\ DOMAIN call' = Calls /\ DOMAIN call'[k] = Fields
          /\ \A j \in Calls \ {k} : call'[j] = call[j]
          /\ call'[k].at = "cache" /\ call'[k].credential = c /\ call'[k].piece = 0
          /\ call'[k].kind = "load" /\ call'[k].alone = call[k].alone
        BY <1>1, <2>1 DEF CallsSound, Fields
    <2>3. c \in Credentials \cup {Torn}
        BY <2>1, ParsedIs
    <2>4. Sound(call'[k])
        BY <2>2, <2>3 DEF Sound, PiecesAssumption
    <2>5. promised \in Credentials => c = promised
        <3>1. SUFFICES ASSUME promised \in Credentials
                       PROVE  call[k].read = Split(promised)
            BY <2>1, ParsedWhole
        <3>2. i = Pieces[promised]
            BY <1>1, <1>7, <3>1, ReadPromised
        <3> QED
            BY <1>1, <3>1, <3>2, Values DEF SourceInv, Kept, Loading, Split
    <2>6. promised # Gone
        BY <1>1, <1>7, Values DEF SourceInv, Kept, Loading
    <2>7. Loading(k)'
        BY <1>2, <2>2, <2>5, <2>6 DEF Loading
    <2> QED
        BY <1>1, <1>2, <1>3, <1>4, <2>2, <2>4, <2>7, LoadMoves
<1>8. CASE ~ends
    <2>1. call' = [call EXCEPT ![k].piece = @ + 1, ![k].read = Append(@, items[i])]
        BY <1>8 DEF Read
    <2>2. /\ DOMAIN call' = Calls /\ DOMAIN call'[k] = Fields
          /\ \A j \in Calls \ {k} : call'[j] = call[j]
          /\ call'[k].piece = i + 1 /\ call'[k].read = Append(call[k].read, items[i])
          /\ call'[k].at = "read" /\ call'[k].kind = "load" /\ call'[k].alone = call[k].alone
        BY <1>1, <2>1 DEF CallsSound, Fields
    <2>3. Sound(call'[k])
        BY <1>1, <1>8, <2>2 DEF Sound, PiecesAssumption
    <2>4. Loading(k)'
        <3>1. promised # Gone
            BY <1>1, <1>8, Values DEF SourceInv, Kept, Loading, Outcome
        <3>2. ASSUME promised \in Credentials
              PROVE  /\ i + 1 <= Pieces[promised]
                     /\ Append(call[k].read, items[i]) = [j \in 1..i + 1 |-> <<promised, j - 1>>]
            <4>1. i + 1 <= Pieces[promised] /\ items[i] = <<promised, i>>
                BY <1>1, <1>8, <3>2, ReadPromised
            <4>2. call[k].read = [j \in 1..i |-> <<promised, j - 1>>] /\ i \in Nat
                BY <1>1, <3>2, Values DEF SourceInv, Kept, Loading, PiecesAssumption
            <4> QED
                BY <4>1, <4>2, AppendPiece
        <3> QED
            BY <1>2, <2>2, <3>1, <3>2 DEF Loading
    <2> QED
        BY <1>1, <1>2, <1>3, <1>4, <2>2, <2>3, <2>4, LoadMoves
<1> QED
    BY <1>5, <1>6, <1>7, <1>8


\* A load, a save or a disconnection that fails returns, what it did staying done.
LEMMA FailsKeeps ==
    ASSUME SourceInv, NEW k \in Calls, ReadFails(k) \/ OpenFails(k) \/ DeleteFails(k)
    PROVE  SourceInv'
BY ReturnKeeps DEF ReadFails, OpenFails, DeleteFails, At, Keychain, Memory

------------------------------------------------------------------------------
(* save_credential *)

\* A save is under way: nothing is promised, and what is written is a credential.
LEMMA Saving ==
    ASSUME PiecesAssumption, SourceInv, NEW k \in Calls, call[k].at \in {"write", "wipe", "trim"}
    PROVE  /\ CallsSound /\ promised = None
           /\ call[k].kind = "save" /\ call[k].kind # "none" /\ call[k].at # "idle"
           /\ call[k].credential \in Credentials /\ call[k].piece \in 0..MaxPieces
           /\ call[k].piece \in Nat
BY Kinds, Unpromised DEF SourceInv, PiecesAssumption

\* Write: the pieces after the first, the last of them, and then the first.
LEMMA WriteKeeps ==
    ASSUME PiecesAssumption, SourceInv, NEW k \in Calls, Write(k)
    PROVE  SourceInv'
<1> DEFINE c == call[k].credential
           i == NextPiece(k)
<1>1. /\ CallsSound /\ promised = None /\ call[k].kind = "save" /\ call[k].kind # "none"
      /\ c \in Credentials /\ call[k].piece \in Nat /\ call[k].at = "write"
      /\ call[k].piece < Pieces[c]
    BY Saving, Kinds DEF Write, At
<1>2. /\ items' = [items EXCEPT ![i] = <<c, i>>]
      /\ IF i = 0 THEN Go(k, "trim", FirstLeft(c)) ELSE Go(k, "write", i)
      /\ UNCHANGED <<promised, cache, listed, filed>>
    BY DEF Write, Memory
<1>3. /\ i \in Nat /\ i \in 0..Pieces[c] - 1 /\ i \in Indices
      /\ i = 0 => call[k].piece + 1 = Pieces[c]
      /\ i # 0 => i = call[k].piece + 1
    BY <1>1, PieceBounds DEF NextPiece
<1>4. /\ DOMAIN items' = Indices /\ items'[i] = <<c, i>>
      /\ \A j \in Indices \ {i} : items'[j] = items[j]
    BY <1>2, <1>3 DEF SourceInv, KeychainType
<1>5. KeychainType'
    BY <1>1, <1>2, <1>4 DEF SourceInv, KeychainType
<1> HIDE DEF i
<1>6. CASE i = 0
    <2>1. /\ DOMAIN call' = Calls /\ DOMAIN call'[k] = Fields
          /\ \A j \in Calls \ {k} : call'[j] = call[j]
          /\ call'[k].at = "trim" /\ call'[k].piece = Pieces[c] /\ call'[k].kind = "save"
          /\ call'[k].credential = c /\ call'[k].alone = call[k].alone
        BY <1>1, <1>2, <1>6, GoMoves DEF FirstLeft
    <2>2. Sound(call'[k])
        BY <1>1, <2>1, PieceBounds DEF Sound
    <2>3. Prepared(k)'
        <3>0. Pieces[c] <= Pieces[c]
            BY <1>1, PieceBounds
        <3>1. SUFFICES ASSUME call[k].alone = TRUE, NEW j \in 0..Pieces[c] - 1
                       PROVE  items'[j] = <<c, j>>
            <4>1. ~(Pieces[c] > Pieces[c])
                BY <1>1, PieceBounds
            <4> QED
                BY <2>1, <3>0, <4>1 DEF Prepared, Saved
        <3>2. j \in Indices /\ j \in Nat
            BY <1>1, PieceBounds
        <3>3. CASE j = 0
            BY <1>4, <1>6, <3>3
        <3>4. CASE j # 0
            <4>1. j \in 1..call[k].piece
                BY <1>1, <1>3, <1>6, <3>2, <3>4, PieceBounds
            <4>2. items[j] = <<c, j>>
                BY <1>1, <3>1, <4>1 DEF SourceInv, PreparedInv, Prepared, Saved
            <4> QED
                BY <1>4, <1>6, <3>2, <3>4, <4>2
        <3> QED
            BY <3>3, <3>4
    <2> QED
        BY <1>1, <1>2, <1>5, <2>1, <2>2, <2>3, WriterMoves
<1>7. CASE i # 0
    <2>1. /\ DOMAIN call' = Calls /\ DOMAIN call'[k] = Fields
          /\ \A j \in Calls \ {k} : call'[j] = call[j]
          /\ call'[k].at = "write" /\ call'[k].piece = i /\ call'[k].kind = "save"
          /\ call'[k].credential = c /\ call'[k].alone = call[k].alone
        BY <1>1, <1>2, <1>7, GoMoves
    <2>2. Sound(call'[k])
        BY <1>1, <1>3, <2>1, PieceBounds DEF Sound
    <2>3. Prepared(k)'
        <3>1. SUFFICES ASSUME call[k].alone = TRUE, NEW j \in 1..i
                       PROVE  items'[j] = <<c, j>>
            BY <1>1, <2>1 DEF Prepared, Saved
        <3>2. j \in Indices /\ j \in Nat
            BY <1>1, <1>3, PieceBounds
        <3>3. CASE j = i
            BY <1>4, <3>3
        <3>4. CASE j # i
            <4>1. j \in 1..call[k].piece
                BY <1>1, <1>3, <1>7, <3>2, <3>4
            <4>2. items[j] = <<c, j>>
                BY <1>1, <3>1, <4>1 DEF SourceInv, PreparedInv, Prepared, Saved
            <4> QED
                BY <1>4, <3>2, <3>4, <4>2
        <3> QED
            BY <3>3, <3>4
    <2> QED
        BY <1>1, <1>2, <1>5, <2>1, <2>2, <2>3, WriterMoves
<1> QED
    BY <1>6, <1>7

\* WriteFails: the pieces that landed are to be wiped; it is no longer a save that writes.
LEMMA WriteFailsKeeps ==
    ASSUME PiecesAssumption, SourceInv, NEW k \in Calls, WriteFails(k)
    PROVE  SourceInv'
<1> DEFINE c == call[k].credential
           last == IF NextPiece(k) = 0 THEN Pieces[c] - 1 ELSE NextPiece(k)
<1>1. /\ CallsSound /\ promised = None /\ call[k].kind = "save" /\ call[k].kind # "none"
      /\ c \in Credentials /\ call[k].piece \in Nat /\ call[k].piece < Pieces[c]
    BY Saving, Kinds DEF WriteFails, At
<1>2. /\ call' = [call EXCEPT ![k].at = "wipe", ![k].piece = 0, ![k].last = last]
      /\ UNCHANGED <<items, promised, cache, listed, filed>>
    BY DEF WriteFails, Keychain, Memory
<1>3. last \in Indices /\ 0 <= last
    BY <1>1, PieceBounds DEF NextPiece, Indices
<1> HIDE DEF last
<1>4. /\ DOMAIN call' = Calls /\ DOMAIN call'[k] = Fields
      /\ \A j \in Calls \ {k} : call'[j] = call[j]
      /\ call'[k].at = "wipe" /\ call'[k].piece = 0 /\ call'[k].last = last
      /\ call'[k].kind = "save" /\ call'[k].credential = c /\ call'[k].alone = call[k].alone
    BY <1>1, <1>2 DEF CallsSound, Fields
<1>5. Sound(call'[k])
    BY <1>1, <1>3, <1>4, PieceBounds DEF Sound
<1>6. Prepared(k)'
    BY <1>4 DEF Prepared, Saved
<1>7. KeychainType'
    BY <1>2 DEF SourceInv, KeychainType
<1> QED
    BY <1>1, <1>2, <1>4, <1>5, <1>6, <1>7, WriterMoves

\* Wipe, whether or not the piece can be deleted.
LEMMA WipeKeeps ==
    ASSUME PiecesAssumption, SourceInv, NEW k \in Calls, Wipe(k)
    PROVE  SourceInv'
<1> DEFINE i == call[k].piece
<1>1. /\ CallsSound /\ promised = None /\ call[k].kind = "save" /\ call[k].kind # "none"
      /\ call[k].credential \in Credentials /\ i \in Nat /\ call[k].at # "idle"
      /\ i <= call[k].last /\ call[k].last \in Indices
    BY Saving, Kinds DEF Wipe, At
<1>2. /\ Delete(i) \/ UNCHANGED items
      /\ IF i = call[k].last THEN Return(k) ELSE Go(k, "wipe", i + 1)
      /\ UNCHANGED <<promised, cache, listed, filed>>
    BY DEF Wipe, Memory
<1>3. KeychainType'
    BY <1>2 DEF SourceInv, KeychainType, Delete
<1>4. CASE i = call[k].last
    BY <1>1, <1>2, <1>3, <1>4, ReturnMoves, WriterMoves
<1>5. CASE i # call[k].last
    <2>1. /\ DOMAIN call' = Calls /\ DOMAIN call'[k] = Fields
          /\ \A j \in Calls \ {k} : call'[j] = call[j]
          /\ call'[k].at = "wipe" /\ call'[k].piece = i + 1 /\ call'[k].last = call[k].last
          /\ call'[k].kind = "save" /\ call'[k].credential = call[k].credential
          /\ call'[k].alone = call[k].alone
        BY <1>1, <1>2, <1>5, GoMoves
    <2>2. i + 1 <= call[k].last /\ i + 1 \in 0..MaxPieces
        BY <1>1, <1>5 DEF PiecesAssumption, Indices
    <2>3. Sound(call'[k])
        BY <1>1, <2>1, <2>2 DEF Sound
    <2>4. Prepared(k)'
        BY <2>1 DEF Prepared, Saved
    <2> QED
        BY <1>1, <1>2, <1>3, <2>1, <2>3, <2>4, WriterMoves
<1> QED
    BY <1>4, <1>5

\* Trim: the pieces a longer credential left, one by one, up to the first that is not there.
LEMMA TrimKeeps ==
    ASSUME PiecesAssumption, SourceInv, NEW k \in Calls, Trim(k)
    PROVE  SourceInv'
<1> DEFINE i == call[k].piece
           c == call[k].credential
<1>1. /\ CallsSound /\ promised = None /\ call[k].kind = "save" /\ call[k].kind # "none"
      /\ c \in Credentials /\ i \in Nat /\ i \in 0..MaxPieces /\ call[k].at = "trim"
    BY Saving DEF Trim, At
<1>2. UNCHANGED <<promised, cache, listed, filed>>
    BY DEF Trim, Memory
<1>3. call[k].alone = TRUE =>
        /\ \A j \in 0..Pieces[c] - 1 : items[j] = <<c, j>>
        /\ Pieces[c] <= i
        /\ i > Pieces[c] => items[Pieces[c]] = None
    BY <1>1 DEF SourceInv, PreparedInv, Prepared, Saved
<1>4. CASE i < MaxPieces /\ items[i] # None
    <2>1. Delete(i) /\ Go(k, "trim", i + 1)
        BY <1>4 DEF Trim
    <2>2. /\ DOMAIN call' = Calls /\ DOMAIN call'[k] = Fields
          /\ \A j \in Calls \ {k} : call'[j] = call[j]
          /\ call'[k].at = "trim" /\ call'[k].piece = i + 1 /\ call'[k].kind = "save"
          /\ call'[k].credential = c /\ call'[k].alone = call[k].alone
        BY <1>1, <2>1, GoMoves
    <2>3. i \in Indices
        BY <1>1, <1>4, PieceBounds DEF Indices
    <2>4. /\ DOMAIN items' = Indices /\ items'[i] = None
          /\ \A j \in Indices \ {i} : items'[j] = items[j]
        BY <2>1, <2>3 DEF SourceInv, KeychainType, Delete
    <2>5. KeychainType'
        BY <1>2, <2>4 DEF SourceInv, KeychainType
    <2>6. Sound(call'[k])
        BY <1>1, <1>4, <2>2, PieceBounds DEF Sound
    <2>7. Prepared(k)'
        <3>1. SUFFICES ASSUME call[k].alone = TRUE
                       PROVE  Saved(k)'
            BY <2>2 DEF Prepared
        <3>2. ASSUME NEW j \in 0..Pieces[c] - 1
              PROVE  items'[j] = <<c, j>>
            BY <1>1, <1>3, <2>4, <3>1, PieceBounds
        <3>3. Pieces[c] <= i + 1
            BY <1>1, <1>3, <3>1, PieceBounds
        <3>4. i + 1 > Pieces[c] => items'[Pieces[c]] = None
            <4>1. CASE i = Pieces[c]
                BY <2>4, <4>1
            <4>2. CASE i > Pieces[c]
                BY <1>1, <1>3, <1>4, <2>4, <3>1, <4>2, PieceBounds
            <4> QED
                BY <1>1, <1>3, <3>1, <4>1, <4>2, PieceBounds
        <3> QED
            BY <2>2, <3>2, <3>3, <3>4 DEF Saved
    <2> QED
        BY <1>1, <1>2, <2>2, <2>5, <2>6, <2>7, WriterMoves
<1>5. CASE ~(i < MaxPieces /\ items[i] # None)
    <2>1. Go(k, "cache", 0) /\ UNCHANGED items
        BY <1>5 DEF Trim
    <2>2. /\ DOMAIN call' = Calls /\ DOMAIN call'[k] = Fields
          /\ \A j \in Calls \ {k} : call'[j] = call[j]
          /\ call'[k].at = "cache" /\ call'[k].piece = 0 /\ call'[k].kind = "save"
          /\ call'[k].credential = c /\ call'[k].alone = call[k].alone
        BY <1>1, <2>1, GoMoves
    <2>3. KeychainType'
        BY <1>2, <2>1 DEF SourceInv, KeychainType
    <2>4. Sound(call'[k])
        BY <1>1, <2>2, PieceBounds DEF Sound
    <2>5. Prepared(k)'
        <3>1. SUFFICES ASSUME call[k].alone = TRUE
                       PROVE  Whole(c)'
            BY <2>2 DEF Prepared, Saved
        <3>2. Pieces[c] < MaxPieces => items[Pieces[c]] = None
            BY <1>1, <1>3, <1>5, <3>1, PieceBounds
        <3>3. items' = items
            BY <2>1
        <3> QED
            BY <1>3, <2>2, <3>1, <3>2, <3>3 DEF Whole
    <2> QED
        BY <1>1, <1>2, <2>2, <2>3, <2>4, <2>5, WriterMoves
<1> QED
    BY <1>4, <1>5

\* TrimFails: a save that met an error.
LEMMA TrimFailsKeeps ==
    ASSUME PiecesAssumption, SourceInv, NEW k \in Calls, TrimFails(k)
    PROVE  SourceInv'
<1>1. /\ CallsSound /\ promised = None /\ call[k].kind = "save" /\ call[k].kind # "none"
      /\ call[k].credential \in Credentials
    BY Saving DEF TrimFails, At
<1>2. /\ call' = [call EXCEPT ![k].at = "cache", ![k].piece = 0, ![k].alone = FALSE]
      /\ UNCHANGED <<items, promised, cache, listed, filed>>
    BY DEF TrimFails, Keychain, Memory
<1>3. /\ DOMAIN call' = Calls /\ DOMAIN call'[k] = Fields
      /\ \A j \in Calls \ {k} : call'[j] = call[j]
      /\ call'[k].at = "cache" /\ call'[k].piece = 0 /\ call'[k].kind = "save"
      /\ call'[k].credential = call[k].credential /\ call'[k].alone = FALSE
    BY <1>1, <1>2 DEF CallsSound, Fields
<1>4. Sound(call'[k]) /\ Prepared(k)'
    BY <1>1, <1>3, PieceBounds DEF Sound, Prepared
<1>5. KeychainType'
    BY <1>2 DEF SourceInv, KeychainType
<1> QED
    BY <1>1, <1>2, <1>3, <1>4, <1>5, WriterMoves


------------------------------------------------------------------------------
(* cache_credential, remember_connection, forget_connection, disconnect *)

\* Cache, by a load of what was promised or by a save that nothing was promised beside.
LEMMA CacheKeeps ==
    ASSUME PiecesAssumption, ValuesAssumption, SourceInv, NEW k \in Calls, Cache(k)
    PROVE  SourceInv'
<1>1. /\ CallsSound /\ call[k].at = "cache" /\ call[k].kind \in {"load", "save"}
      /\ call[k].kind # "none" /\ call[k].credential \in Credentials \cup {Torn}
      /\ call[k].kind = "save" => call[k].credential \in Credentials
    BY Kinds DEF SourceInv, Cache, At
<1>2. /\ cache' = call[k].credential /\ Go(k, "list", 0)
      /\ UNCHANGED <<items, promised, listed, filed>>
    BY DEF Cache, Keychain
<1>3. /\ DOMAIN call' = Calls /\ DOMAIN call'[k] = Fields
      /\ \A j \in Calls \ {k} : call'[j] = call[j]
      /\ call'[k].at = "list" /\ call'[k].piece = 0 /\ call'[k].kind = call[k].kind
      /\ call'[k].credential = call[k].credential /\ call'[k].alone = call[k].alone
    BY <1>1, <1>2, GoMoves
<1>4. Sound(call'[k])
    BY <1>1, <1>3 DEF Sound, PiecesAssumption
<1>5. KeychainType'
    BY <1>1, <1>2 DEF SourceInv, KeychainType
<1>6. CASE call[k].kind = "save"
    <2>1. promised' = None
        BY <1>2, <1>6, Unpromised DEF SourceInv
    <2>2. Prepared(k)'
        <3>1. SUFFICES ASSUME call[k].alone = TRUE
                       PROVE  Saved(k)'
            BY <1>3, <1>6 DEF Prepared
        <3>2. Whole(call[k].credential)
            BY <1>1, <1>6, <3>1 DEF SourceInv, PreparedInv, Prepared, Saved
        <3> QED
            BY <1>2, <1>3, <3>2 DEF Saved, Whole
    <2> QED
        BY <1>1, <1>3, <1>4, <1>5, <2>1, <2>2, WriterMoves
<1>7. CASE call[k].kind = "load"
    <2>1. promised \in Credentials => call[k].credential = promised
        BY <1>1, Values DEF SourceInv, Kept, Loading
    <2>2. promised # Gone
        BY <1>1, Values DEF SourceInv, Kept, Loading
    <2>3. Loading(k)'
        BY <1>2, <1>3, <2>1, <2>2 DEF Loading
    <2>4. promised # None => Outcome'
        BY <1>2, <2>1, <2>2 DEF SourceInv, Kept, Outcome, Whole
    <2> QED
        BY <1>1, <1>2, <1>3, <1>4, <1>5, <1>7, <2>3, <2>4, LoadMoves
<1> QED
    BY <1>1, <1>6, <1>7

\* List: a save that met no other call and no error promises what it wrote.
LEMMA ListKeeps ==
    ASSUME PiecesAssumption, ValuesAssumption, SourceInv, NEW k \in Calls, List(k)
    PROVE  SourceInv'
<1>1. /\ CallsSound /\ call[k].at = "list" /\ call[k].kind \in {"load", "save"}
      /\ call[k].kind # "none" /\ call[k].credential \in Credentials \cup {Torn}
      /\ call[k].kind = "save" => call[k].credential \in Credentials
    BY Kinds DEF SourceInv, List, At
<1>2. /\ listed' = TRUE /\ UNCHANGED <<items, cache>> /\ Return(k)
      /\ \/ /\ filed' = TRUE
            /\ promised' = IF call[k].alone /\ call[k].kind # "load"
                           THEN call[k].credential ELSE promised
         \/ promised' = None /\ UNCHANGED filed
    BY DEF List, Done
<1>3. /\ DOMAIN call' = Calls /\ DOMAIN call'[k] = Fields
      /\ \A j \in Calls \ {k} : call'[j] = call[j]
      /\ call'[k] = Idle /\ Sound(call'[k]) /\ call'[k].alone = FALSE
      /\ call'[k].kind = "none" /\ Prepared(k)' /\ Loading(k)'
    BY <1>1, <1>2, ReturnMoves
<1>4. KeychainType'
    BY <1>1, <1>2 DEF SourceInv, KeychainType
<1>5. CASE promised' = None
    BY <1>1, <1>3, <1>4, <1>5, WriterMoves
<1>6. CASE promised' # None /\ call[k].kind = "load"
    <2>1. filed' = TRUE /\ promised' = promised
        BY <1>2, <1>6
    <2>2. promised # Gone
        BY <1>1, <1>6, <2>1, Values DEF SourceInv, Kept, Loading
    <2>3. promised # None => Outcome'
        BY <1>2, <2>1, <2>2 DEF SourceInv, Kept, Outcome, Whole
    <2> QED
        BY <1>1, <1>3, <1>4, <2>1, <2>3, LoadMoves
<1>7. CASE promised' # None /\ call[k].kind = "save"
    <2>1. promised = None
        BY <1>7, Unpromised DEF SourceInv
    <2>2. call[k].alone = TRUE /\ promised' = call[k].credential /\ filed' = TRUE
        <3>1. call[k].alone /\ promised' = call[k].credential /\ filed' = TRUE
            BY <1>2, <1>7, <2>1
        <3> QED
            BY <3>1
    <2>3. Whole(call[k].credential) /\ cache = call[k].credential
        BY <1>1, <1>7, <2>2 DEF SourceInv, PreparedInv, Prepared, Saved
    <2>4. Outcome'
        <3>1. Whole(promised)'
            BY <1>2, <2>2, <2>3 DEF Whole
        <3> QED
            BY <1>1, <1>2, <1>7, <2>2, <2>3, <3>1, Values DEF Outcome
    <2>5. ASSUME NEW j \in Calls
          PROVE  call'[j].kind \in {"none", "load"} /\ Loading(j)'
        <3>1. CASE j = k
            BY <1>3, <3>1
        <3>2. CASE j # k
            <4>1. call'[j] = call[j] /\ call[j].kind = "none"
                BY <1>1, <1>3, <2>2, <3>2 DEF CallsSound
            <4>2. call[j].at = "idle"
                BY <1>1, <4>1 DEF CallsSound, Sound, Resting
            <4> QED
                BY <4>1, <4>2 DEF Loading
        <3> QED
            BY <3>1, <3>2
    <2>6. Kept'
        BY <2>4, <2>5 DEF Kept
    <2>7. CallsSound' /\ PreparedInv'
        BY <1>1, <1>3, CallMoves DEF SourceInv
    <2> QED
        BY <1>4, <2>6, <2>7 DEF SourceInv
<1> QED
    BY <1>1, <1>5, <1>6, <1>7

\* Unlist, whether or not the file can be written.
LEMMA UnlistKeeps ==
    ASSUME PiecesAssumption, ValuesAssumption, SourceInv, NEW k \in Calls, Unlist(k)
    PROVE  SourceInv'
<1>1. /\ CallsSound /\ call[k].at = "unlist" /\ call[k].kind \in {"load", "disconnect"}
      /\ call[k].kind # "none"
    BY Kinds DEF SourceInv, Unlist, At
<1>2. listed' = FALSE /\ UNCHANGED <<items, cache>>
    BY DEF Unlist
<1>3. CASE filed' = FALSE /\ Go(k, "uncache", 0) /\ UNCHANGED promised
    <2>1. /\ DOMAIN call' = Calls /\ DOMAIN call'[k] = Fields
          /\ \A j \in Calls \ {k} : call'[j] = call[j]
          /\ call'[k].at = "uncache" /\ call'[k].piece = 0 /\ call'[k].kind = call[k].kind
          /\ call'[k].alone = call[k].alone
        BY <1>1, <1>3, GoMoves
    <2>2. Sound(call'[k])
        BY <1>1, <2>1 DEF Sound, PiecesAssumption
    <2>3. KeychainType'
        BY <1>2, <1>3 DEF SourceInv, KeychainType
    <2>4. CASE call[k].kind = "disconnect"
        <3>1. promised' = None
            BY <1>3, <2>4, Unpromised DEF SourceInv
        <3>2. Prepared(k)'
            BY <1>2, <1>3, <2>1, <2>4 DEF Prepared, Disconnected
        <3> QED
            BY <1>1, <2>1, <2>2, <2>3, <3>1, <3>2, WriterMoves
    <2>5. CASE call[k].kind = "load"
        <3>1. promised \notin Credentials
            BY <1>1, Values DEF SourceInv, Kept, Loading
        <3>2. Loading(k)'
            BY <1>3, <2>1, <3>1 DEF Loading
        <3>3. promised # None => Outcome'
            BY <1>2, <1>3, <3>1 DEF SourceInv, Kept, Outcome
        <3> QED
            BY <1>1, <1>3, <2>1, <2>2, <2>3, <2>5, <3>2, <3>3, LoadMoves
    <2> QED
        BY <1>1, <2>4, <2>5
<1>4. CASE /\ call' = [call EXCEPT ![k].at = "uncache", ![k].alone = FALSE]
           /\ promised' = None /\ UNCHANGED filed
    <2>1. /\ DOMAIN call' = Calls /\ DOMAIN call'[k] = Fields
          /\ \A j \in Calls \ {k} : call'[j] = call[j]
          /\ call'[k].at = "uncache" /\ call'[k].piece = call[k].piece
          /\ call'[k].kind = call[k].kind /\ call'[k].alone = FALSE
        BY <1>1, <1>4 DEF CallsSound, Fields
    <2>2. call[k].piece \in 0..MaxPieces
        BY <1>1, Kinds
    <2>3. Sound(call'[k]) /\ Prepared(k)'
        BY <1>1, <2>1, <2>2 DEF Sound, Prepared
    <2>4. KeychainType'
        BY <1>2, <1>4 DEF SourceInv, KeychainType
    <2> QED
        BY <1>1, <1>4, <2>1, <2>3, <2>4, WriterMoves
<1> QED
    BY <1>3, <1>4 DEF Unlist

\* Uncache, at the end of a load that found nothing or on the way of a disconnection.
LEMMA UncacheKeeps ==
    ASSUME PiecesAssumption, ValuesAssumption, SourceInv, NEW k \in Calls, Uncache(k)
    PROVE  SourceInv'
<1>1. /\ CallsSound /\ call[k].at = "uncache" /\ call[k].kind \in {"load", "disconnect"}
      /\ call[k].kind # "none"
    BY Kinds DEF SourceInv, Uncache, At
<1>2. /\ cache' = None /\ UNCHANGED <<items, promised, listed, filed>>
      /\ IF call[k].kind = "load" THEN Return(k) ELSE Go(k, "delete", 0)
    BY DEF Uncache, Keychain
<1>3. KeychainType'
    BY <1>2 DEF SourceInv, KeychainType
<1>4. CASE call[k].kind = "load"
    <2>1. promised \notin Credentials
        BY <1>1, Values DEF SourceInv, Kept, Loading
    <2>2. promised # None => Outcome'
        BY <1>2, <2>1 DEF SourceInv, Kept, Outcome
    <2>3. Return(k)
        BY <1>2, <1>4
    <2> QED
        BY <1>1, <1>2, <1>3, <2>2, <2>3, ReturnMoves, LoadMoves
<1>5. CASE call[k].kind = "disconnect"
    <2>1. /\ DOMAIN call' = Calls /\ DOMAIN call'[k] = Fields
          /\ \A j \in Calls \ {k} : call'[j] = call[j]
          /\ call'[k].at = "delete" /\ call'[k].piece = 0 /\ call'[k].kind = "disconnect"
          /\ call'[k].alone = call[k].alone
        BY <1>1, <1>2, <1>5, GoMoves
    <2>2. promised' = None
        BY <1>2, <1>5, Unpromised DEF SourceInv
    <2>3. Sound(call'[k])
        BY <2>1 DEF Sound, PiecesAssumption
    <2>4. Prepared(k)'
        BY <1>1, <1>2, <1>5, <2>1
        DEF SourceInv, PreparedInv, Prepared, Disconnected
    <2> QED
        BY <1>1, <1>3, <2>1, <2>2, <2>3, <2>4, WriterMoves
<1> QED
    BY <1>1, <1>4, <1>5

\* DeletePiece: a disconnection that met no other call and no error promises that
\* nothing is left.
LEMMA DeletePieceKeeps ==
    ASSUME PiecesAssumption, ValuesAssumption, SourceInv, NEW k \in Calls, DeletePiece(k)
    PROVE  SourceInv'
<1> DEFINE i == call[k].piece
<1>1. /\ CallsSound /\ call[k].at = "delete" /\ call[k].kind = "disconnect"
      /\ call[k].kind # "none" /\ i \in 0..MaxPieces /\ promised = None
    BY Kinds, Unpromised DEF SourceInv, DeletePiece, At
<1>2. UNCHANGED <<cache, listed, filed>>
    BY DEF DeletePiece, Memory
<1>3. CASE i = MaxPieces \/ (i > 0 /\ items[i] = None)
    <2>1. /\ Return(k) /\ UNCHANGED items
          /\ promised' = IF call[k].alone /\ call[k].kind # "load" THEN Gone ELSE promised
        BY <1>3 DEF DeletePiece, Done
    <2>2. /\ DOMAIN call' = Calls /\ DOMAIN call'[k] = Fields
          /\ \A j \in Calls \ {k} : call'[j] = call[j]
          /\ call'[k] = Idle /\ Sound(call'[k]) /\ call'[k].alone = FALSE
          /\ call'[k].kind = "none" /\ Prepared(k)' /\ Loading(k)'
        BY <1>1, <2>1, ReturnMoves
    <2>3. KeychainType'
        BY <1>1, <1>2, <2>1 DEF SourceInv, KeychainType
    <2>4. CASE promised' = None
        BY <1>1, <2>2, <2>3, <2>4, WriterMoves
    <2>5. CASE promised' # None
        <3>1. call[k].alone = TRUE /\ promised' = Gone
            <4>1. call[k].alone /\ promised' = Gone
                BY <1>1, <2>1, <2>5
            <4> QED
                BY <4>1
        <3>2. ~listed /\ ~filed /\ cache = None /\ items[0] = None
            <4>1. i > 0
                BY <1>3 DEF PiecesAssumption
            <4> QED
                BY <1>1, <3>1, <4>1 DEF SourceInv, PreparedInv, Prepared, Disconnected
        <3>3. Outcome'
            BY <1>2, <2>1, <3>1, <3>2, Values DEF Outcome
        <3>4. ASSUME NEW j \in Calls
              PROVE  call'[j].kind \in {"none", "load"} /\ Loading(j)'
            <4>1. CASE j = k
                BY <2>2, <4>1
            <4>2. CASE j # k
                <5>1. call'[j] = call[j] /\ call[j].kind = "none"
                    BY <1>1, <2>2, <3>1, <4>2 DEF CallsSound
                <5>2. call[j].at = "idle"
                    BY <1>1, <5>1 DEF CallsSound, Sound, Resting
                <5> QED
                    BY <5>1, <5>2 DEF Loading
            <4> QED
                BY <4>1, <4>2
        <3>5. Kept'
            BY <3>3, <3>4 DEF Kept
        <3>6. CallsSound' /\ PreparedInv'
            BY <1>1, <2>2, CallMoves DEF SourceInv
        <3> QED
            BY <2>3, <3>5, <3>6 DEF SourceInv
    <2> QED
        BY <2>4, <2>5
<1>4. CASE ~(i = MaxPieces \/ (i > 0 /\ items[i] = None))
    <2>1. Delete(i) /\ Go(k, "delete", i + 1) /\ promised' = None
        BY <1>1, <1>4 DEF DeletePiece
    <2>2. /\ DOMAIN call' = Calls /\ DOMAIN call'[k] = Fields
          /\ \A j \in Calls \ {k} : call'[j] = call[j]
          /\ call'[k].at = "delete" /\ call'[k].piece = i + 1 /\ call'[k].kind = "disconnect"
          /\ call'[k].alone = call[k].alone
        BY <1>1, <2>1, GoMoves
    <2>3. /\ i \in Indices /\ DOMAIN items' = Indices /\ items'[i] = None
          /\ \A j \in Indices \ {i} : items'[j] = items[j]
        BY <1>1, <1>4, <2>1 DEF SourceInv, KeychainType, Delete, Indices, PiecesAssumption
    <2>4. KeychainType'
        BY <1>1, <1>2, <2>1, <2>3 DEF SourceInv, KeychainType
    <2>5. Sound(call'[k])
        BY <1>1, <1>4, <2>2 DEF Sound, PiecesAssumption
    <2>6. Prepared(k)'
        <3>1. SUFFICES ASSUME call[k].alone = TRUE
                       PROVE  Disconnected(k)'
            BY <2>2 DEF Prepared
        <3>2. ~listed /\ ~filed /\ cache = None /\ (i > 0 => items[0] = None)
            BY <1>1, <3>1 DEF SourceInv, PreparedInv, Prepared, Disconnected
        <3>3. items'[0] = None
            BY <1>1, <2>3, <3>2 DEF Indices, PiecesAssumption
        <3> QED
            BY <1>2, <2>2, <3>2, <3>3 DEF Disconnected
    <2> QED
        BY <1>1, <2>1, <2>2, <2>4, <2>5, <2>6, WriterMoves
<1> QED
    BY <1>3, <1>4

------------------------------------------------------------------------------
(* Around it *)

\* UserClears: no call has met only what it did itself.
LEMMA ClearsKeeps ==
    ASSUME SourceInv, NEW i \in Indices, UserClears(i)
    PROVE  SourceInv'
<1>1. /\ Delete(i) /\ promised' = None /\ UNCHANGED <<cache, listed, filed>>
      /\ call' = [k \in Calls |-> [call[k] EXCEPT !.alone = FALSE]]
    BY DEF UserClears, Memory
<1>2. ASSUME NEW k \in Calls
      PROVE  /\ DOMAIN call'[k] = Fields /\ call'[k].alone = FALSE
             /\ Sound(call'[k]) /\ Prepared(k)'
    <2>1. DOMAIN call[k] = Fields /\ Sound(call[k])
        BY DEF SourceInv, CallsSound
    <2>2. /\ DOMAIN call'[k] = Fields /\ call'[k].alone = FALSE
          /\ call'[k].kind = call[k].kind /\ call'[k].at = call[k].at
          /\ call'[k].piece = call[k].piece /\ call'[k].last = call[k].last
          /\ call'[k].credential = call[k].credential
        BY <1>1, <2>1 DEF Fields
    <2> QED
        BY <2>1, <2>2 DEF Sound, Resting, Prepared
<1>3. CallsSound' /\ PreparedInv'
    BY <1>1, <1>2 DEF CallsSound, PreparedInv
<1>4. KeychainType'
    BY <1>1 DEF SourceInv, KeychainType, Delete
<1> QED
    BY <1>1, <1>3, <1>4 DEF SourceInv, Kept

\* Restart: what was listed in the file is listed, and nothing is under way.
LEMMA RestartKeeps ==
    ASSUME SourceInv, Restart
    PROVE  SourceInv'
<1>1. /\ DOMAIN call' = Calls /\ \A k \in Calls : call'[k] = Idle
      /\ cache' = None /\ listed' = filed /\ UNCHANGED <<items, filed, promised>>
    BY DEF Restart
<1>2. ASSUME NEW k \in Calls
      PROVE  /\ DOMAIN call'[k] = Fields /\ call'[k].alone = FALSE /\ call'[k].kind = "none"
             /\ Sound(call'[k]) /\ Prepared(k)' /\ Loading(k)'
    BY <1>1, IdleIs DEF Prepared, Loading
<1>3. CallsSound' /\ PreparedInv'
    BY <1>1, <1>2 DEF CallsSound, PreparedInv
<1>4. promised # None => Outcome'
    BY <1>1 DEF SourceInv, Kept, Outcome, Whole
<1>5. Kept'
    BY <1>1, <1>2, <1>4 DEF Kept
<1>6. KeychainType'
    BY <1>1 DEF SourceInv, KeychainType
<1> QED
    BY <1>3, <1>5, <1>6 DEF SourceInv

\* The program starts with an empty keychain and no command.
LEMMA SourceInit ==
    ASSUME Init
    PROVE  SourceInv
<1>1. /\ DOMAIN items = Indices /\ \A i \in Indices : items[i] = None
      /\ DOMAIN call = Calls /\ \A k \in Calls : call[k] = Idle
      /\ cache = None /\ listed = FALSE /\ filed = FALSE /\ promised = None
    BY DEF Init
<1>2. CallsSound /\ PreparedInv
    BY <1>1, IdleIs DEF CallsSound, PreparedInv, Prepared
<1>3. KeychainType /\ Kept
    BY <1>1 DEF KeychainType, Kept
<1> QED
    BY <1>2, <1>3 DEF SourceInv

\* Every step of the commands, of the user and of the system.
LEMMA SourceNext ==
    ASSUME PiecesAssumption, ValuesAssumption, SourceInv, [Next]_vars
    PROVE  SourceInv'
<1>1. ASSUME NEW k \in Calls, Step(k)
      PROVE  SourceInv'
    <2>1. CASE \E c \in Credentials : Save(k, c)
        BY <2>1, WriterBegins DEF Save
    <2>2. CASE Disconnect(k)
        BY <2>2, WriterBegins DEF Disconnect
    <2>3. CASE Load(k) \/ Read(k)
        BY <2>3, LoadKeeps, ReadKeeps
    <2>4. CASE ReadFails(k) \/ OpenFails(k) \/ DeleteFails(k)
        BY <2>4, FailsKeeps
    <2>5. CASE Write(k) \/ WriteFails(k) \/ Wipe(k) \/ Trim(k) \/ TrimFails(k)
        BY <2>5, WriteKeeps, WriteFailsKeeps, WipeKeeps, TrimKeeps, TrimFailsKeeps
    <2>6. CASE Cache(k) \/ List(k) \/ Unlist(k) \/ Uncache(k) \/ DeletePiece(k)
        BY <2>6, CacheKeeps, ListKeeps, UnlistKeeps, UncacheKeeps, DeletePieceKeeps
    <2> QED
        BY <1>1, <2>1, <2>2, <2>3, <2>4, <2>5, <2>6 DEF Step
<1>2. ASSUME UNCHANGED vars
      PROVE  SourceInv'
    <2>1. UNCHANGED <<items, cache, listed, filed, call, promised>>
        BY <1>2 DEF vars
    <2> QED
        BY <2>1 DEF SourceInv, KeychainType, CallsSound, PreparedInv, Prepared, Saved,
                    Disconnected, Kept, Loading, Outcome, Whole
<1> QED
    BY <1>1, <1>2, ClearsKeeps, RestartKeeps DEF Next

\* The pieces in the keychain, what is cached, the list and its file agree with where each
\* command is, for any number of commands, credentials and pieces.
THEOREM SourceInvariant ==
    ASSUME PiecesAssumption, ValuesAssumption
    PROVE  Spec => []SourceInv
BY SourceInit, SourceNext, PTL DEF Spec

\* The keychain of a credential that is whole reads back as its pieces.
LEMMA JoinedWhole ==
    ASSUME PiecesAssumption, ValuesAssumption, NEW c \in Credentials, Whole(c)
    PROVE  Joined = Split(c)
<1> DEFINE missing == {i \in Indices : items[i] = None}
           end == IF missing = {} THEN MaxPieces
                  ELSE CHOOSE i \in missing : \A j \in missing : i <= j
<1>1. Joined = [i \in 1..end |-> items[i - 1]]
    BY DEF Joined
<1>2. \A i \in 0..Pieces[c] - 1 : i \in Nat /\ items[i] = <<c, i>> /\ items[i] # None
    <2>1. \A i \in 0..Pieces[c] - 1 : i \in Nat
        BY PieceBounds
    <2> QED
        BY <2>1, Values DEF Whole
<1>3. \A i \in missing : i \in Nat /\ Pieces[c] <= i /\ i < MaxPieces
    BY <1>2, PieceBounds DEF Indices
<1>4. end = Pieces[c]
    <2>1. CASE missing = {}
        <3>1. ~(Pieces[c] < MaxPieces)
            BY <2>1, PieceBounds DEF Whole
        <3> QED
            BY <2>1, <3>1, PieceBounds
    <2>2. CASE missing # {}
        <3>1. Pieces[c] < MaxPieces
            BY <1>3, <2>2, PieceBounds
        <3>2. Pieces[c] \in missing /\ \A j \in missing : Pieces[c] <= j
            BY <1>3, <3>1, PieceBounds DEF Whole
        <3>3. end \in missing /\ \A j \in missing : end <= j
            BY <2>2, <3>2
        <3> HIDE DEF missing, end
        <3> QED
            BY <1>3, <3>2, <3>3, PieceBounds
    <2> QED
        BY <2>1, <2>2
<1> HIDE DEF end
<1>5. \A i \in 1..Pieces[c] : items[i - 1] = <<c, i - 1>>
    BY <1>2, PieceBounds
<1> QED
    BY <1>1, <1>4, <1>5 DEF Split

\* A keychain without its first piece reads as nothing.
LEMMA JoinedNothing ==
    ASSUME PiecesAssumption, items[0] = None
    PROVE  Joined = <<>>
<1> DEFINE missing == {i \in Indices : items[i] = None}
           end == IF missing = {} THEN MaxPieces
                  ELSE CHOOSE i \in missing : \A j \in missing : i <= j
<1>1. Joined = [i \in 1..end |-> items[i - 1]]
    BY DEF Joined
<1>2. 0 \in missing /\ \A j \in missing : 0 <= j
    BY DEF Indices, PiecesAssumption
<1>3. end \in missing /\ \A j \in missing : end <= j
    BY <1>2
<1>4. \A j \in missing : j \in Nat
    BY DEF Indices, PiecesAssumption
<1> HIDE DEF missing, end
<1>5. end = 0
    BY <1>2, <1>3, <1>4
<1> QED
    BY <1>1, <1>5

\* SourceCredentials!LastCallHolds, which run library checks on two commands and two
\* credentials: a save that met no other call and no error reads back whole, after a restart
\* too, and a disconnection leaves nothing to read, whatever was in the keychain before.
THEOREM LastCallStands ==
    ASSUME PiecesAssumption, ValuesAssumption
    PROVE  Spec => []LastCallHolds
<1>1. ASSUME SourceInv
      PROVE  LastCallHolds
    <2>1. ASSUME promised \in Credentials
          PROVE  Joined = Split(promised) /\ cache \in {None, promised} /\ listed
        BY <1>1, <2>1, Values, JoinedWhole DEF SourceInv, Kept, Outcome
    <2>2. ASSUME promised = Gone
          PROVE  Joined = <<>> /\ cache = None /\ ~listed
        BY <1>1, <2>2, Values, JoinedNothing DEF SourceInv, Kept, Outcome
    <2> QED
        BY <2>1, <2>2 DEF LastCallHolds
<1> QED
    BY <1>1, SourceInvariant, PTL

------------------------------------------------------------------------------
(* SourceLogin                                                              *)
(*                                                                          *)
(* An outcome is recorded once, and is taken once, by whoever polls first.  *)
(* So the invariant says what an outcome that still waits in its slot has   *)
(* in common with what was announced.                                       *)

Outcomes == {L!Connected, L!Failed, L!Closed}
Sayings == {L!Connected, L!Failed, L!Closed, L!Late}
Verdicts(s) == told[s] \ {L!Late}

\* No verdict is told of a sign-in that is not settled; what is told of one is one
\* outcome, and it is what the slot holds until it is taken.
VerdictInv ==
    \A s \in Calls :
        /\ s \notin settled => slot[s] = None /\ Verdicts(s) = {}
        /\ Verdicts(s) = {} \/ \E outcome \in Outcomes : Verdicts(s) = {outcome}
        /\ slot[s] # None => Verdicts(s) = {slot[s]}

\* Whoever may say "connected" has the credential saved.
SavedInv ==
    \A s \in Calls :
        /\ exchange[s] = L!Connected => s \in saved
        /\ L!Connected \in told[s] => s \in saved

LoginInv == L!TypeOK /\ VerdictInv /\ SavedInv

------------------------------------------------------------------------------

\* An outcome that is settled for the first time is told, and later ones are not.
LEMMA SettleKeeps ==
    ASSUME L!NoneAssumption, LoginInv, NEW s \in Calls, NEW outcome \in Outcomes,
           L!Settle(s, outcome), UNCHANGED saved, outcome = L!Connected => s \in saved
    PROVE  /\ settled' \subseteq Calls
           /\ slot' \in [Calls -> {None, L!Connected, L!Failed, L!Closed}]
           /\ told' \in [Calls -> SUBSET Sayings]
           /\ VerdictInv'
           /\ \A x \in Calls : L!Connected \in told'[x] => x \in saved
<1>1. /\ settled \subseteq Calls
      /\ slot \in [Calls -> {None, L!Connected, L!Failed, L!Closed}]
      /\ told \in [Calls -> SUBSET Sayings]
    BY DEF LoginInv, L!TypeOK, Sayings
<1>2. settled' = settled \cup {s}
    BY DEF L!Settle
<1>3. CASE s \in settled
    <2>1. UNCHANGED <<slot, told>> /\ settled' = settled
        BY <1>2, <1>3 DEF L!Settle
    <2>2. VerdictInv'
        BY <2>1 DEF LoginInv, VerdictInv, Verdicts
    <2> QED
        BY <1>1, <2>1, <2>2 DEF LoginInv, SavedInv
<1>4. CASE s \notin settled
    <2>1. slot[s] = None /\ Verdicts(s) = {}
        BY <1>4 DEF LoginInv, VerdictInv
    <2>2. /\ slot' = [slot EXCEPT ![s] = outcome]
          /\ told' = [told EXCEPT ![s] = @ \cup {outcome}]
        BY <1>4 DEF L!Settle
    <2>3. /\ slot' \in [Calls -> {None, L!Connected, L!Failed, L!Closed}] /\ slot'[s] = outcome
          /\ \A x \in Calls \ {s} : slot'[x] = slot[x]
        BY <1>1, <2>2 DEF Outcomes
    <2>4. /\ told' \in [Calls -> SUBSET Sayings] /\ told'[s] = told[s] \cup {outcome}
          /\ \A x \in Calls \ {s} : told'[x] = told[x]
        BY <1>1, <2>2 DEF Outcomes, Sayings
    <2>7. Verdicts(s)' = {outcome} /\ \A x \in Calls \ {s} : Verdicts(x)' = Verdicts(x)
        <3>1. outcome # L!Late
            BY DEF Outcomes, L!Connected, L!Failed, L!Closed, L!Late
        <3> QED
            BY <2>1, <2>4, <3>1 DEF Verdicts
    <2>5. VerdictInv'
        BY <1>2, <2>3, <2>7 DEF LoginInv, VerdictInv
    <2>6. \A x \in Calls : L!Connected \in told'[x] => x \in saved
        <3>1. ASSUME NEW x \in Calls, L!Connected \in told'[x]
              PROVE  x \in saved
            <4>1. CASE x = s /\ outcome = L!Connected
                BY <4>1
            <4>2. CASE x = s /\ outcome # L!Connected
                <5>1. L!Connected \in told[s]
                    BY <2>4, <3>1, <4>2
                <5> QED
                    BY <4>2, <5>1 DEF LoginInv, SavedInv
            <4>3. CASE x # s
                BY <2>4, <3>1, <4>3 DEF LoginInv, SavedInv
            <4> QED
                BY <4>1, <4>2, <4>3
        <3> QED
            BY <3>1
    <2> QED
        BY <1>1, <1>2, <2>3, <2>4, <2>5, <2>6
<1> QED
    BY <1>3, <1>4

\* The steps that settle nothing and take nothing: no verdict is said.
LEMMA RestKeeps ==
    ASSUME LoginInv, L!TypeOK', UNCHANGED <<settled, slot>>, saved \subseteq saved',
           \A s \in Calls : told'[s] \in {told[s], told[s] \cup {L!Late}},
           \A s \in Calls :
               exchange'[s] = L!Connected => exchange[s] = L!Connected \/ s \in saved'
    PROVE  LoginInv'
<1>1. VerdictInv'
    <2>1. \A s \in Calls : Verdicts(s)' = Verdicts(s)
        BY DEF Verdicts
    <2> QED
        BY <2>1 DEF LoginInv, VerdictInv
<1>2. SavedInv'
    <2>1. \A s \in Calls : L!Connected \in told'[s] => L!Connected \in told[s]
        BY DEF L!Connected, L!Late
    <2> QED
        BY <2>1 DEF LoginInv, SavedInv
<1> QED
    BY <1>1, <1>2 DEF LoginInv

\* Connect, Build, Deadline, Remove: who waits, and for which window.
LEMMA WaitKeeps ==
    ASSUME L!NoneAssumption, LoginInv, NEW c \in Calls,
           L!Connect(c) \/ L!Build(c) \/ L!Deadline(c) \/ L!Remove(c)
    PROVE  LoginInv'
<1>1. UNCHANGED <<exchange, settled, slot, saved>>
    BY DEF L!Connect, L!Build, L!Deadline, L!Remove
<1>6. /\ told' \in [Calls -> SUBSET Sayings]
      /\ \A s \in Calls : told'[s] \in {told[s], told[s] \cup {L!Late}}
    <2>1. told \in [Calls -> SUBSET Sayings]
        BY DEF LoginInv, L!TypeOK, Sayings
    <2>2. told' = told \/ told' = [told EXCEPT ![session[c]] = @ \cup {L!Late}]
        BY DEF L!Connect, L!Build, L!Deadline, L!Remove
    <2>3. L!Late \in Sayings
        BY DEF Sayings
    <2> QED
        BY <2>1, <2>2, <2>3
<1>2. /\ wait' \in [Calls -> {"new", "build", "owner", "joined", "remove", "done"}]
      /\ session' \in [Calls -> Calls]
    <2>1. ASSUME L!Connect(c)
          PROVE  /\ wait' \in [Calls -> {"new", "build", "owner", "joined", "remove", "done"}]
                   /\ session' \in [Calls -> Calls]
        BY <2>1 DEF L!Connect, LoginInv, L!TypeOK
    <2>2. ASSUME L!Build(c)
          PROVE  /\ wait' \in [Calls -> {"new", "build", "owner", "joined", "remove", "done"}]
                   /\ session' \in [Calls -> Calls]
        BY <2>2 DEF L!Build, LoginInv, L!TypeOK
    <2>3. ASSUME L!Deadline(c) \/ L!Remove(c)
          PROVE  /\ wait' \in [Calls -> {"new", "build", "owner", "joined", "remove", "done"}]
                   /\ session' \in [Calls -> Calls]
        BY <2>3 DEF L!Deadline, L!Answered, L!Remove, LoginInv, L!TypeOK
    <2> QED
        BY <2>1, <2>2, <2>3
<1>3. /\ logins \in Calls \cup {None} /\ window \in Calls \cup {None}
      /\ closing \in BOOLEAN /\ (closing => window # None) /\ c # None
    BY DEF LoginInv, L!TypeOK, L!NoneAssumption
<1>4. /\ logins' \in Calls \cup {None} /\ window' \in Calls \cup {None}
      /\ closing' \in BOOLEAN /\ (closing' => window' # None)
    <2>1. CASE UNCHANGED <<window, closing>>
        <3>1. logins' \in {logins, c, None}
            BY DEF L!Connect, L!Build, L!Deadline, L!Remove
        <3> QED
            BY <1>3, <2>1, <3>1
    <2>2. CASE L!Connect(c) /\ ~UNCHANGED <<window, closing>>
        <3>1. logins' = c /\ window' = window /\ closing' = (window # None)
            BY <2>2 DEF L!Connect
        <3> QED
            BY <1>3, <3>1
    <2>3. CASE L!Build(c) /\ ~UNCHANGED <<window, closing>>
        <3>1. logins' = logins /\ window' = c /\ closing' = closing
            BY <2>3 DEF L!Build
        <3> QED
            BY <1>3, <3>1
    <2> QED
        BY <2>1, <2>2, <2>3 DEF L!Deadline, L!Remove
<1>5. L!TypeOK'
    BY <1>1, <1>2, <1>4, <1>6 DEF LoginInv, L!TypeOK, Sayings
<1> QED
    BY <1>1, <1>5, <1>6, RestKeeps

\* Take: the outcome that was told is told again.
LEMMA TakeKeeps ==
    ASSUME LoginInv, NEW c \in Calls, L!Take(c)
    PROVE  LoginInv'
<1> SUFFICES ASSUME NEW s, s = session[c] PROVE LoginInv'
    OBVIOUS
<1>1. /\ s \in Calls /\ slot[s] # None /\ slot' = [slot EXCEPT ![s] = None]
      /\ told' = [told EXCEPT ![s] = @ \cup {slot[s]}] /\ L!Answered(c)
      /\ UNCHANGED <<session, logins, window, closing, exchange, settled, saved>>
    BY DEF L!Take, LoginInv, L!TypeOK
<1>2. /\ wait \in [Calls -> {"new", "build", "owner", "joined", "remove", "done"}]
      /\ slot \in [Calls -> {None, L!Connected, L!Failed, L!Closed}]
      /\ told \in [Calls -> SUBSET Sayings]
      /\ slot[s] \in told[s] /\ s \in settled
    BY <1>1 DEF LoginInv, L!TypeOK, VerdictInv, Verdicts, Sayings
<1>3. UNCHANGED told
    BY <1>1, <1>2
<1>4. /\ slot' \in [Calls -> {None, L!Connected, L!Failed, L!Closed}] /\ slot'[s] = None
      /\ \A x \in Calls \ {s} : slot'[x] = slot[x]
    BY <1>1, <1>2
<1>5. wait' \in [Calls -> {"new", "build", "owner", "joined", "remove", "done"}]
    BY <1>1, <1>2 DEF L!Answered
<1>6. L!TypeOK'
    BY <1>1, <1>3, <1>4, <1>5 DEF LoginInv, L!TypeOK
<1>7. VerdictInv'
    BY <1>1, <1>3, <1>4 DEF LoginInv, VerdictInv, Verdicts
<1>8. SavedInv'
    BY <1>1, <1>3 DEF LoginInv, SavedInv
<1> QED
    BY <1>6, <1>7, <1>8 DEF LoginInv

\* CloseWindow, BeginExchange, Exchange: nothing is said yet; a credential may be saved.
LEMMA WindowKeeps ==
    ASSUME LoginInv,
           L!CloseWindow \/ \E s \in Calls : L!BeginExchange(s) \/ L!Exchange(s)
    PROVE  LoginInv'
<1>1. ASSUME L!CloseWindow PROVE LoginInv'
    <2>1. UNCHANGED <<wait, session, logins, window, exchange, settled, slot, saved, told>>
          /\ closing' = TRUE /\ window # None
        BY <1>1 DEF L!CloseWindow
    <2>2. L!TypeOK'
        BY <2>1 DEF LoginInv, L!TypeOK
    <2> QED
        BY <2>1, <2>2, RestKeeps
<1>2. ASSUME NEW s \in Calls, L!BeginExchange(s) PROVE LoginInv'
    <2>1. UNCHANGED <<wait, session, logins, window, closing, settled, slot, saved, told>>
          /\ exchange' = [exchange EXCEPT ![s] = "running"]
        BY <1>2 DEF L!BeginExchange
    <2>2. /\ exchange' \in [Calls -> {"none", "running", L!Connected, L!Failed, "over"}]
          /\ \A x \in Calls : exchange'[x] = L!Connected => exchange[x] = L!Connected
        BY <2>1 DEF LoginInv, L!TypeOK, L!Connected
    <2>3. L!TypeOK'
        BY <2>1, <2>2 DEF LoginInv, L!TypeOK
    <2> QED
        BY <2>1, <2>2, <2>3, RestKeeps
<1>3. ASSUME NEW s \in Calls, L!Exchange(s) PROVE LoginInv'
    <2>1. UNCHANGED <<wait, session, logins, window, closing, settled, slot, told>>
        BY <1>3 DEF L!Exchange
    <2>2. /\ exchange' \in [Calls -> {"none", "running", L!Connected, L!Failed, "over"}]
          /\ saved' \subseteq Calls /\ saved \subseteq saved'
          /\ \A x \in Calls :
               exchange'[x] = L!Connected => exchange[x] = L!Connected \/ x \in saved'
        BY <1>3 DEF L!Exchange, LoginInv, L!TypeOK, L!Connected, L!Failed
    <2>3. L!TypeOK'
        BY <2>1, <2>2 DEF LoginInv, L!TypeOK
    <2> QED
        BY <2>1, <2>2, <2>3, RestKeeps
<1> QED
    BY <1>1, <1>2, <1>3

\* Destroyed, SettleExchange: an outcome, of the window or of the exchange.
LEMMA OutcomeKeeps ==
    ASSUME L!NoneAssumption, LoginInv, L!Destroyed \/ \E s \in Calls : L!SettleExchange(s)
    PROVE  LoginInv'
<1>1. ASSUME L!Destroyed PROVE LoginInv'
    <2>1. /\ window \in Calls /\ window' = None /\ closing' = FALSE
          /\ L!Settle(window, L!Closed) /\ UNCHANGED <<wait, session, logins, exchange, saved>>
        BY <1>1 DEF L!Destroyed, LoginInv, L!TypeOK
    <2>2. L!Closed \in Outcomes /\ L!Closed # L!Connected
        BY DEF Outcomes, L!Closed, L!Connected
    <2>3. /\ settled' \subseteq Calls
          /\ slot' \in [Calls -> {None, L!Connected, L!Failed, L!Closed}]
          /\ told' \in [Calls -> SUBSET Sayings]
          /\ VerdictInv'
          /\ \A x \in Calls : L!Connected \in told'[x] => x \in saved
        BY <2>1, <2>2, SettleKeeps
    <2>4. L!TypeOK'
        BY <2>1, <2>3 DEF LoginInv, L!TypeOK, Sayings
    <2>5. SavedInv'
        BY <2>1, <2>3 DEF LoginInv, SavedInv
    <2> QED
        BY <2>3, <2>4, <2>5 DEF LoginInv
<1>2. ASSUME NEW s \in Calls, L!SettleExchange(s) PROVE LoginInv'
    <2> SUFFICES ASSUME NEW outcome, outcome = exchange[s] PROVE LoginInv'
        OBVIOUS
    <2>1. /\ outcome \in {L!Connected, L!Failed} /\ L!Settle(s, outcome)
          /\ exchange' = [exchange EXCEPT ![s] = "over"]
          /\ closing' = (closing \/ (s \notin settled /\ window # None))
          /\ UNCHANGED <<wait, session, logins, window, saved>>
        BY <1>2 DEF L!SettleExchange
    <2>2. outcome \in Outcomes /\ (outcome = L!Connected => s \in saved)
        BY <2>1 DEF Outcomes, LoginInv, SavedInv
    <2>3. /\ settled' \subseteq Calls
          /\ slot' \in [Calls -> {None, L!Connected, L!Failed, L!Closed}]
          /\ told' \in [Calls -> SUBSET Sayings]
          /\ VerdictInv'
          /\ \A x \in Calls : L!Connected \in told'[x] => x \in saved
        BY <2>1, <2>2, SettleKeeps
    <2>4. /\ exchange' \in [Calls -> {"none", "running", L!Connected, L!Failed, "over"}]
          /\ \A x \in Calls : exchange'[x] = L!Connected => exchange[x] = L!Connected
        BY <2>1 DEF LoginInv, L!TypeOK, L!Connected
    <2>5. closing' \in BOOLEAN /\ (closing' => window' # None)
        BY <2>1 DEF LoginInv, L!TypeOK
    <2>6. L!TypeOK'
        BY <2>1, <2>3, <2>4, <2>5 DEF LoginInv, L!TypeOK, Sayings
    <2>7. SavedInv'
        BY <2>1, <2>3, <2>4 DEF LoginInv, SavedInv
    <2> QED
        BY <2>3, <2>6, <2>7 DEF LoginInv
<1> QED
    BY <1>1, <1>2

------------------------------------------------------------------------------
(* The theorems *)

\* Nobody signed in.
LEMMA InitKeeps ==
    ASSUME L!Init
    PROVE  LoginInv
<1>1. L!TypeOK
    BY DEF L!Init, L!TypeOK
<1>2. VerdictInv
    BY DEF L!Init, VerdictInv, Verdicts
<1>3. SavedInv
    BY DEF L!Init, SavedInv, L!Connected
<1> QED
    BY <1>1, <1>2, <1>3 DEF LoginInv

\* Every step keeps the invariant.
LEMMA NextKeeps ==
    ASSUME L!NoneAssumption, LoginInv, [L!Next]_(L!vars)
    PROVE  LoginInv'
<1>1. CASE UNCHANGED L!vars
    <2>1. L!TypeOK'
        BY <1>1 DEF LoginInv, L!TypeOK, L!vars
    <2> QED
        BY <1>1, <2>1, RestKeeps DEF L!vars
<1>2. CASE L!Next
    BY <1>2, WaitKeeps, TakeKeeps, WindowKeeps, OutcomeKeeps DEF L!Next
<1> QED
    BY <1>1, <1>2

\* An outcome is recorded, announced and taken once, however many calls there are.
THEOREM LoginInvariant ==
    ASSUME L!NoneAssumption
    PROVE  L!Spec => []LoginInv
<1>1. L!Init => LoginInv
    BY InitKeeps
<1>2. LoginInv /\ [L!Next]_(L!vars) => LoginInv'
    BY NextKeeps
<1> QED
    BY <1>1, <1>2, PTL DEF L!Spec

\* Every variable keeps its type.
THEOREM LoginTypes ==
    ASSUME L!NoneAssumption
    PROVE  L!Spec => []L!TypeOK
<1>1. LoginInv => L!TypeOK
    BY DEF LoginInv
<1> QED
    BY <1>1, LoginInvariant, PTL

\* Callers and events never disagree on how a sign-in ended, and none says it is
\* connected before its credential is saved.
THEOREM OneVerdictEach ==
    ASSUME L!NoneAssumption
    PROVE  L!Spec => []L!OneVerdict
<1>1. LoginInv => L!OneVerdict
    BY DEF LoginInv, VerdictInv, Verdicts, SavedInv, L!OneVerdict
<1> QED
    BY <1>1, LoginInvariant, PTL

------------------------------------------------------------------------------
(* CatalogMigration *)

\* What the library shows of the game once its ids are rewritten.
Media2(states) == M!Under(OldId, states).media \cup M!Under(NewId, states).media
Selected(states) ==
    IF M!Under(OldId, states).selected # None THEN M!Under(OldId, states).selected
    ELSE M!Under(NewId, states).selected

StateOK(states) ==
    /\ DOMAIN states \subseteq {OldId, NewId}
    /\ \A id \in DOMAIN states : states[id] \in M!Kept

Shows(states) == StateOK(states) /\ Media2(states) = imports /\ Selected(states) = choice

Attempting ==
    start.at \in {"stage", "commit", "save", "verify", "restore_state", "restore_catalog"}

StartSound ==
    /\ DOMAIN start = {"at", "staged", "before", "backup"}
    /\ start.at \in {"off", "running", "backup", "stage", "commit", "save", "verify",
                     "restore_state", "restore_catalog"}
    /\ start.at \in {"backup", "stage", "commit", "save", "restore_state", "restore_catalog"}
        => catalog.schema = "old"
    /\ start.at = "running" => catalog.schema = "new"
    /\ Attempting =>
        /\ start.backup \in 1..Len(backups) /\ backups[start.backup] = library
    /\ start.at \in {"commit", "save", "verify", "restore_state"} =>
        /\ Shows(start.before) /\ Shows(start.staged) /\ OldId \notin DOMAIN start.staged
    /\ start.at \in {"save", "verify"} => games = start.staged

CatalogSound ==
    /\ DOMAIN catalog = {"schema", "library"}
    /\ catalog.schema \in {"old", "new"} /\ catalog.library = library
    /\ catalog.schema = "new" =>
        /\ OldId \notin DOMAIN games
        /\ \E i \in 1..Len(backups) : backups[i] = library

MigrationInv ==
    /\ library \in 0..MaxEdits /\ imports \subseteq Media /\ choice \in Media \cup {None}
    /\ backups \in Seq(0..MaxEdits) /\ Len(backups) <= MaxBackups
    /\ Shows(games)
    /\ StartSound
    /\ CatalogSound

LEMMA UnderKept ==
    ASSUME NEW states, NEW id, StateOK(states)
    PROVE  M!Under(id, states) \in M!Kept
<1>1. M!Nothing \in M!Kept  BY DEF M!Nothing, M!Kept
<1>2. QED  BY <1>1 DEF M!Under, StateOK

LEMMA RekeyShows ==
    ASSUME NEW states, Shows(states), OldId # NewId
    PROVE  Shows(M!Rekey(states)) /\ OldId \notin DOMAIN M!Rekey(states)
<1> DEFINE old == M!Under(OldId, states)
           new == M!Under(NewId, states)
           merged == [x \in {NewId} |-> M!Merge(old, new)]
<1>1. StateOK(states)  BY DEF Shows
<1>2. CASE OldId \notin DOMAIN states  BY <1>2 DEF M!Rekey
<1>3. CASE OldId \in DOMAIN states
  <2>1. M!Rekey(states) = merged  BY <1>3 DEF M!Rekey, M!Under
  <2>2. old \in M!Kept /\ new \in M!Kept  BY <1>1, UnderKept
  <2>3. M!Merge(old, new) \in M!Kept  BY <2>2 DEF M!Merge, M!Kept
  <2>4. DOMAIN merged = {NewId} /\ merged[NewId] = M!Merge(old, new)  OBVIOUS
  <2>5. StateOK(merged)  BY <2>3, <2>4 DEF StateOK
  <2>6. M!Under(OldId, merged) = M!Nothing /\ M!Under(NewId, merged) = M!Merge(old, new)
    BY <2>4, OldId # NewId DEF M!Under
  <2>7. Media2(merged) = Media2(states)  BY <2>6 DEF Media2, M!Merge, M!Nothing
  <2>8. Selected(merged) = Selected(states)  BY <2>6 DEF Selected, M!Merge, M!Nothing
  <2>9. QED  BY <2>1, <2>4, <2>5, <2>7, <2>8, OldId # NewId DEF Shows
<1>4. QED  BY <1>2, <1>3

LEMMA InitMigration ==
    ASSUME M!BackupsAssumption, M!Init
    PROVE  MigrationInv
<1>1. DOMAIN games = {}  BY DEF M!Init
<1>2. M!Under(OldId, games) = M!Nothing /\ M!Under(NewId, games) = M!Nothing  BY <1>1 DEF M!Under
<1>3. Shows(games)  BY <1>1, <1>2 DEF Shows, StateOK, Media2, Selected, M!Nothing, M!Init
<1>4. StartSound  BY DEF M!Init, StartSound, Attempting, M!Off
<1>5. CatalogSound  BY DEF M!Init, CatalogSound
<1>6. backups \in Seq(0..MaxEdits) /\ Len(backups) <= MaxBackups
  BY DEF M!Init, M!BackupsAssumption
<1>7. QED  BY <1>3, <1>4, <1>5, <1>6 DEF M!Init, MigrationInv, M!BackupsAssumption


LEMMA StartKeeps ==
    ASSUME MigrationInv, StartSound', catalog' = catalog, backups' = backups,
           games' = games, library' = library, imports' = imports, choice' = choice
    PROVE  MigrationInv'
<1>1. Shows(games)'  BY DEF MigrationInv, Shows, StateOK, Media2, Selected, M!Under
<1>2. CatalogSound'  BY DEF MigrationInv, CatalogSound
<1> QED  BY <1>1, <1>2 DEF MigrationInv

LEMMA LoadMigration ==
    ASSUME MigrationInv, M!Load
    PROVE  MigrationInv'
<1>1. StartSound'
    BY DEF M!Load, M!At, M!Off, M!Running, MigrationInv, StartSound, CatalogSound, Attempting,
           M!user
<1> QED  BY <1>1, StartKeeps DEF M!Load, M!user

LEMMA BackupMigration ==
    ASSUME MigrationInv, M!Backup, M!BackupsAssumption
    PROVE  MigrationInv'
<1>1. CASE start' = M!Off /\ backups' = backups
  <2>1. StartSound'
      BY <1>1 DEF M!Off, MigrationInv, StartSound, CatalogSound, Attempting
  <2> QED  BY <1>1, <2>1, StartKeeps DEF M!Backup, M!user
<1>2. CASE /\ Len(backups) < MaxBackups
           /\ backups' = Append(backups, catalog.library)
           /\ start' = [start EXCEPT !.at = "stage", !.backup = Len(backups) + 1]
  <2>1. /\ Len(backups) \in Nat /\ catalog.library = library /\ library \in 0..MaxEdits
        /\ backups \in Seq(0..MaxEdits) /\ start.at = "backup"
      BY DEF MigrationInv, CatalogSound, M!Backup, M!At
  <2>2. /\ backups' \in Seq(0..MaxEdits) /\ Len(backups') = Len(backups) + 1
        /\ backups'[Len(backups) + 1] = library
      BY <1>2, <2>1
  <2>3. Shows(games)'
      BY DEF M!Backup, M!user, MigrationInv, Shows, StateOK, Media2, Selected, M!Under
  <2>4. DOMAIN start' = {"at", "staged", "before", "backup"}
      BY <1>2 DEF MigrationInv, StartSound
  <2>5. start'.at = "stage" /\ start'.backup = Len(backups) + 1
      BY <1>2 DEF MigrationInv, StartSound
  <2>6. catalog.schema = "old" /\ catalog' = catalog /\ library' = library
      BY <2>1 DEF MigrationInv, StartSound, M!Backup, M!user
  <2>7. start'.backup \in 1..Len(backups')  BY <2>1, <2>2, <2>5
  <2>8. StartSound'  BY <2>2, <2>4, <2>5, <2>6, <2>7 DEF StartSound, Attempting
  <2>9. CatalogSound'  BY <2>6 DEF MigrationInv, CatalogSound
  <2> QED
      BY <1>2, <2>1, <2>2, <2>3, <2>8, <2>9, M!BackupsAssumption
      DEF MigrationInv, M!Backup, M!user, M!BackupsAssumption
<1> QED  BY <1>1, <1>2 DEF M!Backup

LEMMA StageMigration ==
    ASSUME MigrationInv, M!Stage, M!BackupsAssumption
    PROVE  MigrationInv'
<1>1. Shows(games) /\ games' = games /\ imports' = imports /\ choice' = choice
    BY DEF MigrationInv, M!Stage, M!user
<1>2. Shows(M!Rekey(games)) /\ OldId \notin DOMAIN M!Rekey(games)
    BY <1>1, RekeyShows DEF M!BackupsAssumption
<1>3. StartSound'
  <2>1. CASE start' = [start EXCEPT !.at = "commit", !.staged = M!Rekey(games), !.before = games]
    <3>1. start'.staged = M!Rekey(games) /\ start'.before = games /\ start'.at = "commit"
          /\ start'.backup = start.backup /\ DOMAIN start' = DOMAIN start
        BY <2>1 DEF MigrationInv, StartSound
    <3>2. (Shows(start.before) /\ Shows(start.staged) /\ OldId \notin DOMAIN start.staged)'
        BY <1>1, <1>2, <3>1 DEF Shows, StateOK, Media2, Selected, M!Under
    <3> QED
        BY <3>1, <3>2 DEF MigrationInv, StartSound, M!Stage, M!At, Attempting, M!user
  <2>2. CASE M!Goto("restore_catalog")
    BY <2>2 DEF M!Goto, MigrationInv, StartSound, M!Stage, M!At, Attempting, M!user
  <2> QED  BY <2>1, <2>2 DEF M!Stage
<1> QED  BY <1>3, StartKeeps DEF M!Stage, M!user

\* What a start carries is judged by the library, which no step of a start changes.
LEMMA CarriesOn ==
    ASSUME Shows(start.before), Shows(start.staged), OldId \notin DOMAIN start.staged,
           start'.before = start.before, start'.staged = start.staged,
           imports' = imports, choice' = choice
    PROVE  (Shows(start.before) /\ Shows(start.staged) /\ OldId \notin DOMAIN start.staged)'
BY DEF Shows, StateOK, Media2, Selected, M!Under

LEMMA GotoFields ==
    ASSUME NEW at, DOMAIN start = {"at", "staged", "before", "backup"}, M!Goto(at)
    PROVE  /\ DOMAIN start' = {"at", "staged", "before", "backup"} /\ start'.at = at
           /\ start'.before = start.before /\ start'.staged = start.staged
           /\ start'.backup = start.backup
BY DEF M!Goto

LEMMA CommitMigration ==
    ASSUME MigrationInv, M!Commit
    PROVE  MigrationInv'
<1>1. /\ start.at = "commit" /\ catalog.schema = "old"
      /\ Shows(start.before) /\ Shows(start.staged) /\ OldId \notin DOMAIN start.staged
      /\ start.backup \in 1..Len(backups) /\ backups[start.backup] = library
      /\ DOMAIN start = {"at", "staged", "before", "backup"} /\ Shows(games)
    BY DEF MigrationInv, StartSound, Attempting, M!Commit, M!At
<1>2. catalog' = catalog /\ backups' = backups /\ library' = library /\ imports' = imports
      /\ choice' = choice
    BY DEF M!Commit, M!user
<1>3. CatalogSound'  BY <1>1, <1>2 DEF MigrationInv, CatalogSound
<1>4. CASE games' = start.staged /\ M!Goto("save")
  <2>1. Shows(games)'  BY <1>1, <1>2, <1>4 DEF Shows, StateOK, Media2, Selected, M!Under
  <2>2. StartSound'
      BY <1>1, <1>2, <1>4, GotoFields, CarriesOn DEF StartSound, Attempting
  <2> QED  BY <1>2, <1>3, <2>1, <2>2 DEF MigrationInv
<1>5. CASE M!Goto("restore_catalog") /\ games' = games
  <2>2. StartSound'
      BY <1>1, <1>2, <1>5, GotoFields, CarriesOn DEF StartSound, Attempting
  <2> QED  BY <1>2, <1>5, <2>2, StartKeeps
<1> QED  BY <1>4, <1>5 DEF M!Commit

LEMMA SaveMigration ==
    ASSUME MigrationInv, M!Save
    PROVE  MigrationInv'
<1>1. /\ start.at = "save" /\ catalog.schema = "old" /\ games = start.staged
      /\ Shows(start.before) /\ Shows(start.staged) /\ OldId \notin DOMAIN start.staged
      /\ start.backup \in 1..Len(backups) /\ backups[start.backup] = library
      /\ DOMAIN start = {"at", "staged", "before", "backup"} /\ Shows(games)
    BY DEF MigrationInv, StartSound, Attempting, M!Save, M!At
<1>2. backups' = backups /\ library' = library /\ imports' = imports
      /\ choice' = choice /\ games' = games
    BY DEF M!Save, M!user
<1>3. Shows(games)'  BY <1>1, <1>2 DEF Shows, StateOK, Media2, Selected, M!Under
<1>4. CASE catalog' = [catalog EXCEPT !.schema = "new"] /\ M!Goto("verify")
  <2>1. /\ catalog'.schema = "new" /\ catalog'.library = library
        /\ DOMAIN catalog' = {"schema", "library"}
      BY <1>4 DEF MigrationInv, CatalogSound
  <2>2. StartSound'
      BY <1>1, <1>2, <1>4, GotoFields, CarriesOn DEF StartSound, Attempting
  <2>3. CatalogSound'  BY <1>1, <1>2, <2>1 DEF CatalogSound
  <2> QED  BY <1>2, <1>3, <2>2, <2>3 DEF MigrationInv
<1>5. CASE M!Goto("restore_state") /\ catalog' = catalog
  <2>2. StartSound'
      BY <1>1, <1>2, <1>5, GotoFields, CarriesOn DEF StartSound, Attempting
  <2> QED  BY <1>2, <1>5, <2>2, StartKeeps
<1> QED  BY <1>4, <1>5 DEF M!Save

LEMMA ResyncMigration ==
    ASSUME MigrationInv, M!Resync
    PROVE  MigrationInv'
<1>1. /\ catalog'.schema = "old" /\ catalog'.library = library
      /\ DOMAIN catalog' = {"schema", "library"}
    BY DEF MigrationInv, CatalogSound, M!Resync
<1>2. start' = start /\ start.at = "verify" /\ backups' = backups /\ library' = library
      /\ imports' = imports /\ choice' = choice /\ games' = games
    BY DEF M!Resync, M!user, M!At
<1>3. Shows(games)'  BY <1>2 DEF MigrationInv, Shows, StateOK, Media2, Selected, M!Under
<1>4. /\ start.backup \in 1..Len(backups) /\ backups[start.backup] = library
      /\ Shows(start.before) /\ Shows(start.staged) /\ OldId \notin DOMAIN start.staged
      /\ DOMAIN start = {"at", "staged", "before", "backup"} /\ games = start.staged
    BY <1>2 DEF MigrationInv, StartSound, Attempting
<1>5. StartSound'  BY <1>1, <1>2, <1>4, CarriesOn DEF StartSound, Attempting
<1>6. CatalogSound'  BY <1>1, <1>2 DEF CatalogSound
<1> QED  BY <1>2, <1>3, <1>5, <1>6 DEF MigrationInv

LEMMA VerifyMigration ==
    ASSUME MigrationInv, M!Verify, ReadBackFails = FALSE
    PROVE  MigrationInv'
<1>1. /\ start.at = "verify" /\ games = start.staged
      /\ Shows(start.before) /\ Shows(start.staged) /\ OldId \notin DOMAIN start.staged
      /\ start.backup \in 1..Len(backups) /\ backups[start.backup] = library
      /\ DOMAIN start = {"at", "staged", "before", "backup"}
    BY DEF MigrationInv, StartSound, Attempting, M!Verify, M!At
<1>2. catalog' = catalog /\ backups' = backups /\ games' = games /\ library' = library
      /\ imports' = imports /\ choice' = choice
    BY DEF M!Verify, M!user
<1>3. CASE catalog.schema = "new" /\ start' = M!Running
  <2>1. StartSound'  BY <1>2, <1>3 DEF M!Running, M!Off, StartSound, Attempting
  <2> QED  BY <1>2, <2>1, StartKeeps
<1>4. CASE catalog.schema = "old" /\ M!Goto("restore_state")
  <2>1. StartSound'
      BY <1>1, <1>2, <1>4, GotoFields, CarriesOn DEF StartSound, Attempting
  <2> QED  BY <1>2, <2>1, StartKeeps
<1> QED  BY <1>3, <1>4 DEF M!Verify

LEMMA RestoreStateMigration ==
    ASSUME MigrationInv, M!RestoreState
    PROVE  MigrationInv'
<1>1. /\ start.at = "restore_state" /\ catalog.schema = "old" /\ Shows(games)
      /\ Shows(start.before) /\ M!Goto("restore_catalog")
      /\ start.backup \in 1..Len(backups) /\ backups[start.backup] = library
      /\ DOMAIN start = {"at", "staged", "before", "backup"}
    BY DEF MigrationInv, StartSound, Attempting, M!RestoreState, M!At
<1>2. catalog' = catalog /\ backups' = backups /\ library' = library
      /\ imports' = imports /\ choice' = choice
    BY DEF M!RestoreState, M!user
<1>3. games' = start.before \/ games' = games  BY DEF M!RestoreState
<1>4. Shows(games)'
    BY <1>1, <1>2, <1>3 DEF Shows, StateOK, Media2, Selected, M!Under
<1>5. StartSound'  BY <1>1, <1>2, GotoFields DEF StartSound, Attempting
<1>6. CatalogSound'  BY <1>1, <1>2 DEF MigrationInv, CatalogSound
<1> QED  BY <1>2, <1>4, <1>5, <1>6 DEF MigrationInv

LEMMA RestoreCatalogMigration ==
    ASSUME MigrationInv, M!RestoreCatalog
    PROVE  MigrationInv'
<1>1. start.at = "restore_catalog" /\ catalog.schema = "old" /\ backups[start.backup] = library
    BY DEF MigrationInv, StartSound, Attempting, M!RestoreCatalog, M!At
<1>2. start' = M!Off /\ backups' = backups /\ library' = library
      /\ imports' = imports /\ choice' = choice /\ games' = games
    BY DEF M!RestoreCatalog, M!user
<1>3. Shows(games)'
    BY <1>2 DEF MigrationInv, Shows, StateOK, Media2, Selected, M!Under
<1>4. catalog'.schema = "old" /\ catalog'.library = library
      /\ DOMAIN catalog' = {"schema", "library"}
    BY <1>1 DEF M!RestoreCatalog, MigrationInv, CatalogSound
<1>5. StartSound'  BY <1>2, <1>4 DEF M!Off, StartSound, Attempting
<1>6. CatalogSound'  BY <1>2, <1>4 DEF CatalogSound
<1> QED  BY <1>2, <1>3, <1>5, <1>6 DEF MigrationInv

LEMMA StopMigration ==
    ASSUME MigrationInv, M!Stop
    PROVE  MigrationInv'
<1>1. StartSound'  BY DEF M!Stop, M!Off, StartSound, Attempting
<1> QED  BY <1>1, StartKeeps DEF M!Stop, M!user


\* An import under the id a library is opened with adds to what it shows.
LEMMA ImportShows ==
    ASSUME M!BackupsAssumption, Shows(games), imports \subseteq Media,
           choice \in Media \cup {None}, NEW id \in {OldId, NewId},
           id = NewId => OldId \notin DOMAIN games, M!Import(id)
    PROVE  /\ Shows(games)' /\ imports' \subseteq Media /\ choice' \in Media \cup {None}
           /\ DOMAIN games' = DOMAIN games \cup {id}
<1>1. PICK m \in Media, select \in BOOLEAN :
        /\ games' = M!With(id, [media |-> M!Under(id, games).media \cup {m},
                              selected |-> IF select THEN m ELSE M!Under(id, games).selected],
                         games)
        /\ imports' = imports \cup {m}
        /\ choice' = IF select THEN m ELSE choice
    BY DEF M!Import
<1> DEFINE kept == M!Under(id, games)
           new == [media |-> kept.media \cup {m},
                   selected |-> IF select THEN m ELSE kept.selected]
<1>2. kept \in M!Kept  BY UnderKept DEF Shows
<1>3. new \in M!Kept  BY <1>2 DEF M!Kept
<1>4. new.media = kept.media \cup {m} /\ new.selected = IF select THEN m ELSE kept.selected
    OBVIOUS
<1> HIDE DEF new
<1>5. games' = M!With(id, new, games)  BY <1>1 DEF new
<1>6. DOMAIN games' = DOMAIN games \cup {id} /\ games'[id] = new
      /\ \A x \in DOMAIN games : x # id => games'[x] = games[x]
    BY <1>5 DEF M!With
<1>7. StateOK(games)'  BY <1>3, <1>6 DEF StateOK, Shows
<1>8. OldId # NewId /\ m # None  BY DEF M!BackupsAssumption
<1>9. Media2(games)' = Media2(games) \cup {m} /\ Selected(games)' = choice'
  <2>1. CASE id = OldId
    <3>1. M!Under(OldId, games)' = new /\ M!Under(NewId, games)' = M!Under(NewId, games)
        BY <1>6, <1>8, <2>1 DEF M!Under
    <3> QED  BY <1>1, <1>4, <1>8, <2>1, <3>1 DEF Media2, Selected, Shows
  <2>2. CASE id = NewId
    <3>1. /\ M!Under(OldId, games)' = M!Nothing /\ M!Under(OldId, games) = M!Nothing
          /\ M!Under(NewId, games)' = new
        BY <1>6, <1>8, <2>2 DEF M!Under
    <3> QED  BY <1>1, <1>4, <1>8, <2>2, <3>1 DEF Media2, Selected, Shows, M!Nothing
  <2> QED  BY <2>1, <2>2
<1> QED  BY <1>1, <1>6, <1>7, <1>9 DEF Shows

LEMMA UseMigration ==
    ASSUME MigrationInv, M!BackupsAssumption, M!Use
    PROVE  MigrationInv'
<1>1. start.at = "running" /\ catalog.schema = "new" /\ OldId \notin DOMAIN games
    BY DEF M!Use, M!At, MigrationInv, StartSound, CatalogSound
<1>2. /\ Shows(games)' /\ imports' \subseteq Media /\ choice' \in Media \cup {None}
      /\ DOMAIN games' = DOMAIN games \cup {NewId}
    BY <1>1, ImportShows DEF M!Use, MigrationInv
<1>3. start' = start /\ catalog' = catalog /\ backups' = backups /\ library' = library
    BY DEF M!Use
<1>4. StartSound'  BY <1>1, <1>3 DEF MigrationInv, StartSound, Attempting
<1>5. CatalogSound'
    BY <1>1, <1>2, <1>3 DEF MigrationInv, CatalogSound, M!BackupsAssumption
<1> QED  BY <1>2, <1>3, <1>4, <1>5 DEF MigrationInv

LEMMA UseOlderMigration ==
    ASSUME MigrationInv, M!BackupsAssumption, M!UseOlder
    PROVE  MigrationInv'
<1>1. start.at = "off" /\ catalog.schema = "old" /\ start' = start /\ backups' = backups
    BY DEF M!UseOlder, M!At
<1>2. CASE M!Import(OldId) /\ catalog' = catalog /\ library' = library
  <2>1. Shows(games)' /\ imports' \subseteq Media /\ choice' \in Media \cup {None}
      BY <1>2, ImportShows DEF MigrationInv, M!BackupsAssumption
  <2>2. StartSound'  BY <1>1, <1>2 DEF MigrationInv, StartSound, Attempting
  <2>3. CatalogSound'  BY <1>1, <1>2 DEF MigrationInv, CatalogSound
  <2> QED  BY <1>1, <1>2, <2>1, <2>2, <2>3 DEF MigrationInv
<1>3. CASE /\ library < MaxEdits /\ library' = library + 1
           /\ catalog' = [catalog EXCEPT !.library = library + 1]
           /\ games' = games /\ imports' = imports /\ choice' = choice
  <2>1. /\ catalog'.schema = "old" /\ catalog'.library = library'
        /\ DOMAIN catalog' = {"schema", "library"}
      BY <1>1, <1>3 DEF MigrationInv, CatalogSound
  <2>2. library' \in 0..MaxEdits  BY <1>3 DEF MigrationInv, M!BackupsAssumption
  <2>3. Shows(games)'
      BY <1>3 DEF MigrationInv, Shows, StateOK, Media2, Selected, M!Under
  <2>4. StartSound'  BY <1>1, <2>1 DEF MigrationInv, StartSound, Attempting
  <2>5. CatalogSound'  BY <2>1 DEF CatalogSound
  <2> QED  BY <1>1, <1>3, <2>2, <2>3, <2>4, <2>5 DEF MigrationInv
<1> QED  BY <1>1, <1>2, <1>3 DEF M!UseOlder

LEMMA StillMigration ==
    ASSUME MigrationInv, UNCHANGED M!vars
    PROVE  MigrationInv'
<1>1. StartSound'
    BY DEF M!vars, MigrationInv, StartSound, Attempting, Shows, StateOK, Media2, Selected,
           M!Under
<1> QED  BY <1>1, StartKeeps DEF M!vars

\* catalog.rs, game_detail.rs: the inductive invariant of a migration: what the two
\* files of the game show together is what the user made, in place and as staged, and
\* a start that may put a catalog back holds a copy of the last one.
THEOREM MigrationInvariant ==
    ASSUME M!BackupsAssumption, ReadBackFails = FALSE
    PROVE  M!Spec => []MigrationInv
<1>1. M!Init => MigrationInv  BY InitMigration
<1>2. MigrationInv /\ [M!Next]_(M!vars) => MigrationInv'
  <2> SUFFICES ASSUME MigrationInv, [M!Next]_(M!vars)  PROVE MigrationInv'
    OBVIOUS
  <2>1. CASE M!Load  BY <2>1, LoadMigration
  <2>2. CASE M!Backup  BY <2>2, BackupMigration
  <2>3. CASE M!Stage  BY <2>3, StageMigration
  <2>4. CASE M!Commit  BY <2>4, CommitMigration
  <2>5. CASE M!Save  BY <2>5, SaveMigration
  <2>6. CASE M!Resync  BY <2>6, ResyncMigration
  <2>7. CASE M!Verify  BY <2>7, VerifyMigration
  <2>8. CASE M!RestoreState  BY <2>8, RestoreStateMigration
  <2>9. CASE M!RestoreCatalog  BY <2>9, RestoreCatalogMigration
  <2>10. CASE M!Stop  BY <2>10, StopMigration
  <2>11. CASE M!Use  BY <2>11, UseMigration
  <2>12. CASE M!UseOlder  BY <2>12, UseOlderMigration
  <2>13. CASE UNCHANGED M!vars  BY <2>13, StillMigration
  <2> QED
      BY <2>1, <2>2, <2>3, <2>4, <2>5, <2>6, <2>7, <2>8, <2>9, <2>10, <2>11, <2>12, <2>13
      DEF M!Next
<1> QED  BY <1>1, <1>2, PTL DEF M!Spec

\* catalog.rs, game_detail.rs: where a catalog that is as it was written can be read
\* back, a library that opens shows every import and the last selection under the
\* new id, no attempt brings an earlier library back, and a migrated one leaves a
\* copy for the older build.
THEOREM NothingIsLost ==
    ASSUME M!BackupsAssumption, ReadBackFails = FALSE
    PROVE  M!Spec => [](M!NothingOrphaned /\ M!LibraryIsKept)
<1>1. MigrationInv => M!NothingOrphaned
  <2> SUFFICES ASSUME MigrationInv, start.at = "running"
               PROVE  /\ M!Under(NewId, games) = [media |-> imports, selected |-> choice]
                      /\ OldId \notin DOMAIN games
    BY DEF M!NothingOrphaned, M!At
  <2>1. OldId \notin DOMAIN games /\ Shows(games)
      BY DEF MigrationInv, StartSound, CatalogSound
  <2>2. M!Under(OldId, games) = M!Nothing  BY <2>1 DEF M!Under
  <2>3. M!Nothing.media = {} /\ M!Nothing.selected = None  BY DEF M!Nothing
  <2>6. M!Under(NewId, games).media = imports
      BY <2>1, <2>2, <2>3 DEF Shows, Media2
  <2>7. M!Under(NewId, games).selected = choice
      BY <2>1, <2>2, <2>3 DEF Shows, Selected
  <2>4. M!Under(NewId, games) \in M!Kept  BY <2>1, UnderKept DEF Shows
  <2>5. M!Under(NewId, games) = [media |-> imports, selected |-> choice]
      BY <2>4, <2>6, <2>7 DEF M!Kept
  <2> QED  BY <2>1, <2>5
<1>2. MigrationInv => M!LibraryIsKept  BY DEF MigrationInv, CatalogSound, M!LibraryIsKept
<1> QED  BY <1>1, <1>2, MigrationInvariant, PTL

------------------------------------------------------------------------------
(* QuikyInstall *)

Ends == {"installed", "cancelled", "failed"}

\* What an install has at hand, and that an install under way is the one of the table.
TaskSound(t) ==
    /\ DOMAIN task[t] = {"at", "version", "got", "attempt"}
    /\ task[t].at # "idle" => job # None /\ job.task = t /\ job.phase \in Q!Active
    /\ task[t].at = "queued" => task[t].got = 0
    /\ task[t].at = "receiving" =>
        part = [by |-> t, got |-> task[t].got, whole |-> TRUE] /\ task[t].got \in 0..Chunks
    /\ task[t].at \in {"ready", "prepared", "running"} => package = Q!Whole(task[t].version)
    /\ task[t].at = "running" => ~orphan

JobSound ==
    /\ job \in Q!Jobs \cup {None}
    /\ job # None =>
        /\ job.phase = "installed" => destination = "files"
        /\ job.phase \in Q!Active => task[job.task].at # "idle"

QuikyInv ==
    /\ DOMAIN task = Tasks /\ \A t \in Tasks : TaskSound(t)
    /\ JobSound

\* One install moves, and the others are idle.
LEMMA TaskStep ==
    ASSUME QuikyInv, NEW t \in Tasks, task[t].at # "idle",
           DOMAIN task' = Tasks, \A u \in Tasks \ {t} : task'[u] = task[u],
           TaskSound(t)', JobSound'
    PROVE  QuikyInv'
<1>1. ASSUME NEW u \in Tasks \ {t}  PROVE TaskSound(u)'
  <2>1. TaskSound(t) /\ TaskSound(u)  BY DEF QuikyInv
  <2>2. task[u].at = "idle"  BY <2>1 DEF TaskSound
  <2>3. task'[u] = task[u]  OBVIOUS
  <2> QED  BY <2>1, <2>2, <2>3 DEF TaskSound
<1> QED  BY <1>1 DEF QuikyInv

\* An entry that is published stays the one of its install.
LEMMA PublishStep ==
    ASSUME JobSound, job # None, NEW phase \in Q!Active \cup Ends, Q!Publish(phase),
           Q!InstallAssumption
    PROVE  job' \in Q!Jobs /\ job' # None /\ job'.task = job.task /\ job'.phase = phase
<1>1. job \in Q!Jobs  BY DEF JobSound
<1>2. job' = [job EXCEPT !.phase = phase]  BY DEF Q!Publish
<1>3. job' \in Q!Jobs  BY <1>1, <1>2 DEF Q!Jobs, Ends
<1> QED  BY <1>1, <1>2, <1>3 DEF Q!Jobs, Q!InstallAssumption

\* An install that returns an error leaves the table.
LEMMA FailsStep ==
    ASSUME QuikyInv, Q!InstallAssumption, NEW t \in Tasks, task[t].at # "idle", Q!Fails(t)
    PROVE  QuikyInv'
<1>1. job # None /\ job.task = t  BY DEF QuikyInv, TaskSound
<1>2. JobSound  BY DEF QuikyInv
<1>3. \E phase \in {"cancelled", "failed"} : Q!Publish(phase)  BY DEF Q!Fails
<1>4. job' \in Q!Jobs /\ job' # None /\ job'.task = t /\ job'.phase \in {"cancelled", "failed"}
    BY <1>1, <1>2, <1>3, PublishStep DEF Ends
<1>5. /\ DOMAIN task' = Tasks /\ task'[t] = Q!Idle
      /\ \A u \in Tasks \ {t} : task'[u] = task[u]
    BY DEF Q!Fails, QuikyInv
<1>6. TaskSound(t)'  BY <1>5 DEF TaskSound, Q!Idle
<1>7. JobSound'  BY <1>4 DEF JobSound, Q!Active
<1> QED  BY <1>5, <1>6, <1>7, TaskStep

\* An install that goes on, with what it has at its next place.
LEMMA MovesStep ==
    ASSUME QuikyInv, Q!InstallAssumption, NEW t \in Tasks, task[t].at # "idle",
           NEW place \in Q!Places \ {"idle"}, Q!Moves(t, place),
           NEW phase \in Q!Active, Q!Publish(phase) \/ job' = job,
           place = "queued" => task[t].got = 0,
           place = "receiving" =>
                /\ part' = [by |-> t, got |-> task[t].got, whole |-> TRUE]
                /\ task[t].got \in 0..Chunks,
           place \in {"ready", "prepared", "running"} => package' = Q!Whole(task[t].version),
           place = "running" => ~orphan'
    PROVE  QuikyInv'
<1>1. job # None /\ job.task = t /\ job.phase \in Q!Active  BY DEF QuikyInv, TaskSound
<1>2. JobSound /\ job \in Q!Jobs  BY <1>1 DEF QuikyInv, JobSound
<1>3. job' \in Q!Jobs /\ job' # None /\ job'.task = t /\ job'.phase \in Q!Active
    BY <1>1, <1>2, PublishStep
<1>4. /\ DOMAIN task' = Tasks /\ task'[t] = [task[t] EXCEPT !.at = place]
      /\ \A u \in Tasks \ {t} : task'[u] = task[u]
    BY DEF Q!Moves, QuikyInv
<1>5. DOMAIN task[t] = {"at", "version", "got", "attempt"}  BY DEF QuikyInv, TaskSound
<1>6. /\ DOMAIN task'[t] = {"at", "version", "got", "attempt"} /\ task'[t].at = place
      /\ task'[t].version = task[t].version /\ task'[t].got = task[t].got
    BY <1>4, <1>5
<1>7. TaskSound(t)'  BY <1>3, <1>6 DEF TaskSound, Q!Whole
<1>8. JobSound'  BY <1>3, <1>6 DEF JobSound, Q!Active, Q!Places
<1> QED  BY <1>4, <1>7, <1>8, TaskStep

LEMMA StartQuiky ==
    ASSUME QuikyInv, Q!InstallAssumption, NEW t \in Tasks, Q!Start(t)
    PROVE  QuikyInv'
<1>1. \A u \in Tasks : task[u].at = "idle" /\ DOMAIN task[u] = {"at", "version", "got", "attempt"}
    BY DEF Q!Start, QuikyInv, TaskSound
<1>2. PICK version : task' = [task EXCEPT ![t] = [at |-> "queued", version |-> version,
                                                  got |-> 0, attempt |-> 1]]
    BY DEF Q!Start
<1>3. /\ DOMAIN task' = Tasks /\ \A u \in Tasks \ {t} : task'[u] = task[u]
      /\ DOMAIN task'[t] = {"at", "version", "got", "attempt"}
      /\ task'[t].at = "queued" /\ task'[t].got = 0
    BY <1>2 DEF QuikyInv
<1>4. job' = [task |-> t, phase |-> "queued"]  BY DEF Q!Start
<1>5. job' \in Q!Jobs /\ job' # None /\ job'.task = t /\ job'.phase = "queued"
    BY <1>4 DEF Q!Jobs, Q!Active, Q!InstallAssumption
<1>6. TaskSound(t)'  BY <1>3, <1>5 DEF TaskSound, Q!Active
<1>7. \A u \in Tasks \ {t} : TaskSound(u)'  BY <1>1, <1>3 DEF TaskSound
<1>8. JobSound'  BY <1>3, <1>5 DEF JobSound
<1> QED  BY <1>3, <1>6, <1>7, <1>8 DEF QuikyInv

LEMMA ReuseQuiky ==
    ASSUME QuikyInv, Q!InstallAssumption, NEW t \in Tasks, Q!Reuse(t)
    PROVE  QuikyInv'
BY MovesStep DEF Q!Reuse, Q!Places, Q!Active

LEMMA ConnectQuiky ==
    ASSUME QuikyInv, Q!InstallAssumption, NEW t \in Tasks, Q!Connect(t)
    PROVE  QuikyInv'
<1>1. task[t].at = "queued" /\ task[t].got = 0  BY DEF Q!Connect, QuikyInv, TaskSound
<1>2. 0 \in 0..Chunks  BY DEF Q!InstallAssumption
<1> QED  BY <1>1, <1>2, MovesStep DEF Q!Connect, Q!Places, Q!Active

LEMMA ReceiveQuiky ==
    ASSUME QuikyInv, Q!InstallAssumption, NEW t \in Tasks, Q!Receive(t)
    PROVE  QuikyInv'
<1>1. /\ task[t].at = "receiving" /\ task[t].got \in 0..Chunks /\ task[t].got < Chunks
      /\ part = [by |-> t, got |-> task[t].got, whole |-> TRUE]
      /\ DOMAIN task[t] = {"at", "version", "got", "attempt"}
      /\ job # None /\ job.task = t /\ job.phase \in Q!Active
    BY DEF Q!Receive, QuikyInv, TaskSound
<1>2. part # None
  <2>1. part \in Q!Parts  BY <1>1 DEF Q!Parts
  <2> QED  BY <2>1 DEF Q!InstallAssumption
<1>3. part.by = t  BY <1>1
<1>4. part' = [part EXCEPT !.got = @ + 1]  BY <1>2, <1>3 DEF Q!Receive
<1>5. part' = [by |-> t, got |-> task[t].got + 1, whole |-> TRUE]  BY <1>1, <1>4
<1>6. /\ DOMAIN task' = Tasks /\ \A u \in Tasks \ {t} : task'[u] = task[u]
      /\ task'[t] = [task[t] EXCEPT !.got = task[t].got + 1]
    BY DEF Q!Receive, QuikyInv
<1>7. /\ DOMAIN task'[t] = {"at", "version", "got", "attempt"} /\ task'[t].at = "receiving"
      /\ task'[t].got = task[t].got + 1
    BY <1>1, <1>6
<1>8. task[t].got + 1 \in 0..Chunks  BY <1>1 DEF Q!InstallAssumption
<1>9. job' = job /\ destination' = destination  BY DEF Q!Receive
<1>10. TaskSound(t)'  BY <1>1, <1>5, <1>7, <1>8, <1>9 DEF TaskSound
<1>11. JobSound'  BY <1>1, <1>7, <1>9 DEF QuikyInv, JobSound, Q!Active
<1> QED  BY <1>1, <1>6, <1>10, <1>11, TaskStep

LEMMA StoreQuiky ==
    ASSUME QuikyInv, Q!InstallAssumption, NEW t \in Tasks, Q!Store(t)
    PROVE  QuikyInv'
<1>1. /\ task[t].at = "receiving" /\ task[t].got = Chunks
      /\ part = [by |-> t, got |-> task[t].got, whole |-> TRUE]
    BY DEF Q!Store, QuikyInv, TaskSound
<1>2. CASE Q!Fails(t)  BY <1>1, <1>2, FailsStep
<1>3. CASE /\ package' = [version |-> task[t].version,
                          whole |-> part.whole /\ part.by = t /\ part.got = Chunks]
           /\ Q!Moves(t, "ready") /\ Q!Publish("downloading")
  <2>1. (part.whole /\ part.by = t /\ part.got = Chunks) = TRUE  BY <1>1
  <2>2. package' = Q!Whole(task[t].version)  BY <1>3, <2>1 DEF Q!Whole
  <2> QED  BY <1>1, <1>3, <2>2, MovesStep DEF Q!Places, Q!Active
<1> QED  BY <1>2, <1>3 DEF Q!Store

LEMMA PrepareQuiky ==
    ASSUME QuikyInv, Q!InstallAssumption, NEW t \in Tasks, Q!Prepare(t)
    PROVE  QuikyInv'
<1>1. task[t].at = "ready" /\ package' = Q!Whole(task[t].version) /\ Q!Moves(t, "prepared")
      /\ Q!Publish("extracting")
    BY DEF Q!Prepare, QuikyInv, TaskSound
<1> QED  BY <1>1, MovesStep DEF Q!Places, Q!Active

LEMMA AttemptQuiky ==
    ASSUME QuikyInv, Q!InstallAssumption, NEW t \in Tasks, Q!Attempt(t)
    PROVE  QuikyInv'
<1>1. task[t].at = "prepared" /\ package' = Q!Whole(task[t].version)
    BY DEF Q!Attempt, QuikyInv, TaskSound
<1>2. CASE Q!Fails(t)  BY <1>1, <1>2, FailsStep
<1>3. CASE Q!Moves(t, "running") /\ ~orphan' /\ job' = job
  <2>1. "running" \in Q!Places \ {"idle"} /\ "extracting" \in Q!Active  BY DEF Q!Places, Q!Active
  <2> QED  BY <1>1, <1>3, <2>1, MovesStep
<1> QED  BY <1>2, <1>3 DEF Q!Attempt, Q!StopServer

LEMMA SucceedsQuiky ==
    ASSUME QuikyInv, Q!InstallAssumption, NEW t \in Tasks, Q!Succeeds(t)
    PROVE  QuikyInv'
<1>1. task[t].at # "idle" /\ destination' = "files" /\ Q!Publish("installed")
      /\ task' = [task EXCEPT ![t] = Q!Idle]
    BY DEF Q!Succeeds
<1>2. job # None /\ job.task = t /\ JobSound  BY <1>1 DEF QuikyInv, TaskSound
<1>3. job' \in Q!Jobs /\ job' # None /\ job'.task = t /\ job'.phase = "installed"
    BY <1>1, <1>2, PublishStep DEF Ends
<1>4. /\ DOMAIN task' = Tasks /\ task'[t] = Q!Idle
      /\ \A u \in Tasks \ {t} : task'[u] = task[u]
    BY <1>1 DEF QuikyInv
<1>5. TaskSound(t)'  BY <1>4 DEF TaskSound, Q!Idle
<1>6. JobSound'  BY <1>1, <1>3 DEF JobSound, Q!Active
<1> QED  BY <1>1, <1>4, <1>5, <1>6, TaskStep

LEMMA AttemptFailsQuiky ==
    ASSUME QuikyInv, Q!InstallAssumption, NEW t \in Tasks, Q!AttemptFails(t)
    PROVE  QuikyInv'
<1>1. task[t].at = "running" /\ task[t].at # "idle"  BY DEF Q!AttemptFails
<1>2. CASE Q!Fails(t)  BY <1>1, <1>2, FailsStep
<1>3. CASE /\ task' = [task EXCEPT ![t].at = "prepared", ![t].attempt = 2]
           /\ UNCHANGED <<job, destination>>
  <2>1. /\ DOMAIN task[t] = {"at", "version", "got", "attempt"}
        /\ job # None /\ job.task = t /\ job.phase \in Q!Active
        /\ package = Q!Whole(task[t].version)
      BY <1>1 DEF QuikyInv, TaskSound
  <2>2. /\ DOMAIN task' = Tasks /\ \A u \in Tasks \ {t} : task'[u] = task[u]
        /\ DOMAIN task'[t] = {"at", "version", "got", "attempt"}
        /\ task'[t].at = "prepared" /\ task'[t].version = task[t].version
      BY <1>3, <2>1 DEF QuikyInv
  <2>3. package' = package  BY DEF Q!AttemptFails
  <2>4. TaskSound(t)'  BY <1>3, <2>1, <2>2, <2>3 DEF TaskSound, Q!Whole
  <2>5. JobSound'  BY <1>3, <2>1, <2>2 DEF QuikyInv, JobSound, Q!Active
  <2> QED  BY <1>1, <2>2, <2>4, <2>5, TaskStep
<1> QED  BY <1>2, <1>3 DEF Q!AttemptFails

\* Steps that leave the table and the installs alone.
LEMMA WorldQuiky ==
    ASSUME QuikyInv, Q!Cancel \/ Q!Write \/ Q!OrphanEnds \/ Q!NewVersion \/ UNCHANGED Q!vars
    PROVE  QuikyInv'
<1>1. /\ task' = task /\ job' = job /\ part' = part /\ package' = package
      /\ destination' = destination \/ destination' = "files"
      /\ orphan' = orphan \/ ~orphan'
    BY DEF Q!Cancel, Q!Write, Q!OrphanEnds, Q!NewVersion, Q!vars
<1>2. \A t \in Tasks : TaskSound(t)'  BY <1>1 DEF QuikyInv, TaskSound, Q!Whole
<1>3. JobSound'  BY <1>1 DEF QuikyInv, JobSound
<1> QED  BY <1>1, <1>2, <1>3 DEF QuikyInv

LEMMA QuitQuiky ==
    ASSUME Q!Quit
    PROVE  QuikyInv'
<1>1. job' = None /\ task' = [t \in Tasks |-> Q!Idle]  BY DEF Q!Quit
<1>2. \A t \in Tasks : TaskSound(t)'  BY <1>1 DEF TaskSound, Q!Idle
<1> QED  BY <1>1, <1>2 DEF QuikyInv, JobSound

\* quiky_installer.rs: the inductive invariant of an install: the install under way is
\* the one the table names, alone, and has at each place what its next one takes for
\* granted.
THEOREM QuikyInvariant ==
    ASSUME Q!InstallAssumption
    PROVE  Q!Spec => []QuikyInv
<1>1. Q!Init => QuikyInv
  <2> SUFFICES ASSUME Q!Init  PROVE QuikyInv
    OBVIOUS
  <2>1. job = None /\ task = [t \in Tasks |-> Q!Idle]  BY DEF Q!Init
  <2>2. \A t \in Tasks : TaskSound(t)  BY <2>1 DEF TaskSound, Q!Idle
  <2> QED  BY <2>1, <2>2 DEF QuikyInv, JobSound
<1>2. QuikyInv /\ [Q!Next]_(Q!vars) => QuikyInv'
  <2> SUFFICES ASSUME QuikyInv, [Q!Next]_(Q!vars)  PROVE QuikyInv'
    OBVIOUS
  <2>1. ASSUME NEW t \in Tasks,
               Q!Start(t) \/ Q!Reuse(t) \/ Q!Connect(t) \/ Q!Receive(t) \/ Q!Store(t)
        PROVE  QuikyInv'
    BY <2>1, StartQuiky, ReuseQuiky, ConnectQuiky, ReceiveQuiky, StoreQuiky
  <2>2. ASSUME NEW t \in Tasks, Q!Reject(t) \/ Q!Interrupted(t) \/ Q!PrepareFails(t) \/ Q!Kill(t)
        PROVE  QuikyInv'
    BY <2>2, FailsStep DEF Q!Reject, Q!Interrupted, Q!PrepareFails, Q!Kill
  <2>3. ASSUME NEW t \in Tasks, Q!Prepare(t) \/ Q!Attempt(t) \/ Q!Succeeds(t) \/ Q!AttemptFails(t)
        PROVE  QuikyInv'
    BY <2>3, PrepareQuiky, AttemptQuiky, SucceedsQuiky, AttemptFailsQuiky
  <2>4. CASE Q!Cancel \/ Q!Write \/ Q!OrphanEnds \/ Q!NewVersion \/ UNCHANGED Q!vars
    BY <2>4, WorldQuiky
  <2>5. CASE Q!Quit  BY <2>5, QuitQuiky
  <2> QED  BY <2>1, <2>2, <2>3, <2>4, <2>5 DEF Q!Next
<1> QED  BY <1>1, <1>2, PTL DEF Q!Spec

\* quiky_installer.rs: what runs is the package whose digest was checked, alone, and
\* the table of jobs is true of the folder and of the installs.
THEOREM InstallsStand ==
    ASSUME Q!InstallAssumption
    PROVE  Q!Spec => [](Q!OnlyVerifiedRuns /\ Q!OneInstaller /\ Q!JobIsTrue)
<1>1. QuikyInv => Q!OnlyVerifiedRuns  BY DEF QuikyInv, TaskSound, Q!OnlyVerifiedRuns
<1>2. QuikyInv => Q!OneInstaller  BY DEF QuikyInv, TaskSound, Q!OneInstaller
<1>3. QuikyInv => Q!JobIsTrue
  <2> SUFFICES ASSUME QuikyInv, job # None
               PROVE  /\ job.phase = "installed" => destination = "files"
                      /\ job.phase \in Q!Active <=> task[job.task].at # "idle"
    BY DEF Q!JobIsTrue
  <2>1. job.task \in Tasks  BY DEF QuikyInv, JobSound, Q!Jobs
  <2> QED  BY <2>1 DEF QuikyInv, JobSound, TaskSound
<1> QED  BY <1>1, <1>2, <1>3, QuikyInvariant, PTL
===============================================================================
