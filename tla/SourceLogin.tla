----------------------------- MODULE SourceLogin -----------------------------
(****************************************************************************)
(* Signing in to a store with a token (src-tauri/src/lib.rs): the command   *)
(* that waits, the window whose callbacks read the code, the exchange of    *)
(* the code for a credential, and the window being closed under it.         *)
(*                                                                          *)
(* One provider, so one window label.  Each connect call makes a session,   *)
(* and waits on it or on the one it joins; sessions are named after calls.  *)
(****************************************************************************)

CONSTANTS
    Calls,    \* the connect calls, and the sessions they make
    None

VARIABLES
    wait,      \* where each call is
    session,   \* the session each call waits on
    logins,    \* AppState::source_logins, at the label
    window,    \* the session whose window is open
    closing,   \* it was asked to close, or the user closed it
    exchange,  \* exchange_started, and where the exchange is
    settled,
    slot,      \* outcome
    saved,     \* the sessions whose credential is in the keychain
    told       \* what was said of each session: by events, and to the callers

vars == <<wait, session, logins, window, closing, exchange, settled, slot, saved, told>>

Connected == "connected"
Failed == "failed"
Closed == "closed"
Late == "late"    \* "did not finish in time": said to a caller, decides nothing

NoneAssumption == None \notin Calls \cup {Connected, Failed, Closed}

\* Mutant: a later outcome is recorded and announced too.
SettleAgain(s, outcome) ==
    /\ settled' = settled \cup {s}
    /\ slot' = [slot EXCEPT ![s] = outcome]
    /\ told' = [told EXCEPT ![s] = @ \cup {outcome}]

\* settle: the first outcome is recorded, and what follows is done by its caller.
Settle(s, outcome) ==
    /\ settled' = settled \cup {s}
    /\ IF s \in settled
       THEN UNCHANGED <<slot, told>>
       ELSE /\ slot' = [slot EXCEPT ![s] = outcome]
            /\ told' = [told EXCEPT ![s] = @ \cup {outcome}]

------------------------------------------------------------------------------
(* The command: connect_token_source, await_source_login *)

\* Under the lock of the map: an open window is joined when a sign-in is behind
\* it, and closed as a leftover otherwise.
Connect(c) ==
    /\ wait[c] = "new"
    /\ IF window # None /\ logins # None
       THEN /\ wait' = [wait EXCEPT ![c] = "joined"]
            /\ session' = [session EXCEPT ![c] = logins]
            /\ UNCHANGED <<logins, closing>>
       ELSE /\ wait' = [wait EXCEPT ![c] = "build"]
            /\ logins' = c
            /\ closing' = (window # None)
            /\ UNCHANGED session
    /\ UNCHANGED <<window, exchange, settled, slot, saved, told>>

\* A window that is still closing keeps its label, and the new one cannot open.
Build(c) ==
    /\ wait[c] = "build"
    /\ IF window = None
       THEN window' = c /\ wait' = [wait EXCEPT ![c] = "owner"]
       ELSE wait' = [wait EXCEPT ![c] = "done"] /\ UNCHANGED window
    /\ UNCHANGED <<session, logins, closing, exchange, settled, slot, saved, told>>

\* The one that opened the window takes the label off the map when it has its
\* answer, whoever's it is by then.
Answered(c) == wait' = [wait EXCEPT ![c] = IF @ = "owner" THEN "remove" ELSE "done"]

\* take: whoever polls first has the outcome.
Take(c) ==
    /\ wait[c] \in {"owner", "joined"} /\ slot[session[c]] # None
    /\ told' = [told EXCEPT ![session[c]] = @ \cup {slot[session[c]]}]
    /\ slot' = [slot EXCEPT ![session[c]] = None]
    /\ Answered(c)
    /\ UNCHANGED <<session, logins, window, closing, exchange, settled, saved>>

\* The session stays: it may still end, and be announced, after its caller gave up.
Deadline(c) ==
    /\ wait[c] \in {"owner", "joined"} /\ slot[session[c]] = None
    /\ told' = [told EXCEPT ![session[c]] = @ \cup {Late}]
    /\ Answered(c)
    /\ UNCHANGED <<session, logins, window, closing, exchange, settled, slot, saved>>

Remove(c) ==
    /\ wait[c] = "remove"
    /\ logins' = None
    /\ wait' = [wait EXCEPT ![c] = "done"]
    /\ UNCHANGED <<session, window, closing, exchange, settled, slot, saved, told>>

------------------------------------------------------------------------------
(* The window *)

\* cancel_source_login, or the user
CloseWindow ==
    /\ window # None /\ ~closing
    /\ closing' = TRUE
    /\ UNCHANGED <<wait, session, logins, window, exchange, settled, slot, saved, told>>

Destroyed ==
    /\ window # None /\ closing
    /\ window' = None /\ closing' = FALSE
    /\ Settle(window, Closed)
    /\ UNCHANGED <<wait, session, logins, exchange, saved>>

\* A page load, a navigation or the poll reads the code; begin_exchange lets one
\* of them go on.
BeginExchange(s) ==
    /\ window = s /\ exchange[s] = "none"
    /\ exchange' = [exchange EXCEPT ![s] = "running"]
    /\ UNCHANGED <<wait, session, logins, window, closing, settled, slot, saved, told>>

\* The store's connect: it saves the credential itself, or fails.
Exchange(s) ==
    /\ exchange[s] = "running"
    /\ \/ saved' = saved \cup {s} /\ exchange' = [exchange EXCEPT ![s] = Connected]
       \/ exchange' = [exchange EXCEPT ![s] = Failed] /\ UNCHANGED saved
    /\ UNCHANGED <<wait, session, logins, window, closing, settled, slot, told>>

\* settle_token_login: the outcome that was recorded closes the window.
SettleExchange(s) ==
    /\ exchange[s] \in {Connected, Failed}
    /\ Settle(s, exchange[s])
    /\ exchange' = [exchange EXCEPT ![s] = "over"]
    /\ closing' = (closing \/ (s \notin settled /\ window # None))
    /\ UNCHANGED <<wait, session, logins, window, saved>>

------------------------------------------------------------------------------

Init ==
    /\ wait = [c \in Calls |-> "new"]
    /\ session = [c \in Calls |-> c]
    /\ logins = None /\ window = None /\ closing = FALSE
    /\ exchange = [s \in Calls |-> "none"]
    /\ settled = {}
    /\ slot = [s \in Calls |-> None]
    /\ saved = {}
    /\ told = [s \in Calls |-> {}]

Next ==
    \/ \E c \in Calls :
        \/ Connect(c) \/ Build(c) \/ Take(c) \/ Deadline(c) \/ Remove(c)
        \/ BeginExchange(c) \/ Exchange(c) \/ SettleExchange(c)
    \/ CloseWindow \/ Destroyed

Spec == Init /\ [][Next]_vars
------------------------------------------------------------------------------
(* Properties *)

TypeOK ==
    /\ wait \in [Calls -> {"new", "build", "owner", "joined", "remove", "done"}]
    /\ session \in [Calls -> Calls]
    /\ logins \in Calls \cup {None} /\ window \in Calls \cup {None}
    /\ closing \in BOOLEAN /\ (closing => window # None)
    /\ exchange \in [Calls -> {"none", "running", Connected, Failed, "over"}]
    /\ settled \subseteq Calls /\ saved \subseteq Calls
    /\ slot \in [Calls -> {None, Connected, Failed, Closed}]
    /\ told \in [Calls -> SUBSET {Connected, Failed, Closed, Late}]

\* The callers and the event of one sign-in never contradict each other on how it
\* ended, and none says it is connected before the credential is saved, however the
\* page load, the poll, the exchange, the deadlines and the closing of the window
\* fall: "only one of them may decide how it ended".  A caller told that it took too
\* long has heard no verdict.
OneVerdict ==
    \A s \in Calls :
        /\ \A one, other \in told[s] \ {Late} : one = other
        /\ Connected \in told[s] => s \in saved
=============================================================================
