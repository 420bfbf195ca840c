---------------------------- MODULE ClientSocket ----------------------------
(***************************************************************************)
(* The WebSocket of a browser tab (lib/socket.ts), connected and           *)
(* disconnected by the effect of the providers (app/providers.tsx) as the  *)
(* token of the tab changes.                                               *)
(*                                                                         *)
(* The module keeps one socket and one ping timer; the listeners of a      *)
(* socket that was replaced are still called, and act on the variables of  *)
(* the module, not on their own socket.                                    *)
(***************************************************************************)
EXTENDS Integers, FiniteSets

CONSTANTS
    Sockets,      \* the WebSocket objects a tab creates, in order: 1 .. n
    Tokens, NoToken,
    MaxChanges    \* bound: the changes of the token in a behaviour

VARIABLES
    ready,        \* ready[k]: the readyState of socket k
    ws,           \* the socket the module keeps, 0 for none
    pingTimer,    \* the socket whose open event set it, 0 for none
    leaked,       \* the timers that run and that no variable refers to
    heard,        \* the messages handed to the handlers, by socket
    tokenNow,     \* the token of the auth store
    effectOn,     \* the token the effect last ran on
    changes

socketVars == <<ready, ws, pingTimer, leaked, heard, tokenNow, effectOn, changes>>

ASSUME SocketAssumption == Sockets \subseteq Nat \ {0} /\ MaxChanges \in Nat

States == {"new", "connecting", "open", "closing", "closed"}

SocketTypeOK ==
    /\ ready \in [Sockets -> States]
    /\ ws \in Sockets \cup {0} /\ pingTimer \in Sockets \cup {0}
    /\ leaked \subseteq Sockets /\ heard \subseteq Sockets
    /\ tokenNow \in Tokens \cup {NoToken} /\ effectOn \in Tokens \cup {NoToken}
    /\ changes \in 0 .. MaxChanges

SocketInit ==
    /\ ready = [k \in Sockets |-> "new"]
    /\ ws = 0 /\ pingTimer = 0 /\ leaked = {} /\ heard = {}
    /\ tokenNow = NoToken /\ effectOn = NoToken /\ changes = 0
-----------------------------------------------------------------------------
(* A login, a logout, a check that fails.                                  *)
ChangeToken(tok) ==
    /\ changes < MaxChanges /\ tok # tokenNow
    /\ changes' = changes + 1
    /\ tokenNow' = tok
    /\ UNCHANGED <<ready, ws, pingTimer, leaked, heard, effectOn>>

Reusable(k) == k # 0 /\ ready[k] \in {"connecting", "open"}

\* Mutant of Dropped: a socket that is still connecting is left alone.
DroppedIfOpen(states) ==
    IF ws # 0 /\ states[ws] = "open" THEN [states EXCEPT ![ws] = "closing"] ELSE states

(* disconnectSocket: the timer is cleared, the socket closed, whatever its *)
(* state, and forgotten.                                                   *)
Dropped(states) ==
    IF ws # 0 /\ states[ws] # "closed" THEN [states EXCEPT ![ws] = "closing"] ELSE states

(* The effect runs on another token: its cleanup when there was one, then  *)
(* connectSocket when there is one.                                        *)
RunEffect(k) ==
    LET clean == effectOn # NoToken
        states == IF clean THEN Dropped(ready) ELSE ready
        kept == IF clean THEN 0 ELSE ws
    IN
    /\ effectOn # tokenNow
    /\ ready[k] = "new" /\ \A j \in Sockets : j < k => ready[j] # "new"
    /\ effectOn' = tokenNow
    /\ pingTimer' = IF clean THEN 0 ELSE pingTimer
    /\ IF tokenNow = NoToken \/ Reusable(kept) THEN ready' = states /\ ws' = kept
       ELSE ready' = [states EXCEPT ![k] = "connecting"] /\ ws' = k
    /\ UNCHANGED <<leaked, heard, tokenNow, changes>>

(* The open event sets the timer of the module, over the one it holds.     *)
Opens(k) ==
    /\ ready[k] = "connecting"
    /\ ready' = [ready EXCEPT ![k] = "open"]
    /\ leaked' = IF pingTimer = 0 THEN leaked ELSE leaked \cup {pingTimer}
    /\ pingTimer' = k
    /\ UNCHANGED <<ws, heard, tokenNow, effectOn, changes>>

Delivers(k) ==
    /\ ready[k] = "open"
    /\ heard' = heard \cup {k}
    /\ UNCHANGED <<ready, ws, pingTimer, leaked, tokenNow, effectOn, changes>>

(* The close event of any socket, when it is told to close or fails,       *)
(* clears the timer of the module.                                         *)
Closes(k) ==
    /\ ready[k] \in {"connecting", "open", "closing"}
    /\ ready' = [ready EXCEPT ![k] = "closed"]
    /\ pingTimer' = 0
    /\ UNCHANGED <<ws, leaked, heard, tokenNow, effectOn, changes>>

(* What the running timers do: each pings on the current socket, when open. *)
Timers == leaked \cup (IF pingTimer = 0 THEN {} ELSE {pingTimer})
Pinged == IF ws # 0 /\ ready[ws] = "open" /\ Timers # {} THEN {ws} ELSE {}

SocketNext ==
    \/ \E tok \in Tokens \cup {NoToken} : ChangeToken(tok)
    \/ \E k \in Sockets : RunEffect(k) \/ Opens(k) \/ Delivers(k) \/ Closes(k)

SocketSpec == SocketInit /\ [][SocketNext]_socketVars
-----------------------------------------------------------------------------
(* A tab holds one live connection at most: a socket the module no longer  *)
(* keeps is closing or closed, whatever order tokens change in and events  *)
(* arrive.                                                                 *)
OneLiveSocket == \A k \in Sockets : ready[k] \in {"connecting", "open"} => k = ws

(* No timer is left running that nothing can stop, and the timer of the    *)
(* module was set by the socket it keeps.                                  *)
NoTimerLeaks == leaked = {} /\ pingTimer \in {0, ws}

(* A signed-out tab, once its effect ran, has no connection and no timer.  *)
SignedOutIsQuiet ==
    tokenNow = NoToken /\ effectOn = NoToken => ws = 0 /\ Timers = {}

(* The socket of a tab: one connection, no timer nobody can stop, none of  *)
(* either once signed out (lib/socket.ts, app/providers.tsx).              *)
SocketSound == OneLiveSocket /\ NoTimerLeaks /\ SignedOutIsQuiet
=============================================================================
