-------------------------- MODULE LeaderboardServer --------------------------
(***************************************************************************)
(* The leaderboard server of the ctf-engine (leaderboard.ts): it listens   *)
(* to the updates the scoring engine publishes in Redis and fans them out  *)
(* to Socket.IO clients and to event streams, and answers for the cached   *)
(* board.                                                                  *)
(*                                                                         *)
(* Redis hands a published message to the connections subscribed at that   *)
(* moment, each in the order of publication, and to nobody else.  A board  *)
(* is kept as the number of the SET that stored it.  The service also      *)
(* opens a Socket.IO connection to the backend, whose endpoint is a native *)
(* WebSocket: the handshake fails and no update ever comes that way.       *)
(***************************************************************************)
EXTENDS Integers, Sequences, FiniteSets

CONSTANTS
    Events,      \* the events whose boards are published
    Clients,     \* the browsers connected through Socket.IO
    Streams,     \* the browsers that open an event stream
    Writers,     \* the calls of the scoring engine in flight (external)
    NoEvent,     \* a stream that is closed, a writer at rest
    MaxBoards    \* bound: the boards stored in a behaviour

VARIABLES
    boards,      \* the number of boards stored so far
    cachedBoard, \* cachedBoard[e]: ctf:leaderboard:{e}, 0 when it is missing
    writing,     \* writing[w]: the event and the board writer w has yet to publish
    psubscribed, \* the pattern subscription of the service is up
    pending,     \* the messages its connection has still to deliver
    connected,   \* the clients with a socket
    rooms,       \* rooms[c]: the events client c subscribed to
    inbox,       \* inbox[c]: the updates client c received
    stream,      \* stream[s]: the event of stream s, and whether it is subscribed
    sent,        \* sent[s]: the updates written to stream s
    answer       \* the last answer of GET /api/leaderboard/:eventId

lbVars == <<boards, cachedBoard, writing, psubscribed, pending, connected, rooms,
            inbox, stream, sent, answer>>

ASSUME LeaderboardServerAssumption ==
    /\ NoEvent \notin Events
    /\ MaxBoards \in Nat

Update == [event : Events, board : 1 .. MaxBoards]
Closed == [event |-> NoEvent, live |-> FALSE]
Resting == [event |-> NoEvent, board |-> 0]

LeaderboardTypeOK ==
    /\ boards \in 0 .. MaxBoards
    /\ cachedBoard \in [Events -> 0 .. boards]
    /\ \A w \in Writers : writing[w] = Resting \/ writing[w] \in Update
    /\ psubscribed \in BOOLEAN
    /\ pending \in Seq(Update)
    /\ connected \subseteq Clients
    /\ rooms \in [Clients -> SUBSET Events]
    /\ \A c \in Clients : c \notin connected => rooms[c] = {} /\ inbox[c] = <<>>
    /\ \A s \in Streams : stream[s].event = NoEvent => stream[s] = Closed /\ sent[s] = <<>>

LeaderboardInit ==
    /\ boards = 0
    /\ cachedBoard = [e \in Events |-> 0]
    /\ writing = [w \in Writers |-> Resting]
    /\ psubscribed = FALSE
    /\ pending = <<>>
    /\ connected = {}
    /\ rooms = [c \in Clients |-> {}]
    /\ inbox = [c \in Clients |-> <<>>]
    /\ stream = [s \in Streams |-> Closed]
    /\ sent = [s \in Streams |-> <<>>]
    /\ answer = [source |-> "none", board |-> 0, seen |-> 0]
-----------------------------------------------------------------------------
(* The scoring engine: SET the board, then PUBLISH it.                     *)
Store(w, e) ==
    /\ writing[w] = Resting
    /\ boards < MaxBoards
    /\ boards' = boards + 1
    /\ cachedBoard' = [cachedBoard EXCEPT ![e] = boards + 1]
    /\ writing' = [writing EXCEPT ![w] = [event |-> e, board |-> boards + 1]]
    /\ UNCHANGED <<psubscribed, pending, connected, rooms, inbox, stream, sent, answer>>

OfChannel(s, u) == stream[s].live /\ stream[s].event = u.event

Publish(w) ==
    /\ writing[w] # Resting
    /\ writing' = [writing EXCEPT ![w] = Resting]
    /\ pending' = IF psubscribed THEN Append(pending, writing[w]) ELSE pending
    /\ sent' = [s \in Streams |-> IF OfChannel(s, writing[w]) THEN Append(sent[s], writing[w])
                                  ELSE sent[s]]
    /\ UNCHANGED <<boards, cachedBoard, psubscribed, connected, rooms, inbox, stream, answer>>

(* The connection of the service to Redis: ioredis subscribes again after  *)
(* a loss, and what was published meanwhile is gone.                       *)
Psubscribe ==
    /\ ~psubscribed
    /\ psubscribed' = TRUE
    /\ UNCHANGED <<boards, cachedBoard, writing, pending, connected, rooms, inbox, stream,
                   sent, answer>>

LoseRedis ==
    /\ psubscribed
    /\ psubscribed' = FALSE
    /\ pending' = <<>>
    /\ UNCHANGED <<boards, cachedBoard, writing, connected, rooms, inbox, stream, sent, answer>>

(* The copies of an update a client gets: one for the room of the event    *)
(* and one for everybody.                                                  *)
Copies(c, u) == (IF u.event \in rooms[c] THEN <<u>> ELSE <<>>) \o <<u>>

\* Mutant of Fan: the newest message first.
FanNewest ==
    LET n == Len(pending) IN
    /\ pending # <<>>
    /\ pending' = SubSeq(pending, 1, n - 1)
    /\ inbox' = [c \in Clients |-> IF c \in connected THEN inbox[c] \o Copies(c, pending[n])
                                   ELSE inbox[c]]
    /\ UNCHANGED <<boards, cachedBoard, writing, psubscribed, connected, rooms, stream, sent,
                   answer>>

(* pmessage: what cannot be parsed is logged and dropped.                  *)
Fan ==
    /\ pending # <<>>
    /\ pending' = Tail(pending)
    /\ inbox' = [c \in Clients |-> IF c \in connected THEN inbox[c] \o Copies(c, Head(pending))
                                   ELSE inbox[c]]
    /\ UNCHANGED <<boards, cachedBoard, writing, psubscribed, connected, rooms, stream, sent,
                   answer>>
-----------------------------------------------------------------------------
Connect(c) ==
    /\ c \notin connected
    /\ connected' = connected \cup {c}
    /\ UNCHANGED <<boards, cachedBoard, writing, psubscribed, pending, rooms, inbox, stream,
                   sent, answer>>

Subscribe(c, e) ==
    /\ c \in connected
    /\ rooms' = [rooms EXCEPT ![c] = @ \cup {e}]
    /\ UNCHANGED <<boards, cachedBoard, writing, psubscribed, pending, connected, inbox, stream,
                   sent, answer>>

Unsubscribe(c, e) ==
    /\ c \in connected
    /\ rooms' = [rooms EXCEPT ![c] = @ \ {e}]
    /\ UNCHANGED <<boards, cachedBoard, writing, psubscribed, pending, connected, inbox, stream,
                   sent, answer>>

(* A client that comes back has a new socket, in no room.                  *)
Disconnect(c) ==
    /\ c \in connected
    /\ connected' = connected \ {c}
    /\ rooms' = [rooms EXCEPT ![c] = {}]
    /\ inbox' = [inbox EXCEPT ![c] = <<>>]
    /\ UNCHANGED <<boards, cachedBoard, writing, psubscribed, pending, stream, sent, answer>>

(* GET .../stream says "connected" at once; its subscription is up later,  *)
(* or fails and ends the response.                                         *)
OpenStream(s, e) ==
    /\ stream[s] = Closed
    /\ stream' = [stream EXCEPT ![s] = [event |-> e, live |-> FALSE]]
    /\ UNCHANGED <<boards, cachedBoard, writing, psubscribed, pending, connected, rooms, inbox,
                   sent, answer>>

StreamSubscribed(s) ==
    /\ stream[s].event # NoEvent
    /\ ~stream[s].live
    /\ stream' = [stream EXCEPT ![s].live = TRUE]
    /\ UNCHANGED <<boards, cachedBoard, writing, psubscribed, pending, connected, rooms, inbox,
                   sent, answer>>

CloseStream(s) ==
    /\ stream[s] # Closed
    /\ stream' = [stream EXCEPT ![s] = Closed]
    /\ sent' = [sent EXCEPT ![s] = <<>>]
    /\ UNCHANGED <<boards, cachedBoard, writing, psubscribed, pending, connected, rooms, inbox,
                   answer>>

SentOf(seq, e) == {u.board : u \in {seq[i] : i \in {j \in DOMAIN seq : seq[j].event = e}}}
Newest(e) ==
    LET seen == {0} \cup (UNION {SentOf(inbox[c], e) : c \in Clients})
                    \cup (UNION {SentOf(sent[s], e) : s \in Streams})
    IN CHOOSE n \in seen : \A m \in seen : m <= n

(* GET /api/leaderboard/:eventId: the cache, else the backend, else an     *)
(* empty board; "seen" is the newest board any browser had been shown.     *)
Source(e, up) == IF cachedBoard[e] # 0 THEN "cache" ELSE IF up THEN "backend" ELSE "error"

Get(e, up) ==
    /\ answer' = [source |-> Source(e, up), board |-> cachedBoard[e], seen |-> Newest(e)]
    /\ UNCHANGED <<boards, cachedBoard, writing, psubscribed, pending, connected, rooms, inbox,
                   stream, sent>>

LeaderboardNext ==
    \/ \E w \in Writers, e \in Events : Store(w, e)
    \/ \E w \in Writers : Publish(w)
    \/ Psubscribe \/ LoseRedis \/ Fan
    \/ \E c \in Clients : Connect(c) \/ Disconnect(c)
    \/ \E c \in Clients, e \in Events : Subscribe(c, e) \/ Unsubscribe(c, e)
    \/ \E s \in Streams, e \in Events : OpenStream(s, e)
    \/ \E s \in Streams : StreamSubscribed(s) \/ CloseStream(s)
    \/ \E e \in Events, up \in BOOLEAN : Get(e, up)

LeaderboardSpec == LeaderboardInit /\ [][LeaderboardNext]_lbVars
-----------------------------------------------------------------------------
Received == [b \in Clients \cup Streams |-> IF b \in Clients THEN inbox[b] ELSE sent[b]]

(* Two browsers that are shown the same two boards of an event are shown   *)
(* them in one order, room members, other clients and streams alike, even  *)
(* when two calls of the engine publish in another order than they stored: *)
(* otherwise their boards stay different until the next update.            *)
Before(b, u, v) == \E i, j \in DOMAIN Received[b] :
    i < j /\ Received[b][i] = u /\ Received[b][j] = v
SameOrder == \A b, d \in Clients \cup Streams :
    \A i, j \in DOMAIN Received[b] :
        i < j /\ Received[b][i] # Received[b][j] => ~Before(d, Received[b][j], Received[b][i])

(* A stream carries the updates of its own event only.                     *)
StreamOwnEvent == \A s \in Streams : \A i \in DOMAIN sent[s] : sent[s][i].event = stream[s].event

(* A board read over GET is not older than one the engine had published    *)
(* and somebody had been shown: the engine stores a board before it        *)
(* publishes it.                                                           *)
AnswerNotOlder == answer.seen <= answer.board

(* What browsers see of the boards: one order for all, streams of one      *)
(* event, and reads that are not older than what was shown                 *)
(* (the pmessage handler and the read route).                              *)
BoardsInOrder == SameOrder /\ StreamOwnEvent /\ AnswerNotOlder
=============================================================================
