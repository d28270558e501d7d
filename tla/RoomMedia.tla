-------------------------------- MODULE RoomMedia --------------------------------
(* The media plane of one room (internal/media/sfu.go, httpapi/rooms_media.go). *)
(*                                                                          *)
(* A browser opens an event stream and offers a connection for it; the SFU  *)
(* answers, registers the peer once its candidates are gathered, and from   *)
(* then on forwards every microphone to every other peer, re-offering a     *)
(* peer whenever what it receives changes.  Requests, connection callbacks, *)
(* the end of a stream and the closing of the room all run beside each      *)
(* other; s.mu is held only for the single steps below.  What the room       *)
(* says is written down is in RoomScribe.                                   *)
EXTENDS Room, FiniteSets, Naturals

CONSTANTS
  Conn,       \* connections browsers offer
  Stream,     \* event streams; a connection is offered for one of them
  Wirings,    \* which stream each connection may be offered for
  NoConn,     \* no connection
  MaxParticipants, \* FORGE_MEDIA_MAX_PARTICIPANTS
  Faults      \* of "badAnswer", "offerFails", "lost", "joinFails"

ASSUME MediaAssumption ==
  /\ Wirings \subseteq [Conn -> Stream] /\ NoConn \notin Conn
  /\ MaxParticipants \in Nat \ {0}

VARIABLES
  streamOf,  \* the stream each connection is offered for
  made,      \* the rooms map has an entry for this room
  peer,      \* that entry: the registered connection of a stream
  broken,    \* a handler panicked while it held s.mu: nothing moves again
  join,      \* a connection's Join: how far it is
  old,       \* the connection a rejoin replaces
  wire,      \* the peer connection
  mic,       \* p.mic is set: its microphone can be forwarded
  sending,   \* p.sending: whose track a peer is sent, by source stream
  stray,     \* tracks a peer is sent that its sending no longer names
  neg,       \* p's negotiation: signalling state, pending, the last offer, what
             \* the browser was last told it receives; lost: an error was returned
             \* or logged in place of an offer, and no offer was made since
  attach,    \* attachExisting of a peer: sources to add, the one checked
  share,     \* onTrack of a peer: peers to add it to, the one checked
  leave,     \* Leave of a peer: peers to be told
  reap,      \* connections whose failed or closed callback is due
  live,      \* event streams that are open
  sweep      \* CloseRoom: streams to drop

peers == <<streamOf, made, peer, broken>>
joins == <<join, old>>
lines == <<wire, mic, sending, stray, neg>>
chores == <<attach, share, leave, reap>>
doors == <<live, open, sweep>>
mediaVars == <<peers, joins, lines, chores, doors>>

Idle == [todo |-> {}, checked |-> NoConn, added |-> FALSE]

MediaTypeOK ==
  /\ streamOf \in Wirings
  /\ made \in BOOLEAN /\ peer \in [Stream -> Conn \cup {NoConn}] /\ broken \in BOOLEAN
  /\ join \in [Conn -> {"idle", "admitted", "replacing", "remaking", "gathering", "in", "refused"}]
  /\ old \in [Conn -> Conn \cup {NoConn}]
  /\ wire \in [Conn -> {"new", "up", "closed"}]
  /\ mic \in [Conn -> BOOLEAN]
  /\ sending \in [Conn -> [Stream -> Conn \cup {NoConn}]]
  /\ stray \in [Conn -> SUBSET Conn]
  /\ neg \in [Conn -> [state: {"stable", "offered"}, pending: BOOLEAN,
                      offer: SUBSET Conn, told: SUBSET Conn, lost: BOOLEAN]]
  /\ {attach, share} \subseteq
       [Conn -> [todo: SUBSET Conn, checked: Conn \cup {NoConn}, added: BOOLEAN]]
  /\ leave \in [Conn -> SUBSET Conn]
  /\ reap \subseteq Conn /\ live \subseteq Stream
  /\ open \in BOOLEAN /\ sweep \subseteq Stream
  \* The map has no entry, or it has one nobody has left.
  /\ ~ made => \A s \in Stream : peer[s] = NoConn

MediaInit ==
  /\ streamOf \in Wirings
  /\ made = FALSE /\ peer = [s \in Stream |-> NoConn] /\ broken = FALSE
  /\ join = [c \in Conn |-> "idle"] /\ old = [c \in Conn |-> NoConn]
  /\ wire = [c \in Conn |-> "new"] /\ mic = [c \in Conn |-> FALSE]
  /\ sending = [c \in Conn |-> [s \in Stream |-> NoConn]]
  /\ stray = [c \in Conn |-> {}]
  /\ neg = [c \in Conn |-> [state |-> "stable", pending |-> FALSE, offer |-> {}, told |-> {},
                           lost |-> FALSE]]
  /\ attach = [c \in Conn |-> Idle] /\ share = [c \in Conn |-> Idle]
  /\ leave = [c \in Conn |-> {}] /\ reap = {}
  /\ live = Stream /\ open = TRUE /\ sweep = {}

Registered == {peer[s] : s \in Stream} \ {NoConn}
Streams(cs) == {streamOf[c] : c \in cs}

\* The tracks a peer is sent from some streams, and those nothing will remove.
Received(c, ss) == ({sending[c][s] : s \in ss} \ {NoConn}) \cup stray[c]

\* Defect: an offer that finds an exchange under way is dropped.
ReofferOnce(n, tracks) ==
  IF n.state # "stable" THEN {n}
  ELSE {[n EXCEPT !.state = "offered", !.pending = FALSE, !.offer = tracks, !.lost = FALSE]}
       \cup {m \in {[n EXCEPT !.pending = FALSE, !.lost = TRUE]} : "offerFails" \in Faults}

\* renegotiate: what may become of a negotiation that is to offer all a peer is sent.
\* While an exchange is under way, a note to make the offer once that is over;
\* otherwise the offer, unless it can be neither created nor set.  An offer that is
\* set and does not reach the browser is one that is not answered.
Reoffer(n, tracks) ==
  IF n.state # "stable" THEN {[n EXCEPT !.pending = TRUE]}
  ELSE {[n EXCEPT !.state = "offered", !.pending = FALSE, !.offer = tracks, !.lost = FALSE]}
       \cup {m \in {[n EXCEPT !.pending = FALSE, !.lost = TRUE]} : "offerFails" \in Faults}

----------------------------------------------------------------------------
(* Leave, as Join, the callbacks, the stream's handler and CloseRoom call it *)

\* Whoever is registered for the stream leaves the map, and the map its entry
\* when that was the last; then pc.Close, which calls the connection back.  due:
\* the callbacks outstanding besides.
Depart(s, due) ==
  /\ UNCHANGED streamOf
  /\ IF peer[s] = NoConn THEN reap' = due /\ UNCHANGED <<peer, made, wire, leave>>
     ELSE LET others == Registered \ {peer[s]} IN
       /\ peer' = [peer EXCEPT ![s] = NoConn]
       /\ made' = (others # {})
       /\ wire' = [wire EXCEPT ![peer[s]] = "closed"]
       /\ reap' = due \cup {peer[s]}
       /\ leave' = [leave EXCEPT ![peer[s]] = others]

\* One of the others stops being sent the peer that left, and is told.
LeaveTells(c, o) ==
  /\ o \in leave[c]
  /\ leave' = [leave EXCEPT ![c] = @ \ {o}]
  /\ sending' = [sending EXCEPT ![o][streamOf[c]] = NoConn]
  /\ IF sending[o][streamOf[c]] = NoConn \/ wire[o] = "closed" THEN UNCHANGED neg
     ELSE \E n \in Reoffer(neg[o], Received(o, Stream \ {streamOf[c]})) :
            neg' = [neg EXCEPT ![o] = n]
  /\ UNCHANGED <<peers, joins, wire, mic, stray, attach, share, reap, doors>>

----------------------------------------------------------------------------
(* Join *)

\* POST media/offer: the room is open, and so is the stream.
MediaOffer(c) ==
  /\ join[c] = "idle" /\ open /\ streamOf[c] \in live
  /\ join' = [join EXCEPT ![c] = "admitted"]
  /\ UNCHANGED <<peers, old, lines, chores, doors>>

\* The room's entry is there, or made; the ceiling is looked at.
Enter(c) ==
  /\ join[c] = "admitted"
  /\ made' = TRUE
  /\ join' = [join EXCEPT ![c] =
       IF peer[streamOf[c]] # NoConn THEN "replacing"
       ELSE IF Cardinality(Registered) >= MaxParticipants THEN "refused" ELSE "gathering"]
  /\ UNCHANGED <<streamOf, peer, broken, old, lines, chores, doors>>

\* A stream that is here already: its previous connection leaves first.
Replace(c) ==
  /\ join[c] = "replacing"
  /\ old' = [old EXCEPT ![c] = peer[streamOf[c]]]
  /\ Depart(streamOf[c], reap)
  /\ join' = [join EXCEPT ![c] = "remaking"]
  /\ UNCHANGED <<broken, mic, sending, stray, neg, attach, share, doors>>

Remake(c) ==
  /\ join[c] = "remaking" /\ (old[c] # NoConn => leave[old[c]] = {})
  /\ made' = TRUE
  /\ old' = [old EXCEPT ![c] = NoConn]
  /\ join' = [join EXCEPT ![c] = "gathering"]
  /\ UNCHANGED <<streamOf, peer, broken, lines, chores, doors>>

\* Candidates are gathered: the peer is written into the room's entry, which has
\* to be there still.
Register(c) ==
  /\ join[c] = "gathering"
  /\ IF made THEN /\ peer' = [peer EXCEPT ![streamOf[c]] = c]
                  /\ UNCHANGED broken
     ELSE broken' = TRUE /\ UNCHANGED peer
  /\ join' = [join EXCEPT ![c] = "in"]
  /\ UNCHANGED <<streamOf, made, old, lines, chores, doors>>

\* The offer cannot be applied, or the request is cancelled: pc.Close.
JoinFails(c) ==
  /\ "joinFails" \in Faults /\ join[c] = "gathering"
  /\ join' = [join EXCEPT ![c] = "refused"]
  /\ wire' = [wire EXCEPT ![c] = "closed"]
  /\ reap' = reap \cup {c}
  /\ UNCHANGED <<peers, old, mic, sending, stray, neg, attach, share, leave, doors>>

----------------------------------------------------------------------------
(* Tracks *)

\* Defect: what is there already is left for its sources to share.
ConnectedAlone(c) ==
  /\ join[c] = "in" /\ wire[c] = "new"
  /\ wire' = [wire EXCEPT ![c] = "up"]
  /\ UNCHANGED <<peers, joins, mic, sending, stray, neg, chores, doors>>

\* The connection is up: everybody else's microphone is looked up, to be added.
Connected(c) ==
  /\ join[c] = "in" /\ wire[c] = "new"
  /\ wire' = [wire EXCEPT ![c] = "up"]
  /\ attach' = [attach EXCEPT ![c].todo =
       {a \in Registered : streamOf[a] # streamOf[c] /\ mic[a]}]
  /\ UNCHANGED <<peers, joins, mic, sending, stray, neg, share, leave, reap, doors>>

\* Its microphone arrives: everybody else is looked up, to be sent it.
OnTrack(c) ==
  /\ wire[c] = "up" /\ ~ mic[c]
  /\ mic' = [mic EXCEPT ![c] = TRUE]
  /\ share' = [share EXCEPT ![c].todo =
       {o \in Registered : streamOf[o] # streamOf[c]}]
  /\ UNCHANGED <<peers, joins, wire, sending, stray, neg, attach, leave, reap, doors>>

\* addTrackLocked, its first half: is the source there already?
Already(o, a) == sending[o][streamOf[a]] # NoConn

\* Its second: AddTrack, and the entry; what an entry named before is not forgotten
\* by the connection.
Add(o, a) ==
  /\ sending' = [sending EXCEPT ![o][streamOf[a]] = a]
  /\ stray' = [stray EXCEPT ![o] = IF Already(o, a) THEN @ \cup {sending[o][streamOf[a]]} ELSE @]

AttachChecks(c, a) ==
  /\ attach[c].checked = NoConn /\ a \in attach[c].todo
  /\ attach' = [attach EXCEPT ![c].todo = @ \ {a},
                              ![c].checked = IF Already(c, a) THEN NoConn ELSE a]
  /\ UNCHANGED <<peers, joins, lines, share, leave, reap, doors>>

AttachAdds(c) ==
  /\ attach[c].checked # NoConn
  /\ IF wire[c] = "closed" THEN UNCHANGED <<sending, stray>> ELSE Add(c, attach[c].checked)
  /\ attach' = [attach EXCEPT ![c].checked = NoConn, ![c].added = (@ \/ wire[c] # "closed")]
  /\ UNCHANGED <<peers, joins, wire, mic, neg, share, leave, reap, doors>>

AttachOffers(c) ==
  /\ attach[c].added /\ attach[c].checked = NoConn /\ attach[c].todo = {}
  /\ IF wire[c] = "closed" THEN UNCHANGED neg
     ELSE \E n \in Reoffer(neg[c], Received(c, Stream)) : neg' = [neg EXCEPT ![c] = n]
  /\ attach' = [attach EXCEPT ![c] = Idle]
  /\ UNCHANGED <<peers, joins, wire, mic, sending, stray, share, leave, reap, doors>>

ShareChecks(c, o) ==
  /\ share[c].checked = NoConn /\ o \in share[c].todo
  /\ share' = [share EXCEPT ![c].todo = @ \ {o},
                            ![c].checked = IF Already(o, c) THEN NoConn ELSE o]
  /\ UNCHANGED <<peers, joins, lines, attach, leave, reap, doors>>

ShareAdds(c) ==
  /\ share[c].checked # NoConn
  /\ LET o == share[c].checked IN
     IF wire[o] = "closed" THEN UNCHANGED <<sending, stray, neg>>
     ELSE /\ Add(o, c)
          /\ \E n \in Reoffer(neg[o], Received(o, Stream) \cup {c}) :
               neg' = [neg EXCEPT ![o] = n]
  /\ share' = [share EXCEPT ![c].checked = NoConn]
  /\ UNCHANGED <<peers, joins, wire, mic, attach, leave, reap, doors>>

\* POST media/answer: the exchange is over; one that was put off follows it.
Answer(c) ==
  /\ neg[c].state = "offered" /\ wire[c] # "closed" /\ c \notin reap
  /\ open /\ streamOf[c] \in live /\ peer[streamOf[c]] = c
  /\ LET over == [neg[c] EXCEPT !.state = "stable", !.pending = FALSE, !.told = neg[c].offer]
     IN \E n \in IF neg[c].pending THEN Reoffer(over, Received(c, Stream)) ELSE {over} :
          neg' = [neg EXCEPT ![c] = n]
  /\ UNCHANGED <<peers, joins, wire, mic, sending, stray, chores, doors>>

\* An answer that cannot be applied: what was put off is forgotten.  The offer stays
\* out, and an answer to it may follow; or the connection took the answer before it
\* failed, and is stable.
BadAnswer(c) ==
  /\ "badAnswer" \in Faults /\ neg[c].state = "offered" /\ wire[c] # "closed"
  /\ open /\ streamOf[c] \in live /\ peer[streamOf[c]] = c
  /\ \/ neg' = [neg EXCEPT ![c].pending = FALSE, ![c].lost = @ \/ neg[c].pending]
     \/ neg' = [neg EXCEPT ![c].state = "stable", ![c].pending = FALSE, ![c].lost = TRUE]
  /\ UNCHANGED <<peers, joins, wire, mic, sending, stray, chores, doors>>

----------------------------------------------------------------------------
(* Endings *)

\* The browser is gone: the connection fails.  A browser hangs up when its room
\* is closed.
Lost(c) ==
  /\ "lost" \in Faults \/ ~ open
  /\ join[c] = "in" /\ wire[c] # "closed" /\ c \notin reap
  /\ reap' = reap \cup {c}
  /\ UNCHANGED <<peers, joins, lines, attach, share, leave, doors>>

\* Defect: the callback only logs.
ReapLogs(c) ==
  /\ c \in reap
  /\ reap' = reap \ {c}
  /\ UNCHANGED <<peers, joins, lines, attach, share, leave, doors>>

\* The failed or closed callback leaves by the stream's name.
Reap(c) ==
  /\ c \in reap
  /\ Depart(streamOf[c], reap \ {c})
  /\ UNCHANGED <<broken, joins, mic, sending, stray, neg, attach, share, doors>>

\* The stream's handler returns: it leaves, and closes its subscription.
StreamEnds(s) ==
  /\ s \in live
  /\ live' = live \ {s}
  /\ Depart(s, reap)
  /\ UNCHANGED <<broken, joins, mic, sending, stray, neg, attach, share, open, sweep>>

\* POST close: the row, and then whoever is registered is dropped one by one.
CloseRoom ==
  /\ open
  /\ open' = FALSE /\ sweep' = Streams(Registered)
  /\ UNCHANGED <<peers, joins, lines, chores, live>>

SweepLeaves(s) ==
  /\ s \in sweep
  /\ sweep' = sweep \ {s}
  /\ Depart(s, reap)
  /\ UNCHANGED <<broken, joins, mic, sending, stray, neg, attach, share, live, open>>

----------------------------------------------------------------------------

Joining(c) == MediaOffer(c) \/ Enter(c) \/ Replace(c) \/ Remake(c) \/ Register(c) \/ JoinFails(c)

Onward(c) ==
  \/ Connected(c) \/ OnTrack(c) \/ Reap(c)
  \/ AttachAdds(c) \/ AttachOffers(c) \/ ShareAdds(c)
  \/ \E a \in Conn : AttachChecks(c, a) \/ ShareChecks(c, a) \/ LeaveTells(c, a)

Browsing(c) == Answer(c) \/ BadAnswer(c) \/ Lost(c)

Closing == CloseRoom \/ \E s \in Stream : SweepLeaves(s)

MediaNext ==
  /\ ~ broken
  /\ \/ \E c \in Conn : Joining(c) \/ Onward(c) \/ Browsing(c)
     \/ \E s \in Stream : StreamEnds(s)
     \/ Closing

MediaSpec == MediaInit /\ [][MediaNext]_mediaVars

\* Fair: goroutines and callbacks run on; a stream ends and a browser hangs up
\* once the closed event is out.  Not fair: offers, answers, losses.
MediaFairness ==
  /\ \A c \in Conn :
       /\ WF_mediaVars(~ broken /\ (Enter(c) \/ Replace(c) \/ Remake(c) \/ Register(c)))
       /\ WF_mediaVars(~ broken /\ Reap(c))
       /\ WF_mediaVars(~ broken /\ \E o \in Conn : LeaveTells(c, o))
       /\ WF_mediaVars(~ broken /\ ~ open /\ Lost(c))
  /\ \A s \in Stream : WF_mediaVars(~ broken /\ SweepLeaves(s))

MediaFairSpec == MediaSpec /\ MediaFairness

----------------------------------------------------------------------------

\* Nobody is arriving, leaving or being connected: what is left is for browsers.
Settled ==
  /\ ~ broken /\ reap = {}
  /\ \A c \in Conn : join[c] \in {"idle", "in", "refused"} /\ attach[c] = Idle /\ share[c] = Idle
                     /\ leave[c] = {}

\* No other connection has been offered for its stream.
Alone(c) == \A d \in Conn : streamOf[d] = streamOf[c] /\ join[d] # "idle" => d = c

\* The browser has answered all it was offered, and nothing went wrong with an offer
\* or an answer since the last offer made to it.  A change put off when an answer
\* failed, and one whose offer failed, waits for the next change.
UpToDate(c) == neg[c].state = "stable" /\ ~ neg[c].lost

\* Once things settle a browser that has answered all it was offered hears every
\* microphone of the room whose stream had the one connection, however the arrivals
\* crossed (onTrack, attachExisting, renegotiate's pending note, Answer).  What a peer
\* is sent is kept by stream: between two connections of one it is whichever came first.
EveryoneIsHeard ==
  Settled => \A a, b \in Registered :
    (a # b /\ Alone(a) /\ mic[a] /\ wire[b] = "up" /\ UpToDate(b)) => a \in neg[b].told

\* No change of what a browser is sent goes unannounced, unless an error was returned
\* or logged for it; the next offer then makes it good (renegotiate's pending note).
OffersCatchUp ==
  Settled => \A c \in Registered : UpToDate(c) => neg[c].told = Received(c, Stream)

\* What addTrackLocked's comment has ("Idempotent by source"): TLC finds a peer that
\* two arrivals both add one track to, which nothing removes.
AddedOnce == \A c \in Conn : stray[c] = {}

\* What Join's comment has of a stream that comes back ("replaces its connection"): with
\* a third connection TLC finds a peer that is never sent the new one's microphone.
WhoCameBackIsHeard ==
  Settled => \A a, b \in Registered :
    (a # b /\ mic[a] /\ wire[b] = "up" /\ UpToDate(b)) => a \in neg[b].told

\* A closed room carries no audio: everybody in it, and whoever was still on the
\* way in, is dropped (CloseRoom, Events' deferred Leave, the connection's callback).
ClosedRoomEmpties == [](~ open => <>[](Registered = {} \/ broken))
===============================================================================
