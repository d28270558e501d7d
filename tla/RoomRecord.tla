------------------------------- MODULE RoomRecord -------------------------------
(* A room's transcript and the browsers that follow it                      *)
(* (internal/domain/collab/room.go and hub.go, httpapi/rooms.go: Events,    *)
(* assets/room.js and room-page.js).                                        *)
(*                                                                          *)
(* A turn is committed and then published; the hub puts it into the bounded *)
(* buffer of every stream, and drops a stream whose buffer is full.  A      *)
(* browser adds the turns it hears of to its page, and reads the whole room *)
(* again when it connects, when words were deleted, when somebody came or   *)
(* went, and when it is told it fell behind; an answer replaces the page.   *)
(* Turns here are spoken ones, which is what RedactVoice deletes.           *)
EXTENDS Room, FiniteSets, FiniteSetsExt, Integers, Sequences

CONSTANTS
  Turn,       \* Say requests, a turn each
  Redaction,  \* RedactVoice requests
  Comings,    \* joins and departures, each of which is published
  Browser,
  Buffer,     \* subscriberBuffer
  MaxReads,   \* reads of the room a browser has under way at once
  MaxFaults   \* times the network fails a browser: it drops a stream, or a read

ASSUME RecordAssumption ==
  /\ {Buffer, MaxReads, MaxFaults, Comings} \subseteq Nat /\ Buffer > 0 /\ MaxReads > 0

VARIABLES
  rows,       \* forge_room_turns
  wiped,      \* turns with redacted_at
  version,    \* writes of rows and wiped so far (history)
  say,        \* how far a Say is, and the sequence number it read
  redact,     \* how far a RedactVoice is
  close,      \* how far a Close is
  comings,    \* presence events still to be published
  stream,     \* a browser's event stream
  missed,     \* an event found the buffer full: the stream is to be dropped
  buf,
  wants,      \* reads under way the server has not answered
  replies,    \* answers on their way
  page,       \* the turns on show, in their order
  newest,     \* the latest state of the record a browser has shown (history)
  raced,      \* something older has been put over something newer (history)
  unread,     \* the version of the record when a read last failed, while no answer
              \* as new as that has come in since; or else Nothing (history)
  faults

record == <<open, rows, wiped, version>>
requests == <<say, redact, close, comings>>
streams == <<stream, missed, buf, faults>>
views == <<wants, replies, page, newest, raced, unread>>
recordVars == <<record, requests, streams, views>>

Nothing == -1

Row == [seq: Nat, turn: Turn]
Line == [turn: Turn, words: BOOLEAN]
Event == [kind: {"turn"}, turn: Turn, version: Nat]
         \cup [kind: {"redacted", "presence", "closed"}]
Snapshot == [rows: SUBSET Row, wiped: SUBSET Turn, version: Nat]

RecordTypeOK ==
  /\ open \in BOOLEAN /\ rows \subseteq Row /\ wiped \subseteq {r.turn : r \in rows}
  /\ version \in Nat /\ comings \in 0..Comings
  /\ say \in [Turn -> [at: {"idle", "found", "read", "written", "done", "failed"}, seq: Nat]]
  /\ redact \in [Redaction -> {"idle", "written", "done"}]
  /\ close \in {"idle", "written", "done"}
  /\ stream \in [Browser -> {"off", "checked", "on", "dropped", "ended"}]
  /\ missed \in [Browser -> BOOLEAN]
  /\ buf \in [Browser -> Seq(Event)] /\ \A b \in Browser : Len(buf[b]) <= Buffer
  /\ wants \in [Browser -> 0..MaxReads] /\ replies \in [Browser -> SUBSET Snapshot]
  /\ page \in [Browser -> Seq(Line)] /\ newest \in [Browser -> Nat]
  /\ raced \in [Browser -> BOOLEAN] /\ unread \in [Browser -> Nat \cup {Nothing}]
  /\ faults \in [Browser -> 0..MaxFaults]

RecordInit ==
  /\ open = TRUE /\ rows = {} /\ wiped = {} /\ version = 0
  /\ say = [t \in Turn |-> [at |-> "idle", seq |-> 0]]
  /\ redact = [d \in Redaction |-> "idle"] /\ close = "idle" /\ comings = Comings
  /\ stream = [b \in Browser |-> "off"] /\ missed = [b \in Browser |-> FALSE]
  /\ buf = [b \in Browser |-> <<>>] /\ faults = [b \in Browser |-> 0]
  /\ wants = [b \in Browser |-> 0] /\ replies = [b \in Browser |-> {}]
  /\ page = [b \in Browser |-> <<>>] /\ newest = [b \in Browser |-> 0]
  /\ raced = [b \in Browser |-> FALSE] /\ unread = [b \in Browser |-> Nothing]

Written == {r.turn : r \in rows}
Shown(b) == {page[b][i].turn : i \in DOMAIN page[b]}
Spelled(b) == {page[b][i].turn : i \in {j \in DOMAIN page[b] : page[b][j].words}}

----------------------------------------------------------------------------
(* Hub.Publish: every stream of the room that has a place for it is sent the *)
(* event; the others are dropped once the read lock is released.            *)

\* Defect: a full buffer is simply passed over, and its stream left on.
PublishPassingOver(e) ==
  LET has == {b \in Browser : stream[b] = "on" /\ Len(buf[b]) < Buffer}
  IN /\ buf' = [b \in Browser |-> IF b \in has THEN Append(buf[b], e) ELSE buf[b]]
     /\ UNCHANGED <<missed, stream, faults>>

Publish(e) ==
  LET on == {b \in Browser : stream[b] = "on"}
      has == {b \in on : Len(buf[b]) < Buffer}
  IN /\ buf' = [b \in Browser |-> IF b \in has THEN Append(buf[b], e) ELSE buf[b]]
     /\ missed' = [b \in Browser |-> missed[b] \/ b \in on \ has]
     /\ UNCHANGED <<stream, faults>>

\* Marked as lagging, then closed: what is buffered can still be read.
Drop(b) ==
  /\ stream[b] = "on" /\ missed[b]
  /\ stream' = [stream EXCEPT ![b] = "dropped"]
  /\ missed' = [missed EXCEPT ![b] = FALSE]
  /\ UNCHANGED <<record, requests, buf, faults, views>>

----------------------------------------------------------------------------
(* The record *)

SetSay(t, at, seq) == say' = [say EXCEPT ![t] = [at |-> at, seq |-> seq]]

\* Say finds the room open.
FindOpen(t) ==
  /\ say[t].at = "idle" /\ open
  /\ SetSay(t, "found", 0)
  /\ UNCHANGED <<record, redact, close, comings, streams, views>>

\* coalesce(max(seq), 0)
LastSeq == Max({r.seq : r \in rows} \cup {0})

\* max(seq) + 1, in a transaction of its own.
NextSeq(t) ==
  /\ say[t].at = "found"
  /\ SetSay(t, "read", LastSeq + 1)
  /\ UNCHANGED <<record, redact, close, comings, streams, views>>

\* Defect: no unique key on the sequence number.
InsertAnyway(t) ==
  /\ say[t].at = "read"
  /\ rows' = rows \cup {[seq |-> say[t].seq, turn |-> t]} /\ version' = version + 1
  /\ SetSay(t, "written", version + 1)
  /\ UNCHANGED <<open, wiped, redact, close, comings, streams, views>>

\* unique (room_id, seq): the one that comes second loses its turn.
Insert(t) ==
  /\ say[t].at = "read"
  /\ IF \E r \in rows : r.seq = say[t].seq
     THEN SetSay(t, "failed", 0) /\ UNCHANGED record
     ELSE /\ rows' = rows \cup {[seq |-> say[t].seq, turn |-> t]}
          /\ version' = version + 1
          /\ SetSay(t, "written", version + 1) /\ UNCHANGED <<open, wiped>>
  /\ UNCHANGED <<redact, close, comings, streams, views>>

\* After the commit, never before.
PublishTurn(t) ==
  /\ say[t].at = "written"
  /\ Publish([kind |-> "turn", turn |-> t, version |-> say[t].seq])
  /\ SetSay(t, "done", 0)
  /\ UNCHANGED <<record, redact, close, comings, views>>

\* RedactVoice: what is not redacted yet; nothing is published where nothing was.
Redact(d) ==
  /\ redact[d] = "idle"
  /\ IF Written \subseteq wiped
     THEN redact' = [redact EXCEPT ![d] = "done"] /\ UNCHANGED <<wiped, version>>
     ELSE /\ redact' = [redact EXCEPT ![d] = "written"]
          /\ wiped' = Written /\ version' = version + 1
  /\ UNCHANGED <<open, rows, say, close, comings, streams, views>>

PublishRedacted(d) ==
  /\ redact[d] = "written"
  /\ Publish([kind |-> "redacted"])
  /\ redact' = [redact EXCEPT ![d] = "done"]
  /\ UNCHANGED <<record, say, close, comings, views>>

Presence ==
  /\ comings > 0
  /\ comings' = comings - 1 /\ Publish([kind |-> "presence"])
  /\ UNCHANGED <<record, say, redact, close, views>>

CloseRow ==
  /\ close = "idle" /\ close' = "written" /\ open' = FALSE
  /\ UNCHANGED <<rows, wiped, version, say, redact, comings, streams, views>>

PublishClosed ==
  /\ close = "written" /\ close' = "done"
  /\ Publish([kind |-> "closed"])
  /\ UNCHANGED <<record, say, redact, comings, views>>

----------------------------------------------------------------------------
(* A browser *)

\* Events finds the room open.
Connect(b) ==
  /\ stream[b] = "off" /\ open
  /\ stream' = [stream EXCEPT ![b] = "checked"]
  /\ UNCHANGED <<record, requests, missed, buf, faults, views>>

\* It subscribes, and says hello, at which the browser reads the room.
Subscribe(b) ==
  /\ stream[b] = "checked" /\ wants[b] < MaxReads
  /\ stream' = [stream EXCEPT ![b] = "on"]
  /\ wants' = [wants EXCEPT ![b] = @ + 1]
  /\ UNCHANGED <<record, requests, missed, buf, faults, replies, page, newest, raced, unread>>

\* An event is sent and handled.
Hear(b) ==
  /\ stream[b] \in {"on", "dropped"} /\ buf[b] # <<>>
  /\ buf' = [buf EXCEPT ![b] = Tail(@)]
  /\ LET e == Head(buf[b]) IN
     \/ /\ e.kind = "turn"
        /\ page' = [page EXCEPT ![b] = Append(@, [turn |-> e.turn, words |-> TRUE])]
        /\ newest' = [newest EXCEPT ![b] = IF e.version > @ THEN e.version ELSE @]
        /\ raced' = [raced EXCEPT ![b] = @ \/ e.turn \in Shown(b) \ Spelled(b)]
        /\ UNCHANGED <<stream, wants, replies, missed, unread>>
     \/ /\ e.kind \in {"redacted", "presence"} /\ wants[b] < MaxReads
        /\ wants' = [wants EXCEPT ![b] = @ + 1]
        /\ UNCHANGED <<stream, missed, replies, page, newest, raced, unread>>
     \/ /\ e.kind = "closed"
        /\ stream' = [stream EXCEPT ![b] = "ended"] /\ missed' = [missed EXCEPT ![b] = FALSE]
        /\ UNCHANGED views
  /\ UNCHANGED <<record, requests, faults>>

\* Defect: a browser told it fell behind does not connect again.
LaggedForGood(b) ==
  /\ stream[b] = "dropped" /\ buf[b] = <<>> /\ wants[b] < MaxReads
  /\ stream' = [stream EXCEPT ![b] = "ended"]
  /\ wants' = [wants EXCEPT ![b] = @ + 1]
  /\ UNCHANGED <<record, requests, missed, buf, faults, replies, page, newest, raced, unread>>

\* The buffer of a dropped stream is read out: told it fell behind, the browser reads
\* the room and connects again.
Lagged(b) ==
  /\ stream[b] = "dropped" /\ buf[b] = <<>> /\ wants[b] < MaxReads
  /\ stream' = [stream EXCEPT ![b] = "off"]
  /\ wants' = [wants EXCEPT ![b] = @ + 1]
  /\ UNCHANGED <<record, requests, missed, buf, faults, replies, page, newest, raced, unread>>

\* The connection is lost; EventSource opens it again.
Break(b) ==
  /\ stream[b] \in {"on", "dropped"} /\ faults[b] < MaxFaults
  /\ stream' = [stream EXCEPT ![b] = "off"] /\ missed' = [missed EXCEPT ![b] = FALSE]
  /\ buf' = [buf EXCEPT ![b] = <<>>] /\ faults' = [faults EXCEPT ![b] = @ + 1]
  /\ UNCHANGED <<record, requests, views>>

\* GET /v1/rooms/{id}: Find's select of the turns.
Serve(b) ==
  /\ wants[b] > 0
  /\ wants' = [wants EXCEPT ![b] = @ - 1]
  /\ replies' = [replies EXCEPT ![b] =
       @ \cup {[rows |-> rows, wiped |-> wiped, version |-> version]}]
  /\ UNCHANGED <<record, requests, streams, page, newest, raced, unread>>

\* reload's catch: the request is refused or lost, or its answer is.  The page says so,
\* stays as it is, and nothing reads again on that account.
ReadFails(b) ==
  /\ faults[b] < MaxFaults /\ faults' = [faults EXCEPT ![b] = @ + 1]
  /\ \/ wants[b] > 0 /\ wants' = [wants EXCEPT ![b] = @ - 1] /\ UNCHANGED replies
     \/ /\ \E a \in replies[b] : replies' = [replies EXCEPT ![b] = @ \ {a}]
        /\ UNCHANGED wants
  /\ unread' = [unread EXCEPT ![b] = version]
  /\ UNCHANGED <<record, requests, stream, missed, buf, page, newest, raced>>

\* The answer, whichever of several it is, becomes the page.
Arrive(b, a) ==
  /\ a \in replies[b]
  /\ replies' = [replies EXCEPT ![b] = @ \ {a}]
  /\ page' = [page EXCEPT ![b] = [i \in 1..Cardinality(a.rows) |->
       LET r == CHOOSE r \in a.rows : r.seq = i
       IN [turn |-> r.turn, words |-> r.turn \notin a.wiped]]]
  /\ newest' = [newest EXCEPT ![b] = IF a.version > @ THEN a.version ELSE @]
  /\ raced' = [raced EXCEPT ![b] = a.version < newest[b]]
  /\ unread' = [unread EXCEPT ![b] = IF a.version >= @ THEN Nothing ELSE @]
  /\ UNCHANGED <<record, requests, streams, wants>>

----------------------------------------------------------------------------

Saying(t) == FindOpen(t) \/ NextSeq(t) \/ Insert(t) \/ PublishTurn(t)
Following(b) ==
  \/ Connect(b) \/ Subscribe(b) \/ Hear(b) \/ Lagged(b) \/ Drop(b) \/ Serve(b)
  \/ \E a \in replies[b] : Arrive(b, a)

RecordNext ==
  \/ \E t \in Turn : Saying(t)
  \/ \E d \in Redaction : Redact(d) \/ PublishRedacted(d)
  \/ Presence \/ CloseRow \/ PublishClosed
  \/ \E b \in Browser : Following(b) \/ Break(b) \/ ReadFails(b)

RecordSpec == RecordInit /\ [][RecordNext]_recordVars

\* Handlers run on; of the hub, the server and the browser, somebody takes the next step
\* there is for a browser.
RecordFairness ==
  /\ \A t \in Turn : WF_recordVars(PublishTurn(t))
  /\ \A d \in Redaction : WF_recordVars(PublishRedacted(d))
  /\ \A b \in Browser : WF_recordVars(Following(b))

RecordFairSpec == RecordSpec /\ RecordFairness

----------------------------------------------------------------------------

\* However many speak at once the transcript is numbered 1, 2, 3, with nobody's turn
\* over another's (Say: unique (room_id, seq)).
NumberedThrough ==
  /\ {r.seq : r \in rows} = 1..Cardinality(rows)
  /\ \A q, r \in rows : q.turn = r.turn => q = r

\* Nothing more is on its way to a browser that is connected.
Quiet(b) ==
  /\ stream[b] = "on" /\ ~ missed[b] /\ buf[b] = <<>> /\ wants[b] = 0 /\ replies[b] = {}
  /\ \A t \in Turn : say[t].at # "written"
  /\ \A d \in Redaction : redact[d] # "written"

\* Nothing older was put over what the page shows, and no read of the room failed that a
\* later one has not made up for.
InStep(b) == ~ raced[b] /\ unread[b] = Nothing

Matches(b) == Shown(b) = Written /\ Spelled(b) = Written \ wiped

\* A page that has caught up shows every turn and no deleted word, through lag, lost
\* connections, deletions and reads that failed before one that did not (Publish, Events,
\* room.js: hello, lagged, redacted).
PageIsTheRecord == \A b \in Browser : Quiet(b) /\ InStep(b) => Matches(b)

\* However often a browser lags or loses its connection, when the talking is over its page
\* is the record, unless the room was closed under it, an older answer came in last, or
\* the last read failed (Events, Hub.Publish, room.js: lagged, EventSource's reconnection).
PagesSettle == <>[](\A b \in Browser : ~ InStep(b) \/ ~ open \/ Matches(b))
==================================================================================
