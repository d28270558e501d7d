------------------------------- MODULE RoomScribe -------------------------------
(* Writing a room down (internal/media/transcribe.go, sfu.go: forward, Leave, *)
(* SetState; httpapi/rooms_media.go: MediaOffer, SetTranscribing, VoiceTurn).  *)
(*                                                                          *)
(* Whether a room is on the record is kept twice: the row of forge_rooms,   *)
(* and the media plane's map, which a Join and a switch bring into line and *)
(* the last departure clears.  A packet that finds the map at "on" joins    *)
(* its speaker's open segment; silence, a mute, a switch-off or the end of  *)
(* the track closes the segment; a bounded queue hands it to the workers,   *)
(* who transcribe it and write a turn.  Each operation is the steps it      *)
(* takes between its locks, and they all run beside each other.             *)
EXTENDS Room, FiniteSets, Naturals, Sequences

CONSTANTS
  Speaker,    \* event streams, each with one connection
  Switch,     \* SetTranscribing requests
  Worker,
  None,       \* no entry, no packet, no job
  Words,      \* packets each speaker sends
  Muters,     \* speakers who mute themselves, and come back, once
  MinWords,   \* minSegmentPackets
  Depth       \* FORGE_MEDIA_TRANSCRIBE_WORKERS * 8: the queue

ASSUME ScribeAssumption ==
  /\ Words \in [Speaker -> Nat] /\ Muters \subseteq Speaker /\ MinWords \in Nat /\ Depth \in Nat
  /\ None \notin Nat \cup [who: Speaker, words: SUBSET Nat]

VARIABLES
  row,        \* forge_rooms.transcribing
  flag,       \* transcription.rooms[room]: None where the room is not in it
  seat,       \* how far a speaker's connection is
  asked,      \* the row as its Join read it
  switch,     \* how far a request is: what it has written to the row
  crossed,    \* two of these have overlapped (history)
  muted,
  said,       \* packets a speaker has sent
  hand,       \* the one forward is about to write
  seg,        \* the speaker's open segment
  closing,    \* closeSegment calls under way: who calls, whose segment
  jobs,
  busy,       \* the job a worker is at
  fate        \* what became of each packet (history)

room == <<open, row, flag, crossed>>
talk == <<muted, said, hand, seg, closing>>
work == <<jobs, busy>>
scribeVars == <<room, seat, asked, switch, talk, work, fate>>

Word == UNION {{s} \X (1..Words[s]) : s \in Speaker}
Job == [who: Speaker, words: SUBSET Nat]
Setting == {"on", "off"}
Caller == {"sweep", "mute"} \cup Switch

ScribeTypeOK ==
  /\ open \in BOOLEAN /\ row \in Setting /\ flag \in Setting \cup {None} /\ crossed \in BOOLEAN
  /\ seat \in [Speaker -> {"out", "asking", "entering", "in", "leaving", "left"}]
  /\ asked \in [Speaker -> Setting]
  /\ switch \in [Switch -> {"idle", "on", "off", "flush", "done"}]
  /\ muted \in [Speaker -> {"no", "yes", "back"}] /\ said \in [Speaker -> Nat]
  /\ hand \in [Speaker -> Nat \cup {None}]
  /\ seg \in [Speaker -> SUBSET Nat]
  /\ closing \subseteq Caller \X Speaker
  /\ jobs \in Seq(Job) /\ Len(jobs) <= Depth
  /\ busy \in [Worker -> Job \cup {None}]
  /\ fate \in [Word -> {"none", "lost", "refused", "recorded"}]

ScribeInit ==
  /\ open = TRUE /\ row = "on" /\ flag = None /\ crossed = FALSE
  /\ seat = [s \in Speaker |-> "out"] /\ asked = [s \in Speaker |-> "off"]
  /\ switch = [r \in Switch |-> "idle"]
  /\ muted = [s \in Speaker |-> "no"] /\ said = [s \in Speaker |-> 0] /\ hand = [s \in Speaker |-> None]
  /\ seg = [s \in Speaker |-> {}] /\ closing = {}
  /\ jobs = <<>> /\ busy = [w \in Worker |-> None]
  /\ fate = [w \in Word |-> "none"]

Switching == {r \in Switch : switch[r] \in Setting}
Arriving == {s \in Speaker : seat[s] \in {"asking", "entering"}}
Present == {s \in Speaker : seat[s] = "in"}

Becomes(s, ns, what) == [w \in Word |-> IF w[1] = s /\ w[2] \in ns THEN what ELSE fate[w]]

----------------------------------------------------------------------------
(* The setting *)

\* MediaOffer reads the row.
Offer(s) ==
  /\ seat[s] = "out" /\ open
  /\ seat' = [seat EXCEPT ![s] = "asking"] /\ asked' = [asked EXCEPT ![s] = row]
  /\ crossed' = (crossed \/ Switching # {})
  /\ UNCHANGED <<open, row, flag, switch, talk, work, fate>>

\* Join: setRoom, with what was read.
SetRoom(s) ==
  /\ seat[s] = "asking"
  /\ seat' = [seat EXCEPT ![s] = "entering"] /\ flag' = asked[s]
  /\ UNCHANGED <<open, row, crossed, asked, switch, talk, work, fate>>

Enrol(s) ==
  /\ seat[s] = "entering"
  /\ seat' = [seat EXCEPT ![s] = "in"]
  /\ UNCHANGED <<room, asked, switch, talk, work, fate>>

\* Defect: whoever leaves forgets the room.
LeaveForgetting(s) ==
  /\ seat[s] = "in"
  /\ seat' = [seat EXCEPT ![s] = "left"] /\ flag' = None
  /\ crossed' = (crossed \/ (Present = {s} /\ Arriving # {}))
  /\ UNCHANGED <<open, row, asked, switch, talk, work, fate>>

\* Leave: out of the map; whoever leaves it empty goes on to forget the room.
Leave(s) ==
  /\ seat[s] = "in"
  /\ seat' = [seat EXCEPT ![s] = IF Present = {s} THEN "leaving" ELSE "left"]
  /\ crossed' = (crossed \/ (Present = {s} /\ Arriving # {}))
  /\ UNCHANGED <<open, row, flag, asked, switch, talk, work, fate>>

Forget(s) ==
  /\ seat[s] = "leaving"
  /\ flag' = None /\ seat' = [seat EXCEPT ![s] = "left"]
  /\ crossed' = (crossed \/ Present \cup Arriving # {})
  /\ UNCHANGED <<open, row, asked, switch, talk, work, fate>>

\* SetTranscribing: the row, guarded by its being open.
SetRow(r, on) ==
  /\ switch[r] = "idle" /\ open
  /\ row' = on /\ switch' = [switch EXCEPT ![r] = on]
  /\ crossed' = (crossed \/ Switching \cup Arriving # {})
  /\ UNCHANGED <<open, flag, seat, asked, talk, work, fate>>

\* Then the media plane's map; a switch-off goes on to what is open.
SetFlag(r) ==
  /\ switch[r] \in Setting
  /\ flag' = switch[r]
  /\ switch' = [switch EXCEPT ![r] = IF @ = "off" THEN "flush" ELSE "done"]
  /\ UNCHANGED <<open, row, crossed, seat, asked, talk, work, fate>>

FlushRoom(r) ==
  /\ switch[r] = "flush"
  /\ switch' = [switch EXCEPT ![r] = "done"]
  /\ closing' = closing \cup {<<r, s>> : s \in {x \in Speaker : seg[x] # {}}}
  /\ UNCHANGED <<room, seat, asked, muted, said, hand, seg, work, fate>>

Close ==
  /\ open /\ open' = FALSE
  /\ UNCHANGED <<row, flag, crossed, seat, asked, switch, talk, work, fate>>

----------------------------------------------------------------------------
(* Speaking *)

\* Defect: the segment stays open once it is queued.
closeSegmentCopied(s) ==
  /\ UNCHANGED seg
  /\ \/ /\ seg[s] # {} /\ Cardinality(seg[s]) >= MinWords /\ Len(jobs) < Depth
        /\ jobs' = Append(jobs, [who |-> s, words |-> seg[s]]) /\ UNCHANGED fate
     \/ fate' = Becomes(s, seg[s], "lost") /\ UNCHANGED jobs

\* A segment is taken, under the lock, and queued: a click is not, nor is one the queue
\* has no place for, which every room of the process shares.
closeSegment(s) ==
  /\ seg' = [seg EXCEPT ![s] = {}]
  /\ \/ /\ seg[s] # {} /\ Cardinality(seg[s]) >= MinWords /\ Len(jobs) < Depth
        /\ jobs' = Append(jobs, [who |-> s, words |-> seg[s]]) /\ UNCHANGED fate
     \/ fate' = Becomes(s, seg[s], "lost") /\ UNCHANGED jobs

\* forward reads a packet: a muted speaker's, and one of a room off the record, goes
\* no further.
Speak(s) ==
  /\ seat[s] = "in" /\ hand[s] = None /\ said[s] < Words[s]
  /\ said' = [said EXCEPT ![s] = @ + 1]
  /\ IF muted[s] = "yes" \/ flag # "on"
     THEN fate' = Becomes(s, {said[s] + 1}, "lost") /\ UNCHANGED hand
     ELSE hand' = [hand EXCEPT ![s] = said[s] + 1] /\ UNCHANGED fate
  /\ UNCHANGED <<room, seat, asked, switch, muted, seg, closing, work>>

\* write, under its lock.
Write(s) ==
  /\ hand[s] # None
  /\ seg' = [seg EXCEPT ![s] = @ \cup {hand[s]}] /\ hand' = [hand EXCEPT ![s] = None]
  /\ UNCHANGED <<room, seat, asked, switch, muted, said, closing, work, fate>>

\* SetState; silence also closes what was being said.
SetState(s) ==
  /\ seat[s] = "in" /\ open
  /\ \/ /\ muted[s] = "no" /\ s \in Muters
        /\ muted' = [muted EXCEPT ![s] = "yes"] /\ closing' = closing \cup {<<"mute", s>>}
     \/ /\ muted[s] = "yes"
        /\ muted' = [muted EXCEPT ![s] = "back"] /\ UNCHANGED closing
  /\ UNCHANGED <<room, seat, asked, switch, said, hand, seg, work, fate>>

\* The track is over: forward's deferred closeSegment.
EndForward(s) ==
  /\ seat[s] \in {"leaving", "left"} /\ hand[s] = None /\ seg[s] # {}
  /\ closeSegment(s)
  /\ UNCHANGED <<room, seat, asked, switch, muted, said, hand, closing, busy>>

\* Defect: only what runs long is swept.
SweepLong(ss) ==
  /\ \A s \in ss : Cardinality(seg[s]) > 1 /\ <<"sweep", s>> \notin closing
  /\ closing' = closing \cup ({"sweep"} \X ss)
  /\ UNCHANGED <<room, seat, asked, switch, muted, said, hand, seg, work, fate>>

\* flushDue lists the segments that have gone quiet or run long.
Sweep(ss) ==
  /\ \A s \in ss : seg[s] # {} /\ <<"sweep", s>> \notin closing
  /\ closing' = closing \cup ({"sweep"} \X ss)
  /\ UNCHANGED <<room, seat, asked, switch, muted, said, hand, seg, work, fate>>

CloseSegment(c, s) ==
  /\ <<c, s>> \in closing
  /\ closing' = closing \ {<<c, s>>}
  /\ closeSegment(s)
  /\ UNCHANGED <<room, seat, asked, switch, muted, said, hand, busy>>

----------------------------------------------------------------------------
(* The workers *)

Take(w) ==
  /\ busy[w] = None /\ jobs # <<>>
  /\ busy' = [busy EXCEPT ![w] = Head(jobs)] /\ jobs' = Tail(jobs)
  /\ UNCHANGED <<room, seat, asked, switch, talk, fate>>

\* Transcribe, which may fail or hear nothing; then VoiceTurn, which a closed room
\* refuses.
Run(w) ==
  /\ busy[w] # None
  /\ busy' = [busy EXCEPT ![w] = None]
  /\ \E end \in {"lost", IF open THEN "recorded" ELSE "refused"} :
       fate' = Becomes(busy[w].who, busy[w].words, end)
  /\ UNCHANGED <<room, seat, asked, switch, talk, jobs>>

----------------------------------------------------------------------------

Seating(s) == Offer(s) \/ SetRoom(s) \/ Enrol(s) \/ Leave(s) \/ Forget(s)

Switches(r) == SetFlag(r) \/ FlushRoom(r) \/ \E on \in Setting : SetRow(r, on)

Speech(s) == Speak(s) \/ Write(s) \/ SetState(s) \/ EndForward(s)

ScribeNext ==
  \/ \E s \in Speaker : Seating(s) \/ Speech(s) \/ \E c \in Caller : CloseSegment(c, s)
  \/ \E r \in Switch : Switches(r)
  \/ \E ss \in SUBSET Speaker \ {{}} : Sweep(ss)
  \/ \E w \in Worker : Take(w) \/ Run(w)
  \/ Close

ScribeSpec == ScribeInit /\ [][ScribeNext]_scribeVars

\* Goroutines run on, the sweeper ticks, the provider answers or times out.
ScribeFairness ==
  /\ \A s \in Speaker :
       /\ WF_scribeVars(Write(s)) /\ WF_scribeVars(Sweep({s}))
       /\ \A c \in Caller : WF_scribeVars(CloseSegment(c, s))
  /\ \A w \in Worker : WF_scribeVars(Take(w)) /\ WF_scribeVars(Run(w))

ScribeFairSpec == ScribeSpec /\ ScribeFairness

----------------------------------------------------------------------------

Running == {busy[w] : w \in Worker} \ {None}

\* A packet that was heard is in one place, and one only, until it is written down or
\* its loss is logged: neither a segment closed from two sides at once nor a full queue
\* writes a word twice or lets one vanish (write, closeSegment, worker).
EachWordOnce ==
  \A s \in Speaker : \A n \in 1..Words[s] :
    LET places == (IF hand[s] = n THEN 1 ELSE 0) + (IF n \in seg[s] THEN 1 ELSE 0)
                  + Cardinality({i \in DOMAIN jobs : jobs[i].who = s /\ n \in jobs[i].words})
                  + Cardinality({w \in Worker : busy[w] # None /\ busy[w].who = s /\ n \in busy[w].words})
    IN places = IF n <= said[s] /\ fate[<<s, n>>] = "none" THEN 1 ELSE 0

\* While somebody is connected the media plane does what the row says, as long as no
\* switch has overlapped another or a join, nor a join the last departure (Join's
\* setRoom, SetTranscribing, forget).
WrittenAsAgreed ==
  (~ crossed /\ Present # {} /\ Switching = {}) => flag = row

\* A room that is off the record is never being written down (SetTranscribing, Join's
\* setRoom).
OffIsOff == (row = "off" /\ Switching = {}) => flag # "on"

\* What was heard is written down or lost out loud, and is not kept: nobody talks for
\* ever, and in the end no word is still on its way (sweep, closeSegment, worker).
WordsSettle ==
  <>[](\A s \in Speaker : \A n \in 1..said[s] : fate[<<s, n>>] # "none")
================================================================================
