------------------------------- MODULE RoomProofs -------------------------------
(* What holds of a room for every number of speakers, requests, browsers,   *)
(* connections and workers, whatever the sizes of its queue and buffers: of *)
(* writing it down (RoomScribe), of its transcript and the browsers that    *)
(* follow it (RoomRecord), and of the forwarding of its microphones         *)
(* (RoomMedia).                                                             *)
EXTENDS RoomScribe, RoomRecord, RoomMedia, FiniteSetTheorems, TLAPS

-----------------------------------------------------------------------------
(* Writing a room down: types                                               *)

LEMMA ScribeConstants ==
  /\ Words \in [Speaker -> Nat] /\ MinWords \in Nat /\ Depth \in Nat
  /\ None \notin Nat /\ None \notin Job
BY ScribeAssumption DEF Job

LEMMA FateType ==
  ASSUME ScribeTypeOK, NEW s, NEW ns, NEW what \in {"lost", "refused", "recorded"}
  PROVE  Becomes(s, ns, what) \in [Word -> {"none", "lost", "refused", "recorded"}]
BY DEF ScribeTypeOK, Becomes

LEMMA closeSegmentType ==
  ASSUME ScribeTypeOK, NEW s \in Speaker, closeSegment(s)
  PROVE  /\ seg' \in [Speaker -> SUBSET Nat]
         /\ jobs' \in Seq(Job) /\ Len(jobs') <= Depth
         /\ fate' \in [Word -> {"none", "lost", "refused", "recorded"}]
<1>1. CASE /\ Len(jobs) < Depth /\ jobs' = Append(jobs, [who |-> s, words |-> seg[s]])
           /\ UNCHANGED fate
  <2>1. [who |-> s, words |-> seg[s]] \in Job
    BY DEF Job, ScribeTypeOK
  <2>2. jobs \in Seq(Job) /\ Len(jobs) \in Nat
    BY DEF ScribeTypeOK
  <2> QED
    BY <1>1, <2>1, <2>2, ScribeConstants DEF ScribeTypeOK, closeSegment
<1>2. CASE fate' = Becomes(s, seg[s], "lost") /\ UNCHANGED jobs
  BY <1>2, FateType DEF ScribeTypeOK, closeSegment
<1> QED
  BY <1>1, <1>2 DEF closeSegment

\* Every variable of the scribe keeps its type, and the queue its depth.
THEOREM ScribeTypeCorrect == ScribeSpec => []ScribeTypeOK
<1>1. ScribeInit => ScribeTypeOK
  <2> SUFFICES ASSUME ScribeInit PROVE ScribeTypeOK
    OBVIOUS
  <2>1. /\ seg \in [Speaker -> SUBSET Nat] /\ hand \in [Speaker -> Nat \cup {None}]
        /\ said \in [Speaker -> Nat] /\ busy \in [Worker -> Job \cup {None}]
        /\ jobs \in Seq(Job) /\ Len(jobs) = 0
        /\ fate \in [Word -> {"none", "lost", "refused", "recorded"}]
    BY DEF ScribeInit
  <2>2. /\ seat \in [Speaker -> {"out", "asking", "entering", "in", "leaving", "left"}]
        /\ asked \in [Speaker -> Setting] /\ muted \in [Speaker -> {"no", "yes", "back"}]
        /\ switch \in [Switch -> {"idle", "on", "off", "flush", "done"}]
    BY DEF ScribeInit, Setting
  <2> QED
    <3>1. open \in BOOLEAN /\ crossed \in BOOLEAN /\ closing \subseteq Caller \X Speaker
      BY DEF ScribeInit
    <3>2. row \in Setting /\ flag \in Setting \cup {None}
      BY DEF ScribeInit, Setting
    <3>3. Len(jobs) <= Depth
      BY <2>1, ScribeConstants
    <3> QED
      BY <2>1, <2>2, <3>1, <3>2, <3>3 DEF ScribeTypeOK
<1>2. ScribeTypeOK /\ [ScribeNext]_scribeVars => ScribeTypeOK'
  <2> SUFFICES ASSUME ScribeTypeOK, [ScribeNext]_scribeVars PROVE ScribeTypeOK'
    OBVIOUS
  <2> USE DEF room, talk, work
  <2>1. ASSUME NEW s \in Speaker, Seating(s) PROVE ScribeTypeOK'
    <3>1. crossed' \in BOOLEAN
      BY <2>1, Zenon DEF Seating, Offer, SetRoom, Enrol, Leave, Forget, ScribeTypeOK
    <3>2. seat' \in [Speaker -> {"out", "asking", "entering", "in", "leaving", "left"}]
      <4>1. \E to \in {"asking", "entering", "in", "leaving", "left"} :
              seat' = [seat EXCEPT ![s] = to]
        BY <2>1 DEF Seating, Offer, SetRoom, Enrol, Leave, Forget
      <4> QED
        BY <4>1 DEF ScribeTypeOK
    <3>3. flag' \in Setting \cup {None} /\ asked' \in [Speaker -> Setting]
      <4>1. /\ row \in Setting /\ flag \in Setting \cup {None} /\ asked \in [Speaker -> Setting]
            /\ \/ flag' = flag /\ (asked' = asked \/ asked' = [asked EXCEPT ![s] = row])
               \/ flag' \in {asked[s], None} /\ asked' = asked
        BY <2>1 DEF Seating, Offer, SetRoom, Enrol, Leave, Forget, ScribeTypeOK
      <4> QED
        BY <4>1
    <3>4. UNCHANGED <<open, row, switch, talk, work, fate>>
      BY <2>1 DEF Seating, Offer, SetRoom, Enrol, Leave, Forget
    <3> QED
      BY <3>1, <3>2, <3>3, <3>4 DEF ScribeTypeOK
  <2>2. ASSUME NEW s \in Speaker, Speech(s) PROVE ScribeTypeOK'
    <3>1. CASE Speak(s)
      <4>1. said[s] + 1 \in Nat
        BY DEF ScribeTypeOK
      <4> QED
        <5>1. said' \in [Speaker -> Nat]
          BY <3>1, <4>1 DEF Speak, ScribeTypeOK
        <5>2. hand' \in [Speaker -> Nat \cup {None}]
          BY <3>1, <4>1 DEF Speak, ScribeTypeOK
        <5>3. fate' \in [Word -> {"none", "lost", "refused", "recorded"}]
          BY <3>1, FateType DEF Speak, ScribeTypeOK
        <5> QED
          BY <3>1, <5>1, <5>2, <5>3 DEF Speak, ScribeTypeOK
    <3>2. CASE Write(s)
      <4>1. hand[s] \in Nat
        BY <3>2 DEF Write, ScribeTypeOK
      <4> QED
        BY <3>2, <4>1 DEF Write, ScribeTypeOK
    <3>3. CASE SetState(s)
      <4>1. muted' \in [Speaker -> {"no", "yes", "back"}]
        BY <3>3 DEF SetState, ScribeTypeOK
      <4>2. closing' \subseteq Caller \X Speaker
        BY <3>3 DEF SetState, ScribeTypeOK, Caller
      <4> QED
        BY <3>3, <4>1, <4>2 DEF SetState, ScribeTypeOK
    <3>4. CASE EndForward(s)
      BY <3>4, closeSegmentType DEF EndForward, ScribeTypeOK
    <3> QED
      BY <2>2, <3>1, <3>2, <3>3, <3>4 DEF Speech
  <2>3. ASSUME NEW s \in Speaker, NEW c \in Caller, CloseSegment(c, s) PROVE ScribeTypeOK'
    BY <2>3, closeSegmentType DEF CloseSegment, ScribeTypeOK
  <2>4. ASSUME NEW r \in Switch, Switches(r) PROVE ScribeTypeOK'
    <3>1. crossed' \in BOOLEAN
      BY <2>4, Zenon DEF Switches, SetFlag, FlushRoom, SetRow, ScribeTypeOK
    <3>2. /\ switch' \in [Switch -> {"idle", "on", "off", "flush", "done"}]
          /\ row' \in Setting /\ flag' \in Setting \cup {None}
      <4>1. ASSUME NEW on \in Setting, SetRow(r, on)
            PROVE  /\ switch' \in [Switch -> {"idle", "on", "off", "flush", "done"}]
                   /\ row' \in Setting /\ flag' \in Setting \cup {None}
        BY <4>1 DEF SetRow, ScribeTypeOK, Setting
      <4>2. CASE SetFlag(r)
        BY <4>2 DEF SetFlag, ScribeTypeOK, Setting
      <4>3. CASE FlushRoom(r)
        BY <4>3 DEF FlushRoom, ScribeTypeOK
      <4> QED
        BY <2>4, <4>1, <4>2, <4>3 DEF Switches
    <3>3. closing' \subseteq Caller \X Speaker
      BY <2>4 DEF Switches, SetFlag, FlushRoom, SetRow, ScribeTypeOK, Caller
    <3>4. UNCHANGED <<open, seat, asked, muted, said, hand, seg, work, fate>>
      BY <2>4 DEF Switches, SetFlag, FlushRoom, SetRow
    <3> QED
      BY <3>1, <3>2, <3>3, <3>4 DEF ScribeTypeOK
  <2>5. ASSUME NEW ss \in SUBSET Speaker, Sweep(ss) PROVE ScribeTypeOK'
    BY <2>5 DEF Sweep, ScribeTypeOK, Caller
  <2>6. ASSUME NEW w \in Worker, Take(w) PROVE ScribeTypeOK'
    <3>1. /\ Head(jobs) \in Job /\ Tail(jobs) \in Seq(Job) /\ Len(Tail(jobs)) = Len(jobs) - 1
          /\ Len(jobs) \in Nat
      BY <2>6 DEF Take, ScribeTypeOK
    <3> QED
      BY <2>6, <3>1, ScribeConstants DEF Take, ScribeTypeOK
  <2>7. ASSUME NEW w \in Worker, Run(w) PROVE ScribeTypeOK'
    BY <2>7, FateType DEF Run, ScribeTypeOK
  <2>8. CASE Close
    BY <2>8 DEF Close, ScribeTypeOK
  <2>9. CASE UNCHANGED scribeVars
    BY <2>9 DEF scribeVars, ScribeTypeOK
  <2> QED
    BY <2>1, <2>2, <2>3, <2>4, <2>5, <2>6, <2>7, <2>8, <2>9 DEF ScribeNext
<1> QED
  BY <1>1, <1>2, PTL DEF ScribeSpec

-----------------------------------------------------------------------------
(* The setting                                                              *)

\* As long as no switch has crossed another or a join, nor a join the last
\* departure: there is one switch at a time and no join beside it, a join has read
\* the row as it is, and the map says what the row says once a join has set it.
AgreeInv ==
  ~ crossed =>
    /\ \A q, r \in Switching : q = r
    /\ Switching # {} => Arriving = {}
    /\ \A r \in Switching : row = switch[r]
    /\ \A s \in Speaker : seat[s] = "asking" => asked[s] = row
    /\ \A s \in Speaker : seat[s] \in {"entering", "in"} /\ Switching = {} => flag = row

\* While somebody is connected the media plane does what the row says, however many
\* join, leave and switch, as long as no two of these have crossed.
THEOREM AgreementKept == ScribeSpec => []WrittenAsAgreed
<1>1. ScribeInit => AgreeInv
  BY DEF ScribeInit, AgreeInv, Switching, Setting
<1>2. ScribeTypeOK /\ AgreeInv /\ [ScribeNext]_scribeVars => AgreeInv'
  <2> SUFFICES ASSUME ScribeTypeOK, AgreeInv, [ScribeNext]_scribeVars, ~ crossed' PROVE AgreeInv'
    BY DEF AgreeInv
  <2> USE DEF AgreeInv, Switching, Arriving, Present, Setting, room, talk, work
  <2>1. ASSUME NEW s \in Speaker, Seating(s) PROVE AgreeInv'
    <3>1. CASE Offer(s)
      <4>1. ~ crossed /\ Switching = {}
        BY <3>1, Zenon DEF Offer
      <4> QED
        BY <3>1, <4>1 DEF Offer, ScribeTypeOK
    <3>2. CASE SetRoom(s)
      BY <3>2 DEF SetRoom, ScribeTypeOK
    <3>3. CASE Enrol(s)
      BY <3>3 DEF Enrol, ScribeTypeOK
    <3>4. CASE Leave(s)
      BY <3>4 DEF Leave, ScribeTypeOK
    <3>5. CASE Forget(s)
      <4>1. ~ crossed /\ Present \cup Arriving = {}
        BY <3>5, Zenon DEF Forget
      <4> QED
        BY <3>5, <4>1 DEF Forget, ScribeTypeOK
    <3> QED
      BY <2>1, <3>1, <3>2, <3>3, <3>4, <3>5 DEF Seating
  <2>2. ASSUME NEW r \in Switch, Switches(r) PROVE AgreeInv'
    <3>1. ASSUME NEW on \in Setting, SetRow(r, on) PROVE AgreeInv'
      <4>1. ~ crossed /\ Switching \cup Arriving = {}
        BY <3>1, Zenon DEF SetRow
      <4> QED
        BY <3>1, <4>1 DEF SetRow, ScribeTypeOK
    <3>2. CASE SetFlag(r)
      BY <3>2 DEF SetFlag, ScribeTypeOK
    <3>3. CASE FlushRoom(r)
      BY <3>3 DEF FlushRoom, ScribeTypeOK
    <3> QED
      BY <2>2, <3>1, <3>2, <3>3 DEF Switches
  <2>3. ASSUME UNCHANGED <<row, flag, crossed, seat, asked, switch>> PROVE AgreeInv'
    BY <2>3
  <2> QED
    BY <2>1, <2>2, <2>3
    DEF ScribeNext, Speech, Speak, Write, SetState, EndForward, CloseSegment, Sweep, Take, Run,
        Close, scribeVars
<1>3. AgreeInv => WrittenAsAgreed
  BY DEF AgreeInv, WrittenAsAgreed, Present
<1> QED
  BY <1>1, <1>2, <1>3, ScribeTypeCorrect, PTL DEF ScribeSpec

-----------------------------------------------------------------------------
(* Words                                                                    *)

\* Where in the queue, and at which workers, a word is.
Queued(s, n) == {i \in DOMAIN jobs : jobs[i].who = s /\ n \in jobs[i].words}
AtWork(s, n) == {w \in Worker : busy[w] # None /\ busy[w].who = s /\ n \in busy[w].words}

\* It was heard, and nothing has become of it.
Heard(s, n) == n <= said[s] /\ fate[<<s, n>>] = "none"

Somewhere(s, n) == hand[s] = n \/ n \in seg[s] \/ Queued(s, n) # {} \/ AtWork(s, n) # {}

NotTwice(s, n) ==
  /\ hand[s] = n => n \notin seg[s]
  /\ hand[s] = n \/ n \in seg[s] => Queued(s, n) = {} /\ AtWork(s, n) = {}
  /\ Queued(s, n) = {} \/ AtWork(s, n) = {}
  /\ \A i, j \in Queued(s, n) : i = j
  /\ \A v, w \in AtWork(s, n) : v = w

\* Nothing becomes of a word before it is said.
Unsaid(s, n) == n > said[s] => fate[<<s, n>>] = "none"

WordKept(s, n) ==
  (Heard(s, n) <=> Somewhere(s, n)) /\ NotTwice(s, n) /\ Unsaid(s, n)

WordInv == \A s \in Speaker : \A n \in 1..Words[s] : WordKept(s, n)

LEMMA FateAt ==
  ASSUME NEW s \in Speaker, NEW n \in 1..Words[s], NEW p, NEW ns, NEW what,
         fate' = Becomes(p, ns, what)
  PROVE  fate'[<<s, n>>] = IF s = p /\ n \in ns THEN what ELSE fate[<<s, n>>]
<1>1. <<s, n>> \in Word
  BY DEF Word
<1> QED
  BY <1>1 DEF Becomes

\* A segment that is closed takes its words to the end of the queue, or they are lost.
LEMMA closeSegmentWords ==
  ASSUME ScribeTypeOK, WordInv, NEW p \in Speaker, closeSegment(p),
         UNCHANGED <<said, hand, busy>>
  PROVE  WordInv'
<1> SUFFICES ASSUME NEW s \in Speaker, NEW n \in 1..Words[s] PROVE WordKept(s, n)'
  BY DEF WordInv
<1>1. WordKept(s, n) /\ AtWork(s, n)' = AtWork(s, n)
  BY DEF WordInv, AtWork
<1>2. seg'[s] = IF s = p THEN {} ELSE seg[s]
  BY DEF closeSegment, ScribeTypeOK
<1>3. CASE jobs' = Append(jobs, [who |-> p, words |-> seg[p]]) /\ fate' = fate
  <2>1. jobs \in Seq(Job) /\ Len(jobs) \in Nat /\ DOMAIN jobs = 1..Len(jobs)
    BY DEF ScribeTypeOK
  <2>2. /\ DOMAIN jobs' = 1..(Len(jobs) + 1)
        /\ \A i \in 1..Len(jobs) : jobs'[i] = jobs[i]
        /\ jobs'[Len(jobs) + 1] = [who |-> p, words |-> seg[p]]
    BY <1>3, <2>1
  <2>3. Queued(s, n)' = Queued(s, n)
                        \cup (IF s = p /\ n \in seg[p] THEN {Len(jobs) + 1} ELSE {})
    BY <2>1, <2>2 DEF Queued
  <2>4. CASE s = p /\ n \in seg[p]
    <3>1. Queued(s, n)' = {Len(jobs) + 1} /\ AtWork(s, n) = {} /\ hand[s] # n
      BY <1>1, <2>3, <2>4 DEF WordKept, NotTwice
    <3>2. Heard(s, n)'
      BY <1>1, <1>3, <2>4 DEF WordKept, Somewhere, Heard
    <3> QED
      BY <1>1, <1>2, <2>4, <3>1, <3>2 DEF WordKept, NotTwice, Somewhere, Unsaid, Heard
  <2>5. CASE ~(s = p /\ n \in seg[p])
    <3>1. Queued(s, n)' = Queued(s, n) /\ (n \in seg'[s] <=> n \in seg[s])
      BY <1>2, <2>3, <2>5
    <3> QED
      BY <1>1, <1>3, <3>1 DEF WordKept, NotTwice, Somewhere, Heard, Unsaid
  <2> QED
    BY <2>4, <2>5
<1>4. CASE fate' = Becomes(p, seg[p], "lost") /\ jobs' = jobs
  <2>1. fate'[<<s, n>>] = IF s = p /\ n \in seg[p] THEN "lost" ELSE fate[<<s, n>>]
    BY <1>4, FateAt
  <2>2. Queued(s, n)' = Queued(s, n)
    BY <1>4 DEF Queued
  <2>3. CASE s = p /\ n \in seg[p]
    <3>1. ~ Heard(s, n)' /\ ~ Somewhere(s, n)'
      BY <1>1, <1>2, <2>1, <2>2, <2>3 DEF WordKept, NotTwice, Somewhere, Heard, Unsaid
    <3>2. n \in Nat /\ said[s] \in Nat /\ n <= said[s]
      BY <1>1, <2>3 DEF WordKept, Somewhere, Heard, ScribeTypeOK
    <3>3. Unsaid(s, n)'
      BY <3>2 DEF Unsaid
    <3>4. NotTwice(s, n)'
      BY <1>1, <1>2, <2>2, <2>3 DEF WordKept, NotTwice
    <3> QED
      BY <3>1, <3>3, <3>4 DEF WordKept
  <2>4. CASE ~(s = p /\ n \in seg[p])
    BY <1>1, <1>2, <2>1, <2>2, <2>4 DEF WordKept, NotTwice, Somewhere, Heard, Unsaid
  <2> QED
    BY <2>3, <2>4
<1> QED
  BY <1>3, <1>4 DEF closeSegment

LEMMA TakeWords ==
  ASSUME ScribeTypeOK, WordInv, NEW w \in Worker, Take(w)
  PROVE  WordInv'
<1> SUFFICES ASSUME NEW s \in Speaker, NEW n \in 1..Words[s] PROVE WordKept(s, n)'
  BY DEF WordInv
<1> DEFINE InHead == jobs[1].who = s /\ n \in jobs[1].words
<1>1. WordKept(s, n) /\ busy[w] = None /\ UNCHANGED <<said, hand, seg, fate>>
  BY DEF WordInv, Take, talk
<1>2. /\ jobs \in Seq(Job) /\ Len(jobs) \in Nat \ {0} /\ DOMAIN jobs = 1..Len(jobs)
      /\ jobs[1] \in Job /\ jobs[1] # None
  BY ScribeConstants DEF Take, ScribeTypeOK
<1>3. /\ DOMAIN jobs' = 1..(Len(jobs) - 1)
      /\ \A i \in 1..(Len(jobs) - 1) : jobs'[i] = jobs[i + 1]
      /\ busy' = [busy EXCEPT ![w] = jobs[1]]
  BY <1>2 DEF Take
<1>4. AtWork(s, n)' = AtWork(s, n) \cup (IF InHead THEN {w} ELSE {})
  BY <1>1, <1>2, <1>3 DEF AtWork, ScribeTypeOK
<1>5. \A i \in Queued(s, n)' : i + 1 \in Queued(s, n) /\ i \in Nat \ {0}
  BY <1>2, <1>3 DEF Queued
<1>6. \A i \in Queued(s, n) : i = 1 \/ i - 1 \in Queued(s, n)'
  BY <1>2, <1>3 DEF Queued
<1>7. 1 \in Queued(s, n) <=> InHead
  BY <1>2 DEF Queued
<1>8. CASE InHead
  <2>1. Queued(s, n)' = {} /\ AtWork(s, n)' = {w} /\ hand[s] # n /\ n \notin seg[s]
    <3>1. Queued(s, n) # {}
      BY <1>7, <1>8
    <3>2. AtWork(s, n) = {} /\ hand[s] # n /\ n \notin seg[s]
      BY <1>1, <3>1 DEF WordKept, NotTwice
    <3>3. \A i \in Queued(s, n)' : i + 1 = 1
      BY <1>1, <1>5, <1>7, <1>8 DEF WordKept, NotTwice
    <3>4. Queued(s, n)' = {}
      BY <1>5, <3>3
    <3> QED
      BY <1>4, <1>8, <3>2, <3>4
  <2>2. Heard(s, n) /\ Heard(s, n)'
    BY <1>1, <1>7, <1>8 DEF WordKept, Somewhere, Heard
  <2> QED
    BY <1>1, <2>1, <2>2 DEF WordKept, NotTwice, Somewhere, Unsaid, Heard
<1>9. CASE ~ InHead
  <2>1. AtWork(s, n)' = AtWork(s, n)
    BY <1>4, <1>9
  <2>2. Queued(s, n)' # {} <=> Queued(s, n) # {}
    BY <1>5, <1>6, <1>7, <1>9
  <2>3. \A i, j \in Queued(s, n)' : i = j
    BY <1>1, <1>5 DEF WordKept, NotTwice
  <2> QED
    BY <1>1, <2>1, <2>2, <2>3 DEF WordKept, NotTwice, Somewhere, Heard, Unsaid
<1> QED
  BY <1>8, <1>9

LEMMA RunWords ==
  ASSUME ScribeTypeOK, WordInv, NEW w \in Worker, Run(w)
  PROVE  WordInv'
<1> SUFFICES ASSUME NEW s \in Speaker, NEW n \in 1..Words[s] PROVE WordKept(s, n)'
  BY DEF WordInv
<1> DEFINE Its == busy[w].who = s /\ n \in busy[w].words
<1>1. WordKept(s, n) /\ UNCHANGED <<said, hand, seg, jobs>> /\ Queued(s, n)' = Queued(s, n)
  BY DEF WordInv, Run, talk, Queued
<1>2. PICK end \in {"lost", IF open THEN "recorded" ELSE "refused"} :
        fate' = Becomes(busy[w].who, busy[w].words, end)
  BY DEF Run
<1>3. fate'[<<s, n>>] = IF Its THEN end ELSE fate[<<s, n>>]
  BY <1>2, FateAt
<1>4. AtWork(s, n)' = AtWork(s, n) \ {w} /\ (Its <=> w \in AtWork(s, n))
  BY DEF Run, AtWork, ScribeTypeOK
<1>5. CASE Its
  <2>1. AtWork(s, n)' = {} /\ Queued(s, n) = {} /\ hand[s] # n /\ n \notin seg[s]
    BY <1>1, <1>4, <1>5 DEF WordKept, NotTwice
  <2>2. ~ Heard(s, n)' /\ ~ Somewhere(s, n)'
    BY <1>1, <1>3, <1>5, <2>1 DEF Somewhere, Heard
  <2>3. n \in Nat /\ said[s] \in Nat /\ n <= said[s]
    BY <1>1, <1>4, <1>5 DEF WordKept, Somewhere, Heard, ScribeTypeOK
  <2>4. Unsaid(s, n)'
    BY <1>1, <2>3 DEF Unsaid
  <2>5. NotTwice(s, n)'
    BY <1>1, <2>1 DEF WordKept, NotTwice
  <2> QED
    BY <2>2, <2>4, <2>5 DEF WordKept
<1>6. CASE ~ Its
  BY <1>1, <1>3, <1>4, <1>6 DEF WordKept, NotTwice, Somewhere, Heard, Unsaid
<1> QED
  BY <1>5, <1>6

LEMMA SpeakWords ==
  ASSUME ScribeTypeOK, WordInv, NEW p \in Speaker, Speak(p) \/ Write(p)
  PROVE  WordInv'
<1> SUFFICES ASSUME NEW s \in Speaker, NEW n \in 1..Words[s] PROVE WordKept(s, n)'
  BY DEF WordInv
<1>1. /\ WordKept(s, n) /\ Queued(s, n)' = Queued(s, n) /\ AtWork(s, n)' = AtWork(s, n)
      /\ said[p] \in Nat /\ n \in Nat /\ said[s] \in Nat
  BY DEF WordInv, Speak, Write, work, Queued, AtWork, ScribeTypeOK
<1>2. CASE Write(p)
  BY <1>1, <1>2, ScribeConstants
  DEF Write, ScribeTypeOK, WordKept, NotTwice, Somewhere, Heard, Unsaid
<1>3. CASE Speak(p) /\ ~(s = p /\ n = said[p] + 1)
  <2>1. /\ seg' = seg /\ (n <= said'[s] <=> n <= said[s]) /\ (n > said'[s] => n > said[s])
        /\ (hand'[s] = n <=> hand[s] = n)
    <3>1. CASE s = p
      <4>1. seg' = seg /\ said'[s] = said[s] + 1 /\ n # said[s] + 1 /\ hand[s] = None
        BY <1>3, <3>1 DEF Speak, ScribeTypeOK
      <4>2. hand'[s] = None \/ hand'[s] = said[s] + 1
        BY <1>3, <3>1, <4>1 DEF Speak, ScribeTypeOK
      <4> QED
        BY <1>1, <4>1, <4>2, ScribeConstants
    <3>2. CASE s # p
      BY <1>1, <1>3, <3>2 DEF Speak, ScribeTypeOK
    <3> QED
      BY <3>1, <3>2
  <2>2. fate'[<<s, n>>] = fate[<<s, n>>]
    BY <1>3, FateAt DEF Speak
  <2> QED
    BY <1>1, <2>1, <2>2 DEF WordKept, NotTwice, Somewhere, Heard, Unsaid
<1>4. CASE Speak(p) /\ s = p /\ n = said[p] + 1
  <2>1. /\ seg' = seg /\ n <= said'[s] /\ hand[s] = None
        /\ hand[s] # n /\ n \notin seg[s] /\ Queued(s, n) = {} /\ AtWork(s, n) = {}
    BY <1>1, <1>4, ScribeConstants DEF Speak, ScribeTypeOK, WordKept, Somewhere, Heard
  <2>2. \/ hand'[s] = n /\ fate' = fate
        \/ hand' = hand /\ fate'[<<s, n>>] = "lost"
    BY <1>4, FateAt DEF Speak, ScribeTypeOK
  <2>3. said[s] < n /\ fate[<<s, n>>] = "none" /\ said'[s] = n
    BY <1>1, <1>4 DEF WordKept, Unsaid, Speak, ScribeTypeOK
  <2> QED
    BY <1>1, <2>1, <2>2, <2>3 DEF WordKept, NotTwice, Somewhere, Heard, Unsaid
<1> QED
  BY <1>2, <1>3, <1>4

\* However many speak, mute themselves, switch the record, leave and write at once, a
\* packet that was heard is in one place until its words are written down or lost.
THEOREM WordsKept == ScribeSpec => []EachWordOnce
<1>1. ScribeInit => WordInv
  <2> SUFFICES ASSUME ScribeInit, NEW s \in Speaker, NEW n \in 1..Words[s] PROVE WordKept(s, n)
    BY DEF WordInv
  <2>1. <<s, n>> \in Word /\ n \in Nat /\ n # 0
    BY ScribeConstants DEF Word
  <2>2. Queued(s, n) = {} /\ AtWork(s, n) = {} /\ hand[s] # n /\ n \notin seg[s]
    BY <2>1, ScribeConstants DEF ScribeInit, Queued, AtWork
  <2> QED
    BY <2>1, <2>2 DEF ScribeInit, WordKept, NotTwice, Somewhere, Heard, Unsaid
<1>2. ScribeTypeOK /\ WordInv /\ [ScribeNext]_scribeVars => WordInv'
  <2> SUFFICES ASSUME ScribeTypeOK, WordInv, [ScribeNext]_scribeVars PROVE WordInv'
    OBVIOUS
  <2>1. ASSUME UNCHANGED <<said, hand, seg, jobs, busy, fate>> PROVE WordInv'
    <3> SUFFICES ASSUME NEW s \in Speaker, NEW n \in 1..Words[s] PROVE WordKept(s, n)'
      BY DEF WordInv
    <3>1. WordKept(s, n) /\ Queued(s, n)' = Queued(s, n) /\ AtWork(s, n)' = AtWork(s, n)
      BY <2>1 DEF WordInv, Queued, AtWork
    <3> QED
      BY <2>1, <3>1 DEF WordKept, NotTwice, Somewhere, Heard, Unsaid
  <2>2. ASSUME NEW s \in Speaker, Seating(s) \/ SetState(s) PROVE WordInv'
    BY <2>1, <2>2 DEF Seating, Offer, SetRoom, Enrol, Leave, Forget, SetState, talk, work
  <2>3. ASSUME NEW s \in Speaker, EndForward(s) \/ \E c \in Caller : CloseSegment(c, s)
        PROVE  WordInv'
    BY <2>3, closeSegmentWords DEF EndForward, CloseSegment
  <2>4. ASSUME NEW r \in Switch, Switches(r) PROVE WordInv'
    BY <2>1, <2>4 DEF Switches, SetFlag, FlushRoom, SetRow, talk, work
  <2>5. CASE Close \/ (\E ss \in SUBSET Speaker \ {{}} : Sweep(ss)) \/ UNCHANGED scribeVars
    BY <2>1, <2>5 DEF Close, Sweep, scribeVars, talk, work
  <2> QED
    BY <2>2, <2>3, <2>4, <2>5, SpeakWords, TakeWords, RunWords DEF ScribeNext, Speech
<1>3. WordInv => EachWordOnce
  <2> SUFFICES ASSUME WordInv, NEW s \in Speaker, NEW n \in 1..Words[s]
               PROVE  ((IF hand[s] = n THEN 1 ELSE 0) + (IF n \in seg[s] THEN 1 ELSE 0)
                        + Cardinality(Queued(s, n))) + Cardinality(AtWork(s, n))
                      = IF Heard(s, n) THEN 1 ELSE 0
    BY DEF EachWordOnce, Queued, AtWork, Heard
  <2>1. WordKept(s, n)
    BY DEF WordInv
  <2>2. Cardinality(Queued(s, n)) = IF Queued(s, n) = {} THEN 0 ELSE 1
    <3>1. CASE Queued(s, n) = {}
      BY <3>1, FS_EmptySet
    <3>2. CASE Queued(s, n) # {}
      <4>1. \E i : Queued(s, n) = {i}
        BY <2>1, <3>2 DEF WordKept, NotTwice
      <4> QED
        BY <3>2, <4>1, FS_Singleton
    <3> QED
      BY <3>1, <3>2
  <2>3. Cardinality(AtWork(s, n)) = IF AtWork(s, n) = {} THEN 0 ELSE 1
    <3>1. CASE AtWork(s, n) = {}
      BY <3>1, FS_EmptySet
    <3>2. CASE AtWork(s, n) # {}
      <4>1. \E w : AtWork(s, n) = {w}
        BY <2>1, <3>2 DEF WordKept, NotTwice
      <4> QED
        BY <3>2, <4>1, FS_Singleton
    <3> QED
      BY <3>1, <3>2
  <2> QED
    BY <2>1, <2>2, <2>3 DEF WordKept, NotTwice, Somewhere
<1> QED
  BY <1>1, <1>2, <1>3, ScribeTypeCorrect, PTL DEF ScribeSpec

-----------------------------------------------------------------------------
(* The transcript: numbering and types                                      *)

Turns(a) == {r.turn : r \in a.rows}

\* Rows 1, 2, 3 and so on, each the only one of its number and of its turn.
Numbered(S) ==
  /\ IsFiniteSet(S) /\ {r.seq : r \in S} = 1..Cardinality(S)
  /\ \A q, r \in S : q.seq = r.seq \/ q.turn = r.turn => q = r

\* The record is numbered through, and so is every answer that was read of it; who has
\* read the last number has read none that is beyond the next one.
NumberInv ==
  /\ Numbered(rows)
  /\ \A b \in Browser : \A a \in replies[b] : Numbered(a.rows) /\ a.wiped \subseteq Turns(a)
  /\ \A t \in Turn :
       /\ say[t].at \in {"idle", "found", "read"} => t \notin Written
       /\ say[t].at = "read" => say[t].seq \in 1..(Cardinality(rows) + 1)

LEMMA RecordConstants ==
  Buffer \in Nat \ {0} /\ MaxReads \in Nat \ {0} /\ MaxFaults \in Nat /\ Comings \in Nat
BY RecordAssumption

\* The last number is the number of rows.
LEMMA LastSeqIs ==
  ASSUME Numbered(rows)
  PROVE  Cardinality(rows) \in Nat /\ LastSeq = Cardinality(rows)
<1>1. Cardinality(rows) \in Nat
  BY FS_CardinalityType DEF Numbered
<1> DEFINE n == Cardinality(rows)
           S == {r.seq : r \in rows} \cup {0}
<1>2. n \in Nat /\ S = (1..n) \cup {0}
  BY <1>1 DEF Numbered
<1> HIDE DEF n, S
<1>3. n \in S /\ \A y \in S : n >= y
  BY <1>2
<1>4. (CHOOSE x \in S : \A y \in S : x >= y) = n
  BY <1>2, <1>3
<1> QED
  BY <1>1, <1>4 DEF LastSeq, Max, S, n

\* A row with the next number and a turn of its own leaves the record numbered through.
LEMMA NumberedGrows ==
  ASSUME NEW S, Numbered(S), NEW r, r.seq = Cardinality(S) + 1, r.turn \notin {q.turn : q \in S}
  PROVE  Numbered(S \cup {r}) /\ Cardinality(S \cup {r}) = Cardinality(S) + 1
<1>1. Cardinality(S) \in Nat /\ IsFiniteSet(S)
  BY FS_CardinalityType DEF Numbered
<1>2. r \notin S
  OBVIOUS
<1>3. IsFiniteSet(S \cup {r}) /\ Cardinality(S \cup {r}) = Cardinality(S) + 1
  BY <1>1, <1>2, FS_AddElement
<1>4. {q.seq : q \in S \cup {r}} = {q.seq : q \in S} \cup {r.seq}
  OBVIOUS
<1>5. {q.seq : q \in S \cup {r}} = 1..(Cardinality(S) + 1)
  BY <1>1, <1>4 DEF Numbered
<1>6. \A q, p \in S \cup {r} : q.seq = p.seq \/ q.turn = p.turn => q = p
  <2>1. \A q \in S : q.seq # r.seq /\ q.turn # r.turn
    <3> SUFFICES ASSUME NEW q \in S PROVE q.seq # r.seq /\ q.turn # r.turn
      OBVIOUS
    <3>1. q.seq \in 1..Cardinality(S)
      BY DEF Numbered
    <3> QED
      BY <1>1, <3>1
  <2> QED
    BY <2>1 DEF Numbered
<1> QED
  BY <1>3, <1>5, <1>6 DEF Numbered

LEMMA InsertNumbers ==
  ASSUME RecordTypeOK, NumberInv, NEW t \in Turn, Insert(t)
  PROVE  NumberInv' /\ rows' \subseteq Row
<1>1. /\ say[t].at = "read" /\ UNCHANGED replies /\ t \notin Written
      /\ say[t].seq \in 1..(Cardinality(rows) + 1) /\ Cardinality(rows) \in Nat
  BY LastSeqIs DEF Insert, NumberInv, streams, views
<1>2. CASE rows' = rows /\ SetSay(t, "failed", 0)
  BY <1>1, <1>2 DEF NumberInv, RecordTypeOK, SetSay, Written, Numbered
<1>3. CASE /\ ~ \E r \in rows : r.seq = say[t].seq
           /\ rows' = rows \cup {[seq |-> say[t].seq, turn |-> t]}
           /\ SetSay(t, "written", version + 1)
  <2> DEFINE r == [seq |-> say[t].seq, turn |-> t]
  <2>1. say[t].seq = Cardinality(rows) + 1
    <3>1. say[t].seq \notin {q.seq : q \in rows}
      BY <1>3
    <3>2. say[t].seq \notin 1..Cardinality(rows)
      BY <3>1 DEF NumberInv, Numbered
    <3> QED
      BY <1>1, <3>2
  <2>2. Numbered(rows') /\ Cardinality(rows') = Cardinality(rows) + 1
    <3>1. r.seq = Cardinality(rows) + 1 /\ r.turn \notin {q.turn : q \in rows}
      BY <1>1, <2>1 DEF Written
    <3> QED
      BY <1>3, <3>1, NumberedGrows DEF NumberInv
  <2>3. Written' = Written \cup {t}
    <3>1. {q.turn : q \in rows \cup {r}} = {q.turn : q \in rows} \cup {r.turn}
      OBVIOUS
    <3> QED
      BY <1>3, <3>1 DEF Written
  <2>4. \A u \in Turn :
          /\ say'[u].at \in {"idle", "found", "read"} => u \notin Written'
          /\ say'[u].at = "read" => say'[u].seq \in 1..(Cardinality(rows') + 1)
    <3> SUFFICES ASSUME NEW u \in Turn
                 PROVE /\ say'[u].at \in {"idle", "found", "read"} => u \notin Written'
                       /\ say'[u].at = "read" => say'[u].seq \in 1..(Cardinality(rows') + 1)
      OBVIOUS
    <3>1. CASE u = t
      BY <1>3, <3>1 DEF SetSay, RecordTypeOK
    <3>2. CASE u # t
      <4>1. say'[u] = say[u]
        BY <1>3, <3>2 DEF SetSay, RecordTypeOK
      <4> QED
        BY <1>1, <2>2, <2>3, <3>2, <4>1 DEF NumberInv
    <3> QED
      BY <3>1, <3>2
  <2>5. rows' \subseteq Row
    BY <1>1, <1>3 DEF RecordTypeOK, Row
  <2>6. \A b \in Browser : \A a \in replies'[b] : Numbered(a.rows) /\ a.wiped \subseteq Turns(a)
    BY <1>1 DEF NumberInv
  <2> QED
    BY <2>2, <2>4, <2>5, <2>6 DEF NumberInv, Numbered
<1> QED
  BY <1>2, <1>3 DEF Insert, record, RecordTypeOK, NumberInv

\* Publishing puts an event at the end of a buffer that has a place for it, and marks
\* the streams whose buffer has none.
LEMMA PublishAt ==
  ASSUME RecordTypeOK, NEW e \in Event, Publish(e), NEW b \in Browser
  PROVE  /\ UNCHANGED <<stream, faults>> /\ missed' \in [Browser -> BOOLEAN]
         /\ buf'[b] \in Seq(Event) /\ Len(buf'[b]) <= Buffer
         /\ buf'[b] = buf[b] \/ buf'[b] = Append(buf[b], e)
         /\ stream'[b] = "on" /\ ~ missed'[b] => ~ missed[b] /\ buf'[b] = Append(buf[b], e)
<1> DEFINE on == {c \in Browser : stream[c] = "on"}
           has == {c \in on : Len(buf[c]) < Buffer}
<1>1. /\ buf' = [c \in Browser |-> IF c \in has THEN Append(buf[c], e) ELSE buf[c]]
      /\ missed' = [c \in Browser |-> missed[c] \/ c \in on \ has]
      /\ UNCHANGED <<stream, faults>>
  BY DEF Publish
<1>2. missed' \in [Browser -> BOOLEAN] /\ (missed'[b] <=> missed[b] \/ b \in on \ has)
  BY <1>1, Zenon
<1>3. buf'[b] = IF b \in has THEN Append(buf[b], e) ELSE buf[b]
  BY <1>1
<1>4. buf[b] \in Seq(Event) /\ Len(buf[b]) \in Nat /\ Len(buf[b]) <= Buffer /\ Buffer \in Nat
  BY RecordConstants DEF RecordTypeOK
<1>5. Append(buf[b], e) \in Seq(Event) /\ Len(Append(buf[b], e)) = Len(buf[b]) + 1
  BY <1>4
<1> QED
  BY <1>1, <1>2, <1>3, <1>4, <1>5

LEMMA PublishType ==
  ASSUME RecordTypeOK, NEW e \in Event, Publish(e)
  PROVE  /\ UNCHANGED <<stream, faults>> /\ missed' \in [Browser -> BOOLEAN]
         /\ buf' \in [Browser -> Seq(Event)] /\ \A b \in Browser : Len(buf'[b]) <= Buffer
<1>1. \A b \in Browser : buf'[b] \in Seq(Event) /\ Len(buf'[b]) <= Buffer
  BY PublishAt
<1>2. /\ UNCHANGED <<stream, faults>> /\ DOMAIN buf' = Browser
      /\ buf' = [b \in Browser |-> buf'[b]] /\ missed' \in [Browser -> BOOLEAN]
  BY Zenon DEF Publish
<1> QED
  BY <1>1, <1>2

LEMMA EventTypes ==
  /\ \A t \in Turn : \A v \in Nat : [kind |-> "turn", turn |-> t, version |-> v] \in Event
  /\ \A k \in {"redacted", "presence", "closed"} : [kind |-> k] \in Event
  /\ \A e \in Event : e.kind = "turn" => e.turn \in Turn /\ e.version \in Nat
BY DEF Event

\* An answer that has arrived is the page: every turn it has, in order, and the words of
\* those that were not deleted.
LEMMA ArrivePage ==
  ASSUME RecordTypeOK, NumberInv, NEW b \in Browser, NEW a \in replies[b], Arrive(b, a)
  PROVE  /\ page' \in [Browser -> Seq(Line)] /\ Shown(b)' = Turns(a)
         /\ \A i \in DOMAIN page'[b] : page'[b][i].words <=> page'[b][i].turn \notin a.wiped
<1>1. /\ a.rows \subseteq Row /\ a.wiped \subseteq Turn /\ Numbered(a.rows)
      /\ Cardinality(a.rows) \in Nat
  <2>1. a \in Snapshot /\ Numbered(a.rows)
    BY DEF RecordTypeOK, NumberInv
  <2> QED
    BY <2>1, FS_CardinalityType DEF Snapshot, Numbered
<1> DEFINE n == Cardinality(a.rows)
           at(i) == CHOOSE r \in a.rows : r.seq = i
           listed == [i \in 1..n |-> [turn |-> at(i).turn, words |-> at(i).turn \notin a.wiped]]
<1>2. \A i \in 1..n : at(i) \in a.rows /\ at(i).seq = i
  <2> SUFFICES ASSUME NEW i \in 1..n PROVE at(i) \in a.rows /\ at(i).seq = i
    OBVIOUS
  <2>1. i \in {r.seq : r \in a.rows}
    BY <1>1 DEF Numbered
  <2> QED
    BY <2>1
<1>3. \A r \in a.rows : r.seq \in 1..n /\ at(r.seq) = r
  <2> SUFFICES ASSUME NEW r \in a.rows PROVE r.seq \in 1..n /\ at(r.seq) = r
    OBVIOUS
  <2>1. r.seq \in 1..n
    BY <1>1 DEF Numbered
  <2> QED
    BY <1>1, <1>2, <2>1 DEF Numbered
<1>4. page' = [page EXCEPT ![b] = listed]
  BY DEF Arrive
<1>5. page'[b] = listed
  BY <1>4 DEF RecordTypeOK
<1>6. DOMAIN listed = 1..n /\ \A i \in 1..n : listed[i].turn = at(i).turn
  OBVIOUS
<1>7. \A i \in 1..n : listed[i].words <=> at(i).turn \notin a.wiped
  BY Zenon
<1>8. listed \in Seq(Line)
  <2>1. \A i \in 1..n : at(i).turn \in Turn
    BY <1>1, <1>2 DEF Row
  <2>2. \A i \in 1..n : listed[i] \in Line
    BY <2>1, Zenon DEF Line
  <2>3. listed \in [1..n -> Line]
    BY <2>2
  <2> HIDE DEF listed
  <2> QED
    BY <1>1, <2>3
<1> HIDE DEF listed, at
<1>9. {listed[i].turn : i \in 1..n} = {r.turn : r \in a.rows}
  BY <1>2, <1>3, <1>6
<1>10. Shown(b)' = {page'[b][i].turn : i \in DOMAIN page'[b]}
  BY DEF Shown
<1>11. Shown(b)' = Turns(a)
  BY <1>5, <1>6, <1>9, <1>10 DEF Turns
<1>12. page' \in [Browser -> Seq(Line)]
  BY <1>4, <1>8 DEF RecordTypeOK
<1> QED
  BY <1>5, <1>6, <1>7, <1>11, <1>12

LEMMA HearType ==
  ASSUME RecordTypeOK, NEW b \in Browser, Hear(b)
  PROVE  RecordTypeOK'
<1> DEFINE e == Head(buf[b])
<1>1. /\ buf[b] \in Seq(Event) /\ buf[b] # <<>> /\ e \in Event /\ Tail(buf[b]) \in Seq(Event)
      /\ Len(Tail(buf[b])) <= Buffer /\ buf' = [buf EXCEPT ![b] = Tail(@)]
  BY RecordConstants DEF RecordTypeOK, Hear
<1>2. /\ buf' \in [Browser -> Seq(Event)] /\ \A c \in Browser : Len(buf'[c]) <= Buffer
      /\ UNCHANGED <<record, requests, faults>>
  BY <1>1 DEF RecordTypeOK, Hear
<1>3. CASE /\ e.kind = "turn"
           /\ page' = [page EXCEPT ![b] = Append(@, [turn |-> e.turn, words |-> TRUE])]
           /\ newest' = [newest EXCEPT ![b] = IF e.version > @ THEN e.version ELSE @]
           /\ raced' = [raced EXCEPT ![b] = @ \/ e.turn \in Shown(b) \ Spelled(b)]
           /\ UNCHANGED <<stream, wants, replies, missed, unread>>
  <2>1. e.turn \in Turn /\ e.version \in Nat
    BY <1>1, <1>3, EventTypes
  <2>2. [turn |-> e.turn, words |-> TRUE] \in Line
    BY <2>1 DEF Line
  <2>3. page' \in [Browser -> Seq(Line)]
    <3>1. Append(page[b], [turn |-> e.turn, words |-> TRUE]) \in Seq(Line)
      BY <2>2 DEF RecordTypeOK
    <3> QED
      BY <1>3, <3>1 DEF RecordTypeOK
  <2>4. newest' \in [Browser -> Nat]
    BY <1>3, <2>1 DEF RecordTypeOK
  <2>5. raced' \in [Browser -> BOOLEAN]
    BY <1>3, Zenon DEF RecordTypeOK
  <2> QED
    BY <1>2, <1>3, <2>3, <2>4, <2>5 DEF RecordTypeOK, record, requests
<1>4. CASE /\ e.kind \in {"redacted", "presence"} /\ wants[b] < MaxReads
           /\ wants' = [wants EXCEPT ![b] = @ + 1]
           /\ UNCHANGED <<stream, missed, replies, page, newest, raced, unread>>
  <2>1. wants' \in [Browser -> 0..MaxReads]
    BY <1>4, RecordConstants DEF RecordTypeOK
  <2> QED
    BY <1>2, <1>4, <2>1 DEF RecordTypeOK, record, requests
<1>5. CASE /\ e.kind = "closed"
           /\ stream' = [stream EXCEPT ![b] = "ended"] /\ missed' = [missed EXCEPT ![b] = FALSE]
           /\ UNCHANGED views
  BY <1>2, <1>5 DEF RecordTypeOK, record, requests, views
<1> QED
  BY <1>3, <1>4, <1>5 DEF Hear

\* Every variable of the record keeps its type, and it is numbered through.
THEOREM RecordTypeCorrect == RecordSpec => [](RecordTypeOK /\ NumberInv)
<1>1. RecordInit => RecordTypeOK /\ NumberInv
  <2> SUFFICES ASSUME RecordInit PROVE RecordTypeOK /\ NumberInv
    OBVIOUS
  <2>1. Numbered(rows)
    BY FS_EmptySet DEF RecordInit, Numbered
  <2>2. NumberInv
    BY <2>1 DEF RecordInit, NumberInv, Written
  <2>3. /\ open \in BOOLEAN /\ rows \subseteq Row /\ wiped \subseteq {r.turn : r \in rows}
        /\ version \in Nat /\ comings \in 0..Comings
    BY RecordConstants DEF RecordInit
  <2>4. /\ say \in [Turn -> [at: {"idle", "found", "read", "written", "done", "failed"}, seq: Nat]]
        /\ redact \in [Redaction -> {"idle", "written", "done"}]
        /\ close \in {"idle", "written", "done"}
    BY DEF RecordInit
  <2>5. /\ stream \in [Browser -> {"off", "checked", "on", "dropped", "ended"}]
        /\ missed \in [Browser -> BOOLEAN] /\ raced \in [Browser -> BOOLEAN]
        /\ unread \in [Browser -> Nat \cup {Nothing}]
        /\ newest \in [Browser -> Nat] /\ replies \in [Browser -> SUBSET Snapshot]
        /\ page \in [Browser -> Seq(Line)]
    BY DEF RecordInit
  <2>6. /\ buf \in [Browser -> Seq(Event)] /\ \A b \in Browser : Len(buf[b]) <= Buffer
        /\ wants \in [Browser -> 0..MaxReads] /\ faults \in [Browser -> 0..MaxFaults]
    BY RecordConstants DEF RecordInit
  <2> QED
    BY <2>2, <2>3, <2>4, <2>5, <2>6 DEF RecordTypeOK
<1>2. RecordTypeOK /\ NumberInv /\ [RecordNext]_recordVars => RecordTypeOK' /\ NumberInv'
  <2> SUFFICES ASSUME RecordTypeOK, NumberInv, [RecordNext]_recordVars
               PROVE  RecordTypeOK' /\ NumberInv'
    OBVIOUS
  <2> USE DEF record, requests, streams, views
  <2>1. ASSUME UNCHANGED <<rows, say, replies>> PROVE NumberInv'
    BY <2>1 DEF NumberInv, Written
  <2>2. ASSUME NEW t \in Turn, FindOpen(t) PROVE RecordTypeOK' /\ NumberInv'
    BY <2>2 DEF FindOpen, SetSay, RecordTypeOK, NumberInv, Written
  <2>3. ASSUME NEW t \in Turn, NextSeq(t) PROVE RecordTypeOK' /\ NumberInv'
    <3>1. Cardinality(rows) \in Nat /\ LastSeq = Cardinality(rows)
      BY LastSeqIs DEF NumberInv
    <3>2. SetSay(t, "read", Cardinality(rows) + 1) /\ UNCHANGED <<record, redact, close, comings, streams, views>>
      BY <2>3, <3>1 DEF NextSeq
    <3>3. RecordTypeOK'
      BY <3>1, <3>2 DEF SetSay, RecordTypeOK
    <3>4. NumberInv'
      BY <2>3, <3>1, <3>2 DEF NextSeq, SetSay, NumberInv, Written, RecordTypeOK
    <3> QED
      BY <3>3, <3>4
  <2>4. ASSUME NEW t \in Turn, Insert(t) PROVE RecordTypeOK' /\ NumberInv'
    <3>1. NumberInv' /\ rows' \subseteq Row
      BY <2>4, InsertNumbers
    <3>2. rows \subseteq rows'
      BY <2>4 DEF Insert
    <3>3. wiped' \subseteq {r.turn : r \in rows'} /\ version' \in Nat
      BY <2>4, <3>2 DEF Insert, RecordTypeOK
    <3>4. say' \in [Turn -> [at: {"idle", "found", "read", "written", "done", "failed"}, seq: Nat]]
      <4>1. SetSay(t, "failed", 0) \/ SetSay(t, "written", version + 1)
        BY <2>4 DEF Insert
      <4>2. version + 1 \in Nat /\ 0 \in Nat
        BY DEF RecordTypeOK
      <4>3. ASSUME NEW at \in {"failed", "written"}, NEW n \in Nat, SetSay(t, at, n)
            PROVE  say' \in [Turn -> [at: {"idle", "found", "read", "written", "done", "failed"},
                                     seq: Nat]]
        BY <4>3 DEF SetSay, RecordTypeOK
      <4> QED
        BY <4>1, <4>2, <4>3
    <3> QED
      BY <2>4, <3>1, <3>3, <3>4 DEF Insert, RecordTypeOK
  <2>5. ASSUME NEW t \in Turn, PublishTurn(t) PROVE RecordTypeOK' /\ NumberInv'
    <3> DEFINE e == [kind |-> "turn", turn |-> t, version |-> say[t].seq]
    <3>1. e \in Event
      BY EventTypes DEF RecordTypeOK
    <3>2. Publish(e)
      BY <2>5 DEF PublishTurn
    <3>3. /\ UNCHANGED <<stream, faults>> /\ missed' \in [Browser -> BOOLEAN]
          /\ buf' \in [Browser -> Seq(Event)] /\ \A b \in Browser : Len(buf'[b]) <= Buffer
      BY <3>1, <3>2, PublishType
    <3> QED
      BY <2>5, <3>3 DEF PublishTurn, SetSay, RecordTypeOK, NumberInv, Written
  <2>6. ASSUME NEW d \in Redaction, Redact(d) PROVE RecordTypeOK' /\ NumberInv'
    <3>1. redact' \in [Redaction -> {"idle", "written", "done"}]
      BY <2>6 DEF Redact, RecordTypeOK
    <3>2. wiped' \subseteq Written' /\ version' \in Nat
      BY <2>6 DEF Redact, RecordTypeOK, Written
    <3> QED
      BY <2>1, <2>6, <3>1, <3>2 DEF Redact, RecordTypeOK, Written
  <2>7. ASSUME NEW k \in {"redacted", "presence", "closed"}, Publish([kind |-> k]),
               UNCHANGED <<record, say, views>>,
               redact' \in [Redaction -> {"idle", "written", "done"}],
               close' \in {"idle", "written", "done"}, comings' \in 0..Comings
        PROVE  RecordTypeOK' /\ NumberInv'
    <3>1. /\ UNCHANGED <<stream, faults>> /\ missed' \in [Browser -> BOOLEAN]
          /\ buf' \in [Browser -> Seq(Event)] /\ \A b \in Browser : Len(buf'[b]) <= Buffer
      BY <2>7, EventTypes, PublishType
    <3> QED
      BY <2>1, <2>7, <3>1 DEF RecordTypeOK
  <2>8. ASSUME NEW d \in Redaction, PublishRedacted(d) PROVE RecordTypeOK' /\ NumberInv'
    <3>1. /\ Publish([kind |-> "redacted"]) /\ UNCHANGED <<record, say, close, comings, views>>
          /\ redact' \in [Redaction -> {"idle", "written", "done"}]
      BY <2>8 DEF PublishRedacted, RecordTypeOK
    <3> QED
      BY <2>7, <3>1 DEF RecordTypeOK
  <2>9. CASE Presence
    <3>1. /\ Publish([kind |-> "presence"]) /\ UNCHANGED <<record, say, redact, close, views>>
          /\ comings' \in 0..Comings
      BY <2>9, RecordConstants DEF Presence, RecordTypeOK
    <3> QED
      BY <2>7, <3>1 DEF RecordTypeOK
  <2>10. CASE PublishClosed
    <3>1. /\ Publish([kind |-> "closed"]) /\ UNCHANGED <<record, say, redact, comings, views>>
          /\ close' = "done"
      BY <2>10 DEF PublishClosed
    <3> QED
      BY <2>7, <3>1 DEF RecordTypeOK
  <2>11. CASE CloseRow \/ UNCHANGED recordVars
    BY <2>1, <2>11 DEF CloseRow, RecordTypeOK, recordVars
  <2>12. ASSUME NEW b \in Browser, Connect(b) \/ Subscribe(b) \/ Lagged(b)
         PROVE  RecordTypeOK' /\ NumberInv'
    <3>1. CASE Connect(b)
      BY <2>1, <3>1 DEF Connect, RecordTypeOK
    <3>2. CASE Subscribe(b)
      <4>1. wants' \in [Browser -> 0..MaxReads]
        BY <3>2, RecordConstants DEF Subscribe, RecordTypeOK
      <4>2. stream' \in [Browser -> {"off", "checked", "on", "dropped", "ended"}]
        BY <3>2 DEF Subscribe, RecordTypeOK
      <4>3. UNCHANGED <<record, requests, missed, buf, faults, replies, page, newest, raced, unread>>
        BY <3>2 DEF Subscribe
      <4> QED
        BY <2>1, <4>1, <4>2, <4>3 DEF RecordTypeOK
    <3>3. CASE Lagged(b)
      <4>1. wants' \in [Browser -> 0..MaxReads]
        BY <3>3, RecordConstants DEF Lagged, RecordTypeOK
      <4>2. stream' \in [Browser -> {"off", "checked", "on", "dropped", "ended"}]
        BY <3>3 DEF Lagged, RecordTypeOK
      <4>3. UNCHANGED <<record, requests, missed, buf, faults, replies, page, newest, raced, unread>>
        BY <3>3 DEF Lagged
      <4> QED
        BY <2>1, <4>1, <4>2, <4>3 DEF RecordTypeOK
    <3> QED
      BY <2>12, <3>1, <3>2, <3>3
  <2>13. ASSUME NEW b \in Browser, Drop(b) \/ Break(b) PROVE RecordTypeOK' /\ NumberInv'
    <3>1. CASE Drop(b)
      BY <2>1, <3>1 DEF Drop, RecordTypeOK
    <3>2. CASE Break(b)
      <4>1. buf' \in [Browser -> Seq(Event)] /\ \A c \in Browser : Len(buf'[c]) <= Buffer
        BY <3>2, RecordConstants DEF Break, RecordTypeOK
      <4>2. /\ stream' \in [Browser -> {"off", "checked", "on", "dropped", "ended"}]
            /\ missed' \in [Browser -> BOOLEAN] /\ faults' \in [Browser -> 0..MaxFaults]
        BY <3>2, RecordConstants DEF Break, RecordTypeOK
      <4>3. UNCHANGED <<record, requests, views>>
        BY <3>2 DEF Break
      <4> QED
        BY <2>1, <4>1, <4>2, <4>3 DEF RecordTypeOK
    <3> QED
      BY <2>13, <3>1, <3>2
  <2>14. ASSUME NEW b \in Browser, Hear(b) PROVE RecordTypeOK' /\ NumberInv'
    <3>1. UNCHANGED <<rows, say, replies>>
      BY <2>14 DEF Hear
    <3> QED
      BY <2>1, <2>14, <3>1, HearType
  <2>15. ASSUME NEW b \in Browser, Serve(b) PROVE RecordTypeOK' /\ NumberInv'
    <3> DEFINE a == [rows |-> rows, wiped |-> wiped, version |-> version]
    <3>1. replies' = [replies EXCEPT ![b] = @ \cup {a}] /\ UNCHANGED <<rows, wiped, say>>
      BY <2>15 DEF Serve
    <3>2. a \in Snapshot
      BY DEF RecordTypeOK, Snapshot, Row
    <3>3. RecordTypeOK'
      <4>1. wants' \in [Browser -> 0..MaxReads]
        BY <2>15, RecordConstants DEF Serve, RecordTypeOK
      <4>2. replies' \in [Browser -> SUBSET Snapshot]
        BY <3>1, <3>2 DEF RecordTypeOK
      <4> QED
        BY <2>15, <4>1, <4>2 DEF Serve, RecordTypeOK
    <3>4. Numbered(a.rows) /\ a.wiped \subseteq Turns(a)
      BY DEF NumberInv, RecordTypeOK, Turns
    <3>5. \A c \in Browser : \A x \in replies'[c] : Numbered(x.rows) /\ x.wiped \subseteq Turns(x)
      <4> HIDE DEF a
      <4> QED
        BY <3>1, <3>4 DEF NumberInv, RecordTypeOK
    <3> QED
      BY <3>1, <3>3, <3>5 DEF NumberInv, Written, Numbered
  <2>16. ASSUME NEW b \in Browser, NEW a \in replies[b], Arrive(b, a)
         PROVE  RecordTypeOK' /\ NumberInv'
    <3>1. page' \in [Browser -> Seq(Line)]
      BY <2>16, ArrivePage
    <3>2. /\ replies' = [replies EXCEPT ![b] = @ \ {a}] /\ UNCHANGED <<record, requests, streams, wants>>
          /\ newest' = [newest EXCEPT ![b] = IF a.version > @ THEN a.version ELSE @]
          /\ raced' = [raced EXCEPT ![b] = a.version < newest[b]]
          /\ unread' = [unread EXCEPT ![b] = IF a.version >= @ THEN Nothing ELSE @]
      BY <2>16, Zenon DEF Arrive
    <3>3. a \in Snapshot /\ a.version \in Nat
      BY DEF RecordTypeOK, Snapshot
    <3>4. raced' \in [Browser -> BOOLEAN]
      <4>1. (a.version < newest[b]) \in BOOLEAN
        OBVIOUS
      <4> QED
        BY <3>2, <4>1, Zenon DEF RecordTypeOK
    <3>5. newest' \in [Browser -> Nat] /\ replies' \in [Browser -> SUBSET Snapshot]
      BY <3>2, <3>3 DEF RecordTypeOK
    <3>6. unread' \in [Browser -> Nat \cup {Nothing}]
      BY <3>2 DEF RecordTypeOK
    <3>7. RecordTypeOK'
      BY <3>1, <3>2, <3>4, <3>5, <3>6 DEF RecordTypeOK
    <3>8. \A c \in Browser : replies'[c] \subseteq replies[c]
      BY <3>2 DEF RecordTypeOK
    <3> QED
      BY <3>2, <3>7, <3>8 DEF NumberInv, Written, Numbered
  <2>17. ASSUME NEW b \in Browser, ReadFails(b) PROVE RecordTypeOK' /\ NumberInv'
    <3>1. /\ faults' \in [Browser -> 0..MaxFaults] /\ unread' \in [Browser -> Nat \cup {Nothing}]
          /\ UNCHANGED <<record, requests, stream, missed, buf, page, newest, raced>>
      BY <2>17, RecordConstants DEF ReadFails, RecordTypeOK
    <3>2. \/ wants[b] > 0 /\ wants' = [wants EXCEPT ![b] = @ - 1] /\ UNCHANGED replies
          \/ \E a \in replies[b] : replies' = [replies EXCEPT ![b] = @ \ {a}] /\ UNCHANGED wants
      BY <2>17 DEF ReadFails
    <3>3. wants' \in [Browser -> 0..MaxReads]
      <4>1. wants \in [Browser -> 0..MaxReads] /\ (wants[b] > 0 => wants[b] - 1 \in 0..MaxReads)
        BY RecordConstants DEF RecordTypeOK
      <4> QED
        BY <3>2, <4>1
    <3>4. replies \in [Browser -> SUBSET Snapshot]
      BY DEF RecordTypeOK
    <3>5. replies' \in [Browser -> SUBSET Snapshot] /\ \A c \in Browser : replies'[c] \subseteq replies[c]
      BY <3>2, <3>4
    <3> QED
      BY <3>1, <3>3, <3>4, <3>5 DEF RecordTypeOK, NumberInv, Written, Numbered
  <2> QED
    BY <2>2, <2>3, <2>4, <2>5, <2>6, <2>8, <2>9, <2>10, <2>11, <2>12, <2>13, <2>14, <2>15, <2>16, <2>17
    DEF RecordNext, Saying, Following
<1> QED
  BY <1>1, <1>2, PTL DEF RecordSpec

\* However many speak at once, and however often a number is refused and a turn lost,
\* the transcript is numbered 1, 2, 3 and so on, one turn to each.
THEOREM NumberingKept == RecordSpec => []NumberedThrough
<1>1. NumberInv => NumberedThrough
  BY DEF NumberInv, Numbered, NumberedThrough
<1> QED
  BY <1>1, RecordTypeCorrect, PTL

-----------------------------------------------------------------------------
(* Pages                                                                    *)

Coming(b) == {buf[b][i] : i \in DOMAIN buf[b]}

\* Everything that is published reaches the browser, as far as can be told yet.
Live(b) == stream[b] = "on" /\ ~ missed[b]

\* A turn, or the news that words were deleted, is still on its way to the browser.
TurnComes(b, t) == say[t].at = "written" \/ \E e \in Coming(b) : e.kind = "turn" /\ e.turn = t
WipeComes(b) ==
  (\E d \in Redaction : redact[d] = "written") \/ \E e \in Coming(b) : e.kind = "redacted"

\* Or the browser is about to read the room, or an answer that has it is under way.
TurnDue(b, t) == wants[b] > 0 \/ TurnComes(b, t) \/ \E c \in replies[b] : t \in Turns(c)
WipeDue(b, t) == wants[b] > 0 \/ WipeComes(b) \/ \E c \in replies[b] : t \in c.wiped

\* Answers are states of the record, and the later of two has all of the earlier.
Older(b, a) ==
  /\ a.version <= version /\ a.rows \subseteq rows /\ a.wiped \subseteq wiped
  /\ a.version = version => a.rows = rows /\ a.wiped = wiped
  /\ \A c \in replies[b] : a.version <= c.version => a.rows \subseteq c.rows /\ a.wiped \subseteq c.wiped

\* A turn of version v is in the record, and in every answer as late as it.
Known(b, t, v) ==
  v <= version /\ t \in Written /\ \A a \in replies[b] : a.version >= v => t \in Turns(a)

EventsKnown(b) ==
  /\ \A e \in Coming(b) : e.kind = "turn" => Known(b, e.turn, e.version)
  /\ \A t \in Turn : say[t].at = "written" => Known(b, t, say[t].seq)

\* A page shows what is in the record, and leaves out only words that were deleted.
PageSound(b) ==
  /\ Shown(b) \subseteq Written
  /\ \A i \in DOMAIN page[b] : ~ page[b][i].words => page[b][i].turn \in wiped

\* What the page has not, is still to come.
PageCatchesUp(b) ==
  /\ \A t \in Written : t \in Shown(b) \/ TurnDue(b, t)
  /\ \A t \in wiped : t \in Shown(b) \ Spelled(b) \/ WipeDue(b, t)

\* What an answer has not, that is not older than the page nor than the last read that
\* failed, is still to come.
AnswerCatchesUp(b, a) ==
  /\ \A t \in Written : t \in Turns(a) \/ TurnDue(b, t)
  /\ \A t \in wiped : t \in a.wiped \/ WipeDue(b, t)

PageInv(b) ==
  /\ \A a \in replies[b] : Older(b, a)
  /\ EventsKnown(b)
  /\ PageSound(b)
  /\ Live(b) => /\ InStep(b) => PageCatchesUp(b)
                /\ \A a \in replies[b] :
                     a.version >= newest[b] /\ a.version >= unread[b] => AnswerCatchesUp(b, a)

\* Whatever happens to the stream, to what it holds and to the requests, as long as what
\* was on its way to a live browser stays so, or the browser is about to read the room.
LEMMA StillDue ==
  ASSUME NEW b \in Browser, PageInv(b),
         UNCHANGED <<rows, wiped, version>>, replies'[b] = replies[b],
         page'[b] = page[b], newest'[b] = newest[b],
         raced'[b] = raced[b], unread'[b] = unread[b],
         \A t \in Turn : say'[t].at = "written" => say'[t] = say[t],
         \A e \in Coming(b)' : e.kind = "turn" => e \in Coming(b) \/ Known(b, e.turn, e.version),
         Live(b)' => \/ wants'[b] > 0
                     \/ /\ Live(b) /\ wants'[b] = wants[b]
                        /\ \A t \in Turn : TurnComes(b, t) => TurnComes(b, t)'
                        /\ WipeComes(b) => WipeComes(b)',
         Written \subseteq Turn
  PROVE  PageInv(b)'
<1>1. /\ Written' = Written /\ Shown(b)' = Shown(b) /\ Spelled(b)' = Spelled(b)
      /\ \A t, v : Known(b, t, v)' <=> Known(b, t, v)
  BY DEF Written, Shown, Spelled, Known, Turns
<1>2. \A a \in replies'[b] : Older(b, a)'
  BY DEF PageInv, Older
<1>3. EventsKnown(b)'
  BY <1>1 DEF PageInv, EventsKnown
<1>4. PageSound(b)'
  BY <1>1 DEF PageInv, PageSound
<1>5. ASSUME Live(b)', wants'[b] > 0
      PROVE  PageCatchesUp(b)' /\ \A a \in replies'[b] : AnswerCatchesUp(b, a)'
  BY <1>5 DEF PageCatchesUp, AnswerCatchesUp, TurnDue, WipeDue
<1>6. ASSUME Live(b)', ~ wants'[b] > 0
      PROVE  /\ InStep(b)' => PageCatchesUp(b)'
             /\ \A a \in replies'[b] :
                  a.version >= newest'[b] /\ a.version >= unread'[b] => AnswerCatchesUp(b, a)'
  <2>1. /\ Live(b) /\ wants'[b] = wants[b]
        /\ \A t \in Turn : TurnComes(b, t) => TurnComes(b, t)'
        /\ WipeComes(b) => WipeComes(b)'
    BY <1>6
  <2>2. /\ \A t \in Written : TurnDue(b, t) => TurnDue(b, t)'
        /\ \A t : WipeDue(b, t) => WipeDue(b, t)'
    BY <2>1 DEF TurnDue, WipeDue, Turns
  <2>3. InStep(b)' => PageCatchesUp(b)'
    BY <1>1, <2>1, <2>2 DEF PageInv, PageCatchesUp, InStep
  <2>4. \A a \in replies'[b] :
          a.version >= newest'[b] /\ a.version >= unread'[b] => AnswerCatchesUp(b, a)'
    BY <1>1, <2>1, <2>2 DEF PageInv, AnswerCatchesUp, Turns
  <2> QED
    BY <2>3, <2>4
<1> QED
  BY <1>2, <1>3, <1>4, <1>5, <1>6 DEF PageInv

LEMMA PublishComing ==
  ASSUME RecordTypeOK, NEW e \in Event, Publish(e), NEW b \in Browser
  PROVE  /\ Coming(b)' \subseteq Coming(b) \cup {e}
         /\ Live(b)' => Live(b) /\ Coming(b)' = Coming(b) \cup {e}
<1>1. /\ buf'[b] = buf[b] \/ buf'[b] = Append(buf[b], e)
      /\ Live(b)' => Live(b) /\ buf'[b] = Append(buf[b], e)
  BY PublishAt DEF Live
<1> DEFINE q == buf[b]
           more == Append(q, e)
<1>2. q \in Seq(Event)
  BY DEF RecordTypeOK
<1>3. {more[i] : i \in DOMAIN more} = {q[i] : i \in DOMAIN q} \cup {e}
  <2>1. DOMAIN more = 1..(Len(q) + 1) /\ DOMAIN q = 1..Len(q) /\ Len(q) \in Nat
    BY <1>2
  <2>2. more[Len(q) + 1] = e /\ \A i \in 1..Len(q) : more[i] = q[i]
    BY <1>2
  <2> HIDE DEF more
  <2> QED
    BY <2>1, <2>2
<1>4. Coming(b)' = {buf'[b][i] : i \in DOMAIN buf'[b]}
  BY DEF Coming
<1>5. buf'[b] = more => Coming(b)' = Coming(b) \cup {e}
  BY <1>3, <1>4 DEF Coming
<1>6. buf'[b] = q => Coming(b)' = Coming(b)
  BY <1>4 DEF Coming
<1> QED
  BY <1>1, <1>5, <1>6

LEMMA InsertPage ==
  ASSUME RecordTypeOK, NumberInv, NEW t \in Turn, Insert(t), NEW b \in Browser, PageInv(b)
  PROVE  PageInv(b)'
<1>1. /\ say[t].at = "read" /\ UNCHANGED <<redact, wiped, stream, missed, buf>>
      /\ UNCHANGED <<wants, replies, page, newest, raced, unread>>
      /\ version \in Nat /\ newest[b] \in Nat /\ Written \subseteq Turn
      /\ Live(b)' = Live(b) /\ Coming(b)' = Coming(b)
  BY DEF Insert, streams, views, record, RecordTypeOK, Live, Coming, Written, Row
<1>2. CASE SetSay(t, "failed", 0) /\ UNCHANGED <<rows, version>>
  <2>1. \A u \in Turn : u # t => say'[u] = say[u]
    BY <1>2 DEF SetSay, RecordTypeOK
  <2>2. say'[t].at = "failed"
    BY <1>2 DEF SetSay, RecordTypeOK
  <2>3. /\ \A u \in Turn : say'[u].at = "written" => say'[u] = say[u]
        /\ \A u \in Turn : TurnComes(b, u) => TurnComes(b, u)'
        /\ WipeComes(b) => WipeComes(b)'
    BY <1>1, <2>1, <2>2 DEF TurnComes, WipeComes
  <2> QED
    BY <1>1, <1>2, <2>3, StillDue
<1>3. CASE /\ rows' = rows \cup {[seq |-> say[t].seq, turn |-> t]} /\ version' = version + 1
           /\ SetSay(t, "written", version + 1)
  <2>1. Written' = Written \cup {t} /\ rows \subseteq rows'
    <3> DEFINE r == [seq |-> say[t].seq, turn |-> t]
    <3>1. {q.turn : q \in rows \cup {r}} = {q.turn : q \in rows} \cup {r.turn}
      OBVIOUS
    <3> QED
      BY <1>3, <3>1 DEF Written
  <2>2. say'[t].at = "written" /\ say'[t].seq = version + 1
    BY <1>3 DEF SetSay, RecordTypeOK
  <2>3. \A u \in Turn : u # t => say'[u] = say[u]
    BY <1>3 DEF SetSay, RecordTypeOK
  <2>4. \A a \in replies[b] : Older(b, a) /\ a.version \in Nat
    BY DEF PageInv, RecordTypeOK, Snapshot
  <2>5. \A a \in replies'[b] : Older(b, a)'
    BY <1>1, <1>3, <2>1, <2>4 DEF Older
  <2>6. \A u, v : Known(b, u, v) /\ v \in Nat => Known(b, u, v)'
    BY <1>1, <1>3, <2>1 DEF Known, Turns
  <2>7. EventsKnown(b)'
    <3>1. \A v : v = version + 1 => Known(b, t, v)'
      BY <1>1, <1>3, <2>1, <2>4 DEF Known, Older
    <3>2. \A e \in Coming(b) : e.kind = "turn" => e.version \in Nat
      BY EventTypes DEF RecordTypeOK, Coming
    <3>3. \A u \in Turn : say[u].seq \in Nat
      BY DEF RecordTypeOK
    <3>4. \A e \in Coming(b)' : e.kind = "turn" => Known(b, e.turn, e.version)'
      BY <1>1, <2>6, <3>2 DEF PageInv, EventsKnown
    <3>5. \A u \in Turn : say'[u].at = "written" => Known(b, u, say[u].seq)'
      <4> SUFFICES ASSUME NEW u \in Turn, say'[u].at = "written", NEW v, v = say'[u].seq
                   PROVE  Known(b, u, v)'
        OBVIOUS
      <4>1. CASE u = t
        BY <2>2, <3>1, <4>1
      <4>2. CASE u # t
        BY <2>3, <2>6, <3>3, <4>2 DEF PageInv, EventsKnown
      <4> QED
        BY <4>1, <4>2
    <3> QED
      BY <3>4, <3>5 DEF EventsKnown
  <2>8. PageSound(b)'
    BY <1>1, <2>1 DEF PageInv, PageSound, Shown
  <2>9. /\ TurnDue(b, t)' /\ \A u \in Written : TurnDue(b, u) => TurnDue(b, u)'
        /\ \A u : WipeDue(b, u) => WipeDue(b, u)'
    BY <1>1, <2>2, <2>3 DEF TurnDue, TurnComes, WipeDue, WipeComes, Turns
  <2>10. PageCatchesUp(b) => PageCatchesUp(b)'
    BY <1>1, <2>1, <2>9 DEF PageCatchesUp, Shown, Spelled
  <2>11. \A a : AnswerCatchesUp(b, a) => AnswerCatchesUp(b, a)'
    BY <1>1, <2>1, <2>9 DEF AnswerCatchesUp, Turns
  <2> QED
    BY <1>1, <2>5, <2>7, <2>8, <2>10, <2>11 DEF PageInv, InStep
<1> QED
  BY <1>2, <1>3 DEF Insert, record

LEMMA RedactPage ==
  ASSUME RecordTypeOK, NEW d \in Redaction, Redact(d), NEW b \in Browser, PageInv(b)
  PROVE  PageInv(b)'
<1>1. /\ redact[d] = "idle" /\ UNCHANGED <<rows, say, stream, missed, buf>>
      /\ UNCHANGED <<wants, replies, page, newest, raced, unread>>
      /\ version \in Nat /\ newest[b] \in Nat /\ Written \subseteq Turn /\ wiped \subseteq Written
      /\ Live(b)' = Live(b) /\ Coming(b)' = Coming(b) /\ Written' = Written
  BY DEF Redact, streams, views, record, RecordTypeOK, Live, Coming, Written, Row
<1>2. CASE redact' = [redact EXCEPT ![d] = "done"] /\ UNCHANGED <<wiped, version>>
  <2>1. \A c \in Redaction : redact[c] = "written" => redact'[c] = "written"
    BY <1>1, <1>2 DEF RecordTypeOK
  <2>2. /\ \A u \in Turn : TurnComes(b, u) => TurnComes(b, u)'
        /\ WipeComes(b) => WipeComes(b)'
    BY <1>1, <2>1 DEF TurnComes, WipeComes
  <2> QED
    BY <1>1, <1>2, <2>2, StillDue
<1>3. CASE /\ redact' = [redact EXCEPT ![d] = "written"]
           /\ wiped' = Written /\ version' = version + 1
  <2>1. WipeComes(b)'
    BY <1>3 DEF WipeComes, RecordTypeOK
  <2>2. \A a \in replies[b] : Older(b, a) /\ a.version \in Nat
    BY DEF PageInv, RecordTypeOK, Snapshot
  <2>3. \A a \in replies'[b] : Older(b, a)'
    BY <1>1, <1>3, <2>2 DEF Older
  <2>4. \A u, v : Known(b, u, v) /\ v \in Nat => Known(b, u, v)'
    BY <1>1, <1>3 DEF Known, Turns
  <2>5. EventsKnown(b)'
    <3>1. \A e \in Coming(b) : e.kind = "turn" => e.version \in Nat
      BY EventTypes DEF RecordTypeOK, Coming
    <3>2. \A u \in Turn : say[u].seq \in Nat
      BY DEF RecordTypeOK
    <3> QED
      BY <1>1, <2>4, <3>1, <3>2 DEF PageInv, EventsKnown
  <2>6. PageSound(b)'
    BY <1>1, <1>3 DEF PageInv, PageSound, Shown
  <2>7. (\A u \in Written : TurnDue(b, u) => TurnDue(b, u)') /\ \A u : WipeDue(b, u)'
    BY <1>1, <2>1 DEF TurnDue, TurnComes, WipeDue, Turns
  <2>8. PageCatchesUp(b) => PageCatchesUp(b)'
    BY <1>1, <2>7 DEF PageCatchesUp, Shown
  <2>9. \A a : AnswerCatchesUp(b, a) => AnswerCatchesUp(b, a)'
    BY <1>1, <2>7 DEF AnswerCatchesUp, Turns
  <2> QED
    BY <1>1, <2>3, <2>5, <2>6, <2>8, <2>9 DEF PageInv, InStep
<1> QED
  BY <1>2, <1>3 DEF Redact

\* What a buffer holds is its head and what is behind it.
LEMMA HeadAndTail ==
  ASSUME NEW q \in Seq(Event), q # <<>>
  PROVE  {q[i] : i \in DOMAIN q} = {Tail(q)[i] : i \in DOMAIN Tail(q)} \cup {Head(q)}
<1> DEFINE n == Len(q)
           r == Tail(q)
<1>1. /\ n \in Nat \ {0} /\ DOMAIN q = 1..n /\ Head(q) = q[1]
      /\ DOMAIN r = 1..(n - 1) /\ \A i \in 1..(n - 1) : r[i] = q[i + 1]
  OBVIOUS
<1> HIDE DEF n, r
<1>2. 1 \in DOMAIN q /\ \A i \in DOMAIN r : i + 1 \in DOMAIN q /\ r[i] = q[i + 1]
  BY <1>1
<1>3. \A i \in DOMAIN q : i = 1 \/ (i - 1 \in DOMAIN r /\ r[i - 1] = q[i])
  <2> SUFFICES ASSUME NEW i \in 1..n, i # 1 PROVE i - 1 \in 1..(n - 1) /\ r[i - 1] = q[i]
    BY <1>1
  <2>1. i - 1 \in 1..(n - 1) /\ (i - 1) + 1 = i
    BY <1>1
  <2> QED
    BY <1>1, <2>1
<1>4. \A x \in {q[i] : i \in DOMAIN q} : x = Head(q) \/ x \in {r[i] : i \in DOMAIN r}
  BY <1>1, <1>3
<1>5. \A x \in {r[i] : i \in DOMAIN r} : x \in {q[i] : i \in DOMAIN q}
  BY <1>2
<1>6. Head(q) \in {q[i] : i \in DOMAIN q}
  BY <1>1, <1>2
<1> QED
  BY <1>4, <1>5, <1>6 DEF r

\* The browser hears of a turn: the page has it, and so has every answer as late as it.
LEMMA HearTurnPage ==
  ASSUME RecordTypeOK, NEW b \in Browser, Hear(b), Head(buf[b]).kind = "turn", PageInv(b)
  PROVE  PageInv(b)'
<1> DEFINE e == Head(buf[b])
           q == page[b]
           line == [turn |-> e.turn, words |-> TRUE]
           more == Append(q, line)
<1>1. /\ page' = [page EXCEPT ![b] = more]
      /\ newest' = [newest EXCEPT ![b] = IF e.version > @ THEN e.version ELSE @]
      /\ raced' = [raced EXCEPT ![b] = @ \/ e.turn \in Shown(b) \ Spelled(b)]
      /\ buf' = [buf EXCEPT ![b] = Tail(@)]
      /\ UNCHANGED <<rows, wiped, version, say, redact, stream, wants, replies, missed, unread>>
  BY DEF Hear, record, requests
<1>2. /\ buf[b] \in Seq(Event) /\ buf[b] # <<>> /\ e \in Event /\ e.kind = "turn"
      /\ e.turn \in Turn /\ e.version \in Nat /\ newest[b] \in Nat
      /\ q \in Seq(Line) /\ line \in Line
  <2>1. buf[b] \in Seq(Event) /\ buf[b] # <<>> /\ e \in Event /\ e.kind = "turn"
    BY DEF RecordTypeOK, Hear
  <2> QED
    BY <2>1, EventTypes DEF RecordTypeOK, Line
<1>3. Coming(b) = Coming(b)' \cup {e}
  <2>1. buf'[b] = Tail(buf[b])
    BY <1>1 DEF RecordTypeOK
  <2>2. buf[b] \in Seq(Event) /\ buf[b] # <<>>
    BY <1>2
  <2>3. {buf[b][i] : i \in DOMAIN buf[b]}
          = {Tail(buf[b])[i] : i \in DOMAIN Tail(buf[b])} \cup {Head(buf[b])}
    BY <2>2, HeadAndTail
  <2> QED
    BY <2>1, <2>3, Zenon DEF Coming
<1>4. page'[b] = more /\ newest'[b] \in Nat /\ newest'[b] >= newest[b] /\ newest'[b] >= e.version
  BY <1>1, <1>2 DEF RecordTypeOK
<1>5. raced'[b] <=> raced[b] \/ e.turn \in Shown(b) \ Spelled(b)
  BY <1>1, Zenon DEF RecordTypeOK
<1>6. /\ DOMAIN q = 1..Len(q) /\ Len(q) \in Nat /\ DOMAIN more = 1..(Len(q) + 1)
      /\ more[Len(q) + 1] = line /\ \A i \in 1..Len(q) : more[i] = q[i]
  BY <1>2
<1>7. line.turn = e.turn /\ line.words
  BY Zenon
<1>8. /\ Shown(b)' = Shown(b) \cup {e.turn} /\ Spelled(b)' = Spelled(b) \cup {e.turn}
      /\ \A i \in DOMAIN page'[b] : ~ page'[b][i].words => i \in DOMAIN q /\ page'[b][i] = q[i]
  <2> DEFINE n == Len(q)
             J == {j \in DOMAIN q : q[j].words}
  <2> HIDE DEF e, line, more
  <2>1. Shown(b)' = {more[i].turn : i \in DOMAIN more}
    BY <1>4 DEF Shown
  <2>2. Spelled(b)' = {more[i].turn : i \in {j \in DOMAIN more : more[j].words}}
    BY <1>4 DEF Spelled
  <2>3. /\ DOMAIN more = DOMAIN q \cup {n + 1} /\ more[n + 1].turn = e.turn
        /\ \A i \in DOMAIN q : more[i] = q[i]
    BY <1>6, <1>7
  <2>4. {j \in DOMAIN more : more[j].words} = J \cup {n + 1} /\ J \subseteq DOMAIN q
    BY <1>6, <1>7
  <2> HIDE DEF n, J, q
  <2>5. {more[i].turn : i \in DOMAIN more} = {q[i].turn : i \in DOMAIN q} \cup {e.turn}
    BY <2>3
  <2>6. {more[i].turn : i \in J \cup {n + 1}} = {q[i].turn : i \in J} \cup {e.turn}
    BY <2>3, <2>4
  <2>7. Shown(b) = {q[i].turn : i \in DOMAIN q} /\ Spelled(b) = {q[i].turn : i \in J}
    BY DEF Shown, Spelled, q, J
  <2> QED
    BY <1>4, <1>6, <1>7, <2>1, <2>2, <2>4, <2>5, <2>6, <2>7
<1> HIDE DEF e, line, more
<1>9. Written' = Written /\ Live(b)' = Live(b) /\ \A t, v : Known(b, t, v)' <=> Known(b, t, v)
  BY <1>1 DEF Written, Live, Known, Turns
<1>10. Known(b, e.turn, e.version)
  BY <1>2, <1>3 DEF PageInv, EventsKnown
<1>11. \A a \in replies'[b] : Older(b, a)'
  BY <1>1 DEF PageInv, Older
<1>12. EventsKnown(b)'
  BY <1>1, <1>3, <1>9 DEF PageInv, EventsKnown
<1>13. PageSound(b)'
  BY <1>1, <1>8, <1>9, <1>10 DEF PageInv, PageSound, Known
<1>14. /\ \A t : t # e.turn /\ TurnDue(b, t) => TurnDue(b, t)'
       /\ \A t : WipeDue(b, t) => WipeDue(b, t)'
  BY <1>1, <1>2, <1>3 DEF TurnDue, TurnComes, WipeDue, WipeComes, Turns
<1>15. Live(b)' /\ InStep(b)' => PageCatchesUp(b)'
  BY <1>1, <1>5, <1>8, <1>9, <1>14 DEF PageInv, PageCatchesUp, InStep
<1>16. ASSUME Live(b)', NEW a \in replies'[b], a.version >= newest'[b], a.version >= unread'[b]
       PROVE  AnswerCatchesUp(b, a)'
  <2>1. a \in replies[b] /\ a.version \in Nat
    BY <1>1, <1>16 DEF RecordTypeOK, Snapshot
  <2>2. a.version >= newest[b] /\ a.version >= e.version
    BY <1>2, <1>4, <1>16, <2>1
  <2>3. AnswerCatchesUp(b, a) /\ e.turn \in Turns(a)
    BY <1>1, <1>9, <1>10, <1>16, <2>1, <2>2 DEF PageInv, Known
  <2> QED
    BY <1>1, <1>9, <1>14, <2>3 DEF AnswerCatchesUp, Turns
<1> QED
  BY <1>11, <1>12, <1>13, <1>15, <1>16 DEF PageInv

\* An answer is read: it is the record as it stands.
LEMMA ServePage ==
  ASSUME RecordTypeOK, NEW b \in Browser, Serve(b), PageInv(b)
  PROVE  PageInv(b)'
<1> DEFINE s == [rows |-> rows, wiped |-> wiped, version |-> version]
<1>1. /\ replies'[b] = replies[b] \cup {s}
      /\ UNCHANGED <<rows, wiped, version, say, buf, stream, missed, page, newest, raced, unread>>
  BY DEF Serve, record, requests, streams, RecordTypeOK
<1>2. s.rows = rows /\ s.wiped = wiped /\ s.version = version /\ version \in Nat
  BY DEF RecordTypeOK
<1> HIDE DEF s
<1>3. /\ Written' = Written /\ Coming(b)' = Coming(b) /\ Turns(s) = Written
      /\ Shown(b)' = Shown(b) /\ Spelled(b)' = Spelled(b) /\ Live(b)' = Live(b)
  BY <1>1, <1>2 DEF Written, Coming, Turns, Shown, Spelled, Live
<1>4. \A a \in replies[b] : Older(b, a) /\ a.version \in Nat
  BY DEF PageInv, RecordTypeOK, Snapshot
<1>5. \A a \in replies'[b] : Older(b, a)'
  <2> SUFFICES ASSUME NEW a \in replies[b] \cup {s} PROVE Older(b, a)'
    BY <1>1
  <2>1. CASE a = s
    BY <1>1, <1>2, <1>4, <2>1 DEF Older
  <2>2. CASE a \in replies[b]
    BY <1>1, <1>2, <1>4, <2>2 DEF Older
  <2> QED
    BY <2>1, <2>2
<1>6. \A t, v : Known(b, t, v) => Known(b, t, v)'
  BY <1>1, <1>3 DEF Known, Turns
<1>7. EventsKnown(b)' /\ PageSound(b)'
  BY <1>1, <1>3, <1>6 DEF PageInv, EventsKnown, PageSound
<1>8. (\A t \in Written : TurnDue(b, t)') /\ \A t \in wiped : WipeDue(b, t)'
  BY <1>1, <1>2, <1>3 DEF TurnDue, WipeDue, Turns
<1>9. PageCatchesUp(b)' /\ \A a : AnswerCatchesUp(b, a)'
  BY <1>1, <1>3, <1>8 DEF PageCatchesUp, AnswerCatchesUp
<1> QED
  BY <1>5, <1>7, <1>9 DEF PageInv

\* An answer becomes the page: what it has not is still to come, unless it is older than
\* what it is put over.
LEMMA AnswerPage ==
  ASSUME RecordTypeOK, NumberInv, NEW b \in Browser, NEW a \in replies[b], Arrive(b, a),
         PageInv(b)
  PROVE  PageInv(b)'
<1>1. /\ replies'[b] = replies[b] \ {a}
      /\ UNCHANGED <<rows, wiped, version, say, redact, buf, stream, missed, wants>>
      /\ newest' = [newest EXCEPT ![b] = IF a.version > @ THEN a.version ELSE @]
  BY DEF Arrive, record, requests, streams, RecordTypeOK
<1>2. raced'[b] <=> a.version < newest[b]
  <2>1. raced' = [raced EXCEPT ![b] = a.version < newest[b]]
    BY Zenon DEF Arrive
  <2> QED
    BY <2>1, Zenon DEF RecordTypeOK
<1>0. unread'[b] = (IF a.version >= unread[b] THEN Nothing ELSE unread[b])
      /\ unread[b] \in Nat \cup {-1}
  BY DEF Arrive, RecordTypeOK, Nothing
<1>3. /\ \A c \in replies[b] : c.version \in Nat
      /\ newest[b] \in Nat /\ newest'[b] \in Nat
      /\ newest'[b] >= newest[b] /\ newest'[b] >= a.version
  <2>1. \A c \in replies[b] : c.version \in Nat
    BY DEF RecordTypeOK, Snapshot
  <2> QED
    BY <1>1, <2>1 DEF RecordTypeOK
<1>4. /\ Shown(b)' = Turns(a)
      /\ \A i \in DOMAIN page'[b] : page'[b][i].words <=> page'[b][i].turn \notin a.wiped
  BY ArrivePage
<1>5. Spelled(b)' = Turns(a) \ a.wiped
  <2>1. /\ Spelled(b)' = {page'[b][i].turn : i \in {j \in DOMAIN page'[b] : page'[b][j].words}}
        /\ Shown(b)' = {page'[b][i].turn : i \in DOMAIN page'[b]}
    BY DEF Spelled, Shown
  <2> QED
    BY <1>4, <2>1
<1>6. a.wiped \subseteq Turns(a) /\ Older(b, a) /\ Turns(a) \subseteq Written
  BY DEF NumberInv, PageInv, Older, Turns, Written
<1>7. Written' = Written /\ Coming(b)' = Coming(b) /\ Live(b)' = Live(b)
  BY <1>1 DEF Written, Coming, Live
<1>8. \A c \in replies'[b] : Older(b, c)'
  BY <1>1 DEF PageInv, Older
<1>9. EventsKnown(b)'
  <2>1. \A t, v : Known(b, t, v) => Known(b, t, v)'
    BY <1>1, <1>7 DEF Known, Turns
  <2> QED
    BY <1>1, <1>7, <2>1 DEF PageInv, EventsKnown
<1>10. PageSound(b)'
  BY <1>1, <1>4, <1>6, <1>7 DEF PageSound, Older
<1>11. /\ \A t : TurnDue(b, t) => t \in Turns(a) \/ TurnDue(b, t)'
       /\ \A t : WipeDue(b, t) => t \in a.wiped \/ WipeDue(b, t)'
  BY <1>1, <1>7 DEF TurnDue, TurnComes, WipeDue, WipeComes, Turns
<1>12. ASSUME Live(b)', InStep(b)' PROVE PageCatchesUp(b)'
  <2>0. a.version >= unread[b] /\ ~ raced'[b]
    BY <1>0, <1>3, <1>12 DEF InStep, Nothing
  <2>1. AnswerCatchesUp(b, a)
    BY <1>2, <1>3, <1>7, <1>12, <2>0 DEF PageInv
  <2> QED
    BY <1>1, <1>4, <1>5, <1>6, <1>7, <1>11, <2>1 DEF PageCatchesUp, AnswerCatchesUp
<1>13. ASSUME Live(b)', NEW c \in replies'[b], c.version >= newest'[b], c.version >= unread'[b]
       PROVE  AnswerCatchesUp(b, c)'
  <2>1. c \in replies[b] /\ c.version >= newest[b] /\ a.version <= c.version
    BY <1>1, <1>3, <1>13
  <2>3. c.version >= unread[b]
    BY <1>0, <1>3, <1>13, <2>1
  <2>2. AnswerCatchesUp(b, c) /\ Turns(a) \subseteq Turns(c) /\ a.wiped \subseteq c.wiped
    BY <1>6, <1>7, <1>13, <2>1, <2>3 DEF PageInv, Older, Turns
  <2> QED
    BY <1>1, <1>7, <1>11, <2>2 DEF AnswerCatchesUp
<1> QED
  BY <1>8, <1>9, <1>10, <1>12, <1>13 DEF PageInv

\* A read fails: the page keeps what it shows, and only an answer as new as the record is
\* now makes up for it.
LEMMA FailPage ==
  ASSUME RecordTypeOK, NEW b \in Browser, ReadFails(b), PageInv(b)
  PROVE  PageInv(b)'
<1>1. /\ UNCHANGED <<rows, wiped, version, say, buf, stream, missed, page, newest, raced>>
      /\ unread'[b] = version /\ version \in Nat
  BY DEF ReadFails, record, requests, RecordTypeOK
<1>2. replies'[b] \subseteq replies[b]
  BY DEF ReadFails, RecordTypeOK
<1>3. /\ Written' = Written /\ Coming(b)' = Coming(b)
      /\ Shown(b)' = Shown(b) /\ Spelled(b)' = Spelled(b)
  BY <1>1 DEF Written, Coming, Shown, Spelled
<1>4. \A a \in replies'[b] : Older(b, a)'
  BY <1>1, <1>2 DEF PageInv, Older
<1>5. \A t, v : Known(b, t, v) => Known(b, t, v)'
  BY <1>1, <1>2, <1>3 DEF Known, Turns
<1>6. EventsKnown(b)' /\ PageSound(b)'
  BY <1>1, <1>3, <1>5 DEF PageInv, EventsKnown, PageSound
<1>7. ~ InStep(b)'
  BY <1>1 DEF InStep, Nothing
<1>8. ASSUME NEW a \in replies'[b], a.version >= unread'[b]
      PROVE  AnswerCatchesUp(b, a)'
  <2>1. a.version \in Nat /\ a.version <= version /\ a \in replies[b]
    BY <1>2 DEF PageInv, Older, RecordTypeOK, Snapshot
  <2>2. a.version = version
    BY <1>1, <1>8, <2>1
  <2>3. a.rows = rows /\ a.wiped = wiped
    BY <2>1, <2>2 DEF PageInv, Older
  <2> QED
    BY <1>1, <1>3, <2>3 DEF AnswerCatchesUp, Turns, Written
<1> QED
  BY <1>4, <1>6, <1>7, <1>8 DEF PageInv

\* What a browser does itself, to its own page and to the others', which it leaves alone.
LEMMA FollowPage ==
  ASSUME RecordTypeOK, NumberInv, NEW c \in Browser, Following(c) \/ Break(c) \/ ReadFails(c),
         NEW b \in Browser, PageInv(b)
  PROVE  PageInv(b)'
<1> USE DEF record, requests, streams, views
<1>1. Written \subseteq Turn /\ UNCHANGED <<rows, wiped, version, say, redact>>
  <2>1. Written \subseteq Turn
    BY DEF RecordTypeOK, Written, Row
  <2>2. UNCHANGED <<rows, wiped, version, say, redact>>
    BY DEF Following, Connect, Subscribe, Hear, Lagged, Drop, Serve, Arrive, Break, ReadFails
  <2> QED
    BY <2>1, <2>2
<1>2. ASSUME replies'[b] = replies[b], page'[b] = page[b], newest'[b] = newest[b],
             raced'[b] = raced[b], unread'[b] = unread[b], Coming(b)' \subseteq Coming(b),
             Live(b)' => \/ wants'[b] > 0
                         \/ Live(b) /\ wants'[b] = wants[b] /\ Coming(b)' = Coming(b)
      PROVE  PageInv(b)'
  <2>1. \A t \in Turn : TurnComes(b, t) /\ Coming(b)' = Coming(b) => TurnComes(b, t)'
    BY <1>1 DEF TurnComes
  <2>2. WipeComes(b) /\ Coming(b)' = Coming(b) => WipeComes(b)'
    BY <1>1 DEF WipeComes
  <2> QED
    BY <1>1, <1>2, <2>1, <2>2, StillDue
<1>3. CASE c # b
  <2>1. /\ replies'[b] = replies[b] /\ page'[b] = page[b] /\ newest'[b] = newest[b]
        /\ wants'[b] = wants[b] /\ buf'[b] = buf[b] /\ stream'[b] = stream[b]
        /\ unread'[b] = unread[b]
    <3>1. CASE Connect(c) \/ Subscribe(c)
      BY <1>3, <3>1 DEF Connect, Subscribe, RecordTypeOK
    <3>2. CASE Lagged(c) \/ Drop(c)
      BY <1>3, <3>2 DEF Lagged, Drop, RecordTypeOK
    <3>3. CASE Break(c)
      BY <1>3, <3>3 DEF Break, RecordTypeOK
    <3>4. CASE Hear(c)
      BY <1>3, <3>4 DEF Hear, RecordTypeOK
    <3>5. CASE Serve(c)
      BY <1>3, <3>5 DEF Serve, RecordTypeOK
    <3>6. CASE \E a \in replies[c] : Arrive(c, a)
      BY <1>3, <3>6 DEF Arrive, RecordTypeOK
    <3>7. CASE ReadFails(c)
      BY <1>3, <3>7 DEF ReadFails, RecordTypeOK
    <3> QED
      BY <3>1, <3>2, <3>3, <3>4, <3>5, <3>6, <3>7 DEF Following
  <2>2. raced'[b] = raced[b] /\ missed'[b] = missed[b]
    <3>1. CASE Connect(c) \/ Subscribe(c)
      BY <1>3, <3>1, Zenon DEF Connect, Subscribe, RecordTypeOK
    <3>2. CASE Lagged(c) \/ Drop(c)
      BY <1>3, <3>2, Zenon DEF Lagged, Drop, RecordTypeOK
    <3>3. CASE Break(c)
      BY <1>3, <3>3, Zenon DEF Break, RecordTypeOK
    <3>4. CASE Hear(c)
      BY <1>3, <3>4, Zenon DEF Hear, RecordTypeOK
    <3>5. CASE Serve(c)
      BY <1>3, <3>5, Zenon DEF Serve, RecordTypeOK
    <3>6. CASE \E a \in replies[c] : Arrive(c, a)
      <4>1. UNCHANGED missed /\ \E x : raced' = [raced EXCEPT ![c] = x]
        BY <3>6 DEF Arrive
      <4> QED
        BY <1>3, <4>1, Zenon DEF RecordTypeOK
    <3>7. CASE ReadFails(c)
      BY <1>3, <3>7, Zenon DEF ReadFails, RecordTypeOK
    <3> QED
      BY <3>1, <3>2, <3>3, <3>4, <3>5, <3>6, <3>7 DEF Following
  <2> QED
    BY <1>2, <2>1, <2>2 DEF Coming, Live
<1>4. CASE c = b
  <2>1. CASE Connect(b) \/ Subscribe(b) \/ Lagged(b) \/ Drop(b)
    <3>1. /\ UNCHANGED <<replies, page, newest, raced, unread>> /\ Coming(b)' = Coming(b)
          /\ Live(b)' => wants'[b] > 0
      <4>1. CASE Connect(b) \/ Drop(b) \/ Lagged(b)
        BY <4>1 DEF Connect, Drop, Lagged, Coming, Live, RecordTypeOK
      <4>2. CASE Subscribe(b)
        <5>1. wants[b] \in Nat /\ wants'[b] = wants[b] + 1
          BY <4>2 DEF Subscribe, RecordTypeOK
        <5>2. UNCHANGED <<buf, replies, page, newest, raced, unread>>
          BY <4>2 DEF Subscribe
        <5> QED
          BY <5>1, <5>2 DEF Coming
      <4> QED
        BY <2>1, <4>1, <4>2
    <3> QED
      BY <1>2, <3>1
  <2>2. CASE Break(b)
    <3>1. buf'[b] = <<>> /\ stream'[b] = "off" /\ UNCHANGED <<replies, page, newest, raced, unread>>
      BY <2>2 DEF Break, RecordTypeOK
    <3> QED
      BY <1>2, <3>1 DEF Coming, Live
  <2>3. CASE Hear(b) /\ Head(buf[b]).kind # "turn"
    <3>1. UNCHANGED <<replies, page, newest, raced, unread>>
      BY <2>3 DEF Hear
    <3>2. Coming(b)' \subseteq Coming(b)
      <4>1. buf[b] \in Seq(Event) /\ buf[b] # <<>> /\ buf'[b] = Tail(buf[b])
        BY <2>3 DEF Hear, RecordTypeOK
      <4> QED
        BY <4>1, HeadAndTail DEF Coming
    <3>3. \/ wants' = [wants EXCEPT ![b] = @ + 1] /\ wants[b] < MaxReads
          \/ stream' = [stream EXCEPT ![b] = "ended"]
      BY <2>3 DEF Hear
    <3>4. wants[b] \in Nat /\ wants \in [Browser -> 0..MaxReads]
          /\ stream \in [Browser -> {"off", "checked", "on", "dropped", "ended"}]
      BY DEF RecordTypeOK
    <3>5. Live(b)' => wants'[b] > 0
      BY <3>3, <3>4 DEF Live
    <3> QED
      BY <1>2, <3>1, <3>2, <3>5
  <2> QED
    BY <1>4, <2>1, <2>2, <2>3, HearTurnPage, ServePage, AnswerPage, FailPage DEF Following
<1> QED
  BY <1>3, <1>4

\* What is published is put where a live browser will hear it.
LEMMA PublishPage ==
  ASSUME RecordTypeOK, NEW e \in Event, Publish(e), NEW b \in Browser, PageInv(b),
         UNCHANGED <<rows, wiped, version, views>>,
         \A t \in Turn : say'[t].at = "written" => say'[t] = say[t],
         e.kind = "turn" => Known(b, e.turn, e.version),
         \A t \in Turn : say[t].at = "written" =>
           say'[t].at = "written" \/ (e.kind = "turn" /\ e.turn = t),
         \A d \in Redaction : redact[d] = "written" =>
           redact'[d] = "written" \/ e.kind = "redacted"
  PROVE  PageInv(b)'
<1>1. /\ Coming(b)' \subseteq Coming(b) \cup {e}
      /\ Live(b)' => Live(b) /\ Coming(b)' = Coming(b) \cup {e}
  BY PublishComing
<1>2. ASSUME Live(b)'
      PROVE  /\ \A t \in Turn : TurnComes(b, t) => TurnComes(b, t)'
             /\ WipeComes(b) => WipeComes(b)'
  BY <1>1, <1>2 DEF TurnComes, WipeComes
<1>3. Written \subseteq Turn
  BY DEF RecordTypeOK, Written, Row
<1> QED
  BY <1>1, <1>2, <1>3, StillDue DEF views

\* A browser that has caught up shows every turn and no deleted word, however many speak,
\* delete, lag and lose their connections, unless something older was put over something
\* newer, or a read of the room failed and no later one has made up for it.
THEOREM PagesKept == RecordSpec => []PageIsTheRecord
<1> DEFINE Inv == \A b \in Browser : PageInv(b)
<1>1. RecordInit => Inv
  <2> SUFFICES ASSUME RecordInit, NEW b \in Browser PROVE PageInv(b)
    OBVIOUS
  <2>1. /\ rows = {} /\ wiped = {} /\ buf[b] = <<>> /\ page[b] = <<>> /\ replies[b] = {}
        /\ stream[b] = "off" /\ \A t \in Turn : say[t].at = "idle"
    BY DEF RecordInit
  <2> QED
    BY <2>1 DEF PageInv, EventsKnown, Coming, PageSound, Shown, Live
<1>2. RecordTypeOK /\ NumberInv /\ Inv /\ [RecordNext]_recordVars => Inv'
  <2> SUFFICES ASSUME RecordTypeOK, NumberInv, Inv, [RecordNext]_recordVars, NEW b \in Browser
               PROVE  PageInv(b)'
    OBVIOUS
  <2>1. PageInv(b) /\ Written \subseteq Turn
    BY DEF RecordTypeOK, Written, Row
  <2> HIDE DEF Inv
  <2>2. ASSUME UNCHANGED <<rows, wiped, version, redact, streams, views>>,
               \A t \in Turn : say'[t].at = "written" => say'[t] = say[t],
               \A t \in Turn : say[t].at = "written" => say'[t] = say[t]
        PROVE  PageInv(b)'
    <3>1. Coming(b)' = Coming(b) /\ Live(b)' = Live(b)
      BY <2>2 DEF Coming, Live, streams
    <3>2. /\ \A t \in Turn : TurnComes(b, t) => TurnComes(b, t)'
          /\ WipeComes(b) => WipeComes(b)'
      BY <2>2, <3>1 DEF TurnComes, WipeComes
    <3> QED
      BY <2>1, <2>2, <3>1, <3>2, StillDue DEF views
  <2>3. ASSUME NEW t \in Turn, FindOpen(t) \/ NextSeq(t) PROVE PageInv(b)'
    <3>1. \A u \in Turn : u # t => say'[u] = say[u]
      BY <2>3 DEF FindOpen, NextSeq, SetSay, RecordTypeOK
    <3>2. say[t].at # "written" /\ say'[t].at # "written"
      BY <2>3 DEF FindOpen, NextSeq, SetSay, RecordTypeOK
    <3> QED
      BY <2>2, <2>3, <3>1, <3>2 DEF FindOpen, NextSeq, record
  <2>4. ASSUME NEW t \in Turn, PublishTurn(t) PROVE PageInv(b)'
    <3> DEFINE e == [kind |-> "turn", turn |-> t, version |-> say[t].seq]
    <3>1. e \in Event /\ e.kind = "turn" /\ e.turn = t /\ e.version = say[t].seq
      BY EventTypes DEF RecordTypeOK
    <3>2. Publish(e) /\ UNCHANGED <<rows, wiped, version, views, redact>>
      BY <2>4 DEF PublishTurn, record
    <3>3. say'[t].at = "done" /\ \A u \in Turn : u # t => say'[u] = say[u]
      BY <2>4 DEF PublishTurn, SetSay, RecordTypeOK
    <3>4. Known(b, e.turn, e.version)
      BY <2>1, <2>4, <3>1 DEF PublishTurn, PageInv, EventsKnown
    <3> HIDE DEF e
    <3> QED
      BY <2>1, <3>1, <3>2, <3>3, <3>4, PublishPage
  <2>5. ASSUME NEW k \in {"redacted", "presence", "closed"}, Publish([kind |-> k]),
               UNCHANGED <<rows, wiped, version, views, say>>,
               \A d \in Redaction : redact[d] = "written" => redact'[d] = "written" \/ k = "redacted"
        PROVE  PageInv(b)'
    <3> DEFINE e == [kind |-> k]
    <3>1. e \in Event /\ e.kind = k
      BY EventTypes
    <3>2. Publish(e)
      BY <2>5
    <3> HIDE DEF e
    <3> QED
      BY <2>1, <2>5, <3>1, <3>2, PublishPage
  <2>6. ASSUME NEW d \in Redaction, PublishRedacted(d) PROVE PageInv(b)'
    BY <2>5, <2>6 DEF PublishRedacted, record
  <2>7. CASE Presence \/ PublishClosed
    BY <2>5, <2>7 DEF Presence, PublishClosed, record
  <2>8. CASE CloseRow \/ UNCHANGED recordVars
    BY <2>2, <2>8 DEF CloseRow, recordVars, record, requests
  <2> QED
    BY <2>1, <2>3, <2>4, <2>6, <2>7, <2>8, InsertPage, RedactPage, FollowPage
    DEF RecordNext, Saying
<1>3. RecordTypeOK /\ Inv => PageIsTheRecord
  <2> SUFFICES ASSUME RecordTypeOK, NEW b \in Browser, PageInv(b), Quiet(b), InStep(b)
               PROVE  Shown(b) = Written /\ Spelled(b) = Written \ wiped
    BY DEF PageIsTheRecord, Matches
  <2>1. Live(b) /\ Coming(b) = {}
    BY DEF Quiet, Live, Coming
  <2>2. (\A t \in Turn : ~ TurnDue(b, t)) /\ \A t : ~ WipeDue(b, t)
    BY <2>1 DEF Quiet, TurnDue, TurnComes, WipeDue, WipeComes
  <2>3. PageCatchesUp(b) /\ PageSound(b)
    BY <2>1 DEF PageInv
  <2>4. Spelled(b) \subseteq Shown(b) /\ \A t \in Shown(b) \ Spelled(b) : t \in wiped
    BY <2>3 DEF Shown, Spelled, PageSound
  <2>5. Written \subseteq Turn
    BY DEF RecordTypeOK, Written, Row
  <2> QED
    BY <2>2, <2>3, <2>4, <2>5 DEF PageCatchesUp, PageSound
<1> QED
  BY <1>1, <1>2, <1>3, RecordTypeCorrect, PTL DEF RecordSpec

-----------------------------------------------------------------------------
(* The media plane: types, and who sits where                               *)

Neg == [state: {"stable", "offered"}, pending: BOOLEAN,
        offer: SUBSET Conn, told: SUBSET Conn, lost: BOOLEAN]
Chore == [todo: SUBSET Conn, checked: Conn \cup {NoConn}, added: BOOLEAN]

LEMMA MediaConstants ==
  Wirings \subseteq [Conn -> Stream] /\ NoConn \notin Conn /\ MaxParticipants \in Nat \ {0}
BY MediaAssumption

\* Whoever is registered came in by its own stream, is connected and has not left; and a
\* connection that is not in has nothing behind it.
SeatInv ==
  /\ \A s \in Stream : peer[s] # NoConn =>
       /\ streamOf[peer[s]] = s /\ join[peer[s]] = "in"
       /\ wire[peer[s]] # "closed" /\ leave[peer[s]] = {}
  /\ \A c \in Conn :
       /\ join[c] \notin {"in", "refused"} => wire[c] = "new" /\ leave[c] = {}
       /\ leave[c] # {} => join[c] = "in"
       /\ mic[c] => join[c] = "in" /\ wire[c] # "new"
       /\ wire[c] = "up" => join[c] = "in"

LEMMA MediaTypes ==
  ASSUME MediaTypeOK
  PROVE  /\ neg \in [Conn -> Neg] /\ attach \in [Conn -> Chore] /\ share \in [Conn -> Chore]
         /\ streamOf \in [Conn -> Stream] /\ Registered \subseteq Conn /\ NoConn \notin Registered
BY MediaConstants DEF MediaTypeOK, Neg, Chore, Registered

\* What Leave does under the lock: nobody, or whoever is registered for the stream, is
\* taken out of the map and has its connection closed.
LEMMA DepartIs ==
  ASSUME MediaTypeOK, SeatInv, NEW s \in Stream, NEW due \in SUBSET Conn, Depart(s, due)
  PROVE  /\ UNCHANGED streamOf /\ reap' \subseteq Conn /\ made' \in BOOLEAN
         /\ peer' \in [Stream -> Conn \cup {NoConn}]
         /\ wire' \in [Conn -> {"new", "up", "closed"}] /\ leave' \in [Conn -> SUBSET Conn]
         /\ \A x \in Stream : peer'[x] = IF x = s THEN NoConn ELSE peer[x]
         /\ \A c \in Conn : c # peer[s] => wire'[c] = wire[c] /\ leave'[c] = leave[c]
         /\ peer[s] # NoConn => wire'[peer[s]] = "closed" /\ join[peer[s]] = "in"
         /\ ~ made' => \A x \in Stream : peer'[x] = NoConn
<1>1. CASE peer[s] = NoConn
  BY <1>1 DEF Depart, MediaTypeOK
<1>2. CASE peer[s] # NoConn
  <2> DEFINE others == Registered \ {peer[s]}
  <2>1. /\ UNCHANGED streamOf /\ peer' = [peer EXCEPT ![s] = NoConn]
        /\ wire' = [wire EXCEPT ![peer[s]] = "closed"] /\ reap' = due \cup {peer[s]}
        /\ leave' = [leave EXCEPT ![peer[s]] = others] /\ peer[s] \in Conn
    BY <1>2 DEF Depart, MediaTypeOK
  <2>2. made' <=> others # {}
    BY <1>2, Zenon DEF Depart
  <2>3. made' \in BOOLEAN
    BY <1>2, Zenon DEF Depart
  <2>4. \A x \in Stream : x # s /\ peer[x] # NoConn => peer[x] \in others
    BY <1>2 DEF SeatInv, Registered
  <2>5. \A x \in Stream : peer'[x] = IF x = s THEN NoConn ELSE peer[x]
    BY <2>1 DEF MediaTypeOK
  <2>6. ~ made' => \A x \in Stream : peer'[x] = NoConn
    BY <2>2, <2>4, <2>5
  <2>7. others \subseteq Conn /\ join[peer[s]] = "in"
    BY <1>2, MediaTypes DEF SeatInv
  <2> HIDE DEF others
  <2> QED
    BY <2>1, <2>3, <2>5, <2>6, <2>7 DEF MediaTypeOK
<1> QED
  BY <1>1, <1>2

\* And so nobody else's seat is touched.
LEMMA DepartSeats ==
  ASSUME MediaTypeOK, SeatInv, NEW s \in Stream, NEW due \in SUBSET Conn, Depart(s, due),
         UNCHANGED <<broken, mic, sending, stray, neg, attach, share>>,
         join' \in [Conn -> {"idle", "admitted", "replacing", "remaking", "gathering", "in",
                             "refused"}],
         \A c \in Conn : join'[c] # join[c] => join[c] = "replacing" /\ join'[c] = "remaking",
         old' \in [Conn -> Conn \cup {NoConn}],
         live' \subseteq Stream, open' \in BOOLEAN, sweep' \subseteq Stream
  PROVE  MediaTypeOK' /\ SeatInv'
<1>1. /\ UNCHANGED streamOf /\ reap' \subseteq Conn /\ made' \in BOOLEAN
      /\ peer' \in [Stream -> Conn \cup {NoConn}]
      /\ wire' \in [Conn -> {"new", "up", "closed"}] /\ leave' \in [Conn -> SUBSET Conn]
      /\ \A x \in Stream : peer'[x] = IF x = s THEN NoConn ELSE peer[x]
      /\ \A c \in Conn : c # peer[s] => wire'[c] = wire[c] /\ leave'[c] = leave[c]
      /\ peer[s] # NoConn => wire'[peer[s]] = "closed" /\ join[peer[s]] = "in"
      /\ ~ made' => \A x \in Stream : peer'[x] = NoConn
  BY DepartIs
<1>2. MediaTypeOK'
  BY <1>1 DEF MediaTypeOK
<1>3. ASSUME NEW x \in Stream, peer'[x] # NoConn
      PROVE  /\ streamOf'[peer'[x]] = x /\ join'[peer'[x]] = "in"
             /\ wire'[peer'[x]] # "closed" /\ leave'[peer'[x]] = {}
  <2>1. x # s /\ peer'[x] = peer[x] /\ peer[x] \in Conn /\ peer[x] # peer[s]
    <3>1. x # s /\ peer'[x] = peer[x] /\ peer[x] \in Conn /\ streamOf[peer[x]] = x
      BY <1>1, <1>3 DEF SeatInv, MediaTypeOK
    <3>2. peer[s] # NoConn => streamOf[peer[s]] = s
      BY DEF SeatInv
    <3> QED
      BY <3>1, <3>2, MediaConstants
  <2> QED
    BY <1>1, <1>3, <2>1 DEF SeatInv
<1>4. ASSUME NEW c \in Conn
      PROVE  /\ join'[c] \notin {"in", "refused"} => wire'[c] = "new" /\ leave'[c] = {}
             /\ leave'[c] # {} => join'[c] = "in"
             /\ mic'[c] => join'[c] = "in" /\ wire'[c] # "new"
             /\ wire'[c] = "up" => join'[c] = "in"
  <2>1. CASE c = peer[s]
    <3>1. c # NoConn /\ join'[c] = "in" /\ wire'[c] = "closed"
      BY <1>1, <2>1, MediaConstants
    <3> QED
      BY <3>1
  <2>2. CASE c # peer[s]
    BY <1>1, <2>2 DEF SeatInv
  <2> QED
    BY <2>1, <2>2
<1> QED
  BY <1>2, <1>3, <1>4 DEF SeatInv

\* Whatever becomes of a renegotiation: an offer of those tracks, a note to make one, or
\* an error that is kept in mind.
LEMMA ReofferIs ==
  ASSUME NEW n \in Neg, NEW tracks \in SUBSET Conn, NEW m \in Reoffer(n, tracks)
  PROVE  /\ m \in Neg
         /\ m.state = "stable" => m.lost
         /\ m.state = "offered" => m.offer = tracks \/ m.pending
<1>1. CASE n.state # "stable"
  BY <1>1 DEF Reoffer, Neg
<1>2. CASE n.state = "stable"
  <2>1. \/ m = [n EXCEPT !.state = "offered", !.pending = FALSE, !.offer = tracks, !.lost = FALSE]
        \/ m = [n EXCEPT !.pending = FALSE, !.lost = TRUE]
    BY <1>2 DEF Reoffer
  <2>2. CASE m = [n EXCEPT !.state = "offered", !.pending = FALSE, !.offer = tracks, !.lost = FALSE]
    BY <2>2 DEF Neg
  <2>3. CASE m = [n EXCEPT !.pending = FALSE, !.lost = TRUE]
    <3>1. m \in Neg /\ m.state = n.state
      BY <2>3 DEF Neg
    <3>2. m.lost
      BY <2>3 DEF Neg
    <3> QED
      BY <1>2, <3>1, <3>2
  <2> QED
    BY <2>1, <2>2, <2>3
<1> QED
  BY <1>1, <1>2

LEMMA ReceivedType ==
  ASSUME MediaTypeOK, NEW c \in Conn, NEW ss \in SUBSET Stream
  PROVE  Received(c, ss) \subseteq Conn
BY DEF MediaTypeOK, Received

LEMMA AddType ==
  ASSUME MediaTypeOK, NEW o \in Conn, NEW a \in Conn, Add(o, a)
  PROVE  /\ sending' \in [Conn -> [Stream -> Conn \cup {NoConn}]]
         /\ stray' \in [Conn -> SUBSET Conn]
<1>1. streamOf[a] \in Stream
  BY MediaTypes
<1>2. sending[o] \in [Stream -> Conn \cup {NoConn}] /\ sending[o][streamOf[a]] \in Conn \cup {NoConn}
  BY <1>1 DEF MediaTypeOK
<1>3. [sending[o] EXCEPT ![streamOf[a]] = a] \in [Stream -> Conn \cup {NoConn}]
  BY <1>1, <1>2
<1>4. sending' = [sending EXCEPT ![o] = [sending[o] EXCEPT ![streamOf[a]] = a]]
  BY DEF Add, MediaTypeOK
<1>5. sending' \in [Conn -> [Stream -> Conn \cup {NoConn}]]
  BY <1>3, <1>4 DEF MediaTypeOK
<1>6. stray' \in [Conn -> SUBSET Conn]
  BY <1>2 DEF Add, Already, MediaTypeOK
<1> QED
  BY <1>5, <1>6

LEMMA NegWith ==
  ASSUME NEW n \in Neg, NEW on \in BOOLEAN
  PROVE  /\ [n EXCEPT !.state = "stable", !.pending = FALSE, !.told = n.offer] \in Neg
         /\ [n EXCEPT !.pending = FALSE, !.lost = on] \in Neg
         /\ [n EXCEPT !.state = "stable", !.pending = FALSE, !.lost = on] \in Neg
BY DEF Neg

\* An answer that fails leaves the offer as it was, and keeps in mind what was put off;
\* or the exchange is over, and that it failed is kept in mind.
LEMMA BadAnswerIs ==
  ASSUME MediaTypeOK, NEW c \in Conn, BadAnswer(c)
  PROVE  \E n \in Neg :
           /\ neg' = [neg EXCEPT ![c] = n]
           /\ neg[c].state = "offered"
           /\ n.state = "stable" => n.lost
           /\ n.state = "offered" => n.offer = neg[c].offer /\ (neg[c].pending \/ neg[c].lost => n.lost)
<1> DEFINE on == neg[c].lost \/ neg[c].pending
           kept == [neg[c] EXCEPT !.pending = FALSE, !.lost = on]
           over == [neg[c] EXCEPT !.state = "stable", !.pending = FALSE, !.lost = TRUE]
<1>1. neg \in [Conn -> Neg] /\ neg[c] \in Neg
  BY MediaTypes
<1>2. neg[c].state = "offered" /\ (neg' = [neg EXCEPT ![c] = kept] \/ neg' = [neg EXCEPT ![c] = over])
  BY <1>1 DEF BadAnswer, Neg
<1>3. on \in BOOLEAN
  BY <1>1 DEF Neg
<1>4. neg[c].pending \/ neg[c].lost => on
  OBVIOUS
<1> HIDE DEF on
<1>5. kept \in Neg /\ kept.offer = neg[c].offer /\ kept.state = neg[c].state /\ kept.lost = on
  BY <1>1, <1>3, NegWith DEF Neg
<1>6. over \in Neg /\ over.lost /\ over.state = "stable"
  BY <1>1, NegWith DEF Neg
<1>7. neg[c].pending \/ neg[c].lost => kept.lost
  BY <1>4, <1>5, Zenon
<1> HIDE DEF kept, over
<1> QED
  BY <1>2, <1>5, <1>6, <1>7

LEMMA ChoreWith ==
  ASSUME NEW r \in Chore, NEW ds \in SUBSET Conn, NEW x \in Conn \cup {NoConn}, NEW on \in BOOLEAN
  PROVE  /\ Idle \in Chore /\ [r EXCEPT !.todo = ds] \in Chore
         /\ [r EXCEPT !.checked = x] \in Chore
         /\ [r EXCEPT !.todo = ds, !.checked = x] \in Chore
         /\ [r EXCEPT !.checked = x, !.added = on] \in Chore
BY DEF Chore, Idle

\* What each of them writes, as one record for one connection.
LEMMA Checking ==
  ASSUME MediaTypeOK, NEW c \in Conn, NEW a \in Conn
  PROVE  /\ AttachChecks(c, a) =>
              attach' = [attach EXCEPT ![c] =
                [attach[c] EXCEPT !.todo = @ \ {a}, !.checked = IF Already(c, a) THEN NoConn ELSE a]]
         /\ ShareChecks(c, a) =>
              share' = [share EXCEPT ![c] =
                [share[c] EXCEPT !.todo = @ \ {a}, !.checked = IF Already(a, c) THEN NoConn ELSE a]]
BY MediaTypes DEF AttachChecks, ShareChecks, Chore

LEMMA Adding ==
  ASSUME MediaTypeOK, NEW c \in Conn
  PROVE  /\ AttachAdds(c) =>
              attach' = [attach EXCEPT ![c] =
                [attach[c] EXCEPT !.checked = NoConn, !.added = (@ \/ wire[c] # "closed")]]
         /\ ShareAdds(c) => share' = [share EXCEPT ![c] = [share[c] EXCEPT !.checked = NoConn]]
BY MediaTypes DEF AttachAdds, ShareAdds, Chore

\* Who a track is added to or looked up for changes nobody's seat.
LEMMA TrackTypes ==
  ASSUME MediaTypeOK, SeatInv, NEW c \in Conn,
         \/ AttachAdds(c) \/ AttachOffers(c) \/ ShareAdds(c) \/ Answer(c) \/ BadAnswer(c)
         \/ \E a \in Conn : AttachChecks(c, a) \/ ShareChecks(c, a)
  PROVE  MediaTypeOK' /\ SeatInv'
<1> USE DEF peers, joins, lines, chores, doors
<1>1. /\ UNCHANGED <<peers, joins, wire, mic, leave, reap, doors>>
      /\ SeatInv'
  <2>1. UNCHANGED <<peers, joins, wire, mic, leave, reap, doors>>
    BY DEF AttachAdds, AttachOffers, ShareAdds, Answer, BadAnswer, AttachChecks, ShareChecks
  <2> QED
    BY <2>1 DEF SeatInv
<1>2. ASSUME sending' \in [Conn -> [Stream -> Conn \cup {NoConn}]], stray' \in [Conn -> SUBSET Conn],
             neg' \in [Conn -> Neg], attach' \in [Conn -> Chore], share' \in [Conn -> Chore]
      PROVE  MediaTypeOK' /\ SeatInv'
  BY <1>1, <1>2 DEF MediaTypeOK, Neg, Chore
<1>3. /\ sending \in [Conn -> [Stream -> Conn \cup {NoConn}]] /\ stray \in [Conn -> SUBSET Conn]
      /\ neg \in [Conn -> Neg] /\ attach \in [Conn -> Chore] /\ share \in [Conn -> Chore]
      /\ Stream \in SUBSET Stream
  BY MediaTypes DEF MediaTypeOK
<1>4. CASE AttachAdds(c)
  <2>1. attach' \in [Conn -> Chore]
    <3> DEFINE on == attach[c].added \/ wire[c] # "closed"
               r == [attach[c] EXCEPT !.checked = NoConn, !.added = on]
    <3>1. attach' = [attach EXCEPT ![c] = r]
      BY <1>4, Adding
    <3>2. on \in BOOLEAN /\ attach[c] \in Chore
      BY <1>3
    <3>3. r \in Chore
      <4> HIDE DEF on
      <4> QED
        BY <3>2, ChoreWith
    <3> HIDE DEF r
    <3> QED
      BY <1>3, <3>1, <3>3
  <2>2. /\ sending' \in [Conn -> [Stream -> Conn \cup {NoConn}]]
        /\ stray' \in [Conn -> SUBSET Conn]
    <3>1. attach[c].checked \in Conn
      BY <1>3, <1>4 DEF AttachAdds, Chore
    <3> QED
      BY <1>3, <1>4, <3>1, AddType DEF AttachAdds
  <2>3. UNCHANGED <<neg, share>>
    BY <1>4 DEF AttachAdds
  <2> QED
    BY <1>2, <1>3, <2>1, <2>2, <2>3
<1>5. CASE AttachOffers(c)
  <2>1. attach' \in [Conn -> Chore] /\ UNCHANGED <<sending, stray, share>>
    BY <1>3, <1>5, ChoreWith DEF AttachOffers
  <2>2. \A n \in Reoffer(neg[c], Received(c, Stream)) : n \in Neg
    BY <1>3, ReceivedType, ReofferIs
  <2>3. neg' = neg \/ \E n \in Reoffer(neg[c], Received(c, Stream)) : neg' = [neg EXCEPT ![c] = n]
    BY <1>5 DEF AttachOffers
  <2>4. neg' \in [Conn -> Neg]
    BY <1>3, <2>2, <2>3
  <2> QED
    BY <1>2, <1>3, <2>1, <2>4
<1>6. CASE ShareAdds(c)
  <2> DEFINE o == share[c].checked
  <2>1. o \in Conn
    BY <1>3, <1>6 DEF ShareAdds, Chore
  <2>2. share' \in [Conn -> Chore] /\ UNCHANGED attach
    <3>1. share' = [share EXCEPT ![c] = [share[c] EXCEPT !.checked = NoConn]] /\ UNCHANGED attach
      BY <1>6, Adding DEF ShareAdds
    <3>2. [share[c] EXCEPT !.checked = NoConn] \in Chore
      BY <1>3, ChoreWith
    <3> QED
      BY <1>3, <3>1, <3>2
  <2>3. \A n \in Reoffer(neg[o], Received(o, Stream) \cup {c}) : n \in Neg
    <3>1. neg[o] \in Neg /\ Received(o, Stream) \cup {c} \in SUBSET Conn
      BY <1>3, <2>1, ReceivedType
    <3> QED
      BY <3>1, ReofferIs
  <2>4. neg' \in [Conn -> Neg]
    <3>1. \/ neg' = neg
          \/ \E n \in Reoffer(neg[o], Received(o, Stream) \cup {c}) : neg' = [neg EXCEPT ![o] = n]
      BY <1>6 DEF ShareAdds
    <3> HIDE DEF o
    <3> QED
      BY <1>3, <2>3, <3>1
  <2>5. /\ sending' \in [Conn -> [Stream -> Conn \cup {NoConn}]]
        /\ stray' \in [Conn -> SUBSET Conn]
    BY <1>3, <1>6, <2>1, AddType DEF ShareAdds
  <2> QED
    BY <1>2, <1>3, <2>2, <2>4, <2>5
<1>7. CASE Answer(c)
  <2> DEFINE over == [neg[c] EXCEPT !.state = "stable", !.pending = FALSE, !.told = neg[c].offer]
  <2>1. over \in Neg
    BY <1>3, NegWith
  <2>2. PICK n : /\ n \in IF neg[c].pending THEN Reoffer(over, Received(c, Stream)) ELSE {over}
                 /\ neg' = [neg EXCEPT ![c] = n]
    BY <1>7 DEF Answer
  <2>4. UNCHANGED <<sending, stray, attach, share>>
    BY <1>7 DEF Answer
  <2> HIDE DEF over
  <2>3. n \in Neg
    <3>1. CASE neg[c].pending
      BY <1>3, <2>1, <2>2, <3>1, ReceivedType, ReofferIs
    <3>2. CASE ~ neg[c].pending
      BY <2>1, <2>2, <3>2
    <3> QED
      BY <3>1, <3>2
  <2>5. neg' \in [Conn -> Neg]
    BY <1>3, <2>2, <2>3
  <2> QED
    BY <1>2, <1>3, <2>4, <2>5
<1>8. CASE BadAnswer(c)
  <2>1. PICK n \in Neg : neg' = [neg EXCEPT ![c] = n]
    BY <1>8, BadAnswerIs
  <2>2. neg' \in [Conn -> Neg]
    BY <1>3, <2>1
  <2>3. UNCHANGED <<sending, stray, attach, share>>
    BY <1>8 DEF BadAnswer
  <2> QED
    BY <1>2, <1>3, <2>2, <2>3
<1>9. ASSUME NEW a \in Conn, AttachChecks(c, a) PROVE MediaTypeOK' /\ SeatInv'
  <2> DEFINE x == IF Already(c, a) THEN NoConn ELSE a
             r == [attach[c] EXCEPT !.todo = @ \ {a}, !.checked = x]
  <2>1. attach' = [attach EXCEPT ![c] = r]
    BY <1>9, Checking
  <2>2. attach[c] \in Chore /\ attach[c].todo \ {a} \in SUBSET Conn /\ x \in Conn \cup {NoConn}
    BY <1>3 DEF Chore
  <2> HIDE DEF x
  <2>3. r \in Chore
    BY <2>2, ChoreWith
  <2> HIDE DEF r
  <2>4. attach' \in [Conn -> Chore]
    BY <1>3, <2>1, <2>3
  <2>5. UNCHANGED <<sending, stray, neg, share>>
    BY <1>9 DEF AttachChecks
  <2> QED
    BY <1>2, <1>3, <2>4, <2>5
<1>10. ASSUME NEW a \in Conn, ShareChecks(c, a) PROVE MediaTypeOK' /\ SeatInv'
  <2> DEFINE x == IF Already(a, c) THEN NoConn ELSE a
             r == [share[c] EXCEPT !.todo = @ \ {a}, !.checked = x]
  <2>1. share' = [share EXCEPT ![c] = r]
    BY <1>10, Checking
  <2>2. share[c] \in Chore /\ share[c].todo \ {a} \in SUBSET Conn /\ x \in Conn \cup {NoConn}
    BY <1>3 DEF Chore
  <2> HIDE DEF x
  <2>3. r \in Chore
    BY <2>2, ChoreWith
  <2> HIDE DEF r
  <2>4. share' \in [Conn -> Chore]
    BY <1>3, <2>1, <2>3
  <2>5. UNCHANGED <<sending, stray, neg, attach>>
    BY <1>10 DEF ShareChecks
  <2> QED
    BY <1>2, <1>3, <2>4, <2>5
<1> QED
  BY <1>1, <1>4, <1>5, <1>6, <1>7, <1>8, <1>9, <1>10

LEMMA JoinTypes ==
  ASSUME MediaTypeOK, SeatInv, NEW c \in Conn, Joining(c)
  PROVE  MediaTypeOK' /\ SeatInv'
<1> USE DEF peers, joins, lines, chores, doors
<1>1. \A x \in Stream : peer[x] # NoConn => peer[x] \in Conn /\ join[peer[x]] = "in"
  BY DEF SeatInv, MediaTypeOK
<1>2. CASE MediaOffer(c)
  <2>1. join'[c] = "admitted" /\ join[c] = "idle" /\ \A d \in Conn : d # c => join'[d] = join[d]
    BY <1>2 DEF MediaOffer, MediaTypeOK
  <2>2. MediaTypeOK'
    BY <1>2 DEF MediaOffer, MediaTypeOK
  <2> QED
    BY <1>1, <1>2, <2>1, <2>2 DEF MediaOffer, SeatInv
<1>3. CASE Enter(c)
  <2>1. /\ join'[c] \in {"replacing", "refused", "gathering"} /\ join[c] = "admitted"
        /\ \A d \in Conn : d # c => join'[d] = join[d]
    BY <1>3 DEF Enter, MediaTypeOK
  <2>2. MediaTypeOK'
    BY <1>3 DEF Enter, MediaTypeOK
  <2> QED
    BY <1>1, <1>3, <2>1, <2>2 DEF Enter, SeatInv
<1>4. CASE Replace(c)
  <2>1. /\ Depart(streamOf[c], reap) /\ streamOf[c] \in Stream /\ reap \in SUBSET Conn
        /\ UNCHANGED <<broken, mic, sending, stray, neg, attach, share, doors>>
    BY <1>4, MediaTypes DEF Replace, MediaTypeOK
  <2>2. /\ join' = [join EXCEPT ![c] = "remaking"] /\ join[c] = "replacing"
        /\ old' \in [Conn -> Conn \cup {NoConn}]
    BY <1>4, MediaTypes DEF Replace, MediaTypeOK
  <2>3. /\ join' \in [Conn -> {"idle", "admitted", "replacing", "remaking", "gathering", "in",
                               "refused"}]
        /\ \A d \in Conn : join'[d] # join[d] => join[d] = "replacing" /\ join'[d] = "remaking"
    BY <2>2 DEF MediaTypeOK
  <2>4. live' \subseteq Stream /\ open' \in BOOLEAN /\ sweep' \subseteq Stream
    BY <2>1 DEF MediaTypeOK
  <2> QED
    BY <2>1, <2>2, <2>3, <2>4, DepartSeats
<1>5. CASE Remake(c)
  <2>1. /\ join'[c] = "gathering" /\ join[c] = "remaking"
        /\ \A d \in Conn : d # c => join'[d] = join[d]
    BY <1>5 DEF Remake, MediaTypeOK
  <2>2. MediaTypeOK'
    BY <1>5 DEF Remake, MediaTypeOK
  <2> QED
    BY <1>1, <1>5, <2>1, <2>2 DEF Remake, SeatInv
<1>6. CASE Register(c)
  <2>1. join' = [join EXCEPT ![c] = "in"] /\ join[c] = "gathering"
        /\ UNCHANGED <<streamOf, made, old, lines, chores, doors>>
    BY <1>6 DEF Register
  <2>2. wire[c] = "new" /\ leave[c] = {}
    BY <2>1 DEF SeatInv
  <2>3. /\ join'[c] = "in" /\ join[c] = "gathering" /\ wire[c] = "new" /\ leave[c] = {}
        /\ \A d \in Conn : d # c => join'[d] = join[d]
        /\ UNCHANGED <<streamOf, made, old, lines, chores, doors>>
    BY <2>1, <2>2 DEF MediaTypeOK
  <2>4. \/ UNCHANGED peer
        \/ made /\ peer' = [peer EXCEPT ![streamOf[c]] = c]
    BY <1>6 DEF Register
  <2>5. \A x \in Stream : peer'[x] = peer[x] \/ (peer'[x] = c /\ streamOf[c] = x)
    BY <2>4, MediaTypes DEF MediaTypeOK
  <2>6. MediaTypeOK'
    <3>1. broken' \in BOOLEAN /\ join' \in [Conn -> {"idle", "admitted", "replacing", "remaking",
                                                   "gathering", "in", "refused"}]
      BY <1>6 DEF Register, MediaTypeOK
    <3>2. peer' \in [Stream -> Conn \cup {NoConn}]
      BY <2>4 DEF MediaTypeOK
    <3> QED
      BY <2>3, <2>4, <3>1, <3>2 DEF MediaTypeOK
  <2> QED
    BY <1>1, <2>3, <2>5, <2>6 DEF SeatInv
<1>7. CASE JoinFails(c)
  <2>1. /\ join'[c] = "refused" /\ join[c] = "gathering" /\ leave[c] = {} /\ ~ mic[c]
        /\ wire'[c] = "closed"
        /\ \A d \in Conn : d # c => join'[d] = join[d] /\ wire'[d] = wire[d]
        /\ UNCHANGED <<peers, old, mic, sending, stray, neg, attach, share, leave, doors>>
    BY <1>7 DEF JoinFails, MediaTypeOK, SeatInv
  <2>2. MediaTypeOK'
    BY <1>7 DEF JoinFails, MediaTypeOK
  <2> QED
    BY <1>1, <2>1, <2>2 DEF SeatInv
<1> QED
  BY <1>2, <1>3, <1>4, <1>5, <1>6, <1>7 DEF Joining

LEMMA OtherTypes ==
  ASSUME MediaTypeOK, SeatInv,
         \/ \E c \in Conn : \/ Connected(c) \/ OnTrack(c) \/ Reap(c) \/ Lost(c)
                            \/ \E a \in Conn : LeaveTells(c, a)
         \/ \E s \in Stream : StreamEnds(s)
         \/ Closing
  PROVE  MediaTypeOK' /\ SeatInv'
<1> USE DEF peers, joins, lines, chores, doors
<1>1. ASSUME NEW c \in Conn, Connected(c) PROVE MediaTypeOK' /\ SeatInv'
  <2> DEFINE found == {a \in Registered : streamOf[a] # streamOf[c] /\ mic[a]}
             r == [attach[c] EXCEPT !.todo = found]
  <2>1. attach' = [attach EXCEPT ![c] = r] /\ attach[c] \in Chore /\ found \in SUBSET Conn
    BY <1>1, MediaTypes DEF Connected
  <2>2. r \in Chore
    BY <2>1, ChoreWith
  <2> HIDE DEF r, found
  <2>3. attach' \in [Conn -> Chore]
    BY <2>1, <2>2, MediaTypes
  <2>4. /\ wire'[c] = "up" /\ join[c] = "in" /\ wire' \in [Conn -> {"new", "up", "closed"}]
        /\ \A d \in Conn : d # c => wire'[d] = wire[d]
        /\ UNCHANGED <<peers, joins, mic, sending, stray, neg, share, leave, reap, doors>>
    BY <1>1 DEF Connected, MediaTypeOK
  <2>5. MediaTypeOK'
    BY <2>3, <2>4 DEF MediaTypeOK, Chore
  <2> QED
    BY <2>4, <2>5 DEF SeatInv, MediaTypeOK
<1>2. ASSUME NEW c \in Conn, OnTrack(c) PROVE MediaTypeOK' /\ SeatInv'
  <2> DEFINE found == {o \in Registered : streamOf[o] # streamOf[c]}
             r == [share[c] EXCEPT !.todo = found]
  <2>1. share' = [share EXCEPT ![c] = r] /\ share[c] \in Chore /\ found \in SUBSET Conn
    BY <1>2, MediaTypes DEF OnTrack
  <2>2. r \in Chore
    BY <2>1, ChoreWith
  <2> HIDE DEF r, found
  <2>3. share' \in [Conn -> Chore]
    BY <2>1, <2>2, MediaTypes
  <2>4. /\ wire[c] = "up" /\ mic' \in [Conn -> BOOLEAN]
        /\ \A d \in Conn : d # c => (mic'[d] <=> mic[d])
        /\ UNCHANGED <<peers, joins, wire, sending, stray, neg, attach, leave, reap, doors>>
    BY <1>2 DEF OnTrack, MediaTypeOK
  <2>5. MediaTypeOK'
    BY <2>3, <2>4 DEF MediaTypeOK, Chore
  <2> QED
    BY <2>4, <2>5 DEF SeatInv
<1>3. ASSUME NEW c \in Conn, Lost(c) PROVE MediaTypeOK' /\ SeatInv'
  BY <1>3 DEF Lost, MediaTypeOK, SeatInv
<1>4. ASSUME NEW c \in Conn, NEW o \in Conn, LeaveTells(c, o) PROVE MediaTypeOK' /\ SeatInv'
  <2> DEFINE t == streamOf[c]
             ns == Reoffer(neg[o], Received(o, Stream \ {t}))
  <2>1. /\ leave' = [leave EXCEPT ![c] = @ \ {o}] /\ sending' = [sending EXCEPT ![o][t] = NoConn]
        /\ neg' = neg \/ \E n \in ns : neg' = [neg EXCEPT ![o] = n]
        /\ UNCHANGED <<peers, joins, wire, mic, stray, attach, share, reap, doors>>
    BY <1>4, MediaTypes DEF LeaveTells
  <2>2. t \in Stream /\ \A n \in ns : n \in Neg
    BY MediaTypes, ReceivedType, ReofferIs
  <2> HIDE DEF ns, t
  <2>3. leave' \in [Conn -> SUBSET Conn] /\ \A d \in Conn : leave'[d] \subseteq leave[d]
    BY <2>1 DEF MediaTypeOK
  <2>4. sending' \in [Conn -> [Stream -> Conn \cup {NoConn}]]
    <3>1. [sending[o] EXCEPT ![t] = NoConn] \in [Stream -> Conn \cup {NoConn}]
      BY <2>2 DEF MediaTypeOK
    <3> QED
      BY <2>1, <3>1 DEF MediaTypeOK
  <2>5. neg' \in [Conn -> Neg]
    BY <2>1, <2>2, MediaTypes
  <2>6. MediaTypeOK'
    BY <2>1, <2>3, <2>4, <2>5 DEF MediaTypeOK, Neg
  <2>7. \A x \in Stream : peer[x] # NoConn => peer[x] \in Conn
    BY DEF MediaTypeOK
  <2> QED
    BY <2>1, <2>3, <2>6, <2>7 DEF SeatInv
<1>5. CASE CloseRoom
  <2>1. Streams(Registered) \subseteq Stream
    BY MediaTypes DEF Streams
  <2>2. MediaTypeOK'
    BY <1>5, <2>1 DEF CloseRoom, MediaTypeOK
  <2> QED
    BY <1>5, <2>2 DEF CloseRoom, SeatInv
<1>6. ASSUME NEW s \in Stream, NEW due \in SUBSET Conn, Depart(s, due),
             UNCHANGED <<broken, joins, mic, sending, stray, neg, attach, share>>,
             live' \subseteq Stream, open' \in BOOLEAN, sweep' \subseteq Stream
      PROVE  MediaTypeOK' /\ SeatInv'
  <2>1. /\ join' \in [Conn -> {"idle", "admitted", "replacing", "remaking", "gathering", "in",
                               "refused"}]
        /\ \A c \in Conn : join'[c] = join[c] /\ old' \in [Conn -> Conn \cup {NoConn}]
    BY <1>6 DEF MediaTypeOK
  <2> QED
    BY <1>6, <2>1, DepartSeats DEF MediaTypeOK
<1>7. ASSUME NEW c \in Conn, Reap(c) PROVE MediaTypeOK' /\ SeatInv'
  <2>1. streamOf[c] \in Stream /\ reap \ {c} \in SUBSET Conn
    BY MediaTypes DEF MediaTypeOK
  <2> QED
    BY <1>6, <1>7, <2>1 DEF Reap, MediaTypeOK
<1>8. ASSUME NEW s \in Stream, StreamEnds(s) \/ SweepLeaves(s) PROVE MediaTypeOK' /\ SeatInv'
  <2>1. reap \in SUBSET Conn
    BY DEF MediaTypeOK
  <2> QED
    BY <1>6, <1>8, <2>1 DEF StreamEnds, SweepLeaves, MediaTypeOK
<1> QED
  BY <1>1, <1>2, <1>3, <1>4, <1>5, <1>7, <1>8 DEF Closing

LEMMA SeatsStep ==
  ASSUME MediaTypeOK, SeatInv, [MediaNext]_mediaVars
  PROVE  MediaTypeOK' /\ SeatInv'
<1>1. CASE UNCHANGED mediaVars
  BY <1>1 DEF mediaVars, peers, joins, lines, chores, doors, MediaTypeOK, SeatInv
<1>2. ASSUME NEW c \in Conn, Onward(c) \/ Browsing(c) PROVE MediaTypeOK' /\ SeatInv'
  BY <1>2, TrackTypes, OtherTypes DEF Onward, Browsing
<1> QED
  BY <1>1, <1>2, JoinTypes, OtherTypes DEF MediaNext

\* Every variable of the media plane keeps its type, an entry that is gone has nobody in
\* it, and whoever is registered sits in the seat of its own stream.
THEOREM MediaTypeCorrect == MediaSpec => [](MediaTypeOK /\ SeatInv)
<1>1. MediaInit => MediaTypeOK /\ SeatInv
  <2> SUFFICES ASSUME MediaInit PROVE MediaTypeOK /\ SeatInv
    OBVIOUS
  <2>1. SeatInv
    BY DEF MediaInit, SeatInv
  <2>2. /\ Idle \in Chore
        /\ [state |-> "stable", pending |-> FALSE, offer |-> {}, told |-> {}, lost |-> FALSE] \in Neg
    BY DEF Idle, Chore, Neg
  <2>3. neg \in [Conn -> Neg] /\ attach \in [Conn -> Chore] /\ share \in [Conn -> Chore]
    BY <2>2 DEF MediaInit
  <2>4. /\ sending \in [Conn -> [Stream -> Conn \cup {NoConn}]] /\ stray \in [Conn -> SUBSET Conn]
        /\ leave \in [Conn -> SUBSET Conn] /\ peer \in [Stream -> Conn \cup {NoConn}]
        /\ wire \in [Conn -> {"new", "up", "closed"}] /\ mic \in [Conn -> BOOLEAN]
    BY DEF MediaInit
  <2>5. /\ join \in [Conn -> {"idle", "admitted", "replacing", "remaking", "gathering", "in",
                              "refused"}]
        /\ old \in [Conn -> Conn \cup {NoConn}]
    BY DEF MediaInit
  <2>6. /\ streamOf \in Wirings /\ made \in BOOLEAN /\ broken \in BOOLEAN /\ open \in BOOLEAN
        /\ reap \subseteq Conn /\ live \subseteq Stream /\ sweep \subseteq Stream
        /\ \A s \in Stream : peer[s] = NoConn
    BY DEF MediaInit
  <2>7. MediaTypeOK
    BY <2>3, <2>4, <2>5, <2>6 DEF MediaTypeOK, Neg, Chore
  <2> QED
    BY <2>1, <2>7
<1>2. MediaTypeOK /\ SeatInv /\ [MediaNext]_mediaVars => MediaTypeOK' /\ SeatInv'
  BY SeatsStep
<1> QED
  BY <1>1, <1>2, PTL DEF MediaSpec

-----------------------------------------------------------------------------
(* What a browser is told                                                   *)

\* What a peer was told last, or is being offered, is what it is sent; unless an offer
\* is still to be made, once the exchange under way is over, or an error came instead.
Announced(c) ==
  /\ neg[c].state = "stable" => neg[c].told = Received(c, Stream) \/ neg[c].lost
  /\ neg[c].state = "offered" =>
       neg[c].offer = Received(c, Stream) \/ neg[c].pending \/ neg[c].lost

\* It is so of every peer but one attachExisting is not through with.
OfferInv == \A c \in Conn : wire[c] # "closed" /\ ~ attach[c].added => Announced(c)

\* A step that changes neither what anybody is sent nor what was agreed about it.
LEMMA OffersStay ==
  ASSUME OfferInv, UNCHANGED <<sending, stray, neg>>,
         \A c \in Conn : wire'[c] # "closed" => wire[c] # "closed",
         \A c \in Conn : attach[c].added => attach'[c].added
  PROVE  OfferInv'
BY DEF OfferInv, Announced, Received

\* A step that changes them for one peer.
LEMMA OffersFor ==
  ASSUME OfferInv, NEW o \in Conn, UNCHANGED wire,
         \A c \in Conn : c # o => /\ sending'[c] = sending[c] /\ stray'[c] = stray[c]
                                  /\ neg'[c] = neg[c] /\ attach'[c] = attach[c],
         wire[o] # "closed" /\ ~ attach'[o].added => Announced(o)'
  PROVE  OfferInv'
<1> SUFFICES ASSUME NEW c \in Conn, wire'[c] # "closed", ~ attach'[c].added
             PROVE  Announced(c)'
  BY DEF OfferInv
<1>1. CASE c = o
  BY <1>1
<1>2. CASE c # o
  <2>1. Received(c, Stream)' = Received(c, Stream)
    BY <1>2 DEF Received
  <2> QED
    BY <1>2, <2>1 DEF OfferInv, Announced
<1> QED
  BY <1>1, <1>2

LEMMA AddIs ==
  ASSUME MediaTypeOK, NEW o \in Conn, NEW a \in Conn, Add(o, a)
  PROVE  /\ \A x \in Stream : sending'[o][x] = IF x = streamOf[a] THEN a ELSE sending[o][x]
         /\ Received(o, Stream)' = Received(o, Stream) \cup {a}
         /\ \A c \in Conn : c # o => sending'[c] = sending[c] /\ stray'[c] = stray[c]
<1> DEFINE t == streamOf[a]
           q == sending[o]
<1>1. t \in Stream /\ q \in [Stream -> Conn \cup {NoConn}] /\ a # NoConn
  BY MediaTypes, MediaConstants DEF MediaTypeOK
<1>2. sending'[o] = [q EXCEPT ![t] = a] /\ \A c \in Conn : c # o => sending'[c] = sending[c]
  BY DEF Add, MediaTypeOK
<1>3. /\ stray'[o] = IF q[t] # NoConn THEN stray[o] \cup {q[t]} ELSE stray[o]
      /\ \A c \in Conn : c # o => stray'[c] = stray[c]
  BY DEF Add, Already, MediaTypeOK
<1>4. Received(o, Stream)' = ({sending'[o][x] : x \in Stream} \ {NoConn}) \cup stray'[o]
  BY DEF Received
<1> HIDE DEF t
<1>5. \A x \in Stream : sending'[o][x] = IF x = t THEN a ELSE q[x]
  BY <1>1, <1>2
<1>6. {sending'[o][x] : x \in Stream} = {q[x] : x \in Stream \ {t}} \cup {a}
  BY <1>1, <1>5
<1>7. {q[x] : x \in Stream} = {q[x] : x \in Stream \ {t}} \cup {q[t]}
  BY <1>1
<1>8. Received(o, Stream)' = Received(o, Stream) \cup {a}
  BY <1>1, <1>3, <1>4, <1>6, <1>7 DEF Received
<1> QED
  BY <1>2, <1>3, <1>5, <1>8 DEF t

\* Once a source has left, a peer is sent what it is sent from the others.
LEMMA LeaveReceived ==
  ASSUME MediaTypeOK, NEW c \in Conn, NEW o \in Conn, LeaveTells(c, o)
  PROVE  /\ \A x \in Stream : sending'[o][x] = IF x = streamOf[c] THEN NoConn ELSE sending[o][x]
         /\ Received(o, Stream)' = Received(o, Stream \ {streamOf[c]})
         /\ \A d \in Conn : d # o => sending'[d] = sending[d]
<1> DEFINE t == streamOf[c]
           q == sending[o]
<1>1. t \in Stream /\ q \in [Stream -> Conn \cup {NoConn}]
  BY MediaTypes DEF MediaTypeOK
<1>2. sending' = [sending EXCEPT ![o][t] = NoConn] /\ UNCHANGED stray
  BY DEF LeaveTells
<1>3. sending'[o] = [q EXCEPT ![t] = NoConn] /\ \A d \in Conn : d # o => sending'[d] = sending[d]
  BY <1>2 DEF MediaTypeOK
<1> HIDE DEF t
<1>4. \A x \in Stream : sending'[o][x] = IF x = t THEN NoConn ELSE q[x]
  BY <1>1, <1>3
<1>5. {sending'[o][x] : x \in Stream} = {q[x] : x \in Stream \ {t}} \cup {NoConn}
  BY <1>1, <1>4
<1>6. Received(o, Stream)' = ({sending'[o][x] : x \in Stream} \ {NoConn}) \cup stray[o]
  BY <1>2 DEF Received
<1> QED
  BY <1>3, <1>4, <1>5, <1>6 DEF Received, t

\* What the steps of attachExisting and onTrack leave in their lists.
LEMMA AttachCheckLeaves ==
  ASSUME MediaTypeOK, NEW c \in Conn, NEW a \in Conn, AttachChecks(c, a)
  PROVE  /\ \A d \in Conn : d # c => attach'[d] = attach[d]
         /\ attach'[c].todo = attach[c].todo \ {a}
         /\ attach'[c].checked = IF Already(c, a) THEN NoConn ELSE a
         /\ attach'[c].added = attach[c].added
<1> DEFINE x == IF Already(c, a) THEN NoConn ELSE a
           r == [attach[c] EXCEPT !.todo = @ \ {a}, !.checked = x]
<1>1. attach' = [attach EXCEPT ![c] = r] /\ attach \in [Conn -> Chore]
  BY Checking, MediaTypes
<1> HIDE DEF x
<1>2. /\ r.todo = attach[c].todo \ {a} /\ r.checked = x
      /\ r.added = attach[c].added
  BY <1>1 DEF Chore
<1> HIDE DEF r
<1>3. attach'[c] = r /\ \A d \in Conn : d # c => attach'[d] = attach[d]
  BY <1>1
<1> QED
  BY <1>2, <1>3 DEF x

LEMMA ShareCheckLeaves ==
  ASSUME MediaTypeOK, NEW c \in Conn, NEW a \in Conn, ShareChecks(c, a)
  PROVE  /\ \A d \in Conn : d # c => share'[d] = share[d]
         /\ share'[c].todo = share[c].todo \ {a}
         /\ share'[c].checked = IF Already(a, c) THEN NoConn ELSE a
         /\ share'[c].added = share[c].added
<1> DEFINE x == IF Already(a, c) THEN NoConn ELSE a
           r == [share[c] EXCEPT !.todo = @ \ {a}, !.checked = x]
<1>1. share' = [share EXCEPT ![c] = r] /\ share \in [Conn -> Chore]
  BY Checking, MediaTypes
<1> HIDE DEF x
<1>2. /\ r.todo = share[c].todo \ {a} /\ r.checked = x
      /\ r.added = share[c].added
  BY <1>1 DEF Chore
<1> HIDE DEF r
<1>3. share'[c] = r /\ \A d \in Conn : d # c => share'[d] = share[d]
  BY <1>1
<1> QED
  BY <1>2, <1>3 DEF x

LEMMA AddsLeave ==
  ASSUME MediaTypeOK, NEW c \in Conn
  PROVE  /\ AttachAdds(c) =>
              /\ \A d \in Conn : d # c => attach'[d] = attach[d]
              /\ attach'[c].todo = attach[c].todo /\ attach'[c].checked = NoConn
              /\ wire[c] # "closed" => attach'[c].added
         /\ ShareAdds(c) =>
              /\ \A d \in Conn : d # c => share'[d] = share[d]
              /\ share'[c].todo = share[c].todo /\ share'[c].checked = NoConn
<1>1. attach \in [Conn -> Chore] /\ share \in [Conn -> Chore]
  BY MediaTypes
<1>2. ASSUME AttachAdds(c)
      PROVE  /\ \A d \in Conn : d # c => attach'[d] = attach[d]
             /\ attach'[c].todo = attach[c].todo /\ attach'[c].checked = NoConn
             /\ wire[c] # "closed" => attach'[c].added
  <2> DEFINE on == attach[c].added \/ wire[c] # "closed"
             r == [attach[c] EXCEPT !.checked = NoConn, !.added = on]
  <2>1. attach' = [attach EXCEPT ![c] = r]
    BY <1>2, Adding
  <2>2. wire[c] # "closed" => on
    OBVIOUS
  <2> HIDE DEF on
  <2>3. r.todo = attach[c].todo /\ r.checked = NoConn /\ r.added = on
    BY <1>1 DEF Chore
  <2> HIDE DEF r
  <2>4. attach'[c] = r /\ \A d \in Conn : d # c => attach'[d] = attach[d]
    BY <1>1, <2>1
  <2>5. wire[c] # "closed" => attach'[c].added
    BY <2>2, <2>3, <2>4, Zenon
  <2> QED
    BY <2>3, <2>4, <2>5
<1>3. ASSUME ShareAdds(c)
      PROVE  /\ \A d \in Conn : d # c => share'[d] = share[d]
             /\ share'[c].todo = share[c].todo /\ share'[c].checked = NoConn
  <2> DEFINE r == [share[c] EXCEPT !.checked = NoConn]
  <2>1. share' = [share EXCEPT ![c] = r]
    BY <1>3, Adding
  <2>2. r.todo = share[c].todo /\ r.checked = NoConn
    BY <1>1 DEF Chore
  <2> HIDE DEF r
  <2> QED
    BY <1>1, <2>1, <2>2
<1> QED
  BY <1>2, <1>3

\* Departures close connections, and open none.
LEMMA Closes ==
  ASSUME MediaTypeOK, SeatInv, NEW s \in Stream, NEW due \in SUBSET Conn, Depart(s, due)
  PROVE  /\ \A c \in Conn : wire'[c] = wire[c] \/ wire'[c] = "closed"
         /\ Registered' \subseteq Registered /\ UNCHANGED streamOf
<1>1. /\ UNCHANGED streamOf
      /\ \A x \in Stream : peer'[x] = IF x = s THEN NoConn ELSE peer[x]
      /\ \A c \in Conn : c # peer[s] => wire'[c] = wire[c]
      /\ peer[s] # NoConn => wire'[peer[s]] = "closed"
  BY DepartIs
<1>2. Registered' \subseteq Registered
  BY <1>1 DEF Registered
<1> QED
  BY <1>1, <1>2, MediaConstants

\* What neither adds a track nor looks one up: who is registered now was so before, or
\* has no microphone and is not connected.
Aside ==
  \/ \E c \in Conn : Joining(c) \/ Reap(c) \/ Lost(c)
  \/ \E s \in Stream : StreamEnds(s)
  \/ Closing \/ UNCHANGED mediaVars

\* What it leaves: the tracks, and nobody more to hear or to be heard.
Apart ==
  /\ UNCHANGED <<streamOf, sending, stray, neg, attach, share, mic>>
  /\ \A c \in Conn : wire'[c] = wire[c] \/ wire'[c] = "closed"
  /\ \A c \in Conn : join[c] # "idle" => join'[c] # "idle"
  /\ \A c \in Registered' : c \in Registered \/ (~ mic[c] /\ wire[c] = "new")

LEMMA AsideIs ==
  ASSUME MediaTypeOK, SeatInv, Aside
  PROVE  Apart
<1> USE DEF peers, joins, lines, chores, doors
<1>1. ASSUME NEW s \in Stream, NEW due \in SUBSET Conn, Depart(s, due),
             UNCHANGED <<mic, sending, stray, neg, attach, share>>,
             \A c \in Conn : join[c] # "idle" => join'[c] # "idle"
      PROVE  Apart
  BY <1>1, Closes DEF Apart
<1>2. ASSUME NEW c \in Conn, Replace(c) PROVE Apart
  <2>1. /\ streamOf[c] \in Stream /\ reap \in SUBSET Conn
        /\ \A d \in Conn : join[d] # "idle" => join'[d] # "idle"
    BY <1>2, MediaTypes DEF Replace, MediaTypeOK
  <2> QED
    BY <1>1, <1>2, <2>1 DEF Replace
<1>3. ASSUME NEW c \in Conn, Reap(c) PROVE Apart
  <2>1. streamOf[c] \in Stream /\ reap \ {c} \in SUBSET Conn
    BY MediaTypes DEF MediaTypeOK
  <2> QED
    BY <1>1, <1>3, <2>1 DEF Reap
<1>4. ASSUME NEW s \in Stream, StreamEnds(s) \/ SweepLeaves(s) PROVE Apart
  <2>1. reap \in SUBSET Conn
    BY DEF MediaTypeOK
  <2> QED
    BY <1>1, <1>4, <2>1 DEF StreamEnds, SweepLeaves
<1>5. ASSUME UNCHANGED <<peer, streamOf, mic, sending, stray, neg, attach, share>>,
             \A c \in Conn : wire'[c] = wire[c] \/ wire'[c] = "closed",
             \A c \in Conn : join[c] # "idle" => join'[c] # "idle"
      PROVE  Apart
  BY <1>5 DEF Apart, Registered
<1>6. ASSUME NEW c \in Conn, MediaOffer(c) \/ Enter(c) \/ Remake(c) PROVE Apart
  <2>1. /\ UNCHANGED <<peer, streamOf, wire, mic, sending, stray, neg, attach, share>>
        /\ \A d \in Conn : d # c => join'[d] = join[d]
        /\ join'[c] # "idle"
    BY <1>6 DEF MediaOffer, Enter, Remake, MediaTypeOK
  <2> QED
    BY <1>5, <2>1
<1>7. ASSUME NEW c \in Conn, JoinFails(c) PROVE Apart
  <2>1. /\ UNCHANGED <<peer, streamOf, mic, sending, stray, neg, attach, share>>
        /\ \A d \in Conn : d # c => join'[d] = join[d] /\ wire'[d] = wire[d]
        /\ join'[c] # "idle" /\ wire'[c] = "closed"
    BY <1>7 DEF JoinFails, MediaTypeOK
  <2> QED
    BY <1>5, <2>1
<1>8. ASSUME NEW c \in Conn, Register(c) PROVE Apart
  <2>1. /\ UNCHANGED <<streamOf, wire, mic, sending, stray, neg, attach, share>>
        /\ \A d \in Conn : join[d] # "idle" => join'[d] # "idle"
    BY <1>8 DEF Register, MediaTypeOK
  <2>2. \A d \in Registered' : d \in Registered \/ d = c
    BY <1>8, MediaTypes DEF Register, Registered, MediaTypeOK
  <2>3. ~ mic[c] /\ wire[c] = "new"
    BY <1>8 DEF Register, SeatInv
  <2> QED
    BY <2>1, <2>2, <2>3 DEF Apart
<1>9. ASSUME (\E c \in Conn : Lost(c)) \/ CloseRoom \/ UNCHANGED mediaVars PROVE Apart
  <2>1. UNCHANGED <<peer, streamOf, wire, join, mic, sending, stray, neg, attach, share>>
    BY <1>9 DEF Lost, CloseRoom, mediaVars
  <2> QED
    BY <1>5, <2>1
<1> QED
  BY <1>2, <1>3, <1>4, <1>6, <1>7, <1>8, <1>9 DEF Aside, Joining, Closing

\* The others, one by one.
LEMMA MediaSteps ==
  ASSUME [MediaNext]_mediaVars
  PROVE  \/ Aside
         \/ \E c \in Conn :
              \/ Connected(c) \/ OnTrack(c) \/ AttachAdds(c) \/ AttachOffers(c) \/ ShareAdds(c)
              \/ Answer(c) \/ BadAnswer(c)
              \/ \E a \in Conn : AttachChecks(c, a) \/ ShareChecks(c, a) \/ LeaveTells(c, a)
BY DEF MediaNext, Aside, Onward, Browsing

LEMMA OffersStep ==
  ASSUME MediaTypeOK, SeatInv, OfferInv, [MediaNext]_mediaVars
  PROVE  OfferInv'
<1> USE DEF peers, joins, lines, chores, doors
<1>1. /\ neg \in [Conn -> Neg] /\ attach \in [Conn -> Chore] /\ share \in [Conn -> Chore]
      /\ \A c \in Conn : Received(c, Stream) \in SUBSET Conn
  BY MediaTypes, ReceivedType
<1>2. CASE Aside
  BY <1>2, AsideIs, OffersStay DEF Apart
<1>3. ASSUME NEW c \in Conn, Connected(c) PROVE OfferInv'
  <2>1. UNCHANGED <<sending, stray, neg>>
    BY <1>3 DEF Connected
  <2>2. \A d \in Conn : wire'[d] # "closed" => wire[d] # "closed"
    BY <1>3 DEF Connected, MediaTypeOK
  <2>3. \A d \in Conn : attach'[d].added = attach[d].added
    BY <1>1, <1>3 DEF Connected, Chore
  <2> QED
    BY <2>1, <2>2, <2>3, OffersStay
<1>4. ASSUME NEW c \in Conn, OnTrack(c) PROVE OfferInv'
  <2>1. UNCHANGED <<sending, stray, neg, wire, attach>>
    BY <1>4 DEF OnTrack
  <2> QED
    BY <2>1, OffersStay
<1>5. ASSUME NEW c \in Conn, NEW a \in Conn, AttachChecks(c, a) PROVE OfferInv'
  <2>1. UNCHANGED <<sending, stray, neg, wire>>
    BY <1>5 DEF AttachChecks
  <2>2. \A d \in Conn : attach'[d].added = attach[d].added
    BY <1>5, AttachCheckLeaves
  <2> QED
    BY <2>1, <2>2, OffersStay
<1>6. ASSUME NEW c \in Conn, NEW a \in Conn, ShareChecks(c, a) PROVE OfferInv'
  <2>1. UNCHANGED <<sending, stray, neg, wire, attach>>
    BY <1>6 DEF ShareChecks
  <2> QED
    BY <2>1, OffersStay
<1>7. ASSUME NEW c \in Conn, AttachAdds(c) PROVE OfferInv'
  <2>1. \A d \in Conn : d # c => sending'[d] = sending[d] /\ stray'[d] = stray[d]
    <3>1. attach[c].checked \in Conn
      BY <1>1, <1>7 DEF AttachAdds, Chore
    <3> QED
      BY <1>7, <3>1, AddIs DEF AttachAdds
  <2>2. UNCHANGED <<wire, neg>>
    BY <1>7 DEF AttachAdds
  <2>3. /\ \A d \in Conn : d # c => attach'[d] = attach[d]
        /\ wire[c] # "closed" => attach'[c].added
    BY <1>7, AddsLeave
  <2> QED
    BY <2>1, <2>2, <2>3, OffersFor
<1>8. ASSUME NEW c \in Conn, AttachOffers(c) PROVE OfferInv'
  <2>1. UNCHANGED <<wire, sending, stray>> /\ \A d \in Conn : d # c => attach'[d] = attach[d]
    BY <1>1, <1>8 DEF AttachOffers
  <2>2. Received(c, Stream)' = Received(c, Stream)
    BY <2>1 DEF Received
  <2>3. CASE wire[c] = "closed"
    BY <1>8, <2>1, <2>3, OffersFor DEF AttachOffers
  <2>4. CASE wire[c] # "closed"
    <3>1. PICK n \in Reoffer(neg[c], Received(c, Stream)) : neg' = [neg EXCEPT ![c] = n]
      BY <1>8, <2>4 DEF AttachOffers
    <3>2. /\ n.state = "stable" => n.lost
          /\ n.state = "offered" => n.offer = Received(c, Stream) \/ n.pending
      BY <1>1, ReofferIs
    <3>3. neg'[c] = n /\ \A d \in Conn : d # c => neg'[d] = neg[d]
      BY <1>1, <3>1
    <3>4. Announced(c)'
      BY <2>2, <3>2, <3>3 DEF Announced
    <3> QED
      BY <2>1, <3>3, <3>4, OffersFor
  <2> QED
    BY <2>3, <2>4
<1>9. ASSUME NEW c \in Conn, ShareAdds(c) PROVE OfferInv'
  <2>0. share[c].checked \in Conn /\ UNCHANGED <<wire, attach>>
    BY <1>1, <1>9 DEF ShareAdds, Chore
  <2>1. PICK o \in Conn : o = share[c].checked
    BY <2>0
  <2>2. CASE wire[o] = "closed"
    BY <1>9, <2>0, <2>1, <2>2, OffersStay DEF ShareAdds
  <2>3. CASE wire[o] # "closed"
    <3>1. PICK n \in Reoffer(neg[o], Received(o, Stream) \cup {c}) :
            Add(o, c) /\ neg' = [neg EXCEPT ![o] = n]
      BY <1>9, <2>1, <2>3 DEF ShareAdds
    <3>2. /\ n.state = "stable" => n.lost
          /\ n.state = "offered" => n.offer = Received(o, Stream) \cup {c} \/ n.pending
      <4>1. neg[o] \in Neg /\ Received(o, Stream) \cup {c} \in SUBSET Conn
        BY <1>1, <2>1
      <4> QED
        BY <4>1, ReofferIs
    <3>3. /\ Received(o, Stream)' = Received(o, Stream) \cup {c}
          /\ \A d \in Conn : d # o => sending'[d] = sending[d] /\ stray'[d] = stray[d]
      BY <2>1, <3>1, AddIs
    <3>4. neg'[o] = n /\ \A d \in Conn : d # o => neg'[d] = neg[d]
      BY <1>1, <2>1, <3>1
    <3>5. Announced(o)'
      BY <3>2, <3>3, <3>4 DEF Announced
    <3> QED
      BY <2>0, <3>3, <3>4, <3>5, OffersFor
  <2> QED
    BY <2>2, <2>3
<1>10. ASSUME NEW c \in Conn, NEW o \in Conn, LeaveTells(c, o) PROVE OfferInv'
  <2> DEFINE rest == Received(o, Stream \ {streamOf[c]})
             ns == Reoffer(neg[o], rest)
  <2>1. /\ Received(o, Stream)' = rest
        /\ \A d \in Conn : d # o => sending'[d] = sending[d]
    <3>1. LeaveTells(c, o) /\ MediaTypeOK
      BY <1>10
    <3> HIDE DEF rest
    <3>2. Received(o, Stream)' = Received(o, Stream \ {streamOf[c]})
      BY <3>1, LeaveReceived
    <3>3. \A d \in Conn : d # o => sending'[d] = sending[d]
      BY <3>1 DEF LeaveTells, MediaTypeOK
    <3> QED
      BY <3>2, <3>3 DEF rest
  <2>2. UNCHANGED <<wire, attach, stray>>
    BY <1>10 DEF LeaveTells
  <2>3. \A d \in Conn : d # o => neg'[d] = neg[d]
    BY <1>1, <1>10 DEF LeaveTells
  <2> HIDE DEF ns
  <2>4. CASE wire[o] = "closed"
    BY <2>1, <2>2, <2>3, <2>4, OffersFor
  <2>5. CASE wire[o] # "closed" /\ sending[o][streamOf[c]] = NoConn
    <3>1. rest = Received(o, Stream)
      BY <2>5 DEF Received
    <3>2. neg' = neg
      BY <1>10, <2>5 DEF LeaveTells
    <3> HIDE DEF rest
    <3>3. ~ attach[o].added => Announced(o)
      BY <2>5 DEF OfferInv
    <3>4. ~ attach[o].added => Announced(o)'
      BY <2>1, <3>1, <3>2, <3>3 DEF Announced
    <3> QED
      BY <2>1, <2>2, <3>2, <3>4, OffersFor
  <2>6. CASE wire[o] # "closed" /\ sending[o][streamOf[c]] # NoConn
    <3>1. PICK n \in ns : neg' = [neg EXCEPT ![o] = n]
      BY <1>10, <2>6 DEF LeaveTells, ns
    <3>2. /\ n.state = "stable" => n.lost
          /\ n.state = "offered" => n.offer = rest \/ n.pending
      BY <1>1, ReceivedType, ReofferIs DEF ns
    <3> HIDE DEF rest
    <3>3. neg'[o] = n
      BY <1>1, <3>1
    <3>4. Announced(o)'
      BY <2>1, <3>2, <3>3 DEF Announced
    <3> QED
      BY <2>1, <2>2, <2>3, <3>4, OffersFor
  <2> QED
    BY <2>4, <2>5, <2>6
<1>11. ASSUME NEW c \in Conn, Answer(c) PROVE OfferInv'
  <2> DEFINE over == [neg[c] EXCEPT !.state = "stable", !.pending = FALSE, !.told = neg[c].offer]
  <2>1. UNCHANGED <<wire, sending, stray, attach>> /\ wire[c] # "closed"
        /\ neg[c].state = "offered"
    BY <1>11 DEF Answer
  <2>2. Received(c, Stream)' = Received(c, Stream)
    BY <2>1 DEF Received
  <2>3. PICK n : /\ n \in IF neg[c].pending THEN Reoffer(over, Received(c, Stream)) ELSE {over}
                 /\ neg' = [neg EXCEPT ![c] = n]
    BY <1>11 DEF Answer
  <2>4. over \in Neg /\ over.state = "stable" /\ over.told = neg[c].offer /\ over.lost = neg[c].lost
    <3>1. neg[c] \in Neg
      BY <1>1
    <3>2. over \in Neg
      BY <3>1, NegWith
    <3> QED
      BY <3>1, <3>2 DEF Neg
  <2> HIDE DEF over
  <2>5. neg'[c] = n /\ \A d \in Conn : d # c => neg'[d] = neg[d]
    BY <1>1, <2>3
  <2>6. CASE neg[c].pending
    <3>1. /\ n.state = "stable" => n.lost
          /\ n.state = "offered" => n.offer = Received(c, Stream) \/ n.pending
      BY <1>1, <2>3, <2>4, <2>6, ReofferIs
    <3>2. Announced(c)'
      BY <2>2, <2>5, <3>1 DEF Announced
    <3> QED
      BY <2>1, <2>5, <3>2, OffersFor
  <2>7. CASE ~ neg[c].pending
    <3>1. n = over
      BY <2>3, <2>7
    <3>2. ~ attach[c].added => neg[c].offer = Received(c, Stream) \/ neg[c].lost
      BY <2>1, <2>7 DEF OfferInv, Announced
    <3>3. ~ attach[c].added => n.told = Received(c, Stream) \/ n.lost
      BY <2>4, <3>1, <3>2, Zenon
    <3>4. n.state = "stable"
      BY <2>4, <3>1
    <3>5. ~ attach[c].added => Announced(c)'
      BY <2>2, <2>5, <3>3, <3>4 DEF Announced
    <3> QED
      BY <2>1, <2>5, <3>5, OffersFor
  <2> QED
    BY <2>6, <2>7
<1>12. ASSUME NEW c \in Conn, BadAnswer(c) PROVE OfferInv'
  <2>1. UNCHANGED <<wire, sending, stray, attach>> /\ wire[c] # "closed"
    BY <1>12 DEF BadAnswer
  <2>2. PICK n \in Neg :
          /\ neg' = [neg EXCEPT ![c] = n]
          /\ neg[c].state = "offered"
          /\ n.state = "stable" => n.lost
          /\ n.state = "offered" => n.offer = neg[c].offer /\ (neg[c].pending \/ neg[c].lost => n.lost)
    BY <1>12, BadAnswerIs
  <2>3. neg'[c] = n /\ \A d \in Conn : d # c => neg'[d] = neg[d]
    BY <1>1, <2>2
  <2>4. Received(c, Stream)' = Received(c, Stream)
    BY <2>1 DEF Received
  <2>5. ~ attach[c].added =>
          neg[c].offer = Received(c, Stream) \/ neg[c].pending \/ neg[c].lost
    BY <2>1, <2>2 DEF OfferInv, Announced
  <2>6. ~ attach[c].added => Announced(c)'
    BY <2>2, <2>3, <2>4, <2>5 DEF Announced
  <2> QED
    BY <2>1, <2>3, <2>6, OffersFor
<1> QED
  BY <1>2, <1>3, <1>4, <1>5, <1>6, <1>7, <1>8, <1>9, <1>10, <1>11, <1>12, MediaSteps

\* A browser that has answered all it was offered was told of every track it is sent,
\* unless the last offer it was due, or an answer of its own, failed.
THEOREM OffersKept == MediaSpec => []OffersCatchUp
<1>1. MediaInit => OfferInv
  BY DEF MediaInit, OfferInv, Announced, Received
<1>2. MediaTypeOK /\ SeatInv /\ OfferInv /\ [MediaNext]_mediaVars => OfferInv'
  BY OffersStep
<1>3. MediaTypeOK /\ SeatInv /\ OfferInv => OffersCatchUp
  <2> SUFFICES ASSUME MediaTypeOK, SeatInv, OfferInv, Settled, NEW c \in Registered,
                      UpToDate(c)
               PROVE  neg[c].told = Received(c, Stream)
    BY DEF OffersCatchUp
  <2>1. c \in Conn /\ wire[c] # "closed"
    BY MediaTypes DEF Registered, SeatInv
  <2>2. ~ attach[c].added
    BY <2>1 DEF Settled, Idle
  <2> QED
    BY <2>1, <2>2 DEF OfferInv, Announced, UpToDate
<1> QED
  BY <1>1, <1>2, <1>3, MediaTypeCorrect, PTL DEF MediaSpec

-----------------------------------------------------------------------------
(* Who is heard                                                             *)

\* Every entry for a stream names a connection that was offered for it, and so does what
\* attachExisting and onTrack still have to do.
TrackInv ==
  /\ \A d \in Conn, x \in Stream : sending[d][x] # NoConn =>
       streamOf[sending[d][x]] = x /\ join[sending[d][x]] # "idle"
  /\ \A d \in Conn, a \in Conn : a \in attach[d].todo \/ a = attach[d].checked => join[a] # "idle"
  /\ \A d \in Conn : share[d].todo # {} \/ share[d].checked # NoConn => join[d] # "idle"

\* Peer y is sent the microphone of x, or somebody is about to look whether it is.
Reaches(x, y) ==
  \/ sending[y][streamOf[x]] = x
  \/ x \in attach[y].todo \/ attach[y].checked = x
  \/ y \in share[x].todo \/ share[x].checked = y

\* Whichever of two peers came last finds the other.
HeardInv ==
  \A x, y \in Registered : x # y /\ Alone(x) /\ mic[x] /\ wire[y] = "up" => Reaches(x, y)

LEMMA TracksStep ==
  ASSUME MediaTypeOK, SeatInv, TrackInv, [MediaNext]_mediaVars
  PROVE  TrackInv'
<1> USE DEF peers, joins, lines, chores, doors
<1>1. /\ attach \in [Conn -> Chore] /\ share \in [Conn -> Chore]
      /\ sending \in [Conn -> [Stream -> Conn \cup {NoConn}]]
  BY MediaTypes DEF MediaTypeOK
<1>2. CASE Aside
  <2>1. Apart
    BY <1>2, AsideIs
  <2>2. \A d \in Conn, x \in Stream : sending[d][x] # NoConn => sending[d][x] \in Conn
    BY <1>1
  <2> QED
    BY <2>1, <2>2 DEF Apart, TrackInv
<1>3. ASSUME NEW c \in Conn, Connected(c) PROVE TrackInv'
  <2>1. UNCHANGED <<streamOf, join, sending, share>>
    BY <1>3 DEF Connected
  <2>2. \A a \in Registered : join[a] # "idle"
    BY DEF SeatInv, Registered
  <2>3. /\ \A d \in Conn : attach'[d].checked = attach[d].checked
        /\ \A d \in Conn : attach'[d].todo = attach[d].todo \/ attach'[d].todo \subseteq Registered
    BY <1>1, <1>3 DEF Connected, Chore
  <2> QED
    BY <2>1, <2>2, <2>3 DEF TrackInv
<1>4. ASSUME NEW c \in Conn, OnTrack(c) PROVE TrackInv'
  <2>1. UNCHANGED <<streamOf, join, sending, attach>> /\ join[c] = "in"
    BY <1>4 DEF OnTrack, SeatInv
  <2>2. \A d \in Conn : d # c => share'[d] = share[d]
    BY <1>4, <1>1 DEF OnTrack
  <2> QED
    BY <2>1, <2>2 DEF TrackInv
<1>5. ASSUME NEW c \in Conn, NEW a \in Conn, AttachChecks(c, a) PROVE TrackInv'
  <2>1. UNCHANGED <<streamOf, join, sending, share>> /\ a \in attach[c].todo
    BY <1>5 DEF AttachChecks
  <2>2. /\ \A d \in Conn : d # c => attach'[d] = attach[d]
        /\ attach'[c].todo = attach[c].todo \ {a}
        /\ attach'[c].checked = IF Already(c, a) THEN NoConn ELSE a
    BY <1>5, AttachCheckLeaves
  <2>3. \A d \in Conn, b \in Conn : b \in attach'[d].todo \/ b = attach'[d].checked =>
          join[b] # "idle"
    BY <2>1, <2>2, MediaConstants DEF TrackInv
  <2> QED
    BY <2>1, <2>3 DEF TrackInv
<1>6. ASSUME NEW c \in Conn, NEW a \in Conn, ShareChecks(c, a) PROVE TrackInv'
  <2>1. UNCHANGED <<streamOf, join, sending, attach>> /\ a \in share[c].todo
    BY <1>6 DEF ShareChecks
  <2>2. \A d \in Conn : d # c => share'[d] = share[d]
    BY <1>6, ShareCheckLeaves
  <2> QED
    BY <2>1, <2>2 DEF TrackInv
<1>7. ASSUME NEW o \in Conn, NEW a \in Conn, Add(o, a), UNCHANGED <<streamOf, join>>,
             join[a] # "idle"
      PROVE  \A d \in Conn, x \in Stream : sending'[d][x] # NoConn =>
               streamOf'[sending'[d][x]] = x /\ join'[sending'[d][x]] # "idle"
  <2>1. /\ \A x \in Stream : sending'[o][x] = IF x = streamOf[a] THEN a ELSE sending[o][x]
        /\ \A d \in Conn : d # o => sending'[d] = sending[d]
    BY <1>7, AddIs
  <2> QED
    BY <1>7, <2>1 DEF TrackInv
<1>8. ASSUME NEW c \in Conn, AttachAdds(c) PROVE TrackInv'
  <2>1. PICK a \in Conn : a = attach[c].checked
    BY <1>1, <1>8 DEF AttachAdds, Chore
  <2>2. UNCHANGED <<streamOf, join, share>> /\ join[a] # "idle"
    BY <1>8, <2>1 DEF AttachAdds, TrackInv
  <2>3. sending' = sending \/ Add(c, a)
    BY <1>8, <2>1 DEF AttachAdds
  <2>4. \A d \in Conn, x \in Stream : sending'[d][x] # NoConn =>
          streamOf'[sending'[d][x]] = x /\ join'[sending'[d][x]] # "idle"
    BY <1>7, <2>2, <2>3 DEF TrackInv
  <2>5. /\ \A d \in Conn : d # c => attach'[d] = attach[d]
        /\ attach'[c].todo = attach[c].todo /\ attach'[c].checked = NoConn
    BY <1>8, AddsLeave
  <2>6. \A d \in Conn, b \in Conn : b \in attach'[d].todo \/ b = attach'[d].checked =>
          join[b] # "idle"
    BY <2>5, MediaConstants DEF TrackInv
  <2> QED
    BY <2>2, <2>4, <2>6 DEF TrackInv
<1>9. ASSUME NEW c \in Conn, AttachOffers(c) PROVE TrackInv'
  <2>1. UNCHANGED <<streamOf, join, sending, share>>
    BY <1>9 DEF AttachOffers
  <2>2. attach'[c] = Idle /\ \A d \in Conn : d # c => attach'[d] = attach[d]
    BY <1>1, <1>9 DEF AttachOffers
  <2> QED
    BY <2>1, <2>2, MediaConstants DEF TrackInv, Idle
<1>10. ASSUME NEW c \in Conn, ShareAdds(c) PROVE TrackInv'
  <2>1. PICK o \in Conn : o = share[c].checked
    BY <1>1, <1>10 DEF ShareAdds, Chore
  <2>2. UNCHANGED <<streamOf, join, attach>> /\ join[c] # "idle"
    BY <1>10, <2>1, MediaConstants DEF ShareAdds, TrackInv
  <2>3. sending' = sending \/ Add(o, c)
    BY <1>10, <2>1 DEF ShareAdds
  <2>4. \A d \in Conn, x \in Stream : sending'[d][x] # NoConn =>
          streamOf'[sending'[d][x]] = x /\ join'[sending'[d][x]] # "idle"
    BY <1>7, <2>2, <2>3 DEF TrackInv
  <2>5. \A d \in Conn : d # c => share'[d] = share[d]
    BY <1>10, AddsLeave
  <2> QED
    BY <2>2, <2>4, <2>5 DEF TrackInv
<1>11. ASSUME NEW c \in Conn, NEW o \in Conn, LeaveTells(c, o) PROVE TrackInv'
  <2>1. UNCHANGED <<streamOf, join, attach, share>>
    BY <1>11 DEF LeaveTells
  <2>2. \A d \in Conn, x \in Stream : sending'[d][x] = NoConn \/ sending'[d][x] = sending[d][x]
    BY <1>11, LeaveReceived
  <2> QED
    BY <2>1, <2>2 DEF TrackInv
<1>12. ASSUME NEW c \in Conn, Answer(c) \/ BadAnswer(c) PROVE TrackInv'
  <2>1. UNCHANGED <<streamOf, join, sending, attach, share>>
    BY <1>12 DEF Answer, BadAnswer
  <2> QED
    BY <2>1 DEF TrackInv
<1> QED
  BY <1>2, <1>3, <1>4, <1>5, <1>6, <1>8, <1>9, <1>10, <1>11, <1>12, MediaSteps

\* Who is there to hear and to be heard does not change when a track is added.
LEMMA HeardStays ==
  ASSUME HeardInv, UNCHANGED <<streamOf, peer, join, mic, wire>>,
         \A x, y \in Registered :
           x # y /\ Alone(x) /\ wire[y] = "up" /\ Reaches(x, y) => Reaches(x, y)'
  PROVE  HeardInv'
<1>1. Registered' = Registered /\ \A x \in Conn : Alone(x)' = Alone(x)
  BY DEF Registered, Alone
<1> SUFFICES ASSUME NEW x \in Registered', NEW y \in Registered', x # y, Alone(x)', mic'[x],
                    wire'[y] = "up"
             PROVE  Reaches(x, y)'
  BY DEF HeardInv
<1>2. Alone(x)
  BY DEF Alone
<1>3. Reaches(x, y)
  BY <1>1, <1>2 DEF HeardInv
<1> QED
  BY <1>1, <1>2, <1>3

\* Peers are keyed by stream, and a connection that is the only one of its stream is the
\* only one an entry for the stream can name.
LEMMA OfItsStream ==
  ASSUME MediaTypeOK, SeatInv, TrackInv, NEW x \in Registered, NEW y \in Registered
  PROVE  /\ x # y => streamOf[x] # streamOf[y]
         /\ Alone(x) /\ Already(y, x) => sending[y][streamOf[x]] = x
<1>1. x \in Conn /\ y \in Conn /\ streamOf[x] \in Stream
  BY MediaTypes
<1>2. peer[streamOf[x]] = x /\ peer[streamOf[y]] = y
  BY DEF SeatInv, Registered
<1>3. sending[y][streamOf[x]] \in Conn \cup {NoConn}
  BY <1>1 DEF MediaTypeOK
<1>4. Already(y, x) => /\ sending[y][streamOf[x]] \in Conn
                       /\ streamOf[sending[y][streamOf[x]]] = streamOf[x]
                       /\ join[sending[y][streamOf[x]]] # "idle"
  BY <1>1, <1>3 DEF Already, TrackInv
<1> QED
  BY <1>2, <1>4 DEF Alone

\* What is added for one source does not displace another.
LEMMA AddHeard ==
  ASSUME MediaTypeOK, NEW o \in Conn, NEW a \in Conn, Add(o, a), join[a] # "idle",
         NEW x \in Conn, NEW y \in Conn, Alone(x), sending[y][streamOf[x]] = x
  PROVE  sending'[y][streamOf[x]] = x
<1>1. streamOf[x] \in Stream
  BY MediaTypes
<1>2. /\ \A t \in Stream : sending'[o][t] = IF t = streamOf[a] THEN a ELSE sending[o][t]
      /\ \A c \in Conn : c # o => sending'[c] = sending[c]
  BY AddIs
<1>3. streamOf[a] = streamOf[x] => a = x
  BY DEF Alone
<1> QED
  BY <1>1, <1>2, <1>3

LEMMA HeardStep ==
  ASSUME MediaTypeOK, SeatInv, TrackInv, HeardInv, [MediaNext]_mediaVars
  PROVE  HeardInv'
<1> USE DEF peers, joins, lines, chores, doors
<1>1. /\ attach \in [Conn -> Chore] /\ share \in [Conn -> Chore]
      /\ Registered \subseteq Conn /\ NoConn \notin Registered
  BY MediaTypes
<1>2. CASE Aside
  <2>1. Apart
    BY <1>2, AsideIs
  <2> SUFFICES ASSUME NEW x \in Registered', NEW y \in Registered', x # y, Alone(x)', mic'[x],
                      wire'[y] = "up"
               PROVE  Reaches(x, y)'
    BY DEF HeardInv
  <2>2. /\ x \in Registered \/ (~ mic[x] /\ wire[x] = "new")
        /\ y \in Registered \/ (~ mic[y] /\ wire[y] = "new")
    BY <2>1 DEF Apart
  <2>3. y \in Registered => wire[y] = "up"
    BY <1>1, <2>1 DEF Apart
  <2>4. y \in Registered
    <3>1. y \in Conn
      BY SeatsStep DEF MediaTypeOK, Registered
    <3> QED
      BY <2>1, <2>2, <3>1 DEF Apart
  <2>5. x \in Registered /\ Alone(x) /\ mic[x]
    BY <2>1, <2>2 DEF Apart, Alone
  <2>6. Reaches(x, y)
    BY <2>3, <2>4, <2>5 DEF HeardInv
  <2> QED
    BY <2>1, <2>6 DEF Apart, Reaches
<1>3. ASSUME NEW c \in Conn, Connected(c) PROVE HeardInv'
  <2>1. UNCHANGED <<streamOf, peer, join, mic, sending, share>>
    BY <1>3 DEF Connected
  <2>2. /\ \A d \in Conn : d # c => attach'[d] = attach[d] /\ wire'[d] = wire[d]
        /\ attach'[c].todo = {a \in Registered : streamOf[a] # streamOf[c] /\ mic[a]}
    BY <1>1, <1>3 DEF Connected, Chore, MediaTypeOK
  <2>3. Registered' = Registered
    BY <2>1 DEF Registered
  <2> SUFFICES ASSUME NEW x \in Registered, NEW y \in Registered, x # y, Alone(x)', mic'[x],
                      wire'[y] = "up"
               PROVE  Reaches(x, y)'
    BY <2>3 DEF HeardInv
  <2>4. CASE y = c
    BY <2>1, <2>2, <2>4, OfItsStream DEF Reaches
  <2>5. CASE y # c
    <3>1. Alone(x)
      BY <2>1 DEF Alone
    <3>2. Reaches(x, y)
      BY <1>1, <2>1, <2>2, <2>5, <3>1 DEF HeardInv
    <3> QED
      BY <1>1, <2>1, <2>2, <2>5, <3>2 DEF Reaches
  <2> QED
    BY <2>4, <2>5
<1>4. ASSUME NEW c \in Conn, OnTrack(c) PROVE HeardInv'
  <2>1. UNCHANGED <<streamOf, peer, join, wire, sending, attach>>
    BY <1>4 DEF OnTrack
  <2>2. /\ \A d \in Conn : d # c => share'[d] = share[d] /\ mic'[d] = mic[d]
        /\ share'[c].todo = {o \in Registered : streamOf[o] # streamOf[c]}
    BY <1>1, <1>4 DEF OnTrack, Chore, MediaTypeOK
  <2>3. Registered' = Registered
    BY <2>1 DEF Registered
  <2> SUFFICES ASSUME NEW x \in Registered, NEW y \in Registered, x # y, Alone(x)', mic'[x],
                      wire'[y] = "up"
               PROVE  Reaches(x, y)'
    BY <2>3 DEF HeardInv
  <2>4. CASE x = c
    BY <2>1, <2>2, <2>4, OfItsStream DEF Reaches
  <2>5. CASE x # c
    <3>1. Alone(x)
      BY <2>1 DEF Alone
    <3>2. Reaches(x, y)
      BY <1>1, <2>1, <2>2, <2>5, <3>1 DEF HeardInv
    <3> QED
      BY <1>1, <2>1, <2>2, <2>5, <3>2 DEF Reaches
  <2> QED
    BY <2>4, <2>5
<1>5. ASSUME NEW c \in Conn, NEW a \in Conn, AttachChecks(c, a) PROVE HeardInv'
  <2>1. UNCHANGED <<streamOf, peer, join, mic, wire, sending, share>> /\ attach[c].checked = NoConn
    BY <1>5 DEF AttachChecks
  <2>2. /\ \A d \in Conn : d # c => attach'[d] = attach[d]
        /\ attach'[c].todo = attach[c].todo \ {a}
        /\ attach'[c].checked = IF Already(c, a) THEN NoConn ELSE a
    BY <1>5, AttachCheckLeaves
  <2>3. ASSUME NEW x \in Registered, NEW y \in Registered, x # y, Alone(x), Reaches(x, y)
        PROVE  Reaches(x, y)'
    <3>1. CASE y = c /\ x = a
      BY <2>1, <2>2, <2>3, <3>1, OfItsStream DEF Reaches
    <3>2. CASE ~ (y = c /\ x = a)
      BY <1>1, <2>1, <2>2, <2>3, <3>2 DEF Reaches
    <3> QED
      BY <3>1, <3>2
  <2> QED
    BY <2>1, <2>3, HeardStays
<1>6. ASSUME NEW c \in Conn, NEW a \in Conn, ShareChecks(c, a) PROVE HeardInv'
  <2>1. UNCHANGED <<streamOf, peer, join, mic, wire, sending, attach>> /\ share[c].checked = NoConn
    BY <1>6 DEF ShareChecks
  <2>2. /\ \A d \in Conn : d # c => share'[d] = share[d]
        /\ share'[c].todo = share[c].todo \ {a}
        /\ share'[c].checked = IF Already(a, c) THEN NoConn ELSE a
    BY <1>6, ShareCheckLeaves
  <2>3. ASSUME NEW x \in Registered, NEW y \in Registered, x # y, Alone(x), Reaches(x, y)
        PROVE  Reaches(x, y)'
    <3>1. CASE x = c /\ y = a
      BY <2>1, <2>2, <2>3, <3>1, OfItsStream DEF Reaches
    <3>2. CASE ~ (x = c /\ y = a)
      BY <1>1, <2>1, <2>2, <2>3, <3>2 DEF Reaches
    <3> QED
      BY <3>1, <3>2
  <2> QED
    BY <2>1, <2>3, HeardStays
<1>7. ASSUME NEW c \in Conn, AttachAdds(c) PROVE HeardInv'
  <2>1. PICK a \in Conn : a = attach[c].checked
    BY <1>1, <1>7 DEF AttachAdds, Chore
  <2>2. UNCHANGED <<streamOf, peer, join, mic, wire, share>> /\ join[a] # "idle"
    BY <1>7, <2>1 DEF AttachAdds, TrackInv
  <2>3. IF wire[c] = "closed" THEN sending' = sending ELSE Add(c, a)
    BY <1>7, <2>1 DEF AttachAdds
  <2>4. /\ \A d \in Conn : d # c => attach'[d] = attach[d]
        /\ attach'[c].todo = attach[c].todo
    BY <1>7, AddsLeave
  <2>5. ASSUME NEW x \in Registered, NEW y \in Registered, x # y, Alone(x), wire[y] = "up",
               Reaches(x, y)
        PROVE  Reaches(x, y)'
    <3>1. sending[y][streamOf[x]] = x => sending'[y][streamOf[x]] = x
      BY <1>1, <2>2, <2>3, <2>5, AddHeard
    <3>2. y = c /\ x = a => sending'[y][streamOf[x]] = x
      BY <2>3, <2>5, AddIs, MediaTypes
    <3> QED
      BY <1>1, <2>1, <2>2, <2>4, <2>5, <3>1, <3>2 DEF Reaches
  <2> QED
    BY <2>2, <2>5, HeardStays
<1>8. ASSUME NEW c \in Conn, AttachOffers(c) PROVE HeardInv'
  <2>1. UNCHANGED <<streamOf, peer, join, mic, wire, sending, share>>
        /\ attach[c].checked = NoConn /\ attach[c].todo = {}
    BY <1>8 DEF AttachOffers
  <2>2. \A d \in Conn : d # c => attach'[d] = attach[d]
    BY <1>1, <1>8 DEF AttachOffers
  <2>3. \A x, y \in Registered : Reaches(x, y) => Reaches(x, y)'
    BY <1>1, <2>1, <2>2 DEF Reaches
  <2> QED
    BY <2>1, <2>3, HeardStays
<1>9. ASSUME NEW c \in Conn, ShareAdds(c) PROVE HeardInv'
  <2>1. PICK o \in Conn : o = share[c].checked
    BY <1>1, <1>9 DEF ShareAdds, Chore
  <2>2. UNCHANGED <<streamOf, peer, join, mic, wire, attach>> /\ join[c] # "idle"
    BY <1>9, <2>1, MediaConstants DEF ShareAdds, TrackInv
  <2>3. IF wire[o] = "closed" THEN sending' = sending ELSE Add(o, c)
    BY <1>9, <2>1 DEF ShareAdds
  <2>4. /\ \A d \in Conn : d # c => share'[d] = share[d]
        /\ share'[c].todo = share[c].todo
    BY <1>9, AddsLeave
  <2>5. ASSUME NEW x \in Registered, NEW y \in Registered, x # y, Alone(x), wire[y] = "up",
               Reaches(x, y)
        PROVE  Reaches(x, y)'
    <3>1. sending[y][streamOf[x]] = x => sending'[y][streamOf[x]] = x
      BY <1>1, <2>2, <2>3, <2>5, AddHeard
    <3>2. x = c /\ y = o => sending'[y][streamOf[x]] = x
      BY <2>3, <2>5, AddIs, MediaTypes
    <3> QED
      BY <1>1, <2>1, <2>2, <2>4, <2>5, <3>1, <3>2 DEF Reaches
  <2> QED
    BY <2>2, <2>5, HeardStays
<1>10. ASSUME NEW c \in Conn, NEW o \in Conn, LeaveTells(c, o) PROVE HeardInv'
  <2>1. UNCHANGED <<streamOf, peer, join, mic, wire, attach, share>> /\ leave[c] # {}
    BY <1>10 DEF LeaveTells
  <2>2. /\ \A t \in Stream : sending'[o][t] = IF t = streamOf[c] THEN NoConn ELSE sending[o][t]
        /\ \A d \in Conn : d # o => sending'[d] = sending[d]
    <3>1. \A t \in Stream : sending'[o][t] = IF t = streamOf[c] THEN NoConn ELSE sending[o][t]
      BY <1>10, LeaveReceived
    <3>2. \A d \in Conn : d # o => sending'[d] = sending[d]
      BY <1>10 DEF LeaveTells, MediaTypeOK
    <3> QED
      BY <3>1, <3>2
  <2>3. join[c] = "in" /\ c \notin Registered
    BY <2>1 DEF SeatInv, Registered
  <2>4. ASSUME NEW x \in Registered, NEW y \in Registered, Alone(x), Reaches(x, y)
        PROVE  Reaches(x, y)'
    <3>1. streamOf[x] # streamOf[c]
      BY <2>3, <2>4 DEF Alone
    <3>2. sending'[y][streamOf[x]] = sending[y][streamOf[x]]
      BY <1>1, <2>2, <3>1, MediaTypes
    <3> QED
      BY <2>1, <2>4, <3>2 DEF Reaches
  <2> QED
    BY <2>1, <2>4, HeardStays
<1>11. ASSUME NEW c \in Conn, Answer(c) \/ BadAnswer(c) PROVE HeardInv'
  <2>1. UNCHANGED <<streamOf, peer, join, mic, wire, sending, attach, share>>
    BY <1>11 DEF Answer, BadAnswer
  <2> QED
    BY <2>1, HeardStays DEF Reaches
<1> QED
  BY <1>2, <1>3, <1>4, <1>5, <1>6, <1>7, <1>8, <1>9, <1>10, <1>11, MediaSteps

\* Once things settle, whoever has answered all it was offered, and nothing failed since
\* the last offer made to it, hears every microphone whose stream had the one connection, in whatever order they arrived.
THEOREM EveryoneHeard == MediaSpec => []EveryoneIsHeard
<1>1. MediaInit => OfferInv /\ TrackInv /\ HeardInv
  <2> SUFFICES ASSUME MediaInit PROVE OfferInv /\ TrackInv /\ HeardInv
    OBVIOUS
  <2>1. OfferInv
    BY DEF MediaInit, OfferInv, Announced, Received
  <2>2. TrackInv
    BY MediaConstants DEF MediaInit, TrackInv, Idle
  <2>3. HeardInv
    BY DEF MediaInit, HeardInv, Registered
  <2> QED
    BY <2>1, <2>2, <2>3
<1>2. MediaTypeOK /\ SeatInv /\ OfferInv /\ TrackInv /\ HeardInv /\ [MediaNext]_mediaVars
        => OfferInv' /\ TrackInv' /\ HeardInv'
  BY OffersStep, TracksStep, HeardStep
<1>3. MediaTypeOK /\ SeatInv /\ OfferInv /\ HeardInv => EveryoneIsHeard
  <2> SUFFICES ASSUME MediaTypeOK, SeatInv, OfferInv, HeardInv, Settled,
                      NEW a \in Registered, NEW b \in Registered, a # b, Alone(a), mic[a],
                      wire[b] = "up", UpToDate(b)
               PROVE  a \in neg[b].told
    BY DEF EveryoneIsHeard
  <2>1. a \in Conn /\ b \in Conn /\ a # NoConn /\ b # NoConn /\ streamOf[a] \in Stream
    BY MediaTypes
  <2>2. attach[b] = Idle /\ share[a] = Idle
    BY <2>1 DEF Settled
  <2>3. sending[b][streamOf[a]] = a
    BY <2>1, <2>2 DEF HeardInv, Reaches, Idle
  <2>4. a \in Received(b, Stream)
    BY <2>1, <2>3 DEF Received
  <2>5. neg[b].told = Received(b, Stream)
    BY <2>1, <2>2 DEF OfferInv, Announced, UpToDate, Idle
  <2> QED
    BY <2>4, <2>5
<1> QED
  BY <1>1, <1>2, <1>3, MediaTypeCorrect, PTL DEF MediaSpec
=================================================================================
