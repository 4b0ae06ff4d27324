---------------------- MODULE ResourceBooking_proofs ----------------------
(***************************************************************************)
(* No double booking, workflow instances that follow, end jobs whose       *)
(* results stand: for any reservations, windows, callers, operators, clock *)
(* and failures.                                                           *)
(*                                                                         *)
(* NoDoubleBooking is not inductive: that a row may be written depends on  *)
(* what the request read earlier.  BookingInv adds what such a read is     *)
(* still worth: a request that nobody has overtaken finds room for the     *)
(* window it is about to take, and the status it is about to leave.        *)
(***************************************************************************)
EXTENDS ResourceBooking, TLAPS

Statuses == {"ABSENT"} \cup Occupying \cup Final

Times == [from : Nat, to : Nat]

(* What a request can carry from one step to the next.                     *)
Requests ==
  {Idle}
    \cup [op : {"create"}, step : {"take"}, booking : Bookings, window : Windows]
    \cup [op : {"create"}, step : {"start", "auto", "jobs"}, booking : Bookings]
    \cup [op : {"update"}, step : {"take"}, booking : Bookings, window : Windows]
    \cup [op : {"block"}, step : {"take"}, window : Windows]
    \cup [op : {"change"}, step : {"write", "read", "move"}, booking : Bookings,
          change : DOMAIN Change]
    \cup [op : {"end"}, step : {"again"}, booking : Bookings,
          change : DOMAIN Change]
    \cup [op : {"end"}, step : {"count", "run", "handle", "complete", "fail"},
          booking : Bookings]
    \cup [op : {"direct"}, step : {"transit"}, booking : Bookings, to : Statuses]

Taking(q) == q.op \in {"create", "update", "block"} /\ q.step = "take"

Creating(q) == q.op = "create" /\ q.step = "take"

Writing(q) == q.op = "change" /\ q.step = "write"

About(q, b) == q.op \notin {"none", "block"} /\ q.booking = b

(* The window of q is free, but for the reservation it is for.             *)
RoomFor(q) ==
  /\ \A b \in Bookings :
       status[b] \in Occupying /\ ~(q.op = "update" /\ q.booking = b) =>
         ~Overlap(window[b], q.window)
  /\ q.op # "block" => \A v \in blocks : ~Overlap(v, q.window)

NoClash ==
  \A b \in Bookings : status[b] \in Occupying =>
    /\ \A a \in Bookings \ {b} :
         status[a] \in Occupying => ~Overlap(window[a], window[b])
    /\ \A v \in blocks : ~Overlap(v, window[b])

BookingTypes ==
  /\ status \in [Bookings -> Statuses]
  /\ window \in [Bookings -> Times]
  /\ blocks \subseteq Windows
  /\ call \in [Processes -> Requests]
  /\ \A r \in Runners : ~Taking(call[r])
  /\ stale \subseteq Processes
  /\ disturbed \in BOOLEAN

JobStatuses == {"ABSENT", "PENDING", "RUNNING", "COMPLETED", "FAILED"}

(* A reservation that is not there yet has no job.                         *)
Scheduled ==
  /\ endJob \in [Bookings -> JobStatuses]
  /\ claimed \subseteq Bookings
  /\ \A b \in Bookings : status[b] = "ABSENT" =>
       endJob[b] = "ABSENT" /\ b \notin claimed

(* A reservation that is not there yet has at most the one request about   *)
(* it that will insert it.                                                 *)
Inserting ==
  \A c \in Processes, b \in Bookings : About(call[c], b) =>
    IF Creating(call[c])
      THEN status[b] = "ABSENT" /\ \A e \in Processes \ {c} : ~About(call[e], b)
      ELSE status[b] # "ABSENT"

Worth(c) ==
  /\ Taking(call[c]) => RoomFor(call[c])
  /\ Writing(call[c]) => status[call[c].booking] \in Change[call[c].change].from

BookingInv ==
  /\ BookingTypes
  /\ Inserting
  /\ ~disturbed => NoClash /\ \A c \in Processes \ stale : Worth(c)

-----------------------------------------------------------------------------
(* The table of changes: all of them start from an occupying status.       *)
LEMMA BookingChanges ==
  ASSUME NEW t \in DOMAIN Change
  PROVE  Change[t].from \subseteq Occupying /\ Change[t].to \in Statuses \ {"ABSENT"}
  BY DEF Change, Statuses, Occupying, Final

(* Overlapping is mutual.                                                  *)
LEMMA BookingOverlap ==
  ASSUME NEW v, NEW w, ~Overlap(v, w)
  PROVE  ~Overlap(w, v)
  BY DEF Overlap

(* What a request can be, by what it does.                                 *)
LEMMA BookingRequest ==
  ASSUME NEW q \in Requests
  PROVE  /\ Taking(q) => q.window \in Windows /\ ~Writing(q)
         /\ Writing(q) => q.change \in DOMAIN Change
         /\ q.op \notin {"none", "block"} => q.booking \in Bookings
         /\ Writing(q) => About(q, q.booking) /\ ~Creating(q)
         /\ q.op = "change" => q.change \in DOMAIN Change
         /\ q.op = "none" => ~Taking(q) /\ ~Writing(q)
  BY DEF Requests, Taking, Writing, Creating, About, Idle

(* A step that leaves the tables alone and gives c a new request.          *)
LEMMA BookingCallStep ==
  ASSUME BookingInv,
         NEW c \in Processes, NEW q \in Requests, c \in Runners => ~Taking(q),
         call' = [call EXCEPT ![c] = q],
         UNCHANGED <<status, window, blocks, disturbed>>,
         stale' \subseteq Processes, stale \ {c} \subseteq stale',
         ~disturbed /\ c \notin stale' /\ Taking(q) => RoomFor(q),
         ~disturbed /\ c \notin stale' /\ Writing(q) =>
           status[q.booking] \in Change[q.change].from,
         \A b \in Bookings : About(q, b) =>
           IF Creating(q)
             THEN status[b] = "ABSENT" /\ \A e \in Processes : ~About(call[e], b)
             ELSE status[b] # "ABSENT"
  PROVE  BookingInv'
<1>1. /\ \A e \in Processes \ {c} : call'[e] = call[e]
      /\ call'[c] = q
      /\ call' \in [Processes -> Requests]
  BY DEF BookingInv, BookingTypes
<1>2. BookingTypes'
  BY <1>1 DEF BookingInv, BookingTypes, Taking, Processes, Runners
<1>3. Inserting'
  <2> SUFFICES ASSUME NEW d \in Processes, NEW b \in Bookings, About(call'[d], b)
               PROVE  IF Creating(call'[d])
                        THEN status[b] = "ABSENT"
                               /\ \A e \in Processes \ {d} : ~About(call'[e], b)
                        ELSE status[b] # "ABSENT"
    BY <1>1 DEF Inserting, About, Creating
  <2>1. CASE d = c
    BY <1>1, <2>1
  <2>2. CASE d # c
    <3>1. IF Creating(call[d])
            THEN status[b] = "ABSENT" /\ \A e \in Processes \ {d} : ~About(call[e], b)
            ELSE status[b] # "ABSENT"
      BY <1>1, <2>2 DEF BookingInv, Inserting
    <3>2. Creating(call[d]) => ~About(q, b)
      BY <3>1, <1>1, <2>2
    <3> QED BY <1>1, <2>2, <3>1, <3>2
  <2> QED BY <2>1, <2>2
<1>4. ASSUME ~disturbed, NEW d \in Processes, d \notin stale'
      PROVE  /\ Taking(call'[d]) => RoomFor(call'[d])
             /\ Writing(call'[d]) =>
                  status[call'[d].booking] \in Change[call'[d].change].from
  <2>1. CASE d = c
    BY <1>1, <1>4, <2>1
  <2>2. CASE d # c
    BY <1>1, <1>4, <2>2 DEF BookingInv, Worth
  <2> QED BY <2>1, <2>2
<1>5. ~disturbed => NoClash'
  BY DEF BookingInv, NoClash
<1>6. ~disturbed => \A d \in Processes \ stale' : Worth(d)'
  BY <1>4 DEF Worth, RoomFor, Taking, Writing, Change
<1> QED BY <1>2, <1>3, <1>5, <1>6 DEF BookingInv

(* The reservation goes into the table: requests that wait for the same    *)
(* time are outdated now, and none is about the row itself.                *)
LEMMA BookingInsert ==
  ASSUME BookingInv, NEW c \in Processes, Insert(c)
  PROVE  BookingInv'
<1> DEFINE b == call[c].booking
           w == call[c].window
           q == [op |-> "create", step |-> "start", booking |-> b]
<1>1. /\ Creating(call[c]) /\ Taking(call[c]) /\ About(call[c], b)
      /\ b \in Bookings /\ w \in Windows
      /\ c \in Callers
  BY BookingRequest
     DEF BookingInv, BookingTypes, Insert, Creating, Taking, About, Processes
<1>2. /\ q \in Requests /\ ~Taking(q) /\ ~Writing(q) /\ ~Creating(q)
      /\ \A a : About(q, a) <=> a = b
  BY <1>1 DEF Requests, Taking, Writing, Creating, About
<1>3. /\ call' = [call EXCEPT ![c] = q]
      /\ \E s \in {"PENDING", "APPROVED"} : status' = [status EXCEPT ![b] = s]
      /\ window' = [window EXCEPT ![b] = w]
      /\ blocks' = blocks
      /\ stale' = (stale \cup StaleByRoom(c, w)) \ {c}
      /\ disturbed' = (disturbed \/ c \in stale)
  BY DEF Insert, Continue, NoteWrite
<1> HIDE DEF q
<1>4. /\ call' \in [Processes -> Requests] /\ call'[c] = q
      /\ \A d \in Processes \ {c} : call'[d] = call[d]
  BY <1>2, <1>3 DEF BookingInv, BookingTypes
<1>5. /\ status' \in [Bookings -> Statuses] /\ status'[b] \in Occupying
      /\ status'[b] # "ABSENT"
      /\ \A a \in Bookings \ {b} : status'[a] = status[a] /\ window'[a] = window[a]
      /\ window'[b] = w /\ window' \in [Bookings -> Times]
  BY <1>1, <1>3, BookingAssumption
     DEF BookingInv, BookingTypes, Statuses, Occupying, Times
<1>6. BookingTypes'
  <2>1. stale' \subseteq Processes
    BY <1>3 DEF BookingInv, BookingTypes, StaleByRoom, Processes
  <2>2. (\A r \in Runners : ~Taking(call[r]))'
    BY <1>1, <1>2, <1>4, BookingAssumption
       DEF BookingInv, BookingTypes, Taking, Processes, Runners
  <2> QED BY <1>3, <1>4, <1>5, <2>1, <2>2 DEF BookingInv, BookingTypes
<1>7. \A d \in Processes \ {c} : ~About(call[d], b)
  BY <1>1 DEF BookingInv, Inserting
<1>8. Inserting'
  <2> SUFFICES ASSUME NEW d \in Processes, NEW a \in Bookings, About(call'[d], a)
               PROVE  IF Creating(call'[d])
                        THEN status'[a] = "ABSENT"
                               /\ \A e \in Processes \ {d} : ~About(call'[e], a)
                        ELSE status'[a] # "ABSENT"
    BY DEF Inserting, About, Creating
  <2>1. CASE d = c
    BY <1>2, <1>4, <1>5, <2>1
  <2>2. CASE d # c
    <3>1. a # b /\ status'[a] = status[a]
      BY <1>4, <1>5, <1>7, <2>2
    <3>2. IF Creating(call[d])
            THEN status[a] = "ABSENT" /\ \A e \in Processes \ {d} : ~About(call[e], a)
            ELSE status[a] # "ABSENT"
      BY <1>4, <2>2 DEF BookingInv, Inserting
    <3> QED BY <1>2, <1>4, <2>2, <3>1, <3>2
  <2> QED BY <2>1, <2>2
<1>9. ASSUME ~disturbed'
      PROVE  NoClash' /\ \A d \in Processes \ stale' : Worth(d)'
  <2>1. /\ ~disturbed /\ c \notin stale
        /\ NoClash /\ RoomFor(call[c])
        /\ \A d \in Processes \ stale : Worth(d)
    BY <1>1, <1>3, <1>9 DEF BookingInv, Worth
  <2>2. /\ \A a \in Bookings : status[a] \in Occupying => ~Overlap(window[a], w)
        /\ \A v \in blocks : ~Overlap(v, w)
    BY <1>1, <2>1 DEF RoomFor, Creating
  <2>3. NoClash'
    <3> SUFFICES ASSUME NEW x \in Bookings, status'[x] \in Occupying
                 PROVE  /\ \A a \in Bookings \ {x} :
                             status'[a] \in Occupying => ~Overlap(window'[a], window'[x])
                        /\ \A v \in blocks : ~Overlap(v, window'[x])
      BY <1>3 DEF NoClash, Overlap, Occupying
    <3>1. CASE x = b
      BY <1>5, <2>2, <3>1
    <3>2. CASE x # b
      <4>1. status[x] \in Occupying /\ ~Overlap(w, window[x])
        BY <1>5, <2>2, <3>2, BookingOverlap
      <4> QED BY <1>5, <2>1, <3>2, <4>1 DEF NoClash
    <3> QED BY <3>1, <3>2
  <2>4. ASSUME NEW d \in Processes, d \notin stale'
        PROVE  Worth(d)'
    <3>1. CASE d = c
      BY <1>2, <1>4, <3>1 DEF Worth, Taking, Writing
    <3>2. CASE d # c
      <4>1. Worth(d) /\ call'[d] = call[d] /\ call[d] \in Requests
        BY <1>3, <1>4, <2>1, <2>4, <3>2 DEF BookingInv, BookingTypes
      <4>2. Taking(call[d]) => RoomFor(call[d])'
        <5> SUFFICES ASSUME Taking(call[d]) PROVE RoomFor(call[d])'
          OBVIOUS
        <5>1. RoomFor(call[d]) /\ d \in Callers
          BY <4>1 DEF Worth, BookingInv, BookingTypes, Processes
        <5>2. ~Overlap(w, call[d].window)
          <6>1. ~Overlap(call[d].window, w)
            BY <1>3, <2>4, <3>2, <5>1 DEF StaleByRoom, Taking
          <6> QED BY <6>1, BookingOverlap
        <5> QED BY <1>3, <1>4, <1>5, <3>2, <5>1, <5>2 DEF RoomFor, Overlap, Occupying
      <4>3. Writing(call[d]) => status'[call[d].booking] = status[call[d].booking]
        BY <1>5, <1>7, <3>2, <4>1, BookingRequest DEF Writing
      <4> QED BY <4>1, <4>2, <4>3 DEF Worth, Taking, Writing, RoomFor, Change
    <3> QED BY <3>1, <3>2
  <2> QED BY <2>3, <2>4
<1> QED BY <1>6, <1>8, <1>9 DEF BookingInv

(* Inserting looks at who is about what and at who is there; it is kept    *)
(* when c goes on without being about more, and nobody vanishes.           *)
LEMMA BookingGoOn ==
  ASSUME BookingInv, NEW c \in Processes, NEW q \in Requests,
         call' = [call EXCEPT ![c] = q],
         ~Creating(q), ~Creating(call[c]),
         \A b \in Bookings : About(q, b) => About(call[c], b),
         \A b \in Bookings : (status'[b] = "ABSENT") <=> (status[b] = "ABSENT")
  PROVE  Inserting'
<1>1. call'[c] = q /\ \A d \in Processes \ {c} : call'[d] = call[d]
  BY DEF BookingInv, BookingTypes
<1> SUFFICES ASSUME NEW d \in Processes, NEW a \in Bookings, About(call'[d], a)
             PROVE  IF Creating(call'[d])
                      THEN status'[a] = "ABSENT"
                             /\ \A e \in Processes \ {d} : ~About(call'[e], a)
                      ELSE status'[a] # "ABSENT"
  BY DEF Inserting, About, Creating
<1>2. About(call[d], a) /\ (Creating(call'[d]) <=> Creating(call[d]))
  BY <1>1
<1>3. IF Creating(call[d])
        THEN status[a] = "ABSENT" /\ \A e \in Processes \ {d} : ~About(call[e], a)
        ELSE status[a] # "ABSENT"
  BY <1>2 DEF BookingInv, Inserting
<1>4. \A e \in Processes : About(call'[e], a) => About(call[e], a)
  BY <1>1
<1> QED BY <1>2, <1>3, <1>4

LEMMA BookingMove ==
  ASSUME BookingInv, NEW c \in Processes, Move(c)
  PROVE  BookingInv'
<1> DEFINE b == call[c].booking
           w == call[c].window
<1>1. /\ ~Creating(call[c]) /\ Taking(call[c]) /\ About(call[c], b)
      /\ call[c].op = "update" /\ b \in Bookings /\ w \in Windows
  BY BookingRequest DEF BookingInv, BookingTypes, Move, Creating, Taking, About
<1>2. /\ Idle \in Requests /\ ~Taking(Idle) /\ ~Writing(Idle) /\ ~Creating(Idle)
      /\ \A a : ~About(Idle, a)
  BY DEF Idle, Requests, Taking, Writing, Creating, About
<1>3. /\ call' = [call EXCEPT ![c] = Idle]
      /\ status' = status
      /\ window' = [window EXCEPT ![b] = w]
      /\ blocks' = blocks
      /\ stale' = (stale \cup StaleByRoom(c, w)) \ {c}
      /\ disturbed' = (disturbed \/ c \in stale)
  BY DEF Move, End, Continue, NoteWrite
<1>4. /\ call' \in [Processes -> Requests] /\ call'[c] = Idle
      /\ \A d \in Processes \ {c} : call'[d] = call[d]
  BY <1>2, <1>3 DEF BookingInv, BookingTypes
<1>5. /\ \A a \in Bookings \ {b} : window'[a] = window[a]
      /\ window'[b] = w /\ window' \in [Bookings -> Times]
  BY <1>1, <1>3, BookingAssumption DEF BookingInv, BookingTypes, Times
<1>6. BookingTypes'
  <2>1. stale' \subseteq Processes
    BY <1>3 DEF BookingInv, BookingTypes, StaleByRoom, Processes
  <2>2. (\A r \in Runners : ~Taking(call[r]))'
    BY <1>2, <1>4 DEF BookingInv, BookingTypes, Taking, Processes, Runners
  <2> QED BY <1>3, <1>4, <1>5, <2>1, <2>2 DEF BookingInv, BookingTypes
<1>7. Inserting'
  BY <1>1, <1>2, <1>3, BookingGoOn
<1>8. ASSUME ~disturbed'
      PROVE  NoClash' /\ \A d \in Processes \ stale' : Worth(d)'
  <2>1. /\ ~disturbed /\ c \notin stale
        /\ NoClash /\ RoomFor(call[c])
        /\ \A d \in Processes \ stale : Worth(d)
    BY <1>1, <1>3, <1>8 DEF BookingInv, Worth
  <2>2. /\ \A a \in Bookings \ {b} : status[a] \in Occupying => ~Overlap(window[a], w)
        /\ \A v \in blocks : ~Overlap(v, w)
    BY <1>1, <2>1 DEF RoomFor
  <2>3. NoClash'
    <3> SUFFICES ASSUME NEW x \in Bookings, status[x] \in Occupying
                 PROVE  /\ \A a \in Bookings \ {x} :
                             status[a] \in Occupying => ~Overlap(window'[a], window'[x])
                        /\ \A v \in blocks : ~Overlap(v, window'[x])
      BY <1>3 DEF NoClash, Overlap, Occupying
    <3>1. CASE x = b
      BY <1>5, <2>2, <3>1
    <3>2. CASE x # b
      <4>1. ~Overlap(w, window[x])
        BY <2>2, <3>2, BookingOverlap
      <4> QED BY <1>5, <2>1, <3>2, <4>1 DEF NoClash
    <3> QED BY <3>1, <3>2
  <2>4. ASSUME NEW d \in Processes, d \notin stale'
        PROVE  Worth(d)'
    <3>1. CASE d = c
      BY <1>2, <1>4, <3>1 DEF Worth, Taking, Writing
    <3>2. CASE d # c
      <4>1. Worth(d) /\ call'[d] = call[d] /\ call[d] \in Requests
        BY <1>3, <1>4, <2>1, <2>4, <3>2 DEF BookingInv, BookingTypes
      <4>2. Taking(call[d]) => RoomFor(call[d])'
        <5> SUFFICES ASSUME Taking(call[d]) PROVE RoomFor(call[d])'
          OBVIOUS
        <5>1. RoomFor(call[d]) /\ d \in Callers
          BY <4>1 DEF Worth, BookingInv, BookingTypes, Processes
        <5>2. ~Overlap(w, call[d].window)
          <6>1. ~Overlap(call[d].window, w)
            BY <1>3, <2>4, <3>2, <5>1 DEF StaleByRoom, Taking
          <6> QED BY <6>1, BookingOverlap
        <5> QED BY <1>3, <1>4, <1>5, <3>2, <5>1, <5>2 DEF RoomFor, Overlap, Occupying
      <4> QED BY <1>3, <4>1, <4>2 DEF Worth, Taking, Writing, RoomFor, Change
    <3> QED BY <3>1, <3>2
  <2> QED BY <2>3, <2>4
<1> QED BY <1>6, <1>7, <1>8 DEF BookingInv

LEMMA BookingInsertBlock ==
  ASSUME BookingInv, NEW c \in Processes, InsertBlock(c)
  PROVE  BookingInv'
<1> DEFINE w == call[c].window
<1>1. ~Creating(call[c]) /\ Taking(call[c]) /\ call[c].op = "block" /\ w \in Windows
  BY BookingRequest DEF BookingInv, BookingTypes, InsertBlock, Creating, Taking
<1>2. /\ Idle \in Requests /\ ~Taking(Idle) /\ ~Writing(Idle) /\ ~Creating(Idle)
      /\ \A a : ~About(Idle, a)
  BY DEF Idle, Requests, Taking, Writing, Creating, About
<1>3. /\ call' = [call EXCEPT ![c] = Idle]
      /\ status' = status /\ window' = window
      /\ blocks' = blocks \cup {w}
      /\ stale' = (stale \cup StaleByRoom(c, w)) \ {c}
      /\ disturbed' = (disturbed \/ c \in stale)
  BY DEF InsertBlock, End, Continue, NoteWrite
<1>4. /\ call' \in [Processes -> Requests] /\ call'[c] = Idle
      /\ \A d \in Processes \ {c} : call'[d] = call[d]
  BY <1>2, <1>3 DEF BookingInv, BookingTypes
<1>5. BookingTypes'
  <2>1. stale' \subseteq Processes /\ blocks' \subseteq Windows
    BY <1>1, <1>3 DEF BookingInv, BookingTypes, StaleByRoom, Processes
  <2>2. (\A r \in Runners : ~Taking(call[r]))'
    BY <1>2, <1>4 DEF BookingInv, BookingTypes, Taking, Processes, Runners
  <2> QED BY <1>3, <1>4, <2>1, <2>2 DEF BookingInv, BookingTypes
<1>6. Inserting'
  BY <1>1, <1>2, <1>3, BookingGoOn
<1>7. ASSUME ~disturbed'
      PROVE  NoClash' /\ \A d \in Processes \ stale' : Worth(d)'
  <2>1. /\ ~disturbed /\ c \notin stale
        /\ NoClash /\ RoomFor(call[c])
        /\ \A d \in Processes \ stale : Worth(d)
    BY <1>1, <1>3, <1>7 DEF BookingInv, Worth
  <2>2. \A a \in Bookings : status[a] \in Occupying => ~Overlap(w, window[a])
    BY <1>1, <2>1, BookingOverlap DEF RoomFor
  <2>3. NoClash'
    BY <1>3, <2>1, <2>2 DEF NoClash, Overlap, Occupying
  <2>4. ASSUME NEW d \in Processes, d \notin stale'
        PROVE  Worth(d)'
    <3>1. CASE d = c
      BY <1>2, <1>4, <3>1 DEF Worth, Taking, Writing
    <3>2. CASE d # c
      <4>1. Worth(d) /\ call'[d] = call[d] /\ call[d] \in Requests
        BY <1>3, <1>4, <2>1, <2>4, <3>2 DEF BookingInv, BookingTypes
      <4>2. Taking(call[d]) => RoomFor(call[d])'
        <5> SUFFICES ASSUME Taking(call[d]) PROVE RoomFor(call[d])'
          OBVIOUS
        <5>1. RoomFor(call[d]) /\ d \in Callers
          BY <4>1 DEF Worth, BookingInv, BookingTypes, Processes
        <5>2. ~Overlap(w, call[d].window)
          <6>1. ~Overlap(call[d].window, w)
            BY <1>3, <2>4, <3>2, <5>1 DEF StaleByRoom, Taking
          <6> QED BY <6>1, BookingOverlap
        <5> QED BY <1>3, <1>4, <3>2, <5>1, <5>2 DEF RoomFor, Overlap, Occupying
      <4> QED BY <1>3, <4>1, <4>2 DEF Worth, Taking, Writing, RoomFor, Change
    <3> QED BY <3>1, <3>2
  <2> QED BY <2>3, <2>4
<1> QED BY <1>5, <1>6, <1>7 DEF BookingInv

(* A status is written: the reservation had its time already, or gives it  *)
(* up.                                                                     *)
LEMMA BookingWriteStatus ==
  ASSUME BookingInv, NEW c \in Processes, WriteStatus(c)
  PROVE  BookingInv'
<1> DEFINE b == call[c].booking
           t == call[c].change
           q == [call[c] EXCEPT !.step = "read"]
<1>1. /\ ~Creating(call[c]) /\ Writing(call[c]) /\ About(call[c], b)
      /\ b \in Bookings /\ t \in DOMAIN Change
  BY BookingRequest DEF BookingInv, BookingTypes, WriteStatus, Creating, Writing, About
<1>2. /\ q \in Requests /\ ~Taking(q) /\ ~Writing(q) /\ ~Creating(q)
      /\ \A a : About(q, a) <=> About(call[c], a)
  <2>1. call[c] \in [op : {"change"}, step : {"write", "read", "move"},
                     booking : Bookings, change : DOMAIN Change]
    BY <1>1 DEF BookingInv, BookingTypes, Requests, Writing, Idle
  <2> QED BY <2>1 DEF Requests, Taking, Writing, Creating, About
<1>3. /\ call' = [call EXCEPT ![c] = q]
      /\ status' = [status EXCEPT ![b] = Change[t].to]
      /\ window' = window /\ blocks' = blocks
      /\ stale' = (stale \cup StaleByStatus(c, b)) \ {c}
      /\ disturbed' = (disturbed \/ c \in stale)
  BY DEF WriteStatus, Continue, NoteWrite
<1> HIDE DEF q
<1>4. /\ call' \in [Processes -> Requests] /\ call'[c] = q
      /\ \A d \in Processes \ {c} : call'[d] = call[d]
  BY <1>2, <1>3 DEF BookingInv, BookingTypes
<1>5. /\ Change[t].to \in Statuses \ {"ABSENT"} /\ Change[t].from \subseteq Occupying
  BY <1>1, BookingChanges
<1>6. PICK s \in Statuses \ {"ABSENT"} : status' = [status EXCEPT ![b] = s]
  BY <1>3, <1>5
<1>7. /\ status' \in [Bookings -> Statuses] /\ status'[b] # "ABSENT"
      /\ \A a \in Bookings \ {b} : status'[a] = status[a]
      /\ status[b] # "ABSENT"
  BY <1>1, <1>6 DEF BookingInv, BookingTypes, Inserting
<1>8. BookingTypes'
  <2>1. stale' \subseteq Processes
    BY <1>3 DEF BookingInv, BookingTypes, StaleByStatus, Processes
  <2>2. (\A r \in Runners : ~Taking(call[r]))'
    BY <1>2, <1>4 DEF BookingInv, BookingTypes, Taking, Processes, Runners
  <2> QED BY <1>3, <1>4, <1>7, <2>1, <2>2 DEF BookingInv, BookingTypes
<1>9. Inserting'
  BY <1>1, <1>2, <1>3, <1>7, BookingGoOn
<1>10. ASSUME ~disturbed'
       PROVE  NoClash' /\ \A d \in Processes \ stale' : Worth(d)'
  <2>1. /\ ~disturbed /\ c \notin stale
        /\ NoClash /\ status[b] \in Occupying
        /\ \A d \in Processes \ stale : Worth(d)
    BY <1>1, <1>3, <1>5, <1>10 DEF BookingInv, Worth
  <2>2. \A a \in Bookings : status'[a] \in Occupying => status[a] \in Occupying
    BY <1>7, <2>1
  <2>3. NoClash'
    BY <1>3, <2>1, <2>2 DEF NoClash, Overlap, Occupying
  <2>4. ASSUME NEW d \in Processes, d \notin stale'
        PROVE  Worth(d)'
    <3>1. CASE d = c
      BY <1>2, <1>4, <3>1 DEF Worth, Taking, Writing
    <3>2. CASE d # c
      <4>1. Worth(d) /\ call'[d] = call[d] /\ call[d] \in Requests
        BY <1>3, <1>4, <2>1, <2>4, <3>2 DEF BookingInv, BookingTypes
      <4>2. Taking(call[d]) => RoomFor(call[d])'
        BY <1>3, <2>2, <4>1 DEF Worth, RoomFor, Overlap, Occupying
      <4>3. Writing(call[d]) => status'[call[d].booking] = status[call[d].booking]
        <5>1. d \notin StaleByStatus(c, b)
          BY <1>3, <2>4, <3>2
        <5>2. Writing(call[d]) => ~On(d, b)
          BY <3>2, <5>1 DEF StaleByStatus, Writing, Processes
        <5>3. Writing(call[d]) => call[d].booking # b /\ call[d].booking \in Bookings
          BY <4>1, <5>2, BookingRequest DEF On, Writing
        <5> QED BY <1>7, <5>3
      <4> QED BY <4>1, <4>2, <4>3 DEF Worth, Taking, Writing, RoomFor, Change
    <3> QED BY <3>1, <3>2
  <2> QED BY <2>3, <2>4
<1> QED BY <1>8, <1>9, <1>10 DEF BookingInv

-----------------------------------------------------------------------------
(* A request that is over.                                                 *)
LEMMA BookingEndStep ==
  ASSUME BookingInv, NEW c \in Processes, End(c),
         UNCHANGED <<status, window, blocks, disturbed>>,
         stale' \subseteq Processes, stale \ {c} \subseteq stale'
  PROVE  BookingInv'
<1>1. /\ Idle \in Requests /\ ~Taking(Idle) /\ ~Writing(Idle)
      /\ \A b : ~About(Idle, b)
  BY DEF Idle, Requests, Taking, Writing, About
<1> QED BY <1>1, BookingCallStep DEF End, Continue

(* A request about a reservation that is there goes on about it.           *)
LEMMA BookingContinue ==
  ASSUME BookingInv, NEW c \in Processes, NEW q \in Requests, Continue(c, q),
         UNCHANGED <<status, window, blocks, stale, disturbed>>,
         ~Taking(q), ~Writing(q), ~Creating(q), ~Creating(call[c]),
         \A b \in Bookings : About(q, b) => About(call[c], b)
  PROVE  BookingInv'
<1>1. \A b \in Bookings : About(q, b) => status[b] # "ABSENT"
  BY DEF BookingInv, Inserting
<1>2. stale' \subseteq Processes /\ stale \ {c} \subseteq stale'
  BY DEF BookingInv, BookingTypes
<1> QED BY <1>1, <1>2, BookingCallStep DEF Continue

LEMMA BookingBeginCreate ==
  ASSUME BookingInv, NEW c \in Callers, NEW b \in Bookings, NEW w \in Windows,
         BeginCreate(c, b, w)
  PROVE  BookingInv'
<1> DEFINE q == [op |-> "create", step |-> "take", booking |-> b, window |-> w]
<1>1. /\ q \in Requests /\ ~Writing(q) /\ Creating(q)
      /\ \A a : About(q, a) <=> a = b
  BY DEF Requests, Writing, Creating, About
<1>2. RoomFor(q)
  BY DEF BeginCreate, Available, Conflicting, Blocked, RoomFor
<1>3. status[b] = "ABSENT" /\ \A e \in Processes : ~About(call[e], b)
  BY DEF BeginCreate, On, About, BookingInv, BookingTypes
<1>4. /\ call' = [call EXCEPT ![c] = q]
      /\ UNCHANGED <<status, window, blocks, stale, disturbed>>
  BY DEF BeginCreate, Continue, bookingVars, readVars
<1>5. /\ c \in Processes /\ c \notin Runners
      /\ stale' \subseteq Processes /\ stale \ {c} \subseteq stale'
  BY <1>4, BookingAssumption DEF Processes, Runners, BookingInv, BookingTypes
<1> HIDE DEF q
<1> QED BY <1>1, <1>2, <1>3, <1>4, <1>5, BookingCallStep

LEMMA BookingBeginUpdate ==
  ASSUME BookingInv, NEW c \in Callers, NEW b \in Bookings, NEW w \in Windows,
         BeginUpdate(c, b, w)
  PROVE  BookingInv'
<1> DEFINE q == [op |-> "update", step |-> "take", booking |-> b, window |-> w]
<1>1. /\ q \in Requests /\ ~Writing(q) /\ ~Creating(q)
      /\ \A a : About(q, a) <=> a = b
  BY DEF Requests, Writing, Creating, About
<1>2. RoomFor(q)
  BY DEF BeginUpdate, Available, Conflicting, Blocked, RoomFor
<1>3. status[b] # "ABSENT"
  BY DEF BeginUpdate
<1>4. /\ call' = [call EXCEPT ![c] = q]
      /\ UNCHANGED <<status, window, blocks, stale, disturbed>>
  BY DEF BeginUpdate, Continue, bookingVars, readVars
<1>5. /\ c \in Processes /\ c \notin Runners
      /\ stale' \subseteq Processes /\ stale \ {c} \subseteq stale'
  BY <1>4, BookingAssumption DEF Processes, Runners, BookingInv, BookingTypes
<1> HIDE DEF q
<1> QED BY <1>1, <1>2, <1>3, <1>4, <1>5, BookingCallStep

LEMMA BookingBeginBlock ==
  ASSUME BookingInv, NEW c \in Callers, NEW w \in Windows, BeginBlock(c, w)
  PROVE  BookingInv'
<1> DEFINE q == [op |-> "block", step |-> "take", window |-> w]
<1>1. q \in Requests /\ ~Writing(q) /\ ~Creating(q) /\ \A a : ~About(q, a)
  BY DEF Requests, Writing, Creating, About
<1>2. RoomFor(q)
  BY DEF BeginBlock, Conflicting, RoomFor
<1>3. /\ call' = [call EXCEPT ![c] = q]
      /\ UNCHANGED <<status, window, blocks, stale, disturbed>>
  BY DEF BeginBlock, Continue, bookingVars, readVars
<1>4. /\ c \in Processes /\ c \notin Runners
      /\ stale' \subseteq Processes /\ stale \ {c} \subseteq stale'
  BY <1>3, BookingAssumption DEF Processes, Runners, BookingInv, BookingTypes
<1> HIDE DEF q
<1> QED BY <1>1, <1>2, <1>3, <1>4, BookingCallStep

(* A change starts from a status it may start from.                        *)
LEMMA BookingStart ==
  ASSUME BookingInv, NEW c \in Processes, NEW b \in Bookings, NEW t \in DOMAIN Change,
         May(b, t), Start(c, b, t),
         UNCHANGED <<status, window, blocks, disturbed>>
  PROVE  BookingInv'
<1> DEFINE q == [op |-> "change", step |-> "write", booking |-> b, change |-> t]
<1>1. /\ q \in Requests /\ ~Taking(q) /\ ~Creating(q)
      /\ q.booking = b /\ q.change = t
      /\ \A a : About(q, a) <=> a = b
  BY DEF Requests, Taking, Creating, About
<1>2. status[b] \in Change[t].from /\ status[b] # "ABSENT"
  BY BookingChanges DEF May, Occupying
<1>3. call' = [call EXCEPT ![c] = q]
  BY DEF Start, Continue
<1>4. stale' \subseteq Processes /\ stale \ {c} \subseteq stale'
  BY DEF Start, BookingInv, BookingTypes
<1> HIDE DEF q
<1> QED BY <1>1, <1>2, <1>3, <1>4, BookingCallStep

(* The steps of a request that creates a reservation after the insertion.  *)
LEMMA BookingCreated ==
  ASSUME BookingInv, NEW c \in Processes,
         StartWorkflow(c) \/ AutoApprove(c) \/ ScheduleJobs(c)
  PROVE  BookingInv'
<1> DEFINE b == call[c].booking
           q(s) == [op |-> "create", step |-> s, booking |-> b]
<1>1. /\ ~Creating(call[c]) /\ b \in Bookings /\ About(call[c], b)
      /\ UNCHANGED <<status, window, blocks, stale, disturbed>>
  BY BookingRequest
     DEF BookingInv, BookingTypes, StartWorkflow, AutoApprove, ScheduleJobs,
         Creating, About, bookingVars, readVars
<1>2. \A s \in {"auto", "jobs"} :
        /\ q(s) \in Requests /\ ~Taking(q(s)) /\ ~Writing(q(s)) /\ ~Creating(q(s))
        /\ \A a : About(q(s), a) => a = b
  BY <1>1 DEF Requests, Taking, Writing, Creating, About
<1>3. End(c) \/ Continue(c, q("auto")) \/ Continue(c, q("jobs"))
  BY DEF StartWorkflow, AutoApprove, ScheduleJobs
<1>4. stale' \subseteq Processes /\ stale \ {c} \subseteq stale'
  BY <1>1 DEF BookingInv, BookingTypes
<1> HIDE DEF q, b
<1>5. CASE End(c)
  BY <1>1, <1>4, <1>5, BookingEndStep
<1>6. ASSUME NEW s \in {"auto", "jobs"}, Continue(c, q(s))
      PROVE  BookingInv'
  <2>1. /\ q(s) \in Requests /\ ~Taking(q(s)) /\ ~Writing(q(s)) /\ ~Creating(q(s))
        /\ \A a \in Bookings : About(q(s), a) => About(call[c], a)
    BY <1>1, <1>2
  <2> QED BY <1>1, <1>6, <2>1, BookingContinue
<1> QED BY <1>3, <1>5, <1>6

(* transitionWorkflow has found a target.                                  *)
LEMMA BookingFind ==
  ASSUME BookingInv, NEW c \in Processes, Find(c)
  PROVE  BookingInv'
<1> DEFINE q == [call[c] EXCEPT !.step = "move"]
<1>1. call[c] \in [op : {"change"}, step : {"write", "read", "move"},
                   booking : Bookings, change : DOMAIN Change]
  BY DEF Find, BookingInv, BookingTypes, Requests, Idle
<1>2. /\ q \in Requests /\ ~Taking(q) /\ ~Writing(q) /\ ~Creating(q)
      /\ ~Creating(call[c])
      /\ \A a : About(q, a) => About(call[c], a)
  BY <1>1 DEF Requests, Taking, Writing, Creating, About
<1>3. /\ Continue(c, q)
      /\ UNCHANGED <<status, window, blocks, stale, disturbed>>
  BY DEF Find, bookingVars, readVars
<1> HIDE DEF q
<1> QED BY <1>2, <1>3, BookingContinue

(* A request about a reservation that is there, which neither takes time   *)
(* nor writes a status next.                                               *)
LEMMA BookingTurn ==
  ASSUME BookingInv, NEW c \in Processes, NEW q \in Requests, Continue(c, q),
         UNCHANGED <<status, window, blocks, disturbed>>,
         stale' \subseteq Processes, stale \ {c} \subseteq stale',
         q.op \in {"end", "direct"},
         \A b \in Bookings : About(q, b) => status[b] # "ABSENT"
  PROVE  BookingInv'
<1>1. ~Taking(q) /\ ~Writing(q) /\ ~Creating(q)
  BY DEF Taking, Writing, Creating
<1> QED BY <1>1, BookingCallStep DEF Continue

(* What the worker and the requests that run a job carry.                  *)
LEMMA BookingRan ==
  ASSUME NEW b \in Bookings, NEW z \in {"count", "run", "handle", "complete", "fail"}
  PROVE  /\ Ran(b, z) \in Requests
         /\ Ran(b, z).op = "end" /\ Ran(b, z).step = z
         /\ \A a : About(Ran(b, z), a) <=> a = b
         /\ ~Taking(Ran(b, z)) /\ ~Writing(Ran(b, z)) /\ ~Creating(Ran(b, z))
  BY DEF Ran, Requests, About, Taking, Writing, Creating

(* A request about a reservation goes on with running its job.             *)
LEMMA BookingRuns ==
  ASSUME BookingInv, NEW c \in Processes, NEW b \in Bookings, status[b] # "ABSENT",
         NEW z \in {"count", "run", "handle", "complete", "fail"},
         Continue(c, Ran(b, z)),
         UNCHANGED <<status, window, blocks, disturbed>>,
         stale' \subseteq Processes, stale \ {c} \subseteq stale'
  PROVE  BookingInv'
<1> DEFINE q == Ran(b, z)
<1>1. q \in Requests /\ q.op \in {"end", "direct"} /\ \A a : About(q, a) <=> a = b
  BY BookingRan
<1> HIDE DEF q
<1> QED BY <1>1, BookingTurn DEF q

(* The reservation a request is about, and that it is there.               *)
LEMMA BookingAbout ==
  ASSUME BookingInv, NEW c \in Processes,
         call[c].op \in {"change", "end", "direct"}
           \/ (call[c].op = "create" /\ call[c].step # "take")
  PROVE  /\ call[c] \in Requests
         /\ call[c].booking \in Bookings
         /\ About(call[c], call[c].booking)
         /\ status[call[c].booking] # "ABSENT"
<1>1. call[c] \in Requests /\ call[c].booking \in Bookings
  BY BookingRequest DEF BookingInv, BookingTypes
<1>2. About(call[c], call[c].booking) /\ ~Creating(call[c])
  BY DEF About, Creating
<1> QED BY <1>1, <1>2 DEF BookingInv, Inserting

(* The handler of an end job: it returns, or looks again, or throws.       *)
LEMMA BookingHandle ==
  ASSUME BookingInv, NEW c \in Processes, Handle(c)
  PROVE  BookingInv'
<1>0. PICK b : b = call[c].booking
  OBVIOUS
<1>1. b \in Bookings /\ status[b] # "ABSENT"
  BY <1>0, BookingAbout DEF Handle
<1>2. /\ UNCHANGED <<status, window, blocks, disturbed>>
      /\ stale' \subseteq Processes /\ stale \ {c} \subseteq stale'
  BY DEF Handle, bookingVars, readVars, BookingInv, BookingTypes
<1>3. CASE Continue(c, Ran(b, "complete"))
  BY <1>1, <1>2, <1>3, BookingRuns
<1>4. ASSUME NEW t \in EndChange(b),
             Continue(c, [op |-> "end", step |-> "again", booking |-> b, change |-> t])
      PROVE  BookingInv'
  <2> DEFINE q == [op |-> "end", step |-> "again", booking |-> b, change |-> t]
  <2>1. t \in DOMAIN Change
    BY DEF EndChange, Change
  <2>2. q \in Requests /\ q.op = "end" /\ \A a : About(q, a) <=> a = b
    BY <1>1, <2>1 DEF Requests, About
  <2>3. Continue(c, q)
    BY <1>4
  <2> HIDE DEF q
  <2> QED BY <1>1, <1>2, <2>2, <2>3, BookingTurn
<1> QED BY <1>0, <1>3, <1>4 DEF Handle

LEMMA BookingEndAgain ==
  ASSUME BookingInv, NEW c \in Processes, EndAgain(c)
  PROVE  BookingInv'
<1>0. PICK b, t : b = call[c].booking /\ t = call[c].change
  OBVIOUS
<1>1. UNCHANGED <<status, window, blocks, disturbed>>
  BY DEF EndAgain, bookingVars
<1>2. b \in Bookings /\ status[b] # "ABSENT"
  BY <1>0, BookingAbout DEF EndAgain
<1>3. t \in DOMAIN Change
  <2>1. call[c] \in Requests /\ call[c].op = "end" /\ call[c].step = "again"
    BY BookingAbout DEF EndAgain
  <2> QED BY <1>0, <2>1 DEF Requests, Idle
<1>4. CASE May(b, t) /\ Start(c, b, t)
  BY <1>1, <1>2, <1>3, <1>4, BookingStart
<1>5. CASE Continue(c, Ran(b, "fail")) /\ UNCHANGED stale
  <2>1. stale' \subseteq Processes /\ stale \ {c} \subseteq stale'
    BY <1>5 DEF BookingInv, BookingTypes
  <2> QED BY <1>1, <1>2, <1>5, <2>1, BookingRuns
<1> QED BY <1>0, <1>4, <1>5 DEF EndAgain, MayNow

(* The request is given up, or what its handler threw is caught.           *)
LEMMA BookingLeave ==
  ASSUME BookingInv, NEW c \in Processes, Leave(c)
  PROVE  BookingInv'
<1>1. /\ End(c) /\ stale' = stale \ {c}
      /\ UNCHANGED <<status, window, blocks, disturbed>>
  BY DEF Leave, Stopped, bookingVars
<1> QED BY <1>1, BookingEndStep DEF BookingInv, BookingTypes

LEMMA BookingThrow ==
  ASSUME BookingInv, NEW c \in Processes, call[c] # Idle, Throw(c)
  PROVE  BookingInv'
<1>1. CASE Leave(c)
  BY <1>1, BookingLeave
<1>2. CASE /\ c \in Runners
           /\ Stopped(c) /\ Continue(c, Ran(call[c].booking, "fail"))
  <2>0. PICK b : b = call[c].booking
    OBVIOUS
  <2>1. call[c].op \in {"change", "end", "direct"}
          \/ (call[c].op = "create" /\ call[c].step # "take")
    BY <1>2 DEF BookingInv, BookingTypes, Requests, Taking, Idle
  <2>2. b \in Bookings /\ status[b] # "ABSENT"
    BY <2>0, <2>1, BookingAbout
  <2>3. /\ UNCHANGED <<status, window, blocks, disturbed>>
        /\ stale' = stale \ {c}
    BY <1>2 DEF Stopped, bookingVars
  <2>4. stale' \subseteq Processes /\ stale \ {c} \subseteq stale'
    BY <2>3 DEF BookingInv, BookingTypes
  <2>5. Continue(c, Ran(b, "fail"))
    BY <1>2, <2>0
  <2> QED BY <2>2, <2>3, <2>4, <2>5, BookingRuns
<1> QED BY <1>1, <1>2 DEF Throw, Caught, Runners

(* The workflow is moved, by the change of a status ...                    *)
LEMMA BookingMoveWorkflow ==
  ASSUME BookingInv, NEW c \in Processes, MoveWorkflow(c)
  PROVE  BookingInv'
<1>0. PICK b : b = call[c].booking
  OBVIOUS
<1>1. b \in Bookings /\ status[b] # "ABSENT"
  BY <1>0, BookingAbout DEF MoveWorkflow
<1>2. /\ UNCHANGED <<status, window, blocks, disturbed>>
      /\ stale' \subseteq Processes /\ stale \ {c} \subseteq stale'
  BY DEF MoveWorkflow, bookingVars, readVars, BookingInv, BookingTypes
<1>3. CASE Continue(c, Ran(b, "complete"))
  BY <1>1, <1>2, <1>3, BookingRuns
<1>4. CASE End(c)
  BY <1>2, <1>4, BookingEndStep
<1> QED BY <1>0, <1>3, <1>4 DEF MoveWorkflow, End

(* ... or directly.                                                        *)
LEMMA BookingDirect ==
  ASSUME BookingInv, NEW c \in Callers, NEW b \in Bookings, BeginDirect(c, b)
  PROVE  BookingInv'
<1>1. PICK t \in Transitions :
        /\ t[1] = workflow[b]
        /\ Continue(c, [op |-> "direct", step |-> "transit", booking |-> b, to |-> t[3]])
  BY DEF BeginDirect
<1> DEFINE q == [op |-> "direct", step |-> "transit", booking |-> b, to |-> t[3]]
<1>2. t[3] \in Statuses
  BY DEF Transitions, Statuses, Occupying, Final
<1>3. status[b] # "ABSENT"
  BY DEF BeginDirect
<1>4. q \in Requests /\ q.op = "direct" /\ \A a : About(q, a) <=> a = b
  BY <1>2 DEF Requests, About
<1>5. /\ UNCHANGED <<status, window, blocks, disturbed>>
      /\ stale' \subseteq Processes /\ stale \ {c} \subseteq stale'
      /\ c \in Processes
  BY DEF BeginDirect, bookingVars, readVars, BookingInv, BookingTypes, Processes
<1>6. Continue(c, q)
  BY <1>1
<1> HIDE DEF q
<1> QED BY <1>3, <1>4, <1>5, <1>6, BookingTurn

LEMMA BookingInitially == Init => BookingInv
<1> SUFFICES ASSUME Init PROVE BookingInv
  OBVIOUS
<1>1. \A c \in Processes : call[c] = Idle
  BY DEF Init
<1>2. Idle \in Requests /\ ~Taking(Idle) /\ ~Writing(Idle) /\ \A b : ~About(Idle, b)
  BY DEF Idle, Requests, Taking, Writing, About
<1>3. BookingTypes
  BY <1>1, <1>2 DEF Init, BookingTypes, Processes, Runners, Statuses, Times, NoWindow
<1>4. Inserting
  BY <1>1, <1>2 DEF Inserting
<1>5. NoClash
  BY DEF Init, NoClash, Occupying
<1>6. \A c \in Processes : Worth(c)
  BY <1>1, <1>2 DEF Worth
<1> QED BY <1>3, <1>4, <1>5, <1>6 DEF BookingInv

LEMMA BookingUnchanged ==
  ASSUME BookingInv, UNCHANGED <<status, window, blocks, call, stale, disturbed>>
  PROVE  BookingInv'
  BY DEF BookingInv, BookingTypes, Inserting, NoClash, Worth, Taking, Writing,
         Creating, About, RoomFor, Overlap, Occupying, Change, Requests, Statuses,
         Times, Processes, Runners, Idle

(* Nobody vanishes.                                                        *)
LEMMA BookingStays ==
  ASSUME BookingInv, [Next]_vars, NEW b \in Bookings, status'[b] = "ABSENT"
  PROVE  status[b] = "ABSENT"
<1>1. CASE status' = status
  BY <1>1
<1>2. ASSUME NEW c \in Processes, Insert(c)
      PROVE  status[b] = "ABSENT"
  BY <1>2 DEF Insert, BookingInv, BookingTypes
<1>3. ASSUME NEW c \in Processes, WriteStatus(c)
      PROVE  status[b] = "ABSENT"
  <2>1. call[c].change \in DOMAIN Change
    BY <1>3, BookingAbout, BookingRequest DEF WriteStatus
  <2>2. Change[call[c].change].to # "ABSENT"
    BY <2>1, BookingChanges
  <2> QED BY <1>3, <2>2 DEF WriteStatus, BookingInv, BookingTypes
<1>4. ASSUME NEW c \in Processes, Proceed(c), status' # status
      PROVE  Insert(c) \/ WriteStatus(c)
  BY <1>4 DEF Proceed, StartWorkflow, AutoApprove, ScheduleJobs, Move, InsertBlock,
              MoveDirect, Find, MoveWorkflow, Handle, EndAgain, Refused, Throw, Leave,
              Stopped, bookingVars
<1>5. ASSUME NEW c \in Callers, BeginRequest(c)
      PROVE  status' = status
  BY <1>5 DEF BeginRequest, BeginCreate, BeginUpdate, BeginBlock, BeginChange,
              StartDirect, BeginDirect, bookingVars
<1>6. ASSUME NEW c \in Processes, StatementFails(c) \/ Crash(c)
      PROVE  status' = status
  BY <1>6 DEF StatementFails, Crash, Throw, Leave, Stopped, bookingVars
<1>7. ASSUME WorkerStep
      PROVE  status' = status
  BY <1>7 DEF WorkerStep, StartWorker, Shutdown, Claim, Execute, Complete, Fail,
              bookingVars
<1>8. ASSUME NEW o \in Operators, WorkByHand(o) \/ \E a \in Bookings : RunByHand(o, a)
      PROVE  status' = status
  BY <1>8 DEF WorkByHand, CountByHand, CallByHand, EndByHand, RunByHand, bookingVars
<1>9. ASSUME (\E a \in Bookings : Age(a)) \/ OtherJobAborts \/ Tick \/ UNCHANGED vars
      PROVE  status' = status
  BY <1>9 DEF Age, OtherJobAborts, Tick, vars, bookingVars
<1> QED BY <1>1, <1>2, <1>3, <1>4, <1>5, <1>6, <1>7, <1>8, <1>9 DEF Next

(* A job is created for a reservation that is there, and written when it   *)
(* is there itself.                                                        *)
LEMMA BookingScheduled ==
  ASSUME BookingInv, Scheduled, [Next]_vars
  PROVE  Scheduled'
<1>1. CASE endJob' = endJob /\ claimed' \subseteq claimed
  BY <1>1, BookingStays DEF Scheduled
<1>2. ASSUME NEW c \in Processes, NEW z \in JobStatuses, status' = status,
             call[c].op \in {"change", "end", "direct"}
               \/ (call[c].op = "create" /\ call[c].step # "take"),
             endJob' = [endJob EXCEPT ![call[c].booking] = z],
             claimed' \subseteq claimed
      PROVE  Scheduled'
  <2>1. call[c].booking \in Bookings /\ status[call[c].booking] # "ABSENT"
    BY <1>2, BookingAbout
  <2> QED BY <1>2, <2>1 DEF Scheduled
<1>3. ASSUME NEW c \in Processes, Proceed(c)
      PROVE  Scheduled'
  <2>1. CASE ScheduleJobs(c)
    <3>1. status' = status /\ claimed' = claimed
      BY <2>1 DEF ScheduleJobs, bookingVars, workerVars
    <3>2. CASE endJob' = endJob
      BY <1>1, <3>1, <3>2
    <3>3. CASE endJob' = [endJob EXCEPT ![call[c].booking] = "PENDING"]
      BY <1>2, <2>1, <3>1, <3>3 DEF ScheduleJobs, JobStatuses
    <3> QED BY <2>1, <3>2, <3>3 DEF ScheduleJobs
  <2>2. ASSUME ~ScheduleJobs(c)
        PROVE  endJob' = endJob /\ claimed' \subseteq claimed
    BY <1>3, <2>2
       DEF Proceed, Insert, StartWorkflow, AutoApprove, Move, InsertBlock, MoveDirect,
           WriteStatus, Find, MoveWorkflow, Handle, EndAgain, Refused, Throw, Leave,
           Stopped, jobVars, workerVars
  <2> QED BY <1>1, <2>1, <2>2
<1>4. ASSUME NEW c \in Callers, BeginRequest(c)
      PROVE  endJob' = endJob /\ claimed' = claimed
  BY <1>4 DEF BeginRequest, BeginCreate, BeginUpdate, BeginBlock, BeginChange,
              StartDirect, BeginDirect, jobVars, workerVars
<1>5. ASSUME NEW c \in Processes, StatementFails(c) \/ Crash(c)
      PROVE  endJob' = endJob /\ claimed' \subseteq claimed
  BY <1>5 DEF StatementFails, Crash, Throw, Leave, Stopped, jobVars
<1>6. CASE WorkerStep
  <2>1. CASE StartWorker
    BY <2>1 DEF StartWorker, Scheduled, JobStatuses, bookingVars
  <2>2. CASE Shutdown \/ \E b \in Bookings : Execute(b)
    BY <1>1, <2>2 DEF Shutdown, Execute, jobVars, workerVars
  <2>3. CASE Claim
    <3>1. PICK bs \in SUBSET {b \in Bookings : Due(b)} :
            /\ claimed' = bs
            /\ endJob' = [b \in Bookings |-> IF b \in bs THEN "RUNNING" ELSE endJob[b]]
      BY <2>3 DEF Claim
    <3>2. \A b \in bs : b \in Bookings /\ endJob[b] # "ABSENT"
      BY <3>1 DEF Due
    <3>3. status' = status
      BY <2>3 DEF Claim, bookingVars
    <3> QED BY <3>1, <3>2, <3>3 DEF Scheduled, JobStatuses
  <2>4. CASE Complete
    BY <1>1, <1>2, <2>4
       DEF Complete, WriteJob, Finish, bookingVars, JobStatuses, Processes, Runners
  <2>5. CASE Fail
    BY <1>1, <1>2, <2>5
       DEF Fail, WriteJob, Finish, bookingVars, JobStatuses, Processes, Runners
  <2> QED BY <1>6, <2>1, <2>2, <2>3, <2>4, <2>5 DEF WorkerStep
<1>7. ASSUME NEW o \in Operators, WorkByHand(o) \/ \E b \in Bookings : RunByHand(o, b)
      PROVE  Scheduled'
  <2>1. o \in Processes
    BY DEF Processes, Runners
  <2>2. CASE CountByHand(o) \/ \E b \in Bookings : RunByHand(o, b)
    BY <1>1, <2>2 DEF CountByHand, RunByHand, jobVars, workerVars
  <2>3. CASE CallByHand(o)
    BY <1>2, <2>1, <2>3 DEF CallByHand, WriteJob, bookingVars, workerVars, JobStatuses
  <2>4. CASE EndByHand(o)
    <3>1. PICK z \in {"FAILED", "COMPLETED"} :
            endJob' = [endJob EXCEPT ![call[o].booking] = z]
      BY <2>4 DEF EndByHand, WriteJob
    <3>2. call[o].op = "end" /\ status' = status /\ claimed' = claimed
      BY <2>4 DEF EndByHand, bookingVars, workerVars
    <3>3. z \in JobStatuses /\ claimed' \subseteq claimed
      BY <3>2 DEF JobStatuses
    <3>4. call[o].booking \in Bookings /\ status[call[o].booking] # "ABSENT"
      BY <2>1, <3>2, BookingAbout
    <3> QED BY <3>1, <3>2, <3>3, <3>4 DEF Scheduled
  <2> QED BY <1>7, <2>2, <2>3, <2>4 DEF WorkByHand
<1>8. CASE (\E b \in Bookings : Age(b)) \/ OtherJobAborts \/ Tick \/ UNCHANGED vars
  BY <1>1, <1>8 DEF Age, OtherJobAborts, Tick, vars, jobVars, workerVars
<1> QED BY <1>1, <1>3, <1>4, <1>5, <1>6, <1>7, <1>8 DEF Next

LEMMA BookingInductive ==
  BookingInv /\ Scheduled /\ [Next]_vars => BookingInv' /\ Scheduled'
<1> SUFFICES ASSUME BookingInv, Scheduled, [Next]_vars
             PROVE  BookingInv'
  BY BookingScheduled
<1>0. CASE UNCHANGED <<bookingVars, call, readVars>>
  BY <1>0, BookingUnchanged DEF bookingVars, readVars
<1>1. ASSUME NEW c \in Callers, BeginRequest(c)
      PROVE  BookingInv'
  <2>1. ASSUME NEW b \in Bookings, NEW t \in DOMAIN Change, BeginChange(c, b, t)
        PROVE  BookingInv'
    BY <2>1, BookingStart DEF BeginChange, MayNow, bookingVars, Processes
  <2>2. ASSUME NEW b \in Bookings, StartDirect(c, b)
        PROVE  BookingInv'
    BY <1>0, <2>2 DEF StartDirect
  <2> QED BY <1>1, <2>1, <2>2, BookingBeginCreate, BookingBeginUpdate,
             BookingBeginBlock, BookingDirect DEF BeginRequest
<1>2. ASSUME NEW c \in Processes, Proceed(c)
      PROVE  BookingInv'
  <2>1. CASE MoveDirect(c)
    <3>1. End(c) /\ UNCHANGED <<status, window, blocks, stale, disturbed>>
      BY <2>1 DEF MoveDirect, bookingVars, readVars
    <3> QED BY <3>1, BookingEndStep DEF BookingInv, BookingTypes
  <2>2. CASE Refused(c)
    BY <2>2, BookingThrow DEF Refused, Idle
  <2> QED BY <1>2, <2>1, <2>2, BookingInsert, BookingCreated, BookingMove,
             BookingInsertBlock, BookingWriteStatus, BookingFind, BookingMoveWorkflow,
             BookingHandle, BookingEndAgain DEF Proceed
<1>3. ASSUME NEW c \in Processes, StatementFails(c) \/ Crash(c)
      PROVE  BookingInv'
  BY <1>3, BookingThrow, BookingLeave DEF StatementFails, Crash
<1>4. ASSUME NEW c \in Runners, NEW b \in Bookings, status[b] # "ABSENT",
             NEW z \in {"count", "run", "handle", "complete", "fail"},
             Continue(c, Ran(b, z)), UNCHANGED <<bookingVars, readVars>>
      PROVE  BookingInv'
  <2>1. /\ UNCHANGED <<status, window, blocks, disturbed>>
        /\ stale' \subseteq Processes /\ stale \ {c} \subseteq stale'
        /\ c \in Processes
    BY <1>4 DEF bookingVars, readVars, BookingInv, BookingTypes, Processes
  <2> QED BY <1>4, <2>1, BookingRuns
<1>5. ASSUME NEW c \in Runners, NEW z \in {"count", "run", "handle", "complete", "fail"},
             call[c].op = "end", UNCHANGED <<bookingVars, readVars>>,
             Continue(c, Ran(call[c].booking, z)) \/ End(c)
      PROVE  BookingInv'
  <2>0. PICK b : b = call[c].booking
    OBVIOUS
  <2>1. c \in Processes /\ call[c].op \in {"change", "end", "direct"}
    BY <1>5 DEF Processes
  <2>4. b \in Bookings /\ status[b] # "ABSENT"
    BY <2>0, <2>1, BookingAbout
  <2>2. CASE End(c)
    <3>1. UNCHANGED <<status, window, blocks, stale, disturbed>>
      BY <1>5 DEF bookingVars, readVars
    <3>2. stale' \subseteq Processes /\ stale \ {c} \subseteq stale'
      BY <3>1 DEF BookingInv, BookingTypes
    <3> QED BY <2>1, <2>2, <3>1, <3>2, BookingEndStep
  <2>3. CASE Continue(c, Ran(call[c].booking, z))
    <3>1. Continue(c, Ran(b, z)) /\ UNCHANGED <<bookingVars, readVars>>
      BY <1>5, <2>0, <2>3
    <3> QED BY <1>4, <2>4, <3>1
  <2> QED BY <1>5, <2>2, <2>3
<1>6. CASE WorkerStep
  <2>1. CASE StartWorker \/ Shutdown \/ Claim
    BY <1>0, <2>1 DEF StartWorker, Shutdown, Claim
  <2>2. ASSUME NEW b \in Bookings, Execute(b)
        PROVE  BookingInv'
    BY <1>4, <2>2 DEF Execute, Runners, Scheduled
  <2>3. CASE Complete \/ Fail
    BY <1>5, <2>3 DEF Complete, Fail, Finish, Runners
  <2> QED BY <1>6, <2>1, <2>2, <2>3 DEF WorkerStep
<1>7. ASSUME NEW o \in Operators, WorkByHand(o)
      PROVE  BookingInv'
  BY <1>5, <1>7 DEF WorkByHand, CountByHand, CallByHand, EndByHand, Runners
<1>8. ASSUME NEW o \in Operators, NEW b \in Bookings, RunByHand(o, b)
      PROVE  BookingInv'
  BY <1>4, <1>8 DEF RunByHand, Runners, Scheduled
<1>9. CASE (\E b \in Bookings : Age(b)) \/ OtherJobAborts \/ Tick \/ UNCHANGED vars
  BY <1>0, <1>9 DEF Age, OtherJobAborts, Tick, vars
<1> QED BY <1>1, <1>2, <1>3, <1>6, <1>7, <1>8, <1>9 DEF Next

LEMMA ScheduledInitially == Init => Scheduled
  BY DEF Init, Scheduled, JobStatuses

(* No double booking (checkAvailability, createReservation,                *)
(* updateReservation and createResourceBlock): unless somebody writes on   *)
(* what another request has outdated, no two reservations that hold time   *)
(* overlap, and none overlaps a block.                                     *)
THEOREM BookingNoDoubleBooking == Spec => []NoDoubleBooking
<1>1. BookingInv => NoDoubleBooking
  <2>1. NoClash =>
          /\ \A b \in Bookings : status[b] \in Occupying =>
               Conflicting(window[b], {b}) = {}
          /\ \A b \in Bookings : status[b] \in Occupying => ~Blocked(window[b])
    BY DEF NoClash, Conflicting, Blocked
  <2> QED BY <2>1 DEF BookingInv, NoDoubleBooking
<1> QED BY <1>1, BookingInitially, ScheduledInitially, BookingInductive, PTL DEF Spec

-----------------------------------------------------------------------------
(* The workflow follows the reservation.  FollowInv adds to BookingInv     *)
(* what a request half way through is still to do, that there is one of    *)
(* them at a time, and that a request about to write a status that nobody  *)
(* has overtaken finds none.                                               *)
HalfIn(q, b) == About(q, b) /\ q.step \in {"start", "auto", "read", "move"}

(* The status s and the workflow state w that q has made and found.        *)
Fits(q, s, w) ==
  /\ q.step = "start" => w = "NONE" /\ s = IF approval THEN "PENDING" ELSE "APPROVED"
  /\ q.step = "auto" => w = "PENDING" /\ s = "APPROVED"
  /\ q.step \in {"read", "move"} =>
       /\ q.change \in DOMAIN Change
       /\ w \in Change[q.change].from
       /\ s = Change[q.change].to

ToDo(q, b) == Fits(q, status[b], workflow[b])

Follows(b) ==
  /\ \A c \in Processes : HalfIn(call[c], b) =>
       ToDo(call[c], b) /\ \A e \in Processes \ {c} : ~HalfIn(call[e], b)
  /\ \A c \in Processes \ stale : Writing(call[c]) /\ About(call[c], b) =>
       \A e \in Processes : ~HalfIn(call[e], b)
  /\ status[b] # "ABSENT" /\ (\A c \in Processes : ~HalfIn(call[c], b)) =>
       workflow[b] = status[b]

FollowTypes ==
  /\ workflow \in [Bookings -> {"NONE"} \cup Statuses]
  /\ cutOff \subseteq Bookings
  /\ moved \subseteq Bookings
  /\ \A b \in Bookings : status[b] = "ABSENT" => workflow[b] = "NONE"

(* A request stopped half way, or the instance was moved by itself.        *)
Apart == cutOff \cup moved

FollowInv ==
  /\ BookingInv
  /\ FollowTypes
  /\ ~disturbed => \A b \in Bookings \ Apart : Follows(b)

(* What a step that is not about b leaves of b.                            *)
LEMMA FollowFrame ==
  ASSUME NEW b \in Bookings, Follows(b), NEW c \in Processes, NEW q,
         call \in [Processes -> Requests],
         call' = [call EXCEPT ![c] = q],
         approval' = approval, status'[b] = status[b], workflow'[b] = workflow[b],
         stale \ {c} \subseteq stale',
         ~HalfIn(call[c], b), ~HalfIn(q, b),
         Writing(q) => ~About(q, b)
  PROVE  Follows(b)'
<1>1. call'[c] = q /\ \A d \in Processes \ {c} : call'[d] = call[d]
  OBVIOUS
<1>2. \A d \in Processes : HalfIn(call'[d], b) <=> HalfIn(call[d], b)
  BY <1>1
<1>3. ASSUME NEW d \in Processes, HalfIn(call'[d], b)
      PROVE  ToDo(call[d], b)' /\ \A e \in Processes \ {d} : ~HalfIn(call'[e], b)
  <2>1. d # c /\ call'[d] = call[d]
    BY <1>1, <1>3
  <2>2. ToDo(call[d], b) /\ \A e \in Processes \ {d} : ~HalfIn(call[e], b)
    BY <1>2, <1>3 DEF Follows
  <2> QED BY <1>2, <2>1, <2>2 DEF ToDo, Fits, Change
<1>4. ASSUME NEW d \in Processes, d \notin stale', Writing(call'[d]), About(call'[d], b)
      PROVE  \A e \in Processes : ~HalfIn(call'[e], b)
  <2>1. d # c /\ call'[d] = call[d] /\ d \notin stale
    BY <1>1, <1>4
  <2> QED BY <1>2, <1>4, <2>1 DEF Follows
<1>5. status'[b] # "ABSENT" /\ (\A d \in Processes : ~HalfIn(call'[d], b)) =>
        workflow'[b] = status'[b]
  BY <1>2 DEF Follows
<1>6. \A d \in Processes : HalfIn(call[d], b)' =>
        ToDo(call[d], b)' /\ \A e \in Processes \ {d} : ~HalfIn(call[e], b)'
  BY <1>3 DEF HalfIn, About
<1>7. \A d \in Processes \ stale' : Writing(call[d])' /\ About(call[d], b)' =>
        \A e \in Processes : ~HalfIn(call[e], b)'
  BY <1>4 DEF HalfIn, About, Writing
<1> QED BY <1>5, <1>6, <1>7 DEF Follows, HalfIn, About, Writing

(* A step that leaves status and workflow alone and begins or ends nothing *)
(* half way, but for what is apart from now on.                            *)
LEMMA FollowAside ==
  ASSUME FollowInv, BookingInv', FollowTypes', NEW c \in Processes, NEW q,
         call' = [call EXCEPT ![c] = q],
         UNCHANGED <<approval, status>>,
         cutOff \subseteq cutOff', moved \subseteq moved',
         disturbed => disturbed', stale \ {c} \subseteq stale',
         ~Writing(q),
         \A b \in Bookings \ Apart' :
           workflow'[b] = workflow[b] /\ ~HalfIn(call[c], b) /\ ~HalfIn(q, b)
  PROVE  FollowInv'
<1>1. ASSUME ~disturbed', NEW b \in Bookings, b \notin Apart'
      PROVE  Follows(b)'
  <2>1. b \notin Apart
    BY <1>1 DEF Apart
  <2>2. Follows(b) /\ call \in [Processes -> Requests]
    BY <1>1, <2>1 DEF FollowInv, BookingInv, BookingTypes
  <2> QED BY <1>1, <2>2, FollowFrame
<1> QED BY <1>1 DEF FollowInv

LEMMA FollowQuiet ==
  ASSUME FollowInv, BookingInv', NEW c \in Processes, NEW q,
         call' = [call EXCEPT ![c] = q],
         UNCHANGED <<approval, status, workflow, moved>>,
         cutOff \subseteq cutOff', cutOff' \subseteq Bookings,
         disturbed => disturbed', stale \ {c} \subseteq stale',
         ~Writing(q),
         \A b \in Bookings \ cutOff' : ~HalfIn(call[c], b) /\ ~HalfIn(q, b)
  PROVE  FollowInv'
<1>1. FollowTypes'
  BY DEF FollowInv, FollowTypes, Statuses, Occupying, Final
<1>2. \A b \in Bookings \ Apart' :
        workflow'[b] = workflow[b] /\ ~HalfIn(call[c], b) /\ ~HalfIn(q, b)
  BY DEF Apart
<1> QED BY <1>1, <1>2, FollowAside

(* A step that is about b, taken by the only request half way through it.  *)
LEMMA FollowStep ==
  ASSUME FollowInv, BookingInv', FollowTypes',
         NEW c \in Processes, NEW b \in Bookings, NEW q,
         call' = [call EXCEPT ![c] = q],
         UNCHANGED <<approval, cutOff, moved>>,
         disturbed => disturbed', stale \ {c} \subseteq stale',
         ~Writing(q),
         \A a \in Bookings \ {b} :
           /\ status'[a] = status[a] /\ workflow'[a] = workflow[a]
           /\ ~About(call[c], a) /\ ~About(q, a),
         ~disturbed' /\ b \notin Apart =>
           /\ \A e \in Processes \ {c} : ~HalfIn(call[e], b)
           /\ \A e \in Processes \ {c} : e \notin stale' =>
                ~(Writing(call[e]) /\ About(call[e], b))
           /\ HalfIn(q, b) => Fits(q, status'[b], workflow'[b])
           /\ ~HalfIn(q, b) => workflow'[b] = status'[b]
  PROVE  FollowInv'
<1>1. /\ call \in [Processes -> Requests]
      /\ call'[c] = q /\ \A d \in Processes \ {c} : call'[d] = call[d]
  BY DEF FollowInv, BookingInv, BookingTypes
<1>0. Apart' = Apart
  BY DEF Apart
<1>2. ASSUME ~disturbed', NEW a \in Bookings, a \notin Apart', a # b
      PROVE  Follows(a)'
  <2>1. Follows(a)
    BY <1>0, <1>2 DEF FollowInv
  <2> QED BY <1>1, <1>2, <2>1, FollowFrame DEF HalfIn
<1>3. ASSUME ~disturbed', b \notin Apart'
      PROVE  Follows(b)'
  <2>1. /\ \A e \in Processes \ {c} : ~HalfIn(call'[e], b)
        /\ \A e \in Processes \ stale' : ~(Writing(call'[e]) /\ About(call'[e], b))
    BY <1>0, <1>1, <1>3
  <2>2. \A d \in Processes : HalfIn(call'[d], b) =>
          d = c /\ (HalfIn(q, b) => Fits(call'[d], status'[b], workflow'[b]))
    BY <1>0, <1>1, <1>3, <2>1
  <2>3. \A d \in Processes : HalfIn(call[d], b)' =>
          ToDo(call[d], b)' /\ \A e \in Processes \ {d} : ~HalfIn(call[e], b)'
    BY <1>1, <2>1, <2>2 DEF HalfIn, About, ToDo, Fits, Change
  <2>4. \A d \in Processes \ stale' : ~(Writing(call[d])' /\ About(call[d], b)')
    BY <2>1 DEF Writing, About
  <2>5. (\A d \in Processes : ~HalfIn(call[d], b)') => workflow'[b] = status'[b]
    <3>1. (\A d \in Processes : ~HalfIn(call'[d], b)) => ~HalfIn(q, b)
      BY <1>1
    <3> QED BY <1>0, <1>3, <3>1 DEF HalfIn, About
  <2> QED BY <2>3, <2>4, <2>5 DEF Follows
<1> QED BY <1>2, <1>3 DEF FollowInv

(* The workflow accepts what the reservation allowed.                      *)
LEMMA FollowTargets ==
  ASSUME NEW t \in DOMAIN Change, NEW s \in Change[t].from
  PROVE  Targets(s, Change[t].action) # {}
<1>1. t \in {"approve", "reject", "cancel", "checkIn", "complete", "markNoShow"}
  BY DEF Change
<1>2. CASE t = "approve"
  <2>1. <<s, "approve", "APPROVED">> \in Targets(s, "approve")
    BY <1>2 DEF Targets, Transitions, Change
  <2> QED BY <1>2, <2>1 DEF Change
<1>3. CASE t = "reject"
  <2>1. <<s, "reject", "REJECTED">> \in Targets(s, "reject")
    BY <1>3 DEF Targets, Transitions, Change
  <2> QED BY <1>3, <2>1 DEF Change
<1>4. CASE t = "cancel"
  <2>1. <<s, "cancel", "CANCELLED">> \in Targets(s, "cancel")
    BY <1>4 DEF Targets, Transitions, Change
  <2> QED BY <1>4, <2>1 DEF Change
<1>5. CASE t = "checkIn"
  <2>1. <<s, "check-in", "CHECKED_IN">> \in Targets(s, "check-in")
    BY <1>5 DEF Targets, Transitions, Change
  <2> QED BY <1>5, <2>1 DEF Change
<1>6. CASE t = "complete"
  <2>1. <<s, "complete", "COMPLETED">> \in Targets(s, "complete")
    BY <1>6 DEF Targets, Transitions, Change
  <2> QED BY <1>6, <2>1 DEF Change
<1>7. CASE t = "markNoShow"
  <2>1. <<s, "no-show", "NO_SHOW">> \in Targets(s, "no-show")
    BY <1>7 DEF Targets, Transitions, Change
  <2> QED BY <1>7, <2>1 DEF Change
<1> QED BY <1>1, <1>2, <1>3, <1>4, <1>5, <1>6, <1>7

LEMMA FollowInsert ==
  ASSUME FollowInv, BookingInv', NEW c \in Processes, Insert(c)
  PROVE  FollowInv'
<1>0. PICK b : b = call[c].booking
  OBVIOUS
<1>1. /\ Creating(call[c]) /\ b \in Bookings
      /\ \A a : About(call[c], a) <=> a = b
  BY <1>0, BookingRequest
     DEF FollowInv, BookingInv, BookingTypes, Insert, Creating, About
<1>2. PICK q : q = [op |-> "create", step |-> "start", booking |-> b]
  OBVIOUS
<1>3. /\ ~Writing(q) /\ HalfIn(q, b) /\ \A a : About(q, a) <=> a = b
      /\ q.step = "start"
  BY <1>2 DEF Writing, HalfIn, About
<1>4. PICK s \in {"PENDING", "APPROVED"} :
        /\ s = IF approval THEN "PENDING" ELSE "APPROVED"
        /\ status' = [status EXCEPT ![b] = s]
  BY <1>0 DEF Insert
<1>5. /\ call' = [call EXCEPT ![c] = q]
      /\ UNCHANGED <<approval, workflow, cutOff, moved>>
      /\ disturbed => disturbed'
      /\ stale \ {c} \subseteq stale'
  BY <1>0, <1>2 DEF Insert, Continue, NoteWrite, histVars
<1>6. /\ status[b] = "ABSENT" /\ workflow[b] = "NONE"
      /\ \A e \in Processes \ {c} : ~About(call[e], b)
  BY <1>1 DEF FollowInv, FollowTypes, BookingInv, Inserting
<1>7. status'[b] = s /\ \A a \in Bookings \ {b} : status'[a] = status[a]
  BY <1>1, <1>4 DEF FollowInv, BookingInv, BookingTypes
<1>8. FollowTypes'
  BY <1>5, <1>7 DEF FollowInv, FollowTypes, Statuses, Occupying, Final
<1>9. Fits(q, status'[b], workflow'[b])
  BY <1>3, <1>4, <1>5, <1>6, <1>7 DEF Fits
<1>10. \A a \in Bookings \ {b} :
         /\ status'[a] = status[a] /\ workflow'[a] = workflow[a]
         /\ ~About(call[c], a) /\ ~About(q, a)
  BY <1>1, <1>3, <1>5, <1>7
<1>11. \A e \in Processes \ {c} : ~HalfIn(call[e], b) /\ ~About(call[e], b)
  BY <1>6 DEF HalfIn
<1>12. /\ \A e \in Processes \ {c} : ~HalfIn(call[e], b)
       /\ \A e \in Processes \ {c} : e \notin stale' =>
            ~(Writing(call[e]) /\ About(call[e], b))
       /\ HalfIn(q, b) => Fits(q, status'[b], workflow'[b])
       /\ ~HalfIn(q, b) => workflow'[b] = status'[b]
  BY <1>3, <1>9, <1>11
<1>13. UNCHANGED <<approval, cutOff, moved>>
  BY <1>5
<1>14. b \in Bookings /\ ~Writing(q)
  BY <1>1, <1>3
<1> QED BY <1>5, <1>8, <1>10, <1>12, <1>13, <1>14, FollowStep

(* A request half way through is the only one, and no request that is      *)
(* about to write the status is up to date.                                *)
LEMMA FollowAlone ==
  ASSUME FollowInv, ~disturbed, NEW b \in Bookings, b \notin Apart,
         NEW c \in Processes, HalfIn(call[c], b)
  PROVE  /\ ToDo(call[c], b)
         /\ \A e \in Processes \ {c} : ~HalfIn(call[e], b)
         /\ \A e \in Processes \ stale : ~(Writing(call[e]) /\ About(call[e], b))
  BY DEF FollowInv, Follows

(* The two steps of the workflow of a new reservation.                     *)
LEMMA FollowCreated ==
  ASSUME FollowInv, BookingInv', NEW c \in Processes, StartWorkflow(c) \/ AutoApprove(c)
  PROVE  FollowInv'
<1>0. PICK b : b = call[c].booking
  OBVIOUS
<1>1. /\ b \in Bookings /\ \A a : About(call[c], a) <=> a = b
      /\ HalfIn(call[c], b) /\ status[b] # "ABSENT"
  <2>1. /\ b \in Bookings /\ \A a : About(call[c], a) <=> a = b
        /\ HalfIn(call[c], b) /\ ~Creating(call[c])
    BY <1>0, BookingRequest
       DEF FollowInv, BookingInv, BookingTypes, StartWorkflow, AutoApprove, About,
           HalfIn, Creating
  <2> QED BY <2>1 DEF FollowInv, BookingInv, Inserting
<1>2. PICK z \in {"auto", "jobs"}, v \in Statuses :
        /\ call' = [call EXCEPT ![c] = [op |-> "create", step |-> z, booking |-> b]]
        /\ workflow' = [workflow EXCEPT ![b] = v]
        /\ \/ /\ call[c].step = "start" /\ v = "PENDING"
              /\ z = IF approval THEN "jobs" ELSE "auto"
           \/ /\ call[c].step = "auto" /\ z = "jobs"
              /\ workflow[b] = "PENDING" => v = "APPROVED"
  <2>1. CASE StartWorkflow(c)
    BY <1>0, <2>1 DEF StartWorkflow, Continue, Statuses, Occupying
  <2>2. CASE AutoApprove(c)
    <3>1. PICK x \in Targets(workflow[b], "approve") :
            workflow' = [workflow EXCEPT ![b] = x[3]]
      BY <1>0, <2>2 DEF AutoApprove
    <3>2. x[3] = "APPROVED"
      BY DEF Targets, Transitions
    <3> QED BY <1>0, <2>2, <3>1, <3>2 DEF AutoApprove, Continue, Statuses, Occupying
  <2> QED BY <2>1, <2>2
<1>3. PICK q : q = [op |-> "create", step |-> z, booking |-> b]
  OBVIOUS
<1>4. /\ ~Writing(q) /\ q.step = z
      /\ HalfIn(q, b) <=> z = "auto"
      /\ \A a : About(q, a) <=> a = b
  BY <1>3 DEF Writing, HalfIn, About
<1>5. /\ call' = [call EXCEPT ![c] = q]
      /\ UNCHANGED <<approval, status, cutOff, moved, stale, disturbed>>
  BY <1>2, <1>3 DEF StartWorkflow, AutoApprove, bookingVars, readVars, histVars
<1>6. /\ UNCHANGED <<approval, cutOff, moved>>
      /\ disturbed => disturbed'
      /\ stale \ {c} \subseteq stale'
  BY <1>5
<1>7. workflow'[b] = v /\ \A a \in Bookings \ {b} : workflow'[a] = workflow[a]
  BY <1>1, <1>2 DEF FollowInv, FollowTypes
<1>8. FollowTypes'
  BY <1>1, <1>2, <1>5, <1>7 DEF FollowInv, FollowTypes, Statuses, Occupying, Final
<1>9. \A a \in Bookings \ {b} :
        /\ status'[a] = status[a] /\ workflow'[a] = workflow[a]
        /\ ~About(call[c], a) /\ ~About(q, a)
  BY <1>1, <1>4, <1>5, <1>7
<1>10. ASSUME ~disturbed', b \notin Apart
       PROVE  /\ \A e \in Processes \ {c} : ~HalfIn(call[e], b)
              /\ \A e \in Processes \ {c} : e \notin stale' =>
                   ~(Writing(call[e]) /\ About(call[e], b))
              /\ HalfIn(q, b) => Fits(q, status'[b], workflow'[b])
              /\ ~HalfIn(q, b) => workflow'[b] = status'[b]
  <2>1. /\ ToDo(call[c], b)
        /\ \A e \in Processes \ {c} : ~HalfIn(call[e], b)
        /\ \A e \in Processes \ stale : ~(Writing(call[e]) /\ About(call[e], b))
    BY <1>1, <1>5, <1>10, FollowAlone
  <2>2. HalfIn(q, b) => Fits(q, status'[b], workflow'[b])
    BY <1>2, <1>4, <1>5, <1>7, <2>1 DEF ToDo, Fits
  <2>3. ~HalfIn(q, b) => workflow'[b] = status'[b]
    BY <1>2, <1>4, <1>5, <1>7, <2>1 DEF ToDo, Fits
  <2> QED BY <1>5, <2>1, <2>2, <2>3
<1>11. b \in Bookings /\ ~Writing(q)
  BY <1>1, <1>4
<1> QED BY <1>5, <1>6, <1>8, <1>9, <1>10, <1>11, FollowStep

(* A change begins, and is out of date at once if another is half way.     *)
LEMMA FollowStart ==
  ASSUME FollowInv, BookingInv', NEW c \in Processes, NEW b \in Bookings,
         NEW t \in DOMAIN Change, Start(c, b, t),
         UNCHANGED <<approval, status, workflow, cutOff, moved, disturbed>>,
         \A a \in Bookings : ~HalfIn(call[c], a)
  PROVE  FollowInv'
<1>1. PICK q : q = [op |-> "change", step |-> "write", booking |-> b, change |-> t]
  OBVIOUS
<1>2. /\ \A a : ~HalfIn(q, a)
      /\ \A a : About(q, a) <=> a = b
  BY <1>1 DEF HalfIn, About
<1>3. /\ call' = [call EXCEPT ![c] = q]
      /\ call \in [Processes -> Requests]
      /\ stale' = IF HalfDone(b) THEN stale \cup {c} ELSE stale
  BY <1>1 DEF Start, Continue, FollowInv, BookingInv, BookingTypes
<1>4. /\ call'[c] = q /\ \A d \in Processes \ {c} : call'[d] = call[d]
      /\ stale \subseteq stale'
  BY <1>3
<1>5. c \notin stale' => \A e \in Processes : ~HalfIn(call[e], b)
  BY <1>3 DEF HalfDone, HalfIn, On, About
<1>6. FollowTypes'
  BY DEF FollowInv, FollowTypes, Statuses, Occupying, Final
<1>7. ASSUME ~disturbed', NEW a \in Bookings, a \notin Apart'
      PROVE  Follows(a)'
  <2>1. Follows(a) /\ ~HalfIn(call[c], a)
    BY <1>7 DEF FollowInv, Apart
  <2>2. CASE a # b
    BY <1>2, <1>3, <1>4, <2>1, <2>2, FollowFrame
  <2>3. CASE a = b
    <3>1. \A d \in Processes : HalfIn(call'[d], b) <=> HalfIn(call[d], b)
      BY <1>2, <1>4, <2>1, <2>3
    <3>2. \A d \in Processes : HalfIn(call'[d], b) =>
            call'[d] = call[d] /\ ToDo(call[d], b)
              /\ \A e \in Processes \ {d} : ~HalfIn(call'[e], b)
      BY <1>2, <1>4, <2>1, <2>3, <3>1 DEF Follows
    <3>3. \A d \in Processes : HalfIn(call[d], b)' =>
            ToDo(call[d], b)' /\ \A e \in Processes \ {d} : ~HalfIn(call[e], b)'
      BY <3>2 DEF HalfIn, About, ToDo, Fits, Change
    <3>4. ASSUME NEW d \in Processes, d \notin stale',
                 Writing(call'[d]), About(call'[d], b)
          PROVE  \A e \in Processes : ~HalfIn(call'[e], b)
      <4>1. CASE d = c
        BY <1>5, <3>1, <3>4, <4>1
      <4>2. CASE d # c
        BY <1>4, <2>1, <2>3, <3>1, <3>4, <4>2 DEF Follows
      <4> QED BY <4>1, <4>2
    <3>5. \A d \in Processes \ stale' : Writing(call[d])' /\ About(call[d], b)' =>
            \A e \in Processes : ~HalfIn(call[e], b)'
      BY <3>4 DEF HalfIn, About, Writing
    <3>6. status[b] # "ABSENT" /\ (\A d \in Processes : ~HalfIn(call'[d], b)) =>
            workflow[b] = status[b]
      BY <2>1, <2>3, <3>1 DEF Follows
    <3>7. (status[b] # "ABSENT" /\ (\A d \in Processes : ~HalfIn(call[d], b)) =>
            workflow[b] = status[b])'
      BY <3>6 DEF HalfIn, About
    <3> QED BY <2>3, <3>3, <3>5, <3>7 DEF Follows
  <2> QED BY <2>2, <2>3
<1> QED BY <1>6, <1>7 DEF FollowInv

(* What a request that changes a status looks like.                        *)
LEMMA FollowRequest ==
  ASSUME NEW q \in Requests, q.op = "change", NEW z \in {"read", "move"}
  PROVE  /\ q.booking \in Bookings /\ q.change \in DOMAIN Change
         /\ \A a : About(q, a) <=> a = q.booking
         /\ \A a : HalfIn(q, a) <=> a = q.booking /\ q.step \in {"read", "move"}
         /\ LET y == [q EXCEPT !.step = z]
            IN  /\ ~Writing(y) /\ y.step = z /\ y.change = q.change
                /\ \A a : About(y, a) <=> a = q.booking
                /\ \A a : HalfIn(y, a) <=> a = q.booking
<1>1. q \in [op : {"change"}, step : {"write", "read", "move"}, booking : Bookings,
             change : DOMAIN Change]
  BY DEF Requests, Idle
<1> QED BY <1>1 DEF About, HalfIn, Writing

LEMMA FollowWriteStatus ==
  ASSUME FollowInv, BookingInv', NEW c \in Processes, WriteStatus(c)
  PROVE  FollowInv'
<1>0. PICK b, t, q :
        b = call[c].booking /\ t = call[c].change /\ q = [call[c] EXCEPT !.step = "read"]
  OBVIOUS
<1>1. /\ b \in Bookings /\ t \in DOMAIN Change
      /\ \A a : About(call[c], a) <=> a = b
      /\ \A a : ~HalfIn(call[c], a)
      /\ ~Writing(q) /\ q.step = "read" /\ q.change = t
      /\ \A a : About(q, a) <=> a = b
      /\ \A a : HalfIn(q, a) <=> a = b
      /\ Writing(call[c])
  <2>1. call[c] \in Requests /\ call[c].op = "change" /\ call[c].step = "write"
    BY DEF WriteStatus, FollowInv, BookingInv, BookingTypes
  <2>2. Writing(call[c])
    BY <2>1 DEF Writing
  <2>3. \A a : ~HalfIn(call[c], a)
    BY <2>1 DEF HalfIn
  <2>4. /\ b \in Bookings /\ t \in DOMAIN Change
        /\ \A a : About(call[c], a) <=> a = b
    BY <1>0, <2>1, FollowRequest
  <2>5. /\ ~Writing(q) /\ q.step = "read" /\ q.change = t
        /\ \A a : About(q, a) <=> a = b
        /\ \A a : HalfIn(q, a) <=> a = b
    BY <1>0, <2>1, FollowRequest
  <2> QED BY <2>2, <2>3, <2>4, <2>5
<1>2. /\ Change[t].to \in Statuses \ {"ABSENT"} /\ status[b] # "ABSENT"
      /\ status \in [Bookings -> Statuses]
  <2>1. status[b] # "ABSENT" /\ status \in [Bookings -> Statuses]
    BY <1>1 DEF FollowInv, BookingInv, BookingTypes, Inserting, Creating, Writing
  <2> QED BY <1>1, <2>1, BookingChanges
<1>3. PICK v \in Statuses \ {"ABSENT"} :
        v = Change[t].to /\ status' = [status EXCEPT ![b] = v]
  BY <1>0, <1>2 DEF WriteStatus
<1>4. /\ call' = [call EXCEPT ![c] = q]
      /\ UNCHANGED <<approval, workflow, cutOff, moved>>
      /\ stale' = (stale \cup StaleByStatus(c, b)) \ {c}
      /\ disturbed' = (disturbed \/ c \in stale)
  BY <1>0 DEF WriteStatus, Continue, NoteWrite, histVars
<1>5. /\ UNCHANGED <<approval, cutOff, moved>>
      /\ disturbed => disturbed'
      /\ stale \ {c} \subseteq stale'
  BY <1>4
<1>6. status'[b] = v /\ \A a \in Bookings \ {b} : status'[a] = status[a]
  BY <1>1, <1>2, <1>3
<1>7. FollowTypes'
  BY <1>2, <1>3, <1>4, <1>6 DEF FollowInv, FollowTypes, Statuses, Occupying, Final
<1>8. \A a \in Bookings \ {b} :
        /\ status'[a] = status[a] /\ workflow'[a] = workflow[a]
        /\ ~About(call[c], a) /\ ~About(q, a)
  BY <1>1, <1>4, <1>6
<1>9. ASSUME ~disturbed', b \notin Apart
      PROVE  /\ \A e \in Processes \ {c} : ~HalfIn(call[e], b)
             /\ \A e \in Processes \ {c} : e \notin stale' =>
                  ~(Writing(call[e]) /\ About(call[e], b))
             /\ HalfIn(q, b) => Fits(q, status'[b], workflow'[b])
             /\ ~HalfIn(q, b) => workflow'[b] = status'[b]
  <2>1. ~disturbed /\ c \notin stale /\ Follows(b) /\ Worth(c)
    BY <1>1, <1>4, <1>9 DEF FollowInv, BookingInv
  <2>2. \A e \in Processes : ~HalfIn(call[e], b)
    BY <1>1, <2>1 DEF Follows
  <2>3. workflow[b] = status[b] /\ status[b] \in Change[t].from
    BY <1>0, <1>1, <1>2, <2>1, <2>2 DEF Follows, Worth
  <2>4. Fits(q, status'[b], workflow'[b])
    BY <1>1, <1>3, <1>4, <1>6, <2>3 DEF Fits
  <2>5. \A e \in Processes \ {c} : e \notin stale' =>
          ~(Writing(call[e]) /\ About(call[e], b))
    BY <1>4 DEF StaleByStatus, On, About, Writing, Processes
  <2> QED BY <1>1, <2>2, <2>4, <2>5
<1>10. b \in Bookings /\ ~Writing(q) /\ call' = [call EXCEPT ![c] = q]
  BY <1>1, <1>4
<1> QED BY <1>5, <1>7, <1>8, <1>9, <1>10, FollowStep

(* transitionWorkflow has found a target.                                  *)
LEMMA FollowFind ==
  ASSUME FollowInv, BookingInv', NEW c \in Processes, Find(c)
  PROVE  FollowInv'
<1>0. PICK b, q : b = call[c].booking /\ q = [call[c] EXCEPT !.step = "move"]
  OBVIOUS
<1>1. call[c] \in Requests /\ call[c].op = "change" /\ call[c].step = "read"
  BY DEF Find, FollowInv, BookingInv, BookingTypes
<1>2. /\ b \in Bookings
      /\ \A a : About(call[c], a) <=> a = b
      /\ HalfIn(call[c], b)
  BY <1>0, <1>1, FollowRequest
<1>3. /\ ~Writing(q) /\ q.step = "move" /\ q.change = call[c].change
      /\ \A a : About(q, a) <=> a = b
      /\ HalfIn(q, b)
  BY <1>0, <1>1, FollowRequest
<1>4. /\ call' = [call EXCEPT ![c] = q]
      /\ UNCHANGED <<approval, status, workflow, cutOff, moved, stale, disturbed>>
  BY <1>0 DEF Find, Continue, bookingVars, readVars, histVars
<1>5. /\ UNCHANGED <<approval, cutOff, moved>>
      /\ disturbed => disturbed'
      /\ stale \ {c} \subseteq stale'
  BY <1>4
<1>6. FollowTypes'
  BY <1>4 DEF FollowInv, FollowTypes, Statuses, Occupying, Final
<1>7. \A a \in Bookings \ {b} :
        /\ status'[a] = status[a] /\ workflow'[a] = workflow[a]
        /\ ~About(call[c], a) /\ ~About(q, a)
  BY <1>2, <1>3, <1>4
<1>8. ASSUME ~disturbed', b \notin Apart
      PROVE  /\ \A e \in Processes \ {c} : ~HalfIn(call[e], b)
             /\ \A e \in Processes \ {c} : e \notin stale' =>
                  ~(Writing(call[e]) /\ About(call[e], b))
             /\ HalfIn(q, b) => Fits(q, status'[b], workflow'[b])
             /\ ~HalfIn(q, b) => workflow'[b] = status'[b]
  <2>1. /\ ToDo(call[c], b)
        /\ \A e \in Processes \ {c} : ~HalfIn(call[e], b)
        /\ \A e \in Processes \ stale : ~(Writing(call[e]) /\ About(call[e], b))
    BY <1>2, <1>4, <1>8, FollowAlone
  <2>2. Fits(q, status'[b], workflow'[b])
    BY <1>1, <1>3, <1>4, <2>1 DEF ToDo, Fits
  <2> QED BY <1>3, <1>4, <2>1, <2>2
<1>9. b \in Bookings /\ ~Writing(q)
  BY <1>2, <1>3
<1> QED BY <1>4, <1>5, <1>6, <1>7, <1>8, <1>9, FollowStep

(* The workflow is moved to where the status is already.                   *)
LEMMA FollowMoveWorkflow ==
  ASSUME FollowInv, BookingInv', NEW c \in Processes, MoveWorkflow(c)
  PROVE  FollowInv'
<1>0. PICK b, t : b = call[c].booking /\ t = call[c].change
  OBVIOUS
<1>1. call[c] \in Requests /\ call[c].op = "change" /\ call[c].step = "move"
  BY DEF MoveWorkflow, FollowInv, BookingInv, BookingTypes
<1>2. /\ b \in Bookings /\ t \in DOMAIN Change
      /\ \A a : About(call[c], a) <=> a = b
      /\ HalfIn(call[c], b) /\ ~Creating(call[c])
  BY <1>0, <1>1, FollowRequest DEF Creating
<1>3. status[b] # "ABSENT" /\ Change[t].to \in Statuses
  BY <1>2, BookingChanges DEF FollowInv, BookingInv, Inserting
<1>4. PICK v \in Statuses :
        v = Change[t].to /\ workflow' = [workflow EXCEPT ![b] = v]
  BY <1>0, <1>3 DEF MoveWorkflow
<1>9. PICK q : /\ call' = [call EXCEPT ![c] = q]
               /\ q = Idle \/ q = Ran(b, "complete")
  BY <1>0 DEF MoveWorkflow, Continue
<1>5. /\ call' = [call EXCEPT ![c] = q]
      /\ UNCHANGED <<approval, status, cutOff, moved, stale, disturbed>>
  BY <1>9 DEF MoveWorkflow, bookingVars, readVars, histVars
<1>6. /\ UNCHANGED <<approval, cutOff, moved>>
      /\ disturbed => disturbed'
      /\ stale \ {c} \subseteq stale'
  BY <1>5
<1>7. workflow'[b] = v /\ \A a \in Bookings \ {b} : workflow'[a] = workflow[a]
  BY <1>2, <1>4 DEF FollowInv, FollowTypes
<1>8. FollowTypes'
  BY <1>3, <1>4, <1>5, <1>7 DEF FollowInv, FollowTypes, Statuses, Occupying, Final
<1>12. ~Writing(q) /\ \A a : (About(q, a) => a = b) /\ ~HalfIn(q, a)
  BY <1>9 DEF Idle, Ran, Writing, About, HalfIn
<1>10. \A a \in Bookings \ {b} :
         /\ status'[a] = status[a] /\ workflow'[a] = workflow[a]
         /\ ~About(call[c], a) /\ ~About(q, a)
  BY <1>2, <1>5, <1>7, <1>12
<1>11. ASSUME ~disturbed', b \notin Apart
       PROVE  /\ \A e \in Processes \ {c} : ~HalfIn(call[e], b)
              /\ \A e \in Processes \ {c} : e \notin stale' =>
                   ~(Writing(call[e]) /\ About(call[e], b))
              /\ HalfIn(q, b) => Fits(q, status'[b], workflow'[b])
              /\ ~HalfIn(q, b) => workflow'[b] = status'[b]
  <2>1. /\ ToDo(call[c], b)
        /\ \A e \in Processes \ {c} : ~HalfIn(call[e], b)
        /\ \A e \in Processes \ stale : ~(Writing(call[e]) /\ About(call[e], b))
    BY <1>2, <1>5, <1>11, FollowAlone
  <2>2. workflow'[b] = status'[b]
    BY <1>0, <1>1, <1>4, <1>5, <1>7, <2>1 DEF ToDo, Fits
  <2> QED BY <1>5, <1>12, <2>1, <2>2
<1> QED BY <1>2, <1>5, <1>6, <1>8, <1>10, <1>11, <1>12, FollowStep

-----------------------------------------------------------------------------
(* A request that is half way through nothing, before and after.           *)
LEMMA FollowGoOn ==
  ASSUME FollowInv, BookingInv', NEW c \in Processes, NEW q, Continue(c, q),
         UNCHANGED <<approval, status, workflow, cutOff, moved>>,
         disturbed => disturbed', stale \ {c} \subseteq stale',
         ~Writing(q), \A a : ~HalfIn(call[c], a) /\ ~HalfIn(q, a)
  PROVE  FollowInv'
<1>1. /\ call' = [call EXCEPT ![c] = q]
      /\ UNCHANGED <<approval, status, workflow, moved>>
      /\ cutOff \subseteq cutOff' /\ cutOff' \subseteq Bookings
      /\ \A b \in Bookings \ cutOff' : ~HalfIn(call[c], b) /\ ~HalfIn(q, b)
  BY DEF Continue, FollowInv, FollowTypes
<1> QED BY <1>1, FollowQuiet

(* Requests that begin, other than changes of status.                      *)
LEMMA FollowBegin ==
  ASSUME FollowInv, BookingInv', NEW c \in Callers, NEW q, Continue(c, q),
         call[c] = Idle, q.step \in {"take", "transit"},
         UNCHANGED <<approval, status, workflow, cutOff, moved, stale, disturbed>>
  PROVE  FollowInv'
<1>1. ~Writing(q) /\ \A a : ~HalfIn(call[c], a) /\ ~HalfIn(q, a)
  BY DEF Writing, HalfIn, Idle, About
<1> QED BY <1>1, FollowGoOn DEF Processes

LEMMA FollowReturn ==
  ASSUME FollowInv, BookingInv', NEW c \in Processes,
         ScheduleJobs(c) \/ Move(c) \/ InsertBlock(c)
  PROVE  FollowInv'
<1>1. ~Writing(Idle) /\ \A a : ~HalfIn(call[c], a) /\ ~HalfIn(Idle, a)
  BY DEF ScheduleJobs, Move, InsertBlock, Writing, HalfIn, Idle, About
<1>2. /\ End(c) /\ UNCHANGED <<approval, status, workflow, cutOff, moved>>
      /\ disturbed => disturbed'
      /\ stale \ {c} \subseteq stale'
  <2>1. CASE ScheduleJobs(c)
    BY <2>1 DEF ScheduleJobs, bookingVars, readVars, histVars
  <2>2. CASE Move(c)
    BY <2>2 DEF Move, NoteWrite
  <2>3. CASE InsertBlock(c)
    BY <2>3 DEF InsertBlock, NoteWrite, histVars
  <2> QED BY <2>1, <2>2, <2>3
<1> QED BY <1>1, <1>2, FollowGoOn DEF End

(* A request that stops half way leaves its reservation in cutOff.         *)
LEMMA FollowStopped ==
  ASSUME FollowInv, BookingInv', NEW c \in Processes, Stopped(c), NEW q,
         Continue(c, q), approval' = approval, status' = status,
         ~Writing(q), \A a : ~HalfIn(q, a)
  PROVE  FollowInv'
<1>1. /\ UNCHANGED <<approval, status, workflow, moved, disturbed>>
      /\ stale' = stale \ {c}
      /\ cutOff' = IF Halfway(c) THEN cutOff \cup {call[c].booking} ELSE cutOff
  BY DEF Stopped
<1>2. call[c] \in Requests /\ cutOff \subseteq Bookings
  BY DEF FollowInv, BookingInv, BookingTypes, FollowTypes
<1>3. Halfway(c) => call[c].booking \in Bookings
  BY <1>2, BookingRequest DEF Halfway
<1>4. \A a : HalfIn(call[c], a) => Halfway(c) /\ a = call[c].booking
  BY <1>2 DEF HalfIn, About, Halfway, Requests, Idle
<1>5. cutOff \subseteq cutOff' /\ cutOff' \subseteq Bookings
  BY <1>1, <1>2, <1>3
<1>6. /\ call' = [call EXCEPT ![c] = q]
      /\ UNCHANGED <<approval, status, workflow, moved>>
      /\ disturbed => disturbed'
      /\ stale \ {c} \subseteq stale'
      /\ \A b \in Bookings \ cutOff' : ~HalfIn(call[c], b) /\ ~HalfIn(q, b)
  BY <1>1, <1>4 DEF Continue
<1> QED BY <1>5, <1>6, FollowQuiet

LEMMA FollowLeave ==
  ASSUME FollowInv, BookingInv', NEW c \in Processes, Leave(c)
  PROVE  FollowInv'
<1>1. ~Writing(Idle) /\ \A a : ~HalfIn(Idle, a)
  BY DEF Idle, Writing, HalfIn, About
<1>2. Stopped(c) /\ Continue(c, Idle) /\ approval' = approval /\ status' = status
  BY DEF Leave, End, Stopped, bookingVars
<1> QED BY <1>1, <1>2, FollowStopped

LEMMA FollowThrow ==
  ASSUME FollowInv, BookingInv', NEW c \in Processes, Throw(c)
  PROVE  FollowInv'
<1>1. CASE Stopped(c) /\ Continue(c, Ran(call[c].booking, "fail"))
  <2>1. PICK q : q = Ran(call[c].booking, "fail")
    OBVIOUS
  <2>2. ~Writing(q) /\ \A a : ~HalfIn(q, a)
    BY <2>1 DEF Ran, Writing, HalfIn
  <2>3. Continue(c, q)
    BY <1>1, <2>1
  <2>4. approval' = approval /\ status' = status
    BY <1>1 DEF Stopped, bookingVars
  <2> QED BY <1>1, <2>2, <2>3, <2>4, FollowStopped
<1> QED BY <1>1, FollowLeave DEF Throw

(* A step of running a job that is not yet, or no longer, a change.        *)
LEMMA FollowJob ==
  ASSUME FollowInv, BookingInv', NEW c \in Processes, NEW q, Continue(c, q),
         call[c].op \in {"none", "end"},
         \/ q = Idle
         \/ q.op = "end" /\ q.step \notin {"start", "auto", "read", "move"},
         UNCHANGED <<approval, status, workflow, cutOff, moved, stale, disturbed>>
  PROVE  FollowInv'
<1>1. call[c] \in Requests
  BY DEF FollowInv, BookingInv, BookingTypes
<1>2. \A a : ~HalfIn(call[c], a)
  BY <1>1 DEF Requests, Idle, HalfIn, About
<1>3. ~Writing(q) /\ \A a : ~HalfIn(q, a)
  BY DEF Writing, HalfIn, About, Idle
<1> QED BY <1>2, <1>3, FollowGoOn

LEMMA FollowRuns ==
  ASSUME FollowInv, BookingInv', NEW c \in Processes, NEW b,
         NEW z \in {"count", "run", "handle", "complete", "fail"},
         Continue(c, Ran(b, z)), call[c].op \in {"none", "end"},
         UNCHANGED <<approval, status, workflow, cutOff, moved, stale, disturbed>>
  PROVE  FollowInv'
<1>1. PICK q : q = Ran(b, z)
  OBVIOUS
<1>2. q.op = "end" /\ q.step = z /\ Continue(c, q)
  BY <1>1 DEF Ran
<1> QED BY <1>2, FollowJob

(* The worker and the requests that run a job, but for its handler.        *)
LEMMA FollowRunJob ==
  ASSUME FollowInv, BookingInv',
         \/ \E b \in Bookings : Execute(b)
         \/ Complete \/ Fail
         \/ \E o \in Operators : WorkByHand(o) \/ \E b \in Bookings : RunByHand(o, b)
  PROVE  FollowInv'
<1>1. ASSUME NEW c \in Processes, NEW b, call[c].op \in {"none", "end"},
             NEW z \in {"count", "run", "handle", "complete", "fail"},
             End(c) \/ Continue(c, Ran(b, z)),
             UNCHANGED <<approval, workflow, bookingVars, readVars, cutOff, moved>>
      PROVE  FollowInv'
  <2>1. UNCHANGED <<approval, status, workflow, cutOff, moved, stale, disturbed>>
    BY <1>1 DEF bookingVars, readVars
  <2>2. CASE End(c)
    BY <1>1, <2>1, <2>2, FollowJob DEF End
  <2>3. CASE Continue(c, Ran(b, z))
    BY <1>1, <2>1, <2>3, FollowRuns
  <2> QED BY <1>1, <2>2, <2>3
<1>2. Idle.op = "none" /\ Worker \in Processes
  BY DEF Idle, Processes, Runners
<1>3. ASSUME NEW b \in Bookings, Execute(b)
      PROVE  FollowInv'
  BY <1>1, <1>2, <1>3 DEF Execute, histVars
<1>4. CASE Complete \/ Fail
  <2>1. CASE Complete
    BY <1>1, <1>2, <2>1 DEF Complete, Finish, histVars
  <2>2. CASE Fail
    BY <1>1, <1>2, <2>2 DEF Fail, Finish, histVars
  <2> QED BY <1>4, <2>1, <2>2
<1>5. ASSUME NEW o \in Operators, WorkByHand(o) \/ \E b \in Bookings : RunByHand(o, b)
      PROVE  FollowInv'
  <2>1. o \in Processes
    BY DEF Processes, Runners
  <2>2. ASSUME NEW b \in Bookings, RunByHand(o, b)
        PROVE  FollowInv'
    BY <1>1, <1>2, <2>1, <2>2 DEF RunByHand
  <2>3. CASE CountByHand(o)
    BY <1>1, <2>1, <2>3 DEF CountByHand, histVars
  <2>4. CASE CallByHand(o)
    BY <1>1, <2>1, <2>4 DEF CallByHand, histVars
  <2>5. CASE EndByHand(o)
    BY <1>1, <2>1, <2>5 DEF EndByHand, histVars
  <2> QED BY <1>5, <2>2, <2>3, <2>4, <2>5 DEF WorkByHand
<1> QED BY <1>3, <1>4, <1>5

LEMMA FollowHandle ==
  ASSUME FollowInv, BookingInv', NEW c \in Processes, Handle(c)
  PROVE  FollowInv'
<1>1. PICK b : b = call[c].booking
  OBVIOUS
<1>2. /\ call[c].op \in {"none", "end"}
      /\ UNCHANGED <<approval, status, workflow, cutOff, moved, stale, disturbed>>
  BY DEF Handle, bookingVars, readVars, histVars
<1>3. CASE Continue(c, Ran(b, "complete"))
  BY <1>2, <1>3, FollowRuns
<1>4. ASSUME NEW t,
             Continue(c, [op |-> "end", step |-> "again", booking |-> b, change |-> t])
      PROVE  FollowInv'
  <2>1. PICK q : q = [op |-> "end", step |-> "again", booking |-> b, change |-> t]
    OBVIOUS
  <2>2. Continue(c, q) /\ q.op = "end" /\ q.step = "again"
    BY <1>4, <2>1
  <2> QED BY <1>2, <2>2, FollowJob
<1> QED BY <1>1, <1>3, <1>4 DEF Handle

LEMMA FollowEndAgain ==
  ASSUME FollowInv, BookingInv', NEW c \in Processes, EndAgain(c)
  PROVE  FollowInv'
<1>0. PICK b, t : b = call[c].booking /\ t = call[c].change
  OBVIOUS
<1>1. call[c] \in [op : {"end"}, step : {"again"}, booking : Bookings,
                   change : DOMAIN Change]
  BY DEF EndAgain, FollowInv, BookingInv, BookingTypes, Requests, Idle
<1>2. b \in Bookings /\ t \in DOMAIN Change /\ \A a : ~HalfIn(call[c], a)
  BY <1>0, <1>1 DEF HalfIn
<1>3. UNCHANGED <<approval, status, workflow, cutOff, moved, disturbed>>
  BY DEF EndAgain, bookingVars, histVars
<1>4. CASE Start(c, b, t)
  BY <1>2, <1>3, <1>4, FollowStart
<1>5. CASE Continue(c, Ran(b, "fail")) /\ UNCHANGED stale
  BY <1>1, <1>3, <1>5, FollowRuns
<1> QED BY <1>0, <1>4, <1>5 DEF EndAgain

(* An instance that is started or moved by itself is apart from then on.   *)
LEMMA FollowDirect ==
  ASSUME FollowInv, BookingInv', NEW c \in Processes,
         MoveDirect(c) \/ \E b \in Bookings : StartDirect(c, b)
  PROVE  FollowInv'
<1>1. ASSUME NEW b \in Bookings, status[b] # "ABSENT", NEW v \in Statuses,
             call' = [call EXCEPT ![c] = Idle],
             workflow' = [workflow EXCEPT ![b] = v],
             moved' = moved \cup {b},
             UNCHANGED <<approval, status, cutOff, stale, disturbed>>,
             \A a : ~HalfIn(call[c], a)
      PROVE  FollowInv'
  <2>1. FollowTypes'
    BY <1>1 DEF FollowInv, FollowTypes, Statuses, Occupying, Final
  <2>2. ~Writing(Idle) /\ \A a : ~HalfIn(Idle, a)
    BY DEF Idle, Writing, HalfIn, About
  <2>3. \A a \in Bookings \ Apart' : workflow'[a] = workflow[a]
    BY <1>1 DEF FollowInv, FollowTypes, Apart
  <2> QED BY <1>1, <2>1, <2>2, <2>3, FollowAside
<1>2. CASE MoveDirect(c)
  <2>0. PICK b, v : b = call[c].booking /\ v = call[c].to
    OBVIOUS
  <2>1. /\ call[c] \in Requests /\ call[c].op = "direct"
        /\ b \in Bookings /\ status[b] # "ABSENT"
    BY <1>2, <2>0, BookingAbout DEF FollowInv, MoveDirect
  <2>2. v \in Statuses /\ \A a : ~HalfIn(call[c], a)
    BY <2>0, <2>1 DEF Requests, Idle, HalfIn
  <2>3. /\ call' = [call EXCEPT ![c] = Idle]
        /\ workflow' = [workflow EXCEPT ![b] = v]
        /\ moved' = moved \cup {b}
        /\ UNCHANGED <<approval, status, cutOff, stale, disturbed>>
    BY <1>2, <2>0 DEF MoveDirect, End, Continue, bookingVars, readVars
  <2> QED BY <1>1, <2>1, <2>2, <2>3
<1>3. ASSUME NEW b \in Bookings, StartDirect(c, b)
      PROVE  FollowInv'
  <2>1. \A a : ~HalfIn(call[c], a)
    BY <1>3 DEF StartDirect, Idle, HalfIn, About
  <2>2. call' = [call EXCEPT ![c] = Idle] /\ status[b] # "ABSENT"
    BY <1>3 DEF StartDirect, FollowInv, BookingInv, BookingTypes
  <2>3. /\ workflow' = [workflow EXCEPT ![b] = "PENDING"]
        /\ moved' = moved \cup {b}
        /\ UNCHANGED <<approval, status, cutOff, stale, disturbed>>
    BY <1>3 DEF StartDirect, bookingVars, readVars
  <2>4. "PENDING" \in Statuses
    BY DEF Statuses, Occupying
  <2> QED BY <1>1, <2>1, <2>2, <2>3, <2>4
<1> QED BY <1>2, <1>3

-----------------------------------------------------------------------------
LEMMA FollowInitially == Init => FollowInv
<1> SUFFICES ASSUME Init PROVE FollowInv
  OBVIOUS
<1>1. BookingInv
  BY BookingInitially
<1>2. FollowTypes
  BY DEF Init, FollowTypes
<1>3. \A c \in Processes : call[c] = Idle
  BY DEF Init
<1>4. ~Writing(Idle) /\ \A b : ~HalfIn(Idle, b)
  BY DEF Idle, Writing, HalfIn, About
<1>5. \A b \in Bookings : status[b] = "ABSENT"
  BY DEF Init
<1>6. \A b \in Bookings : Follows(b)
  BY <1>3, <1>4, <1>5 DEF Follows
<1> QED BY <1>1, <1>2, <1>6 DEF FollowInv

LEMMA FollowUnchanged ==
  ASSUME FollowInv, BookingInv',
         UNCHANGED <<approval, status, workflow, call, stale, disturbed, cutOff, moved>>
  PROVE  FollowInv'
<1>1. FollowTypes'
  BY DEF FollowInv, FollowTypes, Statuses, Occupying, Final
<1>2. ASSUME NEW b \in Bookings, Follows(b)
      PROVE  Follows(b)'
  BY <1>2 DEF Follows, HalfIn, About, ToDo, Fits, Writing, Change
<1> QED BY <1>1, <1>2 DEF FollowInv, Apart

(* What callers begin.                                                     *)
LEMMA FollowBegun ==
  ASSUME FollowInv, BookingInv', NEW c \in Callers, BeginRequest(c)
  PROVE  FollowInv'
<1>0. c \in Processes
  BY DEF Processes
<1>1. ASSUME NEW b \in Bookings, NEW t \in DOMAIN Change, BeginChange(c, b, t)
      PROVE  FollowInv'
  <2>1. /\ Start(c, b, t)
        /\ UNCHANGED <<approval, status, workflow, cutOff, moved, disturbed>>
    BY <1>1 DEF BeginChange, bookingVars, histVars
  <2>2. \A a \in Bookings : ~HalfIn(call[c], a)
    BY <1>1 DEF BeginChange, Idle, HalfIn, About
  <2> QED BY <1>0, <2>1, <2>2, FollowStart
<1>2. ASSUME NEW q, q.step \in {"take", "transit"}, Continue(c, q), call[c] = Idle,
             UNCHANGED <<approval, bookingVars, workflow, readVars, histVars>>
      PROVE  FollowInv'
  BY <1>2, FollowBegin DEF bookingVars, readVars, histVars
<1>3. ASSUME NEW b \in Bookings, NEW w \in Windows, BeginCreate(c, b, w)
      PROVE  FollowInv'
  <2>1. PICK q : q = [op |-> "create", step |-> "take", booking |-> b, window |-> w]
    OBVIOUS
  <2> QED BY <1>2, <1>3, <2>1 DEF BeginCreate
<1>4. ASSUME NEW b \in Bookings, NEW w \in Windows, BeginUpdate(c, b, w)
      PROVE  FollowInv'
  <2>1. PICK q : q = [op |-> "update", step |-> "take", booking |-> b, window |-> w]
    OBVIOUS
  <2> QED BY <1>2, <1>4, <2>1 DEF BeginUpdate
<1>5. ASSUME NEW w \in Windows, BeginBlock(c, w)
      PROVE  FollowInv'
  <2>1. PICK q : q = [op |-> "block", step |-> "take", window |-> w]
    OBVIOUS
  <2> QED BY <1>2, <1>5, <2>1 DEF BeginBlock
<1>6. ASSUME NEW b \in Bookings, BeginDirect(c, b)
      PROVE  FollowInv'
  <2>1. PICK t : Continue(c, [op |-> "direct", step |-> "transit", booking |-> b,
                              to |-> t[3]])
    BY <1>6 DEF BeginDirect
  <2>2. PICK q : q = [op |-> "direct", step |-> "transit", booking |-> b, to |-> t[3]]
    OBVIOUS
  <2> QED BY <1>2, <1>6, <2>1, <2>2 DEF BeginDirect
<1> QED BY <1>0, <1>1, <1>3, <1>4, <1>5, <1>6, FollowDirect DEF BeginRequest

LEMMA FollowInductive == FollowInv /\ Scheduled /\ [Next]_vars => FollowInv'
<1> SUFFICES ASSUME FollowInv, Scheduled, [Next]_vars
             PROVE  FollowInv'
  OBVIOUS
<1>1. BookingInv'
  BY BookingInductive DEF FollowInv
<1>2. ASSUME NEW c \in Callers, BeginRequest(c)
      PROVE  FollowInv'
  BY <1>1, <1>2, FollowBegun
<1>3. ASSUME NEW c \in Processes, Proceed(c)
      PROVE  FollowInv'
  <2>1. CASE Refused(c)
    BY <1>1, <2>1, FollowThrow DEF Refused
  <2> QED BY <1>1, <1>3, <2>1, FollowInsert, FollowCreated, FollowReturn,
             FollowWriteStatus, FollowFind, FollowMoveWorkflow, FollowDirect,
             FollowHandle, FollowEndAgain DEF Proceed
<1>4. ASSUME NEW c \in Processes, StatementFails(c) \/ Crash(c)
      PROVE  FollowInv'
  BY <1>1, <1>4, FollowThrow, FollowLeave DEF StatementFails, Crash
<1>5. CASE UNCHANGED <<approval, bookingVars, workflow, call, readVars, cutOff, moved>>
  BY <1>1, <1>5, FollowUnchanged DEF bookingVars, readVars
<1>6. CASE WorkerStep
  <2>1. CASE StartWorker \/ Shutdown \/ Claim
    BY <1>5, <2>1 DEF StartWorker, Shutdown, Claim, histVars
  <2> QED BY <1>1, <1>6, <2>1, FollowRunJob DEF WorkerStep
<1>7. ASSUME NEW o \in Operators, WorkByHand(o) \/ \E b \in Bookings : RunByHand(o, b)
      PROVE  FollowInv'
  BY <1>1, <1>7, FollowRunJob
<1>8. CASE (\E b \in Bookings : Age(b)) \/ OtherJobAborts \/ Tick \/ UNCHANGED vars
  BY <1>5, <1>8 DEF Age, OtherJobAborts, Tick, vars, histVars
<1> QED BY <1>2, <1>3, <1>4, <1>6, <1>7, <1>8 DEF Next

(* The workflow follows (transitionWorkflow, startWorkflow): unless        *)
(* somebody writes on what another request has outdated, a reservation     *)
(* nobody is half way through is where its workflow instance is, and the   *)
(* workflow refuses no change the reservation allowed; but for those a     *)
(* request stopped half way at, and those whose instance was started or    *)
(* moved by the workflow's own requests.                                   *)
THEOREM BookingWorkflowFollows == Spec => []WorkflowFollows
<1>1. FollowInv => WorkflowFollows
  <2> SUFFICES ASSUME FollowInv, ~disturbed, NEW b \in Bookings \ (cutOff \cup moved)
               PROVE  /\ status[b] # "ABSENT" /\ ~HalfDone(b) => workflow[b] = status[b]
                      /\ \A c \in Processes :
                           On(c, b) /\ call[c].op = "change" /\ call[c].step = "read" =>
                             Targets(workflow[b], Change[call[c].change].action) # {}
    BY DEF WorkflowFollows
  <2>1. Follows(b)
    BY DEF FollowInv, Apart
  <2>2. \A c : On(c, b) <=> About(call[c], b)
    BY DEF On, About
  <2>3. ~HalfDone(b) => \A c \in Processes : ~HalfIn(call[c], b)
    BY <2>2 DEF HalfDone, HalfIn
  <2>4. ASSUME NEW c \in Processes, On(c, b), call[c].op = "change",
               call[c].step = "read"
        PROVE  Targets(workflow[b], Change[call[c].change].action) # {}
    <3>1. ToDo(call[c], b)
      BY <2>1, <2>2, <2>4 DEF Follows, HalfIn
    <3>2. /\ call[c].change \in DOMAIN Change
          /\ workflow[b] \in Change[call[c].change].from
      BY <2>4, <3>1 DEF ToDo, Fits
    <3> QED BY <3>2, FollowTargets
  <2> QED BY <2>1, <2>3, <2>4 DEF Follows
<1>2. FollowInv /\ Scheduled /\ [Next]_vars => FollowInv' /\ Scheduled'
  BY FollowInductive, BookingInductive DEF FollowInv
<1> QED BY <1>1, <1>2, FollowInitially, ScheduledInitially, PTL DEF Spec

-----------------------------------------------------------------------------
(* End jobs.  JobInv says whose a job is: until it is scheduled, of the    *)
(* one request that creates the reservation; while it is RUNNING and       *)
(* claimed, of the worker, which is up; and, once somebody has run it by   *)
(* hand, of the request that did as well.                                  *)
JobTypes ==
  /\ approval \in BOOLEAN
  /\ now \in 0 .. Horizon
  /\ runAt \in [Bookings -> Nat]
  /\ dueAt \in [Bookings -> Nat]
  /\ attempts \in [Bookings -> Nat]
  /\ aged \subseteq Bookings
  /\ worker \in {"up", "down"}
  /\ extended \subseteq Bookings
  /\ byHand \subseteq Bookings
  /\ stops \in 0 .. MaxStops

Creates(q, b) == q.op = "create" /\ q.booking = b

CreatedOnce ==
  \A c \in Processes, b \in Bookings : Creates(call[c], b) =>
    endJob[b] = "ABSENT" /\ \A e \in Processes \ {c} : ~Creates(call[e], b)

Whose ==
  /\ \A b \in Bookings : About(call[Worker], b) => b \in claimed
  /\ claimed # {} => worker = "up"
  /\ \A o \in Operators, b \in Bookings : About(call[o], b) => b \in byHand
  /\ \A b \in byHand : endJob[b] # "ABSENT"

ClaimedRuns == \A b \in claimed \ byHand : endJob[b] = "RUNNING"

AttemptsKept == \A b \in Bookings \ byHand : attempts[b] <= MaxAttempts

JobInv ==
  /\ BookingInv
  /\ Scheduled
  /\ JobTypes
  /\ CreatedOnce
  /\ Whose
  /\ ClaimedRuns
  /\ AttemptsKept

(* What a step does to the status of a job, by who takes it.               *)
Written(b) ==
  \/ /\ \E c \in Processes : ScheduleJobs(c) /\ call[c].booking = b
     /\ endJob'[b] = "PENDING"
  \/ worker = "down" /\ endJob[b] = "RUNNING" /\ endJob'[b] = "FAILED"
  \/ Due(b) /\ endJob'[b] = "RUNNING"
  \/ /\ endJob[b] = "RUNNING" /\ endJob'[b] \in {"COMPLETED", "FAILED"}
     /\ b \notin claimed'
  \/ b \in byHand /\ endJob'[b] # "ABSENT"

(* Only the request that creates a reservation, the worker's start, its    *)
(* claim, its results and requests that run a job by hand write a job.     *)
LEMMA JobWrites ==
  ASSUME JobInv, [Next]_vars, NEW b \in Bookings, endJob'[b] # endJob[b]
  PROVE  Written(b)
<1>0. endJob \in [Bookings -> JobStatuses]
  BY DEF JobInv, Scheduled
<1>1. ASSUME NEW c \in Processes, Proceed(c)
      PROVE  Written(b)
  <2>1. ScheduleJobs(c)
    BY <1>1
       DEF Proceed, Insert, StartWorkflow, AutoApprove, Move, InsertBlock, MoveDirect,
           WriteStatus, Find, MoveWorkflow, Handle, EndAgain, Refused, Throw, Leave,
           Stopped, jobVars
  <2>2. endJob' = [endJob EXCEPT ![call[c].booking] = "PENDING"]
    BY <2>1 DEF ScheduleJobs
  <2>3. call[c].booking = b /\ endJob'[b] = "PENDING"
    BY <1>0, <2>2
  <2> QED BY <2>1, <2>3 DEF Written
<1>2. CASE WorkerStep
  <2>1. CASE StartWorker
    BY <2>1 DEF StartWorker, Written
  <2>2. CASE Claim
    <3>1. PICK bs \in SUBSET {a \in Bookings : Due(a)} :
            endJob' = [a \in Bookings |-> IF a \in bs THEN "RUNNING" ELSE endJob[a]]
      BY <2>2 DEF Claim
    <3> QED BY <3>1 DEF Written
  <2>3. CASE Complete
    <3>1. PICK a : a = call[Worker].booking
      OBVIOUS
    <3>2. /\ endJob[a] = "RUNNING"
          /\ endJob' = [endJob EXCEPT ![a] = "COMPLETED"]
          /\ claimed' = claimed \ {a}
      BY <2>3, <3>1 DEF Complete, WriteJob, Finish
    <3> QED BY <1>0, <3>2 DEF Written
  <2>4. CASE Fail
    <3>1. PICK a : a = call[Worker].booking
      OBVIOUS
    <3>2. /\ endJob[a] = "RUNNING"
          /\ endJob' = [endJob EXCEPT ![a] = "FAILED"]
          /\ claimed' = claimed \ {a}
      BY <2>4, <3>1 DEF Fail, WriteJob, Finish
    <3> QED BY <1>0, <3>2 DEF Written
  <2> QED BY <1>2, <2>1, <2>2, <2>3, <2>4 DEF WorkerStep, Shutdown, Execute, jobVars
<1>3. ASSUME NEW o \in Operators, WorkByHand(o) \/ \E a \in Bookings : RunByHand(o, a)
      PROVE  Written(b)
  <2>1. PICK a : a = call[o].booking
    OBVIOUS
  <2>2. PICK z \in {"RUNNING", "FAILED", "COMPLETED"} :
          endJob' = [endJob EXCEPT ![a] = z] /\ call[o].op = "end"
    BY <1>3, <2>1
       DEF WorkByHand, CountByHand, CallByHand, EndByHand, RunByHand, WriteJob, jobVars
  <2>3. b = a /\ endJob'[b] = z
    BY <1>0, <2>2
  <2>4. About(call[o], b)
    BY <2>1, <2>2, <2>3 DEF About
  <2> QED BY <2>3, <2>4 DEF JobInv, Whose, Written
<1>4. ASSUME NEW c \in Callers, BeginRequest(c)
      PROVE  FALSE
  BY <1>4 DEF BeginRequest, BeginCreate, BeginUpdate, BeginBlock, BeginChange,
              StartDirect, BeginDirect, jobVars
<1>5. ASSUME NEW c \in Processes, StatementFails(c) \/ Crash(c)
      PROVE  FALSE
  BY <1>5 DEF StatementFails, Crash, Throw, Leave, Stopped, jobVars
<1>6. CASE (\E a \in Bookings : Age(a)) \/ OtherJobAborts \/ Tick \/ UNCHANGED vars
  BY <1>6 DEF Age, OtherJobAborts, Tick, vars, jobVars
<1> QED BY <1>1, <1>2, <1>3, <1>4, <1>5, <1>6 DEF Next

-----------------------------------------------------------------------------
(* What every request was about, it is about still, or it is new: a        *)
(* creation, a job that was claimed, a job to run by hand.                 *)
Heirs(c) ==
  \A b \in Bookings :
    /\ Creates(call'[c], b) =>
         Creates(call[c], b) \/ \E w \in Windows : BeginCreate(c, b, w)
    /\ c \in Runners /\ About(call'[c], b) =>
         \/ About(call[c], b)
         \/ c = Worker /\ Execute(b)
         \/ c \in Operators /\ RunByHand(c, b)

LEMMA JobHeir ==
  ASSUME JobInv, NEW c \in Processes, NEW q, Continue(c, q),
         \A b \in Bookings : Creates(q, b) => Creates(call[c], b),
         c \in Runners => \A b \in Bookings : About(q, b) => About(call[c], b),
         NEW d \in Processes
  PROVE  Heirs(d)
<1>1. call'[c] = q /\ \A e \in Processes \ {c} : call'[e] = call[e]
  BY DEF Continue, JobInv, BookingInv, BookingTypes
<1> QED BY <1>1 DEF Heirs

(* A request is over.                                                      *)
LEMMA JobOver ==
  ASSUME JobInv, NEW c \in Processes, End(c), NEW d \in Processes
  PROVE  Heirs(d)
<1>1. \A b : ~Creates(Idle, b) /\ ~About(Idle, b)
  BY DEF Idle, Creates, About
<1> QED BY <1>1, JobHeir DEF End

(* The running of a job goes on.                                           *)
LEMMA JobGoesOn ==
  ASSUME JobInv, NEW c \in Processes, NEW b, About(call[c], b),
         NEW z \in {"count", "run", "handle", "complete", "fail"},
         Continue(c, Ran(b, z)), NEW d \in Processes
  PROVE  Heirs(d)
<1>1. PICK q : q = Ran(b, z)
  OBVIOUS
<1>2. /\ Continue(c, q) /\ \A a : ~Creates(q, a)
      /\ \A a : About(q, a) => About(call[c], a)
  BY <1>1 DEF Ran, Creates, About
<1> QED BY <1>2, JobHeir

LEMMA JobThrown ==
  ASSUME JobInv, NEW c \in Processes, Throw(c), call[c] # Idle, NEW d \in Processes
  PROVE  Heirs(d)
<1>1. CASE Leave(c)
  BY <1>1, JobOver DEF Leave
<1>2. CASE c \in Runners /\ Continue(c, Ran(call[c].booking, "fail"))
  <2>0. PICK b : b = call[c].booking
    OBVIOUS
  <2>1. call[c].op \notin {"none", "block"}
    BY <1>2 DEF JobInv, BookingInv, BookingTypes, Requests, Taking
  <2>2. About(call[c], b) /\ Continue(c, Ran(b, "fail"))
    BY <1>2, <2>0, <2>1 DEF About
  <2> QED BY <2>2, JobGoesOn
<1> QED BY <1>1, <1>2 DEF Throw, Caught, Runners

(* The steps of a request that has begun.                                  *)
LEMMA JobProceeds ==
  ASSUME JobInv, NEW c \in Processes, Proceed(c), NEW d \in Processes
  PROVE  Heirs(d)
<1>0. PICK b : b = call[c].booking
  OBVIOUS
<1>1. CASE ScheduleJobs(c) \/ Move(c) \/ InsertBlock(c) \/ MoveDirect(c)
  BY <1>1, JobOver DEF ScheduleJobs, Move, InsertBlock, MoveDirect
<1>2. ASSUME NEW z, call[c].op = "create",
             Continue(c, [op |-> "create", step |-> z, booking |-> b])
      PROVE  Heirs(d)
  <2>1. PICK q : q = [op |-> "create", step |-> z, booking |-> b]
    OBVIOUS
  <2>2. /\ Continue(c, q)
        /\ \A a : Creates(q, a) => Creates(call[c], a)
        /\ \A a : About(q, a) => About(call[c], a)
    BY <1>0, <1>2, <2>1 DEF Creates, About
  <2> QED BY <2>2, JobHeir
<1>3. CASE Insert(c) \/ StartWorkflow(c) \/ AutoApprove(c)
  <2>1. PICK z : Continue(c, [op |-> "create", step |-> z, booking |-> b])
    <3>1. CASE Insert(c)
      BY <1>0, <3>1 DEF Insert
    <3>2. CASE StartWorkflow(c)
      <4>1. PICK z : z = IF approval THEN "jobs" ELSE "auto"
        OBVIOUS
      <4> QED BY <1>0, <3>2, <4>1 DEF StartWorkflow, Continue
    <3>3. CASE AutoApprove(c)
      BY <1>0, <3>3 DEF AutoApprove, Continue
    <3> QED BY <1>3, <3>1, <3>2, <3>3
  <2>2. call[c].op = "create"
    BY <1>3 DEF Insert, StartWorkflow, AutoApprove
  <2> QED BY <1>2, <2>1, <2>2
<1>4. CASE WriteStatus(c) \/ Find(c)
  <2>1. call[c] \in [op : {"change"}, step : {"write", "read", "move"},
                     booking : Bookings, change : DOMAIN Change]
    BY <1>4 DEF WriteStatus, Find, JobInv, BookingInv, BookingTypes, Requests, Idle
  <2>2. PICK z \in {"read", "move"} : Continue(c, [call[c] EXCEPT !.step = z])
    BY <1>4 DEF WriteStatus, Find
  <2>3. PICK q : q = [call[c] EXCEPT !.step = z]
    OBVIOUS
  <2>4. /\ \A a : ~Creates(q, a)
        /\ \A a : About(q, a) => About(call[c], a)
    BY <2>1, <2>3 DEF Creates, About
  <2> QED BY <2>2, <2>3, <2>4, JobHeir
<1>5. ASSUME call[c].op \in {"change", "end"}, NEW z \in {"complete", "fail"},
             Continue(c, Ran(b, z))
      PROVE  Heirs(d)
  BY <1>0, <1>5, JobGoesOn DEF About
<1>6. CASE MoveWorkflow(c)
  <2>1. End(c) \/ Continue(c, Ran(b, "complete"))
    BY <1>0, <1>6 DEF MoveWorkflow, End
  <2> QED BY <1>5, <1>6, <2>1, JobOver DEF MoveWorkflow
<1>7. ASSUME call[c].op = "end", NEW o \in {"end", "change"}, NEW z, NEW t,
             Continue(c, [op |-> o, step |-> z, booking |-> b, change |-> t])
      PROVE  Heirs(d)
  <2>1. PICK q : q = [op |-> o, step |-> z, booking |-> b, change |-> t]
    OBVIOUS
  <2>2. /\ Continue(c, q) /\ \A a : ~Creates(q, a)
        /\ \A a : About(q, a) => About(call[c], a)
    BY <1>0, <1>7, <2>1 DEF Creates, About
  <2> QED BY <2>2, JobHeir
<1>8. CASE Handle(c)
  <2>1. CASE Continue(c, Ran(b, "complete"))
    BY <1>5, <1>8, <2>1 DEF Handle
  <2>2. CASE \E t \in EndChange(b) :
               Continue(c, [op |-> "end", step |-> "again", booking |-> b, change |-> t])
    BY <1>7, <1>8, <2>2 DEF Handle
  <2> QED BY <1>0, <1>8, <2>1, <2>2 DEF Handle
<1>9. CASE EndAgain(c)
  <2>1. CASE Continue(c, Ran(b, "fail"))
    BY <1>5, <1>9, <2>1 DEF EndAgain
  <2>2. CASE Start(c, b, call[c].change)
    BY <1>7, <1>9, <2>2 DEF EndAgain, Start
  <2> QED BY <1>0, <1>9, <2>1, <2>2 DEF EndAgain
<1>10. CASE Refused(c)
  BY <1>10, JobThrown DEF Refused, Idle
<1> QED BY <1>1, <1>3, <1>4, <1>6, <1>8, <1>9, <1>10 DEF Proceed

(* What callers begin.                                                     *)
LEMMA JobBegins ==
  ASSUME JobInv, NEW c \in Callers, BeginRequest(c), NEW d \in Processes
  PROVE  Heirs(d)
<1>0. c \in Processes /\ c \notin Runners
  BY BookingAssumption DEF Processes, Runners, BookingAssumption
<1>1. ASSUME NEW q, Continue(c, q), q.op # "create"
      PROVE  Heirs(d)
  <2>1. \A a : ~Creates(q, a)
    BY <1>1 DEF Creates
  <2> QED BY <1>0, <1>1, <2>1, JobHeir
<1>2. ASSUME NEW b \in Bookings, NEW w \in Windows, BeginCreate(c, b, w)
      PROVE  Heirs(d)
  <2>1. PICK q : q = [op |-> "create", step |-> "take", booking |-> b, window |-> w]
    OBVIOUS
  <2>2. call'[c] = q /\ \A e \in Processes \ {c} : call'[e] = call[e]
    BY <1>0, <1>2, <2>1 DEF BeginCreate, Continue, JobInv, BookingInv, BookingTypes
  <2>3. \A a : Creates(q, a) => a = b
    BY <2>1 DEF Creates
  <2> QED BY <1>0, <1>2, <2>2, <2>3 DEF Heirs
<1>3. ASSUME NEW b \in Bookings, NEW w \in Windows, BeginUpdate(c, b, w)
      PROVE  Heirs(d)
  <2>1. PICK q : q = [op |-> "update", step |-> "take", booking |-> b, window |-> w]
    OBVIOUS
  <2> QED BY <1>1, <1>3, <2>1 DEF BeginUpdate
<1>4. ASSUME NEW w \in Windows, BeginBlock(c, w)
      PROVE  Heirs(d)
  <2>1. PICK q : q = [op |-> "block", step |-> "take", window |-> w]
    OBVIOUS
  <2> QED BY <1>1, <1>4, <2>1 DEF BeginBlock
<1>5. ASSUME NEW b \in Bookings, NEW t \in DOMAIN Change, BeginChange(c, b, t)
      PROVE  Heirs(d)
  <2>1. PICK q : q = [op |-> "change", step |-> "write", booking |-> b, change |-> t]
    OBVIOUS
  <2> QED BY <1>1, <1>5, <2>1 DEF BeginChange, Start
<1>6. ASSUME NEW b \in Bookings, BeginDirect(c, b)
      PROVE  Heirs(d)
  <2>1. PICK t : Continue(c, [op |-> "direct", step |-> "transit", booking |-> b,
                              to |-> t[3]])
    BY <1>6 DEF BeginDirect
  <2>2. PICK q : q = [op |-> "direct", step |-> "transit", booking |-> b, to |-> t[3]]
    OBVIOUS
  <2> QED BY <1>1, <2>1, <2>2
<1>7. CASE call' = call
  BY <1>7 DEF Heirs
<1> QED BY <1>2, <1>3, <1>4, <1>5, <1>6, <1>7 DEF BeginRequest, StartDirect

LEMMA JobHeirs ==
  ASSUME JobInv, [Next]_vars, NEW d \in Processes
  PROVE  Heirs(d)
<1>1. CASE call' = call
  BY <1>1 DEF Heirs
<1>2. ASSUME NEW c \in Processes, StatementFails(c) \/ Crash(c)
      PROVE  Heirs(d)
  BY <1>2, JobThrown, JobOver DEF StatementFails, Crash, Leave
<1>3. ASSUME NEW c \in Processes, NEW b \in Bookings,
             NEW z \in {"count", "handle"}, Continue(c, Ran(b, z)),
             (c = Worker /\ Execute(b)) \/ (c \in Operators /\ RunByHand(c, b))
      PROVE  Heirs(d)
  <2>1. PICK q : q = Ran(b, z)
    OBVIOUS
  <2>2. call'[c] = q /\ \A e \in Processes \ {c} : call'[e] = call[e]
    BY <1>3, <2>1 DEF Continue, JobInv, BookingInv, BookingTypes
  <2>3. \A a : ~Creates(q, a) /\ (About(q, a) => a = b)
    BY <2>1 DEF Ran, Creates, About
  <2> QED BY <1>3, <2>2, <2>3 DEF Heirs
<1>4. ASSUME NEW c \in Processes, call[c].op = "end",
             NEW z \in {"count", "run", "handle", "complete", "fail"},
             End(c) \/ Continue(c, Ran(call[c].booking, z))
      PROVE  Heirs(d)
  <2>1. PICK b : b = call[c].booking
    OBVIOUS
  <2>2. About(call[c], b)
    BY <1>4, <2>1 DEF About
  <2>3. CASE Continue(c, Ran(call[c].booking, z))
    <3>1. Continue(c, Ran(b, z))
      BY <2>1, <2>3
    <3> QED BY <2>2, <3>1, JobGoesOn
  <2> QED BY <1>4, <2>3, JobOver
<1>5. CASE WorkerStep
  <2>0. Worker \in Processes
    BY DEF Processes, Runners
  <2>1. CASE StartWorker \/ Shutdown \/ Claim
    BY <1>1, <2>1 DEF StartWorker, Shutdown, Claim
  <2>2. ASSUME NEW b \in Bookings, Execute(b)
        PROVE  Heirs(d)
    <3>1. Continue(Worker, Ran(b, "handle"))
      BY <2>2 DEF Execute
    <3> QED BY <1>3, <2>0, <2>2, <3>1
  <2>3. CASE Complete
    BY <1>4, <2>0, <2>3 DEF Complete, Finish
  <2>4. CASE Fail
    BY <1>4, <2>0, <2>4 DEF Fail, Finish
  <2> QED BY <1>5, <2>1, <2>2, <2>3, <2>4 DEF WorkerStep
<1>6. ASSUME NEW o \in Operators, WorkByHand(o) \/ \E b \in Bookings : RunByHand(o, b)
      PROVE  Heirs(d)
  <2>0. o \in Processes
    BY DEF Processes, Runners
  <2>1. ASSUME NEW b \in Bookings, RunByHand(o, b)
        PROVE  Heirs(d)
    <3>1. Continue(o, Ran(b, "count"))
      BY <2>1 DEF RunByHand
    <3> QED BY <1>3, <2>0, <2>1, <3>1
  <2>2. CASE WorkByHand(o)
    BY <1>4, <2>0, <2>2 DEF WorkByHand, CountByHand, CallByHand, EndByHand
  <2> QED BY <1>6, <2>1, <2>2
<1>7. CASE (\E b \in Bookings : Age(b)) \/ OtherJobAborts \/ Tick \/ UNCHANGED vars
  BY <1>1, <1>7 DEF Age, OtherJobAborts, Tick, vars
<1> QED BY <1>2, <1>5, <1>6, <1>7, JobProceeds, JobBegins DEF Next

(* The marks that steps leave: who ran a job by hand, whose it is, how     *)
(* often it was tried.                                                     *)
LEMMA JobMarks ==
  ASSUME JobInv, [Next]_vars
  PROVE  /\ byHand \subseteq byHand'
         /\ \A b \in byHand' \ byHand : endJob[b] # "ABSENT"
         /\ claimed \subseteq claimed' \/ call'[Worker] = Idle
         /\ claimed' # {} => worker' = "up"
         /\ \A b \in claimed' \ claimed : endJob'[b] = "RUNNING"
         /\ \A b \in Bookings \ byHand : attempts'[b] # attempts[b] =>
              attempts[b] < MaxAttempts /\ attempts'[b] = attempts[b] + 1
<1> DEFINE Kept == /\ UNCHANGED <<byHand, attempts>>
                   /\ claimed' \subseteq claimed
                   /\ claimed' # {} => worker' = worker
                   /\ claimed \subseteq claimed' \/ call'[Worker] = Idle
           Goal == /\ byHand \subseteq byHand'
                   /\ \A b \in byHand' \ byHand : endJob[b] # "ABSENT"
                   /\ claimed \subseteq claimed' \/ call'[Worker] = Idle
                   /\ claimed' # {} => worker' = "up"
                   /\ \A b \in claimed' \ claimed : endJob'[b] = "RUNNING"
                   /\ \A b \in Bookings \ byHand : attempts'[b] # attempts[b] =>
                        attempts[b] < MaxAttempts /\ attempts'[b] = attempts[b] + 1
<1> SUFFICES Goal
  OBVIOUS
<1>0. /\ Worker \in Processes /\ call \in [Processes -> Requests]
      /\ attempts \in [Bookings -> Nat]
      /\ claimed # {} => worker = "up"
      /\ claimed \subseteq Bookings
  BY DEF JobInv, BookingInv, BookingTypes, JobTypes, Scheduled, Whose, Processes, Runners
<1>1. CASE Kept
  BY <1>0, <1>1
<1> HIDE DEF Kept
<1>2. CASE UNCHANGED <<byHand, attempts, claimed, worker>>
  <2>1. Kept
    BY <1>2 DEF Kept
  <2> QED BY <1>1, <2>1
<1>3. ASSUME NEW c \in Processes, Leave(c) \/ Throw(c)
      PROVE  /\ UNCHANGED <<byHand, attempts>>
             /\ claimed' = claimed \/ (claimed' = {} /\ call'[Worker] = Idle)
  <2>1. CASE Leave(c)
    <3>1. c = Worker => call'[Worker] = Idle
      BY <1>0, <2>1 DEF Leave, End, Continue
    <3> QED BY <2>1, <3>1 DEF Leave, Stopped, jobVars
  <2>2. CASE UNCHANGED <<byHand, attempts, claimed>>
    BY <2>2
  <2> QED BY <1>3, <2>1, <2>2 DEF Throw, Stopped, jobVars
<1>4. ASSUME NEW c \in Processes, StatementFails(c) \/ Crash(c)
      PROVE  Goal
  <2>1. CASE StatementFails(c)
    BY <1>1, <1>3, <2>1 DEF StatementFails, Kept
  <2>2. CASE Crash(c)
    <3>1. c = Worker => claimed' = {}
      BY <2>2 DEF Crash, Leave
    <3>2. c # Worker => worker' = worker
      BY <2>2 DEF Crash
    <3>3. Kept
      BY <1>3, <2>2, <3>1, <3>2 DEF Crash, Kept
    <3> QED BY <1>1, <3>3
  <2> QED BY <1>4, <2>1, <2>2
<1>5. ASSUME NEW c \in Processes, Proceed(c)
      PROVE  Goal
  <2>1. CASE Refused(c)
    BY <1>1, <1>3, <2>1 DEF Refused, Kept
  <2>2. CASE UNCHANGED <<byHand, attempts, claimed, worker>>
    BY <1>2, <2>2
  <2> QED BY <1>5, <2>1, <2>2
          DEF Proceed, Insert, StartWorkflow, AutoApprove, ScheduleJobs, Move,
              InsertBlock, MoveDirect, WriteStatus, Find, MoveWorkflow, Handle,
              EndAgain, jobVars, workerVars, histVars
<1>6. ASSUME NEW c \in Callers, BeginRequest(c)
      PROVE  Goal
  BY <1>2, <1>6 DEF BeginRequest, BeginCreate, BeginUpdate, BeginBlock, BeginChange,
                    StartDirect, BeginDirect, jobVars, workerVars, histVars
<1>7. CASE WorkerStep
  <2>1. CASE StartWorker
    BY <2>1 DEF StartWorker, histVars
  <2>2. CASE Shutdown
    <3>1. Kept
      BY <2>2 DEF Shutdown, jobVars, histVars, Kept
    <3> QED BY <1>1, <3>1
  <2>3. CASE Claim
    <3>1. PICK bs \in SUBSET {b \in Bookings : Due(b)} :
            /\ claimed' = bs
            /\ endJob' = [b \in Bookings |-> IF b \in bs THEN "RUNNING" ELSE endJob[b]]
            /\ attempts' = [b \in Bookings |->
                              IF b \in bs THEN attempts[b] + 1 ELSE attempts[b]]
      BY <2>3 DEF Claim
    <3>2. worker = "up" /\ claimed = {} /\ UNCHANGED <<byHand, worker>>
      BY <2>3 DEF Claim, histVars
    <3> QED BY <3>1, <3>2 DEF Due
  <2>4. ASSUME NEW b \in Bookings, Execute(b)
        PROVE  Goal
    BY <1>2, <2>4 DEF Execute, jobVars, workerVars, histVars
  <2>5. CASE Complete \/ Fail
    <3>1. /\ UNCHANGED <<byHand, attempts, worker>>
          /\ claimed' = claimed \/ (claimed' \subseteq claimed /\ End(Worker))
      BY <2>5 DEF Complete, Fail, Finish, histVars
    <3>2. End(Worker) => call'[Worker] = Idle
      BY <1>0 DEF End, Continue
    <3>3. Kept
      BY <3>1, <3>2 DEF Kept
    <3> QED BY <1>1, <3>3
  <2> QED BY <1>7, <2>1, <2>2, <2>3, <2>4, <2>5 DEF WorkerStep
<1>8. ASSUME NEW o \in Operators, WorkByHand(o) \/ \E b \in Bookings : RunByHand(o, b)
      PROVE  Goal
  <2>1. ASSUME NEW b \in Bookings, RunByHand(o, b)
        PROVE  Goal
    BY <1>0, <2>1 DEF RunByHand, jobVars, workerVars
  <2>2. CASE CountByHand(o)
    <3>1. PICK b : b = call[o].booking
      OBVIOUS
    <3>2. /\ call[o].op = "end" /\ attempts' = [attempts EXCEPT ![b] = @ + 1]
          /\ UNCHANGED <<byHand, claimed, worker>>
      BY <2>2, <3>1 DEF CountByHand, workerVars, histVars
    <3>3. About(call[o], b)
      BY <3>1, <3>2 DEF About
    <3>4. \A a \in Bookings \ byHand : attempts'[a] = attempts[a]
      BY <1>0, <3>2, <3>3 DEF JobInv, Whose
    <3> QED BY <1>0, <3>2, <3>4
  <2>3. CASE CallByHand(o) \/ EndByHand(o)
    BY <1>2, <2>3 DEF CallByHand, EndByHand, workerVars, histVars
  <2> QED BY <1>8, <2>1, <2>2, <2>3 DEF WorkByHand
<1>9. ASSUME NEW b \in Bookings, Age(b)
      PROVE  Goal
  BY <1>2, <1>9 DEF Age, workerVars, histVars
<1>10. CASE OtherJobAborts
  <2>1. call'[Worker] = Idle /\ Kept
    BY <1>10 DEF OtherJobAborts, jobVars, Kept
  <2> QED BY <1>1, <2>1
<1>11. CASE Tick \/ UNCHANGED vars
  BY <1>2, <1>11 DEF Tick, vars, jobVars, workerVars, histVars
<1> QED BY <1>4, <1>5, <1>6, <1>7, <1>8, <1>9, <1>10, <1>11 DEF Next

-----------------------------------------------------------------------------
LEMMA JobTyped ==
  ASSUME JobInv, [Next]_vars
  PROVE  JobTypes'
<1>0. /\ MaxStops \in Nat /\ Horizon \in Nat
      /\ \A b \in Bookings : window[b].to \in Nat /\ RetryAt(b) \in Nat
  BY BookingAssumption
     DEF BookingAssumption, JobInv, JobTypes, BookingInv, BookingTypes, Times, RetryAt
<1>1. CASE UNCHANGED <<approval, now, runAt, dueAt, attempts, aged, worker, extended,
                       byHand, stops>>
  BY <1>1 DEF JobInv, JobTypes
<1>2. ASSUME NEW c \in Callers, BeginRequest(c)
      PROVE  JobTypes'
  <2>1. CASE UNCHANGED <<approval, now, jobVars, workerVars, extended, byHand, stops>>
    BY <1>1, <2>1 DEF jobVars, workerVars
  <2> QED BY <1>2, <2>1 DEF BeginRequest, BeginCreate, BeginUpdate, BeginBlock,
                            BeginChange, StartDirect, BeginDirect, histVars
<1>3. ASSUME NEW c \in Processes, Leave(c) \/ Throw(c)
      PROVE  UNCHANGED <<approval, now, runAt, dueAt, attempts, aged, extended, byHand>>
  BY <1>3 DEF Throw, Leave, Stopped, jobVars
<1>4. ASSUME NEW c \in Processes, Proceed(c)
      PROVE  JobTypes'
  <2>1. CASE ScheduleJobs(c)
    <3>1. PICK b : b = call[c].booking
      OBVIOUS
    <3>2. b \in Bookings
      BY <2>1, <3>1, BookingAbout DEF ScheduleJobs, JobInv
    <3>3. PICK d \in Nat : d = window[b].to
      BY <1>0, <3>2
    <3>4. /\ runAt' = runAt \/ runAt' = [runAt EXCEPT ![b] = d]
          /\ dueAt' = dueAt \/ dueAt' = [dueAt EXCEPT ![b] = d]
          /\ UNCHANGED <<approval, now, attempts, aged, worker, extended, byHand, stops>>
      BY <2>1, <3>1, <3>3 DEF ScheduleJobs, workerVars, histVars
    <3> QED BY <3>4 DEF JobInv, JobTypes
  <2>2. CASE Move(c)
    <3>1. call[c].booking \in Bookings
      BY <2>2, BookingRequest DEF Move, JobInv, BookingInv, BookingTypes
    <3> QED BY <2>2, <3>1 DEF Move, jobVars, workerVars, JobInv, JobTypes
  <2>3. CASE Refused(c)
    BY <1>1, <1>3, <2>3 DEF Refused
  <2>4. CASE UNCHANGED <<approval, now, jobVars, workerVars, extended, byHand, stops>>
    BY <1>1, <2>4 DEF jobVars, workerVars
  <2> QED BY <1>4, <2>1, <2>2, <2>3, <2>4
          DEF Proceed, Insert, StartWorkflow, AutoApprove, InsertBlock, MoveDirect,
              WriteStatus, Find, MoveWorkflow, Handle, EndAgain, histVars
<1>5. ASSUME NEW c \in Processes, StatementFails(c) \/ Crash(c)
      PROVE  JobTypes'
  <2>1. UNCHANGED <<approval, now, runAt, dueAt, attempts, aged, extended, byHand>>
    BY <1>3, <1>5 DEF StatementFails, Crash
  <2>2. worker' \in {worker, "down"} /\ Fault
    BY <1>5 DEF StatementFails, Crash
  <2>3. stops' \in 0 .. MaxStops
    BY <1>0, <2>2 DEF Fault, JobInv, JobTypes
  <2> QED BY <2>1, <2>2, <2>3 DEF JobInv, JobTypes
<1>6. ASSUME NEW b \in Bookings, NEW s, NEW d \in Nat, WriteJob(b, s, d)
      PROVE  dueAt' \in [Bookings -> Nat] /\ aged' \subseteq Bookings
  BY <1>6 DEF WriteJob, JobInv, JobTypes
<1>7. CASE WorkerStep
  <2>1. CASE StartWorker
    BY <1>0, <2>1 DEF StartWorker, histVars, JobInv, JobTypes
  <2>2. CASE Shutdown
    BY <2>2 DEF Shutdown, jobVars, histVars, JobInv, JobTypes
  <2>3. CASE Claim
    BY <2>3 DEF Claim, histVars, JobInv, JobTypes
  <2>4. ASSUME NEW b \in Bookings, Execute(b)
        PROVE  JobTypes'
    BY <1>1, <2>4 DEF Execute, jobVars, workerVars, histVars
  <2>5. CASE Complete \/ Fail
    <3>1. PICK b : b = call[Worker].booking
      OBVIOUS
    <3>2. b \in Bookings /\ runAt[b] \in Nat /\ RetryAt(b) \in Nat
      <4>1. Worker \in Processes /\ call[Worker].op = "end"
        BY <2>5 DEF Complete, Fail, Processes, Runners
      <4>2. b \in Bookings
        BY <3>1, <4>1, BookingAbout DEF JobInv
      <4> QED BY <1>0, <4>2 DEF JobInv, JobTypes
    <3>3. \/ WriteJob(b, "COMPLETED", runAt[b]) \/ WriteJob(b, "FAILED", RetryAt(b))
          \/ UNCHANGED <<dueAt, aged>>
      BY <2>5, <3>1 DEF Complete, Fail
    <3>4. dueAt' \in [Bookings -> Nat] /\ aged' \subseteq Bookings
      BY <1>6, <3>2, <3>3 DEF JobInv, JobTypes
    <3>5. UNCHANGED <<approval, now, runAt, attempts, worker, extended, byHand, stops>>
      BY <2>5 DEF Complete, Fail, histVars
    <3> QED BY <3>4, <3>5 DEF JobInv, JobTypes
  <2> QED BY <1>7, <2>1, <2>2, <2>3, <2>4, <2>5 DEF WorkerStep
<1>8. ASSUME NEW o \in Operators, WorkByHand(o)
      PROVE  JobTypes'
  <2>1. PICK b : b = call[o].booking
    OBVIOUS
  <2>2. b \in Bookings
    BY <1>8, <2>1, BookingAbout
       DEF WorkByHand, CountByHand, CallByHand, EndByHand, JobInv, Processes, Runners
  <2>3. CASE CountByHand(o)
    <3>1. attempts' = [attempts EXCEPT ![b] = @ + 1] /\ aged' = aged \ {b}
      BY <2>1, <2>3 DEF CountByHand
    <3> QED BY <2>2, <2>3, <3>1 DEF CountByHand, workerVars, histVars, JobInv, JobTypes
  <2>4. CASE CallByHand(o) \/ EndByHand(o)
    <3>1. PICK s : WriteJob(b, s, dueAt[b])
      <4>1. CASE CallByHand(o)
        BY <2>1, <4>1 DEF CallByHand
      <4>2. CASE EndByHand(o)
        <5>1. PICK s : s = IF call[o].step = "fail" THEN "FAILED" ELSE "COMPLETED"
          OBVIOUS
        <5> QED BY <2>1, <4>2, <5>1 DEF EndByHand
      <4> QED BY <2>4, <4>1, <4>2
    <3>2. dueAt' \in [Bookings -> Nat] /\ aged' \subseteq Bookings
      BY <1>6, <2>2, <3>1 DEF JobInv, JobTypes
    <3>3. UNCHANGED <<approval, now, runAt, attempts, worker, extended, byHand, stops>>
      BY <2>4 DEF CallByHand, EndByHand, workerVars, histVars
    <3> QED BY <3>2, <3>3 DEF JobInv, JobTypes
  <2> QED BY <1>8, <2>3, <2>4 DEF WorkByHand
<1>9. ASSUME NEW o \in Operators, NEW b \in Bookings, RunByHand(o, b)
      PROVE  JobTypes'
  BY <1>9 DEF RunByHand, jobVars, workerVars, JobInv, JobTypes
<1>10. ASSUME NEW b \in Bookings, Age(b)
       PROVE  JobTypes'
  BY <1>10 DEF Age, workerVars, histVars, JobInv, JobTypes
<1>11. CASE OtherJobAborts
  <2>1. stops' \in 0 .. MaxStops
    BY <1>0, <1>11 DEF OtherJobAborts, Fault, JobInv, JobTypes
  <2> QED BY <1>11, <2>1 DEF OtherJobAborts, jobVars, JobInv, JobTypes
<1>12. CASE Tick
  <2>1. now' \in 0 .. Horizon
    BY <1>0, <1>12 DEF Tick, JobInv, JobTypes
  <2> QED BY <1>12, <2>1 DEF Tick, jobVars, workerVars, histVars, JobInv, JobTypes
<1>13. CASE UNCHANGED vars
  BY <1>1, <1>13 DEF vars, jobVars, workerVars, histVars
<1> QED BY <1>2, <1>4, <1>5, <1>7, <1>8, <1>9, <1>10, <1>11, <1>12, <1>13 DEF Next

-----------------------------------------------------------------------------
(* A job that is ABSENT is created by the only request that creates its    *)
(* reservation, which is over then.                                        *)
LEMMA JobAbsent ==
  ASSUME JobInv, [Next]_vars, NEW b \in Bookings, endJob[b] = "ABSENT",
         endJob'[b] # "ABSENT"
  PROVE  \A c \in Processes : ~Creates(call'[c], b)
<1>1. PICK d \in Processes :
        ScheduleJobs(d) /\ call[d].booking = b /\ endJob'[b] = "PENDING"
  BY JobWrites DEF Written, Due, JobInv, Whose
<1>2. Creates(call[d], b)
  BY <1>1 DEF ScheduleJobs, Creates
<1>3. call'[d] = Idle /\ \A e \in Processes \ {d} : call'[e] = call[e]
  BY <1>1 DEF ScheduleJobs, End, Continue, JobInv, BookingInv, BookingTypes
<1>4. ~Creates(Idle, b)
  BY DEF Idle, Creates
<1> QED BY <1>2, <1>3, <1>4 DEF JobInv, CreatedOnce

LEMMA JobCreatedOnce ==
  ASSUME JobInv, [Next]_vars
  PROVE  CreatedOnce'
<1> SUFFICES ASSUME NEW c \in Processes, NEW b \in Bookings, Creates(call'[c], b)
             PROVE  /\ endJob'[b] = "ABSENT"
                    /\ \A e \in Processes \ {c} : ~Creates(call'[e], b)
  BY DEF CreatedOnce, Creates
<1>0. /\ \A e \in Processes : Heirs(e)
      /\ \A e \in Processes : Creates(call[e], b) => On(e, b)
  BY JobHeirs DEF Creates, On
<1>1. CASE Creates(call[c], b)
  <2>1. endJob[b] = "ABSENT" /\ \A e \in Processes \ {c} : ~Creates(call[e], b)
    BY <1>1 DEF JobInv, CreatedOnce
  <2>2. endJob'[b] = "ABSENT"
    BY <2>1, JobAbsent
  <2>3. \A e \in Processes, w \in Windows : ~BeginCreate(e, b, w)
    BY <1>0, <1>1 DEF BeginCreate
  <2> QED BY <1>0, <2>1, <2>2, <2>3 DEF Heirs
<1>2. ASSUME NEW w \in Windows, BeginCreate(c, b, w)
      PROVE  /\ endJob'[b] = "ABSENT"
             /\ \A e \in Processes \ {c} : ~Creates(call'[e], b)
  <2>1. endJob'[b] = "ABSENT"
    BY <1>2 DEF BeginCreate, jobVars, JobInv, Scheduled
  <2>2. \A e \in Processes \ {c} : call'[e] = call[e]
    BY <1>2 DEF BeginCreate, Continue, JobInv, BookingInv, BookingTypes
  <2> QED BY <1>0, <1>2, <2>1, <2>2 DEF BeginCreate
<1> QED BY <1>0, <1>1, <1>2 DEF Heirs

LEMMA JobWhose ==
  ASSUME JobInv, [Next]_vars
  PROVE  Whose'
<1>0. /\ Worker \in Processes /\ Operators \subseteq Processes
      /\ Worker \notin Operators /\ Worker \in Runners /\ Operators \subseteq Runners
  BY BookingAssumption DEF Processes, Runners, BookingAssumption
<1>1. ASSUME NEW b \in Bookings, About(call'[Worker], b)
      PROVE  b \in claimed'
  <2>1. call'[Worker] # Idle
    BY <1>1 DEF Idle, About
  <2>2. claimed \subseteq claimed'
    BY <2>1, JobMarks
  <2>3. About(call[Worker], b) \/ Execute(b)
    BY <1>0, <1>1, JobHeirs DEF Heirs
  <2>4. b \in claimed
    BY <2>3 DEF JobInv, Whose, Execute
  <2> QED BY <2>2, <2>4
<1>2. claimed' # {} => worker' = "up"
  BY JobMarks
<1>3. ASSUME NEW o \in Operators, NEW b \in Bookings, About(call'[o], b)
      PROVE  b \in byHand'
  <2>1. About(call[o], b) \/ RunByHand(o, b)
    BY <1>0, <1>3, JobHeirs DEF Heirs
  <2>2. CASE About(call[o], b)
    BY <2>2, JobMarks DEF JobInv, Whose
  <2>3. CASE RunByHand(o, b)
    BY <2>3 DEF RunByHand
  <2> QED BY <2>1, <2>2, <2>3
<1>4. ASSUME NEW b \in byHand'
      PROVE  endJob'[b] # "ABSENT"
  <2>1. b \in Bookings
    BY <1>4, JobTyped DEF JobTypes
  <2>2. endJob[b] # "ABSENT"
    BY <1>4, JobMarks DEF JobInv, Whose
  <2>3. CASE endJob'[b] # endJob[b]
    BY <2>1, <2>3, JobWrites DEF Written
  <2> QED BY <2>2, <2>3
<1> QED BY <1>1, <1>2, <1>3, <1>4 DEF Whose, About

LEMMA JobClaimedRuns ==
  ASSUME JobInv, [Next]_vars
  PROVE  ClaimedRuns'
<1> SUFFICES ASSUME NEW b \in claimed', b \notin byHand'
             PROVE  endJob'[b] = "RUNNING"
  BY DEF ClaimedRuns
<1>1. CASE b \notin claimed
  BY <1>1, JobMarks
<1>2. CASE b \in claimed
  <2>1. /\ b \in Bookings /\ b \notin byHand
        /\ endJob[b] = "RUNNING" /\ worker = "up"
    BY <1>2, JobMarks DEF JobInv, Scheduled, ClaimedRuns, Whose
  <2>2. \A c \in Processes : ~(ScheduleJobs(c) /\ call[c].booking = b)
    BY <2>1 DEF JobInv, CreatedOnce, Creates, ScheduleJobs
  <2> QED BY <2>1, <2>2, JobWrites DEF Written, Due
<1> QED BY <1>1, <1>2

LEMMA JobAttemptsKept ==
  ASSUME JobInv, [Next]_vars
  PROVE  AttemptsKept'
<1> SUFFICES ASSUME NEW b \in Bookings, b \notin byHand'
             PROVE  attempts'[b] <= MaxAttempts
  BY DEF AttemptsKept
<1>1. /\ b \notin byHand /\ attempts[b] \in Nat /\ MaxAttempts \in Nat
      /\ attempts[b] <= MaxAttempts
  BY BookingAssumption, JobMarks
     DEF BookingAssumption, JobInv, JobTypes, AttemptsKept
<1>2. attempts'[b] = attempts[b]
        \/ (attempts[b] < MaxAttempts /\ attempts'[b] = attempts[b] + 1)
  BY <1>1, JobMarks
<1> QED BY <1>1, <1>2

LEMMA JobInitially == Init => JobInv
<1> SUFFICES ASSUME Init PROVE JobInv
  OBVIOUS
<1>1. BookingInv /\ Scheduled
  BY BookingInitially, ScheduledInitially
<1>2. JobTypes
  BY BookingAssumption DEF Init, JobTypes, BookingAssumption
<1>3. \A c \in Processes : call[c] = Idle
  BY DEF Init
<1>4. \A b : ~Creates(Idle, b) /\ ~About(Idle, b)
  BY DEF Idle, Creates, About
<1>5. CreatedOnce
  BY <1>3, <1>4 DEF CreatedOnce
<1>6. Whose
  BY <1>3, <1>4 DEF Init, Whose, Processes, Runners
<1>7. ClaimedRuns /\ AttemptsKept
  BY BookingAssumption DEF Init, ClaimedRuns, AttemptsKept, BookingAssumption
<1> QED BY <1>1, <1>2, <1>5, <1>6, <1>7 DEF JobInv

LEMMA JobInductive == JobInv /\ [Next]_vars => JobInv'
<1> SUFFICES ASSUME JobInv, [Next]_vars
             PROVE  JobInv'
  OBVIOUS
<1>1. BookingInv' /\ Scheduled'
  BY BookingInductive DEF JobInv
<1> QED BY <1>1, JobTyped, JobCreatedOnce, JobWhose, JobClaimedRuns, JobAttemptsKept
        DEF JobInv

(* Type correctness of every variable: the tables and what each request    *)
(* carries, the workflow instances, the end jobs, the worker, the clock    *)
(* and the bounds.                                                         *)
THEOREM BookingTypeCorrect ==
  Spec => [](BookingTypes /\ FollowTypes /\ Scheduled /\ JobTypes)
<1>1. FollowInv /\ JobInv => BookingTypes /\ FollowTypes /\ Scheduled /\ JobTypes
  BY DEF FollowInv, JobInv, BookingInv
<1>2. FollowInv /\ JobInv /\ [Next]_vars => FollowInv' /\ JobInv'
  BY FollowInductive, JobInductive DEF JobInv
<1> QED BY <1>1, <1>2, FollowInitially, JobInitially, PTL DEF Spec

(* The result of a job that nobody runs by hand stands.                    *)
CompletedStays ==
  \A b \in Bookings : endJob[b] = "COMPLETED" /\ b \notin byHand' =>
    endJob'[b] = "COMPLETED"

(* End jobs (scheduleReservationJobs, and the worker that runs them):      *)
(* while a reservation is being created, one request does it, and there is *)
(* no end job yet; and as long as nobody runs it by hand, a job the worker *)
(* has claimed is RUNNING until the worker is done with it or lost, it is  *)
(* tried no more than maxAttempts times, and once COMPLETED it stays so.   *)
THEOREM BookingEndJobsKept ==
  Spec => [](CreatedOnce /\ ClaimedRuns /\ AttemptsKept) /\ [][CompletedStays]_vars
<1>1. JobInv => CreatedOnce /\ ClaimedRuns /\ AttemptsKept
  BY DEF JobInv
<1>2. JobInv /\ [Next]_vars => CompletedStays
  <2> SUFFICES ASSUME JobInv, [Next]_vars, NEW b \in Bookings,
                      endJob[b] = "COMPLETED", b \notin byHand'
               PROVE  endJob'[b] = "COMPLETED"
    BY DEF CompletedStays
  <2>1. b \notin byHand
    BY JobMarks
  <2>2. \A c \in Processes : ~(ScheduleJobs(c) /\ call[c].booking = b)
    BY DEF JobInv, CreatedOnce, Creates, ScheduleJobs
  <2> QED BY <2>1, <2>2, JobWrites DEF Written, Due
<1>3. Init /\ [][Next]_vars => []JobInv
  BY JobInitially, JobInductive, PTL
<1>4. []JobInv /\ [][Next]_vars => [][CompletedStays]_vars
  BY <1>2, PTL
<1> QED BY <1>1, <1>3, <1>4, PTL DEF Spec
=============================================================================
