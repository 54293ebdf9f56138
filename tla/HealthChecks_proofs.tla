------------------------- MODULE HealthChecks_proofs -------------------------
(***************************************************************************)
(* Proofs about HealthChecks, for whatever a round looks at, any number of *)
(* requests beside the loop and any limit: types, no event told twice or   *)
(* out of order, and the chain that a component's history is.              *)
(***************************************************************************)
EXTENDS HealthChecks, TLAPS, SequenceTheorems

\* A round looks at something, and knows how.
Params ==
    /\ Order \in Seq({"camera", "stream", "storage", "mqtt"}) /\ Order # <<>>
    /\ Limit \in Nat

Events == [of : Components, from : Answers, to : Statuses]
Places == [pc : {"idle", "check", "write", "report"}, next : 1..Len(Order),
           found : Answers, old : Answers]

LEMMA OrderFacts ==
    ASSUME Params
    PROVE  /\ Len(Order) \in Nat /\ 1 \in 1..Len(Order)
           /\ \A n \in 1..Len(Order) :
                  /\ Order[n] \in Components
                  /\ Order[n] \in {"camera", "stream", "storage", "mqtt"}
           /\ Components \subseteq {"camera", "stream", "storage", "mqtt"}
           /\ \A n \in 1..Len(Order) : n # Len(Order) => n + 1 \in 1..Len(Order)
<1>1. /\ Len(Order) \in Nat /\ Len(Order) # 0 /\ DOMAIN Order = 1..Len(Order)
      /\ \A n \in 1..Len(Order) : Order[n] \in {"camera", "stream", "storage", "mqtt"}
  BY EmptySeq, LenProperties, ElementOfSeq DEF Params
<1>2. Components = {Order[n] : n \in 1..Len(Order)}
  BY <1>1 DEF Components, Range
<1>3. 1 \in 1..Len(Order) /\ \A n \in 1..Len(Order) : n # Len(Order) => n + 1 \in 1..Len(Order)
  <2>1. Len(Order) \in Nat /\ Len(Order) # 0
    BY <1>1
  <2> QED BY <2>1
<1> QED BY <1>1, <1>2, <1>3

LEMMA FoundStatus == ASSUME Params, NEW c \in Components PROVE Found(c) \in Statuses
BY OrderFacts DEF Found, CameraStatus, StreamStatus, StorageStatus, MqttStatus, Statuses

\* The places of a round, written field by field.
LEMMA PlacesWritten ==
    ASSUME Params
    PROVE  /\ Resting \in Places /\ Resting.pc = "idle"
           /\ \A pc \in {"check", "report"} :
                  LET p == [Resting EXCEPT !.pc = pc] IN p \in Places /\ p.pc = pc
           /\ \A n \in 1..Len(Order) :
                  LET p == [Resting EXCEPT !.pc = "check", !.next = n]
                  IN  p \in Places /\ p.pc = "check"
           /\ \A r \in Rounds : Ended(r) \in Places /\ Ended(r).pc # "write"
<1>1. Resting \in Places /\ Resting.pc = "idle"
  BY OrderFacts DEF Resting, Places, Answers
<1>2. \A pc \in {"check", "report"} :
          LET p == [Resting EXCEPT !.pc = pc] IN p \in Places /\ p.pc = pc
  BY <1>1 DEF Places
<1>3. ASSUME NEW n \in 1..Len(Order)
      PROVE  LET p == [Resting EXCEPT !.pc = "check", !.next = n]
             IN  p \in Places /\ p.pc = "check"
  <2> DEFINE half == [Resting EXCEPT !.pc = "check"]
  <2>1. half \in Places /\ half.pc = "check"
    BY <1>2
  <2>2. [Resting EXCEPT !.pc = "check", !.next = n] = [half EXCEPT !.next = n]
    BY <1>1 DEF Places
  <2> HIDE DEF half
  <2> QED BY <2>1, <2>2 DEF Places
<1>4. \A r \in Rounds : Ended(r) \in Places /\ Ended(r).pc # "write"
  BY <1>1, <1>2 DEF Ended
<1> QED BY <1>1, <1>2, <1>3, <1>4

LEMMA InitIInv == Params /\ Init => IInv
<1> SUFFICES ASSUME Params, Init PROVE IInv
  OBVIOUS
<1>1. /\ status = [c \in Components |-> None] /\ events = <<>> /\ lastId = 0
      /\ firstRun = TRUE /\ told = <<>> /\ mixed = FALSE
      /\ round = [r \in Rounds |-> Resting]
  BY DEF Init
<1>2. round \in [Rounds -> Places] /\ \A r \in Rounds : round[r].pc = "idle"
  BY <1>1, PlacesWritten
<1>3. Len(<<>>) = 0 /\ 0 \in 0..0 /\ <<>> \in Seq(Nat) /\ <<>> \in Seq(Events)
  BY EmptySeq
<1>4. TypeOK
  BY <1>1, <1>2, <1>3 DEF TypeOK, Places, Events, Answers
<1>5. ToldOnceInOrder /\ HistoryIsAChain
  BY <1>1 DEF ToldOnceInOrder, HistoryIsAChain, NoneSince
<1>6. Ordered
  BY <1>1, <1>2 DEF Ordered, Busy
<1> QED BY <1>4, <1>5, <1>6 DEF IInv

-----------------------------------------------------------------------------
(* Steps.                                                                  *)

LEMMA HistoryStays ==
    ASSUME IInv, UNCHANGED <<status, events>>, mixed => mixed'
    PROVE  HistoryIsAChain'
BY DEF IInv, HistoryIsAChain, NoneSince, Follows

LEMMA ToldStays ==
    ASSUME IInv, UNCHANGED told
    PROVE  ToldOnceInOrder'
BY DEF IInv, ToldOnceInOrder

LEMMA BeginKeepsIInv == ASSUME Params, IInv, NEW r \in Rounds, Begin(r) PROVE IInv'
<1> DEFINE place == [Resting EXCEPT !.pc = "check"]
<1>1. /\ place \in Places /\ place.pc = "check" /\ round' = [round EXCEPT ![r] = place]
      /\ mixed' = (mixed \/ Busy # {}) /\ round[r].pc = "idle"
      /\ UNCHANGED <<status, events, lastId, firstRun, told>>
  BY PlacesWritten DEF Begin
<1> HIDE DEF place
<1>2. TypeOK'
  BY <1>1 DEF IInv, TypeOK, Places
<1>3. Ordered'
  BY <1>1 DEF IInv, TypeOK, Ordered, Busy, Places
<1>4. HistoryIsAChain' /\ ToldOnceInOrder'
  BY <1>1, HistoryStays, ToldStays
<1> QED BY <1>2, <1>3, <1>4 DEF IInv

LEMMA LookKeepsIInv == ASSUME Params, IInv, NEW r \in Rounds, Look(r) PROVE IInv'
<1> DEFINE c == Order[round[r].next]
           half == [round[r] EXCEPT !.pc = "write"]
           most == [half EXCEPT !.found = Found(c)]
           place == [most EXCEPT !.old = status[c]]
<1>1. round[r] \in Places /\ round[r].pc = "check"
  BY DEF IInv, TypeOK, Places, Look
<1>2. c \in Components /\ status[c] \in Answers /\ Found(c) \in Statuses
  BY <1>1, OrderFacts, FoundStatus DEF IInv, TypeOK, Places
<1>3. round' = [round EXCEPT ![r].pc = "write", ![r].found = Found(c), ![r].old = status[c]]
      /\ UNCHANGED <<status, events, lastId, firstRun, told, mixed>>
  BY DEF Look
<1>4. round' = [round EXCEPT ![r] = place]
  BY <1>3 DEF IInv, TypeOK
<1>5. half \in Places /\ half.pc = "write" /\ half.next = round[r].next
  BY <1>1 DEF Places
<1> HIDE DEF half
<1>6. most \in Places /\ most.pc = "write" /\ most.next = round[r].next /\ most.found = Found(c)
  BY <1>2, <1>5 DEF Places, Answers
<1> HIDE DEF most
<1>7. /\ place \in Places /\ place.pc = "write" /\ place.next = round[r].next
      /\ place.found = Found(c) /\ place.old = status[c]
  BY <1>2, <1>6 DEF Places
<1> HIDE DEF place
<1>a. UNCHANGED <<status, events, lastId, firstRun, told, mixed>>
  BY <1>3
<1>8. TypeOK'
  BY <1>a, <1>4, <1>7 DEF IInv, TypeOK, Places
<1>9. Ordered'
  BY <1>1, <1>2, <1>a, <1>4, <1>7 DEF IInv, TypeOK, Ordered, Busy
<1>10. HistoryIsAChain' /\ ToldOnceInOrder'
  BY <1>3, HistoryStays, ToldStays
<1> QED BY <1>8, <1>9, <1>10 DEF IInv

\* What is new follows what is known, up to the newest event.
LEMMA NewEventsFollow ==
    ASSUME Params, TypeOK
    PROVE  /\ Known \in lastId..Len(events)
           /\ NewEvents \in Seq(Nat)
           /\ DOMAIN NewEvents = 1..(Len(events) - Known)
           /\ \A n \in DOMAIN NewEvents : NewEvents[n] = Known + n
           /\ Advanced \in lastId..Len(events) /\ Advanced \in Nat
           /\ \A n \in DOMAIN NewEvents : NewEvents[n] <= Advanced
<1>1. Len(events) \in Nat /\ lastId \in Nat /\ lastId <= Len(events) /\ Limit \in Nat
  BY LenProperties DEF TypeOK, Params
<1>2. Known \in Nat /\ lastId <= Known /\ Known <= Len(events)
  BY <1>1 DEF Known
<1> DEFINE n == Len(events) - Known
<1>3. n \in Nat
  BY <1>1, <1>2
<1>4. NewEvents = [i \in 1..n |-> Known + i]
  BY DEF NewEvents
<1>5. \A i \in 1..n : Known + i \in Nat /\ Known + i <= Len(events)
  BY <1>1, <1>2, <1>3
<1>6. NewEvents \in Seq(Nat) /\ DOMAIN NewEvents = 1..n /\ Len(NewEvents) = n
  <2> HIDE DEF n
  <2>1. NewEvents \in Seq(Nat)
    BY <1>3, <1>4, <1>5, IsASeq
  <2>2. DOMAIN NewEvents = 1..n
    BY <1>4
  <2> QED BY <1>3, <2>1, <2>2, LenProperties
<1>7. Advanced \in Nat /\ lastId <= Advanced /\ Advanced <= Len(events)
      /\ (n # 0 => Advanced = Len(events))
  <2>1. CASE n = 0
    <3>1. NewEvents = <<>>
      BY <1>6, <2>1, EmptySeq
    <3> QED BY <1>1, <2>1, <3>1 DEF Advanced
  <2>2. CASE n # 0
    <3>1. NewEvents # <<>>
      BY <1>6, <2>2, EmptySeq
    <3>2. n \in 1..n
      BY <1>3, <2>2
    <3>3. Last(NewEvents) = Known + n
      BY <1>4, <1>6, <3>2 DEF Last
    <3>4. Known + n = Len(events)
      BY <1>1, <1>2
    <3> QED BY <1>1, <3>1, <3>3, <3>4 DEF Advanced
  <2> QED BY <2>1, <2>2
<1>8. \A i \in 1..n : NewEvents[i] = Known + i /\ NewEvents[i] <= Advanced
  BY <1>3, <1>4, <1>5, <1>7
<1> QED BY <1>1, <1>2, <1>6, <1>7, <1>8

LEMMA ReportKeepsIInv == ASSUME Params, IInv, Report PROVE IInv'
<1>1. /\ lastId' = Advanced /\ told' = (IF firstRun THEN told ELSE told \o NewEvents)
      /\ firstRun' = FALSE /\ round' = [round EXCEPT ![Loop] = Resting]
      /\ UNCHANGED <<status, events, mixed>>
  BY DEF Report
<1>2. Resting \in Places /\ Resting.pc = "idle"
  BY PlacesWritten
<1>3. TypeOK /\ told \in Seq(Nat) /\ lastId \in Nat /\ Len(events) \in Nat
      /\ Known \in Nat /\ lastId <= Known /\ Advanced \in Nat /\ lastId <= Advanced
      /\ Advanced <= Len(events)
  BY NewEventsFollow, LenProperties DEF IInv, TypeOK
<1>4. ASSUME NEW m \in DOMAIN (told \o NewEvents)
      PROVE  /\ m \in Nat
             /\ m <= Len(told) => m \in DOMAIN told /\ (told \o NewEvents)[m] = told[m]
             /\ m > Len(told) => (told \o NewEvents)[m] = Known + (m - Len(told))
             /\ (told \o NewEvents)[m] <= Advanced
  <2>1. NewEvents \in Seq(Nat) /\ told \in Seq(Nat)
    BY <1>3, NewEventsFollow
  <2>2. /\ DOMAIN (told \o NewEvents) = 1..(Len(told) + Len(NewEvents))
        /\ DOMAIN told = 1..Len(told) /\ DOMAIN NewEvents = 1..Len(NewEvents)
        /\ Len(told) \in Nat /\ Len(NewEvents) \in Nat
        /\ (told \o NewEvents)[m] = IF m <= Len(told) THEN told[m] ELSE NewEvents[m - Len(told)]
    BY <2>1, ConcatProperties, LenProperties
  <2>3. m \in 1..(Len(told) + Len(NewEvents))
    BY <2>2
  <2>4. CASE m <= Len(told)
    <3>1. m \in DOMAIN told /\ told[m] \in Nat
      BY <2>1, <2>2, <2>3, <2>4, ElementOfSeq
    <3>2. told[m] <= lastId
      BY <3>1 DEF IInv, Ordered
    <3> QED BY <1>3, <2>2, <2>3, <2>4, <3>1, <3>2
  <2>5. CASE m > Len(told)
    <3>1. m - Len(told) \in DOMAIN NewEvents
      BY <2>2, <2>3, <2>5
    <3>2. NewEvents[m - Len(told)] = Known + (m - Len(told))
          /\ NewEvents[m - Len(told)] <= Advanced
      BY <1>3, <3>1, NewEventsFollow
    <3> QED BY <2>2, <2>3, <2>5, <3>2
  <2> QED BY <2>2, <2>3, <2>4, <2>5
<1>5. told' \in Seq(Nat)
  BY <1>1, <1>3, NewEventsFollow, ConcatProperties
<1>6. TypeOK'
  <2>1. lastId' \in 0..Len(events)
    BY <1>1, <1>3
  <2> QED BY <1>1, <1>2, <1>5, <2>1 DEF IInv, TypeOK, Places
<1>7. ToldOnceInOrder'
  <2>1. CASE firstRun
    BY <1>1, <2>1, ToldStays
  <2>2. CASE ~firstRun
    <3> SUFFICES ASSUME NEW m \in DOMAIN (told \o NewEvents), NEW n \in DOMAIN (told \o NewEvents),
                        m < n
                 PROVE  (told \o NewEvents)[m] < (told \o NewEvents)[n]
      BY <1>1, <2>2 DEF ToldOnceInOrder
    <3>1. Len(told) \in Nat /\ m \in Nat /\ n \in Nat
      BY <1>3, <1>4, LenProperties
    <3>2. CASE n <= Len(told)
      BY <1>4, <3>1, <3>2 DEF IInv, ToldOnceInOrder
    <3>3. CASE m <= Len(told) /\ n > Len(told)
      <4>1. m \in DOMAIN told /\ told[m] <= lastId /\ told[m] \in Nat
        BY <1>3, <1>4, <3>3, ElementOfSeq, LenProperties DEF IInv, Ordered
      <4>2. (told \o NewEvents)[n] = Known + (n - Len(told))
        BY <1>4, <3>3
      <4>3. (told \o NewEvents)[m] = told[m]
        BY <1>4, <3>3
      <4> QED BY <1>3, <3>1, <3>3, <4>1, <4>2, <4>3
    <3>4. CASE m > Len(told)
      <4>1. (told \o NewEvents)[m] = Known + (m - Len(told))
        BY <1>4, <3>4
      <4>2. (told \o NewEvents)[n] = Known + (n - Len(told))
        BY <1>4, <3>1, <3>4
      <4> QED BY <1>3, <3>1, <4>1, <4>2
    <3> QED BY <3>1, <3>2, <3>3, <3>4
  <2> QED BY <2>1, <2>2
<1>8. \A n \in DOMAIN told' : told'[n] <= lastId'
  <2>1. CASE firstRun
    <3>1. ASSUME NEW n \in DOMAIN told PROVE told[n] <= Advanced
      <4>1. told[n] \in Nat /\ told[n] <= lastId
        BY <1>3, ElementOfSeq, LenProperties DEF IInv, Ordered
      <4> QED BY <1>3, <4>1
    <3> QED BY <1>1, <2>1, <3>1
  <2>2. CASE ~firstRun
    BY <1>1, <1>4, <2>2
  <2> QED BY <2>1, <2>2
<1>9. Ordered'
  BY <1>1, <1>2, <1>8 DEF IInv, TypeOK, Ordered, Busy
<1>10. HistoryIsAChain'
  BY <1>1, HistoryStays
<1> QED BY <1>6, <1>7, <1>9, <1>10 DEF IInv

\* An event is added to the history of its component, whose status it changes.
LEMMA HistoryGrows ==
    ASSUME Params, TypeOK, HistoryIsAChain, ~mixed, NEW c \in Components,
           NEW found \in Statuses, Recorded(status[c], found),
           events' = Append(events, [of |-> c, from |-> status[c], to |-> found]),
           status' = [status EXCEPT ![c] = found]
    PROVE  HistoryIsAChain'
<1> DEFINE e == [of |-> c, from |-> status[c], to |-> found]
           L == Len(events)
<1>1. events \in Seq(Events) /\ L \in Nat /\ DOMAIN events = 1..L
  BY LenProperties DEF TypeOK, Events
<1>2. e \in Events
  BY DEF TypeOK, Events
<1>3. e.of = c /\ e.from = status[c] /\ e.to = found /\ found # status[c] /\ found # None
  BY DEF Recorded, Statuses, None
<1> HIDE DEF e
<1>4. events' = Append(events, e)
  BY DEF e
<1>5. /\ DOMAIN events' = 1..(L + 1) /\ events'[L + 1] = e
      /\ \A k \in 1..L : events'[k] = events[k]
  <2>1. Append(events, e) \in Seq(Events) /\ Len(Append(events, e)) = L + 1
        /\ \A k \in 1..L : Append(events, e)[k] = events[k]
        /\ Append(events, e)[L + 1] = e
    BY <1>1, <1>2, AppendProperties
  <2>2. DOMAIN Append(events, e) = 1..(L + 1)
    BY <2>1, LenProperties
  <2> QED BY <1>4, <2>1, <2>2
<1>6. \A d \in Components : status'[d] = IF d = c THEN found ELSE status[d]
  BY DEF TypeOK
<1>7. \A k \in 1..L : events[k].of \in Components
  <2>1. \A k \in 1..L : events[k] \in Events
    BY <1>1, ElementOfSeq
  <2> QED BY <2>1 DEF Events
<1> HIDE DEF L
<1>8. /\ L + 1 \in 1..(L + 1) /\ L + 1 > 0
      /\ \A k \in 1..(L + 1) : k = L + 1 \/ (k \in 1..L /\ L + 1 > k)
  BY <1>1
<1>9. \A k \in 1..L : k \in 1..(L + 1) /\ k < L + 1 /\ k > 0
  BY <1>1
<1>10. /\ \A n \in 1..L :
              /\ events[n].to # events[n].from
              /\ \A m \in 1..L : Follows(m, n) => events[m].to = events[n].from
              /\ NoneSince(n, events[n].of) => status[events[n].of] = events[n].to
       /\ \A d \in Components : status[d] = None <=> NoneSince(0, d)
  BY <1>1 DEF HistoryIsAChain, L
<1>11. ASSUME NEW n \in 1..(L + 1)
       PROVE  /\ events'[n].to # events'[n].from
              /\ \A m \in 1..(L + 1) : Follows(m, n)' => events'[m].to = events'[n].from
              /\ NoneSince(n, events[n].of)' => status'[events'[n].of] = events'[n].to
  <2>1. CASE n \in 1..L
    <3>1. events'[n] = events[n] /\ events[n].of \in Components
      BY <1>5, <1>7, <2>1
    <3>2. ASSUME NEW m \in 1..(L + 1), Follows(m, n)' PROVE events'[m].to = events'[n].from
      <4>1. m < n /\ events'[m].of = events'[n].of
            /\ \A k \in 1..(L + 1) : m < k /\ k < n => events'[k].of # events'[n].of
        BY <3>2, <1>5 DEF Follows
      <4>2. m \in 1..L
        BY <1>1, <2>1, <4>1
      <4>3. Follows(m, n)
        BY <1>1, <1>5, <1>9, <3>1, <4>1, <4>2 DEF Follows, L
      <4> QED BY <1>5, <1>10, <2>1, <3>1, <4>2, <4>3
    <3>3. ASSUME NoneSince(n, events[n].of)' PROVE status'[events'[n].of] = events'[n].to
      <4>1. \A k \in 1..(L + 1) : k > n => events'[k].of # events'[n].of
        BY <3>3, <1>5 DEF NoneSince
      <4>2. events[n].of # c
        BY <1>1, <1>3, <1>5, <1>8, <2>1, <3>1, <4>1
      <4>3. NoneSince(n, events[n].of)
        BY <1>1, <1>5, <1>9, <3>1, <4>1 DEF NoneSince, L
      <4> QED BY <1>6, <1>10, <2>1, <3>1, <4>2, <4>3
    <3> QED BY <1>10, <2>1, <3>1, <3>2, <3>3
  <2>2. CASE n = L + 1
    <3>1. events'[n] = e
      BY <1>5, <2>2
    <3>2. ASSUME NEW m \in 1..(L + 1), Follows(m, n)' PROVE events'[m].to = events'[n].from
      <4>1. m < n /\ events'[m].of = c
            /\ \A k \in 1..(L + 1) : m < k /\ k < n => events'[k].of # c
        BY <3>1, <3>2, <1>3, <1>5 DEF Follows
      <4>2. m \in 1..L /\ events'[m] = events[m] /\ events[m].of = c
        BY <1>1, <1>5, <2>2, <4>1
      <4>3. NoneSince(m, c)
        BY <1>1, <1>5, <1>9, <2>2, <4>1 DEF NoneSince, L
      <4>4. status[c] = events[m].to
        BY <1>10, <4>2, <4>3
      <4> QED BY <1>3, <3>1, <4>2, <4>4
    <3> QED BY <1>3, <1>6, <3>1, <3>2
  <2> QED BY <1>8, <2>1, <2>2
<1>12. ASSUME NEW d \in Components PROVE status'[d] = None <=> NoneSince(0, d)'
  <2>1. CASE d = c
    <3>1. ~NoneSince(0, d)'
      BY <1>1, <1>3, <1>5, <1>8, <2>1 DEF NoneSince
    <3> QED BY <1>3, <1>6, <2>1, <3>1
  <2>2. CASE d # c
    <3>1. NoneSince(0, d)' <=> NoneSince(0, d)
      BY <1>1, <1>3, <1>5, <1>8, <1>9, <2>2 DEF NoneSince, L
    <3> QED BY <1>6, <1>10, <2>2, <3>1
  <2> QED BY <2>1, <2>2
<1>13. DOMAIN events' = 1..(L + 1)
  BY <1>5
<1>14. \A d \in Components : status'[d] = None <=> NoneSince(0, d)'
  BY <1>12
<1> DEFINE Fine(n) ==
           /\ events'[n].to # events'[n].from
           /\ \A m \in DOMAIN events' : Follows(m, n)' => events'[m].to = events'[n].from
           /\ NoneSince(n, events[n].of)' => status'[events'[n].of] = events'[n].to
<1>15. \A n \in 1..(L + 1) : Fine(n)
  <2> SUFFICES ASSUME NEW n \in 1..(L + 1) PROVE Fine(n)
    OBVIOUS
  <2>1. \A m \in DOMAIN events' : Follows(m, n)' => events'[m].to = events'[n].from
    <3> SUFFICES ASSUME NEW m \in 1..(L + 1), Follows(m, n)'
                 PROVE  events'[m].to = events'[n].from
      BY <1>13
    <3> QED BY <1>11
  <2> QED BY <1>11, <2>1
<1>16. \A n \in DOMAIN events' : Fine(n)
  BY <1>13, <1>15
<1> QED BY <1>14, <1>16 DEF HistoryIsAChain

LEMMA WriteKeepsIInv == ASSUME Params, IInv, NEW r \in Rounds, Write(r) PROVE IInv'
<1> DEFINE c == Order[round[r].next]
           found == round[r].found
           old == round[r].old
           place == IF round[r].next = Len(Order) THEN Ended(r)
                    ELSE [Resting EXCEPT !.pc = "check", !.next = round[r].next + 1]
<1>1. round[r] \in Places /\ round[r].pc = "write" /\ round \in [Rounds -> Places]
  BY DEF IInv, TypeOK, Places, Write
<1>2. c \in Components /\ found \in Statuses /\ old \in Answers /\ status[c] \in Answers
  BY <1>1, OrderFacts DEF IInv, TypeOK, Ordered, Places
<1>3. place \in Places /\ place.pc # "write"
  BY <1>1, OrderFacts, PlacesWritten DEF Places
<1>4. /\ status' = [status EXCEPT ![c] = found] /\ round' = [round EXCEPT ![r] = place]
      /\ \/ /\ Recorded(old, found)
            /\ events' = Append(events, [of |-> c, from |-> old, to |-> found])
         \/ ~Recorded(old, found) /\ events' = events
      /\ UNCHANGED <<lastId, firstRun, told, mixed>>
  BY <1>1 DEF Write
<1>5. ~mixed => old = status[c] /\ \A q \in Rounds : q # r => round[q].pc = "idle"
  BY <1>1 DEF IInv, Ordered, Busy
<1> HIDE DEF c, found, old, place
<1>6. events' \in Seq(Events) /\ Len(events) \in Nat /\ Len(events') \in Nat
      /\ Len(events') >= Len(events)
  <2>1. events \in Seq(Events)
    BY DEF IInv, TypeOK, Events
  <2>2. [of |-> c, from |-> old, to |-> found] \in Events
    BY <1>2 DEF Events
  <2> QED BY <1>4, <2>1, <2>2, AppendProperties, LenProperties
<1>7. TypeOK'
  <2>1. lastId' \in 0..Len(events')
    BY <1>4, <1>6 DEF IInv, TypeOK
  <2>2. found \in Answers
    BY <1>2 DEF Answers
  <2> QED BY <1>3, <1>4, <1>6, <2>1, <2>2 DEF IInv, TypeOK, Places, Events
<1>8. HistoryIsAChain'
  <2>1. CASE mixed
    BY <1>4, <2>1 DEF HistoryIsAChain
  <2>2. CASE ~mixed /\ Recorded(old, found)
    BY <1>2, <1>4, <1>5, <2>2, HistoryGrows DEF IInv
  <2>3. CASE ~mixed /\ ~Recorded(old, found)
    <3>1. found = status[c]
      BY <1>5, <2>3 DEF Recorded
    <3>2. status' = status
      BY <1>2, <1>4, <3>1 DEF IInv, TypeOK
    <3> QED BY <1>4, <2>3, <3>2, HistoryStays
  <2> QED BY <2>1, <2>2, <2>3
<1>9. ToldOnceInOrder'
  BY <1>4, ToldStays
<1>10. Ordered'
  BY <1>1, <1>3, <1>4, <1>5 DEF IInv, Ordered, Busy
<1> QED BY <1>7, <1>8, <1>9, <1>10 DEF IInv

LEMMA EndKeepsIInv ==
    ASSUME Params, IInv, \E r \in Rounds : Fails(r) \/ Restart
    PROVE  IInv'
<1>1. Resting \in Places /\ Resting.pc = "idle"
  BY PlacesWritten
<1>2. Len(events) \in Nat
  BY LenProperties DEF IInv, TypeOK
<1>3. ASSUME NEW r \in Rounds, Fails(r) PROVE IInv'
  <2>1. round' = [round EXCEPT ![r] = Resting]
        /\ UNCHANGED <<status, events, lastId, firstRun, told, mixed>>
    BY <1>3 DEF Fails
  <2>2. TypeOK'
    BY <1>1, <2>1 DEF IInv, TypeOK, Places
  <2>3. Ordered'
    BY <1>1, <2>1 DEF IInv, TypeOK, Ordered, Busy
  <2> QED BY <2>1, <2>2, <2>3, HistoryStays, ToldStays DEF IInv
<1>4. CASE Restart
  <2>1. round' = [r \in Rounds |-> Resting] /\ lastId' = Len(events) /\ firstRun' = TRUE
        /\ UNCHANGED <<status, events, told, mixed>>
    BY <1>4 DEF Restart
  <2>2. TypeOK'
    <3>1. lastId' \in 0..Len(events)
      BY <1>2, <2>1
    <3> QED BY <1>1, <2>1, <3>1 DEF IInv, TypeOK, Places
  <2>3. ASSUME NEW n \in DOMAIN told PROVE told[n] <= lastId'
    <3>1. told[n] \in Nat /\ told[n] <= lastId
      BY ElementOfSeq, LenProperties DEF IInv, TypeOK, Ordered
    <3> QED BY <1>2, <2>1, <3>1 DEF IInv, TypeOK
  <2>4. Ordered'
    BY <1>1, <2>1, <2>3 DEF IInv, TypeOK, Ordered, Busy
  <2> QED BY <2>1, <2>2, <2>4, HistoryStays, ToldStays DEF IInv
<1> QED BY <1>3, <1>4

LEMMA StepKeepsIInv == Params /\ IInv /\ [Next]_healthVars => IInv'
<1> SUFFICES ASSUME Params, IInv, [Next]_healthVars PROVE IInv'
  OBVIOUS
<1>1. ASSUME UNCHANGED <<status, events, round, lastId, firstRun, told, mixed>> PROVE IInv'
  <2>1. TypeOK' /\ Ordered'
    BY <1>1 DEF IInv, TypeOK, Ordered, Busy
  <2> QED BY <1>1, <2>1, HistoryStays, ToldStays DEF IInv
<1>2. ASSUME NEW r \in Rounds, Begin(r) \/ Look(r) \/ Write(r) \/ Fails(r) PROVE IInv'
  BY <1>2, BeginKeepsIInv, LookKeepsIInv, WriteKeepsIInv, EndKeepsIInv
<1>3. CASE Report
  BY <1>3, ReportKeepsIInv
<1>4. CASE Restart
  <2>1. Loop \in Rounds
    BY DEF Rounds
  <2> QED BY <1>4, <2>1, EndKeepsIInv
<1> QED BY <1>1, <1>2, <1>3, <1>4 DEF Next, healthVars, CameraChanges, DiskChanges,
    BrokerChanges, Change

\* Whatever a round looks at, no event is told twice or before an older one, and
\* a component's history is a chain unless rounds overlapped (_health_loop,
\* upsert_health_status).
THEOREM HealthIsTold ==
    ASSUME Params
    PROVE  Spec => [](ToldOnceInOrder /\ HistoryIsAChain)
<1>1. Init => IInv
  BY InitIInv
<1>2. IInv /\ [Next]_healthVars => IInv'
  BY StepKeepsIInv
<1>3. IInv => ToldOnceInOrder /\ HistoryIsAChain
  BY DEF IInv
<1> QED BY <1>1, <1>2, <1>3, PTL DEF Spec
=============================================================================
