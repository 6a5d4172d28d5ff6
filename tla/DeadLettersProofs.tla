-------------------------- MODULE DeadLettersProofs --------------------------
(***************************************************************************)
(* The theorems of DeadLetters, for any polls, message ids, instances,     *)
(* admins, attempts and failures.                                          *)
(***************************************************************************)
EXTENDS DeadLetters, FiniteSetTheorems, TLAPS

UsedIds == {m \in Ids : messages[m] # Unused}

Message == [state: {"waiting", "forwarded", "acked"}, poll: Polls, attempts: 0..MaxAttempts]
Call == [stage: {"pushed", "recorded", "answered"}, message: Ids]

\* The inductive invariant, in four parts.  Messages have been given their ids
\* one after the other.
MessagesOK ==
  /\ messages \in [Ids -> Message \cup {Unused}]
  /\ \E k \in 0..MaxIds : UsedIds = 1..k
  /\ faults \in 0..MaxFaults

\* Records are of messages, by id, and nobody works on one that is not there.
RecordsOK ==
  /\ DOMAIN records \subseteq UsedIds
  /\ \A m \in DOMAIN records :
       records[m] \in [poll: {messages[m].poll}, by: Admins \cup {Nobody}]
  /\ \A m \in Ids : messages[m].state = "acked" => m \in DOMAIN records
  /\ visits \in [Admins -> [record: DOMAIN records, read: Admins \cup {Nobody}] \cup {NoVisit}]

CallsOK ==
  /\ calls \in [Instances -> Call \cup {Idle}]
  /\ \A i \in Instances : calls[i] # Idle =>
       /\ calls[i].message \in UsedIds
       /\ calls[i].stage # "pushed" => calls[i].message \in DOMAIN records

\* Of a message, at most one call has made the record and not told of it yet.
New(i, m) == calls[i] # Idle /\ calls[i].stage = "recorded" /\ calls[i].message = m
ToldOK ==
  /\ told \in [Ids -> {0, 1}]
  /\ \A m \in Ids : told[m] = 1 => m \in DOMAIN records
  /\ \A m \in Ids, i \in Instances : New(i, m) => told[m] = 0
  /\ \A m \in Ids, i \in Instances, j \in Instances : New(i, m) /\ New(j, m) => i = j
  /\ \A m \in DOMAIN records :
       \/ told[m] = 1 \/ m \in missed
       \/ records[m].poll \in Undecodable
       \/ \E i \in Instances : New(i, m)

IInv == MessagesOK /\ RecordsOK /\ CallsOK /\ ToldOK

-----------------------------------------------------------------------------
\* A message is told from an unused id by its state.
LEMMA MessageIs ==
  /\ \A x \in Message : x # Unused /\ x.state # "unused" /\ x.poll \in Polls
                        /\ x.attempts \in 0..MaxAttempts
  /\ \A p \in Polls : Waiting(p) \in Message
  /\ Unused.state = "unused"
BY DeadLettersAssumption DEF Message, Unused, Waiting

\* The next id is the first that is not used.
LEMMA NextIdIs ==
  ASSUME MessagesOK, NEW n \in Ids, NextId(n)
  PROVE  n \notin UsedIds /\ \E k \in 0..MaxIds : UsedIds \cup {n} = 1..k
<1>1. PICK k \in 0..MaxIds : UsedIds = 1..k
  BY DEF MessagesOK
<1>2. k \in Nat /\ MaxIds \in Nat
  BY DeadLettersAssumption
<1>3. Cardinality(1..k) = k
  BY <1>2, FS_Interval
<1>4. n = k + 1
  <2>1. n = 1 + Cardinality(UsedIds)
    BY DEF NextId, UsedIds
  <2> QED
    BY <1>1, <1>2, <1>3, <2>1
<1>5. 1..k \cup {k + 1} = 1..(k + 1)
  BY <1>2
<1> QED
  BY <1>1, <1>2, <1>4, <1>5 DEF Ids

LEMMA InitInv == Init => IInv
<1> SUFFICES ASSUME Init PROVE IInv
  OBVIOUS
<1>1. MessagesOK
  <2>1. UsedIds = {} /\ 1..0 = {} /\ 0 \in 0..MaxIds
    BY DeadLettersAssumption DEF Init, UsedIds
  <2> QED
    BY <2>1, DeadLettersAssumption DEF Init, MessagesOK
<1>2. RecordsOK
  BY DEF Init, RecordsOK, Unused
<1>3. CallsOK
  BY DEF Init, CallsOK
<1>4. ToldOK
  BY DEF Init, ToldOK, New
<1> QED
  BY <1>1, <1>2, <1>3, <1>4 DEF IInv

\* The four actions that touch messages leave them and their ids in order.
LEMMA MessagesStep ==
  ASSUME IInv, [Next]_vars
  PROVE  /\ MessagesOK'
         /\ \A m \in UsedIds : m \in UsedIds' /\ messages'[m].poll = messages[m].poll
<1>1. /\ messages \in [Ids -> Message \cup {Unused}]
      /\ \A m \in UsedIds : m \in Ids /\ messages[m] \in Message
      /\ \E k \in 0..MaxIds : UsedIds = 1..k
      /\ MaxAttempts \in Nat
  BY DeadLettersAssumption DEF IInv, MessagesOK, UsedIds
<1>2. faults' \in 0..MaxFaults
  <2>1. faults \in 0..MaxFaults /\ MaxFaults \in Nat
    BY DeadLettersAssumption DEF IInv, MessagesOK
  <2>2. CASE Fault
    BY <2>1, <2>2 DEF Fault
  <2>3. CASE UNCHANGED faults
    BY <2>1, <2>3
  <2> QED
    BY <2>2, <2>3 DEF Next, vars, GiveUp, Push, Forward, Record, Tell, TellFails,
       Ack, Fail, Open, Save, SaveFails
<1>3. CASE UNCHANGED messages
  BY <1>1, <1>2, <1>3 DEF MessagesOK, UsedIds
<1>4. ASSUME NEW p \in Polls, NEW m \in Ids, GiveUp(p, m)
      PROVE  /\ MessagesOK'
             /\ \A n \in UsedIds : n \in UsedIds' /\ messages'[n].poll = messages[n].poll
  <2>1. messages' = [messages EXCEPT ![m] = Waiting(p)] /\ Waiting(p) \in Message
        /\ Waiting(p) # Unused
    BY <1>4, MessageIs DEF GiveUp
  <2>2. m \notin UsedIds /\ \E k \in 0..MaxIds : UsedIds \cup {m} = 1..k
    BY <1>4, NextIdIs DEF GiveUp, IInv
  <2>3. UsedIds' = UsedIds \cup {m}
    BY <1>1, <2>1 DEF UsedIds
  <2> QED
    BY <1>1, <1>2, <2>1, <2>2, <2>3 DEF MessagesOK
<1>5. ASSUME NEW m \in UsedIds, NEW x \in Message,
             messages' = [messages EXCEPT ![m] = x], x.poll = messages[m].poll
      PROVE  /\ MessagesOK'
             /\ \A n \in UsedIds : n \in UsedIds' /\ messages'[n].poll = messages[n].poll
  <2>1. UsedIds' = UsedIds
    BY <1>1, <1>5, MessageIs DEF UsedIds
  <2> QED
    BY <1>1, <1>2, <1>5, <2>1 DEF MessagesOK
<1>6. ASSUME NEW i \in Instances, NEW m \in Ids, Push(i, m)
      PROVE  /\ MessagesOK'
             /\ \A n \in UsedIds : n \in UsedIds' /\ messages'[n].poll = messages[n].poll
  <2> DEFINE x == [messages[m] EXCEPT !.attempts = @ + 1]
  <2>1. m \in UsedIds /\ messages[m] \in Message /\ messages[m].attempts < MaxAttempts
    BY <1>1, <1>6, MessageIs DEF Push, UsedIds
  <2>2. messages[m].attempts + 1 \in 0..MaxAttempts
    BY <1>1, <2>1, MessageIs
  <2>3. x \in Message /\ x.poll = messages[m].poll
    BY <2>1, <2>2 DEF Message
  <2>4. messages' = [messages EXCEPT ![m] = x]
    BY <1>6 DEF Push
  <2> QED
    BY <1>5, <2>1, <2>3, <2>4
<1>7. ASSUME NEW i \in Instances, Ack(i)
      PROVE  /\ MessagesOK'
             /\ \A n \in UsedIds : n \in UsedIds' /\ messages'[n].poll = messages[n].poll
  <2> DEFINE m == calls[i].message
             s == IF messages[m].state = "waiting" THEN "acked" ELSE messages[m].state
             x == [messages[m] EXCEPT !.state = s]
  <2>1. m \in UsedIds /\ messages[m] \in Message
    BY <1>1, <1>7 DEF Ack, IInv, CallsOK, Idle
  <2>2. x \in Message /\ x.poll = messages[m].poll
    BY <2>1 DEF Message
  <2>3. messages' = [messages EXCEPT ![m] = x]
    BY <1>7 DEF Ack
  <2> QED
    BY <1>5, <2>1, <2>2, <2>3
<1>8. ASSUME NEW m \in Ids, NEW n \in Ids, Forward(m, n)
      PROVE  /\ MessagesOK'
             /\ \A l \in UsedIds : l \in UsedIds' /\ messages'[l].poll = messages[l].poll
  <2> DEFINE x == [messages[m] EXCEPT !.state = "forwarded"]
             y == Waiting(messages[m].poll)
  <2>1. m \in UsedIds /\ messages[m] \in Message
    BY <1>1, <1>8, MessageIs DEF Forward, UsedIds
  <2>2. n \notin UsedIds /\ \E k \in 0..MaxIds : UsedIds \cup {n} = 1..k
    BY <1>8, NextIdIs DEF Forward, IInv
  <2>3. x \in Message /\ x.poll = messages[m].poll /\ x # Unused
    BY <2>1, MessageIs DEF Message, Unused
  <2>4. y \in Message /\ y # Unused
    BY <2>1, MessageIs
  <2>5. messages' = [messages EXCEPT ![m] = x, ![n] = y]
    BY <1>8 DEF Forward
  <2> HIDE DEF x, y
  <2>6. /\ messages' \in [Ids -> Message \cup {Unused}]
        /\ messages'[m] = x /\ messages'[n] = y
        /\ \A l \in Ids \ {m, n} : messages'[l] = messages[l]
    BY <1>1, <2>1, <2>2, <2>3, <2>4, <2>5
  <2>7. UsedIds' = UsedIds \cup {n}
    BY <2>1, <2>3, <2>4, <2>6 DEF UsedIds
  <2> QED
    BY <1>1, <1>2, <2>2, <2>3, <2>6, <2>7 DEF MessagesOK
<1> QED
  BY <1>3, <1>4, <1>6, <1>7, <1>8 DEF Next, vars, Record, Tell, TellFails,
     Fail, Open, Save, SaveFails

-----------------------------------------------------------------------------
\* What a step does to the records: one is added that was not there, by a call
\* that is then telling of it, one is resolved that had nobody, or nothing.
Added(m) ==
  /\ m \in UsedIds \ DOMAIN records
  /\ records' = Recorded(m)
  /\ UNCHANGED <<messages, visits, told, missed>>
  /\ \E i \in Instances : /\ calls[i] # Idle /\ calls[i].message = m
                          /\ calls' = [calls EXCEPT ![i].stage = "recorded"]
ResolvedBy(a) ==
  /\ visits[a] # NoVisit /\ visits[a].read = Nobody
  /\ records' = [records EXCEPT ![visits[a].record].by = a]
  /\ visits' = [visits EXCEPT ![a] = NoVisit]
  /\ UNCHANGED <<messages, calls, told, missed>>

LEMMA RecordsChange ==
  ASSUME IInv, [Next]_vars
  PROVE  \/ UNCHANGED records
         \/ \E m \in Ids : Added(m)
         \/ \E a \in Admins : ResolvedBy(a)
<1>1. ASSUME NEW i \in Instances, Record(i)
      PROVE  UNCHANGED records \/ \E m \in Ids : Added(m)
  <2>1. calls[i] # Idle /\ calls[i].message \in UsedIds
    BY <1>1 DEF Record, Idle, IInv, CallsOK
  <2>2. CASE calls[i].message \notin DOMAIN records
    <3>1. Added(calls[i].message)
      BY <1>1, <2>1, <2>2 DEF Record, Added
    <3> QED
      BY <2>1, <3>1 DEF UsedIds
  <2>3. CASE calls[i].message \in DOMAIN records
    BY <1>1, <2>3 DEF Record
  <2> QED
    BY <2>2, <2>3
<1>2. ASSUME NEW a \in Admins, Save(a)
      PROVE  UNCHANGED records \/ ResolvedBy(a)
  BY <1>2 DEF Save, ResolvedBy
<1> QED
  BY <1>1, <1>2 DEF Next, vars, GiveUp, Push, Forward, Tell, TellFails, Ack,
     Fail, Open, SaveFails

\* Records stay, and what is resolved stays resolved.
LEMMA RecordsLast ==
  ASSUME IInv, [Next]_vars, NEW m \in DOMAIN records
  PROVE  /\ m \in DOMAIN records'
         /\ records'[m].poll = records[m].poll
         /\ records[m].by # Nobody => records'[m].by # Nobody
<1>1. ASSUME NEW n \in Ids, Added(n)
      PROVE  m \in DOMAIN records' /\ records'[m] = records[m]
  BY <1>1 DEF Added, Recorded
<1>2. ASSUME NEW a \in Admins, ResolvedBy(a)
      PROVE  /\ m \in DOMAIN records'
             /\ records'[m].poll = records[m].poll
             /\ records[m].by # Nobody => records'[m].by # Nobody
  <2>1. records[m] \in [poll: {messages[m].poll}, by: Admins \cup {Nobody}]
    BY DEF IInv, RecordsOK
  <2> QED
    BY <1>2, <2>1, DeadLettersAssumption DEF ResolvedBy
<1> QED
  BY <1>1, <1>2, RecordsChange

LEMMA RecordsStep ==
  ASSUME IInv, [Next]_vars
  PROVE  RecordsOK'
<1>1. /\ DOMAIN records \subseteq UsedIds
      /\ \A m \in DOMAIN records :
           records[m] \in [poll: {messages[m].poll}, by: Admins \cup {Nobody}]
      /\ visits \in [Admins -> [record: DOMAIN records, read: Admins \cup {Nobody}] \cup {NoVisit}]
  BY DEF IInv, RecordsOK
<1>2. \A m \in UsedIds : m \in UsedIds' /\ messages'[m].poll = messages[m].poll
  BY MessagesStep
<1>3. /\ DOMAIN records' \subseteq UsedIds'
      /\ DOMAIN records \subseteq DOMAIN records'
      /\ \A m \in DOMAIN records' :
           records'[m] \in [poll: {messages'[m].poll}, by: Admins \cup {Nobody}]
  <2>1. CASE UNCHANGED records
    BY <1>1, <1>2, <2>1
  <2>2. ASSUME NEW n \in Ids, Added(n)
        PROVE  <1>3!1 /\ <1>3!2 /\ <1>3!3
    BY <1>1, <1>2, <2>2 DEF Added, Recorded
  <2>3. ASSUME NEW a \in Admins, ResolvedBy(a)
        PROVE  <1>3!1 /\ <1>3!2 /\ <1>3!3
    BY <1>1, <1>2, <2>3 DEF ResolvedBy
  <2> QED
    BY <2>1, <2>2, <2>3, RecordsChange
<1>4. visits' \in [Admins -> [record: DOMAIN records', read: Admins \cup {Nobody}] \cup {NoVisit}]
  <2>1. visits \in [Admins -> [record: DOMAIN records', read: Admins \cup {Nobody}] \cup {NoVisit}]
    BY <1>1, <1>3
  <2>2. ASSUME NEW a \in Admins, NEW m \in Ids, Open(a, m)
        PROVE  <1>4
    <3>1. [record |-> m, read |-> records[m].by]
            \in [record: DOMAIN records', read: Admins \cup {Nobody}]
      BY <1>1, <1>3, <2>2 DEF Open
    <3> QED
      BY <2>1, <2>2, <3>1 DEF Open
  <2>3. ASSUME NEW a \in Admins, Save(a) \/ SaveFails(a)
        PROVE  <1>4
    BY <2>1, <2>3 DEF Save, SaveFails
  <2> QED
    BY <2>1, <2>2, <2>3 DEF Next, vars, GiveUp, Push, Forward, Record, Tell,
       TellFails, Ack, Fail
<1>5. \A m \in Ids : messages'[m].state = "acked" => m \in DOMAIN records'
  <2> SUFFICES ASSUME NEW m \in Ids, messages'[m].state = "acked"
               PROVE  m \in DOMAIN records
    BY <1>3
  <2>1. /\ messages \in [Ids -> Message \cup {Unused}]
        /\ messages[m].state = "acked" => m \in DOMAIN records
    BY DEF IInv, MessagesOK, RecordsOK
  <2>2. CASE UNCHANGED messages
    BY <2>1, <2>2
  <2>3. ASSUME NEW p \in Polls, NEW n \in Ids, GiveUp(p, n)
        PROVE  m \in DOMAIN records
    BY <2>1, <2>3 DEF GiveUp, Waiting
  <2>4. ASSUME NEW i \in Instances, NEW n \in Ids, Push(i, n)
        PROVE  m \in DOMAIN records
    BY <2>1, <2>4 DEF Push
  <2>5. ASSUME NEW n \in Ids, NEW l \in Ids, Forward(n, l)
        PROVE  m \in DOMAIN records
    <3> DEFINE x == [messages[n] EXCEPT !.state = "forwarded"]
               y == Waiting(messages[n].poll)
    <3>1. messages[n] \in Message
      BY <2>1, <2>5, MessageIs DEF Forward
    <3>2. x.state = "forwarded" /\ y.state = "waiting"
      BY <3>1 DEF Message, Waiting
    <3>3. messages' = [messages EXCEPT ![n] = x, ![l] = y]
      BY <2>5 DEF Forward
    <3> HIDE DEF x, y
    <3> QED
      BY <2>1, <3>2, <3>3
  <2>6. ASSUME NEW i \in Instances, Ack(i)
        PROVE  m \in DOMAIN records
    <3>1. calls[i].message \in DOMAIN records
      BY <2>6 DEF Ack, Idle, IInv, CallsOK
    <3> QED
      BY <2>1, <2>6, <3>1 DEF Ack
  <2> QED
    BY <2>2, <2>3, <2>4, <2>5, <2>6 DEF Next, vars, Record, Tell, TellFails,
       Fail, Open, Save, SaveFails
<1> QED
  BY <1>3, <1>4, <1>5 DEF RecordsOK

-----------------------------------------------------------------------------
\* A call that is anywhere stays there or in order.
LEMMA CallsStep ==
  ASSUME IInv, [Next]_vars
  PROVE  CallsOK'
<1>1. /\ calls \in [Instances -> Call \cup {Idle}]
      /\ \A i \in Instances : calls[i] # Idle =>
           /\ calls[i] \in Call
           /\ calls[i].message \in UsedIds
           /\ calls[i].stage # "pushed" => calls[i].message \in DOMAIN records
  BY DEF IInv, CallsOK
<1>2. /\ \A m \in UsedIds : m \in UsedIds'
      /\ \A m \in DOMAIN records : m \in DOMAIN records'
  BY MessagesStep, RecordsLast
<1>3. CASE UNCHANGED calls
  BY <1>1, <1>2, <1>3 DEF CallsOK
<1>4. ASSUME NEW i \in Instances, NEW c \in Call \cup {Idle},
             calls' = [calls EXCEPT ![i] = c],
             c # Idle => /\ c.message \in UsedIds'
                         /\ c.stage # "pushed" => c.message \in DOMAIN records'
      PROVE  CallsOK'
  BY <1>1, <1>2, <1>4 DEF CallsOK
<1>5. ASSUME NEW i \in Instances, calls' = [calls EXCEPT ![i] = Idle]
      PROVE  CallsOK'
  BY <1>4, <1>5
<1>6. ASSUME NEW i \in Instances, NEW m \in Ids, Push(i, m)
      PROVE  CallsOK'
  <2>1. m \in UsedIds
    BY <1>6, MessageIs DEF Push, UsedIds
  <2>2. [stage |-> "pushed", message |-> m] \in Call
    BY DEF Call
  <2> QED
    BY <1>2, <1>4, <1>6, <2>1, <2>2 DEF Push
<1>7. ASSUME NEW i \in Instances, calls[i] # Idle, NEW s \in {"recorded", "answered"},
             calls' = [calls EXCEPT ![i].stage = s],
             calls[i].message \in DOMAIN records'
      PROVE  CallsOK'
  <2> DEFINE c == [calls[i] EXCEPT !.stage = s]
  <2>1. c \in Call /\ c.message = calls[i].message
    BY <1>1, <1>7 DEF Call
  <2>2. calls' = [calls EXCEPT ![i] = c]
    BY <1>7
  <2> QED
    BY <1>1, <1>2, <1>4, <1>7, <2>1, <2>2
<1>8. ASSUME NEW i \in Instances, Record(i)
      PROVE  CallsOK'
  <2>1. calls[i].message \in DOMAIN records'
    BY <1>8 DEF Record, Recorded
  <2> QED
    BY <1>7, <1>8, <2>1 DEF Record, Idle
<1>9. ASSUME NEW i \in Instances, Tell(i) \/ TellFails(i)
      PROVE  CallsOK'
  <2>1. calls[i] # Idle /\ calls[i].message \in DOMAIN records'
    BY <1>1, <1>2, <1>9 DEF Tell, TellFails, Idle
  <2> QED
    BY <1>5, <1>7, <1>9, <2>1 DEF Tell, TellFails
<1> QED
  BY <1>3, <1>5, <1>6, <1>8, <1>9 DEF Next, vars, GiveUp, Forward, Ack, Fail,
     Open, Save, SaveFails

\* The record of a message is made by one call, which then tells of it; the
\* others find it and only answer.
LEMMA ToldStep ==
  ASSUME IInv, [Next]_vars
  PROVE  ToldOK'
<1>1. /\ calls \in [Instances -> Call \cup {Idle}]
      /\ \A m \in Ids, i \in Instances : New(i, m) => m \in DOMAIN records
      /\ DOMAIN records \subseteq Ids
      /\ \A m \in DOMAIN records : records[m].poll = messages[m].poll
  BY DEF IInv, CallsOK, RecordsOK, UsedIds, New
<1>2. ToldOK
  BY DEF IInv
<1>3. \A m \in DOMAIN records :
        m \in DOMAIN records' /\ records'[m].poll = records[m].poll
  BY RecordsLast
<1>4. ASSUME DOMAIN records' = DOMAIN records, told' = told, missed' = missed,
             \A i \in Instances, m \in Ids : New(i, m)' <=> New(i, m)
      PROVE  ToldOK'
  BY <1>1, <1>2, <1>3, <1>4 DEF ToldOK
<1>5. ASSUME NEW i \in Instances, ~\E m \in Ids : New(i, m),
             DOMAIN records' = DOMAIN records, told' = told, missed' = missed,
             NEW c \in Call \cup {Idle}, calls' = [calls EXCEPT ![i] = c],
             c = Idle \/ c.stage # "recorded"
      PROVE  ToldOK'
  BY <1>1, <1>4, <1>5 DEF New
<1>6. ASSUME NEW i \in Instances, NEW n \in Ids, New(i, n),
             DOMAIN records' = DOMAIN records,
             told' \in [Ids -> {0, 1}], \A m \in Ids \ {n} : told'[m] = told[m],
             missed \subseteq missed',
             told'[n] = 1 \/ n \in missed' \/ messages[n].poll \in Undecodable,
             NEW c \in Call \cup {Idle}, calls' = [calls EXCEPT ![i] = c],
             c = Idle \/ c.stage # "recorded"
      PROVE  ToldOK'
  <2>1. \A j \in Instances, m \in Ids : New(j, m)' <=> New(j, m) /\ j # i
    BY <1>1, <1>6 DEF New
  <2>2. \A m \in Ids, j \in Instances : New(j, m)' => m # n /\ New(j, m)
    BY <1>2, <1>6, <2>1 DEF ToldOK
  <2>3. \A m \in DOMAIN records \ {n} :
          \/ told[m] = 1 \/ m \in missed
          \/ records[m].poll \in Undecodable
          \/ \E j \in Instances : New(j, m)'
    BY <1>1, <1>2, <1>6, <2>1 DEF ToldOK, New
  <2>4. \A m \in DOMAIN records' :
          \/ told'[m] = 1 \/ m \in missed'
          \/ records'[m].poll \in Undecodable
          \/ \E j \in Instances : New(j, m)'
    BY <1>1, <1>3, <1>6, <2>3
  <2>5. \A m \in Ids : told'[m] = 1 => m \in DOMAIN records'
    BY <1>1, <1>2, <1>6 DEF ToldOK
  <2>6. \A m \in Ids, j \in Instances : New(j, m)' => told'[m] = 0
    BY <1>2, <1>6, <2>2 DEF ToldOK
  <2>7. \A m \in Ids, j \in Instances, k \in Instances : New(j, m)' /\ New(k, m)' => j = k
    BY <1>2, <2>2 DEF ToldOK
  <2> QED
    BY <1>6, <2>4, <2>5, <2>6, <2>7 DEF ToldOK
<1>7. ASSUME NEW n \in Ids, Added(n)
      PROVE  ToldOK'
  <2>1. PICK i \in Instances : /\ calls[i] # Idle /\ calls[i].message = n
                               /\ calls' = [calls EXCEPT ![i].stage = "recorded"]
    BY <1>7 DEF Added
  <2>2. calls[i] \in Call
    BY <1>1, <2>1
  <2>3. /\ calls'[i] # Idle /\ calls'[i].stage = "recorded" /\ calls'[i].message = n
        /\ \A j \in Instances \ {i} : calls'[j] = calls[j]
    BY <1>1, <2>1, <2>2 DEF Call, Idle
  <2>4. n \notin DOMAIN records /\ told[n] = 0 /\ ~\E j \in Instances : New(j, n)
    BY <1>1, <1>2, <1>7 DEF Added, ToldOK
  <2>5. \A j \in Instances, m \in Ids :
          New(j, m)' <=> (j = i /\ m = n) \/ (j # i /\ New(j, m))
    BY <2>3 DEF New
  <2>6. /\ DOMAIN records' = DOMAIN records \cup {n}
        /\ \A m \in DOMAIN records : records'[m] = records[m]
        /\ told' = told /\ missed' = missed
    BY <1>7 DEF Added, Recorded
  <2>7. \A m \in DOMAIN records' :
          \/ told'[m] = 1 \/ m \in missed'
          \/ records'[m].poll \in Undecodable
          \/ \E j \in Instances : New(j, m)'
    <3>1. CASE ~\E m \in Ids : New(i, m)
      BY <1>1, <1>2, <2>5, <2>6, <3>1 DEF ToldOK
    <3>2. CASE \E m \in Ids : New(i, m)
      BY <2>1, <2>4, <3>2 DEF New
    <3> QED
      BY <3>1, <3>2
  <2>8. told' \in [Ids -> {0, 1}] /\ \A m \in Ids : told'[m] = 1 => m \in DOMAIN records'
    BY <1>2, <2>6 DEF ToldOK
  <2>9. \A m \in Ids, j \in Instances : New(j, m)' => told'[m] = 0
    BY <1>2, <2>4, <2>5, <2>6 DEF ToldOK
  <2>10. \A m \in Ids, j \in Instances, k \in Instances : New(j, m)' /\ New(k, m)' => j = k
    BY <1>2, <2>4, <2>5 DEF ToldOK
  <2> QED
    BY <2>7, <2>8, <2>9, <2>10 DEF ToldOK
<1>8. CASE UNCHANGED <<calls, told, missed>> /\ DOMAIN records' = DOMAIN records
  BY <1>4, <1>8 DEF New
<1>9. ASSUME NEW i \in Instances, NEW m \in Ids, Push(i, m)
      PROVE  ToldOK'
  <2>1. [stage |-> "pushed", message |-> m] \in Call
    BY DEF Call
  <2> QED
    BY <1>5, <1>9, <2>1 DEF Push, New
<1>10. ASSUME NEW i \in Instances, Record(i)
       PROVE  ToldOK'
  <2>1. calls[i] # Idle /\ calls[i] \in Call /\ ~\E m \in Ids : New(i, m)
    BY <1>1, <1>10 DEF Record, Idle, New
  <2>2. CASE UNCHANGED records /\ calls' = [calls EXCEPT ![i].stage = "answered"]
    <3> DEFINE c == [calls[i] EXCEPT !.stage = "answered"]
    <3>1. c \in Call /\ c.stage = "answered"
      BY <2>1 DEF Call
    <3>2. calls' = [calls EXCEPT ![i] = c]
      BY <2>2
    <3> HIDE DEF c
    <3> QED
      BY <1>5, <1>10, <2>1, <2>2, <3>1, <3>2 DEF Record
  <2>3. CASE calls[i].message \notin DOMAIN records
    <3>1. calls[i].message \in UsedIds /\ calls[i].message \in Ids
      BY <2>1 DEF IInv, CallsOK, UsedIds
    <3>2. Added(calls[i].message)
      BY <1>10, <2>1, <2>3, <3>1 DEF Record, Added
    <3> QED
      BY <1>7, <3>1, <3>2
  <2> QED
    BY <1>10, <2>2, <2>3 DEF Record
<1>11. ASSUME NEW i \in Instances, Tell(i) \/ TellFails(i) \/ (Fail(i) /\ calls[i].stage = "recorded")
       PROVE  ToldOK'
  <2> DEFINE n == calls[i].message
  <2>1. calls[i] \in Call /\ New(i, n) /\ n \in Ids
    BY <1>1, <1>11 DEF Tell, TellFails, Fail, Idle, New, Call
  <2>2. PICK c \in Call \cup {Idle} :
          calls' = [calls EXCEPT ![i] = c] /\ (c = Idle \/ c.stage # "recorded")
    <3>1. CASE calls' = [calls EXCEPT ![i] = Idle]
      BY <3>1
    <3>2. CASE calls' = [calls EXCEPT ![i].stage = "answered"]
      <4> DEFINE c == [calls[i] EXCEPT !.stage = "answered"]
      <4>1. c \in Call /\ c.stage = "answered"
        BY <2>1 DEF Call
      <4>2. calls' = [calls EXCEPT ![i] = c]
        BY <3>2
      <4> HIDE DEF c
      <4> QED
        BY <4>1, <4>2
    <3> QED
      BY <1>11, <3>1, <3>2 DEF Tell, TellFails, Fail
  <2>3. told[n] = 0 /\ told \in [Ids -> {0, 1}]
    BY <1>2, <2>1 DEF ToldOK
  <2>4. /\ told' \in [Ids -> {0, 1}] /\ \A m \in Ids \ {n} : told'[m] = told[m]
        /\ missed \subseteq missed' /\ DOMAIN records' = DOMAIN records
        /\ told'[n] = 1 \/ n \in missed' \/ messages[n].poll \in Undecodable
    BY <1>11, <2>1, <2>3 DEF Tell, TellFails, Fail
  <2> HIDE DEF n
  <2> QED
    BY <1>6, <2>1, <2>2, <2>4
<1>12. ASSUME NEW i \in Instances, Ack(i) \/ (Fail(i) /\ calls[i].stage # "recorded")
       PROVE  ToldOK'
  <2>1. ~\E m \in Ids : New(i, m)
    BY <1>12 DEF Ack, New
  <2> QED
    BY <1>5, <1>12, <2>1 DEF Ack, Fail
<1>13. ASSUME NEW a \in Admins, Save(a)
       PROVE  ToldOK'
  BY <1>8, <1>13 DEF Save
<1> QED
  BY <1>8, <1>9, <1>10, <1>11, <1>12, <1>13 DEF Next, vars, GiveUp, Forward,
     Open, SaveFails

LEMMA Invariance == Spec => []IInv
<1>1. IInv /\ [Next]_vars => IInv'
  BY MessagesStep, RecordsStep, CallsStep, ToldStep DEF IInv
<1> QED
  BY InitInv, <1>1, PTL DEF Spec

-----------------------------------------------------------------------------
\* Messages, records, calls and sessions keep their types, and a message is
\* acknowledged only when its record is there.
THEOREM TypeCorrect == Spec => []TypeOK
<1>1. IInv => TypeOK
  <2> SUFFICES ASSUME IInv PROVE TypeOK
    OBVIOUS
  <2>1. \A m \in Ids : messages[m] = Unused \/ messages[m] \in Message
    BY DEF IInv, MessagesOK
  <2>2. \A i \in Instances : calls[i] = Idle \/
          (/\ calls[i] \in Call /\ messages[calls[i].message] # Unused
           /\ calls[i].stage # "pushed" => calls[i].message \in DOMAIN records)
    BY DEF IInv, CallsOK, UsedIds
  <2>3. DOMAIN records \subseteq Ids /\ \A m \in DOMAIN records : messages[m] # Unused
    BY DEF IInv, RecordsOK, UsedIds
  <2> QED
    BY <2>1, <2>2, <2>3 DEF IInv, MessagesOK, RecordsOK, TypeOK, Message, Call
<1> QED
  BY Invariance, <1>1, PTL

\* However often a dead letter is pushed, also twice at a time, it is
\* announced once at most; and a record nobody heard of has one of the reasons.
THEOREM ToldOnce == Spec => []ToldOnceOrForAReason
<1>1. IInv => ToldOnceOrForAReason
  <2> SUFFICES ASSUME IInv PROVE ToldOnceOrForAReason
    OBVIOUS
  <2>1. \A m \in Ids : told[m] \in {0, 1} /\ (told[m] = 1 => m \in DOMAIN records)
    BY DEF IInv, ToldOK
  <2>2. \A m \in DOMAIN records :
          \/ told[m] = 1 \/ m \in missed
          \/ records[m].poll \in Undecodable
          \/ \E i \in Instances : Handling(i, m) /\ calls[i].stage = "recorded"
    BY DEF IInv, ToldOK, New, Handling
  <2> QED
    BY <2>1, <2>2 DEF ToldOnceOrForAReason
<1> QED
  BY Invariance, <1>1, PTL

\* A resolved record stays resolved through every later push of its message,
\* and nobody whose request came after it was resolved takes it over.
THEOREM ResolvedForGood == Spec => ResolutionStays
<1> DEFINE Stays ==
      \A m \in DOMAIN records :
        records[m].by # Nobody =>
          \/ records'[m].by = records[m].by
          \/ \E a \in Admins : Overlapping(a, m) /\ records'[m].by = a
<1>1. IInv /\ [Next]_vars => [Stays]_vars
  <2> SUFFICES ASSUME IInv, [Next]_vars, NEW m \in DOMAIN records
               PROVE  \/ records'[m].by = records[m].by
                      \/ \E a \in Admins : Overlapping(a, m) /\ records'[m].by = a
    OBVIOUS
  <2>1. ASSUME NEW n \in Ids, Added(n)
        PROVE  records'[m].by = records[m].by
    BY <2>1 DEF Added, Recorded
  <2>2. ASSUME NEW a \in Admins, ResolvedBy(a), visits[a].record # m
        PROVE  records'[m].by = records[m].by
    BY <2>2 DEF ResolvedBy
  <2>3. ASSUME NEW a \in Admins, ResolvedBy(a), visits[a].record = m
        PROVE  Overlapping(a, m) /\ records'[m].by = a
    <3>1. records[m] \in [poll: {messages[m].poll}, by: Admins \cup {Nobody}]
      BY DEF IInv, RecordsOK
    <3>2. records' = [records EXCEPT ![m].by = a] /\ Overlapping(a, m)
      BY <2>3 DEF ResolvedBy, Overlapping
    <3> QED
      BY <3>1, <3>2
  <2> QED
    BY <2>1, <2>2, <2>3, RecordsChange
<1> QED
  BY Invariance, <1>1, PTL DEF Spec, ResolutionStays

-----------------------------------------------------------------------------
(***************************************************************************)
(* What repetitions cost.  A message is forwarded when all its attempts    *)
(* were lost, each to a failure; only the one that makes the record of a   *)
(* message that cannot be decoded ends without one.                        *)
(***************************************************************************)
Running(m) == {i \in Instances : Handling(i, m)}
Excused(m) ==
  /\ messages[m].poll \in Undecodable /\ m \in DOMAIN records
  /\ \A i \in Instances : ~New(i, m)
Lost(m) ==
  messages[m].attempts - Cardinality(Running(m)) - (IF Excused(m) THEN 1 ELSE 0)

ForwardedOf(p) == {m \in UsedIds : messages[m].state = "forwarded" /\ messages[m].poll = p}
Cost(p) == MaxAttempts - (IF p \in Undecodable THEN 1 ELSE 0)
Paid(p) == Cardinality(ForwardedOf(p)) * Cost(p)

\* All messages of a poll but one were forwarded, and the failures of the
\* forwarded ones and of the one that waits are not counted twice.
CostsOK ==
  /\ \A m, n \in UsedIds :
       (/\ messages[m].state # "forwarded" /\ messages[n].state # "forwarded"
        /\ messages[m].poll = messages[n].poll) => m = n
  /\ \A m \in UsedIds : Lost(m) >= 0
  /\ \A p \in Polls : Paid(p) <= faults
  /\ \A m \in UsedIds :
       messages[m].state = "waiting" => Paid(messages[m].poll) + Lost(m) <= faults

LEMMA CostIs ==
  ASSUME NEW p
  PROVE  /\ Cost(p) \in Nat /\ Cost(p) >= 1
         /\ Cost(p) = MaxAttempts \/ (p \in Undecodable /\ Cost(p) = MaxAttempts - 1)
BY DeadLettersAssumption DEF Cost

LEMMA TimesCost ==
  ASSUME NEW k \in Nat, NEW c \in Nat
  PROVE  k * c \in Nat /\ (k + 1) * c = k * c + c
OBVIOUS

\* Instances and ids are finitely many.
LEMMA Few ==
  /\ \A s \in SUBSET Instances : Cardinality(s) \in Nat
  /\ \A s \in SUBSET Instances, i \in Instances :
       /\ i \notin s => Cardinality(s \cup {i}) = Cardinality(s) + 1
       /\ i \in s => Cardinality(s \ {i}) = Cardinality(s) - 1
<1>1. IsFiniteSet(Instances)
  BY DeadLettersAssumption
<1>2. ASSUME NEW s \in SUBSET Instances
      PROVE  IsFiniteSet(s) /\ Cardinality(s) \in Nat
  BY <1>1, FS_Subset, FS_CardinalityType
<1>3. ASSUME NEW s \in SUBSET Instances, NEW i \in Instances, i \notin s
      PROVE  Cardinality(s \cup {i}) = Cardinality(s) + 1
  BY <1>2, <1>3, FS_AddElement
<1>4. ASSUME NEW s \in SUBSET Instances, NEW i \in Instances, i \in s
      PROVE  Cardinality(s \ {i}) = Cardinality(s) - 1
  BY <1>2, <1>4, FS_RemoveElement
<1> QED
  BY <1>2, <1>3, <1>4

LEMMA FewIds ==
  /\ \A s \in SUBSET Ids : IsFiniteSet(s) /\ Cardinality(s) \in Nat
  /\ \A s \in SUBSET Ids : \A m \in Ids \ s : Cardinality(s \cup {m}) = Cardinality(s) + 1
<1>1. IsFiniteSet(Ids)
  BY FS_Interval, DeadLettersAssumption DEF Ids
<1>2. ASSUME NEW s \in SUBSET Ids
      PROVE  IsFiniteSet(s) /\ Cardinality(s) \in Nat
  BY <1>1, FS_Subset, FS_CardinalityType
<1>3. ASSUME NEW s \in SUBSET Ids, NEW m \in Ids \ s
      PROVE  Cardinality(s \cup {m}) = Cardinality(s) + 1
  BY <1>2, FS_AddElement
<1> QED
  BY <1>2, <1>3

LEMMA CostsTypes ==
  ASSUME IInv
  PROVE  /\ \A m \in UsedIds : /\ m \in Ids /\ messages[m] \in Message
                               /\ messages[m].poll \in Polls
                               /\ messages[m].attempts \in Nat
                               /\ Cardinality(Running(m)) \in Nat
                               /\ Lost(m) \in Int
         /\ \A p \in Polls : Cardinality(ForwardedOf(p)) \in Nat /\ Paid(p) \in Nat
         /\ faults \in Nat
<1>1. \A m \in UsedIds : /\ m \in Ids /\ messages[m] \in Message
                         /\ messages[m].poll \in Polls /\ messages[m].attempts \in Nat
  BY MessageIs, DeadLettersAssumption DEF IInv, MessagesOK, UsedIds
<1>2. \A m : Cardinality(Running(m)) \in Nat
  BY Few DEF Running
<1>3. \A p \in Polls : Cardinality(ForwardedOf(p)) \in Nat /\ Paid(p) \in Nat
  BY FewIds, CostIs, TimesCost DEF ForwardedOf, UsedIds, Paid
<1>4. \A m \in UsedIds : Lost(m) \in Int
  BY <1>1, <1>2 DEF Lost
<1> QED
  BY <1>1, <1>2, <1>3, <1>4, DeadLettersAssumption DEF IInv, MessagesOK

\* A step that forwards nothing keeps the bill when each message still waiting
\* has lost no more than the step has failures.
LEMMA CostsMove ==
  ASSUME IInv, CostsOK, UsedIds' = UsedIds, faults' \in Nat, faults <= faults',
         \A m \in UsedIds :
           /\ messages'[m].poll = messages[m].poll
           /\ messages'[m].state # messages[m].state =>
                messages[m].state = "waiting" /\ messages'[m].state = "acked"
           /\ Lost(m)' \in Int /\ Lost(m)' >= 0
           /\ messages'[m].state = "waiting" => Lost(m)' <= Lost(m) + (faults' - faults)
  PROVE  CostsOK'
<1>1. \A p \in Polls : ForwardedOf(p)' = ForwardedOf(p)
  BY DEF ForwardedOf
<1>2. \A p \in Polls : Paid(p)' = Paid(p)
  BY <1>1 DEF Paid, Cost
<1>3. /\ \A p \in Polls : Paid(p) \in Nat /\ Paid(p) <= faults
      /\ \A m \in UsedIds : messages[m].poll \in Polls /\ Lost(m) \in Int
      /\ faults \in Nat
  BY CostsTypes DEF CostsOK
<1>4. \A p \in Polls : Paid(p)' <= faults'
  BY <1>2, <1>3
<1>5. ASSUME NEW m \in UsedIds, messages'[m].state = "waiting"
      PROVE  (Paid(messages[m].poll) + Lost(m) <= faults)'
  <2>1. Paid(messages[m].poll) + Lost(m) <= faults
    BY <1>5 DEF CostsOK
  <2> DEFINE p == messages[m].poll
  <2>2. p \in Polls /\ Paid(p)' = Paid(p) /\ p' = p
    BY <1>2, <1>3
  <2>3. Paid(messages[m].poll)' = Paid(p)
    BY <1>1, <1>3 DEF Paid, Cost
  <2> QED
    BY <1>3, <1>5, <2>1, <2>2, <2>3
<1>6. \A m, n \in UsedIds :
        (/\ messages'[m].state # "forwarded" /\ messages'[n].state # "forwarded"
         /\ messages'[m].poll = messages'[n].poll) => m = n
  BY DEF CostsOK
<1> QED
  BY <1>4, <1>5, <1>6 DEF CostsOK

\* What a change of one call does to a message's calls.
LEMMA CallMoves ==
  ASSUME IInv, NEW i \in Instances, NEW c \in Call \cup {Idle},
         calls' = [calls EXCEPT ![i] = c], NEW m \in Ids
  PROVE  /\ Running(m)' = IF c # Idle /\ c.message = m THEN Running(m) \cup {i}
                          ELSE Running(m) \ {i}
         /\ \A j \in Instances : New(j, m)' <=>
              IF j = i THEN c # Idle /\ c.stage = "recorded" /\ c.message = m
              ELSE New(j, m)
<1>1. /\ calls'[i] = c
      /\ \A j \in Instances \ {i} : calls'[j] = calls[j]
  BY DEF IInv, CallsOK
<1> QED
  BY <1>1 DEF Running, Handling, New

\* Calls begin, fail and end: every attempt is running, excused or was lost to
\* a failure.
LEMMA CostsOfCalls ==
  ASSUME IInv, CostsOK, MessagesOK', NEW i \in Instances,
         \/ \E m \in Ids : Push(i, m)
         \/ Record(i) \/ Tell(i) \/ TellFails(i) \/ Ack(i) \/ Fail(i)
  PROVE  CostsOK'
<1>1. /\ calls \in [Instances -> Call \cup {Idle}] /\ messages \in [Ids -> Message \cup {Unused}]
      /\ \A m \in UsedIds : /\ m \in Ids /\ messages[m] \in Message
                            /\ messages[m].attempts \in Nat
                            /\ Cardinality(Running(m)) \in Nat
                            /\ Lost(m) \in Int /\ Lost(m) >= 0
      /\ DOMAIN records \subseteq UsedIds
      /\ faults \in Nat /\ faults' \in Nat
  BY CostsTypes, DeadLettersAssumption DEF IInv, MessagesOK, CallsOK, CostsOK, RecordsOK
<1>2. calls[i] # Idle => calls[i] \in Call /\ calls[i].message \in UsedIds
  BY <1>1 DEF IInv, CallsOK
<1>3. \A m : i \notin Running(m) => Cardinality(Running(m) \cup {i}) = Cardinality(Running(m)) + 1
  BY Few DEF Running
<1>4. \A m : i \in Running(m) => Cardinality(Running(m) \ {i}) = Cardinality(Running(m)) - 1
  BY Few DEF Running
<1>5. \A m : i \in Running(m) <=> calls[i] # Idle /\ calls[i].message = m
  BY DEF Running, Handling
\* A call that goes on, where nothing is excused that was not.
<1>6. ASSUME NEW s \in {"recorded", "answered"}, calls[i] # Idle,
             calls' = [calls EXCEPT ![i].stage = s], UNCHANGED messages,
             \A m \in UsedIds : Excused(m)' <=> Excused(m), faults <= faults'
      PROVE  CostsOK'
  <2> DEFINE c == [calls[i] EXCEPT !.stage = s]
  <2>1. c \in Call /\ c.message = calls[i].message /\ c # Idle
    BY <1>2, <1>6 DEF Call, Idle
  <2>2. calls' = [calls EXCEPT ![i] = c]
    BY <1>6
  <2> HIDE DEF c
  <2>3. ASSUME NEW m \in Ids PROVE Running(m)' = Running(m)
    <3>1. Running(m)' = IF c.message = m THEN Running(m) \cup {i} ELSE Running(m) \ {i}
      BY <2>1, <2>2, CallMoves
    <3> QED
      BY <1>5, <1>6, <2>1, <3>1
  <2>4. \A m \in UsedIds : Lost(m)' = Lost(m)
    BY <1>1, <1>6, <2>3 DEF Lost
  <2>5. UsedIds' = UsedIds
    BY <1>6 DEF UsedIds
  <2> QED
    BY <1>1, <1>6, <2>4, <2>5, CostsMove
\* A call that ends: its message's calls are one less.
<1>7. ASSUME NEW n \in Ids, calls[i] # Idle, calls[i].message = n,
             calls' = [calls EXCEPT ![i] = Idle]
      PROVE  /\ Cardinality(Running(n))' = Cardinality(Running(n)) - 1
             /\ \A m \in Ids \ {n} : Running(m)' = Running(m)
             /\ \A m \in Ids, j \in Instances : New(j, m)' <=> j # i /\ New(j, m)
  <2>1. ASSUME NEW m \in Ids
        PROVE  /\ Running(m)' = Running(m) \ {i}
               /\ \A j \in Instances : New(j, m)' <=> j # i /\ New(j, m)
    BY <1>7, CallMoves
  <2>2. Cardinality(Running(n))' = Cardinality(Running(n) \ {i})
    BY <2>1
  <2>3. Cardinality(Running(n) \ {i}) = Cardinality(Running(n)) - 1
    BY <1>4, <1>5, <1>7
  <2>4. ASSUME NEW m \in Ids \ {n}
        PROVE  Running(m)' = Running(m)
    <3>1. i \notin Running(m)
      BY <1>5, <1>7
    <3> QED
      BY <2>1, <3>1
  <2> QED
    BY <2>1, <2>2, <2>3, <2>4
\* A push.
<1>8. ASSUME NEW n \in Ids, Push(i, n)
      PROVE  CostsOK'
  <2> DEFINE c == [stage |-> "pushed", message |-> n]
             x == [messages[n] EXCEPT !.attempts = @ + 1]
  <2>1. /\ n \in UsedIds /\ messages[n] \in Message /\ messages[n].state = "waiting"
        /\ calls[i] = Idle /\ calls' = [calls EXCEPT ![i] = c]
        /\ messages' = [messages EXCEPT ![n] = x]
        /\ records' = records /\ faults <= faults'
    BY <1>1, <1>8, MessageIs DEF Push, UsedIds, Fault
  <2>2. c \in Call /\ c # Idle /\ c.message = n /\ c.stage = "pushed"
    BY DEF Call, Idle
  <2>3. /\ x.poll = messages[n].poll /\ x.state = "waiting"
        /\ x.attempts = messages[n].attempts + 1 /\ x # Unused
    BY <2>1 DEF Message, Unused
  <2> HIDE DEF c, x
  <2>4. /\ messages'[n] = x /\ \A m \in Ids \ {n} : messages'[m] = messages[m]
        /\ UsedIds' = UsedIds
    BY <1>1, <2>1, <2>3 DEF UsedIds
  <2>5. ASSUME NEW m \in Ids
        PROVE  /\ Running(m)' = IF m = n THEN Running(m) \cup {i} ELSE Running(m)
               /\ \A j \in Instances : New(j, m)' <=> New(j, m)
    <3>1. ~New(i, m) /\ i \notin Running(m)
      BY <1>5, <2>1 DEF New
    <3>2. /\ Running(m)' = IF n = m THEN Running(m) \cup {i} ELSE Running(m) \ {i}
          /\ \A j \in Instances : New(j, m)' <=> IF j = i THEN FALSE ELSE New(j, m)
      BY <2>1, <2>2, CallMoves
    <3>3. Running(m) \ {i} = Running(m)
      BY <3>1
    <3> QED
      BY <3>1, <3>2, <3>3
  <2>6. /\ i \notin Running(n)
        /\ \A m \in Ids \ {n} : Running(m)' = Running(m)
    BY <1>5, <2>1, <2>5
  <2>7. Cardinality(Running(n))' = Cardinality(Running(n)) + 1
    BY <1>3, <2>5, <2>6
  <2>8. \A m \in UsedIds : Excused(m)' <=> Excused(m)
    BY <1>1, <2>1, <2>3, <2>4, <2>5 DEF Excused
  <2>9. \A m \in UsedIds \ {n} : Lost(m)' = Lost(m)
    BY <1>1, <2>4, <2>6, <2>8 DEF Lost
  <2>10. Lost(n)' = Lost(n)
    BY <1>1, <2>1, <2>3, <2>4, <2>7, <2>8 DEF Lost
  <2> QED
    BY <1>1, <2>1, <2>3, <2>4, <2>9, <2>10, CostsMove
\* The record is made by a call that is telling of it then, or was there.
<1>9. ASSUME Record(i)
      PROVE  CostsOK'
  <2>1. PICK s \in {"recorded", "answered"} : calls' = [calls EXCEPT ![i].stage = s]
    BY <1>9 DEF Record
  <2>2. calls[i] # Idle /\ messages' = messages /\ faults' = faults
    BY <1>9 DEF Record, Idle
  <2> DEFINE c == [calls[i] EXCEPT !.stage = s]
  <2>3. c \in Call /\ c.message = calls[i].message /\ c # Idle /\ c.stage = s
    BY <1>2, <2>2 DEF Call, Idle
  <2>4. calls' = [calls EXCEPT ![i] = c]
    BY <2>1
  <2> HIDE DEF c
  <2>5. ASSUME NEW m \in UsedIds
        PROVE  Excused(m)' <=> Excused(m)
    <3>1. /\ m \in Ids /\ ~New(i, m)
          /\ \A j \in Instances : New(j, m)' <=>
               IF j = i THEN s = "recorded" /\ calls[i].message = m ELSE New(j, m)
      BY <1>1, <1>9, <2>3, <2>4, CallMoves DEF New, Record
    <3>2. CASE calls[i].message \in DOMAIN records
      <4>1. records' = records /\ calls'[i].stage = "answered"
        BY <1>1, <1>9, <3>2, <2>2, <1>2 DEF Record, Call
      <4>2. s = "answered"
        BY <1>1, <2>3, <2>4, <4>1
      <4> QED
        BY <2>2, <3>1, <4>1, <4>2 DEF Excused
    <3>3. CASE calls[i].message \notin DOMAIN records
      <4>1. /\ DOMAIN records' = DOMAIN records \cup {calls[i].message}
            /\ calls'[i].stage = "recorded"
        BY <1>1, <1>2, <1>9, <2>2, <3>3 DEF Record, Recorded, Call
      <4>2. s = "recorded"
        BY <1>1, <2>3, <2>4, <4>1
      <4> QED
        BY <2>2, <3>1, <3>3, <4>1, <4>2 DEF Excused
    <3> QED
      BY <3>2, <3>3
  <2>6. faults <= faults'
    BY <1>1, <2>2
  <2> QED
    BY <1>6, <2>1, <2>2, <2>5, <2>6
\* The envelope that cannot be decoded ends the one call that is excused.
<1>10. ASSUME Tell(i) \/ TellFails(i)
       PROVE  CostsOK'
  <2> DEFINE n == calls[i].message
  <2>1. /\ calls[i] # Idle /\ calls[i] \in Call /\ n \in UsedIds /\ n \in Ids
        /\ New(i, n) /\ n \in DOMAIN records
        /\ messages' = messages /\ records' = records /\ faults <= faults'
    BY <1>1, <1>2, <1>10 DEF Tell, TellFails, Fault, Idle, New, IInv, CallsOK
  <2>2. \A j \in Instances : New(j, n) => j = i
    BY <2>1 DEF IInv, ToldOK
  <2>3. CASE messages[n].poll \in Undecodable
    <3>1. Tell(i) /\ calls' = [calls EXCEPT ![i] = Idle] /\ faults' = faults
      BY <1>10, <2>3 DEF Tell, TellFails
    <3>2. PICK k \in Ids : k = n
      BY <2>1
    <3> HIDE DEF n
    <3>3. calls[i].message = k
      BY <3>2 DEF n
    <3>4. /\ Cardinality(Running(k))' = Cardinality(Running(k)) - 1
          /\ \A m \in Ids \ {k} : Running(m)' = Running(m)
          /\ \A m \in Ids, j \in Instances : New(j, m)' <=> j # i /\ New(j, m)
      BY <1>7, <2>1, <3>1, <3>3
    <3>5. \A m \in UsedIds \ {k} : Excused(m)' <=> Excused(m)
      <4>1. \A m \in Ids \ {k} : ~New(i, m)
        BY <3>3 DEF New
      <4> QED
        BY <1>1, <2>1, <3>4, <4>1 DEF Excused
    <3>6. ~Excused(k) /\ Excused(k)'
      <4>1. \A j \in Instances : ~New(j, k)'
        BY <2>2, <3>2, <3>4
      <4> QED
        BY <2>1, <2>3, <3>2, <4>1 DEF Excused
    <3>7. UsedIds' = UsedIds
      BY <2>1 DEF UsedIds
    <3>8. \A m \in UsedIds \ {k} : Lost(m)' = Lost(m)
      BY <1>1, <2>1, <3>4, <3>5 DEF Lost
    <3>9. Lost(k)' = Lost(k)
      BY <1>1, <2>1, <3>2, <3>4, <3>6 DEF Lost
    <3> QED
      BY <1>1, <2>1, <3>1, <3>7, <3>8, <3>9, CostsMove
  <2>4. CASE messages[n].poll \notin Undecodable
    <3>1. calls' = [calls EXCEPT ![i].stage = "answered"]
      BY <1>10, <2>4 DEF Tell, TellFails
    <3> DEFINE c == [calls[i] EXCEPT !.stage = "answered"]
    <3>2. c \in Call /\ c.message = calls[i].message /\ c # Idle /\ c.stage = "answered"
      BY <2>1 DEF Call, Idle
    <3>3. calls' = [calls EXCEPT ![i] = c]
      BY <3>1
    <3> HIDE DEF c
    <3>4. ASSUME NEW m \in UsedIds
          PROVE  Excused(m)' <=> Excused(m)
      <4>1. \A j \in Instances : New(j, m)' <=> IF j = i THEN FALSE ELSE New(j, m)
        BY <1>1, <3>2, <3>3, CallMoves
      <4>2. CASE m = n
        BY <2>1, <2>4, <4>2 DEF Excused
      <4>3. CASE m # n
        <5>1. ~New(i, m)
          BY <4>3 DEF New
        <5> QED
          BY <2>1, <4>1, <5>1 DEF Excused
      <4> QED
        BY <4>2, <4>3
    <3> QED
      BY <1>6, <2>1, <3>1, <3>4
  <2> QED
    BY <2>3, <2>4
<1>11. ASSUME Ack(i) \/ Fail(i)
       PROVE  CostsOK'
  <2>1. PICK k \in Ids : calls[i].message = k
    BY <1>1, <1>2, <1>11 DEF Ack, Fail, Idle
  <2>2. /\ calls[i] # Idle /\ calls[i] \in Call /\ k \in UsedIds
        /\ calls' = [calls EXCEPT ![i] = Idle] /\ records' = records
    BY <1>2, <1>11, <2>1 DEF Ack, Fail, Idle
  <2>3. /\ Cardinality(Running(k))' = Cardinality(Running(k)) - 1
        /\ \A m \in Ids \ {k} : Running(m)' = Running(m)
        /\ \A m \in Ids, j \in Instances : New(j, m)' <=> j # i /\ New(j, m)
    BY <1>7, <2>1, <2>2
  <2>4. /\ \A m \in UsedIds \ {k} : messages'[m] = messages[m]
        /\ messages'[k].poll = messages[k].poll
        /\ messages'[k].attempts = messages[k].attempts
        /\ UsedIds' = UsedIds
        /\ \/ messages'[k].state = messages[k].state
           \/ messages[k].state = "waiting" /\ messages'[k].state = "acked"
    <3>1. CASE Fail(i)
      BY <3>1 DEF Fail, UsedIds
    <3>2. CASE Ack(i)
      <4> DEFINE s == IF messages[k].state = "waiting" THEN "acked" ELSE messages[k].state
                 x == [messages[k] EXCEPT !.state = s]
      <4>1. messages' = [messages EXCEPT ![k] = x]
        BY <2>1, <3>2 DEF Ack
      <4>2. /\ x.poll = messages[k].poll /\ x.attempts = messages[k].attempts
            /\ x.state = s /\ x # Unused
        BY <1>1, <2>2 DEF Message, Unused
      <4>3. messages'[k] = x /\ \A m \in Ids \ {k} : messages'[m] = messages[m]
        BY <1>1, <4>1
      <4> HIDE DEF x
      <4>4. UsedIds' = UsedIds
        BY <1>1, <2>2, <4>2, <4>3 DEF UsedIds
      <4> QED
        BY <1>1, <4>2, <4>3, <4>4
    <3> QED
      BY <1>11, <3>1, <3>2
  <2>5. \A m \in UsedIds \ {k} : Lost(m)' = Lost(m)
    <3>1. \A m \in Ids \ {k} : ~New(i, m)
      BY <2>1 DEF New
    <3>2. \A m \in UsedIds \ {k} : Excused(m)' <=> Excused(m)
      BY <1>1, <2>2, <2>3, <2>4, <3>1 DEF Excused
    <3> QED
      BY <1>1, <2>3, <2>4, <3>2 DEF Lost
  <2>6. Excused(k) => Excused(k)'
    BY <2>2, <2>3, <2>4 DEF Excused
  <2>7. /\ Lost(k)' \in Int /\ Lost(k) <= Lost(k)' /\ Lost(k)' <= Lost(k) + 1
        /\ Cardinality(Running(k)) \in Nat /\ Lost(k) \in Int /\ Lost(k) >= 0
    BY <1>1, <2>2, <2>3, <2>4, <2>6 DEF Lost
  <2>8. CASE Fail(i)
    <3>1. faults' = faults + 1
      BY <2>8 DEF Fail, Fault
    <3> QED
      BY <1>1, <2>4, <2>5, <2>7, <3>1, CostsMove
  <2>9. CASE Ack(i)
    <3>1. faults' = faults
      BY <2>9 DEF Ack
    <3>2. messages'[k].state # "waiting"
      BY <1>1, <2>1, <2>2, <2>9, <2>4 DEF Ack, Message
    <3> QED
      BY <1>1, <2>4, <2>5, <2>7, <3>1, <3>2, CostsMove
  <2> QED
    BY <1>11, <2>8, <2>9
<1> QED
  BY <1>8, <1>9, <1>10, <1>11

\* A message that is published has cost nothing yet.
LEMMA FreshMessage ==
  ASSUME IInv, NEW n \in Ids, n \notin UsedIds, NEW p \in Polls,
         calls' = calls, records' = records, messages'[n] = Waiting(p)
  PROVE  Lost(n)' = 0
<1>1. \A i \in Instances : ~Handling(i, n)
  BY DEF IInv, CallsOK, Handling
<1>2. Running(n)' = {}
  BY <1>1 DEF Running, Handling
<1>3. ~Excused(n)'
  BY DEF Excused, IInv, RecordsOK
<1> QED
  BY <1>2, <1>3, FS_EmptySet DEF Lost, Waiting

LEMMA CostsStep ==
  ASSUME IInv, CostsOK, [Next]_vars, MessagesOK'
  PROVE  CostsOK'
<1>1. /\ messages \in [Ids -> Message \cup {Unused}]
      /\ \A m \in UsedIds : /\ m \in Ids /\ messages[m] \in Message
                            /\ messages[m].poll \in Polls
                            /\ Lost(m) \in Int /\ Lost(m) >= 0
      /\ \A p \in Polls : /\ Cardinality(ForwardedOf(p)) \in Nat
                          /\ Paid(p) \in Nat /\ Paid(p) <= faults
      /\ faults \in Nat /\ faults' \in Nat
  BY CostsTypes, DeadLettersAssumption DEF IInv, MessagesOK, CostsOK
<1>2. CASE UNCHANGED <<messages, calls>> /\ DOMAIN records' = DOMAIN records /\ faults <= faults'
  <2>1. \A m \in UsedIds : Lost(m)' = Lost(m)
    BY <1>2 DEF Lost, Running, Handling, Excused, New
  <2>2. UsedIds' = UsedIds
    BY <1>2 DEF UsedIds
  <2> QED
    BY <1>1, <1>2, <2>1, <2>2, CostsMove
<1>3. ASSUME NEW p \in Polls, NEW n \in Ids, GiveUp(p, n)
      PROVE  CostsOK'
  <2>1. /\ n \notin UsedIds /\ calls' = calls /\ records' = records /\ faults' = faults
        /\ messages' = [messages EXCEPT ![n] = Waiting(p)]
        /\ Waiting(p) # Unused
    BY <1>3, NextIdIs, MessageIs DEF GiveUp, IInv
  <2>2. /\ messages'[n] = Waiting(p) /\ \A m \in Ids \ {n} : messages'[m] = messages[m]
        /\ UsedIds' = UsedIds \cup {n}
    BY <1>1, <2>1 DEF UsedIds
  <2>3. Lost(n)' = 0
    BY <2>1, <2>2, FreshMessage
  <2>4. \A m \in UsedIds : m # n /\ Lost(m)' = Lost(m)
    BY <1>1, <2>1, <2>2 DEF Lost, Running, Handling, Excused, New
  <2>5. \A q \in Polls : ForwardedOf(q)' = ForwardedOf(q)
    BY <1>1, <2>1, <2>2 DEF ForwardedOf, Waiting
  <2>6. \A q \in Polls : Paid(q)' = Paid(q)
    BY <2>5 DEF Paid, Cost
  <2>7. \A m \in UsedIds : messages[m].poll # p
    BY <1>1, <1>3 DEF GiveUp, Given, UsedIds
  <2>8. \A m \in UsedIds' :
          messages'[m].state = "waiting" => (Paid(messages[m].poll) + Lost(m) <= faults)'
    <3>1. ASSUME NEW m \in UsedIds, messages[m].state = "waiting"
          PROVE  (Paid(messages[m].poll) + Lost(m) <= faults)'
      <4>1. Paid(messages[m].poll) + Lost(m) <= faults
        BY <3>1 DEF CostsOK
      <4>2. messages'[m] = messages[m] /\ Lost(m)' = Lost(m)
        BY <1>1, <2>2, <2>4
      <4>3. Paid(messages[m].poll)' = Paid(messages[m].poll)
        BY <1>1, <2>5, <4>2 DEF Paid, Cost
      <4> QED
        BY <2>1, <4>1, <4>2, <4>3
    <3>2. Paid(messages[n].poll)' = Paid(p)
      BY <2>2, <2>5 DEF Paid, Cost, Waiting
    <3>3. (Paid(messages[n].poll) + Lost(n) <= faults)'
      BY <1>1, <2>1, <2>3, <3>2
    <3> QED
      BY <1>1, <2>2, <2>4, <3>1, <3>3
  <2>9. \A m, l \in UsedIds' :
          (/\ messages'[m].state # "forwarded" /\ messages'[l].state # "forwarded"
           /\ messages'[m].poll = messages'[l].poll) => m = l
    BY <1>1, <2>2, <2>4, <2>7 DEF CostsOK, Waiting
  <2> QED
    BY <1>1, <2>1, <2>2, <2>3, <2>4, <2>6, <2>8, <2>9 DEF CostsOK
<1>4. ASSUME NEW k \in Ids, NEW n \in Ids, Forward(k, n)
      PROVE  CostsOK'
  <2> DEFINE x == [messages[k] EXCEPT !.state = "forwarded"]
  <2>1. PICK p \in Polls : messages[k].poll = p
    BY <1>1, <1>4, MessageIs DEF Forward, UsedIds
  <2>2. /\ n \notin UsedIds /\ calls' = calls /\ records' = records /\ faults' = faults
        /\ messages' = [messages EXCEPT ![k] = x, ![n] = Waiting(p)]
        /\ Waiting(p) # Unused /\ k \in UsedIds /\ messages[k] \in Message
        /\ messages[k].state = "waiting" /\ messages[k].attempts = MaxAttempts
        /\ \A i \in Instances : ~Handling(i, k)
    BY <1>1, <1>4, <2>1, NextIdIs, MessageIs DEF Forward, IInv, UsedIds
  <2>3. /\ x.poll = p /\ x.attempts = MaxAttempts /\ x.state = "forwarded" /\ x # Unused
    BY <2>1, <2>2 DEF Message, Unused
  <2> HIDE DEF x
  <2>4. /\ messages'[n] = Waiting(p) /\ messages'[k] = x /\ k # n
        /\ \A m \in Ids \ {k, n} : messages'[m] = messages[m]
        /\ UsedIds' = UsedIds \cup {n}
    BY <1>1, <2>2, <2>3 DEF UsedIds
  <2>5. Lost(n)' = 0
    BY <2>2, <2>4, FreshMessage
  <2>6. \A m \in UsedIds : m # n /\ Lost(m)' = Lost(m)
    BY <1>1, <2>1, <2>2, <2>3, <2>4 DEF Lost, Running, Handling, Excused, New
  <2>7. \A q \in Polls \ {p} : ForwardedOf(q)' = ForwardedOf(q)
    BY <1>1, <2>1, <2>2, <2>3, <2>4 DEF ForwardedOf, Waiting
  <2>8. \A q \in Polls \ {p} : Paid(q)' = Paid(q)
    BY <2>7 DEF Paid, Cost
  <2>9. ForwardedOf(p)' = ForwardedOf(p) \cup {k} /\ k \notin ForwardedOf(p)
    BY <1>1, <2>1, <2>2, <2>3, <2>4 DEF ForwardedOf, Waiting
  <2>10. Cardinality(ForwardedOf(p))' = Cardinality(ForwardedOf(p)) + 1
    <3>1. ForwardedOf(p) \in SUBSET Ids
      BY DEF ForwardedOf, UsedIds
    <3> QED
      BY <2>9, <3>1, FewIds
  <2>11. Paid(p)' = Paid(p) + Cost(p) /\ Paid(p)' \in Nat
    <3>1. Paid(p)' = (Cardinality(ForwardedOf(p)) + 1) * Cost(p)
      BY <2>10 DEF Paid, Cost
    <3>2. Cost(p) \in Nat /\ Cardinality(ForwardedOf(p)) \in Nat
      BY <1>1, CostIs
    <3> QED
      BY <3>1, <3>2, TimesCost DEF Paid
  \* All attempts of the message were lost.
  <2>12. Cost(p) <= Lost(k)
    <3>1. Cardinality(Running(k)) = 0
      BY <2>2, FS_EmptySet DEF Running
    <3>2. Excused(k) => p \in Undecodable
      BY <2>1 DEF Excused
    <3> QED
      BY <2>2, <3>1, <3>2, DeadLettersAssumption DEF Lost, Cost
  <2>13. Paid(p) + Lost(k) <= faults
    BY <2>1, <2>2 DEF CostsOK
  <2>14. Paid(p)' <= faults'
    <3>1. Cost(p) \in Nat /\ Paid(p) \in Nat /\ Lost(k) \in Int
      BY <1>1, <2>2, CostIs
    <3> QED
      BY <1>1, <2>2, <2>11, <2>12, <2>13, <3>1
  <2>15. \A m \in UsedIds \ {k} :
           messages[m].poll = p => messages[m].state = "forwarded"
    BY <2>1, <2>2 DEF CostsOK
  <2>16. ASSUME NEW m \in UsedIds', messages'[m].state = "waiting"
         PROVE  (Paid(messages[m].poll) + Lost(m) <= faults)'
    <3>1. CASE m = n
      <4>1. messages'[m].poll = p
        BY <2>4, <3>1 DEF Waiting
      <4>2. Paid(messages[m].poll)' = Paid(p)'
        BY <4>1 DEF Paid, ForwardedOf, Cost
      <4> QED
        BY <1>1, <2>5, <2>11, <2>14, <3>1, <4>2
    <3>2. CASE m # n
      <4>1. /\ m \in UsedIds /\ m # k /\ messages'[m] = messages[m]
            /\ messages[m].state = "waiting" /\ messages[m].poll \in Polls \ {p}
        BY <1>1, <2>3, <2>4, <2>15, <2>16, <3>2
      <4>2. Paid(messages[m].poll) + Lost(m) <= faults
        BY <4>1 DEF CostsOK
      <4>3. Paid(messages[m].poll)' = Paid(messages[m].poll)
        BY <2>7, <4>1 DEF Paid, Cost
      <4> QED
        BY <2>2, <2>6, <4>1, <4>2, <4>3
    <3> QED
      BY <3>1, <3>2
  <2>17. \A m, l \in UsedIds' :
           (/\ messages'[m].state # "forwarded" /\ messages'[l].state # "forwarded"
            /\ messages'[m].poll = messages'[l].poll) => m = l
    BY <1>1, <2>3, <2>4, <2>6, <2>15 DEF CostsOK, Waiting
  <2>18. \A q \in Polls : Paid(q)' <= faults'
    BY <1>1, <2>2, <2>8, <2>14
  <2>19. \A m \in UsedIds' : Lost(m)' >= 0
    BY <1>1, <2>4, <2>5, <2>6
  <2> QED
    BY <2>16, <2>17, <2>18, <2>19 DEF CostsOK
<1>5. ASSUME NEW a \in Admins, Save(a) \/ SaveFails(a) \/ \E m \in Ids : Open(a, m)
      PROVE  CostsOK'
  <2>1. DOMAIN records' = DOMAIN records /\ faults <= faults'
    BY <1>1, <1>5 DEF Save, SaveFails, Open, Fault
  <2> QED
    BY <1>2, <1>5, <2>1 DEF Save, SaveFails, Open
<1>6. CASE UNCHANGED vars
  BY <1>1, <1>2, <1>6 DEF vars
<1> QED
  BY <1>3, <1>4, <1>5, <1>6, CostsOfCalls DEF Next

LEMMA CostsInit == Init => CostsOK
<1> SUFFICES ASSUME Init PROVE CostsOK
  OBVIOUS
<1>1. UsedIds = {} /\ faults = 0
  BY DEF Init, UsedIds
<1>2. \A p \in Polls : ForwardedOf(p) = {} /\ Paid(p) = 0
  BY <1>1, CostIs, FS_EmptySet DEF ForwardedOf, Paid
<1> QED
  BY <1>1, <1>2 DEF CostsOK

\* A poll gets another record only when its message was forwarded, and that
\* takes a failure for every attempt: each record of a poll but the first cost
\* MaxAttempts failures, or one less when it cannot be decoded.
THEOREM RepeatsCost == Spec => []RepeatsCostFailures
<1>1. IInv /\ CostsOK => RepeatsCostFailures
  <2> SUFFICES ASSUME IInv, CostsOK, NEW p \in Polls
               PROVE  (Cardinality({m \in DOMAIN records : records[m].poll = p}) - 1)
                        * Cost(p) <= faults
    BY DEF RepeatsCostFailures, Cost
  <2> DEFINE recorded == {m \in DOMAIN records : records[m].poll = p}
             given == {m \in UsedIds : messages[m].poll = p}
             k == Cardinality(ForwardedOf(p))
  <2>1. recorded \subseteq given /\ given \in SUBSET Ids /\ ForwardedOf(p) \in SUBSET Ids
    BY DEF IInv, RecordsOK, UsedIds, ForwardedOf
  <2>2. PICK s \in SUBSET Ids : given \subseteq s /\ Cardinality(s) <= k + 1
    <3>1. k \in Nat
      BY CostsTypes
    <3>2. CASE \E m \in given : messages[m].state # "forwarded"
      <4>1. PICK m \in given : messages[m].state # "forwarded"
        BY <3>2
      <4>2. given \subseteq ForwardedOf(p) \cup {m} /\ m \in Ids \ ForwardedOf(p)
        BY <2>1, <4>1 DEF CostsOK, ForwardedOf
      <4>3. Cardinality(ForwardedOf(p) \cup {m}) = k + 1
        BY <2>1, <4>2, FewIds
      <4> QED
        BY <2>1, <3>1, <4>2, <4>3
    <3>3. CASE \A m \in given : messages[m].state = "forwarded"
      <4>1. given \subseteq ForwardedOf(p)
        BY <3>3 DEF ForwardedOf
      <4> QED
        BY <2>1, <3>1, <4>1
    <3> QED
      BY <3>2, <3>3
  <2>3. Cardinality(recorded) \in Nat /\ Cardinality(recorded) <= k + 1
    <3>1. IsFiniteSet(s) /\ recorded \subseteq s
      BY <2>1, <2>2, FewIds
    <3>2. Cardinality(recorded) <= Cardinality(s) /\ IsFiniteSet(recorded)
      BY <3>1, FS_Subset
    <3>3. Cardinality(recorded) \in Nat /\ Cardinality(s) \in Nat /\ k \in Nat
      BY <2>1, FewIds, CostsTypes
    <3> QED
      BY <2>2, <3>2, <3>3
  <2>4. k * Cost(p) <= faults /\ k \in Nat /\ Cost(p) \in Nat /\ faults \in Nat
    BY CostsTypes, CostIs DEF CostsOK, Paid
  <2>5. ASSUME NEW r \in Int, NEW l \in Nat, NEW c \in Nat, r <= l
        PROVE  r * c <= l * c /\ r * c \in Int /\ l * c \in Int
    BY <2>5
  <2> HIDE DEF recorded, k
  <2>6. (Cardinality(recorded) - 1) * Cost(p) <= k * Cost(p)
    BY <2>3, <2>4, <2>5
  <2>7. \A i, j, l \in Int : i <= j /\ j <= l => i <= l
    OBVIOUS
  <2>8. (Cardinality(recorded) - 1) * Cost(p) \in Int /\ k * Cost(p) \in Int
    BY <2>3, <2>4, <2>5
  <2>9. (Cardinality(recorded) - 1) * Cost(p) <= faults
    BY <2>4, <2>6, <2>7, <2>8
  <2> QED
    BY <2>9 DEF recorded
<1>2. IInv /\ CostsOK /\ [Next]_vars => CostsOK'
  BY MessagesStep, CostsStep
<1> QED
  BY Invariance, CostsInit, <1>1, <1>2, PTL DEF Spec

-----------------------------------------------------------------------------
(***************************************************************************)
(* Towards Settles: where a poll that was given up is.                     *)
(***************************************************************************)
\* Message m is the one that stands for poll p: those before it were forwarded.
StandsFor(m, p) ==
  messages[m] # Unused /\ messages[m].poll = p /\ messages[m].state # "forwarded"
Done(p) == \E m \in DOMAIN records : records[m].poll = p /\ messages[m].state = "acked"

\* A poll that was given up is in exactly one message: forwarding neither loses
\* nor doubles it.  As long as it is not recorded and acknowledged, that message
\* waits for its next push.
OneMessageStands ==
  \A p \in Polls : Given(p) =>
    \E m \in Ids :
      /\ StandsFor(m, p) /\ \A n \in Ids : StandsFor(n, p) => n = m
      /\ Done(p) \/ messages[m].state = "waiting"

\* A poll that is recorded and acknowledged does not come back.
DoneIsDone == [][\A p \in Polls : Done(p) => Done(p)']_vars

\* Messages end acknowledged, or forwarded to one that waits in their place.
LEMMA StateMoves ==
  ASSUME IInv, [Next]_vars, NEW m \in UsedIds
  PROVE  /\ messages[m].state = "acked" => messages'[m].state = "acked"
         /\ messages[m].state # "forwarded" =>
              \/ messages'[m].state # "forwarded"
              \/ \E n \in Ids : messages'[n] = Waiting(messages[m].poll)
<1>1. /\ messages \in [Ids -> Message \cup {Unused}]
      /\ m \in Ids /\ messages[m] \in Message
  BY DEF IInv, MessagesOK, UsedIds
<1>2. CASE UNCHANGED messages
  BY <1>2
<1>3. ASSUME NEW p \in Polls, NEW n \in Ids, GiveUp(p, n)
      PROVE  messages'[m] = messages[m]
  <2>1. n \notin UsedIds
    BY <1>3, NextIdIs DEF GiveUp, IInv
  <2> QED
    BY <1>1, <1>3, <2>1 DEF GiveUp
<1>4. ASSUME NEW i \in Instances, NEW n \in Ids, Push(i, n)
      PROVE  messages'[m].state = messages[m].state
  <2>1. messages' = [messages EXCEPT ![n].attempts = @ + 1]
    BY <1>4 DEF Push
  <2> QED
    BY <1>1, <2>1 DEF Message
<1>5. ASSUME NEW i \in Instances, Ack(i)
      PROVE  messages'[m].state \in {messages[m].state, "acked"}
  <2> DEFINE n == calls[i].message
             s == IF messages[n].state = "waiting" THEN "acked" ELSE messages[n].state
  <2>1. messages' = [messages EXCEPT ![n].state = s]
    BY <1>5 DEF Ack
  <2>2. CASE n = m
    <3>1. messages'[m].state = s
      BY <1>1, <2>1, <2>2 DEF Message
    <3> QED
      BY <2>2, <3>1
  <2>3. CASE n # m
    <3> HIDE DEF n, s
    <3> QED
      BY <1>1, <2>1, <2>3
  <2> QED
    BY <2>2, <2>3
<1>6. ASSUME NEW k \in Ids, NEW n \in Ids, Forward(k, n)
      PROVE  \/ messages'[m] = messages[m]
             \/ /\ messages[m].state = "waiting"
                /\ messages'[n] = Waiting(messages[m].poll)
  <2> DEFINE y == Waiting(messages[k].poll)
  <2>1. /\ messages[k].state = "waiting"
        /\ messages' = [messages EXCEPT ![k].state = "forwarded", ![n] = y]
    BY <1>6 DEF Forward
  <2>2. n \notin UsedIds
    BY <1>6, NextIdIs DEF Forward, IInv
  <2> HIDE DEF y
  <2>3. m # n /\ messages'[n] = y /\ (m # k => messages'[m] = messages[m])
    BY <1>1, <2>1, <2>2
  <2> QED
    BY <2>1, <2>3 DEF y
<1> QED
  BY <1>2, <1>3, <1>4, <1>5, <1>6 DEF Next, vars, Record, Tell, TellFails,
     Fail, Open, Save, SaveFails

\* The ingest subscription's dead letters are neither lost nor doubled by the
\* subscription of the dead-letter topic, which forwards to its own topic; they
\* wait until a call has recorded and acknowledged them.
THEOREM OneMessageDoesStand == Spec => []OneMessageStands
<1> DEFINE Kept == \A p \in Polls : Given(p) => \E m \in Ids : StandsFor(m, p)
<1>1. Init => Kept
  BY DEF Init, Given, Unused
<1>2. IInv /\ Kept /\ [Next]_vars => Kept'
  <2> SUFFICES ASSUME IInv, Kept, [Next]_vars, NEW p \in Polls, Given(p)'
               PROVE  \E m \in Ids : StandsFor(m, p)'
    OBVIOUS
  <2>1. \A x \in Message : x # Unused
    BY MessageIs
  <2>2. Waiting(p) # Unused /\ Waiting(p).poll = p /\ Waiting(p).state = "waiting"
    BY <2>1, MessageIs DEF Waiting
  <2>3. ASSUME NEW n \in Ids, messages'[n] = Waiting(p)
        PROVE  StandsFor(n, p)'
    BY <2>2, <2>3 DEF StandsFor
  <2>4. CASE Given(p)
    <3>1. PICK m \in Ids : StandsFor(m, p)
      BY <2>4
    <3>2. m \in UsedIds /\ messages[m].poll = p /\ messages[m].state # "forwarded"
      BY <3>1 DEF StandsFor, UsedIds
    <3>3. m \in UsedIds' /\ messages'[m].poll = p
      BY <3>2, MessagesStep
    <3>4. CASE messages'[m].state # "forwarded"
      <4>1. StandsFor(m, p)'
        BY <3>3, <3>4 DEF StandsFor, UsedIds
      <4> QED
        BY <4>1
    <3>5. CASE messages'[m].state = "forwarded"
      <4>1. PICK n \in Ids : messages'[n] = Waiting(p)
        BY <3>2, <3>5, StateMoves
      <4> QED
        BY <2>3, <4>1
    <3> QED
      BY <3>4, <3>5
  <2>5. CASE ~Given(p)
    <3>1. PICK m \in Ids : messages'[m] # Unused /\ messages'[m].poll = p
      BY DEF Given
    <3>2. \A n \in UsedIds : messages'[n].poll = messages[n].poll /\ messages[n].poll # p
      BY <2>5, MessagesStep DEF Given, UsedIds
    <3>3. m \notin UsedIds
      BY <3>1, <3>2
    <3>4. messages'[m].state # "forwarded"
      <4>1. messages \in [Ids -> Message \cup {Unused}] /\ messages[m] = Unused
        BY <3>3 DEF IInv, MessagesOK, UsedIds
      <4>2. messages' # messages
        BY <3>1, <4>1
      <4>3. ASSUME NEW q \in Polls, NEW n \in Ids, GiveUp(q, n)
            PROVE  messages'[m].state # "forwarded"
        BY <3>1, <4>1, <4>3 DEF GiveUp, Waiting
      <4>4. ASSUME NEW i \in Instances, NEW n \in Ids, Push(i, n) PROVE FALSE
        <5>1. n # m
          BY <4>1, <4>4, MessageIs DEF Push
        <5> QED
          BY <3>1, <4>1, <4>4, <5>1 DEF Push
      <4>5. ASSUME NEW i \in Instances, Ack(i) PROVE FALSE
        <5>1. calls[i].message \in UsedIds
          BY <4>5 DEF Ack, IInv, CallsOK, Idle
        <5> QED
          BY <3>1, <3>3, <4>1, <4>5, <5>1 DEF Ack
      <4>6. ASSUME NEW k \in Ids, NEW n \in Ids, Forward(k, n)
            PROVE  messages'[m].state # "forwarded"
        <5>1. k # m
          BY <4>1, <4>6, MessageIs DEF Forward
        <5> DEFINE y == Waiting(messages[k].poll)
        <5>2. messages' = [messages EXCEPT ![k].state = "forwarded", ![n] = y]
              /\ y.state = "waiting"
          BY <4>6 DEF Forward, Waiting
        <5> HIDE DEF y
        <5>3. messages'[m] = IF m = n THEN y ELSE messages[m]
          BY <4>1, <5>1, <5>2
        <5> QED
          BY <3>1, <4>1, <5>2, <5>3
      <4> QED
        BY <4>2, <4>3, <4>4, <4>5, <4>6 DEF Next, vars, Record, Tell, TellFails,
           Fail, Open, Save, SaveFails
    <3>5. StandsFor(m, p)'
      BY <3>1, <3>4 DEF StandsFor
    <3> QED
      BY <3>5
  <2> QED
    BY <2>4, <2>5
<1>3. IInv /\ CostsOK /\ Kept => OneMessageStands
  <2> SUFFICES ASSUME IInv, CostsOK, Kept, NEW p \in Polls, Given(p)
               PROVE  \E m \in Ids :
                        /\ StandsFor(m, p) /\ \A n \in Ids : StandsFor(n, p) => n = m
                        /\ Done(p) \/ messages[m].state = "waiting"
    BY DEF OneMessageStands
  <2>1. PICK m \in Ids : StandsFor(m, p)
    OBVIOUS
  <2>2. \A n \in Ids : StandsFor(n, p) => n = m
    BY <2>1 DEF StandsFor, CostsOK, UsedIds
  <2>3. messages[m] \in Message /\ messages[m].state # "forwarded" /\ messages[m].poll = p
    BY <2>1 DEF StandsFor, IInv, MessagesOK
  <2>4. messages[m].state \in {"waiting", "acked"}
    BY <2>3 DEF Message
  <2>5. ASSUME messages[m].state = "acked" PROVE Done(p)
    <3>1. m \in DOMAIN records /\ records[m] \in [poll: {messages[m].poll}, by: Admins \cup {Nobody}]
      BY <2>5 DEF IInv, RecordsOK
    <3>2. records[m].poll = p
      BY <2>3, <3>1
    <3> QED
      BY <2>5, <3>1, <3>2 DEF Done
  <2> QED
    BY <2>1, <2>2, <2>4, <2>5
<1>4. IInv /\ CostsOK /\ [Next]_vars => CostsOK'
  BY MessagesStep, CostsStep
<1> QED
  BY Invariance, CostsInit, <1>1, <1>2, <1>3, <1>4, PTL DEF Spec

\* record_dlq_event and the acknowledgement after it are final: with
\* OneMessageDoesStand, what Settles says but for the fairness of Pub/Sub.
THEOREM DoneStaysDone == Spec => DoneIsDone
<1>1. ASSUME IInv, [Next]_vars
      PROVE  \A p \in Polls : Done(p) => Done(p)'
  <2> SUFFICES ASSUME NEW m \in DOMAIN records, messages[m].state = "acked"
               PROVE  /\ m \in DOMAIN records' /\ records'[m].poll = records[m].poll
                      /\ messages'[m].state = "acked"
    BY DEF Done
  <2>1. m \in UsedIds
    BY <1>1 DEF IInv, RecordsOK
  <2> QED
    BY <1>1, <2>1, RecordsLast, StateMoves
<1> QED
  BY <1>1, Invariance, PTL DEF Spec, DoneIsDone
=============================================================================
