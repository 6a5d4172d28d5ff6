---------------------------- MODULE DeadLetters ----------------------------
(***************************************************************************)
(* What becomes of a poll whose message the ingest subscription gave up:   *)
(* the dead-letter topic pushes it to the normalizer's /internal/dlq,      *)
(* which records it under its message id, commits and then tells Slack;    *)
(* admins resolve the record through the API.                              *)
(*                                                                         *)
(* The dead-letter subscription has the dead-letter topic as its own       *)
(* dead-letter topic: a message that runs out of attempts comes back under *)
(* a new message id.                                                       *)
(***************************************************************************)
EXTENDS Integers, FiniteSets

CONSTANTS
  Polls,         \* polls the ingest subscription gives up
  Undecodable,   \* those whose message has data that cannot be decoded
  MaxIds,        \* bound: message ids of the dead-letter topic, which are
                 \* numbered
  MaxPolls,      \* bound: how many of Polls are given up
  Instances,     \* of the normalizer
  Admins,
  Nobody,
  MaxAttempts,   \* max_delivery_attempts of the dead-letter subscription
  MaxFaults      \* bound: failures of any kind

ASSUME DeadLettersAssumption ==
  /\ Undecodable \subseteq Polls
  /\ MaxAttempts \in Nat \ {0, 1} /\ MaxFaults \in Nat /\ MaxIds \in Nat
  /\ Nobody \notin Admins /\ IsFiniteSet(Instances)

VARIABLES
  messages,      \* messages[m]: the message published under id m
  calls,         \* calls[i]: the call instance i is in
  records,       \* dlq_events, by message_id
  visits,        \* visits[a]: the session of admin a's request
  told,          \* history: told[m]: how often Slack was told of m
  missed,        \* history: messages whose post failed or was never made
  faults

vars == <<messages, calls, records, visits, told, missed, faults>>

Ids == 1..MaxIds
Unused == [state |-> "unused"]
Idle == [stage |-> "idle"]
NoVisit == [record |-> "none"]

Init ==
  /\ messages = [m \in Ids |-> Unused]
  /\ calls = [i \in Instances |-> Idle]
  /\ records = [m \in {} |-> 0]
  /\ visits = [a \in Admins |-> NoVisit]
  /\ told = [m \in Ids |-> 0] /\ missed = {}
  /\ faults = 0

Fault == faults < MaxFaults /\ faults' = faults + 1

-----------------------------------------------------------------------------
Waiting(poll) == [state |-> "waiting", poll |-> poll, attempts |-> 0]
NextId(m) == m = 1 + Cardinality({n \in Ids : messages[n] # Unused})
Given(p) == \E m \in Ids : messages[m] # Unused /\ messages[m].poll = p

\* The last attempt of the ingest subscription failed.
GiveUp(p, m) ==
  /\ ~Given(p) /\ NextId(m) /\ Cardinality({q \in Polls : Given(q)}) < MaxPolls
  /\ messages' = [messages EXCEPT ![m] = Waiting(p)]
  /\ UNCHANGED <<calls, records, visits, told, missed, faults>>

Handling(i, m) == calls[i] # Idle /\ calls[i].message = m

\* A push.  While an instance still has the message, that is only when the
\* 60 seconds of the acknowledgement are over or the connection is lost.
Push(i, m) ==
  /\ calls[i] = Idle
  /\ messages[m].state = "waiting" /\ messages[m].attempts < MaxAttempts
  /\ IF \E j \in Instances : Handling(j, m) THEN Fault ELSE UNCHANGED faults
  /\ messages' = [messages EXCEPT ![m].attempts = @ + 1]
  /\ calls' = [calls EXCEPT ![i] = [stage |-> "pushed", message |-> m]]
  /\ UNCHANGED <<records, visits, told, missed>>

\* The attempts are used up: the message moves to the topic it came from.
Forward(m, n) ==
  /\ messages[m].state = "waiting" /\ messages[m].attempts = MaxAttempts
  /\ NextId(n)
  /\ \A i \in Instances : ~Handling(i, m)
  /\ messages' = [messages EXCEPT ![m].state = "forwarded",
                                  ![n] = Waiting(messages[m].poll)]
  /\ UNCHANGED <<calls, records, visits, told, missed, faults>>

-----------------------------------------------------------------------------
Recorded(m) ==
  [n \in DOMAIN records \cup {m} |->
     IF n = m THEN [poll |-> messages[m].poll, by |-> Nobody] ELSE records[n]]

\* Mutant: a repeated message is answered with an error.
RecordOrRefuse(i) ==
  /\ calls[i].stage = "pushed"
  /\ IF calls[i].message \in DOMAIN records
     THEN calls' = [calls EXCEPT ![i] = Idle] /\ UNCHANGED records
     ELSE /\ records' = Recorded(calls[i].message)
          /\ calls' = [calls EXCEPT ![i].stage = "recorded"]
  /\ UNCHANGED <<messages, visits, told, missed, faults>>

\* Mutant: only the first attempt counts as new.
RecordFirstAttempt(i) ==
  LET m == calls[i].message
  IN  /\ calls[i].stage = "pushed"
      /\ records' = IF m \in DOMAIN records THEN records ELSE Recorded(m)
      /\ calls' = [calls EXCEPT ![i].stage =
                     IF messages[m].attempts = 1 THEN "recorded" ELSE "answered"]
      /\ UNCHANGED <<messages, visits, told, missed, faults>>

\* record_dlq_event and its commit: of two at once the later one waits, and
\* then finds the row.
Record(i) ==
  /\ calls[i].stage = "pushed"
  /\ IF calls[i].message \in DOMAIN records
     THEN calls' = [calls EXCEPT ![i].stage = "answered"] /\ UNCHANGED records
     ELSE /\ records' = Recorded(calls[i].message)
          /\ calls' = [calls EXCEPT ![i].stage = "recorded"]
  /\ UNCHANGED <<messages, visits, told, missed, faults>>

\* The envelope is decoded once more, which raises when it cannot be, and
\* Slack is told.
Tell(i) ==
  /\ calls[i].stage = "recorded"
  /\ IF messages[calls[i].message].poll \in Undecodable
     THEN calls' = [calls EXCEPT ![i] = Idle] /\ UNCHANGED told
     ELSE /\ told' = [told EXCEPT ![calls[i].message] = @ + 1]
          /\ calls' = [calls EXCEPT ![i].stage = "answered"]
  /\ UNCHANGED <<messages, records, visits, missed, faults>>

\* post_slack_message catches whatever the post raises.
TellFails(i) ==
  /\ calls[i].stage = "recorded" /\ Fault
  /\ messages[calls[i].message].poll \notin Undecodable
  /\ calls' = [calls EXCEPT ![i].stage = "answered"]
  /\ missed' = missed \cup {calls[i].message}
  /\ UNCHANGED <<messages, records, visits, told>>

Ack(i) ==
  /\ calls[i].stage = "answered"
  /\ messages' = [messages EXCEPT ![calls[i].message].state =
                    IF @ = "waiting" THEN "acked" ELSE @]
  /\ calls' = [calls EXCEPT ![i] = Idle]
  /\ UNCHANGED <<records, visits, told, missed, faults>>

\* Mutant: a failed call is answered like a successful one.
AckFailure(i) ==
  /\ calls[i] # Idle /\ Fault
  /\ calls' = [calls EXCEPT ![i] = Idle]
  /\ messages' = [messages EXCEPT ![calls[i].message].state = "acked"]
  /\ UNCHANGED <<records, visits, told, missed>>

\* The database fails, the instance dies or the answer is lost.
Fail(i) ==
  /\ calls[i] # Idle /\ Fault
  /\ calls' = [calls EXCEPT ![i] = Idle]
  /\ missed' = IF calls[i].stage = "recorded" THEN missed \cup {calls[i].message}
               ELSE missed
  /\ UNCHANGED <<messages, records, visits, told>>

-----------------------------------------------------------------------------
\* resolve_dlq_event reads the record; the admin is answered with what the
\* session then holds, and db_session commits.
Open(a, m) ==
  /\ visits[a] = NoVisit /\ m \in DOMAIN records
  /\ visits' = [visits EXCEPT ![a] = [record |-> m, read |-> records[m].by]]
  /\ UNCHANGED <<messages, calls, records, told, missed, faults>>

\* Mutant: whether the record is resolved already is not looked at.
SaveAnyway(a) ==
  /\ visits[a] # NoVisit
  /\ records' = [records EXCEPT ![visits[a].record].by = a]
  /\ visits' = [visits EXCEPT ![a] = NoVisit]
  /\ UNCHANGED <<messages, calls, told, missed, faults>>

Save(a) ==
  /\ visits[a] # NoVisit
  /\ records' = IF visits[a].read # Nobody THEN records
                ELSE [records EXCEPT ![visits[a].record].by = a]
  /\ visits' = [visits EXCEPT ![a] = NoVisit]
  /\ UNCHANGED <<messages, calls, told, missed, faults>>

SaveFails(a) ==
  /\ visits[a] # NoVisit /\ Fault
  /\ visits' = [visits EXCEPT ![a] = NoVisit]
  /\ UNCHANGED <<messages, calls, records, told, missed>>

-----------------------------------------------------------------------------
Next ==
  \/ \E p \in Polls, m \in Ids : GiveUp(p, m)
  \/ \E i \in Instances, m \in Ids : Push(i, m)
  \/ \E m \in Ids, n \in Ids : Forward(m, n)
  \/ \E i \in Instances : Record(i) \/ Tell(i) \/ TellFails(i) \/ Ack(i) \/ Fail(i)
  \/ \E a \in Admins, m \in Ids : Open(a, m)
  \/ \E a \in Admins : Save(a) \/ SaveFails(a)

\* Pub/Sub pushes a message that waits again and forwards one that is out of
\* attempts; a call that is running goes on.
Fairness ==
  /\ \A m \in Ids : WF_vars(\E i \in Instances : Push(i, m))
  /\ \A m \in Ids : WF_vars(\E n \in Ids : Forward(m, n))
  /\ \A i \in Instances : WF_vars(Record(i) \/ Tell(i) \/ Ack(i))

Spec == Init /\ [][Next]_vars /\ Fairness

-----------------------------------------------------------------------------
\* Every part has its type, and a message is acknowledged only when it is
\* recorded.
TypeOK ==
  /\ \A m \in Ids : \/ messages[m] = Unused
                    \/ messages[m] \in [state: {"waiting", "forwarded", "acked"},
                                        poll: Polls, attempts: 0..MaxAttempts]
  /\ \A i \in Instances :
       \/ calls[i] = Idle
       \/ /\ calls[i] \in [stage: {"pushed", "recorded", "answered"}, message: Ids]
          /\ messages[calls[i].message] # Unused
          /\ calls[i].stage # "pushed" => calls[i].message \in DOMAIN records
  /\ DOMAIN records \subseteq Ids
  /\ \A m \in DOMAIN records : /\ records[m].by \in Admins \cup {Nobody}
                               /\ messages[m] # Unused
                               /\ records[m].poll = messages[m].poll
  /\ \A m \in Ids : messages[m].state = "acked" => m \in DOMAIN records
  /\ \A a \in Admins : visits[a] # NoVisit => visits[a].record \in DOMAIN records
  /\ faults \in 0..MaxFaults

\* A dead letter is announced at most once, and not before the record it asks
\* to triage is there, with every repeated or overlapping push.  A record
\* nobody was told of has a reason: the envelope cannot be decoded, the post
\* failed, or the call ended between the commit and the post, which no
\* repetition makes up for.
ToldOnceOrForAReason ==
  \A m \in Ids :
    /\ told[m] <= 1 /\ (told[m] = 1 => m \in DOMAIN records)
    /\ m \in DOMAIN records =>
         \/ told[m] = 1 \/ m \in missed
         \/ records[m].poll \in Undecodable
         \/ \E i \in Instances : Handling(i, m) /\ calls[i].stage = "recorded"

\* Another record of the same poll costs as many failures as there are
\* attempts; one less when the envelope cannot be decoded, because the call
\* that makes its record then ends in an error.
RepeatsCostFailures ==
  \A p \in Polls :
    LET repeats == Cardinality({m \in DOMAIN records : records[m].poll = p}) - 1
    IN  repeats * (MaxAttempts - IF p \in Undecodable THEN 1 ELSE 0) <= faults

\* What an admin resolved is not undone by a push that comes again, and who
\* resolved it changes only in favour of one whose request was under way then:
\* it had read the record unresolved.
Overlapping(a, m) ==
  visits[a] # NoVisit /\ visits[a].record = m /\ visits[a].read = Nobody
ResolutionStays ==
  [][\A m \in DOMAIN records :
       records[m].by # Nobody =>
         \/ records'[m].by = records[m].by
         \/ \E a \in Admins : Overlapping(a, m) /\ records'[m].by = a]_vars

\* A poll that is given up is recorded in the end, and stops coming back.
Settles ==
  \A p \in Polls :
    Given(p) ~> [](\E m \in DOMAIN records :
                     records[m].poll = p /\ messages[m].state = "acked")
=============================================================================
