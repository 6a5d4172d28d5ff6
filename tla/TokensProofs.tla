---------------------------- MODULE TokensProofs ----------------------------
(***************************************************************************)
(* The theorems of Tokens, for any number of users, tokens, requests and   *)
(* instants and any cap.                                                   *)
(***************************************************************************)
EXTENDS Tokens, FiniteSetTheorems, TLAPS

\* The records a request may be, by where it is.
Counted == [kind: {"create"}, stage: {"counted"}, token: Tokens, owner: Users]
Created == [kind: {"create"}, stage: {"answered"}, token: Tokens, owner: Users,
            expires: Expiries]
Revoking == [kind: {"revoke"}, stage: {"answered"}, token: Tokens]
Bearer == [kind: {"bearer"}, stage: {"presented", "selected", "accepted"},
           token: Tokens, late: BOOLEAN]

\* A request is one of the five, told apart by its stage and kind.
LEMMA RequestIs ==
  ASSUME NEW q \in Request
  PROVE  /\ q = Done \/ q \in Counted \/ q \in Created \/ q \in Revoking \/ q \in Bearer
         /\ q # Done => q.token \in Tokens /\ q.stage # "done"
         /\ q.stage = "counted" => q \in Counted
         /\ (q.stage = "answered" /\ q.kind = "create") => q \in Created
         /\ (q.stage = "answered" /\ q.kind = "revoke") => q \in Revoking
         /\ q.stage \in {"presented", "selected", "accepted"} => q \in Bearer
<1>1. q = Done \/ q \in Counted \/ q \in Created \/ q \in Revoking \/ q \in Bearer
  BY DEF Request, Counted, Created, Revoking, Bearer
<1>2. CASE q = Done
  BY <1>2 DEF Done
<1>3. CASE q \in Counted
  BY <1>3 DEF Counted, Done
<1>4. CASE q \in Created
  BY <1>4 DEF Created, Done
<1>5. CASE q \in Revoking
  BY <1>5 DEF Revoking, Done
<1>6. CASE q \in Bearer
  BY <1>6 DEF Bearer, Done
<1> QED BY <1>1, <1>2, <1>3, <1>4, <1>5, <1>6

-----------------------------------------------------------------------------
\* What is true of a request q while the rows are rs and it is instant at: the
\* token it is about to issue is in no row, the one it writes to is in one,
\* and a request that came too late is still to be turned away, for a reason
\* that lasts, or has been.
Issuing(q) == q \in Counted \cup Created
Sound(q, rs, at) ==
  /\ q \in Request
  /\ Issuing(q) => ~rs[q.token].exists
  /\ (q.stage = "selected" \/ q \in Revoking) => rs[q.token].exists
  /\ (q \in Bearer /\ q.late) =>
        /\ q.stage = "presented" /\ rs[q.token].exists
        /\ rs[q.token].revoked \/ (rs[q.token].expires # None /\ rs[q.token].expires < at)

\* No two requests are about to issue the same token.
Apart ==
  \A r, s \in Requests :
    (Issuing(requests[r]) /\ Issuing(requests[s])
       /\ requests[r].token = requests[s].token) => r = s

\* The inductive invariant.
IInv ==
  /\ rows \in [Tokens -> Row \cup {NoRow}]
  /\ requests \in [Requests -> Request]
  /\ now \in Instants /\ faults \in 0..MaxFaults
  /\ \A r \in Requests : Sound(requests[r], rows, now)
  /\ Apart

\* What is about to be issued belongs to a request for a creation.
LEMMA IssuingIs ==
  ASSUME NEW q \in Request
  PROVE  Issuing(q) <=> q # Done /\ q.kind = "create"
BY RequestIs DEF Issuing, Counted, Created, Revoking, Bearer, Done

\* The invariant implies the types.
LEMMA InvType == IInv => TypeOK
<1> SUFFICES ASSUME IInv PROVE TypeOK
  OBVIOUS
<1>1. \A r \in Requests :
        requests[r] \in Revoking <=>
          (requests[r].stage = "answered" /\ requests[r].kind = "revoke")
  BY RequestIs DEF Revoking, IInv
<1>2. \A r \in Requests :
        Issuing(requests[r]) <=> requests[r] # Done /\ requests[r].kind = "create"
  BY IssuingIs DEF IInv
<1> QED
  BY <1>1, <1>2 DEF IInv, TypeOK, Sound, Apart

\* What a step does to the row of a token: nothing, or it is inserted, used or
\* revoked.
Issued(t) == ~rows[t].exists /\ rows'[t] \in Row
Used(t) == rows[t] \in Row /\ rows'[t] = [rows[t] EXCEPT !.used = TRUE]
Withdrawn(t) == rows[t] \in Row /\ rows'[t] = [rows[t] EXCEPT !.revoked = TRUE]
RowStep(t) == rows'[t] = rows[t] \/ Issued(t) \/ Used(t) \/ Withdrawn(t)

\* A row that exists is complete.
LEMMA RowType ==
  ASSUME IInv, NEW t \in Tokens
  PROVE  /\ rows[t] \in Row \/ rows[t] = NoRow
         /\ rows[t].exists => rows[t] \in Row
BY DEF IInv, NoRow

\* Every step does one of these to the row of a token.
LEMMA RowSteps ==
  ASSUME IInv, [Next]_vars
  PROVE  \A t \in Tokens : RowStep(t)
<1> SUFFICES ASSUME NEW t \in Tokens, rows'[t] # rows[t]
             PROVE  Issued(t) \/ Used(t) \/ Withdrawn(t)
  BY DEF RowStep
<1>1. rows \in [Tokens -> Row \cup {NoRow}]
  BY DEF IInv
<1>2. ASSUME NEW r \in Requests, CommitCreate(r)
      PROVE  Issued(t)
  <2>1. requests[r] \in Created
    BY <1>2, RequestIs DEF CommitCreate, IInv
  <2>2. ~rows[requests[r].token].exists
    BY <2>1 DEF IInv, Sound, Issuing
  <2>3. [exists |-> TRUE, owner |-> requests[r].owner, revoked |-> FALSE,
         expires |-> requests[r].expires, used |-> FALSE] \in Row
    BY <2>1 DEF Created, Row
  <2> QED
    BY <1>1, <1>2, <2>2, <2>3 DEF CommitCreate, Issued
<1>3. ASSUME NEW r \in Requests, CommitRevoke(r)
      PROVE  Withdrawn(t)
  <2>1. rows[requests[r].token].exists
    BY <1>3, InvType DEF CommitRevoke, TypeOK
  <2> QED
    BY <1>1, <1>3, <2>1, RowType DEF CommitRevoke, Withdrawn
<1>4. ASSUME NEW r \in Requests, Accept(r)
      PROVE  Used(t)
  <2>1. rows[requests[r].token].exists
    BY <1>4, InvType DEF Accept, TypeOK
  <2> QED
    BY <1>1, <1>4, <2>1, RowType DEF Accept, Stamp, Used
<1> QED
  BY <1>2, <1>3, <1>4 DEF Next, vars, Tick, Create, AnswerCreate, Revoke,
     Present, Select, Answer, Fail

\* Consequences of it: rows stay, with their owner and expiry, and revoked.
LEMMA RowsLast ==
  ASSUME IInv, [Next]_vars, NEW t \in Tokens
  PROVE  /\ rows'[t] \in Row \cup {NoRow}
         /\ rows[t].exists => /\ rows'[t].exists
                              /\ rows'[t].owner = rows[t].owner
                              /\ rows'[t].expires = rows[t].expires
                              /\ rows[t].revoked => rows'[t].revoked
<1>1. RowStep(t) /\ rows[t] \in Row \cup {NoRow}
  BY RowSteps, RowType
<1> QED
  BY <1>1 DEF RowStep, Issued, Used, Withdrawn, Row, NoRow

-----------------------------------------------------------------------------
\* The invariant holds at first.
LEMMA InitInv == Init => IInv
<1> SUFFICES ASSUME Init PROVE IInv
  OBVIOUS
<1>1. \A r \in Requests : Sound(requests[r], rows, now) /\ ~Issuing(requests[r])
  BY DEF Init, Sound, Request, Issuing, Counted, Created, Revoking, Bearer, Done
<1>2. rows \in [Tokens -> Row \cup {NoRow}] /\ requests \in [Requests -> Request]
  BY DEF Init, Request
<1>3. now \in Instants /\ faults \in 0..MaxFaults
  BY TokensAssumption DEF Init, Instants
<1> QED
  BY <1>1, <1>2, <1>3 DEF Apart, IInv

\* Only the commit of a creation inserts a row.
LEMMA WhoIssues ==
  ASSUME IInv, [Next]_vars, NEW t \in Tokens, ~rows[t].exists, rows'[t] # rows[t]
  PROVE  \E r \in Requests : CommitCreate(r) /\ requests[r].token = t
<1>1. rows \in [Tokens -> Row \cup {NoRow}]
  BY DEF IInv
<1>2. ASSUME NEW r \in Requests, CommitCreate(r)
      PROVE  requests[r].token = t
  BY <1>1, <1>2 DEF CommitCreate
<1>3. ASSUME NEW r \in Requests, CommitRevoke(r)
      PROVE  FALSE
  BY <1>1, <1>3, InvType DEF CommitRevoke, TypeOK
<1>4. ASSUME NEW r \in Requests, Accept(r)
      PROVE  FALSE
  BY <1>1, <1>4, InvType DEF Accept, TypeOK
<1> QED
  BY <1>2, <1>3, <1>4 DEF Next, vars, Tick, Create, AnswerCreate, Revoke,
     Present, Select, Answer, Fail

\* The clock does not go back, and failures are counted.
LEMMA ClockRuns ==
  ASSUME IInv, [Next]_vars
  PROVE  /\ now \in Nat /\ now' \in Instants /\ now <= now'
         /\ faults' \in 0..MaxFaults
<1>1. /\ now \in Instants /\ now \in Nat /\ LastInstant \in Nat
      /\ faults \in 0..MaxFaults /\ MaxFaults \in Nat
  BY TokensAssumption DEF IInv, Instants
<1>2. CASE Tick
  BY <1>1, <1>2 DEF Tick, Instants
<1>3. CASE \E r \in Requests : Fail(r)
  BY <1>1, <1>3 DEF Fail, Fault
<1>4. CASE UNCHANGED <<now, faults>>
  BY <1>1, <1>4
<1> QED
  BY <1>2, <1>3, <1>4 DEF Next, vars, Create, AnswerCreate, CommitCreate, Revoke,
     CommitRevoke, Present, Select, Accept, Answer

\* A request that a step leaves as it is stays sound, whatever the step does
\* to the rows.
LEMMA SoundStays ==
  ASSUME IInv, [Next]_vars, NEW r \in Requests, requests'[r] = requests[r]
  PROVE  Sound(requests'[r], rows', now')
<1> DEFINE q == requests[r]
           t == q.token
<1>1. q \in Request /\ Sound(q, rows, now)
  BY DEF IInv
<1>2. CASE q = Done
  BY <1>1, <1>2 DEF Sound, Issuing, Done, Counted, Created, Revoking, Bearer
<1>3. CASE q # Done
  <2>1. t \in Tokens
    BY <1>1, <1>3, RequestIs
  <2>2. /\ rows'[t] \in Row \cup {NoRow}
        /\ rows[t].exists => /\ rows'[t].exists
                             /\ rows'[t].owner = rows[t].owner
                             /\ rows'[t].expires = rows[t].expires
                             /\ rows[t].revoked => rows'[t].revoked
    BY <2>1, RowsLast
  <2>3. ASSUME q \in Counted \cup Created
        PROVE  ~rows'[t].exists
    <3>1. ~rows[t].exists
      BY <1>1, <2>3 DEF Sound, Issuing
    <3>2. ASSUME NEW s \in Requests, CommitCreate(s), requests[s].token = t
          PROVE  FALSE
      <4>1. requests[s] \in Created
        BY <3>2, RequestIs DEF CommitCreate, IInv
      <4>2. s = r
        BY <2>3, <3>2, <4>1 DEF Apart, Issuing, IInv
      <4>3. requests'[r] = Done
        BY <3>2, <4>2 DEF CommitCreate, IInv
      <4> QED
        BY <1>3, <4>3
    <3> QED
      BY <2>1, <3>1, <3>2, WhoIssues
  <2>4. ASSUME rows[t].exists, rows[t].expires # None, rows[t].expires < now
        PROVE  rows'[t].expires # None /\ rows'[t].expires < now'
    <3>1. rows[t].expires \in Nat
      BY <2>1, <2>4, TokensAssumption, RowType DEF Row
    <3> QED
      BY <2>2, <2>4, <3>1, ClockRuns DEF Instants
  <2> QED
    BY <1>1, <2>2, <2>3, <2>4 DEF Sound, Issuing
<1> QED
  BY <1>2, <1>3

-----------------------------------------------------------------------------
\* The request a step takes further: r becomes q.
Becomes(r, q) == requests' = [requests EXCEPT ![r] = q]

\* It is enough that the one request is sound afterwards, and takes no token
\* another one issues.
LEMMA OneRequest ==
  ASSUME IInv, [Next]_vars, NEW r \in Requests, NEW q \in Request, Becomes(r, q),
         Sound(q, rows', now'),
         \/ ~Issuing(q)
         \/ Issuing(requests[r]) /\ q.token = requests[r].token
         \/ \A s \in Requests \ {r} : Issuing(requests[s]) => requests[s].token # q.token
  PROVE  IInv'
<1>1. requests \in [Requests -> Request] /\ Apart
  BY DEF IInv
<1>2. requests' \in [Requests -> Request]
  BY <1>1 DEF Becomes
<1>3. rows' \in [Tokens -> Row \cup {NoRow}]
  <2>1. \A t \in Tokens : rows'[t] \in Row \cup {NoRow}
    BY RowsLast
  <2>2. rows = [t \in Tokens |-> rows[t]]
    BY DEF IInv
  <2>3. CASE UNCHANGED rows
    BY <2>1, <2>2, <2>3
  <2>4. ASSUME NEW s \in Requests, CommitCreate(s) \/ CommitRevoke(s) \/ Accept(s)
        PROVE  rows' = [t \in Tokens |-> rows'[t]]
    BY <2>2, <2>4 DEF CommitCreate, CommitRevoke, Accept
  <2> QED
    BY <2>1, <2>3, <2>4 DEF Next, vars, Tick, Create, AnswerCreate, Revoke,
       Present, Select, Answer, Fail
<1>4. \A s \in Requests : Sound(requests'[s], rows', now')
  <2> TAKE s \in Requests
  <2>1. CASE s = r
    BY <1>1, <2>1 DEF Becomes
  <2>2. CASE s # r
    <3>1. requests'[s] = requests[s]
      BY <1>1, <2>2 DEF Becomes
    <3> QED
      BY <3>1, SoundStays
  <2> QED
    BY <2>1, <2>2
<1>5. Apart'
  BY <1>1 DEF Apart, Becomes, Issuing
<1> QED
  BY <1>2, <1>3, <1>4, <1>5, ClockRuns DEF IInv

\* A request that is done is sound whatever the rows are.
LEMMA DoneIsSound ==
  ASSUME NEW rs, NEW at
  PROVE  Done \in Request /\ ~Issuing(Done) /\ Sound(Done, rs, at)
BY DEF Sound, Request, Issuing, Counted, Created, Revoking, Bearer, Done

\* One step that ends the request, without a word about the rows.
LEMMA Ends ==
  ASSUME IInv, [Next]_vars, NEW r \in Requests, Becomes(r, Done)
  PROVE  IInv'
BY DoneIsSound, OneRequest

\* Every action keeps the invariant.
LEMMA Steps ==
  ASSUME IInv, [Next]_vars
  PROVE  IInv'
<1>1. ASSUME NEW r \in Requests,
             CommitCreate(r) \/ CommitRevoke(r) \/ Answer(r) \/ Fail(r)
      PROVE  IInv'
  BY <1>1, Ends DEF Becomes, CommitCreate, CommitRevoke, Answer, Fail
<1>2. ASSUME NEW r \in Requests, NEW t \in Tokens, NEW user \in Users, Create(r, user, t)
      PROVE  IInv'
  <2> DEFINE q == [kind |-> "create", stage |-> "counted", token |-> t, owner |-> user]
  <2>1. q \in Request /\ q \in Counted
    BY DEF Request, Counted
  <2>2. ~rows'[t].exists
    BY <1>2 DEF Create, Free
  <2>3. Sound(q, rows', now')
    BY <2>1, <2>2 DEF Sound, Revoking, Bearer
  <2>4. \A s \in Requests \ {r} : Issuing(requests[s]) => requests[s].token # t
    BY <1>2 DEF Create, Free, Issuing, Counted, Created, Done
  <2>5. Becomes(r, q)
    BY <1>2 DEF Create, Becomes
  <2> QED
    BY <2>1, <2>3, <2>4, <2>5, OneRequest
<1>3. ASSUME NEW r \in Requests, NEW expires \in Expiries, AnswerCreate(r, expires)
      PROVE  IInv'
  <2> DEFINE p == requests[r]
             q == [kind |-> "create", stage |-> "answered", token |-> p.token,
                   owner |-> p.owner, expires |-> expires]
  <2>1. p \in Counted /\ Sound(p, rows, now)
    BY <1>3, RequestIs DEF AnswerCreate, IInv
  <2>2. q \in Request /\ q \in Created
    BY <2>1 DEF Request, Counted, Created
  <2>3. ~rows'[q.token].exists
    BY <1>3, <2>1 DEF AnswerCreate, Sound, Issuing
  <2>4. Sound(q, rows', now')
    BY <2>2, <2>3 DEF Sound, Revoking, Bearer
  <2>5. Becomes(r, q)
    BY <1>3 DEF AnswerCreate, Becomes
  <2> QED
    BY <2>1, <2>2, <2>4, <2>5, OneRequest DEF Issuing
<1>4. ASSUME NEW r \in Requests, NEW t \in Tokens, Revoke(r, t)
      PROVE  IInv'
  <2> DEFINE q == [kind |-> "revoke", stage |-> "answered", token |-> t]
  <2>1. q \in Request /\ q \in Revoking /\ ~Issuing(q)
    BY DEF Request, Revoking, Issuing, Counted, Created
  <2>2. Sound(q, rows', now')
    BY <1>4, <2>1 DEF Revoke, Live, Sound, Bearer
  <2>3. Becomes(r, q)
    BY <1>4 DEF Revoke, Becomes
  <2> QED
    BY <2>1, <2>2, <2>3, OneRequest
<1>5. ASSUME NEW r \in Requests, NEW t \in Tokens, Present(r, t)
      PROVE  IInv'
  <2> DEFINE late == rows[t].exists /\ (rows[t].revoked \/ Expired(t, now))
             q == [kind |-> "bearer", stage |-> "presented", token |-> t, late |-> late]
  <2>1. late \in BOOLEAN
    BY DEF Expired
  <2>2. q \in Request /\ q \in Bearer /\ ~Issuing(q) /\ q \notin Revoking
    BY <2>1 DEF Request, Bearer, Issuing, Counted, Created, Revoking
  <2>3. Sound(q, rows', now')
    BY <1>5, <2>2 DEF Present, Expired, Sound
  <2>4. Becomes(r, q)
    BY <1>5 DEF Present, Becomes
  <2> QED
    BY <2>2, <2>3, <2>4, OneRequest
<1>6. ASSUME NEW r \in Requests, Select(r)
      PROVE  IInv'
  <2> DEFINE p == requests[r]
             q == [p EXCEPT !.stage = "selected"]
  <2>1. p \in Bearer /\ Sound(p, rows, now)
    BY <1>6, RequestIs DEF Select, IInv
  <2>2. CASE ~(Live(p.token) /\ ~Expired(p.token, now))
    BY <1>6, <2>2, Ends DEF Select, Becomes
  <2>3. CASE Live(p.token) /\ ~Expired(p.token, now)
    <3>1. q \in Request /\ q \in Bearer /\ ~Issuing(q) /\ q \notin Revoking
      BY <2>1 DEF Request, Bearer, Issuing, Counted, Created, Revoking
    <3>2. ~p.late
      BY <2>1, <2>3 DEF Sound, Live, Expired
    <3>3. q.token = p.token /\ ~q.late /\ UNCHANGED <<rows, now>>
      BY <1>6, <2>1, <3>2 DEF Bearer, Select
    <3>4. Sound(q, rows', now')
      BY <2>3, <3>1, <3>3 DEF Sound, Live
    <3>5. Becomes(r, q)
      BY <1>6, <2>3 DEF Select, Becomes
    <3> QED
      BY <3>1, <3>4, <3>5, OneRequest
  <2> QED
    BY <2>2, <2>3
<1>7. ASSUME NEW r \in Requests, Accept(r)
      PROVE  IInv'
  <2> DEFINE p == requests[r]
             q == [p EXCEPT !.stage = "accepted"]
  <2>1. p \in Bearer /\ Sound(p, rows, now) /\ p.stage = "selected"
    BY <1>7, RequestIs DEF Accept, IInv
  <2>2. /\ q \in Request /\ q \in Bearer /\ ~Issuing(q) /\ q \notin Revoking
        /\ ~q.late /\ q.stage = "accepted"
    BY <2>1 DEF Sound, Request, Bearer, Issuing, Counted, Created, Revoking
  <2>3. Sound(q, rows', now')
    BY <2>2 DEF Sound
  <2>4. Becomes(r, q)
    BY <1>7 DEF Accept, Becomes
  <2> QED
    BY <2>2, <2>3, <2>4, OneRequest
<1>8. CASE Tick \/ UNCHANGED vars
  <2>1. UNCHANGED <<rows, requests>>
    BY <1>8 DEF Tick, vars
  <2>2. \A r \in Requests : Sound(requests'[r], rows', now')
    BY <2>1, SoundStays
  <2> QED
    BY <2>1, <2>2, ClockRuns DEF IInv, Apart
<1> QED
  BY <1>1, <1>2, <1>3, <1>4, <1>5, <1>6, <1>7, <1>8 DEF Next

\* The invariant holds in every behaviour.
LEMMA Invariance == Spec => []IInv
<1>1. IInv /\ [Next]_vars => IInv'
  BY Steps
<1> QED
  BY InitInv, <1>1, PTL DEF Spec

-----------------------------------------------------------------------------
\* Rows and requests keep their types, however many requests overlap, and no
\* two requests are told the same token.
THEOREM TypeCorrect == Spec => []TypeOK
BY Invariance, InvType, PTL

\* A committed revocation is never undone, also not by a verification that
\* read the row before it and writes to it afterwards.
THEOREM RevocationLasts == Spec => RevocationIsFinal
<1>1. ASSUME IInv, [Next]_vars
      PROVE  [\A t \in Tokens : Revoked(t) => Revoked(t)']_vars
  BY <1>1, RowsLast DEF Revoked
<1>2. IInv /\ [Next]_vars => [\A t \in Tokens : Revoked(t) => Revoked(t)']_vars
  BY <1>1
<1> QED
  BY Invariance, <1>2, PTL DEF Spec, RevocationIsFinal

\* What was revoked or had expired when a request came is not let in.
THEOREM NothingLateEnters == Spec => []AcceptedWasValid
<1>1. IInv => AcceptedWasValid
  BY RequestIs DEF IInv, Sound, AcceptedWasValid
<1> QED
  BY Invariance, <1>1, PTL

-----------------------------------------------------------------------------
\* The requests that are about to issue a token to a user.  Every one of them
\* was counted against MaxActive without the others, so that tokens and
\* creations under way are bounded together.
Pending(user) == {r \in Requests : Issuing(requests[r]) /\ requests[r].owner = user}
Bounded(user) ==
  Cardinality(Active(user)) + Cardinality(Pending(user))
    <= MaxActive - 1 + Cardinality(Requests)

\* The sets counted are finite, and their sizes numbers.
LEMMA Finite ==
  ASSUME NEW user
  PROVE  /\ IsFiniteSet(Active(user)) /\ Cardinality(Active(user)) \in Nat
         /\ IsFiniteSet(Pending(user)) /\ Cardinality(Pending(user)) \in Nat
         /\ Cardinality(Requests) \in Nat
         /\ Cardinality(Pending(user)) <= Cardinality(Requests)
<1>1. Active(user) \in SUBSET Tokens /\ Pending(user) \in SUBSET Requests
  BY DEF Active, Pending
<1>2. IsFiniteSet(Tokens) /\ IsFiniteSet(Requests)
  BY TokensAssumption
<1> QED
  BY <1>1, <1>2, FS_Subset, FS_CardinalityType

\* The same of the sets a step leads to.
LEMMA FiniteAfter ==
  ASSUME NEW user
  PROVE  /\ IsFiniteSet(Active(user)') /\ Cardinality(Active(user)') \in Nat
         /\ IsFiniteSet(Pending(user)') /\ Cardinality(Pending(user)') \in Nat
         /\ Cardinality(Pending(user)') <= Cardinality(Requests)
<1>1. Active(user)' \in SUBSET Tokens /\ Pending(user)' \in SUBSET Requests
  BY DEF Active, Pending
<1>2. IsFiniteSet(Tokens) /\ IsFiniteSet(Requests)
  BY TokensAssumption
<1> QED
  BY <1>1, <1>2, FS_Subset, FS_CardinalityType

\* At first there is nothing to count.
LEMMA BoundInit == ASSUME Init, NEW user PROVE Bounded(user)
<1>1. Active(user) = {} /\ Pending(user) = {}
  BY DoneIsSound DEF Init, Active, Live, NoRow, Pending
<1> QED
  BY <1>1, Finite, FS_EmptySet, TokensAssumption DEF Bounded

\* Only a commit adds to the live tokens, and takes its request off.
LEMMA ActiveAfter ==
  ASSUME IInv, [Next]_vars, NEW user
  PROVE  \/ Active(user)' \subseteq Active(user)
         \/ \E r \in Pending(user) :
              /\ CommitCreate(r)
              /\ Active(user)' = Active(user) \cup {requests[r].token}
<1>1. CASE \E r \in Requests : CommitCreate(r)
  <2>1. PICK r \in Requests : CommitCreate(r)
    BY <1>1
  <2>2. requests[r] \in Created /\ ~rows[requests[r].token].exists
    BY <2>1, RequestIs DEF CommitCreate, IInv, Sound, Issuing
  <2>3. requests[r].token \in Tokens
    BY <2>2 DEF Created
  <2>4. \A t \in Tokens : t # requests[r].token => rows'[t] = rows[t]
    BY <2>1 DEF CommitCreate, IInv
  <2>5. /\ rows'[requests[r].token].exists /\ ~rows'[requests[r].token].revoked
        /\ rows'[requests[r].token].owner = requests[r].owner
    BY <2>1, <2>3 DEF CommitCreate, IInv
  <2>6. CASE requests[r].owner = user
    <3>1. r \in Pending(user)
      BY <2>2, <2>6 DEF Pending, Issuing
    <3>2. Active(user)' = Active(user) \cup {requests[r].token}
      BY <2>2, <2>3, <2>4, <2>5, <2>6 DEF Active, Live
    <3> QED
      BY <2>1, <3>1, <3>2
  <2>7. CASE requests[r].owner # user
    BY <2>2, <2>4, <2>5, <2>7 DEF Active, Live
  <2> QED
    BY <2>6, <2>7
<1>2. CASE ~\E r \in Requests : CommitCreate(r)
  <2>1. ASSUME NEW t \in Active(user)'
        PROVE  t \in Active(user)
    <3>1. t \in Tokens /\ rows'[t].exists /\ ~rows'[t].revoked /\ rows'[t].owner = user
      BY <2>1 DEF Active, Live
    <3>2. rows[t].exists
      BY <1>2, <3>1, WhoIssues
    <3> QED
      BY <3>1, <3>2, RowsLast, RowType DEF Active, Live, Row
  <2> QED
    BY <2>1
<1> QED
  BY <1>1, <1>2

\* A request that ends up pending was so before, or is counted now.
LEMMA PendingAfter ==
  ASSUME IInv, [Next]_vars, NEW user
  PROVE  \/ Pending(user)' \subseteq Pending(user)
         \/ /\ UNCHANGED rows
            /\ Cardinality(Active(user)) < MaxActive
<1>1. requests \in [Requests -> Request]
  BY DEF IInv
<1>2. ASSUME NEW r \in Requests, NEW q, Becomes(r, q),
             Issuing(q) => r \in Pending(q.owner)
      PROVE  Pending(user)' \subseteq Pending(user)
  BY <1>1, <1>2 DEF Pending, Becomes
<1>3. ASSUME NEW r \in Requests, NEW q, Becomes(r, q), ~Issuing(q)
      PROVE  Pending(user)' \subseteq Pending(user)
  BY <1>2, <1>3
<1>4. ASSUME NEW r \in Requests,
             CommitCreate(r) \/ CommitRevoke(r) \/ Answer(r) \/ Fail(r)
      PROVE  Pending(user)' \subseteq Pending(user)
  BY <1>3, <1>4, DoneIsSound DEF Becomes, CommitCreate, CommitRevoke, Answer, Fail
<1>5. ASSUME NEW r \in Requests, NEW t \in Tokens, NEW owner \in Users, Create(r, owner, t)
      PROVE  \/ Pending(user)' \subseteq Pending(user)
             \/ UNCHANGED rows /\ Cardinality(Active(user)) < MaxActive
  <2>1. CASE owner = user
    BY <1>5, <2>1 DEF Create
  <2>2. CASE owner # user
    BY <1>1, <1>5, <2>2 DEF Create, Pending
  <2> QED
    BY <2>1, <2>2
<1>6. ASSUME NEW r \in Requests, NEW expires \in Expiries, AnswerCreate(r, expires)
      PROVE  Pending(user)' \subseteq Pending(user)
  <2> DEFINE p == requests[r]
             q == [kind |-> "create", stage |-> "answered", token |-> p.token,
                   owner |-> p.owner, expires |-> expires]
  <2>1. p \in Counted
    BY <1>1, <1>6, RequestIs DEF AnswerCreate
  <2>2. r \in Pending(q.owner)
    BY <2>1 DEF Pending, Issuing
  <2>3. Becomes(r, q)
    BY <1>6 DEF AnswerCreate, Becomes
  <2> QED
    BY <1>2, <2>2, <2>3
<1>7. ASSUME NEW r \in Requests, NEW t \in Tokens, Revoke(r, t) \/ Present(r, t)
      PROVE  Pending(user)' \subseteq Pending(user)
  BY <1>1, <1>7 DEF Revoke, Present, Pending, Issuing, Counted, Created
<1>8. ASSUME NEW r \in Requests, Select(r) \/ Accept(r)
      PROVE  Pending(user)' \subseteq Pending(user)
  <2>1. requests[r] \in Bearer
    BY <1>1, <1>8, RequestIs DEF Select, Accept
  <2>2. PICK q : Becomes(r, q) /\ (q = Done \/ q \in Bearer)
    <3>1. \A x \in {"selected", "accepted"} : [requests[r] EXCEPT !.stage = x] \in Bearer
      BY <2>1 DEF Bearer
    <3> QED
      BY <1>8, <3>1 DEF Select, Accept, Becomes
  <2>3. ~Issuing(q)
    BY <2>2, DoneIsSound DEF Issuing, Counted, Created, Bearer
  <2> QED
    BY <1>3, <2>2, <2>3
<1>9. CASE Tick \/ UNCHANGED vars
  BY <1>9 DEF Tick, vars, Pending
<1> QED
  BY <1>4, <1>5, <1>6, <1>7, <1>8, <1>9 DEF Next

\* Every step keeps the bound: it adds nothing, moves a request's token to
\* the rows, or was counted while there was room.
LEMMA BoundStep ==
  ASSUME IInv, [Next]_vars, NEW user, Bounded(user)
  PROVE  Bounded(user)'
<1> DEFINE a == Cardinality(Active(user))
           b == Cardinality(Pending(user))
           c == Cardinality(Active(user)')
           d == Cardinality(Pending(user)')
           n == Cardinality(Requests)
<1>1. a \in Nat /\ b \in Nat /\ n \in Nat /\ MaxActive \in Nat
      /\ a + b <= MaxActive - 1 + n
  BY Finite, TokensAssumption DEF Bounded
<1>2. c \in Nat /\ d \in Nat /\ d <= n
  BY FiniteAfter
<1>3. \/ c <= a /\ d <= b
      \/ c <= a + 1 /\ d <= b - 1
      \/ c <= a /\ a < MaxActive
  <2>1. ASSUME NEW r \in Pending(user), CommitCreate(r),
               Active(user)' = Active(user) \cup {requests[r].token}
        PROVE  c <= a + 1 /\ d <= b - 1
    <3>1. c <= a + 1
      <4> DEFINE t == requests[r].token
      <4>1. IsFiniteSet(Active(user)) /\ a \in Nat
        BY Finite
      <4>2. Cardinality(Active(user) \cup {t}) = IF t \in Active(user) THEN a ELSE a + 1
        BY <4>1, FS_AddElement
      <4>3. c = Cardinality(Active(user) \cup {t})
        BY <2>1
      <4> HIDE DEF a, c
      <4> QED
        BY <4>1, <4>2, <4>3
    <3>2. Pending(user)' \subseteq Pending(user) \ {r}
      BY <2>1, DoneIsSound DEF CommitCreate, Pending, IInv
    <3>3. IsFiniteSet(Pending(user) \ {r}) /\ Cardinality(Pending(user) \ {r}) = b - 1
      BY <2>1, Finite, FS_RemoveElement
    <3>4. d <= b - 1
      BY <3>2, <3>3, FS_Subset
    <3> QED
      BY <3>1, <3>4
  <2>2. CASE Active(user)' \subseteq Active(user)
    <3>1. c <= a
      BY <2>2, Finite, FS_Subset
    <3>2. CASE Pending(user)' \subseteq Pending(user)
      <4>1. d <= b
        BY <3>2, Finite, FS_Subset
      <4> QED
        BY <3>1, <4>1
    <3> QED
      BY <3>1, <3>2, PendingAfter
  <2> QED
    BY <2>1, <2>2, ActiveAfter
<1> HIDE DEF a, b, c, d, n
<1>4. c + d <= MaxActive - 1 + n
  BY <1>1, <1>2, <1>3
<1> QED
  BY <1>4 DEF Bounded, c, d, n

\* A user's live tokens exceed the cap by less than there are requests at the
\* same time, for any history of creations, revocations and failures: the
\* count and the insert of create_token are not one step, but the excess does
\* not add up.
THEOREM CapHolds == Spec => []CapIsNearlyKept
<1> DEFINE Inv == IInv /\ \A user \in Users : Bounded(user)
<1>1. Init => Inv
  BY InitInv, BoundInit
<1>2. Inv /\ [Next]_vars => Inv'
  <2> SUFFICES ASSUME Inv, [Next]_vars PROVE Inv'
    OBVIOUS
  <2>1. IInv'
    BY Steps
  <2>2. ASSUME NEW user \in Users
        PROVE  Bounded(user)'
    BY <2>2, BoundStep
  <2> QED
    BY <2>1, <2>2
<1>3. Inv => CapIsNearlyKept
  <2> SUFFICES ASSUME Inv, NEW user \in Users
               PROVE  Cardinality(Active(user)) <= MaxActive - 1 + Cardinality(Requests)
    BY DEF CapIsNearlyKept, Active
  <2>1. Bounded(user)
    OBVIOUS
  <2> QED
    BY <2>1, Finite, TokensAssumption DEF Bounded
<1> QED
  BY <1>1, <1>2, <1>3, PTL DEF Spec
=============================================================================
