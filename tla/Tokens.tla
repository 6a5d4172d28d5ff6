------------------------------- MODULE Tokens -------------------------------
(***************************************************************************)
(* Personal API tokens: browser sessions create and revoke them, bearer    *)
(* requests are verified against them, each request in a database session  *)
(* of its own.                                                             *)
(*                                                                         *)
(* A route's session is committed by the dependency it comes from, which   *)
(* FastAPI leaves when the response has been sent: what a caller was told  *)
(* is committed afterwards, or lost.  The verifier of bearer tokens has    *)
(* its own session and commits before the route runs.                      *)
(***************************************************************************)
EXTENDS Integers, FiniteSets

CONSTANTS
  Users, Tokens,
  Requests,      \* bound: the requests that are served at the same time
  None,
  MaxActive,     \* MAX_ACTIVE_TOKENS_PER_USER
  LastInstant,   \* bound: the clock
  Expiries,      \* the expiry a user may ask for: an instant, None for none
  MaxFaults      \* bound: commits and connections that fail

ASSUME TokensAssumption ==
  /\ IsFiniteSet(Tokens) /\ IsFiniteSet(Requests)
  /\ MaxActive \in Nat \ {0} /\ LastInstant \in Nat /\ MaxFaults \in Nat
  /\ None \notin Nat /\ Expiries \subseteq Nat \cup {None}

VARIABLES
  rows,          \* api_tokens
  requests,      \* requests[r]: what request r has read and been told
  now,
  faults

vars == <<rows, requests, now, faults>>

Instants == 0..LastInstant
NoRow == [exists |-> FALSE]
Done == [stage |-> "done"]

Init ==
  /\ rows = [t \in Tokens |-> NoRow]
  /\ requests = [r \in Requests |-> Done]
  /\ now = 0 /\ faults = 0

Fault == faults < MaxFaults /\ faults' = faults + 1

Live(t) == rows[t].exists /\ ~rows[t].revoked
Revoked(t) == rows[t].exists /\ rows[t].revoked
Expired(t, instant) == rows[t].expires # None /\ rows[t].expires < instant

Tick ==
  /\ now < LastInstant /\ now' = now + 1
  /\ UNCHANGED <<rows, requests, faults>>

-----------------------------------------------------------------------------
\* Mutant: what has expired does not count.
ActiveUnexpired(user) ==
  {t \in Tokens : Live(t) /\ rows[t].owner = user /\ ~Expired(t, now)}

\* _active_count: what has expired counts until it is revoked.
Active(user) == {t \in Tokens : Live(t) /\ rows[t].owner = user}

\* Mutant: what another request was told is not looked at.
Unstored == {t \in Tokens : ~rows[t].exists}

\* What generate_token may return; which of them does not matter.
Free ==
  {t \in Tokens : ~rows[t].exists /\ \A r \in Requests :
                    requests[r] # Done => requests[r].token # t}

\* create_token: the count, in the session's first statement, lets it pass.
Create(r, user, t) ==
  /\ requests[r] = Done
  /\ Cardinality(Active(user)) < MaxActive
  /\ t \in Free /\ t = CHOOSE u \in Free : TRUE
  /\ requests' = [requests EXCEPT ![r] =
                    [kind |-> "create", stage |-> "counted", token |-> t, owner |-> user]]
  /\ UNCHANGED <<rows, now, faults>>

\* The row is flushed and its owner told the token.  An explicit expiry may be
\* any instant, a past one too.
AnswerCreate(r, expires) ==
  /\ requests[r].stage = "counted"
  /\ requests' = [requests EXCEPT ![r] =
                    [kind |-> "create", stage |-> "answered", token |-> @.token,
                     owner |-> @.owner, expires |-> expires]]
  /\ UNCHANGED <<rows, now, faults>>

CommitCreate(r) ==
  /\ requests[r].stage = "answered" /\ requests[r].kind = "create"
  /\ rows' = [rows EXCEPT ![requests[r].token] =
                [exists |-> TRUE, owner |-> requests[r].owner, revoked |-> FALSE,
                 expires |-> requests[r].expires, used |-> FALSE]]
  /\ requests' = [requests EXCEPT ![r] = Done]
  /\ UNCHANGED <<now, faults>>

-----------------------------------------------------------------------------
\* revoke_token finds a token of the user that is not revoked, and says so.
Revoke(r, t) ==
  /\ requests[r] = Done /\ Live(t)
  /\ requests' = [requests EXCEPT ![r] =
                    [kind |-> "revoke", stage |-> "answered", token |-> t]]
  /\ UNCHANGED <<rows, now, faults>>

CommitRevoke(r) ==
  /\ requests[r].stage = "answered" /\ requests[r].kind = "revoke"
  /\ rows' = [rows EXCEPT ![requests[r].token].revoked = TRUE]
  /\ requests' = [requests EXCEPT ![r] = Done]
  /\ UNCHANGED <<now, faults>>

-----------------------------------------------------------------------------
\* A bearer request comes in; late is history: its token is revoked or
\* has expired already.
Present(r, t) ==
  /\ requests[r] = Done
  /\ requests' = [requests EXCEPT ![r] =
                    [kind |-> "bearer", stage |-> "presented", token |-> t,
                     late |-> rows[t].exists /\ (rows[t].revoked \/ Expired(t, now))]]
  /\ UNCHANGED <<rows, now, faults>>

\* Mutant: revoked_at is not looked at.
SelectRevoked(r) ==
  /\ requests[r].stage = "presented"
  /\ requests' = [requests EXCEPT ![r] =
       IF rows[@.token].exists /\ ~Expired(@.token, now)
       THEN [@ EXCEPT !.stage = "selected"] ELSE Done]
  /\ UNCHANGED <<rows, now, faults>>

\* _BearerVerifier.verify selects the row and refuses what is not there, is
\* revoked or has expired.
Select(r) ==
  /\ requests[r].stage = "presented"
  /\ requests' = [requests EXCEPT ![r] =
       IF Live(@.token) /\ ~Expired(@.token, now)
       THEN [@ EXCEPT !.stage = "selected"] ELSE Done]
  /\ UNCHANGED <<rows, now, faults>>

\* Mutant: the row is written as it was read: not revoked.
WholeRow(row) == [row EXCEPT !.used = TRUE, !.revoked = FALSE]

\* Only last_used_at differs from what was read: the others are not written.
Stamp(row) == [row EXCEPT !.used = TRUE]

\* The use is written and committed, and the route runs.
Accept(r) ==
  /\ requests[r].stage = "selected"
  /\ rows' = [rows EXCEPT ![requests[r].token] = Stamp(@)]
  /\ requests' = [requests EXCEPT ![r].stage = "accepted"]
  /\ UNCHANGED <<now, faults>>

Answer(r) ==
  /\ requests[r].stage = "accepted"
  /\ requests' = [requests EXCEPT ![r] = Done]
  /\ UNCHANGED <<rows, now, faults>>

\* The instance or its connection dies.
Fail(r) ==
  /\ requests[r] # Done /\ Fault
  /\ requests' = [requests EXCEPT ![r] = Done]
  /\ UNCHANGED <<rows, now>>

-----------------------------------------------------------------------------
Next ==
  \/ Tick
  \/ \E r \in Requests, t \in Tokens :
       (\E user \in Users : Create(r, user, t)) \/ Revoke(r, t) \/ Present(r, t)
  \/ \E r \in Requests, expires \in Expiries : AnswerCreate(r, expires)
  \/ \E r \in Requests :
       CommitCreate(r) \/ CommitRevoke(r) \/ Select(r) \/ Accept(r) \/ Answer(r) \/ Fail(r)

Spec == Init /\ [][Next]_vars

-----------------------------------------------------------------------------
Row == [exists: {TRUE}, owner: Users, revoked: BOOLEAN,
        expires: Expiries, used: BOOLEAN]
Request ==
  {Done}
  \cup [kind: {"create"}, stage: {"counted"}, token: Tokens, owner: Users]
  \cup [kind: {"create"}, stage: {"answered"}, token: Tokens, owner: Users,
        expires: Expiries]
  \cup [kind: {"revoke"}, stage: {"answered"}, token: Tokens]
  \cup [kind: {"bearer"}, stage: {"presented", "selected", "accepted"},
        token: Tokens, late: BOOLEAN]

\* Rows and requests have their types, a session writes to rows that exist,
\* and no two requests were told the same token.
TypeOK ==
  /\ rows \in [Tokens -> Row \cup {NoRow}]
  /\ requests \in [Requests -> Request]
  /\ now \in Instants /\ faults \in 0..MaxFaults
  /\ \A r \in Requests :
       /\ requests[r].stage = "selected" => rows[requests[r].token].exists
       /\ (requests[r].stage = "answered" /\ requests[r].kind = "revoke") =>
            rows[requests[r].token].exists
  /\ \A r, s \in Requests :
       (/\ requests[r] # Done /\ requests[r].kind = "create"
        /\ requests[s] # Done /\ requests[s].kind = "create"
        /\ requests[r].token = requests[s].token) => r = s

\* Once a revocation is committed it stays, whichever verifications of the
\* token had read the row before and write to it afterwards.
RevocationIsFinal ==
  [][\A t \in Tokens : Revoked(t) => Revoked(t)']_vars

\* A request that came when its token was revoked or had expired is not let
\* in; one that came before is served to its end.
AcceptedWasValid ==
  \A r \in Requests : requests[r].stage = "accepted" => ~requests[r].late

\* The count is not part of the insert, so that requests that overlap exceed
\* the cap; by less than there are requests, and in the long run too.
CapIsNearlyKept ==
  \A user \in Users :
    Cardinality({t \in Tokens : Live(t) /\ rows[t].owner = user})
      <= MaxActive - 1 + Cardinality(Requests)
=============================================================================
