------------------------------ MODULE Sessions ------------------------------
(***************************************************************************)
(* The stateless tokens of the examples, sealed with one Sealer: magic     *)
(* links (magic_link), session tokens (session_token), CSRF tokens         *)
(* (csrf_token) and session cookies (encrypted_cookie).  A plaintext is a  *)
(* JSON object; a field a kind does not have is read as its zero value.    *)
(***************************************************************************)
EXTENDS TimeLock

CONSTANTS
  Users,
  SessionIDs,
  sessionTTL,      \* in ticks
  csrfTTL,         \* in seconds
  clockSkewLimit   \* in seconds

ASSUME SessionsAssumption ==
  /\ sessionTTL \in Nat /\ csrfTTL \in Nat /\ clockSkewLimit \in Nat

LinkPurposes == {"pwreset-v1", "email-verify-v1"}
ExampleAADs == LinkPurposes \cup {"session-v1", "csrf-v1", "cookie-v1"}

\* The text of an object starts with a brace: as a number, a large one.
Object(u, e, i, s) ==
  [short |-> FALSE, first8 |-> Half - 1, rest |-> [u |-> u, e |-> e, i |-> i, s |-> s]]

\* Sealer.Open and json.Unmarshal succeed.  (A session's s is a list, a CSRF
\* token's a string; with aads of their own no reader gets that far.)
Readable(key, ct, aad) ==
  OpenError(key, ct, aad) = "nil" /\ ct.pt.rest \notin Payloads

issueLink(key, user, purpose, ttl) ==
  Add("link", user, ttl, Sealed(key, Object(user, Expiry(ttl), 0, ""), purpose))

verifyLink(key, n, form, purpose) ==
  LET ct == Text(n, form)
  IN Verified("link", n, purpose, tokens[n].payload,
       IF ~Readable(key, ct, purpose) THEN "invalid"
       ELSE IF Expired(ct.pt.rest.e) THEN "expired" ELSE "nil")

-----------------------------------------------------------------------------
IssueSession(key, user) ==
  Add("session", user, sessionTTL,
      Sealed(key, Object(user, Expiry(sessionTTL), Unix(now), ""), "session-v1"))

\* Issued ahead of this clock, by more than clocks may differ.
InFuture_Exact(issued) == issued > Unix(now)  \* mutant: no skew is allowed
InFuture(issued) == issued > Unix(now) + clockSkewLimit

OpenSession(key, n, form) ==
  LET ct == Text(n, form)
  IN Verified("session", n, "session-v1", tokens[n].payload,
       IF ~Readable(key, ct, "session-v1") THEN "invalid"
       ELSE IF Expired(ct.pt.rest.e) THEN "expired"
       ELSE IF InFuture(ct.pt.rest.i) THEN "future" ELSE "nil")

-----------------------------------------------------------------------------
IssueCSRF(key, session) ==
  Add("csrf", session, csrfTTL * Sec,
      Sealed(key, Object("", 0, Unix(now), session), "csrf-v1"))

VerifyCSRF(key, n, form, session) ==
  LET ct == Text(n, form)
  IN Verified("csrf", n, "csrf-v1", session,
       IF ~Readable(key, ct, "csrf-v1") THEN "invalid"
       ELSE IF ct.pt.rest.s # session THEN "foreign"
       ELSE IF Unix(now) - ct.pt.rest.i > csrfTTL THEN "expired" ELSE "nil")

-----------------------------------------------------------------------------
\* The login handler; when sealing fails it answers with a 500 and sets no
\* cookie.
CookieAAD_Session == "session-v1"  \* mutant: sealed like a session token
CookieAAD == "cookie-v1"

setSession(key, user, ttl) ==
  Add("cookie", user, ttl, Sealed(key, Object(user, Expiry(ttl), 0, ""), CookieAAD))

\* A request whose cookie is a text of the client's choice.
getSession(key, n, form) ==
  LET ct == Text(n, form)
  IN Verified("cookie", n, "cookie-v1", tokens[n].payload,
       IF ~Readable(key, ct, CookieAAD) THEN "invalid"
       ELSE IF Expired(ct.pt.rest.e) THEN "expired" ELSE "nil")

\* A request without one.
noSession ==
  /\ last' = [Nothing EXCEPT !.as = "cookie", !.err = "no session"]
  /\ UNCHANGED <<tokens, seen>>

-----------------------------------------------------------------------------
Issue(key) ==
  \/ \E user \in Users, purpose \in LinkPurposes, ttl \in Ttls :
       issueLink(key, user, purpose, ttl)
  \/ \E user \in Users : IssueSession(key, user)
  \/ \E session \in SessionIDs : IssueCSRF(key, session)
  \/ \E user \in Users, ttl \in Ttls : setSession(key, user, ttl)

Present(key, n, form) ==
  \/ \E purpose \in LinkPurposes : verifyLink(key, n, form, purpose)
  \/ OpenSession(key, n, form)
  \/ \E session \in SessionIDs : VerifyCSRF(key, n, form, session)
  \/ getSession(key, n, form)
=============================================================================
