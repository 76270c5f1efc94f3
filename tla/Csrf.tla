-------------------------------- MODULE Csrf --------------------------------
(***************************************************************************)
(* CSRF tokens (src/src/web/csrf) between one browser with several tabs    *)
(* and the servers of a rolling deployment, whose keysets differ for a     *)
(* while.                                                                  *)
(*                                                                         *)
(* A token is the value of an encrypted cookie: an expiry and the identity *)
(* it is bound to, sealed under a key (src/src/crypto/keyset.rs).  A       *)
(* request carries the cookie from the jar and, in a header, the token     *)
(* that its page has read, which is the same or another one (the nonces of *)
(* tokens say no more).  Requests of two tabs cross, responses are lost or *)
(* arrive late, the user logs in or out, and keys are rotated and retired  *)
(* meanwhile.  The servers and the browser share one clock.                *)
(***************************************************************************)
EXTENDS Integers, Sequences

CONSTANTS
    Tabs, Servers,
    Identities,    \* what extract_binding_from_headers returns; None is one of them
    NoCookie,      \* model value: no such cookie
    TokenMaxAge,   \* token_max_age
    MaxKey,        \* bound on the rotations
    MaxSeconds     \* bound on the time

ASSUME CsrfAssumption ==
    TokenMaxAge \in Nat \ {0} /\ MaxKey \in Nat \ {0} /\ MaxSeconds \in Nat /\ Servers # {}

\* A verdict that names an identity says that it was logged in.
ASSUME IdentityAssumption == Identities \intersect {"none", "accepted", "failed", "refused"} = {}

VARIABLES
    seconds,    \* current_unix_seconds
    keyset,     \* what get_keyset of each server returns, latest first
    layered,    \* the servers use CsrfLayer; otherwise the protector's calls
    identity,   \* what the browser's other cookies say
    jar,        \* the CSRF cookie
    flight,     \* the request of each tab, or the response to it
    armed,      \* history: servers that answered under the present cookie, nothing having changed since
    refusals    \* history: requests refused in a row, nothing having changed meanwhile

csrfVars == <<seconds, keyset, layered, identity, jar, flight, armed, refusals>>

Tokens ==
    [key : 1 .. MaxKey, expires : 1 .. MaxSeconds + TokenMaxAge,
     binding : Identities, issuedTo : Identities]

ASSUME NoCookieAssumption == NoCookie \notin Tokens

MaybeToken == Tokens \union {NoCookie}

\* matches: the header has the token of the cookie; quiet: nothing has changed
\* since the request was sent; by: the server that answered.
NoFlight ==
    [at |-> "idle", safe |-> TRUE, cookie |-> NoCookie, matches |-> TRUE,
     as |-> CHOOSE i \in Identities : TRUE, by |-> {}, verdict |-> "none",
     set |-> NoCookie, quiet |-> FALSE]

CsrfTypeOK ==
    /\ seconds \in 0 .. MaxSeconds /\ layered \in BOOLEAN /\ identity \in Identities
    /\ \A s \in Servers : keyset[s] # <<>> /\ \A i \in 1 .. Len(keyset[s]) : keyset[s][i] \in 1 .. MaxKey
    /\ jar \in MaybeToken
    /\ \A t \in Tabs :
          /\ flight[t].at \in {"idle", "request", "response"}
          /\ {flight[t].cookie, flight[t].set} \subseteq MaybeToken
          /\ flight[t].verdict \in {"none", "accepted", "failed", "refused"} \union Identities
          /\ flight[t].at = "idle" => flight[t] = NoFlight
    /\ armed \subseteq Servers /\ refusals \in Nat

CsrfInit ==
    /\ seconds = 0 /\ layered \in BOOLEAN /\ identity \in Identities
    /\ keyset = [s \in Servers |-> <<1>>]
    /\ jar = NoCookie
    /\ flight = [t \in Tabs |-> NoFlight]
    /\ armed = {} /\ refusals = 0

-----------------------------------------------------------------------------
(***************************************************************************)
(* Tokens.                                                                 *)
(***************************************************************************)

KeysOf(s) == {keyset[s][i] : i \in 1 .. Len(keyset[s])}

\* Mutant: only the latest key is tried.
OpensLatest(s, token) == token # NoCookie /\ token.key = Head(keyset[s])

\* parse_from_request and payload_from_cookie: a cookie is there, and one of the
\* keys decrypts it.
Opens(s, token) == token # NoCookie /\ token.key \in KeysOf(s)

IsValid(token) == seconds < token.expires

\* Mutant: tokens are not compared with the identity of the request.
BindingIgnored(token, i) == TRUE

BindingMatches(token, i) == token.binding = i

\* new_token_cookie: sealed under the latest key.
NewTokenCookie(s, i) ==
    [key |-> Head(keyset[s]), expires |-> seconds + TokenMaxAge, binding |-> i, issuedTo |-> i]

\* Mutant: any token that can be opened is good enough.
TokenSufficesUnbound(s, r) == Opens(s, r.cookie) /\ IsValid(r.cookie)

\* issue_token_cookie_if_needed_for_request, of the same three tests.
TokenSuffices(s, r) ==
    Opens(s, r.cookie) /\ IsValid(r.cookie) /\ BindingMatches(r.cookie, r.as)

-----------------------------------------------------------------------------
(***************************************************************************)
(* A server.  proper: host, origin and the extraction of the identity are  *)
(* in order; if not, the call fails before it looks at any token.          *)
(***************************************************************************)

Answers(t, s, verdict, set) ==
    /\ flight' = [flight EXCEPT ![t].at = "response", ![t].by = {s}, ![t].verdict = verdict, ![t].set = set]
    /\ UNCHANGED <<seconds, keyset, layered, identity, jar, armed, refusals>>

Arrives(t, safe) == flight[t].at = "request" /\ flight[t].safe = safe

\* call_safe_request: the cookie is decided before the inner service is called,
\* and comes with its response.
SafeCall(t, s) ==
    /\ Arrives(t, TRUE)
    /\ Answers(t, s, "accepted",
               IF TokenSuffices(s, flight[t]) THEN NoCookie ELSE NewTokenCookie(s, flight[t].as))

ImproperCall(t, s) == flight[t].at = "request" /\ Answers(t, s, "failed", NoCookie)

\* Mutant: a refusal that can be healed is not.
SelfHealNot(s, i) == NoCookie

\* response_for_failure; the calls of the protector heal nothing.
SelfHeal(s, i) == IF layered THEN NewTokenCookie(s, i) ELSE NoCookie

\* verify_unsafe_request: which failure it is, if any, in the order of the tests.
Failure(s, r) ==
    IF ~ Opens(s, r.cookie) THEN "cookie"
    ELSE IF ~ IsValid(r.cookie) THEN "expired"
    ELSE IF ~ r.matches THEN "mismatch"
    ELSE IF ~ BindingMatches(r.cookie, r.as) THEN "binding"
    ELSE "none"

UnsafeCallRefused(t, s) ==
    /\ Arrives(t, FALSE) /\ Failure(s, flight[t]) # "none"
    /\ Answers(t, s, "refused",
               IF Failure(s, flight[t]) = "mismatch" THEN NoCookie ELSE SelfHeal(s, flight[t].as))

UnsafeCallAccepted(t, s) ==
    /\ Arrives(t, FALSE) /\ Failure(s, flight[t]) = "none"
    /\ Answers(t, s, "accepted", NoCookie)

\* The application logs the user in or out.  It may cycle the token
\* (cycle_token_cookie_for_binding), or leave that to the next safe request.
Login(t, s, i, cycles) ==
    /\ Arrives(t, FALSE) /\ Failure(s, flight[t]) = "none" /\ i # flight[t].as
    /\ Answers(t, s, i, IF cycles THEN NewTokenCookie(s, i) ELSE NoCookie)

-----------------------------------------------------------------------------
(***************************************************************************)
(* The browser, the deployment and time.                                   *)
(***************************************************************************)

\* Something has changed: what servers said before no longer counts.
Hushed == [t \in Tabs |-> [flight[t] EXCEPT !.quiet = FALSE]]

Disturbed == flight' = Hushed /\ armed' = {} /\ refusals' = 0

\* The header of an unsafe request may be older than its cookie.
Send(t, safe, matches) ==
    /\ flight[t].at = "idle" /\ (safe => matches)
    /\ flight' = [flight EXCEPT ![t] =
          [NoFlight EXCEPT !.at = "request", !.safe = safe, !.cookie = jar, !.matches = matches,
                           !.as = identity, !.quiet = TRUE]]
    /\ UNCHANGED <<seconds, keyset, layered, identity, jar, armed, refusals>>

Receive(t) ==
    LET r == flight[t]
        loggedIn == r.verdict \in Identities
        rest == IF r.quiet /\ r.set = NoCookie /\ ~ loggedIn THEN flight ELSE Hushed
    IN  /\ r.at = "response"
        /\ flight' = [rest EXCEPT ![t] = NoFlight]
        /\ jar' = IF r.set = NoCookie THEN jar ELSE r.set
        /\ identity' = IF loggedIn THEN r.verdict ELSE identity
        /\ armed' = IF ~ r.quiet \/ loggedIn THEN {}
                    ELSE IF r.set # NoCookie THEN r.by
                    ELSE IF r.verdict = "accepted" THEN armed \union r.by ELSE armed
        /\ refusals' = IF ~ r.quiet \/ loggedIn \/ r.verdict = "accepted" THEN 0
                       ELSE IF r.verdict = "refused" /\ r.matches /\ layered THEN refusals + 1
                       ELSE refusals
        /\ UNCHANGED <<seconds, keyset, layered>>

Lose(t) ==
    /\ flight[t].at # "idle" /\ flight' = [flight EXCEPT ![t] = NoFlight]
    /\ UNCHANGED <<seconds, keyset, layered, identity, jar, armed, refusals>>

\* Max-Age of the cookie.
JarExpires ==
    /\ jar # NoCookie /\ ~ IsValid(jar) /\ jar' = NoCookie
    /\ UNCHANGED <<seconds, keyset, layered, identity, flight, armed, refusals>>

SecondPasses ==
    /\ seconds < MaxSeconds /\ seconds' = seconds + 1 /\ Disturbed
    /\ UNCHANGED <<keyset, layered, identity, jar>>

EveryoneKnows(k) == \A s \in Servers : k \in KeysOf(s)

\* A key is added server by server, once the one before is everywhere; and the
\* oldest is retired once the latest is.
Rotate(s) ==
    /\ Head(keyset[s]) < MaxKey /\ EveryoneKnows(Head(keyset[s]))
    /\ keyset' = [keyset EXCEPT ![s] = <<Head(@) + 1>> \o @] /\ Disturbed
    /\ UNCHANGED <<seconds, layered, identity, jar>>

Retire(s) ==
    /\ Len(keyset[s]) > 1 /\ EveryoneKnows(Head(keyset[s]))
    /\ keyset' = [keyset EXCEPT ![s] = SubSeq(@, 1, Len(@) - 1)] /\ Disturbed
    /\ UNCHANGED <<seconds, layered, identity, jar>>

\* S: the servers that the tab is routed to.
Browsing(t, S) ==
    \/ Receive(t) \/ Lose(t) \/ \E safe, matches \in BOOLEAN : Send(t, safe, matches)
    \/ \E s \in S :
          \/ SafeCall(t, s) \/ ImproperCall(t, s)
          \/ UnsafeCallRefused(t, s) \/ UnsafeCallAccepted(t, s)
          \/ \E i \in Identities, cycles \in BOOLEAN : Login(t, s, i, cycles)

Time == JarExpires \/ SecondPasses

Deployment == \E s \in Servers : Rotate(s) \/ Retire(s)

CsrfNext == (\E t \in Tabs : Browsing(t, Servers)) \/ Time \/ Deployment

CsrfSpec == CsrfInit /\ [][CsrfNext]_csrfVars

-----------------------------------------------------------------------------
\* A server refuses no request that comes under the cookie it has answered under,
\* if nothing has changed since: what a safe request leaves in place as good enough,
\* and what a refusal puts in its place, is what verify_unsafe_request accepts.
AnsweredIsAccepted ==
    \A t \in Tabs :
        (flight[t].verdict = "refused" /\ flight[t].quiet /\ flight[t].matches) => flight[t].by \intersect armed = {}

\* Self-healing converges: a page that reads the cookie and tries again is refused
\* once, or twice while the servers seal under different keys, and never for ever
\* by one server's token after the other's.
RefusalsAreBounded ==
    refusals <= IF \E s, o \in Servers : Head(keyset[s]) # Head(keyset[o]) THEN 2 ELSE 1

\* No token outlives a change of identity: an unsafe request that reaches the
\* application brings a token that was issued to the identity it is made under.
AcceptedForItsIdentity ==
    \A t \in Tabs :
        (flight[t].at = "response" /\ ~ flight[t].safe /\ flight[t].verdict \notin {"refused", "failed"})
            => flight[t].cookie # NoCookie /\ flight[t].cookie.issuedTo = flight[t].as

\* CSRF tokens: types, and the three properties above.
CsrfIsSound == CsrfTypeOK /\ AnsweredIsAccepted /\ RefusalsAreBounded /\ AcceptedForItsIdentity
=============================================================================
