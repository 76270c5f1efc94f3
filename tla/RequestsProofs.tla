--------------------------- MODULE RequestsProofs ---------------------------
(***************************************************************************)
(* Proofs about what stands before an application's work: the throttler    *)
(* and the CSRF tokens.                                                    *)
(***************************************************************************)
EXTENDS Throttler, Csrf, SequenceTheorems, FiniteSetTheorems, WellFoundedInduction, TLAPS

-----------------------------------------------------------------------------
(***************************************************************************)
(* CSRF tokens.                                                            *)
(***************************************************************************)

\* A token is as good as TokenSuffices finds it.
Suffices(s, token, i) == Opens(s, token) /\ IsValid(token) /\ BindingMatches(token, i)

Flights ==
    [at : {"idle", "request", "response"}, safe : BOOLEAN, cookie : MaybeToken, matches : BOOLEAN,
     as : Identities, by : SUBSET Servers,
     verdict : {"none", "accepted", "failed", "refused"} \union Identities,
     set : MaybeToken, quiet : BOOLEAN]

CsrfTyped ==
    /\ seconds \in 0 .. MaxSeconds /\ layered \in BOOLEAN /\ identity \in Identities
    /\ jar \in MaybeToken /\ flight \in [Tabs -> Flights] /\ armed \subseteq Servers /\ refusals \in Nat

\* The keys of a server: a run of consecutive ones, latest first.
KeyRun(q) ==
    /\ q \in Seq(1 .. MaxKey) /\ Len(q) >= 1
    /\ \A i \in 1 .. Len(q) : q[i] = Head(q) + 1 - i

\* No server is more than one key ahead, and none has retired the latest key of another.
KeysInv ==
    /\ keyset \in [Servers -> Seq(1 .. MaxKey)] /\ \A s \in Servers : KeyRun(keyset[s])
    /\ \A s, o \in Servers : Head(keyset[s]) <= Head(keyset[o]) + 1 /\ keyset[s][Len(keyset[s])] <= Head(keyset[o])

\* A token is bound to whom it was issued to.
TokenOK(token) == token \in MaybeToken /\ (token # NoCookie => token.binding = token.issuedTo)

\* A request since which nothing has changed still speaks of the jar, and its
\* answer still says what the server would say now.
QuietInv(r) ==
    /\ r.as = identity
    /\ r.cookie = jar \/ (jar = NoCookie /\ ~IsValid(r.cookie))
    /\ r.verdict = "accepted" /\ r.set = NoCookie => \A s \in r.by : Suffices(s, r.cookie, r.as)
    /\ (r.verdict = "refused" /\ (r.matches \/ r.set # NoCookie)) => \A s \in r.by : ~Suffices(s, r.cookie, r.as)
    /\ (r.verdict = "refused" /\ r.matches /\ layered) => r.set # NoCookie
    /\ (r.set # NoCookie /\ r.verdict \notin Identities) =>
          /\ r.by # {} /\ r.verdict \in {"accepted", "refused"}
          /\ \A s \in r.by : Suffices(s, r.set, r.as) /\ r.set.key = Head(keyset[s])

FlightInv(r) ==
    /\ r.at = "idle" => r = NoFlight
    /\ TokenOK(r.cookie) /\ TokenOK(r.set)
    /\ r.at = "request" => r.by = {} /\ r.verdict = "none" /\ r.set = NoCookie
    /\ (r.at = "response" /\ ~r.safe /\ r.verdict \notin {"refused", "failed"}) =>
          r.cookie # NoCookie /\ r.cookie.binding = r.as
    /\ r.quiet => QuietInv(r)

\* Servers that answered under the present cookie accept it.
ArmedInv == \A s \in armed : Suffices(s, jar, identity)

\* After a refusal the jar has a server's latest token; after two, one that every server opens.
RefusalInv ==
    /\ refusals \in 0 .. 2
    /\ refusals >= 1 => /\ jar # NoCookie /\ IsValid(jar) /\ jar.binding = identity
                        /\ \E s \in Servers : jar.key = Head(keyset[s])
    /\ refusals >= 2 => EveryoneKnows(jar.key) /\ \E s, o \in Servers : Head(keyset[s]) # Head(keyset[o])

CsrfInv ==
    CsrfTyped /\ KeysInv /\ TokenOK(jar) /\ ArmedInv /\ RefusalInv /\ \A t \in Tabs : FlightInv(flight[t])


\* The keys of a run, from one end to the other.
LEMMA RunIs ==
    ASSUME NEW q, KeyRun(q)
    PROVE  /\ q \in Seq(1 .. MaxKey) /\ Len(q) \in Nat \ {0} /\ q # <<>>
           /\ \A i \in 1 .. Len(q) : q[i] \in 1 .. MaxKey /\ q[i] = Head(q) + 1 - i
           /\ Head(q) = q[1] /\ Head(q) \in 1 .. MaxKey /\ q[Len(q)] \in 1 .. MaxKey
           /\ q[Len(q)] = Head(q) + 1 - Len(q)
  <1>1. q \in Seq(1 .. MaxKey) /\ Len(q) >= 1 /\ \A i \in 1 .. Len(q) : q[i] = Head(q) + 1 - i
    BY DEF KeyRun
  <1>2. Len(q) \in Nat
    BY <1>1, LenProperties
  <1>3. Len(q) \in Nat \ {0} /\ q # <<>> /\ 1 \in 1 .. Len(q) /\ Len(q) \in 1 .. Len(q)
    BY <1>1, <1>2
  <1>4. \A i \in 1 .. Len(q) : q[i] \in 1 .. MaxKey
    BY <1>1, ElementOfSeq
  <1>5. Head(q) = q[1]
    BY <1>1, <1>3
  <1> QED
    BY <1>1, <1>3, <1>4, <1>5

\* What a server opens.
LEMMA KeysOfRun ==
    ASSUME KeysInv, NEW s \in Servers, NEW k
    PROVE  k \in KeysOf(s) <=> k \in Int /\ keyset[s][Len(keyset[s])] <= k /\ k <= Head(keyset[s])
  <1> DEFINE q == keyset[s]
  <1>1. KeyRun(q)
    BY DEF KeysInv
  <1>2. KeysOf(s) = {q[i] : i \in 1 .. Len(q)}
    BY DEF KeysOf
  <1> HIDE DEF q
  <1>3. PICK n, h : n = Len(q) /\ h = Head(q)
    OBVIOUS
  <1>4. /\ n \in Nat \ {0} /\ h \in Int /\ MaxKey \in Nat
        /\ \A i \in 1 .. n : q[i] = h + 1 - i
    BY <1>1, <1>3, RunIs, CsrfAssumption
  <1>5. ASSUME k \in Int, h + 1 - n <= k, k <= h
        PROVE  \E i \in 1 .. n : q[i] = k
    <2>1. h + 1 - k \in 1 .. n /\ h + 1 - (h + 1 - k) = k
      BY <1>4, <1>5
    <2>2. q[h + 1 - k] = k
      BY <1>4, <2>1
    <2> QED
      BY <2>1, <2>2
  <1>6. ASSUME NEW i \in 1 .. n, q[i] = k
        PROVE  k \in Int /\ h + 1 - n <= k /\ k <= h
    BY <1>4, <1>6
  <1>7. n \in 1 .. n
    BY <1>4
  <1>8. q[n] = h + 1 - n
    BY <1>4, <1>7
  <1>9. k \in KeysOf(s) <=> k \in Int /\ q[Len(q)] <= k /\ k <= Head(q)
    BY <1>2, <1>3, <1>5, <1>6, <1>8
  <1> QED
    BY <1>9 DEF q

\* The keys at both ends.
LEMMA RunEnds ==
    ASSUME KeysInv, NEW s \in Servers
    PROVE  /\ keyset[s] \in Seq(1 .. MaxKey) /\ Len(keyset[s]) \in Nat \ {0} /\ keyset[s] # <<>>
           /\ Head(keyset[s]) \in 1 .. MaxKey /\ keyset[s][Len(keyset[s])] \in 1 .. MaxKey
           /\ keyset[s][Len(keyset[s])] = Head(keyset[s]) + 1 - Len(keyset[s])
           /\ Head(keyset[s]) \in KeysOf(s)
  <1>1. KeyRun(keyset[s])
    BY DEF KeysInv
  <1>2. 1 \in 1 .. Len(keyset[s]) /\ Head(keyset[s]) = keyset[s][1]
    BY <1>1, RunIs
  <1> QED
    BY <1>1, <1>2, RunIs DEF KeysOf

\* A server that does not open another one's latest key is one key behind, and all know its own.
LEMMA BehindByOne ==
    ASSUME KeysInv, NEW s \in Servers, NEW o \in Servers, Head(keyset[s]) \notin KeysOf(o)
    PROVE  Head(keyset[s]) # Head(keyset[o]) /\ EveryoneKnows(Head(keyset[o]))
  <1>1. MaxKey \in Nat
    BY CsrfAssumption
  <1>2. \A p \in Servers : /\ Head(keyset[p]) \in 1 .. MaxKey /\ Head(keyset[s]) <= Head(keyset[p]) + 1
                           /\ keyset[p][Len(keyset[p])] <= Head(keyset[o]) /\ keyset[o][Len(keyset[o])] <= Head(keyset[p])
    BY RunEnds DEF KeysInv
  <1>3. Head(keyset[s]) > Head(keyset[o])
    BY <1>1, <1>2, KeysOfRun
  <1>4. \A p \in Servers : Head(keyset[o]) <= Head(keyset[p])
    BY <1>1, <1>2, <1>3
  <1>5. EveryoneKnows(Head(keyset[o]))
    BY <1>1, <1>2, <1>4, KeysOfRun DEF EveryoneKnows
  <1> QED
    BY <1>1, <1>2, <1>3, <1>5

\* A key that everyone knows is no older than the latest key of any server.
LEMMA KnownIsNotAhead ==
    ASSUME KeysInv, NEW k, EveryoneKnows(k)
    PROVE  k \in Int /\ \A p \in Servers : keyset[p][Len(keyset[p])] <= k /\ k <= Head(keyset[p])
  BY KeysOfRun, CsrfAssumption DEF EveryoneKnows

\* The failures, and what each says of the token.
LEMMA Failures ==
    ASSUME NEW s, NEW r
    PROVE  /\ Failure(s, r) = "none" => Suffices(s, r.cookie, r.as) /\ r.matches
           /\ Failure(s, r) # "none" => ~Suffices(s, r.cookie, r.as) \/ ~r.matches
           /\ Failure(s, r) = "mismatch" => ~r.matches
           /\ Failure(s, r) \notin {"none", "mismatch"} => ~Suffices(s, r.cookie, r.as)
  BY DEF Failure, Suffices

\* A new token, made by a server for an identity.
LEMMA NewTokens ==
    ASSUME CsrfTyped, KeysInv, NEW s \in Servers, NEW i \in Identities
    PROVE  /\ NewTokenCookie(s, i) \in Tokens /\ NewTokenCookie(s, i) # NoCookie /\ TokenOK(NewTokenCookie(s, i))
           /\ Suffices(s, NewTokenCookie(s, i), i) /\ NewTokenCookie(s, i).key = Head(keyset[s])
  <1>1. Head(keyset[s]) \in 1 .. MaxKey /\ Head(keyset[s]) \in KeysOf(s)
    BY RunEnds
  <1>2. seconds \in 0 .. MaxSeconds /\ TokenMaxAge \in Nat \ {0} /\ MaxSeconds \in Nat
    BY CsrfAssumption DEF CsrfTyped
  <1>3. seconds + TokenMaxAge \in 1 .. MaxSeconds + TokenMaxAge /\ seconds < seconds + TokenMaxAge
    BY <1>2
  <1>4. PICK token : token = NewTokenCookie(s, i)
    OBVIOUS
  <1>5. /\ token \in Tokens /\ token.key = Head(keyset[s]) /\ token.expires = seconds + TokenMaxAge
        /\ token.binding = i /\ token.issuedTo = i
    BY <1>1, <1>3, <1>4 DEF NewTokenCookie, Tokens
  <1>6. token # NoCookie /\ TokenOK(token)
    BY <1>5, NoCookieAssumption DEF TokenOK, MaybeToken
  <1>7. Suffices(s, token, i)
    BY <1>1, <1>3, <1>5, <1>6 DEF Suffices, Opens, IsValid, BindingMatches
  <1> QED
    BY <1>4, <1>5, <1>6, <1>7

\* No request.
LEMMA NoFlightIs ==
    ASSUME CsrfTyped
    PROVE  NoFlight \in Flights /\ FlightInv(NoFlight) /\ FlightInv(NoFlight)' /\ NoFlight.at = "idle" /\ ~NoFlight.quiet
  <1>1. (CHOOSE i \in Identities : TRUE) \in Identities
    BY DEF CsrfTyped
  <1>2. /\ NoFlight \in Flights /\ NoFlight.at = "idle" /\ NoFlight.quiet = FALSE /\ NoFlight.cookie = NoCookie /\ NoFlight.set = NoCookie
    BY <1>1 DEF NoFlight, Flights, MaybeToken
  <1> QED
    BY <1>2 DEF FlightInv, TokenOK, MaybeToken

\* A request that no longer counts.
LEMMA HushedFlight ==
    ASSUME NEW r \in Flights, FlightInv(r), CsrfTyped
    PROVE  [r EXCEPT !.quiet = FALSE] \in Flights /\ FlightInv([r EXCEPT !.quiet = FALSE])'
  <1>1. PICK q : q = [r EXCEPT !.quiet = FALSE]
    OBVIOUS
  <1>2. /\ q \in Flights /\ q.quiet = FALSE /\ q.at = r.at /\ q.safe = r.safe /\ q.cookie = r.cookie /\ q.matches = r.matches
        /\ q.as = r.as /\ q.by = r.by /\ q.verdict = r.verdict /\ q.set = r.set
    BY <1>1 DEF Flights
  <1>3. r = NoFlight => q = r
    BY <1>1, NoFlightIs DEF Flights
  <1>4. FlightInv(q)'
    BY <1>2, <1>3 DEF FlightInv, TokenOK
  <1> QED
    BY <1>1, <1>2, <1>4


\* A request or its answer, with nothing else changing.
LEMMA FlightStep ==
    ASSUME CsrfInv, UNCHANGED <<seconds, keyset, layered, identity, jar, armed, refusals>>,
           NEW t \in Tabs, NEW r \in Flights, FlightInv(r), flight' = [flight EXCEPT ![t] = r]
    PROVE  CsrfInv'
  <1>1. /\ seconds' = seconds /\ keyset' = keyset /\ layered' = layered /\ identity' = identity
        /\ jar' = jar /\ armed' = armed /\ refusals' = refusals
    OBVIOUS
  <1>2. CsrfTyped'
    BY <1>1 DEF CsrfInv, CsrfTyped
  <1>3. KeysInv' /\ TokenOK(jar)'
    BY <1>1 DEF CsrfInv, KeysInv, TokenOK
  <1>4. \A s, token, i : Suffices(s, token, i)' <=> Suffices(s, token, i)
    BY <1>1 DEF Suffices, Opens, IsValid, BindingMatches, KeysOf
  <1>5. ArmedInv'
    BY <1>1 DEF CsrfInv, ArmedInv, Suffices, Opens, IsValid, BindingMatches, KeysOf
  <1>6. RefusalInv'
    BY <1>1 DEF CsrfInv, RefusalInv, IsValid, EveryoneKnows, KeysOf
  <1>7. ASSUME NEW q, FlightInv(q)
        PROVE  FlightInv(q)'
    <2>1. QuietInv(q) => QuietInv(q)'
      BY <1>1, <1>4 DEF QuietInv, IsValid
    <2> QED
      BY <1>7, <2>1 DEF FlightInv, TokenOK
  <1>8. ASSUME NEW u \in Tabs
        PROVE  FlightInv(flight[u])'
    <2>1. FlightInv(flight[u]) /\ flight \in [Tabs -> Flights]
      BY DEF CsrfInv, CsrfTyped
    <2>2. PICK q : q = flight'[u] /\ FlightInv(q)
      BY <2>1
    <2>3. FlightInv(q)'
      BY <1>7, <2>2
    <2> QED
      BY <2>2, <2>3
  <1> QED
    BY <1>2, <1>3, <1>5, <1>6, <1>8 DEF CsrfInv

\* Something changes, and what was said before no longer counts.
LEMMA HushedStep ==
    ASSUME CsrfInv, Disturbed, seconds' \in 0 .. MaxSeconds, KeysInv', UNCHANGED <<layered, identity, jar>>
    PROVE  CsrfInv'
  <1>1. /\ flight' = [t \in Tabs |-> [flight[t] EXCEPT !.quiet = FALSE]] /\ armed' = {} /\ refusals' = 0
        /\ layered' = layered /\ identity' = identity /\ jar' = jar
    BY DEF Disturbed, Hushed
  <1>2. ASSUME NEW u \in Tabs
        PROVE  flight'[u] \in Flights /\ FlightInv(flight[u])'
    <2>1. PICK r \in Flights : r = flight[u] /\ FlightInv(r)
      BY DEF CsrfInv, CsrfTyped
    <2>2. PICK q : q = [r EXCEPT !.quiet = FALSE] /\ flight'[u] = q
      BY <1>1, <2>1
    <2>3. q \in Flights /\ FlightInv(q)'
      BY <2>1, <2>2, HushedFlight DEF CsrfInv
    <2> QED
      BY <2>2, <2>3
  <1>3. CsrfTyped'
    BY <1>1, <1>2 DEF CsrfInv, CsrfTyped
  <1>4. TokenOK(jar)' /\ ArmedInv' /\ RefusalInv'
    BY <1>1 DEF CsrfInv, TokenOK, ArmedInv, RefusalInv
  <1> QED
    BY <1>2, <1>3, <1>4 DEF CsrfInv

\* A tab sends a request.
LEMMA SendKeeps ==
    ASSUME CsrfInv, NEW t \in Tabs, NEW safe \in BOOLEAN, NEW matches \in BOOLEAN, Send(t, safe, matches)
    PROVE  CsrfInv'
  <1>1. PICK r : r = [NoFlight EXCEPT !.at = "request", !.safe = safe, !.cookie = jar, !.matches = matches,
                                       !.as = identity, !.quiet = TRUE]
    OBVIOUS
  <1>2. CsrfTyped /\ TokenOK(jar) /\ NoFlight \in Flights
    BY NoFlightIs DEF CsrfInv
  <1>3. /\ r \in Flights /\ r.at = "request" /\ r.cookie = jar /\ r.as = identity /\ r.by = {}
        /\ r.verdict = "none" /\ r.set = NoCookie
    <2>1. NoFlight.by = {} /\ NoFlight.verdict = "none" /\ NoFlight.set = NoCookie
      BY DEF NoFlight
    <2> QED
      BY <1>1, <1>2, <2>1 DEF Flights, CsrfTyped
  <1>4. FlightInv(r)
    BY <1>2, <1>3 DEF FlightInv, QuietInv, TokenOK, MaybeToken
  <1>5. flight' = [flight EXCEPT ![t] = r] /\ UNCHANGED <<seconds, keyset, layered, identity, jar, armed, refusals>>
    BY <1>1 DEF Send
  <1> QED
    BY <1>3, <1>4, <1>5, FlightStep

\* A server answers a request.
LEMMA AnswerStep ==
    ASSUME CsrfInv, NEW t \in Tabs, NEW s \in Servers, NEW verdict, NEW set, Answers(t, s, verdict, set),
           flight[t].at = "request", verdict \in {"accepted", "failed", "refused"} \union Identities, TokenOK(set),
           (~flight[t].safe /\ verdict \notin {"refused", "failed"}) => Suffices(s, flight[t].cookie, flight[t].as),
           (verdict = "accepted" /\ set = NoCookie) => Suffices(s, flight[t].cookie, flight[t].as),
           (verdict = "refused" /\ (flight[t].matches \/ set # NoCookie)) => ~Suffices(s, flight[t].cookie, flight[t].as),
           (verdict = "refused" /\ flight[t].matches /\ layered) => set # NoCookie,
           (set # NoCookie /\ verdict \notin Identities) =>
              verdict \in {"accepted", "refused"} /\ Suffices(s, set, flight[t].as) /\ set.key = Head(keyset[s])
    PROVE  CsrfInv'
  <1>1. PICK q \in Flights : q = flight[t] /\ FlightInv(q)
    BY DEF CsrfInv, CsrfTyped
  <1>2. PICK r : r = [q EXCEPT !.at = "response", !.by = {s}, !.verdict = verdict, !.set = set]
    OBVIOUS
  <1>3. /\ r \in Flights /\ r.at = "response" /\ r.by = {s} /\ r.verdict = verdict /\ r.set = set /\ r.safe = q.safe
        /\ r.cookie = q.cookie /\ r.as = q.as /\ r.matches = q.matches /\ r.quiet = q.quiet
    BY <1>1, <1>2 DEF Flights, TokenOK
  <1>4. r.quiet => QuietInv(r)
    <2>1. q.quiet => QuietInv(q)
      BY <1>1 DEF FlightInv
    <2> QED
      BY <1>1, <1>3, <2>1 DEF QuietInv
  <1>5. FlightInv(r)
    BY <1>1, <1>3, <1>4 DEF FlightInv, Suffices, Opens, BindingMatches
  <1>6. flight' = [flight EXCEPT ![t] = r] /\ UNCHANGED <<seconds, keyset, layered, identity, jar, armed, refusals>>
    BY <1>1, <1>2 DEF Answers, CsrfInv, CsrfTyped
  <1> QED
    BY <1>3, <1>5, <1>6, FlightStep

\* The calls of a server.
LEMMA CallsKeep ==
    ASSUME CsrfInv, NEW t \in Tabs, NEW s \in Servers, NEW i \in Identities, NEW cycles \in BOOLEAN,
           \/ SafeCall(t, s) \/ ImproperCall(t, s) \/ UnsafeCallRefused(t, s) \/ UnsafeCallAccepted(t, s)
           \/ Login(t, s, i, cycles)
    PROVE  CsrfInv'
  <1>1. PICK q \in Flights : q = flight[t] /\ FlightInv(q)
    BY DEF CsrfInv, CsrfTyped
  <1>2. CsrfTyped /\ KeysInv /\ q.as \in Identities /\ TokenOK(NoCookie)
    BY DEF CsrfInv, Flights, TokenOK, MaybeToken
  <1>3. PICK new : new = NewTokenCookie(s, q.as)
    OBVIOUS
  <1>4. TokenOK(new) /\ new # NoCookie /\ Suffices(s, new, q.as) /\ new.key = Head(keyset[s])
    BY <1>2, <1>3, NewTokens
  <1>5. "refused" \notin Identities /\ "accepted" \notin Identities /\ "failed" \notin Identities
    BY IdentityAssumption
  <1>6. CASE SafeCall(t, s)
    <2>1. PICK set \in {NoCookie, new} :
             /\ Answers(t, s, "accepted", set) /\ q.at = "request" /\ q.safe = TRUE
             /\ set = NoCookie => Suffices(s, q.cookie, q.as)
      BY <1>1, <1>3, <1>4, <1>6 DEF SafeCall, Arrives, TokenSuffices, Suffices
    <2> QED
      BY <1>1, <1>2, <1>4, <1>5, <2>1, AnswerStep
  <1>7. CASE ImproperCall(t, s)
    <2>1. Answers(t, s, "failed", NoCookie) /\ q.at = "request"
      BY <1>1, <1>7 DEF ImproperCall
    <2> QED
      BY <1>1, <1>2, <1>5, <2>1, AnswerStep
  <1>8. CASE UnsafeCallRefused(t, s)
    <2>1. /\ q.at = "request" /\ Failure(s, q) # "none"
          /\ Answers(t, s, "refused", IF Failure(s, q) = "mismatch" THEN NoCookie ELSE SelfHeal(s, q.as))
      BY <1>1, <1>8 DEF UnsafeCallRefused, Arrives
    <2>2. PICK set \in {NoCookie, new} :
             /\ set = IF Failure(s, q) = "mismatch" THEN NoCookie ELSE SelfHeal(s, q.as)
             /\ set # NoCookie => Failure(s, q) # "mismatch"
             /\ (Failure(s, q) # "mismatch" /\ layered) => set # NoCookie
      BY <1>3, <1>4 DEF SelfHeal
    <2>3. /\ (q.matches \/ set # NoCookie) => ~Suffices(s, q.cookie, q.as)
          /\ (q.matches /\ layered) => set # NoCookie
      BY <2>1, <2>2, Failures
    <2>4. Answers(t, s, "refused", set)
      BY <2>1, <2>2
    <2> QED
      BY <1>1, <1>2, <1>4, <1>5, <2>1, <2>2, <2>3, <2>4, AnswerStep
  <1>9. CASE UnsafeCallAccepted(t, s)
    <2>1. q.at = "request" /\ Failure(s, q) = "none" /\ Answers(t, s, "accepted", NoCookie)
      BY <1>1, <1>9 DEF UnsafeCallAccepted, Arrives
    <2>2. Suffices(s, q.cookie, q.as)
      BY <2>1, Failures
    <2> QED
      BY <1>1, <1>2, <1>5, <2>1, <2>2, AnswerStep
  <1>10. CASE Login(t, s, i, cycles)
    <2>1. PICK other : other = NewTokenCookie(s, i)
      OBVIOUS
    <2>2. TokenOK(other)
      BY <1>2, <2>1, NewTokens
    <2>3. PICK set \in {NoCookie, other} : Answers(t, s, i, set) /\ q.at = "request" /\ Failure(s, q) = "none"
      BY <1>1, <1>10, <2>1 DEF Login, Arrives
    <2>4. Suffices(s, q.cookie, q.as) /\ TokenOK(set) /\ i # "accepted" /\ i # "refused"
      BY <1>2, <1>5, <2>2, <2>3, Failures
    <2> QED
      BY <1>1, <2>3, <2>4, AnswerStep
  <1> QED
    BY <1>6, <1>7, <1>8, <1>9, <1>10


\* A tab receives what speaks of the present state, and brings no cookie.
LEMMA QuietReceiveKeeps ==
    ASSUME CsrfInv, NEW t \in Tabs, Receive(t), flight[t].quiet, flight[t].set = NoCookie,
           flight[t].verdict \notin Identities
    PROVE  CsrfInv'
  <1>1. PICK r \in Flights : r = flight[t] /\ FlightInv(r)
    BY DEF CsrfInv, CsrfTyped
  <1>2. /\ seconds' = seconds /\ keyset' = keyset /\ layered' = layered /\ jar' = jar /\ identity' = identity
        /\ flight' = [flight EXCEPT ![t] = NoFlight]
        /\ armed' = IF r.verdict = "accepted" THEN armed \union r.by ELSE armed
    BY <1>1 DEF Receive
  <1>3. QuietInv(r)
    BY <1>1 DEF FlightInv
  <1>4. refusals' \in {0, refusals}
    BY <1>1, <1>3 DEF Receive, QuietInv
  <1>5. CsrfTyped /\ NoFlight \in Flights /\ FlightInv(NoFlight)
    BY NoFlightIs DEF CsrfInv
  <1>6. PICK w : w = armed' /\ w \subseteq Servers /\ \A s \in w : Suffices(s, jar, identity)
    <2>1. r.by \subseteq Servers /\ armed \subseteq Servers
      BY <1>5 DEF Flights, CsrfTyped
    <2>2. ASSUME NEW s \in r.by, r.verdict = "accepted"
          PROVE  Suffices(s, jar, identity)
      BY <1>1, <1>3, <2>2 DEF QuietInv, Suffices
    <2> QED
      BY <1>2, <2>1, <2>2 DEF CsrfInv, ArmedInv
  <1>7. \A s, token, i : Suffices(s, token, i)' <=> Suffices(s, token, i)
    BY <1>2 DEF Suffices, Opens, IsValid, BindingMatches, KeysOf
  <1>8. ArmedInv'
    BY <1>2, <1>6 DEF ArmedInv, Suffices, Opens, IsValid, BindingMatches, KeysOf
  <1>9. RefusalInv'
    BY <1>2, <1>4 DEF CsrfInv, RefusalInv, IsValid, EveryoneKnows, KeysOf
  <1>10. CsrfTyped'
    BY <1>2, <1>4, <1>5, <1>6 DEF CsrfTyped
  <1>11. KeysInv' /\ TokenOK(jar)'
    BY <1>2 DEF CsrfInv, KeysInv, TokenOK
  <1>12. ASSUME NEW q, FlightInv(q)
         PROVE  FlightInv(q)'
    <2>1. QuietInv(q) => QuietInv(q)'
      BY <1>2, <1>7 DEF QuietInv, IsValid
    <2> QED
      BY <1>12, <2>1 DEF FlightInv, TokenOK
  <1>13. ASSUME NEW u \in Tabs
         PROVE  FlightInv(flight[u])'
    <2>1. PICK q : q = flight'[u] /\ FlightInv(q)
      BY <1>2, <1>5 DEF CsrfInv, CsrfTyped
    <2>2. FlightInv(q)'
      BY <1>12, <2>1
    <2> QED
      BY <2>1, <2>2
  <1> QED
    BY <1>8, <1>9, <1>10, <1>11, <1>13 DEF CsrfInv

\* What a tab receives: a second refusal in a row says that the first one's token is
\* sealed under a key that the second server does not have yet.
LEMMA RefusedAgain ==
    ASSUME CsrfInv, NEW r \in Flights, QuietInv(r), NEW s \in r.by, r.verdict = "refused", r.set # NoCookie
    PROVE  /\ refusals < 2
           /\ refusals = 1 => /\ EveryoneKnows(Head(keyset[s]))
                              /\ \E p, o \in Servers : Head(keyset[p]) # Head(keyset[o])
  <1>1. s \in Servers /\ ~Suffices(s, r.cookie, r.as) /\ r.as = identity /\ refusals \in 0 .. 2
    BY DEF QuietInv, Flights, CsrfInv, RefusalInv
  <1>2. ASSUME refusals >= 1
        PROVE  jar.key \notin KeysOf(s)
    <2>1. jar # NoCookie /\ IsValid(jar) /\ jar.binding = identity
      BY <1>2 DEF CsrfInv, RefusalInv
    <2>2. r.cookie = jar
      BY <2>1 DEF QuietInv
    <2> QED
      BY <1>1, <2>1, <2>2 DEF Suffices, Opens, BindingMatches
  <1>3. refusals < 2
    BY <1>1, <1>2 DEF CsrfInv, RefusalInv, EveryoneKnows
  <1>4. ASSUME refusals = 1
        PROVE  EveryoneKnows(Head(keyset[s])) /\ \E p, o \in Servers : Head(keyset[p]) # Head(keyset[o])
    <2>1. PICK o \in Servers : jar.key = Head(keyset[o])
      BY <1>4 DEF CsrfInv, RefusalInv
    <2>2. Head(keyset[o]) \notin KeysOf(s)
      BY <1>2, <1>4, <2>1
    <2> QED
      BY <1>1, <2>1, <2>2, BehindByOne DEF CsrfInv
  <1> QED
    BY <1>3, <1>4

\* A tab receives something else.
LEMMA ReceiveKeeps ==
    ASSUME CsrfInv, NEW t \in Tabs, Receive(t),
           ~(flight[t].quiet /\ flight[t].set = NoCookie /\ flight[t].verdict \notin Identities)
    PROVE  CsrfInv'
  <1>1. PICK r \in Flights : r = flight[t] /\ FlightInv(r) /\ r.at = "response"
    BY DEF CsrfInv, CsrfTyped, Receive
  <1>2. PICK loggedIn \in BOOLEAN : loggedIn <=> r.verdict \in Identities
    OBVIOUS
  <1>3. /\ seconds' = seconds /\ keyset' = keyset /\ layered' = layered
        /\ jar' = IF r.set = NoCookie THEN jar ELSE r.set
        /\ identity' = IF loggedIn THEN r.verdict ELSE identity
        /\ flight' = [[u \in Tabs |-> [flight[u] EXCEPT !.quiet = FALSE]] EXCEPT ![t] = NoFlight]
        /\ armed' = IF ~r.quiet \/ loggedIn THEN {} ELSE r.by
    BY <1>1, <1>2 DEF Receive, Hushed
  <1>4. refusals' = IF ~r.quiet \/ loggedIn \/ r.verdict = "accepted" THEN 0
                    ELSE IF r.verdict = "refused" /\ r.matches /\ layered THEN refusals + 1 ELSE refusals
    BY <1>1, <1>2 DEF Receive
  <1>5. CsrfTyped /\ NoFlight \in Flights /\ FlightInv(NoFlight)'
    BY NoFlightIs DEF CsrfInv
  <1>6. ASSUME NEW u \in Tabs
        PROVE  flight'[u] \in Flights /\ FlightInv(flight[u])'
    <2>1. CASE u = t
      <3>1. flight'[u] = NoFlight
        BY <1>3, <2>1
      <3> QED
        BY <1>5, <3>1
    <2>2. CASE u # t
      <3>1. PICK q \in Flights : q = flight[u] /\ FlightInv(q)
        BY DEF CsrfInv, CsrfTyped
      <3>2. PICK h : h = [q EXCEPT !.quiet = FALSE] /\ flight'[u] = h
        BY <1>3, <2>2, <3>1
      <3>3. h \in Flights /\ FlightInv(h)'
        BY <1>5, <3>1, <3>2, HushedFlight
      <3> QED
        BY <3>2, <3>3
    <2> QED
      BY <2>1, <2>2
  <1>7. TokenOK(r.set) /\ TokenOK(jar)
    BY <1>1 DEF CsrfInv, FlightInv
  <1>8. KeysInv' /\ TokenOK(jar)'
    BY <1>3, <1>7 DEF CsrfInv, KeysInv, TokenOK
  <1>9. PICK j, i : j = jar' /\ i = identity'
    OBVIOUS
  <1>10. CASE ~r.quiet \/ loggedIn
    <2>1. armed' = {} /\ refusals' = 0
      BY <1>3, <1>4, <1>10
    <2>2. identity' \in Identities /\ jar' \in MaybeToken
      BY <1>2, <1>3, <1>5, <1>7 DEF CsrfTyped, TokenOK
    <2>3. CsrfTyped' /\ ArmedInv' /\ RefusalInv'
      <3>1. flight' \in [Tabs -> Flights]
        BY <1>3, <1>6
      <3> QED
        BY <1>3, <1>5, <2>1, <2>2, <3>1 DEF CsrfTyped, ArmedInv, RefusalInv
    <2> QED
      BY <1>6, <1>8, <2>3 DEF CsrfInv
  <1>11. CASE r.quiet /\ ~loggedIn
    <2>1. QuietInv(r) /\ r.set # NoCookie
      BY <1>1, <1>2, <1>11 DEF FlightInv
    <2>2. /\ r.by # {} /\ r.verdict \in {"accepted", "refused"} /\ r.as = identity
          /\ \A s \in r.by : Suffices(s, r.set, identity) /\ r.set.key = Head(keyset[s])
      BY <1>2, <1>11, <2>1 DEF QuietInv
    <2>3. PICK s \in r.by : TRUE
      BY <2>2
    <2>4. /\ jar' = r.set /\ identity' = identity /\ armed' = r.by /\ r.by \subseteq Servers /\ s \in Servers
      BY <1>3, <1>11, <2>1 DEF Flights
    <2>5. ArmedInv'
      BY <1>3, <2>2, <2>4 DEF ArmedInv, Suffices, Opens, IsValid, BindingMatches, KeysOf
    <2>6. /\ r.set # NoCookie /\ IsValid(r.set) /\ r.set.binding = identity /\ r.set.key = Head(keyset[s])
      BY <2>1, <2>2 DEF Suffices, BindingMatches
    <2>7. r.verdict = "refused" =>
             /\ refusals < 2 /\ refusals' \in {refusals, refusals + 1}
             /\ refusals = 1 => /\ EveryoneKnows(r.set.key)
                                /\ \E p, o \in Servers : Head(keyset[p]) # Head(keyset[o])
      BY <1>4, <1>11, <2>1, <2>6, RefusedAgain
    <2>8. refusals \in 0 .. 2 /\ (r.verdict = "accepted" => refusals' = 0)
      BY <1>4 DEF CsrfInv, RefusalInv
    <2>9. /\ refusals' \in 0 .. 2
          /\ refusals' >= 2 => /\ EveryoneKnows(r.set.key)
                               /\ \E p, o \in Servers : Head(keyset[p]) # Head(keyset[o])
      BY <2>2, <2>7, <2>8
    <2>10. RefusalInv'
      <3>1. IsValid(jar)' /\ jar' # NoCookie /\ jar'.binding = identity' /\ jar'.key = Head(keyset'[s])
        BY <1>3, <2>4, <2>6 DEF IsValid
      <3>2. refusals' >= 2 => EveryoneKnows(jar.key)' /\ \E p, o \in Servers : Head(keyset'[p]) # Head(keyset'[o])
        BY <1>3, <2>4, <2>9 DEF EveryoneKnows, KeysOf
      <3> QED
        BY <2>4, <2>9, <3>1, <3>2 DEF RefusalInv
    <2>11. CsrfTyped'
      <3>1. flight' \in [Tabs -> Flights] /\ jar' \in MaybeToken
        BY <1>3, <1>6, <1>7, <2>4 DEF TokenOK
      <3> QED
        BY <1>3, <1>5, <2>4, <2>9, <3>1 DEF CsrfTyped
    <2> QED
      BY <1>6, <1>8, <2>5, <2>10, <2>11 DEF CsrfInv
  <1> QED
    BY <1>10, <1>11


\* A request or an answer is lost.
LEMMA LoseKeeps ==
    ASSUME CsrfInv, NEW t \in Tabs, Lose(t)
    PROVE  CsrfInv'
  BY FlightStep, NoFlightIs DEF CsrfInv, Lose

\* The browser drops an expired cookie: nobody counts on it.
LEMMA JarExpiresKeeps ==
    ASSUME CsrfInv, JarExpires
    PROVE  CsrfInv'
  <1>1. /\ seconds' = seconds /\ keyset' = keyset /\ layered' = layered /\ identity' = identity /\ flight' = flight
        /\ armed' = armed /\ refusals' = refusals /\ jar' = NoCookie /\ jar # NoCookie /\ ~IsValid(jar)
    BY DEF JarExpires
  <1>2. armed = {}
    BY <1>1 DEF CsrfInv, ArmedInv, Suffices
  <1>3. refusals = 0
    BY <1>1 DEF CsrfInv, RefusalInv
  <1>4. CsrfTyped' /\ KeysInv' /\ TokenOK(jar)'
    BY <1>1 DEF CsrfInv, CsrfTyped, KeysInv, TokenOK, MaybeToken
  <1>5. ArmedInv' /\ RefusalInv'
    BY <1>1, <1>2, <1>3 DEF ArmedInv, RefusalInv
  <1>6. \A s, token, i : Suffices(s, token, i)' <=> Suffices(s, token, i)
    BY <1>1 DEF Suffices, Opens, IsValid, BindingMatches, KeysOf
  <1>7. ASSUME NEW u \in Tabs
        PROVE  FlightInv(flight[u])'
    <2>1. PICK q : q = flight[u] /\ q = flight'[u] /\ FlightInv(q)
      BY <1>1 DEF CsrfInv
    <2>2. QuietInv(q) => QuietInv(q)'
      BY <1>1, <1>6 DEF QuietInv, IsValid
    <2>3. FlightInv(q)'
      BY <2>1, <2>2 DEF FlightInv, TokenOK
    <2> QED
      BY <2>1, <2>3
  <1> QED
    BY <1>4, <1>5, <1>7 DEF CsrfInv

\* A new key before a run, and the oldest off it.
LEMMA RunGrows ==
    ASSUME NEW q, KeyRun(q), Head(q) < MaxKey
    PROVE  /\ KeyRun(<<Head(q) + 1>> \o q) /\ Head(<<Head(q) + 1>> \o q) = Head(q) + 1
           /\ (<<Head(q) + 1>> \o q)[Len(<<Head(q) + 1>> \o q)] = q[Len(q)]
  <1>1. /\ q \in Seq(1 .. MaxKey) /\ Len(q) \in Nat \ {0} /\ Head(q) \in 1 .. MaxKey /\ MaxKey \in Nat
        /\ \A i \in 1 .. Len(q) : q[i] = Head(q) + 1 - i
    BY RunIs, CsrfAssumption
  <1>2. PICK h, n : h = Head(q) /\ n = Len(q)
    OBVIOUS
  <1>3. PICK g : g = <<h + 1>> \o q
    OBVIOUS
  <1>4. h + 1 \in 1 .. MaxKey /\ h \in Int /\ n \in Nat \ {0}
    BY <1>1, <1>2
  <1>5. <<h + 1>> \in Seq(1 .. MaxKey) /\ Len(<<h + 1>>) = 1 /\ <<h + 1>>[1] = h + 1
    BY <1>4
  <1>6. g \in Seq(1 .. MaxKey) /\ Len(g) = n + 1 /\ \A i \in 1 .. n + 1 : g[i] = IF i <= 1 THEN <<h + 1>>[i] ELSE q[i - 1]
    BY <1>1, <1>2, <1>3, <1>4, <1>5, ConcatProperties
  <1>7. g[1] = h + 1 /\ g[n + 1] = q[n]
    BY <1>4, <1>5, <1>6
  <1>8. ASSUME NEW i \in 1 .. n + 1
        PROVE  g[i] = h + 2 - i
    <2>1. CASE i = 1
      BY <1>4, <1>7, <2>1
    <2>2. CASE i # 1
      <3>1. i - 1 \in 1 .. n /\ g[i] = q[i - 1]
        BY <1>4, <1>6, <2>2
      <3>2. q[i - 1] = h + 1 - (i - 1)
        BY <1>1, <1>2, <3>1
      <3> QED
        BY <1>4, <3>1, <3>2
    <2> QED
      BY <2>1, <2>2
  <1>9. g # <<>> /\ Head(g) = g[1]
    BY <1>4, <1>6, HeadTailProperties
  <1>10. KeyRun(g)
    BY <1>4, <1>6, <1>7, <1>8, <1>9 DEF KeyRun
  <1> QED
    BY <1>2, <1>3, <1>6, <1>7, <1>9, <1>10

\* A keyset that retires its oldest key is still a run of consecutive keys.
LEMMA RunShrinks ==
    ASSUME NEW q, KeyRun(q), Len(q) > 1
    PROVE  /\ KeyRun(SubSeq(q, 1, Len(q) - 1)) /\ Head(SubSeq(q, 1, Len(q) - 1)) = Head(q)
           /\ SubSeq(q, 1, Len(q) - 1)[Len(SubSeq(q, 1, Len(q) - 1))] = q[Len(q)] + 1
  <1>1. /\ q \in Seq(1 .. MaxKey) /\ Len(q) \in Nat \ {0} /\ Head(q) = q[1] /\ Head(q) \in 1 .. MaxKey /\ MaxKey \in Nat
        /\ \A i \in 1 .. Len(q) : q[i] \in 1 .. MaxKey /\ q[i] = Head(q) + 1 - i
    BY RunIs, CsrfAssumption
  <1>2. PICK h, n : h = Head(q) /\ n = Len(q)
    OBVIOUS
  <1>3. PICK g : g = SubSeq(q, 1, n - 1)
    OBVIOUS
  <1>4. h \in Int /\ n \in Nat /\ n > 1 /\ n - 1 \in Nat /\ n - 1 >= 1
    BY <1>1, <1>2
  <1>5. /\ g \in Seq(1 .. MaxKey) /\ Len(g) = n - 1
        /\ \A i \in 1 .. n - 1 : g[i] = q[i]
    <2>1. \A i \in 1 .. n - 1 : q[i] \in 1 .. MaxKey
      BY <1>1, <1>2, <1>4
    <2>2. /\ g \in Seq(1 .. MaxKey) /\ Len(g) = IF 1 <= n - 1 THEN (n - 1) - 1 + 1 ELSE 0
          /\ \A i \in 1 .. (n - 1) - 1 + 1 : g[i] = q[1 + i - 1]
      BY <1>3, <1>4, <2>1, SubSeqProperties
    <2> QED
      BY <1>4, <2>2
  <1>6. g # <<>> /\ Head(g) = g[1] /\ g[1] = h /\ g[n - 1] = h + 2 - n /\ q[n] = h + 1 - n
    <2>1. g # <<>> /\ Head(g) = g[1]
      BY <1>4, <1>5
    <2>2. 1 \in 1 .. n - 1 /\ n - 1 \in 1 .. n - 1 /\ n - 1 \in 1 .. n /\ n \in 1 .. n
      BY <1>4
    <2>3. g[1] = q[1] /\ g[n - 1] = q[n - 1]
      BY <1>5, <2>2
    <2>4. \A i \in 1 .. n : q[i] = h + 1 - i
      BY <1>1, <1>2
    <2>5. q[n - 1] = h + 1 - (n - 1) /\ q[n] = h + 1 - n
      BY <2>2, <2>4
    <2> QED
      BY <1>1, <1>2, <1>4, <2>1, <2>3, <2>5
  <1>7. KeyRun(g)
    BY <1>1, <1>2, <1>4, <1>5, <1>6 DEF KeyRun
  <1> QED
    BY <1>1, <1>2, <1>3, <1>4, <1>5, <1>6, <1>7


\* A key is added.
LEMMA RotateKeeps ==
    ASSUME CsrfInv, NEW s \in Servers, Rotate(s)
    PROVE  CsrfInv'
  <1>1. KeysInv /\ KeyRun(keyset[s]) /\ Head(keyset[s]) < MaxKey /\ EveryoneKnows(Head(keyset[s]))
    BY DEF CsrfInv, KeysInv, Rotate
  <1>2. PICK h, g : h = Head(keyset[s]) /\ g = <<h + 1>> \o keyset[s]
    OBVIOUS
  <1>3. keyset' = [keyset EXCEPT ![s] = g] /\ Disturbed /\ UNCHANGED <<seconds, layered, identity, jar>>
    BY <1>1, <1>2 DEF Rotate, KeysInv
  <1>4. KeyRun(g) /\ Head(g) = h + 1 /\ g[Len(g)] = keyset[s][Len(keyset[s])] /\ g \in Seq(1 .. MaxKey)
    BY <1>1, <1>2, RunGrows DEF KeyRun
  <1>5. PICK hi, lo : /\ hi = [o \in Servers |-> Head(keyset[o])]
                      /\ lo = [o \in Servers |-> keyset[o][Len(keyset[o])]]
    OBVIOUS
  <1>6. \A o \in Servers : /\ hi[o] \in Nat /\ lo[o] \in Nat /\ lo[o] <= h /\ h <= hi[o]
                           /\ \A p \in Servers : hi[o] <= hi[p] + 1 /\ lo[o] <= hi[p]
    <2>1. \A o \in Servers : hi[o] \in Nat /\ lo[o] \in Nat
      BY <1>1, <1>5, RunEnds, CsrfAssumption
    <2>2. \A o \in Servers : lo[o] <= h /\ h <= hi[o]
      BY <1>1, <1>2, <1>5, KnownIsNotAhead
    <2>3. \A o, p \in Servers : hi[o] <= hi[p] + 1 /\ lo[o] <= hi[p]
      BY <1>1, <1>5 DEF KeysInv
    <2> QED
      BY <2>1, <2>2, <2>3
  <1>7. hi[s] = h
    BY <1>2, <1>5
  <1>8. \A o \in Servers : /\ Head(keyset'[o]) = (IF o = s THEN h + 1 ELSE hi[o])
                           /\ keyset'[o][Len(keyset'[o])] = lo[o]
    BY <1>1, <1>3, <1>4, <1>5 DEF KeysInv
  <1>9. KeysInv'
    <2>1. keyset' \in [Servers -> Seq(1 .. MaxKey)] /\ \A o \in Servers : KeyRun(keyset'[o])
      BY <1>1, <1>3, <1>4 DEF KeysInv
    <2>2. \A o, p \in Servers :
             /\ Head(keyset'[o]) <= Head(keyset'[p]) + 1 /\ keyset'[o][Len(keyset'[o])] <= Head(keyset'[p])
      <3> SUFFICES ASSUME NEW o \in Servers, NEW p \in Servers
                   PROVE  /\ Head(keyset'[o]) <= Head(keyset'[p]) + 1
                          /\ keyset'[o][Len(keyset'[o])] <= Head(keyset'[p])
        OBVIOUS
      <3>1. PICK a, b, c : a = Head(keyset'[o]) /\ b = Head(keyset'[p]) /\ c = keyset'[o][Len(keyset'[o])]
        OBVIOUS
      <3>2. /\ a = (IF o = s THEN h + 1 ELSE hi[o]) /\ b = (IF p = s THEN h + 1 ELSE hi[p]) /\ c = lo[o]
            /\ hi[o] \in Nat /\ hi[p] \in Nat /\ lo[o] \in Nat /\ lo[o] <= h /\ h <= hi[o] /\ h <= hi[p] /\ h \in Nat
            /\ hi[o] <= hi[p] + 1 /\ lo[o] <= hi[p] /\ hi[o] <= h + 1
        BY <1>6, <1>7, <1>8, <3>1
      <3>3. a <= b + 1 /\ c <= b
        BY <3>2
      <3> QED
        BY <3>1, <3>3
    <2> QED
      BY <2>1, <2>2 DEF KeysInv
  <1> QED
    BY <1>3, <1>9, HushedStep DEF CsrfInv, CsrfTyped

\* The oldest key is retired.
LEMMA RetireKeeps ==
    ASSUME CsrfInv, NEW s \in Servers, Retire(s)
    PROVE  CsrfInv'
  <1>1. KeysInv /\ KeyRun(keyset[s]) /\ Len(keyset[s]) > 1 /\ EveryoneKnows(Head(keyset[s]))
    BY DEF CsrfInv, KeysInv, Retire
  <1>2. PICK h, g : h = Head(keyset[s]) /\ g = SubSeq(keyset[s], 1, Len(keyset[s]) - 1)
    OBVIOUS
  <1>3. keyset' = [keyset EXCEPT ![s] = g] /\ Disturbed /\ UNCHANGED <<seconds, layered, identity, jar>>
    BY <1>1, <1>2 DEF Retire, KeysInv
  <1>4. KeyRun(g) /\ Head(g) = h /\ g[Len(g)] = keyset[s][Len(keyset[s])] + 1 /\ g \in Seq(1 .. MaxKey)
    BY <1>1, <1>2, RunShrinks DEF KeyRun
  <1>5. PICK hi, lo : /\ hi = [o \in Servers |-> Head(keyset[o])]
                      /\ lo = [o \in Servers |-> keyset[o][Len(keyset[o])]]
    OBVIOUS
  <1>6. \A o \in Servers : /\ hi[o] \in Nat /\ lo[o] \in Nat /\ h <= hi[o]
                           /\ \A p \in Servers : hi[o] <= hi[p] + 1 /\ lo[o] <= hi[p]
    <2>1. \A o \in Servers : hi[o] \in Nat /\ lo[o] \in Nat
      BY <1>1, <1>5, RunEnds, CsrfAssumption
    <2>2. \A o \in Servers : h <= hi[o]
      BY <1>1, <1>2, <1>5, KnownIsNotAhead
    <2>3. \A o, p \in Servers : hi[o] <= hi[p] + 1 /\ lo[o] <= hi[p]
      BY <1>1, <1>5 DEF KeysInv
    <2> QED
      BY <2>1, <2>2, <2>3
  <1>7. hi[s] = h /\ lo[s] + 1 <= h /\ lo[s] \in Nat /\ h \in Nat
    <2>1. PICK n : n = Len(keyset[s])
      OBVIOUS
    <2>2. hi[s] = h /\ lo[s] = h + 1 - n /\ n \in Nat /\ n > 1 /\ h \in Nat /\ lo[s] \in Nat
      BY <1>1, <1>2, <1>5, <1>6, <2>1, RunEnds
    <2> QED
      BY <2>2
  <1>8. \A o \in Servers : /\ Head(keyset'[o]) = hi[o]
                           /\ keyset'[o][Len(keyset'[o])] = (IF o = s THEN lo[s] + 1 ELSE lo[o])
    BY <1>1, <1>2, <1>3, <1>4, <1>5 DEF KeysInv
  <1>9. KeysInv'
    <2>1. keyset' \in [Servers -> Seq(1 .. MaxKey)] /\ \A o \in Servers : KeyRun(keyset'[o])
      BY <1>1, <1>3, <1>4 DEF KeysInv
    <2>2. \A o, p \in Servers :
             /\ Head(keyset'[o]) <= Head(keyset'[p]) + 1 /\ keyset'[o][Len(keyset'[o])] <= Head(keyset'[p])
      BY <1>6, <1>7, <1>8
    <2> QED
      BY <2>1, <2>2 DEF KeysInv
  <1> QED
    BY <1>3, <1>9, HushedStep DEF CsrfInv, CsrfTyped

\* Time passes.
LEMMA SecondKeeps ==
    ASSUME CsrfInv, SecondPasses
    PROVE  CsrfInv'
  <1>1. seconds' \in 0 .. MaxSeconds /\ Disturbed /\ UNCHANGED <<keyset, layered, identity, jar>>
    BY CsrfAssumption DEF SecondPasses, CsrfInv, CsrfTyped
  <1>2. KeysInv'
    BY <1>1 DEF CsrfInv, KeysInv
  <1> QED
    BY <1>1, <1>2, HushedStep

\* An empty jar, idle tabs and servers with the first key.
LEMMA CsrfInitInv == CsrfInit => CsrfInv
  <1> SUFFICES ASSUME CsrfInit PROVE CsrfInv
    OBVIOUS
  <1>1. MaxSeconds \in Nat /\ MaxKey \in Nat \ {0} /\ 1 \in 1 .. MaxKey
    BY CsrfAssumption
  <1>2. CsrfTyped
    <2>1. (CHOOSE i \in Identities : TRUE) \in Identities
      BY DEF CsrfInit
    <2>2. NoFlight \in Flights
      BY <2>1 DEF NoFlight, Flights, MaybeToken
    <2> QED
      BY <1>1, <2>2 DEF CsrfTyped, CsrfInit, MaybeToken
  <1>3. KeyRun(<<1>>) /\ Head(<<1>>) = 1 /\ Len(<<1>>) = 1 /\ <<1>>[1] = 1 /\ <<1>> \in Seq(1 .. MaxKey)
    BY <1>1 DEF KeyRun
  <1>4. KeysInv
    BY <1>3 DEF CsrfInit, KeysInv
  <1>5. \A t \in Tabs : FlightInv(flight[t])
    BY <1>2, NoFlightIs DEF CsrfInit
  <1> QED
    BY <1>2, <1>4, <1>5 DEF CsrfInit, CsrfInv, TokenOK, MaybeToken, ArmedInv, RefusalInv

\* The invariant of the CSRF cookie is inductive.
LEMMA CsrfNextKeeps == CsrfInv /\ [CsrfNext]_csrfVars => CsrfInv'
  <1> SUFFICES ASSUME CsrfInv, [CsrfNext]_csrfVars PROVE CsrfInv'
    OBVIOUS
  <1>1. CASE UNCHANGED csrfVars
    <2>1. /\ seconds' = seconds /\ keyset' = keyset /\ layered' = layered /\ identity' = identity
          /\ jar' = jar /\ armed' = armed /\ refusals' = refusals /\ flight' = flight
      BY <1>1 DEF csrfVars
    <2> QED
      BY <2>1 DEF CsrfInv, CsrfTyped, KeysInv, TokenOK, ArmedInv, RefusalInv, FlightInv, QuietInv, Suffices, Opens,
                  IsValid, BindingMatches, KeysOf, EveryoneKnows
  <1>2. ASSUME NEW t \in Tabs, Browsing(t, Servers)
        PROVE  CsrfInv'
    <2>1. CASE Receive(t)
      BY <2>1, QuietReceiveKeeps, ReceiveKeeps
    <2>2. CASE Lose(t)
      BY <2>2, LoseKeeps
    <2>3. CASE \E safe, matches \in BOOLEAN : Send(t, safe, matches)
      BY <2>3, SendKeeps
    <2>4. CASE \E s \in Servers :
                  \/ SafeCall(t, s) \/ ImproperCall(t, s)
                  \/ UnsafeCallRefused(t, s) \/ UnsafeCallAccepted(t, s)
                  \/ \E i \in Identities, cycles \in BOOLEAN : Login(t, s, i, cycles)
      <3>1. identity \in Identities /\ TRUE \in BOOLEAN
        BY DEF CsrfInv, CsrfTyped
      <3> QED
        BY <2>4, <3>1, CallsKeep
    <2> QED
      BY <1>2, <2>1, <2>2, <2>3, <2>4 DEF Browsing
  <1>3. CASE Time
    BY <1>3, JarExpiresKeeps, SecondKeeps DEF Time
  <1>4. CASE Deployment
    BY <1>4, RotateKeeps, RetireKeeps DEF Deployment
  <1> QED
    BY <1>1, <1>2, <1>3, <1>4 DEF CsrfNext

\* The invariant.
THEOREM CsrfInvariance == CsrfSpec => []CsrfInv
  <1> QED
    BY CsrfInitInv, CsrfNextKeeps, PTL DEF CsrfSpec

\* Servers, time and keys may do what they want: a server never refuses a request
\* under the cookie it has answered under, refusals do not go on, and no unsafe
\* request is answered with the token of another identity (src/src/web/csrf).
THEOREM CsrfSoundness == CsrfSpec => []CsrfIsSound
  <1>1. CsrfInv => CsrfIsSound
    <2> SUFFICES ASSUME CsrfInv PROVE CsrfIsSound
      OBVIOUS
    <2>1. CsrfTypeOK
      <3>1. ASSUME NEW s \in Servers
            PROVE  keyset[s] # <<>> /\ \A i \in 1 .. Len(keyset[s]) : keyset[s][i] \in 1 .. MaxKey
        BY RunIs DEF CsrfInv, KeysInv
      <3>2. ASSUME NEW t \in Tabs
            PROVE  /\ flight[t].at \in {"idle", "request", "response"}
                   /\ {flight[t].cookie, flight[t].set} \subseteq MaybeToken
                   /\ flight[t].verdict \in {"none", "accepted", "failed", "refused"} \union Identities
                   /\ flight[t].at = "idle" => flight[t] = NoFlight
        <4>1. flight[t] \in Flights /\ FlightInv(flight[t])
          BY DEF CsrfInv, CsrfTyped
        <4> QED
          BY <4>1 DEF Flights, FlightInv
      <3> QED
        BY <3>1, <3>2 DEF CsrfTypeOK, CsrfInv, CsrfTyped
    <2>2. AnsweredIsAccepted
      <3> SUFFICES ASSUME NEW t \in Tabs, flight[t].verdict = "refused", flight[t].quiet, flight[t].matches,
                          NEW s \in flight[t].by, s \in armed
                   PROVE  FALSE
        BY DEF AnsweredIsAccepted
      <3>1. QuietInv(flight[t])
        BY DEF CsrfInv, FlightInv
      <3>2. Suffices(s, jar, identity) /\ ~Suffices(s, flight[t].cookie, identity)
        BY <3>1 DEF CsrfInv, ArmedInv, QuietInv
      <3>3. jar # NoCookie
        BY <3>2 DEF Suffices, Opens
      <3> QED
        BY <3>1, <3>2, <3>3 DEF QuietInv
    <2>3. RefusalsAreBounded
      <3>1. refusals \in 0 .. 2 /\ (refusals >= 2 => \E s, o \in Servers : Head(keyset[s]) # Head(keyset[o]))
        BY DEF CsrfInv, RefusalInv
      <3> QED
        BY <3>1 DEF RefusalsAreBounded
    <2>4. AcceptedForItsIdentity
      <3>1. ASSUME NEW t \in Tabs
            PROVE  FlightInv(flight[t])
        BY DEF CsrfInv
      <3> QED
        BY <3>1 DEF AcceptedForItsIdentity, FlightInv, TokenOK
    <2> QED
      BY <2>1, <2>2, <2>3, <2>4 DEF CsrfIsSound
  <1> QED
    BY <1>1, CsrfInvariance, PTL


-----------------------------------------------------------------------------
(***************************************************************************)
(* The throttler.  What a caller was granted is in the record for as long  *)
(* as it counts; what a mutation with an old timestamp may do to others    *)
(* follows from the timestamps being no later than now.                    *)
(***************************************************************************)
Levels == 0 .. Requests * Interval

Records ==
    [present : BOOLEAN, expires : Nat, tokens : Levels, last_refill : Nat,
     slots : [SlotIds -> [holder : Callers \union {NoHolder}, expires : Nat]],
     failures : Nat, circuit : {"open", "closed"}, opened_at : Int,
     probe_holder : Callers \union {NoHolder}, probe_expires : Int]

CallRecords == [ts : Nat, saw : BOOLEAN]

Permits == [slot : {0} \union SlotIds, slot_until : Nat, probe : BOOLEAN, probe_until : Nat]

Beats ==
    [pc : {"none", "sleeping", "extending"}, call : CallRecords, failures : 0 .. MaxBeatFailures - 1]

Rates == [admitted : Nat, since : Nat, paid : Int, rewound : Nat]

ThrottlerTyped ==
    /\ now \in 0 .. MaxTime
    /\ state \in Records
    /\ pc \in [Callers -> {"idle", "acquiring", "holding", "releasing", "cleaning", "done"}]
    /\ call \in [Callers -> CallRecords]
    /\ permit \in [Callers -> Permits]
    /\ outcome \in [Callers -> {"none", "NotExecuted", "Succeeded", "Failed"}]
    /\ beat \in [Callers -> Beats]
    /\ rate \in Rates

\* No time in the record is later than the mutation at n may have made it.
RecordInv(st, n) ==
    /\ st.last_refill <= n /\ st.expires <= n + StateTtl
    /\ \A i \in SlotIds : st.slots[i].expires <= n + MaxHold
    /\ st.circuit = "open" => st.opened_at \in 0 .. n
    /\ st.circuit = "closed" => st.failures < Threshold
    /\ st.probe_holder = NoHolder <=> st.probe_expires = NoTime

\* What the record says of a permit while it counts.
SlotIsHeld(c, m, st) ==
    /\ m.slot \in SlotIds /\ st.slots[m.slot] = [holder |-> c, expires |-> m.slot_until]
    /\ st.present /\ m.slot_until <= st.expires

ProbeIsHeld(c, m, st) ==
    /\ st.probe_holder = c /\ m.probe_until <= st.probe_expires
    /\ st.present /\ m.probe_until <= st.expires

\* A caller at p with the statement k, the permit m and the heartbeat b at time n.
CallerOK(c, p, k, m, b, st, n) ==
    /\ k.ts <= n /\ b.call.ts <= n /\ m.probe_until <= n + ProbeWindow
    /\ b.pc = "extending" => m.probe_until <= b.call.ts + ProbeWindow
    /\ p \in {"idle", "acquiring"} => b.pc = "none"
    /\ (p = "holding" /\ n < m.slot_until) => SlotIsHeld(c, m, st)
    /\ (p = "holding" /\ m.probe /\ n < m.probe_until) => ProbeIsHeld(c, m, st)

CallerInv(c) == CallerOK(c, pc[c], call[c], permit[c], beat[c], state, now)

\* What the bucket has let pass and what it still holds was paid out.
BucketOK(st, r, n) ==
    HasRate =>
        /\ r.paid <= n
        /\ r.admitted * Interval <= Requests * (Interval + r.paid - r.since + r.rewound)
        /\ st.present => /\ st.last_refill = r.paid
                         /\ r.admitted * Interval + st.tokens <= Requests * (Interval + r.paid - r.since + r.rewound)

ThrottlerInv == ThrottlerTyped /\ RecordInv(state, now) /\ BucketOK(state, rate, now) /\ \A c \in Callers : CallerInv(c)

\* The configuration.
LEMMA Config ==
    /\ Requests \in Nat \ {0} /\ Interval \in Nat \ {0} /\ MaxConcurrent \in Nat \ {0} /\ MaxHold \in Nat \ {0}
    /\ Threshold \in Nat \ {0} /\ Recovery \in Nat \ {0} /\ ProbeWindow \in Nat \ {0} /\ MaxCount \in Nat \ {0}
    /\ MaxBeatFailures \in Nat \ {0} /\ Threshold <= MaxCount /\ MaxTime \in Nat /\ StateTtl \in Nat
    /\ Interval <= StateTtl /\ MaxHold <= StateTtl /\ ProbeWindow <= StateTtl
    /\ HasRate \in BOOLEAN /\ HasSlots \in BOOLEAN /\ HasCircuit \in BOOLEAN /\ NoHolder \notin Callers
  BY ConfigAssumption, HolderAssumption

\* Products.
LEMMA Products ==
    ASSUME NEW n \in Nat, NEW x \in Int, NEW y \in Int
    PROVE  /\ n * x \in Int /\ n * (x + y) = n * x + n * y
           /\ x <= y => n * x <= n * y
           /\ x \in Nat => n * x \in Nat
  OBVIOUS

\* The smallest of a set of numbers.
LEMMA LeastOf ==
    ASSUME NEW T \in SUBSET Nat, T # {}
    PROVE  Min(T) \in T /\ \A y \in T : Min(T) <= y
  <1>1. PICK R : IsWellFoundedOn(R, Nat) /\ \A x, y \in Nat : y < x => <<y, x>> \in R
    <2>1. \A x, y \in Nat : y < x => <<y, x>> \in OpToRel(<, Nat)
      BY DEF OpToRel
    <2> QED
      BY <2>1, NatLessThanWellFounded
  <1>2. PICK x \in T : \A y \in T : ~(<<y, x>> \in R)
    BY <1>1, WFMin
  <1>3. ASSUME NEW y \in T
        PROVE  x <= y
    <2>1. x \in Nat /\ y \in Nat /\ <<y, x>> \notin R
      BY <1>2
    <2>2. ~(y < x)
      BY <1>1, <2>1
    <2> QED
      BY <2>1, <2>2
  <1> QED
    BY <1>3 DEF Min

\* The smaller and the larger of two numbers.
LEMMA OfTwo ==
    ASSUME NEW x \in Int, NEW y \in Int
    PROVE  /\ Min({x, y}) = (IF x <= y THEN x ELSE y)
           /\ Max({x, y}) = (IF x <= y THEN y ELSE x)
  <1>1. PICK lo \in {x, y} : lo = (IF x <= y THEN x ELSE y)
    OBVIOUS
  <1>2. PICK hi \in {x, y} : hi = (IF x <= y THEN y ELSE x)
    OBVIOUS
  <1>3. Min({x, y}) = lo
    <2>1. lo \in {x, y} /\ \A z \in {x, y} : lo <= z
      BY <1>1
    <2>2. Min({x, y}) \in {x, y} /\ \A z \in {x, y} : Min({x, y}) <= z
      BY <2>1 DEF Min
    <2> QED
      BY <2>1, <2>2
  <1>4. Max({x, y}) = hi
    <2>1. hi \in {x, y} /\ \A z \in {x, y} : hi >= z
      BY <1>2
    <2>2. Max({x, y}) \in {x, y} /\ \A z \in {x, y} : Max({x, y}) >= z
      BY <2>1 DEF Max
    <2> QED
      BY <2>1, <2>2
  <1> QED
    BY <1>1, <1>2, <1>3, <1>4


\* What max(0, z) is, for the clamped elapsed times.
LEMMA OverZero == \A z \in Int : Max({0, z}) = (IF 0 <= z THEN z ELSE 0)
  BY OfTwo

\* What a mutation by c leaves to the others: their slots and their probe, for as
\* long as they count.
Preserves(c, st, new, n) ==
    \/ ~st.present \/ st.expires <= n
    \/ /\ new.present /\ st.expires <= new.expires
       /\ \A i \in SlotIds :
             (st.slots[i].holder \notin {c, NoHolder} /\ n < st.slots[i].expires) => new.slots[i] = st.slots[i]
       /\ (st.probe_holder \notin {c, NoHolder} /\ n < st.probe_expires) =>
             new.probe_holder = st.probe_holder /\ new.probe_expires = st.probe_expires

\* What a step of c leaves to the others besides.
Others(c) ==
    \A d \in Callers : d # c =>
        pc'[d] = pc[d] /\ call'[d] = call[d] /\ permit'[d] = permit[d] /\ beat'[d] = beat[d]

CallersTyped ==
    /\ pc \in [Callers -> {"idle", "acquiring", "holding", "releasing", "cleaning", "done"}]
    /\ call \in [Callers -> CallRecords]
    /\ permit \in [Callers -> Permits]
    /\ outcome \in [Callers -> {"none", "NotExecuted", "Succeeded", "Failed"}]
    /\ beat \in [Callers -> Beats]

\* A step of one caller or its heartbeat.
LEMMA CallerStep ==
    ASSUME ThrottlerInv, NEW c \in Callers, now' = now, CallersTyped', Others(c),
           state' \in Records, RecordInv(state', now), Preserves(c, state, state', now),
           rate' \in Rates, BucketOK(state', rate', now),
           CallerOK(c, pc'[c], call'[c], permit'[c], beat'[c], state', now)
    PROVE  ThrottlerInv'
  <1>1. ThrottlerTyped'
    BY DEF ThrottlerInv, ThrottlerTyped, CallersTyped
  <1>2. RecordInv(state, now)' /\ BucketOK(state, rate, now)'
    BY DEF RecordInv, BucketOK
  <1>3. ASSUME NEW d \in Callers
        PROVE  CallerInv(d)'
    <2>1. PICK n, new : n = now /\ new = state'
      OBVIOUS
    <2>2. CASE d = c
      <3>1. CallerOK(c, pc'[c], call'[c], permit'[c], beat'[c], new, n)
        BY <2>1
      <3> QED
        BY <2>1, <2>2, <3>1 DEF CallerInv
    <2>3. CASE d # c
      <3>1. PICK m \in Permits : m = permit[d]
        BY DEF ThrottlerInv, ThrottlerTyped
      <3>2. CallerOK(d, pc[d], call[d], m, beat[d], state, n)
        BY <2>1, <3>1 DEF ThrottlerInv, CallerInv
      <3>3. n \in Nat /\ state.expires \in Nat /\ new.expires \in Nat /\ state.probe_expires \in Int /\ d # NoHolder
        BY <2>1, Config DEF ThrottlerInv, ThrottlerTyped, Records
      <3>4. (n < m.slot_until /\ SlotIsHeld(d, m, state)) => SlotIsHeld(d, m, new)
        BY <2>1, <2>3, <3>1, <3>3 DEF Preserves, SlotIsHeld, Permits
      <3>5. (n < m.probe_until /\ ProbeIsHeld(d, m, state)) => ProbeIsHeld(d, m, new)
        BY <2>1, <2>3, <3>1, <3>3 DEF Preserves, ProbeIsHeld, Permits
      <3>6. CallerOK(d, pc[d], call[d], m, beat[d], new, n)
        BY <3>2, <3>4, <3>5 DEF CallerOK
      <3>7. pc'[d] = pc[d] /\ call'[d] = call[d] /\ permit'[d] = m /\ beat'[d] = beat[d]
        BY <2>3, <3>1 DEF Others
      <3> QED
        BY <2>1, <3>6, <3>7 DEF CallerInv
    <2> QED
      BY <2>2, <2>3
  <1> QED
    BY <1>1, <1>2, <1>3 DEF ThrottlerInv

\* A step that leaves the record alone.
LEMMA QuietStep ==
    ASSUME ThrottlerInv, NEW c \in Callers, UNCHANGED <<now, state, rate>>, CallersTyped', Others(c),
           CallerOK(c, pc'[c], call'[c], permit'[c], beat'[c], state, now)
    PROVE  ThrottlerInv'
  <1>1. now' = now /\ state' = state /\ rate' = rate
    OBVIOUS
  <1>2. /\ state \in Records /\ rate \in Rates /\ RecordInv(state, now) /\ BucketOK(state, rate, now)
    BY DEF ThrottlerInv, ThrottlerTyped
  <1>3. Preserves(c, state, state, now)
    <2>1. state.expires \in Nat
      BY <1>2 DEF Records
    <2> QED
      BY <2>1 DEF Preserves
  <1> QED
    BY <1>1, <1>2, <1>3, CallerStep

\* The values that stand for nothing, and a new statement.
LEMMA Nothings ==
    ASSUME ThrottlerInv
    PROVE  /\ NoCall \in CallRecords /\ NoCall.ts = 0 /\ NewCall \in CallRecords /\ NewCall.ts = now
           /\ NoPermit \in Permits /\ NoBeat \in Beats /\ NoBeat.pc = "none" /\ now \in Nat
           /\ NoCall.ts <= now /\ NewCall.ts <= now
  <1>1. now \in Nat /\ state.present \in BOOLEAN /\ MaxBeatFailures \in Nat \ {0}
    BY Config DEF ThrottlerInv, ThrottlerTyped, Records
  <1>2. NoCall \in CallRecords /\ NoCall.ts = 0 /\ NewCall \in CallRecords /\ NewCall.ts = now
    BY <1>1 DEF NoCall, NewCall, CallRecords
  <1>3. NoPermit \in Permits
    BY DEF NoPermit, Permits
  <1>4. NoBeat \in Beats /\ NoBeat.pc = "none"
    BY <1>1, <1>2 DEF NoBeat, Beats
  <1> QED
    BY <1>1, <1>2, <1>3, <1>4

\* A caller that has not got its permit yet, or no longer has it.
LEMMA NotHolding ==
    ASSUME ThrottlerInv, NEW c \in Callers
    PROVE  \A p, st : \A k \in {NoCall, NewCall}, m \in {permit[c], NoPermit}, b \in {beat[c], NoBeat} :
              (p # "holding" /\ (p \in {"idle", "acquiring"} => b.pc = "none")) => CallerOK(c, p, k, m, b, st, now)
  <1>1. CallerOK(c, pc[c], call[c], permit[c], beat[c], state, now)
    BY DEF ThrottlerInv, CallerInv
  <1>2. now \in Nat /\ ProbeWindow \in Nat /\ permit[c] \in Permits /\ beat[c] \in Beats
    BY Config DEF ThrottlerInv, ThrottlerTyped
  <1>3. NoPermit.probe_until = 0 /\ NoBeat.call.ts = 0 /\ NoBeat.pc = "none"
    BY DEF NoPermit, NoBeat, NoCall
  <1>4. beat[c].call.ts \in Nat
    BY <1>2 DEF Beats, CallRecords
  <1>5. NoCall.ts <= now /\ NewCall.ts <= now
    BY Nothings
  <1> QED
    BY <1>1, <1>2, <1>3, <1>4, <1>5 DEF CallerOK


\* The types and times of one caller, as its steps need them.
LEMMA CallersAre ==
    ASSUME ThrottlerInv, NEW c \in Callers
    PROVE  /\ CallersTyped /\ call[c] \in CallRecords /\ permit[c] \in Permits /\ beat[c] \in Beats
           /\ beat[c].call \in CallRecords /\ call[c].ts \in Nat /\ beat[c].call.ts \in Nat
           /\ call[c].ts <= now /\ beat[c].call.ts <= now
  BY DEF ThrottlerInv, ThrottlerTyped, CallersTyped, CallerInv, CallerOK, CallRecords, Beats

\* A caller leaves: it is no longer holding, whatever happens to the record.
LEMMA Leaves ==
    ASSUME ThrottlerInv, NEW c \in Callers, NEW o \in {"none", "NotExecuted", "Succeeded", "Failed"},
           Finish(c) \/ Cleanup(c, o)
    PROVE  /\ CallersTyped' /\ Others(c)
           /\ \A st : CallerOK(c, pc'[c], call'[c], permit'[c], beat'[c], st, now)
  <1>1. CallersTyped /\ NoCall \in CallRecords /\ NewCall \in CallRecords /\ NoPermit \in Permits /\ NoBeat \in Beats
    BY CallersAre, Nothings
  <1>2. CASE Finish(c)
    <2>1. PICK b \in {beat[c], NoBeat} : beat' = Set(beat, c, b)
      <3>1. beat' \in {beat, Set(beat, c, NoBeat)}
        BY <1>2 DEF Finish
      <3>2. beat = Set(beat, c, beat[c])
        BY <1>1 DEF Set, CallersTyped
      <3> QED
        BY <3>1, <3>2
    <2>2. /\ pc' = [pc EXCEPT ![c] = "done"] /\ call' = [call EXCEPT ![c] = NoCall]
          /\ permit' = [permit EXCEPT ![c] = NoPermit] /\ outcome' = [outcome EXCEPT ![c] = "none"]
          /\ beat' = [beat EXCEPT ![c] = b]
      BY <1>2, <2>1 DEF Finish, LosePermit, Set
    <2>3. CallersTyped' /\ Others(c)
      BY <1>1, <2>1, <2>2 DEF CallersTyped, Others
    <2>4. \A st : CallerOK(c, "done", NoCall, NoPermit, b, st, now)
      BY NotHolding
    <2> QED
      BY <1>1, <2>2, <2>3, <2>4 DEF CallersTyped
  <1>3. CASE ~Finish(c)
    <2>1. /\ pc' = [pc EXCEPT ![c] = "cleaning"] /\ call' = [call EXCEPT ![c] = NewCall]
          /\ permit' = permit /\ outcome' = [outcome EXCEPT ![c] = o] /\ beat' = beat
      BY <1>3 DEF Cleanup, Set
    <2>2. CallersTyped' /\ Others(c)
      BY <1>1, <2>1 DEF CallersTyped, Others
    <2>3. \A st : CallerOK(c, "cleaning", NewCall, permit[c], beat[c], st, now)
      BY NotHolding
    <2> QED
      BY <1>1, <2>1, <2>2, <2>3 DEF CallersTyped
  <1> QED
    BY <1>2, <1>3

\* The steps of a caller that leave the record alone.
LEMMA BeginsKeep ==
    ASSUME ThrottlerInv, NEW c \in Callers, BeginAcquire(c) \/ AcquireRollsBack(c) \/ LockAgain(c)
    PROVE  ThrottlerInv'
  <1>1. CallersTyped /\ NoCall \in CallRecords /\ NewCall \in CallRecords /\ NoCall.ts = 0 /\ NewCall.ts = now /\ now \in Nat
    BY CallersAre, Nothings
  <1>2. CallerOK(c, pc[c], call[c], permit[c], beat[c], state, now) /\ pc[c] # "holding"
    BY DEF ThrottlerInv, CallerInv, BeginAcquire, AcquireRollsBack, LockAgain
  <1>3. PICK p \in {"idle", "acquiring", "releasing", "cleaning"}, k \in {NoCall, NewCall} :
           /\ pc' = [pc EXCEPT ![c] = p] /\ call' = [call EXCEPT ![c] = k]
           /\ p \in {"idle", "acquiring"} => pc[c] \in {"idle", "acquiring"}
    <2>1. CASE BeginAcquire(c)
      BY <2>1 DEF BeginAcquire, Set
    <2>2. CASE AcquireRollsBack(c)
      BY <2>2 DEF AcquireRollsBack, Set
    <2>3. CASE LockAgain(c)
      <3>1. pc = [pc EXCEPT ![c] = pc[c]]
        BY <1>1 DEF CallersTyped
      <3> QED
        BY <2>3, <3>1 DEF LockAgain, Set
    <2> QED
      BY <2>1, <2>2, <2>3
  <1>4. UNCHANGED <<now, state, rate>> /\ permit' = permit /\ beat' = beat /\ outcome' = outcome
    BY DEF BeginAcquire, AcquireRollsBack, LockAgain
  <1>5. CallersTyped' /\ Others(c)
    BY <1>1, <1>3, <1>4 DEF CallersTyped, Others
  <1>6. p \in {"idle", "acquiring"} => beat[c].pc = "none"
    BY <1>2, <1>3 DEF CallerOK
  <1>7. CallerOK(c, p, k, permit[c], beat[c], state, now)
    BY <1>1, <1>3, <1>6, NotHolding
  <1>8. pc'[c] = p /\ call'[c] = k
    BY <1>1, <1>3 DEF CallersTyped
  <1> QED
    BY <1>4, <1>5, <1>7, <1>8, QuietStep

\* Release, drop and crash leave the record to the statement that follows.
LEMMA LeavesKeep ==
    ASSUME ThrottlerInv, NEW c \in Callers,
           \/ \E result \in {"NotExecuted", "Succeeded", "Failed"} : ReleasePermit(c, result)
           \/ \E result \in {"NotExecuted", "Failed"} : DropGuard(c, result)
           \/ Crash(c)
    PROVE  ThrottlerInv'
  <1>1. CallersTyped /\ NoCall \in CallRecords /\ NewCall \in CallRecords /\ NoPermit \in Permits /\ NoBeat \in Beats
    BY CallersAre, Nothings
  <1>2. UNCHANGED <<now, state, rate>>
    BY DEF ReleasePermit, DropGuard, Crash
  <1>3. ASSUME NEW o \in {"NotExecuted", "Succeeded", "Failed"}, Finish(c) \/ Cleanup(c, o)
        PROVE  ThrottlerInv'
    BY <1>2, <1>3, Leaves, QuietStep
  <1>4. CASE \E result \in {"NotExecuted", "Failed"} : DropGuard(c, result)
    BY <1>3, <1>4 DEF DropGuard
  <1>5. CASE \E result \in {"NotExecuted", "Succeeded", "Failed"} : ReleasePermit(c, result)
    <2>1. PICK o \in {"NotExecuted", "Succeeded", "Failed"} : ReleasePermit(c, o)
      BY <1>5
    <2>2. CASE Finish(c)
      BY <1>3, <2>2
    <2>3. CASE ~Finish(c)
      <3>1. /\ pc' = [pc EXCEPT ![c] = "releasing"] /\ call' = [call EXCEPT ![c] = NewCall]
            /\ permit' = permit /\ outcome' = [outcome EXCEPT ![c] = o] /\ beat' = beat
        BY <2>1, <2>3 DEF ReleasePermit, Set
      <3>2. CallersTyped' /\ Others(c)
        BY <1>1, <3>1 DEF CallersTyped, Others
      <3>3. CallerOK(c, "releasing", NewCall, permit[c], beat[c], state, now)
        BY NotHolding
      <3>4. pc'[c] = "releasing" /\ call'[c] = NewCall
        BY <1>1, <3>1 DEF CallersTyped
      <3> QED
        BY <1>2, <3>1, <3>2, <3>3, <3>4, QuietStep
    <2> QED
      BY <2>2, <2>3
  <1>6. CASE Crash(c)
    <2>1. /\ pc' = [pc EXCEPT ![c] = "done"] /\ call' = [call EXCEPT ![c] = NoCall]
          /\ permit' = [permit EXCEPT ![c] = NoPermit] /\ outcome' = [outcome EXCEPT ![c] = "none"]
          /\ beat' = [beat EXCEPT ![c] = NoBeat]
      BY <1>6 DEF Crash, LosePermit, Set
    <2>2. CallersTyped' /\ Others(c)
      BY <1>1, <2>1 DEF CallersTyped, Others
    <2>3. CallerOK(c, "done", NoCall, NoPermit, NoBeat, state, now)
      BY NotHolding
    <2>4. pc'[c] = "done" /\ call'[c] = NoCall /\ permit'[c] = NoPermit /\ beat'[c] = NoBeat
      BY <1>1, <2>1 DEF CallersTyped
    <2> QED
      BY <1>2, <2>2, <2>3, <2>4, QuietStep
  <1> QED
    BY <1>4, <1>5, <1>6


\* The fields of the record, and a caller.
LEMMA RecordIs ==
    ASSUME ThrottlerInv
    PROVE  /\ state \in Records /\ state.present \in BOOLEAN /\ state.expires \in Nat /\ state.last_refill \in Nat
           /\ state.tokens \in Levels
           /\ state.slots \in [SlotIds -> [holder : Callers \union {NoHolder}, expires : Nat]]
           /\ state.failures \in Nat /\ state.circuit \in {"open", "closed"} /\ state.opened_at \in Int
           /\ state.probe_holder \in Callers \union {NoHolder} /\ state.probe_expires \in Int
           /\ RecordInv(state, now) /\ BucketOK(state, rate, now) /\ rate \in Rates /\ now \in 0 .. MaxTime /\ now \in Nat
  BY Config DEF ThrottlerInv, ThrottlerTyped, Records

\* The heartbeat of a caller sends a statement.
LEMMA BeatsKeep ==
    ASSUME ThrottlerInv, NEW c \in Callers, BeatWakes(c) \/ ExtendAgain(c)
    PROVE  ThrottlerInv'
  <1>1. CallersTyped /\ NewCall \in CallRecords /\ NewCall.ts = now /\ now \in Nat /\ beat[c] \in Beats /\ permit[c] \in Permits
    BY CallersAre, Nothings
  <1>2. CallerOK(c, pc[c], call[c], permit[c], beat[c], state, now) /\ beat[c].pc # "none"
    BY DEF ThrottlerInv, CallerInv, BeatWakes, ExtendAgain
  <1>3. PICK b : b = [beat[c] EXCEPT !.pc = "extending", !.call = NewCall]
    OBVIOUS
  <1>4. b \in Beats /\ b.pc = "extending" /\ b.call = NewCall
    BY <1>1, <1>3 DEF Beats
  <1>5. /\ UNCHANGED <<now, state, rate>> /\ pc' = pc /\ call' = call /\ permit' = permit /\ outcome' = outcome
        /\ beat' = [beat EXCEPT ![c] = b]
    <2>1. CASE BeatWakes(c)
      BY <1>1, <1>3, <2>1 DEF BeatWakes, CallersTyped
    <2>2. CASE ExtendAgain(c)
      <3>1. beat' = [beat EXCEPT ![c] = [beat[c] EXCEPT !.call = NewCall]] /\ beat[c].pc = "extending"
        BY <1>1, <2>2 DEF ExtendAgain, CallersTyped
      <3>2. [beat[c] EXCEPT !.call = NewCall] = b
        BY <1>1, <1>3, <3>1 DEF Beats
      <3> QED
        BY <2>2, <3>1, <3>2 DEF ExtendAgain
    <2> QED
      BY <2>1, <2>2
  <1>6. CallersTyped' /\ Others(c)
    BY <1>1, <1>4, <1>5 DEF CallersTyped, Others
  <1>7. CallerOK(c, pc[c], call[c], permit[c], b, state, now)
    BY <1>1, <1>2, <1>4 DEF CallerOK
  <1>8. beat'[c] = b
    BY <1>1, <1>5 DEF CallersTyped
  <1> QED
    BY <1>5, <1>6, <1>7, <1>8, QuietStep

\* What the bucket holds does not depend on the rest of the record.
LEMMA SameBucket ==
    ASSUME ThrottlerInv, NEW new, new.tokens = state.tokens, new.last_refill = state.last_refill,
           new.present => state.present
    PROVE  BucketOK(new, rate, now)
  BY RecordIs DEF BucketOK

\* What a mutation stores.
LEMMA StoredIs ==
    ASSUME ThrottlerInv, NEW r \in Records
    PROVE  /\ Stored(r) \in Records /\ Stored(r).present = TRUE /\ Stored(r).expires = now + StateTtl
           /\ Stored(r).tokens = r.tokens /\ Stored(r).last_refill = r.last_refill /\ Stored(r).slots = r.slots
           /\ Stored(r).failures = r.failures /\ Stored(r).circuit = r.circuit /\ Stored(r).opened_at = r.opened_at
           /\ Stored(r).probe_holder = r.probe_holder /\ Stored(r).probe_expires = r.probe_expires
  <1>1. PICK e \in Nat : e = now + StateTtl
    BY RecordIs, Config
  <1>2. PICK q : q = [r EXCEPT !.present = TRUE, !.expires = e]
    OBVIOUS
  <1>3. Stored(r) = q
    BY <1>1, <1>2 DEF Stored
  <1>4. /\ q \in Records /\ q.present = TRUE /\ q.expires = e
        /\ q.tokens = r.tokens /\ q.last_refill = r.last_refill /\ q.slots = r.slots
        /\ q.failures = r.failures /\ q.circuit = r.circuit /\ q.opened_at = r.opened_at
        /\ q.probe_holder = r.probe_holder /\ q.probe_expires = r.probe_expires
    BY <1>2 DEF Records
  <1> QED
    BY <1>1, <1>3, <1>4

\* A heartbeat extends the reservation of its probe.
LEMMA Extended ==
    ASSUME ThrottlerInv, NEW c \in Callers, Extends(c, beat[c].call.ts),
           state' = Stored([state EXCEPT !.probe_expires = beat[c].call.ts + ProbeWindow])
    PROVE  /\ state' \in Records /\ RecordInv(state', now) /\ Preserves(c, state, state', now) /\ BucketOK(state', rate, now)
           /\ \A m \in Permits : (/\ now < m.slot_until /\ SlotIsHeld(c, m, state)) => SlotIsHeld(c, m, state')
           /\ \A m \in Permits : m.probe_until <= beat[c].call.ts + ProbeWindow => ProbeIsHeld(c, m, state')
  <1>1. PICK ts : ts = beat[c].call.ts /\ ts \in Nat /\ ts <= now
    BY CallersAre
  <1>2. /\ now \in Nat /\ StateTtl \in Nat /\ ProbeWindow \in Nat \ {0} /\ ProbeWindow <= StateTtl /\ NoHolder \notin Callers
        /\ state.expires <= now + StateTtl
    BY Config, RecordIs DEF RecordInv
  <1>3. PICK new : new = state'
    OBVIOUS
  <1>4. /\ new \in Records /\ new.present = TRUE /\ new.expires = now + StateTtl /\ new.probe_expires = ts + ProbeWindow
        /\ new.tokens = state.tokens /\ new.last_refill = state.last_refill /\ new.slots = state.slots
        /\ new.failures = state.failures /\ new.circuit = state.circuit /\ new.opened_at = state.opened_at
        /\ new.probe_holder = state.probe_holder
    <2>1. PICK r : r = [state EXCEPT !.probe_expires = ts + ProbeWindow]
      OBVIOUS
    <2>2. /\ r \in Records /\ r.probe_expires = ts + ProbeWindow
          /\ r.tokens = state.tokens /\ r.last_refill = state.last_refill /\ r.slots = state.slots
          /\ r.failures = state.failures /\ r.circuit = state.circuit /\ r.opened_at = state.opened_at
          /\ r.probe_holder = state.probe_holder
      <3>1. state \in Records /\ ts + ProbeWindow \in Int
        BY <1>1, <1>2, RecordIs
      <3> QED
        BY <2>1, <3>1 DEF Records
    <2>3. new = Stored(r)
      BY <1>1, <1>3, <2>1
    <2> QED
      BY <2>2, <2>3, StoredIs
  <1>5. state.probe_holder = c /\ state.present
    BY DEF Extends, Live
  <1>6. RecordInv(new, now)
    BY <1>1, <1>2, <1>4, <1>5, RecordIs DEF RecordInv, NoTime
  <1>7. Preserves(c, state, new, now)
    BY <1>2, <1>4, <1>5 DEF Preserves
  <1>8. BucketOK(new, rate, now)
    BY <1>4, <1>5, SameBucket
  <1>9. ASSUME NEW m \in Permits, SlotIsHeld(c, m, state)
        PROVE  SlotIsHeld(c, m, new)
    BY <1>2, <1>4, <1>9, RecordIs DEF SlotIsHeld, Permits
  <1>10. ASSUME NEW m \in Permits, m.probe_until <= ts + ProbeWindow
         PROVE  ProbeIsHeld(c, m, new)
    BY <1>1, <1>2, <1>4, <1>5, <1>10 DEF ProbeIsHeld, Permits
  <1> QED
    BY <1>1, <1>3, <1>4, <1>6, <1>7, <1>8, <1>9, <1>10

\* A heartbeat is done with its statement.
LEMMA ExtendsKeep ==
    ASSUME ThrottlerInv, NEW c \in Callers, ExtendReturns(c) \/ ExtendErrs(c)
    PROVE  ThrottlerInv'
  <1>1. CallersTyped /\ NoBeat \in Beats /\ NoBeat.pc = "none" /\ beat[c] \in Beats /\ permit[c] \in Permits /\ now \in Nat
    BY CallersAre, Nothings
  <1>2. PICK ts : ts = beat[c].call.ts /\ ts \in Nat /\ ts <= now /\ beat[c].pc = "extending"
    BY CallersAre DEF ExtendReturns, ExtendErrs
  <1>3. CallerOK(c, pc[c], call[c], permit[c], beat[c], state, now)
    BY DEF ThrottlerInv, CallerInv
  <1>4. PICK b \in Beats : beat' = [beat EXCEPT ![c] = b] /\ b.pc # "extending" /\ b.call.ts = 0
    <2>1. \A f \in 0 .. MaxBeatFailures - 1 :
             BeatSleeps(c, f) \in Beats /\ BeatSleeps(c, f).pc # "extending" /\ BeatSleeps(c, f).call.ts = 0
      BY <1>1 DEF BeatSleeps, NoBeat, NoCall, Beats, CallRecords
    <2>2. NoBeat.call.ts = 0 /\ NoBeat.pc # "extending"
      BY DEF NoBeat, NoCall
    <2>3. 0 \in 0 .. MaxBeatFailures - 1 /\ MaxBeatFailures \in Nat
      BY Config
    <2>4. CASE ExtendReturns(c)
      BY <1>1, <2>1, <2>2, <2>3, <2>4 DEF ExtendReturns, Set
    <2>5. CASE ExtendErrs(c)
      <3>1. PICK protocol_failure \in BOOLEAN :
               beat' = Set(beat, c, IF protocol_failure \/ beat[c].failures + 1 >= MaxBeatFailures
                                    THEN NoBeat ELSE BeatSleeps(c, beat[c].failures + 1))
        BY <2>5 DEF ExtendErrs
      <3>2. beat[c].failures \in 0 .. MaxBeatFailures - 1
        BY <1>1 DEF Beats
      <3>3. beat[c].failures + 1 >= MaxBeatFailures \/ beat[c].failures + 1 \in 0 .. MaxBeatFailures - 1
        BY <2>3, <3>2
      <3> QED
        BY <1>1, <2>1, <2>2, <3>1, <3>3 DEF Set
    <2> QED
      BY <2>4, <2>5
  <1>5. PICK m \in Permits :
           /\ permit' = [permit EXCEPT ![c] = m] /\ m.slot = permit[c].slot /\ m.slot_until = permit[c].slot_until
           /\ m.probe = permit[c].probe
           /\ m = permit[c] \/ (ExtendReturns(c) /\ Extends(c, ts) /\ m.probe_until = ts + ProbeWindow)
    <2>1. PICK m : m = [permit[c] EXCEPT !.probe_until = ts + ProbeWindow]
      OBVIOUS
    <2>2. m \in Permits /\ m.slot = permit[c].slot /\ m.slot_until = permit[c].slot_until /\ m.probe = permit[c].probe
          /\ m.probe_until = ts + ProbeWindow
      BY <1>1, <1>2, <2>1, Config DEF Permits
    <2>3. permit = [permit EXCEPT ![c] = permit[c]]
      BY <1>1 DEF CallersTyped
    <2>4. \/ permit' = permit
          \/ ExtendReturns(c) /\ Extends(c, ts) /\ permit' = [permit EXCEPT ![c] = m]
      BY <1>1, <1>2, <2>1 DEF ExtendReturns, ExtendErrs, CallersTyped
    <2> QED
      BY <1>1, <2>2, <2>3, <2>4
  <1>6. now' = now /\ rate' = rate /\ pc' = pc /\ call' = call /\ outcome' = outcome
    BY DEF ExtendReturns, ExtendErrs
  <1>7. CallersTyped' /\ Others(c)
    BY <1>1, <1>4, <1>5, <1>6 DEF CallersTyped, Others
  <1>8. pc'[c] = pc[c] /\ call'[c] = call[c] /\ permit'[c] = m /\ beat'[c] = b
    BY <1>1, <1>4, <1>5, <1>6 DEF CallersTyped
  <1>9. permit[c].probe_until <= ts + ProbeWindow /\ m.probe_until <= ts + ProbeWindow /\ m.probe_until <= now + ProbeWindow
    BY <1>1, <1>2, <1>3, <1>5, Config DEF CallerOK, Permits
  <1>10. CASE state' = state
    <2>1. m = permit[c] \/ ~(pc[c] = "holding" /\ m.probe /\ now < m.probe_until) \/ ProbeIsHeld(c, m, state)
      <3>1. ASSUME ExtendReturns(c), Extends(c, ts)
            PROVE  \A q \in Permits : q.probe_until <= ts + ProbeWindow => ProbeIsHeld(c, q, state)
        <4>1. state' = Stored([state EXCEPT !.probe_expires = ts + ProbeWindow])
          BY <1>2, <3>1 DEF ExtendReturns, CommitExtend
        <4>2. \A q \in Permits : q.probe_until <= ts + ProbeWindow => ProbeIsHeld(c, q, state')
          BY <1>2, <3>1, <4>1, Extended
        <4> QED
          BY <1>10, <4>2
      <3> QED
        BY <1>5, <1>9, <3>1
    <2>2. CallerOK(c, pc[c], call[c], m, b, state, now)
      BY <1>1, <1>3, <1>2, <1>4, <1>5, <1>9, <2>1 DEF CallerOK, SlotIsHeld
    <2> QED
      BY <1>6, <1>7, <1>8, <1>10, <2>2, QuietStep
  <1>11. CASE state' # state
    <2>1. /\ Extends(c, ts) /\ state' = Stored([state EXCEPT !.probe_expires = ts + ProbeWindow])
      BY <1>2, <1>11 DEF ExtendReturns, ExtendErrs, CommitExtend
    <2>2. /\ state' \in Records /\ RecordInv(state', now) /\ Preserves(c, state, state', now) /\ BucketOK(state', rate, now)
          /\ (now < m.slot_until /\ SlotIsHeld(c, m, state)) => SlotIsHeld(c, m, state')
          /\ ProbeIsHeld(c, m, state')
      BY <1>2, <1>9, <2>1, Extended
    <2>3. PICK new : new = state'
      OBVIOUS
    <2>4. CallerOK(c, pc[c], call[c], m, b, new, now)
      <3>1. SlotIsHeld(c, permit[c], state) <=> SlotIsHeld(c, m, state)
        BY <1>5 DEF SlotIsHeld
      <3>2. (now < m.slot_until /\ SlotIsHeld(c, m, state)) => SlotIsHeld(c, m, new)
        BY <2>2, <2>3
      <3>3. ProbeIsHeld(c, m, new)
        BY <2>2, <2>3
      <3> QED
        BY <1>1, <1>2, <1>3, <1>4, <1>5, <1>9, <3>1, <3>2, <3>3 DEF CallerOK
    <2>5. BucketOK(state', rate', now) /\ rate' \in Rates
      BY <1>6, <2>2, RecordIs
    <2> QED
      BY <1>6, <1>7, <1>8, <2>2, <2>3, <2>4, <2>5, CallerStep
  <1> QED
    BY <1>10, <1>11


\* The outcome of a task, in the circuit.
LEMMA AfterOutcomeIs ==
    ASSUME NEW r \in Records, NEW ts \in Nat, NEW n \in Nat, ts <= n, RecordInv(r, n), NEW result
    PROVE  /\ AfterOutcome(r, ts, result) \in Records /\ RecordInv(AfterOutcome(r, ts, result), n)
           /\ AfterOutcome(r, ts, result).slots = r.slots /\ AfterOutcome(r, ts, result).tokens = r.tokens
           /\ AfterOutcome(r, ts, result).last_refill = r.last_refill
           /\ AfterOutcome(r, ts, result).probe_holder = r.probe_holder
           /\ AfterOutcome(r, ts, result).probe_expires = r.probe_expires
  <1>1. r.failures \in Nat /\ MaxCount \in Nat /\ Threshold \in Nat \ {0} /\ Threshold <= MaxCount /\ r.circuit \in {"open", "closed"}
    BY Config DEF Records
  <1>2. PICK f \in Nat : f = Min({r.failures + 1, MaxCount}) /\ (r.failures + 1 < Threshold => f < Threshold)
    <2>1. Min({r.failures + 1, MaxCount}) = (IF r.failures + 1 <= MaxCount THEN r.failures + 1 ELSE MaxCount)
      BY <1>1, OfTwo
    <2> QED
      BY <1>1, <2>1
  <1>3. PICK q : q = AfterOutcome(r, ts, result)
    OBVIOUS
  <1>4. \/ q = r
        \/ \E o \in {"open", "closed"}, t \in Int, g \in Nat :
              /\ q = [r EXCEPT !.failures = g, !.circuit = o, !.opened_at = t]
              /\ o = "closed" => g < Threshold
              /\ o = "open" => t \in 0 .. n
    <2>1. CASE ~HasCircuit \/ result = "NotExecuted"
      BY <1>3, <2>1 DEF AfterOutcome
    <2>2. CASE HasCircuit /\ result = "Failed"
      <3>1. PICK o \in {"open", "closed"} : o = IF r.failures + 1 >= Threshold THEN "open" ELSE r.circuit
        BY <1>1
      <3>2. PICK t \in Int : t = IF r.circuit = "open" \/ r.failures + 1 >= Threshold THEN ts ELSE r.opened_at
        BY DEF Records
      <3>3. q = [r EXCEPT !.failures = f, !.circuit = o, !.opened_at = t]
        BY <1>2, <1>3, <2>2, <3>1, <3>2 DEF AfterOutcome
      <3>4. (o = "closed" => f < Threshold) /\ (o = "open" => t \in 0 .. n)
        BY <1>1, <1>2, <3>1, <3>2
      <3> QED
        BY <3>3, <3>4
    <2>3. CASE HasCircuit /\ result # "NotExecuted" /\ result # "Failed"
      <3>1. q = [r EXCEPT !.failures = 0, !.circuit = "closed", !.opened_at = NoTime]
        BY <1>3, <2>3 DEF AfterOutcome
      <3>2. NoTime \in Int /\ 0 < Threshold
        BY <1>1 DEF NoTime
      <3> QED
        BY <3>1, <3>2
    <2> QED
      BY <2>1, <2>2, <2>3
  <1>5. CASE q = r
    BY <1>3, <1>5
  <1>6. ASSUME NEW o \in {"open", "closed"}, NEW t \in Int, NEW g \in Nat,
               q = [r EXCEPT !.failures = g, !.circuit = o, !.opened_at = t],
               o = "closed" => g < Threshold, o = "open" => t \in 0 .. n
        PROVE  /\ q \in Records /\ RecordInv(q, n) /\ q.slots = r.slots /\ q.tokens = r.tokens
               /\ q.last_refill = r.last_refill /\ q.probe_holder = r.probe_holder /\ q.probe_expires = r.probe_expires
    <2>1. /\ q \in Records /\ q.slots = r.slots /\ q.tokens = r.tokens /\ q.last_refill = r.last_refill
          /\ q.probe_holder = r.probe_holder /\ q.probe_expires = r.probe_expires /\ q.expires = r.expires
          /\ q.failures = g /\ q.circuit = o /\ q.opened_at = t
      BY <1>6 DEF Records
    <2> QED
      BY <1>6, <2>1 DEF RecordInv
  <1> QED
    BY <1>3, <1>4, <1>5, <1>6

\* A release, in the record.
LEMMA ReleasedIs ==
    ASSUME ThrottlerInv, NEW c \in Callers, NEW ts \in Nat, ts <= now
    PROVE  /\ ReleasedState(c, ts) \in Records /\ RecordInv(ReleasedState(c, ts), now)
           /\ ReleasedState(c, ts).tokens = state.tokens /\ ReleasedState(c, ts).last_refill = state.last_refill
           /\ \A i \in SlotIds : state.slots[i].holder # c => ReleasedState(c, ts).slots[i] = state.slots[i]
           /\ state.probe_holder # c => /\ ReleasedState(c, ts).probe_holder = state.probe_holder
                                        /\ ReleasedState(c, ts).probe_expires = state.probe_expires
  <1>1. PICK slots \in [SlotIds -> [holder : Callers \union {NoHolder}, expires : Nat]] :
           /\ slots = ReleasedSlots(c, state)
           /\ \A i \in SlotIds : slots[i] = state.slots[i] \/ (state.slots[i].holder = c /\ slots[i] = FreeSlot)
    <2>1. state.slots \in [SlotIds -> [holder : Callers \union {NoHolder}, expires : Nat]]
      BY RecordIs
    <2>2. FreeSlot \in [holder : Callers \union {NoHolder}, expires : Nat]
      BY DEF FreeSlot
    <2>3. permit[c].slot \in {0} \union SlotIds
      BY CallersAre DEF Permits
    <2>4. CASE permit[c].slot # 0 /\ state.slots[permit[c].slot].holder = c
      <3>1. PICK i \in SlotIds : i = permit[c].slot /\ state.slots[i].holder = c
        BY <2>3, <2>4
      <3>2. PICK f : f = [state.slots EXCEPT ![i] = FreeSlot]
        OBVIOUS
      <3>3. ReleasedSlots(c, state) = f
        BY <3>1, <3>2, <2>4 DEF ReleasedSlots
      <3>4. /\ f \in [SlotIds -> [holder : Callers \union {NoHolder}, expires : Nat]]
            /\ \A j \in SlotIds : f[j] = (IF j = i THEN FreeSlot ELSE state.slots[j])
        BY <2>1, <2>2, <3>2
      <3> QED
        BY <3>1, <3>3, <3>4
    <2>5. CASE ~(permit[c].slot # 0 /\ state.slots[permit[c].slot].holder = c)
      <3>1. ReleasedSlots(c, state) = state.slots
        BY <2>5 DEF ReleasedSlots
      <3> QED
        BY <2>1, <3>1
    <2> QED
      BY <2>4, <2>5
  <1>2. PICK r : r = [state EXCEPT !.slots = slots]
    OBVIOUS
  <1>3. /\ r \in Records /\ r.slots = slots /\ r.tokens = state.tokens /\ r.last_refill = state.last_refill
        /\ r.probe_holder = state.probe_holder /\ r.probe_expires = state.probe_expires /\ r.expires = state.expires
        /\ r.failures = state.failures /\ r.circuit = state.circuit /\ r.opened_at = state.opened_at
    <2>1. state \in Records
      BY RecordIs
    <2> QED
      BY <1>1, <1>2, <2>1 DEF Records
  <1>4. RecordInv(r, now)
    <2>1. RecordInv(state, now) /\ FreeSlot.expires <= now + MaxHold
      BY RecordIs, Config DEF FreeSlot
    <2> QED
      BY <1>1, <1>3, <2>1 DEF RecordInv
  <1>5. PICK a : a = AfterOutcome(r, ts, outcome[c])
    OBVIOUS
  <1>6. /\ a \in Records /\ RecordInv(a, now) /\ a.slots = slots /\ a.tokens = state.tokens /\ a.last_refill = state.last_refill
        /\ a.probe_holder = state.probe_holder /\ a.probe_expires = state.probe_expires
    BY <1>3, <1>4, <1>5, RecordIs, AfterOutcomeIs
  <1>7. PICK z : z = [a EXCEPT !.probe_holder = NoHolder, !.probe_expires = NoTime]
    OBVIOUS
  <1>8. /\ z \in Records /\ z.slots = a.slots /\ z.tokens = a.tokens /\ z.last_refill = a.last_refill
        /\ RecordInv(z, now)
    <2>1. /\ z \in Records /\ z.slots = a.slots /\ z.tokens = a.tokens /\ z.last_refill = a.last_refill
          /\ z.expires = a.expires /\ z.failures = a.failures /\ z.circuit = a.circuit /\ z.opened_at = a.opened_at
          /\ z.probe_holder = NoHolder /\ z.probe_expires = NoTime
      <3>1. a \in Records /\ NoTime \in Int
        BY <1>6 DEF NoTime
      <3> QED
        BY <1>7, <3>1 DEF Records
    <2> QED
      BY <1>6, <2>1 DEF RecordInv
  <1>9. PICK q : q = ReleasedState(c, ts) /\ (q = r \/ q = a \/ (q = z /\ a.probe_holder = c))
    BY <1>1, <1>2, <1>5, <1>7 DEF ReleasedState, ClearProbeIfOwned
  <1>10. /\ q \in Records /\ RecordInv(q, now) /\ q.slots = slots /\ q.tokens = state.tokens /\ q.last_refill = state.last_refill
         /\ state.probe_holder # c => q.probe_holder = state.probe_holder /\ q.probe_expires = state.probe_expires
    BY <1>3, <1>4, <1>6, <1>8, <1>9
  <1> QED
    BY <1>1, <1>9, <1>10

\* What a committed release makes of the record.
LEMMA ReleaseCommits ==
    ASSUME ThrottlerInv, NEW c \in Callers, CommitRelease(c) \/ UNCHANGED state
    PROVE  state' \in Records /\ RecordInv(state', now) /\ Preserves(c, state, state', now) /\ BucketOK(state', rate, now)
  <1>1. state \in Records /\ RecordInv(state, now) /\ BucketOK(state, rate, now) /\ state.expires \in Nat /\ now \in Nat
    BY RecordIs
  <1>2. CASE state' = state
    BY <1>1, <1>2 DEF Preserves
  <1>3. CASE state' # state
    <2>1. PICK ts \in Nat : ts = call[c].ts /\ ts <= now
      BY CallersAre
    <2>2. state' = Stored(ReleasedState(c, ts)) /\ state.present /\ state.expires > ts
      BY <1>3, <2>1 DEF CommitRelease, Live
    <2>3. PICK r : r = ReleasedState(c, ts)
      OBVIOUS
    <2>4. /\ r \in Records /\ RecordInv(r, now) /\ r.tokens = state.tokens /\ r.last_refill = state.last_refill
          /\ \A i \in SlotIds : state.slots[i].holder # c => r.slots[i] = state.slots[i]
          /\ state.probe_holder # c => r.probe_holder = state.probe_holder /\ r.probe_expires = state.probe_expires
      BY <2>1, <2>3, ReleasedIs
    <2>5. PICK q : q = state' /\ q = Stored(r)
      BY <2>2, <2>3
    <2>6. /\ q \in Records /\ q.present = TRUE /\ q.expires = now + StateTtl /\ q.tokens = r.tokens /\ q.last_refill = r.last_refill
          /\ q.slots = r.slots /\ q.failures = r.failures /\ q.circuit = r.circuit /\ q.opened_at = r.opened_at
          /\ q.probe_holder = r.probe_holder /\ q.probe_expires = r.probe_expires
      BY <2>4, <2>5, StoredIs
    <2>7. RecordInv(q, now)
      BY <1>1, <2>4, <2>6, Config DEF RecordInv
    <2>8. Preserves(c, state, q, now)
      <3>1. state.expires <= q.expires
        BY <1>1, <2>6 DEF RecordInv
      <3> QED
        BY <2>4, <2>6, <3>1 DEF Preserves
    <2>9. BucketOK(q, rate, now)
      BY <2>2, <2>4, <2>6, SameBucket
    <2> QED
      BY <2>5, <2>6, <2>7, <2>8, <2>9
  <1> QED
    BY <1>2, <1>3

\* A caller is done with its release.
LEMMA ReleasesKeep ==
    ASSUME ThrottlerInv, NEW c \in Callers, ReleaseReturns(c) \/ ReleaseErrs(c) \/ CleanupEnds(c)
    PROVE  ThrottlerInv'
  <1>1. now' = now /\ rate' = rate /\ (CommitRelease(c) \/ UNCHANGED state)
    BY DEF ReleaseReturns, ReleaseErrs, CleanupEnds
  <1>2. PICK o \in {"none", "NotExecuted", "Succeeded", "Failed"} : Finish(c) \/ Cleanup(c, o)
    BY CallersAre DEF CallersTyped, ReleaseReturns, ReleaseErrs, CleanupEnds
  <1>3. CallersTyped' /\ Others(c) /\ \A st : CallerOK(c, pc'[c], call'[c], permit'[c], beat'[c], st, now)
    BY <1>2, Leaves
  <1>4. state' \in Records /\ RecordInv(state', now) /\ Preserves(c, state, state', now) /\ BucketOK(state', rate, now)
    BY <1>1, ReleaseCommits
  <1>5. rate' \in Rates /\ BucketOK(state', rate', now)
    BY <1>1, <1>4, RecordIs
  <1> QED
    BY <1>1, <1>3, <1>4, <1>5, CallerStep


\* The slots that an attempt retains, and the one that it takes.
LEMMA SlotsAre ==
    ASSUME NEW c \in Callers, NEW r \in Records, NEW ts \in Nat
    PROVE  /\ RetainedSlots(r, ts) \in [SlotIds -> [holder : Callers \union {NoHolder}, expires : Nat]]
           /\ \A i \in SlotIds : RetainedSlots(r, ts)[i] = (IF ts < r.slots[i].expires THEN r.slots[i] ELSE FreeSlot)
           /\ SlotTaken(r, ts) \in {0} \union SlotIds /\ FreeSlot.holder = NoHolder /\ FreeSlot.expires = 0
           /\ SlotTaken(r, ts) \in SlotIds => HasSlots /\ RetainedSlots(r, ts)[SlotTaken(r, ts)].holder = NoHolder
           /\ HasSlots => (SlotTaken(r, ts) = 0 <=> FreeIds(RetainedSlots(r, ts)) = {})
           /\ SlotsAfter(c, r, ts) \in [SlotIds -> [holder : Callers \union {NoHolder}, expires : Nat]]
           /\ HasSlots => \A i \in SlotIds : SlotsAfter(c, r, ts)[i] =
                 (IF i = SlotTaken(r, ts) THEN [holder |-> c, expires |-> ts + MaxHold] ELSE RetainedSlots(r, ts)[i])
           /\ ~HasSlots => SlotsAfter(c, r, ts) = r.slots
  <1>1. /\ r.slots \in [SlotIds -> [holder : Callers \union {NoHolder}, expires : Nat]]
        /\ FreeSlot \in [holder : Callers \union {NoHolder}, expires : Nat] /\ FreeSlot.holder = NoHolder /\ FreeSlot.expires = 0
    BY DEF Records, FreeSlot
  <1>2. PICK kept : kept = RetainedSlots(r, ts)
    OBVIOUS
  <1>3. /\ kept \in [SlotIds -> [holder : Callers \union {NoHolder}, expires : Nat]]
        /\ \A i \in SlotIds : kept[i] = (IF ts < r.slots[i].expires THEN r.slots[i] ELSE FreeSlot)
    BY <1>1, <1>2 DEF RetainedSlots
  <1>4. FreeIds(kept) \in SUBSET Nat /\ FreeIds(kept) \subseteq SlotIds /\ 0 \notin SlotIds
    BY Config DEF FreeIds, SlotIds
  <1>5. PICK s : s = SlotTaken(r, ts)
    OBVIOUS
  <1>6. \/ HasSlots /\ FreeIds(kept) # {} /\ s = Min(FreeIds(kept))
        \/ ~(HasSlots /\ FreeIds(kept) # {}) /\ s = 0
    BY <1>2, <1>5 DEF SlotTaken
  <1>7. /\ s \in {0} \union SlotIds /\ (s \in SlotIds => HasSlots /\ kept[s].holder = NoHolder)
        /\ HasSlots => (s = 0 <=> FreeIds(kept) = {})
    <2>1. FreeIds(kept) # {} => Min(FreeIds(kept)) \in FreeIds(kept)
      BY <1>4, LeastOf
    <2>2. \A i \in FreeIds(kept) : kept[i].holder = NoHolder
      BY DEF FreeIds
    <2> QED
      BY <1>4, <1>6, <2>1, <2>2
  <1>8. /\ SlotsAfter(c, r, ts) \in [SlotIds -> [holder : Callers \union {NoHolder}, expires : Nat]]
        /\ HasSlots => \A i \in SlotIds : SlotsAfter(c, r, ts)[i] =
              (IF i = s THEN [holder |-> c, expires |-> ts + MaxHold] ELSE kept[i])
        /\ ~HasSlots => SlotsAfter(c, r, ts) = r.slots
    <2>1. [holder |-> c, expires |-> ts + MaxHold] \in [holder : Callers \union {NoHolder}, expires : Nat]
      BY Config
    <2>2. CASE HasSlots
      <3>1. SlotsAfter(c, r, ts) = [i \in SlotIds |-> IF i = s THEN [holder |-> c, expires |-> ts + MaxHold] ELSE kept[i]]
        BY <1>2, <1>5, <2>2 DEF SlotsAfter
      <3> QED
        BY <1>3, <2>1, <2>2, <3>1
    <2>3. CASE ~HasSlots
      BY <1>1, <2>3 DEF SlotsAfter
    <2> QED
      BY <2>2, <2>3
  <1> QED
    BY <1>1, <1>2, <1>3, <1>5, <1>7, <1>8

\* A new record.
LEMMA InitialIs ==
    ASSUME NEW ts \in Nat, NEW n \in Nat, ts <= n
    PROVE  /\ InitialState(ts) \in Records /\ RecordInv(InitialState(ts), n)
           /\ InitialState(ts).present = FALSE /\ InitialState(ts).last_refill = ts /\ InitialState(ts).circuit = "closed"
           /\ InitialState(ts).slots = [i \in SlotIds |-> FreeSlot] /\ InitialState(ts).failures = 0
  <1>1. PICK q : q = InitialState(ts)
    OBVIOUS
  <1>2. /\ q.present = FALSE /\ q.expires = 0 /\ q.last_refill = ts /\ q.slots = [i \in SlotIds |-> FreeSlot]
        /\ q.failures = 0 /\ q.circuit = "closed" /\ q.opened_at = NoTime /\ q.probe_holder = NoHolder
        /\ q.probe_expires = NoTime
    BY <1>1 DEF InitialState
  <1>3. q \in Records
    <2>1. Requests * Interval \in Levels /\ 0 \in Levels
      BY Config, Products DEF Levels
    <2>2. PICK tokens \in Levels : tokens = IF HasRate THEN Requests * Interval ELSE 0
      BY <2>1
    <2>3. PICK slots \in [SlotIds -> [holder : Callers \union {NoHolder}, expires : Nat]] : slots = [i \in SlotIds |-> FreeSlot]
      BY DEF FreeSlot
    <2>4. q = [present |-> FALSE, expires |-> 0, tokens |-> tokens, last_refill |-> ts, slots |-> slots,
               failures |-> 0, circuit |-> "closed", opened_at |-> NoTime,
               probe_holder |-> NoHolder, probe_expires |-> NoTime]
      BY <1>1, <2>2, <2>3 DEF InitialState
    <2>5. NoTime \in Int
      BY DEF NoTime
    <2> QED
      BY <2>4, <2>5 DEF Records
  <1>4. RecordInv(q, n)
    <2>1. \A i \in SlotIds : q.slots[i].expires = 0
      BY <1>2 DEF FreeSlot
    <2>2. StateTtl \in Nat /\ MaxHold \in Nat /\ Threshold \in Nat \ {0}
      BY Config
    <2> QED
      BY <1>2, <2>1, <2>2 DEF RecordInv
  <1> QED
    BY <1>1, <1>2, <1>3, <1>4

\* The record that a mutation finds; a new one admits.
LEMMA FoundIs ==
    ASSUME ThrottlerInv, NEW ts \in Nat, ts <= now
    PROVE  /\ LiveOrInitial(ts) \in Records /\ RecordInv(LiveOrInitial(ts), now)
           /\ Live(ts) => LiveOrInitial(ts) = state /\ state.present
           /\ ~Live(ts) => /\ ~state.present \/ state.expires <= now
                           /\ Gate(LiveOrInitial(ts), ts) = "AllowNormally" /\ ~NoSlot(LiveOrInitial(ts), ts)
                           /\ LiveOrInitial(ts).last_refill = ts
  <1>1. CASE Live(ts)
    BY <1>1, RecordIs DEF LiveOrInitial, Live
  <1>2. CASE ~Live(ts)
    <2>1. PICK q : q = InitialState(ts) /\ q = LiveOrInitial(ts)
      BY <1>2 DEF LiveOrInitial
    <2>2. q \in Records /\ RecordInv(q, now) /\ q.last_refill = ts /\ q.circuit = "closed" /\ q.slots = [i \in SlotIds |-> FreeSlot]
      BY <2>1, RecordIs, InitialIs
    <2>3. Gate(q, ts) = "AllowNormally"
      BY <2>2 DEF Gate
    <2>4. ~NoSlot(q, ts)
      <3> SUFFICES ASSUME HasSlots, SlotTaken(q, ts) = 0 PROVE FALSE
        BY DEF NoSlot
      <3>1. PICK free : free = FreeIds(RetainedSlots(q, ts))
        OBVIOUS
      <3>2. 1 \in SlotIds /\ SlotIds \subseteq Nat /\ 0 \notin SlotIds
        BY Config DEF SlotIds
      <3>3. RetainedSlots(q, ts)[1].holder = NoHolder
        BY <2>2, <3>2 DEF RetainedSlots, FreeSlot
      <3>4. free \in SUBSET Nat /\ free \subseteq SlotIds /\ free # {}
        BY <3>1, <3>2, <3>3 DEF FreeIds
      <3>5. Min(free) \in free
        BY <3>4, LeastOf
      <3>6. SlotTaken(q, ts) = Min(free)
        BY <3>1, <3>4 DEF SlotTaken
      <3> QED
        BY <3>2, <3>4, <3>5, <3>6
    <2>5. ~state.present \/ state.expires <= now
      BY <1>2, RecordIs DEF Live
    <2> QED
      BY <1>2, <2>1, <2>2, <2>3, <2>4, <2>5
  <1> QED
    BY <1>1, <1>2

\* The refill.
LEMMA RefilledIs ==
    ASSUME NEW r \in Records, NEW ts \in Nat
    PROVE  /\ RefilledTokens(r, ts) \in Levels /\ RefilledTokens(r, ts) \in Nat
           /\ RefilledTokens(r, ts) <= Requests * Interval
           /\ RefilledTokens(r, ts) <= r.tokens + Requests * Max({0, ts - r.last_refill})
           /\ Refilled(r, ts) \in Records
           /\ Refilled(r, ts).tokens = (IF HasRate THEN RefilledTokens(r, ts) ELSE r.tokens)
           /\ Refilled(r, ts).last_refill = (IF HasRate THEN ts ELSE r.last_refill)
           /\ Refilled(r, ts).present = r.present /\ Refilled(r, ts).expires = r.expires /\ Refilled(r, ts).slots = r.slots
           /\ Refilled(r, ts).failures = r.failures /\ Refilled(r, ts).circuit = r.circuit
           /\ Refilled(r, ts).opened_at = r.opened_at
           /\ Refilled(r, ts).probe_holder = r.probe_holder /\ Refilled(r, ts).probe_expires = r.probe_expires
  <1>1. PICK full, span, paid : full = Requests * Interval /\ span = Max({0, ts - r.last_refill}) /\ paid = Requests * span
    OBVIOUS
  <1>2. r.tokens \in 0 .. full /\ r.last_refill \in Nat /\ full \in Nat
    BY <1>1, Config, Products DEF Records, Levels
  <1>3. span \in Nat /\ paid \in Nat
    <2>1. PICK d \in Int : d = ts - r.last_refill
      BY <1>2
    <2>2. span \in Nat
      <3>1. Max({0, d}) = (IF 0 <= d THEN d ELSE 0)
        BY OfTwo
      <3> QED
        BY <1>1, <2>1, <3>1
    <2> QED
      BY <1>1, <2>2, Config, Products
  <1>4. PICK t : t = RefilledTokens(r, ts)
    OBVIOUS
  <1>5. t = Min({full, r.tokens + paid})
    BY <1>1, <1>4 DEF RefilledTokens
  <1>6. t \in 0 .. full /\ t <= r.tokens + paid
    BY <1>2, <1>3, <1>5, OfTwo
  <1>7. t \in Levels
    BY <1>1, <1>6 DEF Levels
  <1>8. PICK q : q = [r EXCEPT !.tokens = t, !.last_refill = ts]
    OBVIOUS
  <1>9. /\ q \in Records /\ q.tokens = t /\ q.last_refill = ts
        /\ q.present = r.present /\ q.expires = r.expires /\ q.slots = r.slots
        /\ q.failures = r.failures /\ q.circuit = r.circuit /\ q.opened_at = r.opened_at
        /\ q.probe_holder = r.probe_holder /\ q.probe_expires = r.probe_expires
    BY <1>7, <1>8 DEF Records
  <1>10. Refilled(r, ts) = IF HasRate THEN q ELSE r
    BY <1>4, <1>8 DEF Refilled
  <1> QED
    BY <1>1, <1>2, <1>4, <1>6, <1>7, <1>9, <1>10

\* What is written for a caller that is admitted.
LEMMA AdmittedIs ==
    ASSUME NEW c \in Callers, NEW r \in Records, NEW ts \in Nat, NEW n \in Nat, ts <= n, RecordInv(r, n), ~NoToken(r, ts)
    PROVE  /\ AcquiredState(c, r, ts) \in Records /\ RecordInv(AcquiredState(c, r, ts), n)
           /\ AcquiredState(c, r, ts).tokens = (IF HasRate THEN RefilledTokens(r, ts) - Interval ELSE r.tokens)
           /\ AcquiredState(c, r, ts).last_refill = (IF HasRate THEN ts ELSE r.last_refill)
           /\ AcquiredState(c, r, ts).slots = SlotsAfter(c, r, ts)
           /\ Gate(r, ts) = "AllowProbe" => /\ AcquiredState(c, r, ts).probe_holder = c
                                            /\ AcquiredState(c, r, ts).probe_expires = ts + ProbeWindow
           /\ Gate(r, ts) # "AllowProbe" => /\ AcquiredState(c, r, ts).probe_holder = r.probe_holder
                                            /\ AcquiredState(c, r, ts).probe_expires = r.probe_expires
  <1>1. PICK s \in [SlotIds -> [holder : Callers \union {NoHolder}, expires : Nat]] :
           s = SlotsAfter(c, r, ts) /\ \A i \in SlotIds : s[i].expires <= n + MaxHold
    <2>1. SlotsAfter(c, r, ts) \in [SlotIds -> [holder : Callers \union {NoHolder}, expires : Nat]]
      BY SlotsAre
    <2>2. ASSUME NEW i \in SlotIds
          PROVE  SlotsAfter(c, r, ts)[i].expires <= n + MaxHold
      <3>1. r.slots[i].expires <= n + MaxHold /\ 0 <= n + MaxHold /\ ts + MaxHold <= n + MaxHold /\ FreeSlot.expires = 0
        BY Config DEF RecordInv, FreeSlot
      <3>2. CASE HasSlots
        <4>1. \A j \in SlotIds : RetainedSlots(r, ts)[j] = (IF ts < r.slots[j].expires THEN r.slots[j] ELSE FreeSlot)
          BY SlotsAre
        <4>2. \A j \in SlotIds : SlotsAfter(c, r, ts)[j] =
                 (IF j = SlotTaken(r, ts) THEN [holder |-> c, expires |-> ts + MaxHold] ELSE RetainedSlots(r, ts)[j])
          BY <3>2, SlotsAre
        <4> QED
          BY <3>1, <4>1, <4>2
      <3>3. CASE ~HasSlots
        BY <3>1, <3>3, SlotsAre
      <3> QED
        BY <3>2, <3>3
    <2> QED
      BY <2>1, <2>2
  <1>2. PICK f : f = Refilled(r, ts)
    OBVIOUS
  <1>3. /\ f \in Records /\ f.tokens = (IF HasRate THEN RefilledTokens(r, ts) ELSE r.tokens)
        /\ f.last_refill = (IF HasRate THEN ts ELSE r.last_refill)
        /\ f.expires = r.expires /\ f.failures = r.failures /\ f.circuit = r.circuit
        /\ f.opened_at = r.opened_at /\ f.probe_holder = r.probe_holder /\ f.probe_expires = r.probe_expires
    BY <1>2, RefilledIs
  <1>4. PICK t \in Levels : t = f.tokens - (IF HasRate THEN Interval ELSE 0)
                            /\ t = (IF HasRate THEN RefilledTokens(r, ts) - Interval ELSE r.tokens)
    <2>1. r.tokens \in Levels /\ RefilledTokens(r, ts) \in Levels
      BY RefilledIs DEF Records
    <2>2. PICK full \in Nat : Levels = 0 .. full
      BY Config, Products DEF Levels
    <2>3. HasRate => RefilledTokens(r, ts) >= Interval
      BY <2>1, <2>2, Config DEF NoToken
    <2>4. RefilledTokens(r, ts) \in 0 .. full /\ Interval \in Nat
      BY <2>1, <2>2, Config
    <2>5. HasRate => RefilledTokens(r, ts) - Interval \in Levels
      BY <2>2, <2>3, <2>4
    <2>6. r.tokens - 0 = r.tokens
      BY <2>1, <2>2
    <2> QED
      BY <1>3, <2>1, <2>5, <2>6
  <1>5. PICK p : p = [f EXCEPT !.slots = s, !.tokens = t]
    OBVIOUS
  <1>6. /\ p \in Records /\ p.tokens = t /\ p.slots = s /\ p.last_refill = f.last_refill
        /\ p.expires = r.expires /\ p.failures = r.failures /\ p.circuit = r.circuit
        /\ p.opened_at = r.opened_at /\ p.probe_holder = r.probe_holder /\ p.probe_expires = r.probe_expires
    BY <1>1, <1>3, <1>5 DEF Records
  <1>7. PICK e \in Int : e = ts + ProbeWindow /\ e # NoTime
    BY Config DEF NoTime
  <1>8. PICK z : z = [p EXCEPT !.probe_holder = c, !.probe_expires = e]
    OBVIOUS
  <1>9. /\ z \in Records /\ z.tokens = t /\ z.slots = s /\ z.last_refill = f.last_refill
        /\ z.expires = r.expires /\ z.failures = r.failures /\ z.circuit = r.circuit
        /\ z.opened_at = r.opened_at /\ z.probe_holder = c /\ z.probe_expires = e
    BY <1>6, <1>8 DEF Records
  <1>10. AcquiredState(c, r, ts) = IF Gate(r, ts) = "AllowProbe" THEN z ELSE p
    <2>1. [Refilled(r, ts) EXCEPT !.slots = SlotsAfter(c, r, ts), !.tokens = @ - (IF HasRate THEN Interval ELSE 0)] = p
      BY <1>1, <1>2, <1>3, <1>4, <1>5 DEF Records
    <2> QED
      BY <2>1, <1>7, <1>8 DEF AcquiredState
  <1>11. f.last_refill <= n
    BY <1>3 DEF RecordInv
  <1>12. RecordInv(p, n)
    BY <1>1, <1>6, <1>11 DEF RecordInv
  <1>13. RecordInv(z, n)
    <2>1. c # NoHolder
      BY Config
    <2> QED
      BY <1>1, <1>7, <1>9, <1>11, <2>1 DEF RecordInv
  <1> QED
    BY <1>1, <1>3, <1>4, <1>6, <1>7, <1>9, <1>10, <1>12, <1>13

\* What is written for a caller that is not.
LEMMA DeniedIs ==
    ASSUME NEW c \in Callers, NEW r \in Records, NEW ts \in Nat, NEW n \in Nat, ts <= n, RecordInv(r, n)
    PROVE  /\ DeniedState(r, ts) \in Records /\ RecordInv(DeniedState(r, ts), n)
           /\ DeniedState(r, ts).slots \in {r.slots, RetainedSlots(r, ts)}
           /\ DeniedState(r, ts).probe_holder = r.probe_holder /\ DeniedState(r, ts).probe_expires = r.probe_expires
           /\ (HasRate /\ Gate(r, ts) # "Block" /\ ~NoSlot(r, ts)) =>
                 DeniedState(r, ts).tokens = RefilledTokens(r, ts) /\ DeniedState(r, ts).last_refill = ts
           /\ ~(HasRate /\ Gate(r, ts) # "Block" /\ ~NoSlot(r, ts)) =>
                 DeniedState(r, ts).tokens = r.tokens /\ DeniedState(r, ts).last_refill = r.last_refill
  <1>1. PICK kept \in [SlotIds -> [holder : Callers \union {NoHolder}, expires : Nat]] :
           kept = RetainedSlots(r, ts) /\ \A i \in SlotIds : kept[i].expires <= n + MaxHold
    <2>1. \A i \in SlotIds : RetainedSlots(r, ts)[i] = (IF ts < r.slots[i].expires THEN r.slots[i] ELSE FreeSlot)
      BY SlotsAre
    <2>2. \A i \in SlotIds : r.slots[i].expires <= n + MaxHold
      BY DEF RecordInv
    <2>3. FreeSlot.expires <= n + MaxHold
      BY Config DEF FreeSlot
    <2>4. \A i \in SlotIds : RetainedSlots(r, ts)[i].expires <= n + MaxHold
      BY <2>1, <2>2, <2>3
    <2> QED
      BY <2>4, SlotsAre
  <1>2. PICK f : f = Refilled(r, ts)
    OBVIOUS
  <1>3. /\ f \in Records /\ f.tokens = (IF HasRate THEN RefilledTokens(r, ts) ELSE r.tokens)
        /\ f.last_refill = (IF HasRate THEN ts ELSE r.last_refill) /\ f.slots = r.slots
        /\ f.expires = r.expires /\ f.failures = r.failures /\ f.circuit = r.circuit
        /\ f.opened_at = r.opened_at /\ f.probe_holder = r.probe_holder /\ f.probe_expires = r.probe_expires
    BY <1>2, RefilledIs
  <1>4. PICK w : w = DeniedState(r, ts)
    OBVIOUS
  <1>5. CASE Gate(r, ts) = "Block"
    BY <1>5 DEF DeniedState
  <1>6. CASE Gate(r, ts) # "Block" /\ NoSlot(r, ts)
    <2>1. w = [r EXCEPT !.slots = kept]
      BY <1>1, <1>4, <1>6 DEF DeniedState
    <2>2. /\ w \in Records /\ w.slots = kept /\ w.tokens = r.tokens /\ w.last_refill = r.last_refill
          /\ w.expires = r.expires /\ w.failures = r.failures /\ w.circuit = r.circuit
          /\ w.opened_at = r.opened_at /\ w.probe_holder = r.probe_holder /\ w.probe_expires = r.probe_expires
      BY <2>1 DEF Records
    <2>3. RecordInv(w, n)
      BY <1>1, <2>2 DEF RecordInv
    <2> QED
      BY <1>1, <1>4, <1>6, <2>2, <2>3
  <1>7. CASE Gate(r, ts) # "Block" /\ ~NoSlot(r, ts)
    <2>1. PICK s \in {kept, r.slots} : s = IF HasSlots THEN kept ELSE r.slots
      OBVIOUS
    <2>2. s \in [SlotIds -> [holder : Callers \union {NoHolder}, expires : Nat]] /\ \A i \in SlotIds : s[i].expires <= n + MaxHold
      BY <1>1, <2>1 DEF Records, RecordInv
    <2>3. w = [f EXCEPT !.slots = s]
      BY <1>1, <1>2, <1>3, <1>4, <1>7, <2>1 DEF DeniedState, Records
    <2>4. /\ w \in Records /\ w.slots = s /\ w.tokens = f.tokens /\ w.last_refill = f.last_refill
          /\ w.expires = r.expires /\ w.failures = r.failures /\ w.circuit = r.circuit
          /\ w.opened_at = r.opened_at /\ w.probe_holder = r.probe_holder /\ w.probe_expires = r.probe_expires
      BY <1>3, <2>2, <2>3 DEF Records
    <2>5. w.last_refill <= n
      BY <1>3, <2>4 DEF RecordInv
    <2>6. RecordInv(w, n)
      BY <2>2, <2>4, <2>5 DEF RecordInv
    <2> QED
      BY <1>1, <1>3, <1>4, <1>7, <2>1, <2>4, <2>6
  <1> QED
    BY <1>5, <1>6, <1>7


\* The bucket pays for what it lets pass: by the time since the last refill, by
\* the Interval that a new bucket holds, or by the rewind.
LEMMA BucketStep ==
    ASSUME ThrottlerInv, NEW ts \in Nat, ts <= now, NEW r \in Records, r = LiveOrInitial(ts), NEW new,
           HasRate, Gate(r, ts) # "Block", ~NoSlot(r, ts), new.last_refill = ts,
           new.tokens = RefilledTokens(r, ts) - (IF NoToken(r, ts) THEN 0 ELSE Interval),
           ~NoToken(r, ts) => RefilledTokens(r, ts) >= Interval
    PROVE  RateHistory(r, ts) \in Rates /\ BucketOK(new, RateHistory(r, ts), now)
  <1>1. PICK adm \in Nat, since \in Nat, paid \in Int, rew \in Nat :
           rate = [admitted |-> adm, since |-> since, paid |-> paid, rewound |-> rew]
    BY RecordIs DEF Rates
  <1>2. PICK a \in {0, 1}, held \in {0, Interval} : a = IF NoToken(r, ts) THEN 0 ELSE 1
    OBVIOUS
  <1>3. PICK x \in Int : x = paid + (IF Live(ts) THEN 0 ELSE Interval) - ts
    BY Config
  <1>4. PICK w \in Nat : w = Max({0, x}) /\ w >= x /\ w = (IF 0 <= x THEN x ELSE 0)
    <2>1. Max({0, x}) = (IF 0 <= x THEN x ELSE 0)
      BY OverZero
    <2> QED
      BY <2>1
  <1>5. PICK q : q = RateHistory(r, ts)
    OBVIOUS
  <1>6. q = [admitted |-> adm + a, since |-> since, paid |-> ts, rewound |-> rew + w]
    <2>1. q = [PaidOut(ts) EXCEPT !.admitted = @ + (IF NoToken(r, ts) THEN 0 ELSE 1)]
      BY <1>5 DEF RateHistory
    <2>2. PaidOut(ts) = [rate EXCEPT !.paid = ts, !.rewound = @ + w]
      BY <1>1, <1>3, <1>4 DEF PaidOut
    <2>3. PaidOut(ts) = [admitted |-> adm, since |-> since, paid |-> ts, rewound |-> rew + w]
      BY <1>1, <2>2
    <2> QED
      BY <1>2, <2>1, <2>3
  <1>7. PICK base, d, t, bucket :
           base = Interval + paid - since + rew /\ d = ts - paid + w /\ t = RefilledTokens(r, ts) /\ bucket = Requests * Interval
    OBVIOUS
  <1>8. /\ base \in Int /\ d \in Int /\ t \in Nat /\ bucket \in Nat /\ t <= bucket
        /\ Interval \in Nat \ {0} /\ Requests \in Nat
        /\ base + d = Interval + ts - since + (rew + w)
    <2>1. Interval \in Nat \ {0} /\ Requests \in Nat
      BY Config
    <2>2. RefilledTokens(r, ts) \in Nat /\ RefilledTokens(r, ts) <= Requests * Interval /\ Requests * Interval \in Nat
      <3>1. RefilledTokens(r, ts) \in Nat /\ RefilledTokens(r, ts) <= Requests * Interval
        BY RefilledIs, Zenon
      <3> QED
        BY <2>1, <3>1, Products
    <2>3. base \in Int /\ d \in Int /\ base + d = Interval + ts - since + (rew + w)
      BY <1>7, <2>1
    <2> QED
      BY <1>7, <2>1, <2>2, <2>3
  <1>9. PICK before, gain, done : before = Requests * base /\ gain = Requests * d /\ done = adm * Interval
    OBVIOUS
  <1>10. before \in Int /\ gain \in Int /\ done \in Nat /\ Requests * (base + d) = before + gain
    <2>1. Requests * base \in Int /\ Requests * d \in Int /\ Requests * (base + d) = Requests * base + Requests * d
      BY <1>8, Products
    <2>2. adm * Interval \in Nat
      BY <1>8, Products
    <2> QED
      BY <1>9, <2>1, <2>2
  <1>11. done <= before /\ (state.present => state.last_refill = paid /\ done + state.tokens <= before)
    <2>1. BucketOK(state, rate, now)
      BY RecordIs
    <2> QED
      BY <1>1, <1>7, <1>9, <2>1 DEF BucketOK
  <1>12. done + t <= before + gain
    <2>1. CASE Live(ts)
      <3>1. r = state /\ state.present
        BY <2>1, FoundIs
      <3>2. PICK span \in Nat : span = Max({0, ts - paid}) /\ span = d
        <4>1. PICK y \in Int : y = ts - paid
          OBVIOUS
        <4>2. Max({0, y}) = (IF 0 <= y THEN y ELSE 0)
          BY OverZero
        <4>3. x = paid - ts
          BY <1>3, <2>1
        <4>4. (IF 0 <= y THEN y ELSE 0) = d
          <5>1. y = 0 - x /\ d = w - x
            BY <1>7, <4>1, <4>3
          <5> QED
            BY <1>4, <5>1
        <4>5. (IF 0 <= y THEN y ELSE 0) \in Nat
          OBVIOUS
        <4> QED
          BY <4>1, <4>2, <4>4, <4>5
      <3>3. t <= state.tokens + Requests * span
        BY <1>7, <1>11, <3>1, <3>2, RefilledIs
      <3>4. t <= state.tokens + gain
        BY <1>9, <3>2, <3>3
      <3>5. state.tokens \in Nat
        BY <1>7, <1>8, RecordIs DEF Levels
      <3> QED
        BY <1>8, <1>10, <1>11, <3>1, <3>4, <3>5
    <2>2. CASE ~Live(ts)
      <3>1. Interval <= d
        BY <1>3, <1>4, <1>7, <1>8, <2>2
      <3>2. bucket <= gain
        BY <1>7, <1>8, <1>9, <3>1, Products
      <3> QED
        BY <1>8, <1>10, <1>11, <3>2
    <2> QED
      BY <2>1, <2>2
  <1>13. PICK more \in Int : /\ more = (adm + a) * Interval
                             /\ more = done + (IF NoToken(r, ts) THEN 0 ELSE Interval)
    <2>1. Interval * (adm + 1) = Interval * adm + Interval * 1
      BY <1>8, Products
    <2>2. (adm + 1) * Interval = Interval * (adm + 1) /\ Interval * adm = adm * Interval /\ Interval * 1 = Interval
      BY <1>8
    <2>3. (adm + 1) * Interval = done + Interval /\ adm + 0 = adm
      BY <1>9, <2>1, <2>2
    <2> QED
      BY <1>2, <1>8, <1>9, <1>10, <2>3
  <1>14. PICK left \in Nat : left = new.tokens /\ more + left = done + t
    BY <1>7, <1>8, <1>10, <1>13
  <1>15. more <= before + gain /\ more + left <= before + gain
    BY <1>8, <1>10, <1>12, <1>14
  <1>16. Requests * (Interval + ts - since + (rew + w)) = before + gain
    BY <1>8, <1>10
  <1>17. BucketOK(new, q, now)
    <2>1. q.admitted = adm + a /\ q.since = since /\ q.paid = ts /\ q.rewound = rew + w
      BY <1>6
    <2> QED
      BY <1>13, <1>14, <1>15, <1>16, <2>1 DEF BucketOK
  <1> QED
    BY <1>2, <1>5, <1>6, <1>17 DEF Rates


\* An attempt that admits its caller.
LEMMA AdmissionKeeps ==
    ASSUME ThrottlerInv, NEW c \in Callers, NEW ts \in Nat, ts <= now, NEW r \in Records, r = LiveOrInitial(ts),
           AcquireResult(r, ts) = "Acquired", NEW new, new = Stored(AcquiredState(c, r, ts))
    PROVE  /\ new \in Records /\ RecordInv(new, now) /\ Preserves(c, state, new, now)
           /\ RateHistory(r, ts) \in Rates /\ BucketOK(new, RateHistory(r, ts), now)
           /\ GrantedPermit(r, ts) \in Permits
           /\ \A b \in Beats : (b.pc \notin {"extending"} /\ b.call.ts <= now) =>
                 CallerOK(c, "holding", NoCall, GrantedPermit(r, ts), b, new, now)
  <1>1. Gate(r, ts) # "Block" /\ ~NoSlot(r, ts) /\ ~NoToken(r, ts)
    BY DEF AcquireResult
  <1>2. /\ now \in Nat /\ StateTtl \in Nat /\ MaxHold \in Nat \ {0} /\ ProbeWindow \in Nat \ {0} /\ MaxHold <= StateTtl
        /\ ProbeWindow <= StateTtl /\ NoHolder \notin Callers
    BY RecordIs, Config
  <1>3. RecordInv(r, now)
    BY FoundIs
  <1>4. PICK a : a = AcquiredState(c, r, ts)
    OBVIOUS
  <1>5. /\ a \in Records /\ RecordInv(a, now)
        /\ a.tokens = (IF HasRate THEN RefilledTokens(r, ts) - Interval ELSE r.tokens)
        /\ a.last_refill = (IF HasRate THEN ts ELSE r.last_refill) /\ a.slots = SlotsAfter(c, r, ts)
        /\ Gate(r, ts) = "AllowProbe" => a.probe_holder = c /\ a.probe_expires = ts + ProbeWindow
        /\ Gate(r, ts) # "AllowProbe" => a.probe_holder = r.probe_holder /\ a.probe_expires = r.probe_expires
    BY <1>1, <1>2, <1>3, <1>4, AdmittedIs
  <1>6. /\ new \in Records /\ new.present = TRUE /\ new.expires = now + StateTtl /\ new.tokens = a.tokens
        /\ new.last_refill = a.last_refill /\ new.slots = a.slots /\ new.failures = a.failures /\ new.circuit = a.circuit
        /\ new.opened_at = a.opened_at /\ new.probe_holder = a.probe_holder /\ new.probe_expires = a.probe_expires
    BY <1>4, <1>5, StoredIs
  <1>7. RecordInv(new, now)
    BY <1>2, <1>5, <1>6 DEF RecordInv
  <1>8. PICK s : s = SlotTaken(r, ts)
    OBVIOUS
  <1>9. /\ s \in {0} \union SlotIds /\ (HasSlots => s \in SlotIds) /\ (~HasSlots => new.slots = r.slots)
        /\ s \in SlotIds => HasSlots /\ RetainedSlots(r, ts)[s].holder = NoHolder
        /\ HasSlots => \A i \in SlotIds : new.slots[i] =
              (IF i = s THEN [holder |-> c, expires |-> ts + MaxHold] ELSE RetainedSlots(r, ts)[i])
        /\ \A i \in SlotIds : RetainedSlots(r, ts)[i] = (IF ts < r.slots[i].expires THEN r.slots[i] ELSE FreeSlot)
    <2>1. HasSlots => s # 0
      BY <1>1, <1>8 DEF NoSlot
    <2> QED
      BY <1>5, <1>6, <1>8, <2>1, SlotsAre
  <1>10. Preserves(c, state, new, now)
    <2>1. CASE ~Live(ts)
      BY <2>1, FoundIs DEF Preserves
    <2>2. CASE Live(ts)
      <3>1. r = state
        BY <2>2, FoundIs
      <3>2. state.expires <= new.expires
        BY <1>2, <1>6, RecordIs DEF RecordInv
      <3>3. ASSUME NEW i \in SlotIds, state.slots[i].holder \notin {c, NoHolder}, now < state.slots[i].expires
            PROVE  new.slots[i] = state.slots[i]
        <4>1. CASE HasSlots
          <5>1. state.slots[i].expires \in Nat
            BY RecordIs
          <5>2. RetainedSlots(r, ts)[i] = state.slots[i]
            BY <1>2, <1>9, <3>1, <3>3, <5>1
          <5>3. i # s
            BY <1>9, <3>3, <5>2
          <5> QED
            BY <1>9, <4>1, <5>2, <5>3
        <4>2. CASE ~HasSlots
          BY <1>9, <3>1, <4>2
        <4> QED
          BY <4>1, <4>2
      <3>4. ASSUME state.probe_holder \notin {c, NoHolder}, now < state.probe_expires
            PROVE  new.probe_holder = state.probe_holder /\ new.probe_expires = state.probe_expires
        <4>1. ProbeIsLive(r, ts)
          BY <1>2, <3>1, <3>4, RecordIs DEF ProbeIsLive
        <4>2. Gate(r, ts) # "AllowProbe"
          BY <4>1 DEF Gate
        <4> QED
          BY <1>5, <1>6, <3>1, <4>2
      <3> QED
        BY <1>6, <3>2, <3>3, <3>4 DEF Preserves
    <2> QED
      BY <2>1, <2>2
  <1>11. RateHistory(r, ts) \in Rates /\ BucketOK(new, RateHistory(r, ts), now)
    <2>1. CASE HasRate
      <3>1. RefilledTokens(r, ts) >= Interval
        <4>1. RefilledTokens(r, ts) \in Nat
          BY RefilledIs
        <4> QED
          BY <1>1, <2>1, <4>1, Config DEF NoToken
      <3>2. new.last_refill = ts /\ new.tokens = RefilledTokens(r, ts) - (IF NoToken(r, ts) THEN 0 ELSE Interval)
        BY <1>1, <1>5, <1>6, <2>1
      <3> QED
        BY <1>1, <2>1, <3>1, <3>2, BucketStep
    <2>2. CASE ~HasRate
      BY <2>2, RecordIs DEF RateHistory, BucketOK
    <2> QED
      BY <2>1, <2>2
  <1>12. PICK m : m = GrantedPermit(r, ts)
    OBVIOUS
  <1>13. /\ m \in Permits /\ m.slot = s /\ m.slot_until = (IF HasSlots THEN ts + MaxHold ELSE 0)
         /\ m.probe => Gate(r, ts) = "AllowProbe" /\ m.probe_until = ts + ProbeWindow
         /\ m.probe_until \in {0, ts + ProbeWindow}
    <2>1. PICK su \in Nat : su = (IF HasSlots THEN ts + MaxHold ELSE 0)
      BY <1>2
    <2>2. CASE Gate(r, ts) = "AllowProbe"
      <3>1. m = [slot |-> s, slot_until |-> su, probe |-> TRUE, probe_until |-> ts + ProbeWindow]
        BY <1>8, <1>12, <2>1, <2>2 DEF GrantedPermit
      <3> QED
        BY <1>2, <1>9, <2>1, <2>2, <3>1 DEF Permits
    <2>3. CASE Gate(r, ts) # "AllowProbe"
      <3>1. m = [slot |-> s, slot_until |-> su, probe |-> FALSE, probe_until |-> 0]
        BY <1>8, <1>12, <2>1, <2>3 DEF GrantedPermit
      <3> QED
        BY <1>9, <2>1, <3>1 DEF Permits
    <2> QED
      BY <2>2, <2>3
  <1>14. now < m.slot_until => SlotIsHeld(c, m, new)
    <2> SUFFICES ASSUME now < m.slot_until PROVE SlotIsHeld(c, m, new)
      OBVIOUS
    <2>1. HasSlots
      BY <1>2, <1>13
    <2>2. s \in SlotIds /\ new.slots[s] = [holder |-> c, expires |-> ts + MaxHold]
      BY <1>9, <2>1
    <2> QED
      BY <1>2, <1>6, <1>13, <2>1, <2>2 DEF SlotIsHeld
  <1>15. m.probe => ProbeIsHeld(c, m, new)
    BY <1>2, <1>5, <1>6, <1>13 DEF ProbeIsHeld
  <1>16. ASSUME NEW b \in Beats, b.pc \notin {"extending"}, b.call.ts <= now
         PROVE  CallerOK(c, "holding", NoCall, m, b, new, now)
    <2>1. NoCall.ts <= now
      BY Nothings
    <2>2. m.probe_until <= now + ProbeWindow
      BY <1>2, <1>13
    <2> QED
      BY <1>14, <1>15, <1>16, <2>1, <2>2 DEF CallerOK
  <1> QED
    BY <1>6, <1>7, <1>10, <1>11, <1>12, <1>13, <1>16

\* An attempt that does not.
LEMMA DenialKeeps ==
    ASSUME ThrottlerInv, NEW c \in Callers, NEW ts \in Nat, ts <= now, NEW r \in Records, r = LiveOrInitial(ts),
           AcquireResult(r, ts) # "Acquired", NEW new,
           new = IF DeniedWrites(r, ts) THEN Stored(DeniedState(r, ts)) ELSE state
    PROVE  /\ new \in Records /\ RecordInv(new, now) /\ Preserves(c, state, new, now)
           /\ RateHistory(r, ts) \in Rates /\ BucketOK(new, RateHistory(r, ts), now)
  <1>1. Gate(r, ts) = "Block" \/ NoSlot(r, ts) \/ NoToken(r, ts)
    BY DEF AcquireResult
  <1>2. now \in Nat /\ StateTtl \in Nat /\ MaxHold \in Nat \ {0} /\ ProbeWindow \in Nat \ {0} /\ NoHolder \notin Callers
    BY RecordIs, Config
  <1>3. RecordInv(r, now)
    BY FoundIs
  <1>4. PICK a : a = DeniedState(r, ts)
    OBVIOUS
  <1>5. PICK reached \in BOOLEAN : reached <=> HasRate /\ Gate(r, ts) # "Block" /\ ~NoSlot(r, ts)
    OBVIOUS
  <1>6. /\ a \in Records /\ RecordInv(a, now) /\ a.slots \in {r.slots, RetainedSlots(r, ts)}
        /\ a.probe_holder = r.probe_holder /\ a.probe_expires = r.probe_expires
        /\ reached => a.tokens = RefilledTokens(r, ts) /\ a.last_refill = ts
        /\ ~reached => a.tokens = r.tokens /\ a.last_refill = r.last_refill
    BY <1>2, <1>3, <1>4, <1>5, DeniedIs
  <1>7. CASE ~DeniedWrites(r, ts)
    <2>1. new = state /\ ~reached
      BY <1>5, <1>7 DEF DeniedWrites
    <2>2. state.expires \in Nat
      BY RecordIs
    <2> QED
      BY <1>5, <2>1, <2>2, RecordIs DEF Preserves, RateHistory, BucketOK
  <1>8. CASE DeniedWrites(r, ts)
    <2>1. /\ new \in Records /\ new.present = TRUE /\ new.expires = now + StateTtl /\ new.tokens = a.tokens
          /\ new.last_refill = a.last_refill /\ new.slots = a.slots /\ new.failures = a.failures /\ new.circuit = a.circuit
          /\ new.opened_at = a.opened_at /\ new.probe_holder = a.probe_holder /\ new.probe_expires = a.probe_expires
      BY <1>4, <1>6, <1>8, StoredIs
    <2>2. RecordInv(new, now)
      BY <1>2, <1>6, <2>1 DEF RecordInv
    <2>3. Preserves(c, state, new, now)
      <3>1. CASE ~Live(ts)
        BY <3>1, FoundIs DEF Preserves
      <3>2. CASE Live(ts)
        <4>1. r = state
          BY <3>2, FoundIs
        <4>2. state.expires <= new.expires
          BY <1>2, <2>1, RecordIs DEF RecordInv
        <4>3. ASSUME NEW i \in SlotIds, now < state.slots[i].expires
              PROVE  new.slots[i] = state.slots[i]
          <5>1. state.slots[i].expires \in Nat
            BY RecordIs
          <5>2. \A j \in SlotIds : RetainedSlots(r, ts)[j] = (IF ts < r.slots[j].expires THEN r.slots[j] ELSE FreeSlot)
            BY SlotsAre
          <5>3. RetainedSlots(r, ts)[i] = state.slots[i]
            BY <1>2, <4>1, <4>3, <5>1, <5>2
          <5> QED
            BY <1>6, <2>1, <4>1, <5>3
        <4> QED
          BY <1>6, <2>1, <4>1, <4>2, <4>3 DEF Preserves
      <3> QED
        BY <3>1, <3>2
    <2>4. RateHistory(r, ts) \in Rates /\ BucketOK(new, RateHistory(r, ts), now)
      <3>1. CASE reached
        <4>1. NoToken(r, ts) /\ new.last_refill = ts /\ new.tokens = RefilledTokens(r, ts)
          BY <1>1, <1>5, <1>6, <2>1, <3>1
        <4>2. RefilledTokens(r, ts) \in Nat
          BY RefilledIs
        <4>3. new.tokens = RefilledTokens(r, ts) - (IF NoToken(r, ts) THEN 0 ELSE Interval)
          BY <4>1, <4>2
        <4> QED
          BY <1>5, <3>1, <4>1, <4>3, BucketStep
      <3>2. CASE ~reached
        <4>1. RateHistory(r, ts) = rate
          BY <1>5, <3>2 DEF RateHistory
        <4>2. BucketOK(new, rate, now)
          <5>1. CASE HasRate
            <6>1. Live(ts)
              BY <1>5, <3>2, <5>1, FoundIs
            <6>2. r = state /\ state.present
              BY <6>1, FoundIs
            <6> QED
              BY <1>6, <2>1, <3>2, <6>2, SameBucket
          <5>2. CASE ~HasRate
            BY <5>2 DEF BucketOK
          <5> QED
            BY <5>1, <5>2
        <4> QED
          BY <4>1, <4>2, RecordIs
      <3> QED
        BY <3>1, <3>2
    <2> QED
      BY <2>1, <2>2, <2>3, <2>4
  <1> QED
    BY <1>7, <1>8


\* An attempt to acquire ends.
LEMMA AcquiresKeep ==
    ASSUME ThrottlerInv, NEW c \in Callers, AcquireReturns(c) \/ AcquireUnacknowledged(c)
    PROVE  ThrottlerInv'
  <1>1. CallersTyped /\ NoCall \in CallRecords /\ beat[c] \in Beats /\ permit[c] \in Permits /\ now \in Nat
    BY CallersAre, Nothings
  <1>2. PICK ts \in Nat : ts = call[c].ts /\ ts <= now
    BY CallersAre
  <1>3. PICK r \in Records : r = LiveOrInitial(ts)
    BY <1>2, FoundIs
  <1>4. /\ now' = now /\ outcome' = outcome /\ rate' = RateHistory(r, ts) /\ call' = [call EXCEPT ![c] = NoCall]
        /\ state' = IF AcquireResult(r, ts) = "Acquired" THEN Stored(AcquiredState(c, r, ts))
                    ELSE IF DeniedWrites(r, ts) THEN Stored(DeniedState(r, ts))
                    ELSE state
    BY <1>2, <1>3 DEF AcquireReturns, AcquireUnacknowledged, CommitAcquire, Set
  <1>5. pc[c] = "acquiring" /\ beat[c].pc = "none" /\ beat[c].call.ts <= now
    <2>1. CallerOK(c, pc[c], call[c], permit[c], beat[c], state, now)
      BY DEF ThrottlerInv, CallerInv
    <2> QED
      BY <2>1 DEF CallerOK, AcquireReturns, AcquireUnacknowledged
  <1>6. PICK new : new = state'
    OBVIOUS
  <1>7. /\ new \in Records /\ RecordInv(new, now) /\ Preserves(c, state, new, now)
        /\ rate' \in Rates /\ BucketOK(new, rate', now)
    <2>1. CASE AcquireResult(r, ts) = "Acquired"
      <3>1. new = Stored(AcquiredState(c, r, ts))
        BY <1>4, <1>6, <2>1
      <3> QED
        BY <1>2, <1>3, <1>4, <2>1, <3>1, AdmissionKeeps
    <2>2. CASE AcquireResult(r, ts) # "Acquired"
      <3>1. new = IF DeniedWrites(r, ts) THEN Stored(DeniedState(r, ts)) ELSE state
        BY <1>4, <1>6, <2>2
      <3> QED
        BY <1>2, <1>3, <1>4, <2>2, <3>1, DenialKeeps
    <2> QED
      BY <2>1, <2>2
  <1>8. /\ \E p \in {"idle", "done", "holding"}, m \in Permits, b \in Beats :
              /\ pc' = [pc EXCEPT ![c] = p] /\ permit' = [permit EXCEPT ![c] = m] /\ beat' = [beat EXCEPT ![c] = b]
              /\ CallerOK(c, p, NoCall, m, b, new, now)
    <2>1. beat = [beat EXCEPT ![c] = beat[c]] /\ permit = [permit EXCEPT ![c] = permit[c]]
      BY <1>1 DEF CallersTyped
    <2>2. \A p \in {"idle", "done"} : CallerOK(c, p, NoCall, permit[c], beat[c], new, now)
      BY <1>5, NotHolding
    <2>3. CASE AcquireUnacknowledged(c)
      <3>1. pc' = [pc EXCEPT ![c] = "done"] /\ permit' = permit /\ beat' = beat
        BY <2>3 DEF AcquireUnacknowledged, Set
      <3> QED
        BY <1>1, <2>1, <2>2, <3>1
    <2>4. CASE AcquireReturns(c) /\ AcquireResult(r, ts) # "Acquired"
      <3>1. pc' = [pc EXCEPT ![c] = "idle"] /\ permit' = permit /\ beat' = beat
        BY <1>2, <1>3, <2>4 DEF AcquireReturns, Set
      <3> QED
        BY <1>1, <2>1, <2>2, <3>1
    <2>5. CASE AcquireReturns(c) /\ AcquireResult(r, ts) = "Acquired"
      <3>1. PICK m : m = GrantedPermit(r, ts)
        OBVIOUS
      <3>2. PICK b : b = [beat[c] EXCEPT !.pc = "sleeping"]
        OBVIOUS
      <3>3. b \in Beats /\ b.pc = "sleeping" /\ b.call = beat[c].call
        BY <1>1, <3>2 DEF Beats
      <3>4. /\ pc' = [pc EXCEPT ![c] = "holding"] /\ permit' = [permit EXCEPT ![c] = m]
            /\ beat' = IF Gate(r, ts) = "AllowProbe" THEN [beat EXCEPT ![c] = b] ELSE beat
        BY <1>1, <1>2, <1>3, <2>5, <3>1, <3>2 DEF AcquireReturns, Set, CallersTyped
      <3>5. /\ m \in Permits
            /\ \A k \in Beats : (k.pc \notin {"extending"} /\ k.call.ts <= now) => CallerOK(c, "holding", NoCall, m, k, new, now)
        <4>1. new = Stored(AcquiredState(c, r, ts))
          BY <1>4, <1>6, <2>5
        <4> QED
          BY <1>2, <1>3, <2>5, <3>1, <4>1, AdmissionKeeps
      <3>6. CallerOK(c, "holding", NoCall, m, b, new, now) /\ CallerOK(c, "holding", NoCall, m, beat[c], new, now)
        BY <1>1, <1>5, <3>3, <3>5
      <3>7. PICK k \in {b, beat[c]} : beat' = [beat EXCEPT ![c] = k]
        BY <2>1, <3>4
      <3> QED
        BY <1>1, <3>3, <3>4, <3>5, <3>6, <3>7
    <2> QED
      BY <2>3, <2>4, <2>5
  <1>9. PICK p \in {"idle", "done", "holding"}, m \in Permits, b \in Beats :
              /\ pc' = [pc EXCEPT ![c] = p] /\ permit' = [permit EXCEPT ![c] = m] /\ beat' = [beat EXCEPT ![c] = b]
              /\ CallerOK(c, p, NoCall, m, b, new, now)
    BY <1>8
  <1>10. CallersTyped' /\ Others(c)
    BY <1>1, <1>4, <1>9 DEF CallersTyped, Others
  <1>11. pc'[c] = p /\ call'[c] = NoCall /\ permit'[c] = m /\ beat'[c] = b
    BY <1>1, <1>4, <1>9 DEF CallersTyped
  <1>12. CallerOK(c, pc'[c], call'[c], permit'[c], beat'[c], state', now)
    BY <1>6, <1>9, <1>11
  <1> QED
    BY <1>4, <1>6, <1>7, <1>10, <1>12, CallerStep


\* A record made anew holds a full bucket, which is paid for.
LEMMA NewBucket ==
    ASSUME ThrottlerInv, HasRate, ~Live(now), NEW new, new.last_refill = now, new.tokens \in Levels
    PROVE  PaidOut(now) \in Rates /\ BucketOK(new, PaidOut(now), now)
  <1>1. PICK adm \in Nat, since \in Nat, paid \in Int, rew \in Nat :
           rate = [admitted |-> adm, since |-> since, paid |-> paid, rewound |-> rew]
    BY RecordIs DEF Rates
  <1>2. PICK n \in Nat : n = now
    BY RecordIs
  <1>3. PICK w \in Nat : w = Max({0, paid + Interval - n}) /\ paid + Interval - n <= w
    <2>1. PICK x \in Int : x = paid + Interval - n
      BY Config
    <2>2. Max({0, x}) = (IF 0 <= x THEN x ELSE 0)
      BY OverZero
    <2>3. (IF 0 <= x THEN x ELSE 0) \in Nat /\ x <= (IF 0 <= x THEN x ELSE 0)
      BY <2>1
    <2> QED
      BY <2>1, <2>2, <2>3
  <1>4. PICK q : q = PaidOut(now)
    OBVIOUS
  <1>5. q = [admitted |-> adm, since |-> since, paid |-> n, rewound |-> rew + w]
    BY <1>1, <1>2, <1>3, <1>4 DEF PaidOut
  <1>6. PICK base, d : base = Interval + paid - since + rew /\ d = n - paid + w
    OBVIOUS
  <1>7. /\ base \in Int /\ d \in Int /\ Interval <= d /\ base + d = Interval + n - since + (rew + w)
        /\ Requests \in Nat /\ Interval \in Nat
    BY <1>2, <1>3, <1>6, Config
  <1>8. PICK before, gain, bucket : before = Requests * base /\ gain = Requests * d /\ bucket = Requests * Interval
    OBVIOUS
  <1>9. /\ before \in Int /\ gain \in Int /\ bucket \in Nat /\ bucket <= gain /\ Requests * (base + d) = before + gain
    <2>1. /\ Requests * base \in Int /\ Requests * (base + d) = Requests * base + Requests * d
      BY <1>7, Products
    <2>2. Requests * d \in Int /\ Requests * Interval <= Requests * d /\ Requests * Interval \in Nat
      BY <1>7, Products
    <2> QED
      BY <1>8, <2>1, <2>2
  <1>10. PICK done : done = adm * Interval
    OBVIOUS
  <1>11. done \in Nat /\ done <= before
    <2>1. BucketOK(state, rate, now)
      BY RecordIs
    <2>2. done <= before
      BY <1>1, <1>6, <1>8, <1>10, <2>1 DEF BucketOK
    <2> QED
      BY <1>7, <1>10, <2>2, Products
  <1>12. PICK t \in Nat : t = new.tokens /\ t <= bucket
    BY <1>8, <1>9 DEF Levels
  <1>13. done <= before + gain /\ done + t <= before + gain
    BY <1>9, <1>11, <1>12
  <1>14. Requests * (Interval + n - since + (rew + w)) = before + gain
    BY <1>7, <1>9
  <1>15. q.admitted = adm /\ q.since = since /\ q.paid = n /\ q.rewound = rew + w /\ q \in Rates
    BY <1>5 DEF Rates
  <1>16. BucketOK(new, q, now)
    BY <1>2, <1>10, <1>12, <1>13, <1>14, <1>15 DEF BucketOK
  <1> QED
    BY <1>4, <1>15, <1>16

\* A step of the operators or of the clock leaves the callers where they are.
LEMMA SystemStep ==
    ASSUME ThrottlerInv, ThrottlerTyped', RecordInv(state', now'), BucketOK(state', rate', now'),
           \A c \in Callers : CallerOK(c, pc'[c], call'[c], permit'[c], beat'[c], state', now')
    PROVE  ThrottlerInv'
  <1>1. RecordInv(state, now)' /\ BucketOK(state, rate, now)'
    BY DEF RecordInv, BucketOK
  <1>2. ASSUME NEW c \in Callers
        PROVE  CallerInv(c)'
    <2>1. PICK p, k, m, b, st, n :
             p = pc'[c] /\ k = call'[c] /\ m = permit'[c] /\ b = beat'[c] /\ st = state' /\ n = now'
      OBVIOUS
    <2>2. CallerOK(c, p, k, m, b, st, n)
      BY <2>1
    <2> QED
      BY <2>1, <2>2 DEF CallerInv
  <1> QED
    BY <1>1, <1>2 DEF ThrottlerInv

\* A permit that counts is of a record that is live.
LEMMA HeldIsLive ==
    ASSUME ThrottlerInv, NEW c \in Callers, NEW m \in Permits
    PROVE  /\ (now < m.slot_until /\ SlotIsHeld(c, m, state)) => Live(now)
           /\ (now < m.probe_until /\ ProbeIsHeld(c, m, state)) => Live(now)
  <1>1. m.slot_until \in Nat /\ m.probe_until \in Nat /\ state.expires \in Nat /\ now \in Nat
    BY RecordIs DEF Permits
  <1> QED
    BY <1>1 DEF SlotIsHeld, ProbeIsHeld, Live


\* What an operator stores: a circuit without failures or open from now on, no probe.
Overridden(r, circuit) ==
    [r EXCEPT !.circuit = circuit, !.opened_at = IF circuit = "open" THEN now ELSE NoTime,
              !.failures = IF circuit = "closed" THEN 0 ELSE @,
              !.probe_holder = NoHolder, !.probe_expires = NoTime]

\* What the open and close calls of an operator make of the record.
LEMMA OverrideIs ==
    ASSUME ThrottlerInv, NEW circuit \in {"open", "closed"}, NEW r \in Records, RecordInv(r, now),
           NEW new, new = Stored(Overridden(r, circuit))
    PROVE  /\ new \in Records /\ RecordInv(new, now) /\ new.present = TRUE /\ new.expires = now + StateTtl
           /\ new.tokens = r.tokens /\ new.last_refill = r.last_refill /\ new.slots = r.slots
  <1>1. NoTime \in Int /\ now \in Nat /\ StateTtl \in Nat /\ Threshold \in Nat \ {0} /\ r.failures \in Nat
    BY RecordIs, Config DEF NoTime, Records
  <1>2. PICK at \in Int : at = IF circuit = "open" THEN now ELSE NoTime
    BY <1>1
  <1>3. PICK failures \in Nat : failures = IF circuit = "closed" THEN 0 ELSE r.failures
    BY <1>1
  <1>4. PICK q : q = [r EXCEPT !.circuit = circuit, !.opened_at = at, !.failures = failures,
                               !.probe_holder = NoHolder, !.probe_expires = NoTime]
    OBVIOUS
  <1>5. /\ q \in Records /\ q.circuit = circuit /\ q.opened_at = at /\ q.failures = failures
        /\ q.probe_holder = NoHolder /\ q.probe_expires = NoTime
        /\ q.tokens = r.tokens /\ q.last_refill = r.last_refill /\ q.slots = r.slots
    BY <1>1, <1>4 DEF Records
  <1>6. new = Stored(q)
    BY <1>2, <1>3, <1>4 DEF Overridden
  <1>7. /\ new \in Records /\ new.present = TRUE /\ new.expires = now + StateTtl /\ new.tokens = q.tokens
        /\ new.last_refill = q.last_refill /\ new.slots = q.slots /\ new.failures = q.failures /\ new.circuit = q.circuit
        /\ new.opened_at = q.opened_at /\ new.probe_holder = q.probe_holder /\ new.probe_expires = q.probe_expires
    BY <1>5, <1>6, StoredIs
  <1>8. RecordInv(new, now)
    BY <1>1, <1>2, <1>3, <1>5, <1>7 DEF RecordInv
  <1> QED
    BY <1>5, <1>7, <1>8

\* An operator forces the circuit.
LEMMA OverridesKeep ==
    ASSUME ThrottlerInv, NEW circuit \in {"open", "closed"}, SetCircuit(circuit)
    PROVE  ThrottlerInv'
  <1>1. CallersTyped /\ now \in Nat /\ now' = now /\ pc' = pc /\ call' = call /\ outcome' = outcome /\ beat' = beat
    BY RecordIs DEF ThrottlerInv, ThrottlerTyped, CallersTyped, SetCircuit
  <1>2. PICK r \in Records : r = LiveOrInitial(now) /\ RecordInv(r, now)
    BY RecordIs, FoundIs
  <1>3. PICK new : new = state'
    OBVIOUS
  <1>4. /\ new \in Records /\ RecordInv(new, now) /\ new.present = TRUE /\ new.expires = now + StateTtl
        /\ new.tokens = r.tokens /\ new.last_refill = r.last_refill /\ new.slots = r.slots
    <2>1. state' = Stored(Overridden(LiveOrInitial(now), circuit))
      BY Zenon DEF SetCircuit, Overridden
    <2> QED
      BY <1>2, <1>3, <2>1, OverrideIs
  <1>5. rate' \in Rates /\ BucketOK(new, rate', now)
    <2>1. CASE ~HasRate
      BY <2>1, RecordIs DEF SetCircuit, BucketOK
    <2>2. CASE HasRate /\ Live(now)
      <3>1. r = state /\ state.present /\ rate' = rate
        BY <1>1, <1>2, <2>2, FoundIs DEF SetCircuit
      <3> QED
        BY <1>4, <3>1, RecordIs, SameBucket
    <2>3. CASE HasRate /\ ~Live(now)
      <3>1. rate' = PaidOut(now) /\ r.last_refill = now
        BY <1>1, <1>2, <2>3, FoundIs DEF SetCircuit
      <3>2. new.last_refill = now /\ new.tokens \in Levels
        BY <1>2, <1>4, <3>1 DEF Records
      <3> QED
        BY <2>3, <3>1, <3>2, NewBucket
    <2> QED
      BY <2>1, <2>2, <2>3
  <1>6. permit' = [c \in Callers |-> [permit[c] EXCEPT !.probe_until = 0]]
    BY DEF SetCircuit, RevokeProbes
  <1>7. ASSUME NEW c \in Callers
        PROVE  permit'[c] \in Permits /\ CallerOK(c, pc'[c], call'[c], permit'[c], beat'[c], new, now)
    <2>1. PICK m \in Permits : m = permit[c] /\ CallerOK(c, pc[c], call[c], m, beat[c], state, now)
      BY <1>1 DEF CallersTyped, ThrottlerInv, CallerInv
    <2>2. PICK k : k = [m EXCEPT !.probe_until = 0]
      OBVIOUS
    <2>3. k \in Permits /\ k.probe_until = 0 /\ k.slot = m.slot /\ k.slot_until = m.slot_until
      BY <2>2 DEF Permits
    <2>4. permit'[c] = k
      BY <1>6, <2>1, <2>2
    <2>5. beat[c].call.ts \in Nat /\ ProbeWindow \in Nat
      BY <1>1, Config DEF CallersTyped, Beats, CallRecords
    <2>6. (pc[c] = "holding" /\ now < k.slot_until) => SlotIsHeld(c, k, new)
      <3> SUFFICES ASSUME pc[c] = "holding", now < k.slot_until PROVE SlotIsHeld(c, k, new)
        OBVIOUS
      <3>1. SlotIsHeld(c, m, state) /\ Live(now)
        BY <2>1, <2>3, HeldIsLive DEF CallerOK
      <3>2. r = state
        BY <1>1, <1>2, <3>1, FoundIs
      <3>3. state.expires <= now + StateTtl /\ state.expires \in Nat /\ StateTtl \in Nat /\ m.slot_until \in Nat
        BY RecordIs, Config DEF RecordInv, Permits
      <3> QED
        BY <1>1, <1>4, <2>3, <3>1, <3>2, <3>3 DEF SlotIsHeld
    <2>7. CallerOK(c, pc[c], call[c], k, beat[c], new, now)
      BY <1>1, <2>1, <2>3, <2>5, <2>6 DEF CallerOK
    <2> QED
      BY <1>1, <2>3, <2>4, <2>7
  <1>8. permit' \in [Callers -> Permits]
    BY <1>6, <1>7
  <1>9. ThrottlerTyped'
    BY <1>1, <1>3, <1>4, <1>5, <1>8 DEF ThrottlerInv, ThrottlerTyped, CallersTyped
  <1>10. /\ RecordInv(state', now') /\ BucketOK(state', rate', now')
         /\ \A c \in Callers : CallerOK(c, pc'[c], call'[c], permit'[c], beat'[c], state', now')
    BY <1>1, <1>3, <1>4, <1>5, <1>7
  <1> QED
    BY <1>9, <1>10, SystemStep

\* The row is deleted, when no permit counts any more.
LEMMA DeletionKeeps ==
    ASSUME ThrottlerInv, DeleteRow, UNCHANGED <<now, pc, outcome>>, permit' \in [Callers -> Permits],
           \A c \in Callers : /\ permit'[c].probe_until \in {0, permit[c].probe_until}
                              /\ permit'[c].slot_until <= now \/ pc[c] # "holding"
                              /\ permit'[c].probe_until <= now \/ ~permit'[c].probe \/ pc[c] # "holding",
           rate' \in Rates, BucketOK(state', rate', now)
    PROVE  ThrottlerInv'
  <1>1. CallersTyped /\ now \in Nat /\ now' = now /\ pc' = pc /\ outcome' = outcome /\ state' = Absent
    BY RecordIs DEF ThrottlerInv, ThrottlerTyped, CallersTyped, DeleteRow
  <1>2. Absent \in Records /\ RecordInv(Absent, now)
    <2>1. PICK z \in Nat : z = 0
      OBVIOUS
    <2>2. InitialState(z) \in Records /\ RecordInv(InitialState(z), now)
      <3>1. z <= now
        BY <1>1, <2>1
      <3> QED
        BY <1>1, <3>1, InitialIs, Zenon
    <2> QED
      BY <2>1, <2>2 DEF Absent
  <1>3. ASSUME NEW c \in Callers
        PROVE  /\ call'[c] \in CallRecords /\ call'[c].ts = call[c].ts
               /\ beat'[c] \in Beats /\ beat'[c].pc = beat[c].pc /\ beat'[c].call.ts = beat[c].call.ts
    <2>1. PICK k \in CallRecords : k = call[c]
      BY <1>1 DEF CallersTyped
    <2>2. PICK b \in Beats : b = beat[c] /\ b.call \in CallRecords
      BY <1>1 DEF CallersTyped, Beats
    <2>3. PICK l : l = [b.call EXCEPT !.saw = FALSE]
      OBVIOUS
    <2>4. l \in CallRecords /\ l.ts = b.call.ts
      BY <2>2, <2>3 DEF CallRecords
    <2>5. call'[c] = [k EXCEPT !.saw = FALSE] /\ beat'[c] = [b EXCEPT !.call = l]
      BY <2>1, <2>2, <2>3 DEF DeleteRow
    <2>6. [k EXCEPT !.saw = FALSE] \in CallRecords /\ [k EXCEPT !.saw = FALSE].ts = k.ts
      BY DEF CallRecords
    <2>7. [b EXCEPT !.call = l] \in Beats /\ [b EXCEPT !.call = l].pc = b.pc /\ [b EXCEPT !.call = l].call = l
      BY <2>4 DEF Beats
    <2> QED
      BY <2>1, <2>2, <2>4, <2>5, <2>6, <2>7
  <1>4. call' \in [Callers -> CallRecords] /\ beat' \in [Callers -> Beats]
    <2>1. call' = [c \in Callers |-> call'[c]] /\ beat' = [c \in Callers |-> beat'[c]]
      BY DEF DeleteRow
    <2> QED
      BY <1>3, <2>1
  <1>5. ThrottlerTyped'
    BY <1>1, <1>2, <1>4 DEF ThrottlerInv, ThrottlerTyped, CallersTyped
  <1>6. ASSUME NEW c \in Callers
        PROVE  CallerOK(c, pc'[c], call'[c], permit'[c], beat'[c], state', now')
    <2>1. PICK m \in Permits : m = permit[c] /\ CallerOK(c, pc[c], call[c], m, beat[c], state, now)
      BY DEF ThrottlerInv, ThrottlerTyped, CallerInv
    <2>2. PICK k \in Permits : k = permit'[c]
      OBVIOUS
    <2>3. /\ k.probe_until \in {0, m.probe_until} /\ (k.slot_until <= now \/ pc[c] # "holding")
          /\ k.probe_until <= now \/ ~k.probe \/ pc[c] # "holding"
      BY <2>1, <2>2
    <2>4. /\ k.probe_until \in Nat /\ k.slot_until \in Nat /\ m.probe_until \in Nat /\ ProbeWindow \in Nat
          /\ call[c].ts \in Nat /\ beat[c].call.ts \in Nat
      BY <1>1, Config DEF Permits, CallersTyped, Beats, CallRecords
    <2>5. PICK l, b, n : l = call'[c] /\ b = beat'[c] /\ n = now
      OBVIOUS
    <2>6. CallerOK(c, pc[c], l, k, b, Absent, n)
      BY <1>1, <1>3, <2>1, <2>3, <2>4, <2>5 DEF CallerOK
    <2> QED
      BY <1>1, <2>2, <2>5, <2>6
  <1>7. RecordInv(state', now') /\ BucketOK(state', rate', now')
    BY <1>1, <1>2
  <1> QED
    BY <1>5, <1>6, <1>7, SystemStep


\* The reset of an operator, and the purge of an expired record.
LEMMA ResetsKeep ==
    ASSUME ThrottlerInv, Reset \/ PurgeExpired
    PROVE  ThrottlerInv'
  <1>1. permit \in [Callers -> Permits] /\ now \in Nat /\ state.expires \in Nat /\ rate \in Rates
    BY RecordIs DEF ThrottlerInv, ThrottlerTyped
  <1>2. Absent.present = FALSE
    BY DEF Absent, InitialState
  <1>3. CASE Reset
    <2>1. permit' = [c \in Callers |-> [permit[c] EXCEPT !.slot_until = 0, !.probe_until = 0]]
      BY <1>3 DEF Reset
    <2>2. ASSUME NEW c \in Callers
          PROVE  permit'[c] \in Permits /\ permit'[c].slot_until = 0 /\ permit'[c].probe_until = 0
      <3>1. PICK m \in Permits : m = permit[c]
        BY <1>1
      <3>2. PICK k : k = [m EXCEPT !.slot_until = 0, !.probe_until = 0]
        OBVIOUS
      <3>3. k \in Permits /\ k.slot_until = 0 /\ k.probe_until = 0
        BY <3>2 DEF Permits
      <3> QED
        BY <2>1, <3>1, <3>2, <3>3
    <2>3. permit' \in [Callers -> Permits]
      BY <2>1, <2>2
    <2>4. rate' \in Rates /\ BucketOK(state', rate', now)
      <3>1. CASE HasRate
        <4>1. rate' = [admitted |-> 0, since |-> now, paid |-> now - Interval, rewound |-> 0]
          BY <1>3, <3>1 DEF Reset, FreshRate
        <4>2. Interval \in Nat /\ now - Interval <= now /\ now - Interval \in Int
          BY <1>1, Config
        <4>3. rate'.admitted = 0 /\ rate'.since = now /\ rate'.paid = now - Interval /\ rate'.rewound = 0 /\ rate' \in Rates
          BY <1>1, <4>1, <4>2 DEF Rates
        <4>4. PICK z \in Int : z = 0 /\ Interval + rate'.paid - rate'.since + rate'.rewound = z /\ rate'.admitted = z
          BY <1>1, <4>2, <4>3
        <4>5. z * Interval = 0 /\ Requests * z = 0
          BY <4>4, Config
        <4>6. state'.present = FALSE
          BY <1>2, <1>3 DEF Reset, DeleteRow
        <4> QED
          BY <4>2, <4>3, <4>4, <4>5, <4>6 DEF BucketOK
      <3>2. CASE ~HasRate
        BY <1>1, <1>3, <3>2 DEF Reset, BucketOK
      <3> QED
        BY <3>1, <3>2
    <2>5. DeleteRow /\ UNCHANGED <<now, pc, outcome>>
      BY <1>3 DEF Reset
    <2>6. \A c \in Callers : /\ permit'[c].probe_until \in {0, permit[c].probe_until}
                             /\ permit'[c].slot_until <= now \/ pc[c] # "holding"
                             /\ permit'[c].probe_until <= now \/ ~permit'[c].probe \/ pc[c] # "holding"
      <3>1. 0 <= now
        BY <1>1
      <3> QED
        BY <2>2, <3>1
    <2> QED
      BY <2>3, <2>4, <2>5, <2>6, DeletionKeeps
  <1>4. CASE PurgeExpired
    <2>1. permit' = permit /\ rate' = rate /\ DeleteRow /\ UNCHANGED <<now, pc, outcome>>
      BY <1>4 DEF PurgeExpired
    <2>2. ~Live(now)
      BY <1>1, <1>4 DEF PurgeExpired, Live
    <2>3. ASSUME NEW c \in Callers
          PROVE  /\ permit'[c].probe_until \in {0, permit[c].probe_until}
                 /\ permit'[c].slot_until <= now \/ pc[c] # "holding"
                 /\ permit'[c].probe_until <= now \/ ~permit'[c].probe \/ pc[c] # "holding"
      <3>1. PICK m \in Permits : m = permit[c] /\ m.slot_until \in Nat /\ m.probe_until \in Nat
        BY <1>1 DEF Permits
      <3>2. CallerOK(c, pc[c], call[c], m, beat[c], state, now)
        BY <3>1 DEF ThrottlerInv, CallerInv
      <3>3. m.slot_until <= now \/ pc[c] # "holding"
        BY <1>1, <2>2, <3>1, <3>2, HeldIsLive DEF CallerOK
      <3>4. m.probe_until <= now \/ ~m.probe \/ pc[c] # "holding"
        BY <1>1, <2>2, <3>1, <3>2, HeldIsLive DEF CallerOK
      <3> QED
        BY <2>1, <3>1, <3>3, <3>4
    <2>4. BucketOK(state', rate', now)
      BY <1>2, <2>1, RecordIs DEF DeleteRow, BucketOK
    <2> QED
      BY <1>1, <2>1, <2>3, <2>4, DeletionKeeps
  <1> QED
    BY <1>3, <1>4

\* Time passes.
LEMMA TicksKeep ==
    ASSUME ThrottlerInv, Tick
    PROVE  ThrottlerInv'
  <1>1. PICK n \in Nat : n = now
    BY RecordIs
  <1>2. /\ now' = n + 1 /\ n + 1 \in 0 .. MaxTime
        /\ state' = state /\ pc' = pc /\ call' = call /\ permit' = permit /\ outcome' = outcome /\ beat' = beat /\ rate' = rate
    BY <1>1, Config DEF Tick
  <1>3. ThrottlerTyped'
    BY <1>2 DEF ThrottlerInv, ThrottlerTyped
  <1>4. RecordInv(state, n + 1)
    BY <1>1, RecordIs, Config DEF RecordInv
  <1>5. BucketOK(state, rate, n + 1)
    <2>1. BucketOK(state, rate, n) /\ rate.paid \in Int
      BY <1>1, RecordIs DEF Rates
    <2> QED
      BY <2>1 DEF BucketOK
  <1>6. ASSUME NEW c \in Callers
        PROVE  CallerOK(c, pc[c], call[c], permit[c], beat[c], state, n + 1)
    <2>1. PICK k \in CallRecords, m \in Permits, b \in Beats : k = call[c] /\ m = permit[c] /\ b = beat[c]
      BY DEF ThrottlerInv, ThrottlerTyped
    <2>2. CallerOK(c, pc[c], k, m, b, state, n)
      BY <1>1, <2>1 DEF ThrottlerInv, CallerInv
    <2>3. /\ k.ts \in Nat /\ b.call.ts \in Nat /\ m.slot_until \in Nat /\ m.probe_until \in Nat /\ ProbeWindow \in Nat
      BY Config DEF CallRecords, Permits, Beats
    <2>4. CallerOK(c, pc[c], k, m, b, state, n + 1)
      BY <2>2, <2>3 DEF CallerOK
    <2> QED
      BY <2>1, <2>4
  <1>7. /\ RecordInv(state', now') /\ BucketOK(state', rate', now')
        /\ \A c \in Callers : CallerOK(c, pc'[c], call'[c], permit'[c], beat'[c], state', now')
    BY <1>2, <1>4, <1>5, <1>6
  <1> QED
    BY <1>3, <1>7, SystemStep

\* The record that is not there yet, and callers that have not begun.
LEMMA ThrottlerInitInv == Init => ThrottlerInv
  <1> SUFFICES ASSUME Init PROVE ThrottlerInv
    OBVIOUS
  <1>1. /\ now = 0 /\ state = Absent /\ rate = FreshRate(0) /\ pc = [c \in Callers |-> "idle"]
        /\ call = [c \in Callers |-> NoCall] /\ permit = [c \in Callers |-> NoPermit]
        /\ outcome = [c \in Callers |-> "none"] /\ beat = [c \in Callers |-> NoBeat]
    BY DEF Init
  <1>2. NoCall \in CallRecords /\ NoCall.ts = 0 /\ NoPermit \in Permits /\ NoPermit.probe_until = 0 /\ ~NoPermit.probe
    BY DEF NoCall, CallRecords, NoPermit, Permits
  <1>3. NoBeat \in Beats /\ NoBeat.pc = "none" /\ NoBeat.call = NoCall
    BY <1>2, Config DEF NoBeat, Beats
  <1>4. state \in Records /\ RecordInv(state, now) /\ state.present = FALSE
    <2>1. PICK z \in Nat : z = 0 /\ z <= z
      OBVIOUS
    <2>2. InitialState(z) \in Records /\ RecordInv(InitialState(z), z) /\ InitialState(z).present = FALSE
      BY <2>1, InitialIs, Zenon
    <2> QED
      BY <1>1, <2>1, <2>2 DEF Absent
  <1>5. rate \in Rates /\ BucketOK(state, rate, now)
    <2>1. rate = [admitted |-> 0, since |-> 0, paid |-> 0 - Interval, rewound |-> 0] /\ Interval \in Nat
      BY <1>1, Config DEF FreshRate
    <2>2. rate.admitted = 0 /\ rate.since = 0 /\ rate.paid = 0 - Interval /\ rate.rewound = 0 /\ rate \in Rates
      BY <2>1 DEF Rates
    <2>3. PICK z \in Int : z = 0 /\ Interval + rate.paid - rate.since + rate.rewound = z /\ rate.admitted = z
      BY <2>1, <2>2
    <2>4. z * Interval = 0 /\ Requests * z = 0
      BY <2>1, <2>3, Config
    <2> QED
      BY <1>1, <1>4, <2>1, <2>2, <2>3, <2>4 DEF BucketOK
  <1>6. ThrottlerTyped
    <2>1. now \in 0 .. MaxTime
      BY <1>1, Config
    <2> QED
      BY <1>1, <1>2, <1>3, <1>4, <1>5, <2>1 DEF ThrottlerTyped
  <1>7. ASSUME NEW c \in Callers
        PROVE  CallerInv(c)
    <2>1. ProbeWindow \in Nat
      BY Config
    <2>2. CallerOK(c, "idle", NoCall, NoPermit, NoBeat, state, 0)
      BY <1>2, <1>3, <2>1 DEF CallerOK
    <2> QED
      BY <1>1, <2>2 DEF CallerInv
  <1> QED
    BY <1>4, <1>5, <1>6, <1>7 DEF ThrottlerInv

\* Every step preserves it.
LEMMA ThrottlerNextKeeps == ThrottlerInv /\ [Next]_vars => ThrottlerInv'
  <1> SUFFICES ASSUME ThrottlerInv, [Next]_vars PROVE ThrottlerInv'
    OBVIOUS
  <1>1. ASSUME NEW c \in Callers, CallerNext(c)
        PROVE  ThrottlerInv'
    <2>1. CASE BeginAcquire(c) \/ AcquireRollsBack(c) \/ LockAgain(c)
      BY <2>1, BeginsKeep
    <2>2. CASE AcquireReturns(c) \/ AcquireUnacknowledged(c)
      BY <2>2, AcquiresKeep
    <2>3. CASE ReleaseReturns(c) \/ ReleaseErrs(c) \/ CleanupEnds(c)
      BY <2>3, ReleasesKeep
    <2>4. CASE \/ \E result \in {"NotExecuted", "Succeeded", "Failed"} : ReleasePermit(c, result)
               \/ \E result \in {"NotExecuted", "Failed"} : DropGuard(c, result)
               \/ Crash(c)
      BY <2>4, LeavesKeep
    <2> QED
      BY <1>1, <2>1, <2>2, <2>3, <2>4 DEF CallerNext
  <1>2. ASSUME NEW c \in Callers, BeatNext(c)
        PROVE  ThrottlerInv'
    <2>1. CASE BeatWakes(c) \/ ExtendAgain(c)
      BY <2>1, BeatsKeep
    <2>2. CASE ExtendReturns(c) \/ ExtendErrs(c)
      BY <2>2, ExtendsKeep
    <2> QED
      BY <1>2, <2>1, <2>2 DEF BeatNext
  <1>3. ASSUME NEW circuit \in OperatorCalls \ {"reset"}, SetCircuit(circuit)
        PROVE  ThrottlerInv'
    <2>1. circuit \in {"open", "closed"}
      BY ConfigAssumption
    <2> QED
      BY <1>3, <2>1, OverridesKeep
  <1>4. CASE Reset \/ PurgeExpired
    BY <1>4, ResetsKeep
  <1>5. CASE Tick
    BY <1>5, TicksKeep
  <1>6. CASE UNCHANGED vars
    BY <1>6 DEF vars, ThrottlerInv, ThrottlerTyped, RecordInv, BucketOK, CallerInv, CallerOK, SlotIsHeld, ProbeIsHeld
  <1> QED
    BY <1>1, <1>2, <1>3, <1>4, <1>5, <1>6 DEF Next


\* What the record and the callers hold stays what the steps of the throttler
\* rely on.
THEOREM ThrottlerInvariance == Spec => []ThrottlerInv
  <1>1. Init => ThrottlerInv
    BY ThrottlerInitInv
  <1>2. ThrottlerInv /\ [Next]_vars => ThrottlerInv'
    BY ThrottlerNextKeeps
  <1> QED
    BY <1>1, <1>2, PTL DEF Spec

\* The record and its circuit are of their types, and of two half-open probes only
\* one runs with a valid reservation (throttler_acquire.rs and throttler_probe.rs).
THEOREM ThrottlerCircuit == Spec => []CircuitIsSound
  <1>1. ThrottlerInv => CircuitIsSound
    <2> SUFFICES ASSUME ThrottlerInv PROVE CircuitIsSound
      OBVIOUS
    <2>1. ThrottlerTypeOK
      <3>1. /\ now \in 0 .. MaxTime /\ pc \in [Callers -> {"idle", "acquiring", "holding", "releasing", "cleaning", "done"}]
            /\ outcome \in [Callers -> {"none", "NotExecuted", "Succeeded", "Failed"}]
        BY DEF ThrottlerInv, ThrottlerTyped
      <3>2. state.tokens \in 0 .. Requests * Interval
        BY RecordIs DEF Levels
      <3>3. state.last_refill \in 0 .. now /\ state.expires \in 0 .. now + StateTtl
        BY RecordIs, Config DEF RecordInv
      <3>4. ASSUME NEW i \in SlotIds
            PROVE  state.slots[i].holder \in Callers \union {NoHolder} /\ state.slots[i].expires \in 0 .. now + MaxHold
        BY RecordIs, Config DEF RecordInv
      <3>5. /\ state.circuit = "open" => state.opened_at \in 0 .. now
            /\ state.circuit = "closed" => state.failures < Threshold
            /\ (state.probe_holder = NoHolder <=> state.probe_expires = NoTime)
        BY RecordIs DEF RecordInv
      <3>6. ASSUME NEW c \in Callers
            PROVE  /\ permit[c].slot \in {0} \union SlotIds /\ beat[c].pc \in {"none", "sleeping", "extending"}
                   /\ beat[c].failures \in 0 .. MaxBeatFailures - 1
        <4>1. permit[c] \in Permits /\ beat[c] \in Beats
          BY CallersAre
        <4> QED
          BY <4>1 DEF Permits, Beats
      <3> QED
        BY <3>1, <3>2, <3>3, <3>4, <3>5, <3>6 DEF ThrottlerTypeOK
    <2>2. ASSUME NEW c \in Callers, NEW d \in Callers, RunsProbe(c), RunsProbe(d)
          PROVE  c = d
      <3>1. ProbeIsHeld(c, permit[c], state) /\ ProbeIsHeld(d, permit[d], state)
        BY <2>2 DEF ThrottlerInv, CallerInv, CallerOK, RunsProbe
      <3> QED
        BY <3>1 DEF ProbeIsHeld
    <2> QED
      BY <2>1, <2>2 DEF CircuitIsSound, ProbeIsExclusive
  <1> QED
    BY <1>1, ThrottlerInvariance, PTL

\* At most max_concurrent tasks run within the time they may hold their slot.
THEOREM ThrottlerConcurrency == Spec => []ConcurrencyBound
  <1>1. ThrottlerInv => ConcurrencyBound
    <2> SUFFICES ASSUME ThrottlerInv PROVE ConcurrencyBound
      OBVIOUS
    <2>1. PICK H : H = {c \in Callers : pc[c] = "holding" /\ now < permit[c].slot_until}
      OBVIOUS
    <2>2. ASSUME NEW c \in H
          PROVE  permit[c].slot \in SlotIds /\ state.slots[permit[c].slot].holder = c
      <3>1. c \in Callers /\ pc[c] = "holding" /\ now < permit[c].slot_until
        BY <2>1
      <3>2. SlotIsHeld(c, permit[c], state)
        BY <3>1 DEF ThrottlerInv, CallerInv, CallerOK
      <3> QED
        BY <3>2 DEF SlotIsHeld
    <2>3. PICK f : f = [c \in H |-> permit[c].slot]
      OBVIOUS
    <2>4. f \in Injection(H, SlotIds)
      <3>1. f \in [H -> SlotIds]
        BY <2>2, <2>3
      <3>2. ASSUME NEW c \in H, NEW d \in H, f[c] = f[d]
            PROVE  c = d
        BY <2>2, <2>3, <3>2
      <3> QED
        BY <3>1, <3>2 DEF Injection, IsInjective
    <2>5. IsFiniteSet(SlotIds) /\ Cardinality(SlotIds) = MaxConcurrent
      BY Config, FS_Interval DEF SlotIds
    <2>6. Cardinality(H) <= Cardinality(SlotIds)
      BY <2>4, <2>5, FS_Injection
    <2> QED
      BY <2>1, <2>5, <2>6 DEF ConcurrencyBound
  <1> QED
    BY <1>1, ThrottlerInvariance, PTL

\* The bucket lets pass what it holds when it is full, what the time refills and
\* what it refills again after a refill time that went back: nothing else.
THEOREM ThrottlerRate == Spec => []RateBoundUpToRewind
  <1>1. ThrottlerInv => RateBoundUpToRewind
    <2> SUFFICES ASSUME ThrottlerInv, HasRate PROVE rate.admitted * Interval <= Requests * (Interval + now - rate.since + rate.rewound)
      BY DEF RateBoundUpToRewind
    <2>1. PICK adm \in Nat, since \in Nat, paid \in Int, rew \in Nat :
             rate = [admitted |-> adm, since |-> since, paid |-> paid, rewound |-> rew]
      BY RecordIs DEF Rates
    <2>2. PICK n \in Nat : n = now
      BY RecordIs
    <2>3. paid <= n /\ adm * Interval <= Requests * (Interval + paid - since + rew)
      BY <2>1, <2>2, RecordIs DEF BucketOK
    <2>4. PICK x \in Int, y \in Int : x = Interval + paid - since + rew /\ y = Interval + n - since + rew
      BY Config
    <2>5. Requests \in Nat /\ x <= y /\ adm * Interval \in Int
      BY <2>2, <2>3, <2>4, Config, Products
    <2>6. Requests * x <= Requests * y /\ Requests * x \in Int /\ Requests * y \in Int
      BY <2>5, Products
    <2>7. adm * Interval <= Requests * y
      BY <2>3, <2>4, <2>5, <2>6
    <2> QED
      BY <2>1, <2>2, <2>4, <2>7
  <1> QED
    BY <1>1, ThrottlerInvariance, PTL
=============================================================================
