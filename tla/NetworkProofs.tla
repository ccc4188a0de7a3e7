--------------------------- MODULE NetworkProofs ----------------------------
(***************************************************************************)
(* The two clients of the network.  What the fetch path sends and what it  *)
(* lets a script read, for every set of hosts, lists, callers and answers, *)
(* and for chains of any length.  Then the update client: its trust        *)
(* follows the publisher's chain of key sets and it accepts no older       *)
(* release, for every number of mirrors, keys, epochs and releases.        *)
(***************************************************************************)
EXTENDS Fetch, Update, TLAPS

(* A leaf that names no prover is tried with these, in turn.               *)
USE ZenonT(2), SMTT(30), Z3T(30), ZenonT(30)

-----------------------------------------------------------------------------
(* The fetch path.                                                         *)

(* The values of the model are compared field by field: a record is what   *)
(* its fields say.                                                         *)
IsUrl(u) == u = [scheme |-> u.scheme, host |-> u.host, path |-> u.path]

Fetchable(u) == IsUrl(u) /\ u.scheme \in {"http", "https"}

IsSeq(s) == s \in Seq(Range(s))

------------------------------------------------------------------------------
(* The URL of a hop is upgraded once: asked for again it stays as it is.   *)

LEMMA RequestedIsSettled ==
    ASSUME NEW c, NEW u, Fetchable(u), requested(c, u) # None
    PROVE  /\ Fetchable(requested(c, u))
           /\ ~requires_https(requested(c, u))
           /\ requested(c, requested(c, u)) = requested(c, u)
<1> DEFINE r == requested(c, u)
<1>1. \/ r = u /\ ~requires_https(u)
      \/ r = [scheme |-> "https", host |-> u.host, path |-> u.path]
  BY DEF Fetchable, IsUrl, requested, requires_https, upgraded_to_https, check_mixed
<1>2. CASE r = u /\ ~requires_https(u)
  BY <1>2
<1>3. CASE r = [scheme |-> "https", host |-> u.host, path |-> u.path]
  <2>1. Fetchable(r) /\ ~requires_https(r) /\ trustworthy(r)
    BY <1>3 DEF Fetchable, IsUrl, requires_https, trustworthy
  <2>2. r.scheme # "http"
    BY <1>3
  <2> HIDE DEF r
  <2>3. requested(c, r) = r
    BY <2>1, <2>2 DEF requested, check_mixed
  <2> QED
    BY <2>1, <2>3 DEF r
<1> QED
  BY <1>1, <1>2, <1>3

(* What is asked for in the clear is a page, or comes from a page that is  *)
(* in the clear itself, or goes to a loopback host.                        *)
LEMMA RequestedInTheClear ==
    ASSUME NEW c, NEW u, Fetchable(u), requested(c, u) # None,
           requested(c, u).scheme = "http"
    PROVE  \/ c.dest = "Navigation" \/ requested(c, u).host \in Loopback
           \/ \A d \in {c.doc} \cup c.ancestors : ~trustworthy(d)
BY DEF Fetchable, IsUrl, requested, requires_https, upgraded_to_https, check_mixed,
       trustworthy, prohibits_mixed

(* A redirect within an origin stays in it, whatever is upgraded.          *)
LEMMA SameOriginStays ==
    ASSUME NEW c, NEW u, NEW v, Fetchable(u), Fetchable(v),
           requested(c, u) = u, from_url(v) = from_url(u)
    PROVE  requested(c, v) # None => from_url(requested(c, v)) = from_url(u)
BY DEF Fetchable, IsUrl, requested, requires_https, upgraded_to_https, check_mixed,
       upgrade_insecure_url, trustworthy, from_url

(* A redirect to another origin never comes back by an upgrade: the chain  *)
(* goes from https to http nowhere.                                        *)
LEMMA OtherOriginLeaves ==
    ASSUME NEW c, NEW u, NEW v, Fetchable(u), Fetchable(v), requested(c, v) # None,
           from_url(v) # from_url(u), ~(u.scheme = "https" /\ v.scheme = "http")
    PROVE  from_url(requested(c, v)) # from_url(u)
BY DEF Fetchable, IsUrl, requested, requires_https, upgraded_to_https, check_mixed,
       trustworthy, from_url

------------------------------------------------------------------------------
(* The jar: each cookie is under the key of the page and the server that   *)
(* set it.                                                                 *)

SetUnder(c, k) == c.by.origin = k.origin /\ RegistrableDomainOf[c.by.top] = k.site

JarIsPartitioned(j) ==
    \A k \in DOMAIN j : IsSeq(j[k]) /\ \A c \in Range(j[k]) : SetUnder(c, k)

LEMMA SeqShape ==
    ASSUME NEW s, IsSeq(s)
    PROVE  Len(s) \in Nat /\ DOMAIN s = 1 .. Len(s)
BY DEF IsSeq

LEMMA AppendIsSeq ==
    ASSUME NEW s, IsSeq(s), NEW e
    PROVE  IsSeq(Append(s, e)) /\ Range(Append(s, e)) = Range(s) \cup {e}
<1> DEFINE t == Append(s, e)
           S == Range(s) \cup {e}
<1>1. Len(s) \in Nat /\ DOMAIN s = 1 .. Len(s)
  BY SeqShape
<1>2. \A i \in 1 .. Len(s) : s[i] \in S
  BY <1>1 DEF Range
<1>3. s = [i \in 1 .. Len(s) |-> s[i]]
  BY <1>1 DEF IsSeq
<1>4. s \in Seq(S)
  BY <1>1, <1>2, <1>3
<1>5. t \in Seq(S) /\ Len(t) = Len(s) + 1 /\ t[Len(s) + 1] = e
      /\ \A i \in 1 .. Len(s) : t[i] = s[i]
  BY <1>1, <1>4
<1>6. DOMAIN t = 1 .. Len(s) + 1
  BY <1>5
<1>7. Range(t) = S
  BY <1>1, <1>5, <1>6 DEF Range
<1> QED
  BY <1>5, <1>7 DEF IsSeq

LEMMA ReplaceIsSeq ==
    ASSUME NEW s, IsSeq(s), NEW e, NEW I
    PROVE  LET t == [i \in DOMAIN s |-> IF i \in I THEN e ELSE s[i]]
           IN  IsSeq(t) /\ Range(t) \subseteq Range(s) \cup {e}
<1> DEFINE t == [i \in DOMAIN s |-> IF i \in I THEN e ELSE s[i]]
<1>1. Len(s) \in Nat /\ DOMAIN s = 1 .. Len(s)
  BY SeqShape
<1>2. DOMAIN t = 1 .. Len(s) /\ t = [i \in 1 .. Len(s) |-> t[i]]
  BY <1>1
<1>3. \A i \in 1 .. Len(s) : t[i] \in Range(t)
  BY <1>2 DEF Range
<1>4. t \in Seq(Range(t))
  BY <1>1, <1>2, <1>3
<1>5. Range(t) \subseteq Range(s) \cup {e}
  BY <1>1 DEF Range
<1> QED
  BY <1>4, <1>5 DEF IsSeq

LEMMA HeldCookies ==
    ASSUME NEW j, JarIsPartitioned(j), NEW k
    PROVE  IsSeq(CookiesOf(j, k)) /\ \A c \in Range(CookiesOf(j, k)) : SetUnder(c, k)
<1>1. CASE k \in DOMAIN j
  BY <1>1 DEF JarIsPartitioned, CookiesOf
<1>2. CASE k \notin DOMAIN j
  <2>1. CookiesOf(j, k) = << >>
    BY <1>2 DEF CookiesOf
  <2>2. Range(<< >>) = {}
    BY DEF Range
  <2> QED
    BY <2>1, <2>2 DEF IsSeq
<1> QED
  BY <1>1, <1>2

LEMMA StoredUnderKey ==
    ASSUME NEW j, JarIsPartitioned(j), NEW u, NEW cookie, PartitionKey(ctx, u) # None
    PROVE  JarIsPartitioned(store_cookie(j, PartitionKey(ctx, u), cookie))
<1> DEFINE k == PartitionKey(ctx, u)
           held == CookiesOf(j, k)
           new == [name |-> cookie.name, same_site |-> cookie.same_site,
                   secure |-> cookie.secure, path |-> cookie.path,
                   expired |-> cookie.expired,
                   by |-> [top |-> ctx.top.host, origin |-> k.origin]]
           same == {i \in DOMAIN held : held[i].name = cookie.name /\ held[i].path = cookie.path}
           after == IF same # {} THEN [i \in DOMAIN held |-> IF i \in same THEN new ELSE held[i]]
                    ELSE IF Len(held) >= MAX_PER_KEY THEN held
                    ELSE Append(held, new)
           next == [x \in DOMAIN j \cup {k} |-> IF x = k THEN after ELSE j[x]]
<1>1. SetUnder(new, k)
  BY DEF SetUnder, PartitionKey
<1>2. IsSeq(held) /\ \A c \in Range(held) : SetUnder(c, k)
  BY HeldCookies
<1>3. IsSeq(after) /\ Range(after) \subseteq Range(held) \cup {new}
  <2> HIDE DEF held, new, same
  <2>1. CASE same # {}
    BY <1>2, <2>1, ReplaceIsSeq
  <2>2. CASE same = {}
    BY <1>2, <2>2, AppendIsSeq
  <2> QED
    BY <2>1, <2>2
<1>4. \A c \in Range(after) : SetUnder(c, k)
  <2> HIDE DEF after, held, new, k
  <2> QED BY <1>1, <1>2, <1>3
<1>5. JarIsPartitioned(next)
  <2> HIDE DEF after, k
  <2> QED BY <1>3, <1>4 DEF JarIsPartitioned
<1>6. store_cookie(j, k, cookie) \in {j, next}
  BY DEF store_cookie
<1> QED
  <2> HIDE DEF next, k
  <2>1. JarIsPartitioned(store_cookie(j, k, cookie))
    BY <1>5, <1>6
  <2> QED BY <2>1 DEF k

------------------------------------------------------------------------------
(* The inductive invariant. *)

RequestInv ==
    fpc # "idle" =>
        /\ hop = [url |-> hop.url, method |-> hop.method, headers |-> hop.headers,
                  tainted |-> hop.tainted, redirects |-> hop.redirects,
                  policy |-> hop.policy]
        /\ hop.tainted \in BOOLEAN
        /\ Fetchable(hop.url)
        /\ ctx.doc.scheme \in {"http", "https"}
        /\ out.verdict = "none"

DocumentInv == document # None => document.url.scheme \in {"http", "https"}

TravelInv ==
    /\ travel = [begun |-> travel.begun, start |-> travel.start, last |-> travel.last,
                 elsewhere |-> travel.elsewhere, crossed |-> travel.crossed,
                 unadmitted |-> travel.unadmitted]
    /\ travel.begun \in BOOLEAN /\ travel.elsewhere \in BOOLEAN
    /\ travel.crossed \in BOOLEAN /\ travel.unadmitted \in BOOLEAN

(* A request that is out has been upgraded as far as it will be, and its   *)
(* origin is hidden exactly if its travel calls for it.                    *)
OutInv ==
    fpc \in {"preflight", "sent"} =>
        /\ travel.begun /\ travel.last = from_url(hop.url)
        /\ hop.url # None /\ requested(ctx, hop.url) = hop.url
        /\ hop.tainted = travel.crossed
        /\ wire.url = hop.url
        /\ permitted(hop.url)
        /\ fpc = "sent" => wire.taint = taint_of(ctx, hop.url, request_origin)

(* Between two requests, the same of the origin the next one will go to.   *)
NextOrigin == from_url(requested(ctx, hop.url))

BetweenInv ==
    fpc = "hop" =>
        /\ ~travel.begun => travel = NoTravel /\ ~hop.tainted
        /\ travel.begun /\ requested(ctx, hop.url) # None =>
              /\ hop.tainted = ( \/ travel.crossed
                                 \/ travel.last # initiator(ctx) /\ NextOrigin # travel.last)
              /\ "authorization" \in hop.headers => NextOrigin = travel.last

AuthorizationInv ==
    fpc # "idle" /\ "authorization" \in hop.headers /\ travel.begun =>
        ~travel.elsewhere /\ travel.last = travel.start

(* Only a no-cors request goes on after an answer that did not admit it,   *)
(* and it never gets back to where its answers are its initiator's own.    *)
AdmissionInv ==
    fpc # "idle" /\ ctx.mode # "navigate" /\ travel.unadmitted =>
        ctx.mode = "no-cors" /\ (hop.tainted \/ travel.last # initiator(ctx))

FetchInv ==
    /\ RequestInv /\ DocumentInv /\ TravelInv /\ OutInv /\ BetweenInv
    /\ AuthorizationInv /\ AdmissionInv /\ JarIsPartitioned(jar)
    /\ NothingGoesAstray /\ ReadableIsAdmitted

------------------------------------------------------------------------------
(* Steps that end the fetch, or do not touch it. *)

(* A call that ends without a response leaves the last request as it was.  *)
LEMMA EndedKeeps ==
    ASSUME FetchInv, NEW verdict \in {"denied", "failed"}, Ended(verdict), UNCHANGED wire,
           travel'.elsewhere = travel.elsewhere, travel'.crossed = travel.crossed,
           TravelInv', JarIsPartitioned(jar')
    PROVE  FetchInv'
<1>1. fpc' = "idle" /\ ctx' = ctx /\ document' = document /\ out'.verdict = verdict
  BY DEF Ended, NoOutcome
<1>2. RequestInv' /\ OutInv' /\ BetweenInv' /\ AuthorizationInv' /\ AdmissionInv'
  BY <1>1 DEF RequestInv, OutInv, BetweenInv, AuthorizationInv, AdmissionInv
<1>3. DocumentInv'
  BY <1>1 DEF FetchInv, DocumentInv
<1>4. NothingGoesAstray'
  BY <1>1 DEF FetchInv, NothingGoesAstray, initiator
<1>5. ReadableIsAdmitted'
  BY <1>1 DEF ReadableIsAdmitted
<1> QED
  BY <1>2, <1>3, <1>4, <1>5 DEF FetchInv

LEMMA TickKeeps ==
    ASSUME FetchInv, UNCHANGED <<fpc, requestVars, wire, out, fetcherVars, loaderVars, historyVars>>
    PROVE  FetchInv'
<1>1. UNCHANGED <<fpc, ctx, hop, wire, out, jar, document, travel>>
  BY DEF requestVars, fetcherVars, loaderVars, historyVars
<1>2. RequestInv' /\ DocumentInv' /\ TravelInv'
  BY <1>1 DEF FetchInv, RequestInv, DocumentInv, TravelInv
<1>3. OutInv'
  BY <1>1 DEF FetchInv, OutInv, permitted, request_origin
<1>4. BetweenInv' /\ AuthorizationInv' /\ AdmissionInv'
  <2>1. BetweenInv /\ AuthorizationInv /\ AdmissionInv
    BY DEF FetchInv
  <2>2. BetweenInv'
    BY <1>1, <2>1 DEF BetweenInv, NextOrigin
  <2>3. AuthorizationInv' /\ AdmissionInv'
    BY <1>1, <2>1 DEF AuthorizationInv, AdmissionInv
  <2> QED
    BY <2>2, <2>3
<1>5. JarIsPartitioned(jar')
  BY <1>1 DEF FetchInv
<1>6. NothingGoesAstray' /\ ReadableIsAdmitted'
  BY <1>1 DEF FetchInv, NothingGoesAstray, ReadableIsAdmitted
<1> QED
  BY <1>2, <1>3, <1>4, <1>5, <1>6 DEF FetchInv

(* A new request has been nowhere yet. *)
LEMMA BeginKeeps ==
    ASSUME FetchInv, NEW c, c.doc.scheme \in {"http", "https"}, NEW u \in Url \cup {Malformed},
           BeginFetch(c, u), DocumentInv', JarIsPartitioned(jar')
    PROVE  FetchInv'
<1>1. /\ ctx' = c /\ wire' = None /\ hop' = HopState(c, u) /\ travel' = NoTravel
      /\ \/ fpc' = "idle" /\ out'.verdict = "denied"
         \/ fpc' = "hop" /\ out'.verdict = "none" /\ u # Malformed
  BY DEF BeginFetch, NoOutcome
<1>2. u # Malformed => Fetchable(u)
  BY DEF Fetchable, IsUrl, Url
<1>3. RequestInv'
  BY <1>1, <1>2 DEF RequestInv, HopState
<1>4. TravelInv'
  BY <1>1 DEF TravelInv, NoTravel
<1>5. OutInv' /\ BetweenInv'
  BY <1>1 DEF OutInv, BetweenInv, NoTravel, HopState
<1>6. AuthorizationInv' /\ AdmissionInv'
  BY <1>1 DEF AuthorizationInv, AdmissionInv, NoTravel
<1>7. NothingGoesAstray' /\ ReadableIsAdmitted'
  BY <1>1 DEF NothingGoesAstray, ReadableIsAdmitted
<1> QED
  BY <1>3, <1>4, <1>5, <1>6, <1>7 DEF FetchInv

------------------------------------------------------------------------------
(* Steps that put a request on the wire. *)

(* What a request for u made from the current state contains.              *)
Proper(request, u) ==
    /\ request.url = u
    /\ "authorization" \in request.headers => "authorization" \in hop.headers
    /\ request.origin # None => request.origin = request_origin
    /\ \A c \in request.cookies : SetUnder(c, PartitionKey(ctx, u))

LEMMA PreflightIsProper ==
    ASSUME NEW u
    PROVE  Proper(PreflightRequest(u), u)
BY DEF Proper, PreflightRequest

LEMMA RequestIsProper ==
    ASSUME NEW u, JarIsPartitioned(jar)
    PROVE  Proper(Request(u), u) /\ Request(u).taint = taint_of(ctx, u, request_origin)
<1> DEFINE k == PartitionKey(ctx, u)
           taint == taint_of(ctx, u, request_origin)
           sent == cookies_for(jar, k, u.path, cross_site_for_cookies(ctx.top, from_url(u)))
<1>1. \A c \in Range(CookiesOf(jar, k)) : SetUnder(c, k)
  BY HeldCookies
<1>2. \A c \in sent : SetUnder(c, k)
  <2> HIDE DEF k
  <2> QED BY <1>1 DEF cookies_for
<1>3. /\ Request(u).url = u /\ Request(u).headers = hop.headers
      /\ Request(u).origin \in {request_origin, None}
      /\ Request(u).cookies \in {sent, {}}
      /\ Request(u).taint = taint
  BY DEF Request
<1> QED
  <2> HIDE DEF sent, taint
  <2> QED BY <1>2, <1>3 DEF Proper, taint

LEMMA ProperStaysOnCourse ==
    ASSUME NEW request, NEW u, NEW w, Fetchable(w), u = requested(ctx, w), u # None,
           Proper(request, u), PartitionKey(ctx, u) # None,
           ctx.doc.scheme \in {"http", "https"},
           wire' = request, ctx' = ctx,
           "authorization" \in hop.headers => ~travel'.elsewhere,
           ~hop.tainted => ~travel'.crossed
    PROVE  NothingGoesAstray'
<1>1. Fetchable(u) /\ ~requires_https(u)
  BY RequestedIsSettled
<1>2. "authorization" \in request.headers => ~travel'.elsewhere
  BY DEF Proper
<1>3. request.origin # None /\ request.origin = initiator(ctx) => ~travel'.crossed
  BY DEF Proper, request_origin, initiator, from_url, Opaque
<1>4. \A c \in request.cookies :
          /\ c.by.origin = from_url(u)
          /\ RegistrableDomainOf[c.by.top] = RegistrableDomainOf[ctx.top.host]
  BY DEF Proper, SetUnder, PartitionKey
<1>5. u.scheme = "http" => u.host \notin Preloaded
  BY <1>1 DEF requires_https
<1>6. u.scheme = "http" =>
          \/ ctx.dest = "Navigation" \/ u.host \in Loopback
          \/ \A d \in {ctx.doc} \cup ctx.ancestors : ~trustworthy(d)
  BY RequestedInTheClear
<1>7. request.url = u
  BY DEF Proper
<1> QED
  BY <1>2, <1>3, <1>4, <1>5, <1>6, <1>7 DEF NothingGoesAstray, initiator

(* A hop departs: where it goes is where BetweenInv said it would.         *)
LEMMA DepartureKeeps ==
    ASSUME FetchInv, NEW u, u = requested(ctx, hop.url), Requesting(u),
           NEW stage \in {"preflight", "sent"}, NEW request, Deliver(stage, request),
           Proper(request, u),
           stage = "sent" => request.taint = taint_of(ctx, u, request_origin)
    PROVE  FetchInv'
<1> DEFINE o == from_url(u)
<1>1. /\ fpc = "hop" /\ u # None /\ permitted(u)
      /\ travel' = Travelled(o) /\ hop' = [hop EXCEPT !.url = u] /\ jar' = jar
  BY DEF Requesting, fetcherVars
<1>2. /\ Fetchable(hop.url) /\ hop.tainted \in BOOLEAN /\ out.verdict = "none"
      /\ ctx.doc.scheme \in {"http", "https"}
      /\ hop = [url |-> hop.url, method |-> hop.method, headers |-> hop.headers,
                tainted |-> hop.tainted, redirects |-> hop.redirects, policy |-> hop.policy]
  BY <1>1 DEF FetchInv, RequestInv
<1>3. Fetchable(u) /\ ~requires_https(u) /\ requested(ctx, u) = u
  BY <1>1, <1>2, RequestedIsSettled
<1>4. /\ fpc' = stage /\ wire' = request
      /\ ctx' = ctx /\ out' = out /\ document' = document
  BY <1>3 DEF Deliver, Proper, loaderVars
<1>5. hop' = [url |-> u, method |-> hop.method, headers |-> hop.headers,
              tainted |-> hop.tainted, redirects |-> hop.redirects, policy |-> hop.policy]
  BY <1>1, <1>2
<1>6. /\ travel'.begun /\ travel'.last = o
      /\ travel'.start = IF travel.begun THEN travel.start ELSE o
      /\ travel'.elsewhere = (travel.elsewhere \/ (travel.begun /\ o # travel.start))
      /\ travel'.crossed = ( \/ travel.crossed
                             \/ travel.begun /\ travel.last # initiator(ctx) /\ o # travel.last)
      /\ travel'.unadmitted = travel.unadmitted
      /\ TravelInv'
  BY <1>1 DEF FetchInv, TravelInv, Travelled
<1>7. /\ ~travel.begun => travel = NoTravel /\ ~hop.tainted
      /\ travel.begun =>
            /\ hop.tainted = (travel.crossed \/ (travel.last # initiator(ctx) /\ o # travel.last))
            /\ "authorization" \in hop.headers => o = travel.last
  <2>1. BetweenInv
    BY DEF FetchInv
  <2> QED
    BY <1>1, <2>1 DEF BetweenInv, NextOrigin
<1> HIDE DEF o
<1>a. ~travel.begun =>
          ~travel.crossed /\ ~travel.elsewhere /\ ~travel.unadmitted /\ ~hop.tainted
  BY <1>7 DEF NoTravel
<1>b. travel.begun \in BOOLEAN /\ travel.crossed \in BOOLEAN
  BY DEF FetchInv, TravelInv
<1>8. hop.tainted = travel'.crossed
  BY <1>2, <1>6, <1>7, <1>a, <1>b
<1>9. "authorization" \in hop.headers => ~travel'.elsewhere /\ travel'.last = travel'.start
  <2>1. "authorization" \in hop.headers /\ travel.begun =>
            ~travel.elsewhere /\ travel.last = travel.start
    BY <1>1 DEF FetchInv, AuthorizationInv
  <2> QED
    BY <1>6, <1>7, <1>a, <2>1
<1>10. RequestInv'
  BY <1>2, <1>3, <1>4, <1>5 DEF RequestInv
<1>11. DocumentInv' /\ BetweenInv' /\ JarIsPartitioned(jar')
  <2>1. DocumentInv /\ JarIsPartitioned(jar)
    BY DEF FetchInv
  <2> QED
    BY <1>1, <1>4, <2>1 DEF DocumentInv, BetweenInv
<1>12. OutInv'
  <2>1. permitted(u)' /\ request_origin' = request_origin
    BY <1>1, <1>4, <1>5 DEF permitted, request_origin
  <2>2. request.url = u
    BY DEF Proper
  <2>3. hop'.url = u /\ hop'.tainted = hop.tainted
    BY <1>5
  <2>4. u # None /\ requested(ctx', u) = u /\ wire'.url = u /\ permitted(u)'
        /\ travel'.begun /\ travel'.last = from_url(u) /\ hop'.tainted = travel'.crossed
    BY <1>1, <1>3, <1>4, <1>6, <1>8, <2>1, <2>2, <2>3 DEF o
  <2>5. fpc' = "sent" => wire'.taint = taint_of(ctx', u, request_origin')
    BY <1>4, <2>1
  <2>6. hop.url' = u /\ permitted(hop.url)' = permitted(u)'
    BY <2>3
  <2> QED
    BY <2>4, <2>5, <2>6 DEF OutInv
<1>13. AuthorizationInv'
  BY <1>5, <1>9 DEF AuthorizationInv
<1>14. AdmissionInv'
  <2>1. ctx.mode # "navigate" /\ travel.unadmitted =>
            ctx.mode = "no-cors" /\ (hop.tainted \/ travel.last # initiator(ctx))
    BY <1>1 DEF FetchInv, AdmissionInv
  <2>2. hop'.tainted = hop.tainted /\ initiator(ctx') = initiator(ctx)
    BY <1>4, <1>5
  <2> SUFFICES ASSUME ctx.mode # "navigate", travel.unadmitted
               PROVE  ctx.mode = "no-cors" /\ (hop.tainted \/ o # initiator(ctx))
    BY <1>4, <1>6, <2>2 DEF AdmissionInv
  <2> QED
    BY <1>2, <1>7, <1>a, <1>b, <2>1
<1>15. NothingGoesAstray'
  BY <1>1, <1>2, <1>4, <1>8, <1>9, ProperStaysOnCourse DEF permitted
<1>16. ReadableIsAdmitted'
  BY <1>2, <1>4 DEF ReadableIsAdmitted
<1> QED
  BY <1>6, <1>10, <1>11, <1>12, <1>13, <1>14, <1>15, <1>16 DEF FetchInv

(* What is known of a request that is out. *)
LEMMA OutIsSettled ==
    ASSUME FetchInv, fpc \in {"preflight", "sent"}
    PROVE  /\ Fetchable(hop.url) /\ hop.url # None /\ requested(ctx, hop.url) = hop.url
           /\ ~requires_https(hop.url)
           /\ wire.url = hop.url /\ travel.begun /\ travel.last = from_url(hop.url)
           /\ hop.tainted \in BOOLEAN /\ hop.tainted = travel.crossed
           /\ ctx.doc.scheme \in {"http", "https"} /\ out.verdict = "none"
           /\ permitted(hop.url)
<1>1. RequestInv /\ OutInv
  BY DEF FetchInv
<1>2. /\ Fetchable(hop.url) /\ hop.tainted \in BOOLEAN
      /\ ctx.doc.scheme \in {"http", "https"} /\ out.verdict = "none"
  BY <1>1 DEF RequestInv
<1>3. /\ hop.url # None /\ requested(ctx, hop.url) = hop.url /\ wire.url = hop.url
      /\ travel.begun /\ travel.last = from_url(hop.url)
      /\ hop.tainted = travel.crossed /\ permitted(hop.url)
  BY <1>1 DEF OutInv
<1>4. ~requires_https(hop.url)
  BY <1>2, <1>3, RequestedIsSettled
<1> QED
  BY <1>2, <1>3, <1>4

(* The request that follows its preflight goes where the preflight went.   *)
LEMMA GrantKeeps ==
    ASSUME FetchInv, NEW reply, PreflightGranted(reply)
    PROVE  FetchInv'
<1>1. /\ fpc = "preflight" /\ hop' = hop /\ jar' = jar /\ travel' = travel
      /\ Deliver("sent", Request(hop.url))
  BY DEF PreflightGranted
<1>2. /\ Fetchable(hop.url) /\ hop.url # None /\ requested(ctx, hop.url) = hop.url
      /\ ~requires_https(hop.url) /\ travel.begun /\ hop.tainted = travel.crossed
      /\ ctx.doc.scheme \in {"http", "https"} /\ out.verdict = "none"
      /\ permitted(hop.url) /\ travel.last = from_url(hop.url)
  BY <1>1, OutIsSettled
<1>3. JarIsPartitioned(jar)
  BY DEF FetchInv
<1>4. /\ Proper(Request(hop.url), hop.url)
      /\ Request(hop.url).taint = taint_of(ctx, hop.url, request_origin)
  BY <1>3, RequestIsProper
<1>5. Request(hop.url).url = hop.url
  BY <1>4 DEF Proper
<1>6. /\ fpc' = "sent" /\ wire' = Request(hop.url)
      /\ ctx' = ctx /\ out' = out /\ document' = document
  BY <1>1, <1>2, <1>5 DEF Deliver, loaderVars
<1>7. RequestInv' /\ BetweenInv' /\ ReadableIsAdmitted'
  <2>1. RequestInv
    BY DEF FetchInv
  <2>2. RequestInv'
    BY <1>1, <1>6, <2>1 DEF RequestInv
  <2> QED
    BY <1>2, <1>6, <2>2 DEF BetweenInv, ReadableIsAdmitted
<1>8. DocumentInv' /\ TravelInv'
  <2>1. DocumentInv /\ TravelInv
    BY DEF FetchInv
  <2> QED
    BY <1>1, <1>6, <2>1 DEF DocumentInv, TravelInv
<1>9. AuthorizationInv' /\ AdmissionInv'
  <2>1. AuthorizationInv /\ AdmissionInv
    BY DEF FetchInv
  <2> QED
    BY <1>1, <1>6, <2>1 DEF AuthorizationInv, AdmissionInv
<1>10. OutInv'
  <2>1. permitted(hop.url)' /\ request_origin' = request_origin
    BY <1>1, <1>2, <1>6 DEF permitted, request_origin
  <2>2. wire'.taint = taint_of(ctx', hop'.url, request_origin')
    BY <1>1, <1>4, <1>6, <2>1
  <2>3. wire'.url = hop'.url /\ requested(ctx', hop'.url) = hop'.url
    BY <1>1, <1>2, <1>5, <1>6
  <2> QED
    BY <1>1, <1>2, <2>1, <2>2, <2>3 DEF OutInv
<1>11. NothingGoesAstray'
  <2>1. "authorization" \in hop.headers => ~travel'.elsewhere
    BY <1>1, <1>2 DEF FetchInv, AuthorizationInv
  <2> QED
    BY <1>1, <1>2, <1>4, <1>6, <2>1, ProperStaysOnCourse DEF permitted
<1> QED
  BY <1>1, <1>3, <1>7, <1>8, <1>9, <1>10, <1>11 DEF FetchInv

------------------------------------------------------------------------------
(* Steps that take an answer. *)

(* An answer leaves its cookie under the key of the page and the server,   *)
(* and the travel as it was, except for whether it admitted the request.   *)
LEMMA ReceivedLeaves ==
    ASSUME FetchInv, NEW reply, Received(reply)
    PROVE  /\ fpc = "sent" /\ wire' = wire /\ TravelInv' /\ JarIsPartitioned(jar')
           /\ travel'.begun = travel.begun /\ travel'.start = travel.start
           /\ travel'.last = travel.last /\ travel'.elsewhere = travel.elsewhere
           /\ travel'.crossed = travel.crossed
           /\ travel'.unadmitted =
                 ( \/ travel.unadmitted
                   \/ /\ travel.crossed \/ travel.last # initiator(ctx)
                      /\ ~Admits(reply))
<1> DEFINE unadmitted == \/ travel.unadmitted
                         \/ /\ travel.crossed \/ travel.last # initiator(ctx)
                            /\ ~Admits(reply)
<1>1. fpc = "sent" /\ wire' = wire
      /\ travel' = [travel EXCEPT !.unadmitted = unadmitted]
      /\ jar' \in {jar, store_cookie(jar, PartitionKey(ctx, wire.url), reply.cookie)}
  BY DEF Received
<1>2. JarIsPartitioned(jar) /\ TravelInv
  BY DEF FetchInv
<1>3. PartitionKey(ctx, wire.url) # None
  BY <1>1, OutIsSettled DEF permitted
<1>4. JarIsPartitioned(jar')
  BY <1>1, <1>2, <1>3, StoredUnderKey
<1>5. unadmitted \in BOOLEAN
  OBVIOUS
<1> HIDE DEF unadmitted
<1>6. travel' = [begun |-> travel.begun, start |-> travel.start, last |-> travel.last,
                 elsewhere |-> travel.elsewhere, crossed |-> travel.crossed,
                 unadmitted |-> unadmitted]
  BY <1>1, <1>2 DEF TravelInv
<1>7. TravelInv'
  BY <1>2, <1>5, <1>6 DEF TravelInv
<1>8. travel'.unadmitted = unadmitted
  BY <1>6
<1> QED
  BY <1>1, <1>4, <1>6, <1>7, <1>8 DEF unadmitted

(* A request that was not admitted and goes on is a no-cors one, and what  *)
(* it gets is opaque.                                                      *)
LEMMA UnadmittedIsOpaque ==
    ASSUME FetchInv, NEW reply, Received(reply), validate_response(reply),
           ctx.mode # "navigate", travel'.unadmitted
    PROVE  /\ ctx.mode = "no-cors" /\ (hop.tainted \/ travel.last # initiator(ctx))
           /\ wire.taint = "opaque"
<1>1. fpc = "sent" /\ travel'.unadmitted =
          ( \/ travel.unadmitted
            \/ (travel.crossed \/ travel.last # initiator(ctx)) /\ ~Admits(reply))
  BY ReceivedLeaves
<1>2. hop.tainted \in BOOLEAN /\ hop.tainted = travel.crossed
      /\ travel.last = from_url(hop.url) /\ permitted(hop.url)
  BY <1>1, OutIsSettled
<1>3. wire.taint = taint_of(ctx, hop.url, request_origin) /\ wire.taint # None
  BY <1>1, <1>2 DEF FetchInv, OutInv, permitted
<1>4. hop.tainted \/ travel.last # initiator(ctx) =>
          ~same_origin(from_url(hop.url), request_origin)
  BY <1>2 DEF same_origin, request_origin
<1>5. CASE travel.unadmitted
  <2>1. ctx.mode = "no-cors" /\ (hop.tainted \/ travel.last # initiator(ctx))
    BY <1>1, <1>5 DEF FetchInv, AdmissionInv
  <2> QED
    BY <1>3, <1>4, <2>1 DEF taint_of
<1>6. CASE (travel.crossed \/ travel.last # initiator(ctx)) /\ ~Admits(reply)
  <2>1. hop.tainted \/ travel.last # initiator(ctx)
    BY <1>2, <1>6
  <2>2. wire.taint # "cors"
    BY <1>2, <1>6 DEF validate_response, Admits, request_origin
  <2>3. ctx.mode = "no-cors" /\ wire.taint = "opaque"
    BY <1>3, <1>4, <2>1, <2>2 DEF taint_of
  <2> QED
    BY <2>1, <2>3
<1> QED
  BY <1>1, <1>5, <1>6

(* A redirect that stays in its origin keeps the request as it is; one     *)
(* that leaves drops the Authorization header, and hides the origin if the *)
(* server that sent it was foreign.  No upgrade on the next hop changes    *)
(* which of the two it was.                                                *)
LEMMA RedirectKeeps ==
    ASSUME FetchInv, NEW reply, Redirected(reply)
    PROVE  FetchInv'
<1> DEFINE u == hop.url
           to == resolve(wire.url, reply.location)
           leaves == from_url(u) # from_url(to)
<1>1. /\ Received(reply) /\ validate_response(reply) /\ may_follow(to)
      /\ fpc' = "hop" /\ hop' = advance(to, reply)
      /\ ctx' = ctx /\ out' = out /\ document' = document
  BY DEF Redirected, loaderVars
<1>2. /\ fpc = "sent" /\ wire' = wire /\ TravelInv' /\ JarIsPartitioned(jar')
      /\ travel'.begun = travel.begun /\ travel'.start = travel.start
      /\ travel'.last = travel.last /\ travel'.elsewhere = travel.elsewhere
      /\ travel'.crossed = travel.crossed
  BY <1>1, ReceivedLeaves
<1>3. /\ Fetchable(u) /\ requested(ctx, u) = u /\ wire.url = u
      /\ travel.begun /\ travel.last = from_url(u)
      /\ hop.tainted \in BOOLEAN /\ hop.tainted = travel.crossed
      /\ ctx.doc.scheme \in {"http", "https"} /\ out.verdict = "none"
  BY <1>2, OutIsSettled
<1>4. Fetchable(to) /\ ~(u.scheme = "https" /\ to.scheme = "http")
  <2>1. IsUrl(to)
    BY DEF IsUrl, resolve
  <2>2. to.scheme \in {"http", "https"} /\ ~(wire.url.scheme = "https" /\ to.scheme = "http")
    <3> HIDE DEF to
    <3> QED BY <1>1 DEF may_follow
  <2> QED
    BY <1>3, <2>1, <2>2 DEF Fetchable
<1> HIDE DEF to
<1>5. /\ hop' = [url |-> to, method |-> hop'.method, headers |-> hop'.headers,
                 tainted |-> hop'.tainted, redirects |-> hop'.redirects,
                 policy |-> hop'.policy]
      /\ hop'.url = to
      /\ hop'.headers = hop.headers \ IF leaves THEN {"authorization"} ELSE {}
      /\ hop'.tainted = (hop.tainted \/ (leaves /\ from_url(u) # initiator(ctx)))
  BY <1>1, <1>3 DEF advance
<1>6. /\ "authorization" \in hop'.headers => "authorization" \in hop.headers /\ ~leaves
      /\ hop'.tainted \in BOOLEAN
  <2> HIDE DEF leaves
  <2> QED BY <1>3, <1>5
<1>7. RequestInv'
  BY <1>1, <1>3, <1>4, <1>5, <1>6 DEF RequestInv
<1>8. DocumentInv' /\ OutInv'
  <2>1. DocumentInv
    BY DEF FetchInv
  <2> QED
    BY <1>1, <2>1 DEF DocumentInv, OutInv
<1>9. BetweenInv'
  <2>1. requested(ctx, to) # None =>
            leaves = (from_url(requested(ctx, to)) # from_url(u))
    BY <1>3, <1>4, SameOriginStays, OtherOriginLeaves
  <2>2. NextOrigin' = from_url(requested(ctx, to)) /\ requested(ctx', hop'.url) = requested(ctx, to)
    BY <1>1, <1>5 DEF NextOrigin
  <2>3. initiator(ctx') = initiator(ctx)
    BY <1>1
  <2> HIDE DEF leaves
  <2>4. requested(ctx, to) # None =>
            /\ hop'.tainted = ( \/ travel'.crossed
                                \/ travel'.last # initiator(ctx) /\ NextOrigin' # travel'.last)
            /\ "authorization" \in hop'.headers => NextOrigin' = travel'.last
    BY <1>2, <1>3, <1>5, <1>6, <2>1, <2>2
  <2> QED
    BY <1>2, <1>3, <2>2, <2>3, <2>4 DEF BetweenInv
<1>10. AuthorizationInv'
  <2>1. AuthorizationInv
    BY DEF FetchInv
  <2> QED
    BY <1>2, <1>3, <1>6, <2>1 DEF AuthorizationInv
<1>11. AdmissionInv'
  <2>1. ctx.mode # "navigate" /\ travel'.unadmitted =>
            ctx.mode = "no-cors" /\ (hop.tainted \/ travel.last # initiator(ctx))
    BY <1>1, UnadmittedIsOpaque
  <2>2. hop.tainted => hop'.tainted
    BY <1>5
  <2>3. initiator(ctx') = initiator(ctx)
    BY <1>1
  <2> QED
    BY <1>1, <1>2, <2>1, <2>2, <2>3 DEF AdmissionInv
<1>12. NothingGoesAstray'
  <2>1. NothingGoesAstray
    BY DEF FetchInv
  <2> QED
    BY <1>1, <1>2, <2>1 DEF NothingGoesAstray, initiator
<1>13. ReadableIsAdmitted'
  BY <1>1, <1>3 DEF ReadableIsAdmitted
<1> QED
  BY <1>2, <1>7, <1>8, <1>9, <1>10, <1>11, <1>12, <1>13 DEF FetchInv

(* What is given to the caller, unless it is opaque, was admitted.         *)
LEMMA FinishKeeps ==
    ASSUME FetchInv, NEW reply, Finished(reply)
    PROVE  FetchInv'
<1>1. /\ Received(reply) /\ Accepted(reply) /\ fpc' = "idle" /\ ctx' = ctx
      /\ out'.taint = wire.taint
      /\ \/ document' = document
         \/ document' = [url |-> wire.url, csp |-> reply.csp, policy |-> reply.policy]
  BY DEF Finished, requestVars, loaderVars
<1>2. /\ fpc = "sent" /\ wire' = wire /\ TravelInv' /\ JarIsPartitioned(jar')
      /\ travel'.elsewhere = travel.elsewhere /\ travel'.crossed = travel.crossed
  BY <1>1, ReceivedLeaves
<1>3. RequestInv' /\ OutInv' /\ BetweenInv' /\ AuthorizationInv' /\ AdmissionInv'
  BY <1>1 DEF RequestInv, OutInv, BetweenInv, AuthorizationInv, AdmissionInv
<1>4. DocumentInv'
  <2>1. DocumentInv /\ wire.url.scheme \in {"http", "https"}
    BY <1>2, OutIsSettled DEF FetchInv, Fetchable
  <2> QED
    BY <1>1, <2>1 DEF DocumentInv
<1>5. NothingGoesAstray'
  <2>1. NothingGoesAstray
    BY DEF FetchInv
  <2> QED
    BY <1>1, <1>2, <2>1 DEF NothingGoesAstray, initiator
<1>6. ReadableIsAdmitted'
  <2>1. validate_response(reply)
    BY <1>1 DEF Accepted
  <2>2. ctx.mode # "navigate" /\ travel'.unadmitted => wire.taint = "opaque"
    BY <1>1, <2>1, UnadmittedIsOpaque
  <2> QED
    BY <1>1, <2>2 DEF ReadableIsAdmitted
<1> QED
  BY <1>2, <1>3, <1>4, <1>5, <1>6 DEF FetchInv

------------------------------------------------------------------------------
(* Every step keeps the invariant. *)

LEMMA InitIsSound == FetchInit => FetchInv
<1> SUFFICES ASSUME FetchInit
             PROVE  FetchInv
  OBVIOUS
<1>1. RequestInv /\ OutInv /\ BetweenInv /\ AuthorizationInv /\ AdmissionInv
  BY DEF FetchInit, RequestInv, OutInv, BetweenInv, AuthorizationInv, AdmissionInv
<1>2. DocumentInv /\ TravelInv /\ JarIsPartitioned(jar)
  BY DEF FetchInit, DocumentInv, TravelInv, NoTravel, JarIsPartitioned
<1>3. NothingGoesAstray /\ ReadableIsAdmitted
  BY DEF FetchInit, NothingGoesAstray, ReadableIsAdmitted, NoOutcome
<1> QED
  BY <1>1, <1>2, <1>3 DEF FetchInv

(* The callers of the fetch path: each names a document that is a URL.     *)
LEMMA CallersKeep ==
    ASSUME FetchInv
    PROVE  /\ \A c \in Contexts, u \in Url \cup {Malformed} : fetch(c, u) => FetchInv'
           /\ \A u \in Url : navigate(u) => FetchInv'
           /\ \A dest \in {"Style", "Image", "Font"}, u \in Url : subresource(dest, u) => FetchInv'
<1>1. DocumentInv /\ JarIsPartitioned(jar)
  BY DEF FetchInv
<1>2. ASSUME NEW c \in Contexts, NEW u \in Url \cup {Malformed}, fetch(c, u)
      PROVE  FetchInv'
  <2>1. c.doc.scheme \in {"http", "https"}
    BY FetchAssumption DEF Url
  <2>2. BeginFetch(c, u) /\ jar' = jar /\ document' = document
    BY <1>2 DEF fetch, fetcherVars, loaderVars
  <2>3. DocumentInv' /\ JarIsPartitioned(jar')
    BY <1>1, <2>2 DEF DocumentInv
  <2> QED
    BY <2>1, <2>2, <2>3, BeginKeeps
<1>3. ASSUME NEW u \in Url, navigate(u)
      PROVE  FetchInv'
  <2> DEFINE c == [top_level_document(u, "Navigation") EXCEPT !.policy = "no-referrer"]
  <2>1. BeginFetch(c, u) /\ jar' = << >> /\ document' = None
    BY <1>3 DEF navigate
  <2>2. c.doc.scheme \in {"http", "https"}
    BY DEF top_level_document, Url
  <2>3. DocumentInv' /\ JarIsPartitioned(jar')
    BY <2>1 DEF DocumentInv, JarIsPartitioned
  <2> HIDE DEF c
  <2> QED
    BY <2>1, <2>2, <2>3, BeginKeeps
<1>4. ASSUME NEW dest \in {"Style", "Image", "Font"}, NEW u \in Url, subresource(dest, u)
      PROVE  FetchInv'
  <2> DEFINE plain == [top_level_document(document.url, dest)
                          EXCEPT !.csp = document.csp, !.policy = document.policy]
             c == IF dest = "Font" THEN [plain EXCEPT !.mode = "cors"] ELSE plain
  <2>1. BeginFetch(c, u) /\ jar' = jar /\ document' = document /\ document # None
    BY <1>4 DEF subresource, fetcherVars
  <2>2. c.doc = document.url
    BY DEF top_level_document
  <2>3. c.doc.scheme \in {"http", "https"}
    BY <1>1, <2>1, <2>2 DEF DocumentInv
  <2>4. DocumentInv' /\ JarIsPartitioned(jar')
    BY <1>1, <2>1 DEF DocumentInv
  <2> HIDE DEF c
  <2> QED
    BY <2>1, <2>3, <2>4, BeginKeeps
<1> QED
  BY <1>2, <1>3, <1>4

(* The fetch's own steps up to the request, and the ends without one.      *)
LEMMA HopKeeps ==
    ASSUME FetchInv, HopDenied \/ HopAsks \/ HopSends \/ TransportFails
    PROVE  FetchInv'
<1> DEFINE u == requested(ctx, hop.url)
<1>1. TravelInv /\ JarIsPartitioned(jar)
  BY DEF FetchInv
<1>2. ASSUME HopDenied \/ TransportFails
      PROVE  FetchInv'
  <2>1. \E verdict \in {"denied", "failed"} : Ended(verdict)
    BY <1>2 DEF HopDenied, TransportFails
  <2>2. wire' = wire /\ travel' = travel /\ jar' = jar
    BY <1>2 DEF HopDenied, TransportFails, fetcherVars, historyVars
  <2>3. TravelInv' /\ JarIsPartitioned(jar')
    BY <1>1, <2>2 DEF TravelInv
  <2> QED
    BY <2>1, <2>2, <2>3, EndedKeeps
<1> HIDE DEF u
<1>3. CASE HopAsks
  <2>1. Requesting(u) /\ Deliver("preflight", PreflightRequest(u))
    BY <1>3 DEF HopAsks, u
  <2>2. Proper(PreflightRequest(u), u)
    BY PreflightIsProper
  <2> QED
    BY <2>1, <2>2, DepartureKeeps DEF u
<1>4. CASE HopSends
  <2>1. Requesting(u) /\ Deliver("sent", Request(u))
    BY <1>4 DEF HopSends, u
  <2>2. Proper(Request(u), u) /\ Request(u).taint = taint_of(ctx, u, request_origin)
    BY <1>1, RequestIsProper
  <2> QED
    BY <2>1, <2>2, DepartureKeeps DEF u
<1> QED
  BY <1>2, <1>3, <1>4

LEMMA AnswersKeep ==
    ASSUME FetchInv, Answers
    PROVE  FetchInv'
<1> PICK reply \in Replies :
        \/ PreflightGranted(reply) \/ PreflightRefused(reply)
        \/ Redirected(reply) \/ RedirectRefused(reply)
        \/ Finished(reply) \/ FinishRefused(reply)
  BY DEF Answers
<1>1. CASE PreflightRefused(reply)
  <2>1. Ended("denied") /\ wire' = wire /\ travel' = travel /\ jar' = jar
    BY <1>1 DEF PreflightRefused, fetcherVars, historyVars
  <2>2. TravelInv' /\ JarIsPartitioned(jar')
    BY <2>1 DEF FetchInv, TravelInv
  <2> QED
    BY <2>1, <2>2, EndedKeeps
<1>2. CASE RedirectRefused(reply) \/ FinishRefused(reply)
  <2>1. Received(reply) /\ Ended("denied")
    BY <1>2 DEF RedirectRefused, FinishRefused
  <2>2. /\ wire' = wire /\ TravelInv' /\ JarIsPartitioned(jar')
        /\ travel'.elsewhere = travel.elsewhere /\ travel'.crossed = travel.crossed
    BY <2>1, ReceivedLeaves
  <2> QED
    BY <2>1, <2>2, EndedKeeps
<1> QED
  BY <1>1, <1>2, GrantKeeps, RedirectKeeps, FinishKeeps

LEMMA FetchInvariant == FetchSpec => []FetchInv
<1>1. FetchInv /\ [FetchNext]_fetchVars => FetchInv'
  <2> SUFFICES ASSUME FetchInv, [FetchNext]_fetchVars
               PROVE  FetchInv'
    OBVIOUS
  <2>1. CASE Tick \/ UNCHANGED fetchVars
    <3>1. UNCHANGED <<fpc, requestVars, wire, out, fetcherVars, loaderVars, historyVars>>
      BY <2>1 DEF Tick, fetchVars
    <3> QED
      BY <3>1, TickKeeps
  <2>2. CASE FetchStep
    BY <2>2, HopKeeps, AnswersKeep DEF FetchStep
  <2> QED
    BY <2>1, <2>2, CallersKeep DEF FetchNext
<1> QED
  BY InitIsSound, <1>1, PTL DEF FetchSpec

(* Whatever the hosts, their lists, the callers and the answers: no        *)
(* Authorization header, origin or cookie reaches a server it is not for,  *)
(* and nothing goes in the clear that should not, on any hop of a fetch    *)
(* (secure.rs hop and advance, cookie.rs Jar).                             *)
THEOREM SentWhereItBelongs == FetchSpec => []NothingGoesAstray
<1>1. FetchInv => NothingGoesAstray
  BY DEF FetchInv
<1> QED
  BY FetchInvariant, <1>1, PTL

(* An answer a script may read was admitted by every foreign server on the *)
(* way, for chains of redirects of any length (secure.rs hop and finish,   *)
(* cors.rs cors_check).                                                    *)
THEOREM ReadOnlyWhatIsAdmitted == FetchSpec => []ReadableIsAdmitted
<1>1. FetchInv => ReadableIsAdmitted
  BY DEF FetchInv
<1> QED
  BY FetchInvariant, <1>1, PTL

-----------------------------------------------------------------------------
(* The update client.                                                      *)

USE MirrorAssumption, LimitAssumption

ReleaseDoc ==
    [type : {"release"}, sequence : Nat, key_epoch : Nat, version : Nat, data : Nat,
     artifact : BOOLEAN]

RotationDoc ==
    [type : {"rotation"}, key_epoch : Nat, keys : SUBSET Key, threshold : Nat]

Trust == [epoch : Nat, keys : SUBSET Key, threshold : Nat, revoked : SUBSET Key]

AnswerType == [doc : ReleaseDoc \cup RotationDoc, signed : BOOLEAN, fresh : BOOLEAN]

CheckType ==
    [trust : Trust \cup {None}, failures : [Mirror -> Nat] \cup {None},
     untried : SUBSET Mirror, manifest : AnswerType \cup {None}, rotations : Nat,
     file : {"release", "data", None}]

StateType ==
    [installed : Nat, max_sequence : Nat, data : Nat, failures : [Mirror -> Nat]]

WorldInv ==
    /\ chain \in Chains /\ rotated \in 1 .. Len(chain)
    /\ releases \in Seq(ReleaseDoc) /\ Len(releases) >= 1

(* What a call in progress holds at each of its stages.                    *)
StageInv ==
    /\ doing \in {"Idle", "Manifest", "Open", "Rotation", "Download"}
    /\ doing \in {"Manifest", "Open", "Rotation"} =>
          check.trust \in Trust /\ check.failures \in [Mirror -> Nat]
    /\ doing \in {"Open", "Rotation"} => check.manifest \in AnswerType
    /\ doing = "Download" => check.failures \in [Mirror -> Nat]
    /\ pending # {} => check.manifest \in AnswerType /\ check.manifest.doc \in ReleaseDoc
    /\ doing = "Download" => pending # {}
    /\ doing \in {"Manifest", "Open", "Rotation"} => pending = {}
    /\ doing \in {"Idle", "Download"} => check.trust = None

ClientInv ==
    /\ state \in StateType /\ trust \in Trust /\ check \in CheckType
    /\ StageInv
    /\ pending \subseteq {"release", "data"}
    /\ accepted = state.max_sequence

Published_(t) == TrustOf(t) /\ t.epoch \in 1 .. rotated

(* The trust of a call in progress, like the stored one, is a published    *)
(* set: a rejected check stores it.                                        *)
TrustInv ==
    /\ Published_(trust)
    /\ doing \in {"Manifest", "Open", "Rotation"} => Published_(check.trust)

UpdateInv == WorldInv /\ ClientInv /\ TrustInv
-----------------------------------------------------------------------------
(* Helpers of the client keep their types. *)

LEMMA ChargeType ==
    ASSUME NEW f \in [Mirror -> Nat], NEW m
    PROVE  charge(f, m) \in [Mirror -> Nat] /\ clear(f, m) \in [Mirror -> Nat]
<1>1. CASE m \in Mirror
  <2>1. f[m] \in Nat
    BY <1>1
  <2> QED
    BY <1>1, <2>1 DEF charge, clear
<1>2. CASE m \notin Mirror
  <2>1. charge(f, m) = f /\ clear(f, m) = f
    BY <1>2 DEF charge, clear
  <2> QED
    BY <2>1
<1> QED
  BY <1>1, <1>2

(* A key set of a chain has the types of a trust.                          *)
LEMMA ChainType ==
    ASSUME NEW c \in Chains, NEW e \in 1 .. Len(c)
    PROVE  /\ c[e].keys \in SUBSET Key /\ c[e].threshold \in Nat
           /\ c \in Seq([keys : SUBSET Key, threshold : Nat])
<1> DEFINE S == [keys : SUBSET Key, threshold : Nat]
<1>1. c \in Seq(S)
  BY ChainAssumption
<1>2. ASSUME NEW T, c \in Seq(T) PROVE c[e] \in T
  BY <1>2
<1>3. c[e] \in S
  BY <1>1, <1>2
<1> QED
  BY <1>1, <1>3

(* What a rotation adds to the revoked keys is what the chain drops: no    *)
(* key dropped before comes back.                                          *)
LEMMA DroppedStep ==
    ASSUME NEW c \in Chains, NEW e \in 1 .. Len(c), e + 1 \in 1 .. Len(c)
    PROVE  Dropped(c, e + 1) = Dropped(c, e) \cup (c[e].keys \ c[e + 1].keys)
<1>0. e + 1 \in DOMAIN c /\ e \in 1 .. e + 1
  BY ChainType
<1>1. c[e + 1].keys \cap Dropped(c, e) = {}
  BY <1>0, ChainAssumption
<1>2. 1 .. e + 1 = 1 .. e \cup {e + 1}
  OBVIOUS
<1>3. (UNION {c[i].keys : i \in 1 .. e + 1})
        = (UNION {c[i].keys : i \in 1 .. e}) \cup c[e + 1].keys
  BY <1>2
<1>4. c[e].keys \subseteq UNION {c[i].keys : i \in 1 .. e}
  OBVIOUS
<1> QED
  BY <1>1, <1>3, <1>4 DEF Dropped

LEMMA DroppedFirst ==
    ASSUME NEW c \in Chains
    PROVE  Dropped(c, 1) = {}
<1>1. 1 .. 1 = {1}
  OBVIOUS
<1> QED
  BY <1>1 DEF Dropped

(* A rotation that is out is one of the chain's.                           *)
LEMMA RotationsAreGenuine ==
    ASSUME WorldInv, NEW doc \in Published
    PROVE  /\ doc \in ReleaseDoc \cup RotationDoc
           /\ doc.type = "rotation" => /\ doc.key_epoch \in 2 .. rotated
                                       /\ doc.keys = chain[doc.key_epoch].keys
                                       /\ doc.threshold = chain[doc.key_epoch].threshold
<1>1. CASE doc \in {releases[i] : i \in DOMAIN releases}
  <2>1. ASSUME NEW T, releases \in Seq(T), NEW i \in DOMAIN releases PROVE releases[i] \in T
    BY <2>1
  <2>2. doc \in ReleaseDoc
    BY <1>1, <2>1 DEF WorldInv
  <2>3. doc.type = "release"
    BY <2>2 DEF ReleaseDoc
  <2> QED
    BY <2>2, <2>3
<1>2. CASE doc \in {RotationTo(e) : e \in 2 .. rotated}
  <2>1. PICK e \in 2 .. rotated : doc = RotationTo(e)
    BY <1>2
  <2>2. e \in 1 .. Len(chain)
    BY ChainType DEF WorldInv
  <2> QED
    BY <2>1, <2>2, ChainType DEF RotationTo, RotationDoc, WorldInv
<1> QED
  BY <1>1, <1>2 DEF Published

LEMMA AnswersAreTyped ==
    ASSUME WorldInv, NEW answer \in Answer
    PROVE  answer \in AnswerType /\ answer.doc \in Published
<1>1. Newest \in Published
  BY DEF WorldInv, Newest, Published
<1>2. answer.doc \in Published /\ answer.signed \in BOOLEAN /\ answer.fresh \in BOOLEAN
      /\ answer \in [doc : Published, signed : BOOLEAN, fresh : BOOLEAN]
  BY <1>1 DEF Answer
<1> QED
  BY <1>2, RotationsAreGenuine DEF AnswerType

(* apply_rotation leads from one published set to the next.                *)
LEMMA RotationStep ==
    ASSUME WorldInv, NEW t \in Trust, Published_(t), NEW answer \in Answer,
           Rotates(t, answer)
    PROVE  /\ apply_rotation(t, answer.doc) \in Trust
           /\ Published_(apply_rotation(t, answer.doc))
<1> DEFINE doc == answer.doc
<1>1. /\ doc \in Published /\ doc.type = "rotation" /\ doc.key_epoch = t.epoch + 1
  BY AnswersAreTyped DEF Rotates
<1>2. /\ doc.key_epoch \in 2 .. rotated
      /\ doc.keys = chain[doc.key_epoch].keys
      /\ doc.threshold = chain[doc.key_epoch].threshold
  BY <1>1, RotationsAreGenuine
<1>3. /\ t.epoch \in 1 .. Len(chain) /\ t.epoch + 1 \in 1 .. Len(chain) /\ chain \in Chains
  BY <1>1, <1>2, ChainType DEF WorldInv, Published_, Trust
<1>4. /\ t.keys = chain[t.epoch].keys /\ t.revoked = Dropped(chain, t.epoch)
  BY DEF Published_, TrustOf
<1>5. Dropped(chain, t.epoch + 1) = t.revoked \cup (t.keys \ doc.keys)
  BY <1>1, <1>2, <1>3, <1>4, DroppedStep
<1>6. doc.keys \in SUBSET Key /\ doc.threshold \in Nat /\ doc.key_epoch \in Nat
  BY <1>1, <1>2, <1>3, ChainType
<1> DEFINE u == apply_rotation(t, doc)
<1>7. /\ u = [epoch |-> doc.key_epoch, keys |-> doc.keys, threshold |-> doc.threshold,
              revoked |-> t.revoked \cup (t.keys \ doc.keys)]
  BY DEF apply_rotation
<1>8. u \in Trust
  BY <1>6, <1>7 DEF Trust
<1>9. TrustOf(u) /\ u.epoch \in 1 .. rotated
  <2>1. u.epoch = doc.key_epoch
    BY <1>7
  <2>2. /\ chain[u.epoch].keys = doc.keys /\ chain[u.epoch].threshold = doc.threshold
        /\ Dropped(chain, u.epoch) = t.revoked \cup (t.keys \ doc.keys)
    BY <2>1, <1>1, <1>2, <1>5
  <2>3. u.epoch \in 1 .. rotated
    BY <2>1, <1>2 DEF WorldInv
  <2> QED
    BY <1>7, <2>1, <2>2, <2>3 DEF TrustOf
<1> QED
  BY <1>8, <1>9 DEF Published_
-----------------------------------------------------------------------------
(* The inductive step, by groups of actions. *)

LEMMA NoCheckType == NoCheck \in CheckType /\ NoCheck.trust = None
BY DEF NoCheck, CheckType

(* The publisher's part does not change: a published trust stays one.      *)
LEMMA PublishedStays ==
    ASSUME NEW t, Published_(t), chain' = chain, rotated' \in {rotated, rotated + 1},
           WorldInv
    PROVE  /\ t.epoch \in 1 .. rotated'
           /\ t = [epoch |-> t.epoch, keys |-> chain'[t.epoch].keys,
                   threshold |-> chain'[t.epoch].threshold,
                   revoked |-> Dropped(chain', t.epoch)]
BY DEF Published_, TrustOf, WorldInv

LEMMA WorldStays ==
    ASSUME WorldInv, UNCHANGED worldVars
    PROVE  WorldInv'
BY DEF WorldInv, worldVars

(* A mirror fails: the next one is asked, or the check is rejected and     *)
(* what it reached is stored.                                              *)
LEMMA MirrorFailsStep ==
    ASSUME UpdateInv, doing \in {"Manifest", "Open", "Rotation"}, MirrorFails
    PROVE  UpdateInv'
<1> DEFINE f == charge(check.failures, NextMirror)
<1>1. f \in [Mirror -> Nat]
  BY ChargeType DEF UpdateInv, ClientInv, StageInv
<1>2. WorldInv'
  BY WorldStays DEF UpdateInv, MirrorFails
<1>3. /\ check.trust \in Trust /\ Published_(check.trust) /\ Published_(trust)
      /\ pending' = {} /\ accepted' = accepted /\ accepted = state.max_sequence
      /\ state \in StateType /\ trust \in Trust /\ check \in CheckType
      /\ chain' = chain /\ rotated' = rotated
  BY DEF UpdateInv, ClientInv, StageInv, TrustInv, MirrorFails, worldVars
<1>4. CASE check.untried = {NextMirror}
  <2>1. /\ state' = [state EXCEPT !.failures = f] /\ trust' = check.trust
        /\ doing' = "Idle" /\ check' = NoCheck
    BY <1>4 DEF MirrorFails, Rejected
  <2>2. state' \in StateType /\ state'.max_sequence = state.max_sequence
    BY <1>1, <1>3, <2>1 DEF StateType
  <2>3. ClientInv'
    BY <1>3, <2>1, <2>2, NoCheckType DEF ClientInv, StageInv
  <2>4. TrustInv'
    BY <1>3, <2>1, PublishedStays DEF UpdateInv, TrustInv, Published_, TrustOf
  <2> QED
    BY <1>2, <2>3, <2>4 DEF UpdateInv
<1>5. CASE check.untried # {NextMirror}
  <2>1. /\ doing' = "Manifest"
        /\ check' = [check EXCEPT !.failures = f, !.untried = @ \ {NextMirror},
                                  !.manifest = None, !.rotations = 0]
        /\ state' = state /\ trust' = trust
    BY <1>5 DEF MirrorFails
  <2>2. /\ check' \in CheckType /\ check'.trust = check.trust /\ check'.failures = f
    BY <1>1, <1>3, <2>1 DEF CheckType
  <2>3. ClientInv'
    BY <1>1, <1>3, <2>1, <2>2 DEF ClientInv, StageInv
  <2>4. TrustInv'
    BY <1>3, <2>1, <2>2, PublishedStays DEF UpdateInv, TrustInv, Published_, TrustOf
  <2> QED
    BY <1>2, <2>3, <2>4 DEF UpdateInv
<1> QED
  BY <1>4, <1>5

LEMMA InvInit ==
    ASSUME UpdateInit
    PROVE  UpdateInv
<1>1. chain \in Chains /\ 1 \in 1 .. Len(chain)
  <2>1. chain \in Chains
    BY DEF UpdateInit
  <2>2. chain \in Seq([keys : SUBSET Key, threshold : Nat]) /\ chain # << >>
    BY <2>1, ChainAssumption
  <2> QED
    BY <2>1, <2>2
<1>2. chain[1].keys \in SUBSET Key /\ chain[1].threshold \in Nat
  BY <1>1, ChainType
<1>3. WorldInv
  <2>1. FirstRelease \in ReleaseDoc
    BY DEF FirstRelease, ReleaseDoc
  <2>2. releases \in Seq(ReleaseDoc) /\ Len(releases) = 1
    BY <2>1 DEF UpdateInit
  <2> QED
    BY <1>1, <2>2, ChainType DEF WorldInv, UpdateInit
<1>4. state \in StateType /\ state.max_sequence = 0
  BY DEF UpdateInit, StateType
<1>5. trust \in Trust /\ trust.epoch = 1
  BY <1>2 DEF UpdateInit, Trust
<1>6. ClientInv
  BY <1>4, <1>5, NoCheckType DEF ClientInv, StageInv, UpdateInit
<1>7. TrustInv
  <2>1. Dropped(chain, 1) = {}
    BY <1>1, DroppedFirst
  <2>2. trust = [epoch |-> 1, keys |-> chain[1].keys, threshold |-> chain[1].threshold,
                 revoked |-> Dropped(chain, 1)]
    BY <2>1 DEF UpdateInit
  <2>3. TrustOf(trust)
    BY <1>5, <2>2 DEF TrustOf
  <2> QED
    BY <1>5, <2>3 DEF TrustInv, Published_, UpdateInit
<1> QED
  BY <1>3, <1>6, <1>7 DEF UpdateInv

(* Steps of a check that go on.                                            *)
LEMMA CheckStep ==
    ASSUME UpdateInv, NEW trigger, Check(trigger)
    PROVE  UpdateInv'
<1>1. WorldInv'
  BY WorldStays DEF UpdateInv, Check
<1>2. /\ check' \in CheckType /\ check'.trust = trust /\ check'.failures = state.failures
      /\ state.failures \in [Mirror -> Nat]
  BY NoCheckType DEF UpdateInv, ClientInv, Check, NoCheck, CheckType, StateType
<1>3. ClientInv'
  BY <1>2 DEF UpdateInv, ClientInv, StageInv, Check
<1>4. TrustInv'
  BY <1>2 DEF UpdateInv, TrustInv, Published_, TrustOf, Check, worldVars
<1> QED
  BY <1>1, <1>3, <1>4 DEF UpdateInv

LEMMA FetchManifestStep ==
    ASSUME UpdateInv, FetchManifest
    PROVE  UpdateInv'
<1>1. WorldInv'
  BY WorldStays DEF UpdateInv, FetchManifest
<1>2. PICK answer \in Answer : check' = [check EXCEPT !.manifest = answer]
  BY DEF FetchManifest
<1>3. answer \in AnswerType
  BY AnswersAreTyped DEF UpdateInv
<1>4. /\ check' \in CheckType /\ check'.trust = check.trust
      /\ check'.failures = check.failures /\ check'.manifest = answer
  BY <1>2, <1>3 DEF UpdateInv, ClientInv, CheckType
<1>5. ClientInv'
  BY <1>3, <1>4 DEF UpdateInv, ClientInv, StageInv, FetchManifest
<1>6. TrustInv'
  BY <1>4 DEF UpdateInv, TrustInv, Published_, TrustOf, FetchManifest, worldVars
<1> QED
  BY <1>1, <1>5, <1>6 DEF UpdateInv

LEMMA CatchUpStep ==
    ASSUME UpdateInv, CatchUp
    PROVE  UpdateInv'
<1>1. WorldInv'
  BY WorldStays DEF UpdateInv, CatchUp
<1>2. ClientInv'
  BY DEF UpdateInv, ClientInv, StageInv, CatchUp
<1>3. TrustInv'
  BY DEF UpdateInv, TrustInv, Published_, TrustOf, CatchUp, worldVars
<1> QED
  BY <1>1, <1>2, <1>3 DEF UpdateInv

LEMMA FetchRotationStep ==
    ASSUME UpdateInv, FetchRotation
    PROVE  UpdateInv'
<1>1. WorldInv'
  BY WorldStays DEF UpdateInv, FetchRotation
<1>2. PICK answer \in Answer :
        /\ Rotates(check.trust, answer)
        /\ check' = [check EXCEPT !.trust = apply_rotation(@, answer.doc), !.rotations = @ + 1]
  BY DEF FetchRotation
<1> DEFINE u == apply_rotation(check.trust, answer.doc)
<1>3. u \in Trust /\ Published_(u)
  BY <1>2, RotationStep DEF UpdateInv, ClientInv, StageInv, TrustInv, FetchRotation
<1> HIDE DEF u
<1>4. /\ check' \in CheckType /\ check'.trust = u
      /\ check'.failures = check.failures /\ check'.manifest = check.manifest
  <2>1. check \in CheckType
    BY DEF UpdateInv, ClientInv
  <2> DEFINE r == check.rotations + 1
  <2>2. check' = [check EXCEPT !.trust = u, !.rotations = r]
    BY <1>2 DEF u
  <2>3. r \in Nat
    BY <2>1 DEF CheckType
  <2> HIDE DEF r
  <2> QED
    BY <1>3, <2>1, <2>2, <2>3 DEF CheckType
<1>5. ClientInv'
  BY <1>3, <1>4 DEF UpdateInv, ClientInv, StageInv, FetchRotation
<1>6. TrustInv'
  BY <1>3, <1>4 DEF UpdateInv, TrustInv, Published_, TrustOf, FetchRotation, worldVars
<1> QED
  BY <1>1, <1>5, <1>6 DEF UpdateInv

(* A release that opens is a release document, and one that does not go    *)
(* back has at least the highest sequence accepted.                        *)
LEMMA AcceptedIsNewer ==
    ASSUME UpdateInv, ReleaseAccepted
    PROVE  /\ check.manifest \in AnswerType /\ check.manifest.doc \in ReleaseDoc
           /\ check.manifest.doc.sequence >= state.max_sequence
<1>1. check.manifest \in AnswerType
  BY DEF UpdateInv, ClientInv, StageInv, ReleaseAccepted
<1>2. check.manifest.doc \in ReleaseDoc \cup RotationDoc
  BY <1>1 DEF AnswerType
<1>3. check.manifest.doc.type # "rotation"
  BY DEF ReleaseAccepted, Opened, open_release
<1>4. check.manifest.doc \in ReleaseDoc
  BY <1>2, <1>3 DEF RotationDoc
<1>5. check.manifest.doc.sequence \in Nat /\ state.max_sequence \in Nat
  BY <1>4 DEF ReleaseDoc, UpdateInv, ClientInv, StateType
<1>6. ~ (check.manifest.doc.sequence < state.max_sequence)
  BY DEF ReleaseAccepted, GoesBack
<1> QED
  BY <1>1, <1>4, <1>5, <1>6

LEMMA ReleaseAcceptedStep ==
    ASSUME UpdateInv, ReleaseAccepted
    PROVE  UpdateInv' /\ accepted' >= accepted
<1> DEFINE release == check.manifest.doc
           f == clear(check.failures, NextMirror)
<1>1. /\ check.manifest \in AnswerType /\ release \in ReleaseDoc
      /\ release.sequence >= state.max_sequence
  BY AcceptedIsNewer
<1>2. /\ release.sequence \in Nat /\ state.max_sequence \in Nat
      /\ accepted = state.max_sequence /\ state \in StateType
  BY <1>1 DEF ReleaseDoc, UpdateInv, ClientInv, StateType
<1>3. f \in [Mirror -> Nat]
  BY ChargeType DEF UpdateInv, ClientInv, StageInv, ReleaseAccepted
<1>4. /\ state' = [state EXCEPT !.failures = f, !.max_sequence = release.sequence]
      /\ trust' = check.trust /\ accepted' = release.sequence
      /\ doing' = "Idle" /\ pending' = Offered(release) /\ check' = Decided(pending')
      /\ UNCHANGED worldVars
  <2>1. (IF state.max_sequence < release.sequence THEN release.sequence
         ELSE state.max_sequence) = release.sequence
    BY <1>1, <1>2
  <2> QED
    BY <2>1 DEF ReleaseAccepted
<1> HIDE DEF f
<1>5. state' \in StateType /\ state'.max_sequence = release.sequence
  BY <1>2, <1>3, <1>4 DEF StateType
<1>6. WorldInv'
  BY <1>4, WorldStays DEF UpdateInv
<1>7. check.trust \in Trust /\ Published_(check.trust) /\ trust' = check.trust
  BY <1>4 DEF UpdateInv, ClientInv, StageInv, TrustInv, ReleaseAccepted
<1>8. /\ check' \in CheckType /\ check'.trust = None
      /\ pending' # {} => check'.manifest = check.manifest
  <2>1. CASE pending' = {}
    BY <1>4, <2>1, NoCheckType DEF Decided
  <2>2. CASE pending' # {}
    <3>1. check' = [NoCheck EXCEPT !.manifest = check.manifest]
      BY <1>4, <2>2 DEF Decided
    <3> QED
      BY <1>1, <3>1, NoCheckType DEF CheckType, NoCheck
  <2> QED
    BY <2>1, <2>2
<1>9. pending' \subseteq {"release", "data"}
  BY <1>4 DEF Offered
<1>10. ClientInv'
  BY <1>1, <1>4, <1>5, <1>7, <1>8, <1>9 DEF ClientInv, StageInv
<1>11. TrustInv'
  BY <1>4, <1>7 DEF TrustInv, Published_, TrustOf, worldVars
<1> QED
  BY <1>1, <1>2, <1>4, <1>6, <1>10, <1>11 DEF UpdateInv

(* Downloads leave the trust and the highest sequence alone.               *)
LEMMA DownloadStep ==
    ASSUME UpdateInv, NEW file \in {"release", "data"}, Download(file)
    PROVE  UpdateInv'
<1>1. WorldInv'
  BY WorldStays DEF UpdateInv, Download
<1>2. /\ check \in CheckType /\ state.failures \in [Mirror -> Nat]
  BY DEF UpdateInv, ClientInv, StateType
<1>3. /\ check' \in CheckType /\ check'.trust = check.trust
      /\ check'.failures = state.failures /\ check'.manifest = check.manifest
  BY <1>2 DEF Download, CheckType
<1>4. ClientInv'
  BY <1>2, <1>3 DEF UpdateInv, ClientInv, StageInv, Download
<1>5. TrustInv'
  BY DEF UpdateInv, TrustInv, Published_, TrustOf, Download, worldVars
<1> QED
  BY <1>1, <1>4, <1>5 DEF UpdateInv

LEMMA DownloadEndsStep ==
    ASSUME UpdateInv, doing = "Download", NEW f \in [Mirror -> Nat], NEW s \in StateType,
           s.max_sequence = state.max_sequence, DownloadEnds(f, s),
           UNCHANGED <<worldVars, trust, accepted>>
    PROVE  UpdateInv'
<1>1. WorldInv'
  BY WorldStays DEF UpdateInv
<1>2. state' \in StateType /\ state'.max_sequence = state.max_sequence
  BY DEF DownloadEnds, StateType
<1>3. /\ check.manifest \in AnswerType /\ check.manifest.doc \in ReleaseDoc
  BY DEF UpdateInv, ClientInv, StageInv
<1>4. /\ check' \in CheckType /\ check'.trust = None
      /\ pending' # {} => check'.manifest = check.manifest
  <2>1. CASE pending' = {}
    BY <2>1, NoCheckType DEF Decided, DownloadEnds
  <2>2. CASE pending' # {}
    <3>1. check' = [NoCheck EXCEPT !.manifest = check.manifest]
      BY <2>2 DEF Decided, DownloadEnds
    <3> QED
      BY <1>3, <3>1, NoCheckType DEF CheckType, NoCheck
  <2> QED
    BY <2>1, <2>2
<1>5. ClientInv'
  BY <1>2, <1>3, <1>4 DEF UpdateInv, ClientInv, StageInv, DownloadEnds
<1>6. TrustInv'
  BY DEF UpdateInv, TrustInv, Published_, TrustOf, DownloadEnds, worldVars
<1> QED
  BY <1>1, <1>5, <1>6 DEF UpdateInv

LEMMA BodyStep ==
    ASSUME UpdateInv, BodyVerified \/ BodyFails
    PROVE  UpdateInv'
<1>0. /\ doing = "Download" /\ check.failures \in [Mirror -> Nat] /\ state \in StateType
      /\ check.manifest.doc \in ReleaseDoc /\ check \in CheckType
  BY DEF UpdateInv, ClientInv, StageInv, BodyVerified, BodyFails
<1>1. CASE BodyVerified
  <2>1. /\ Recorded(check.manifest.doc) \in StateType
        /\ Recorded(check.manifest.doc).max_sequence = state.max_sequence
    BY <1>0 DEF Recorded, Larger, StateType, ReleaseDoc
  <2> QED
    BY <1>0, <1>1, <2>1, ChargeType, DownloadEndsStep DEF BodyVerified
<1>2. CASE BodyFails /\ check.untried = {NextMirror}
  BY <1>0, <1>2, ChargeType, DownloadEndsStep DEF BodyFails, clockVars
<1>3. CASE BodyFails /\ check.untried # {NextMirror}
  <2> DEFINE f == charge(check.failures, NextMirror)
  <2>1. f \in [Mirror -> Nat]
    BY <1>0, ChargeType
  <2>2. /\ check' = [check EXCEPT !.failures = f, !.untried = @ \ {NextMirror}]
        /\ UNCHANGED <<doing, state, pending, worldVars, trust, accepted>>
    BY <1>3 DEF BodyFails
  <2> HIDE DEF f
  <2>3. /\ check' \in CheckType /\ check'.trust = check.trust /\ check'.failures = f
        /\ check'.manifest = check.manifest
    BY <1>0, <2>1, <2>2 DEF CheckType
  <2>4. ClientInv'
    BY <1>0, <2>1, <2>2, <2>3 DEF UpdateInv, ClientInv, StageInv
  <2>5. TrustInv'
    BY <1>0, <2>2 DEF UpdateInv, TrustInv, Published_, TrustOf, worldVars
  <2> QED
    BY <2>2, <2>4, <2>5, WorldStays DEF UpdateInv
<1> QED
  BY <1>1, <1>2, <1>3

(* The environment.                                                        *)
LEMMA PublisherStep ==
    ASSUME UpdateInv, PublishRelease \/ PublishRotation
    PROVE  UpdateInv'
<1>1. /\ chain' = chain /\ rotated' \in {rotated, rotated + 1}
      /\ UNCHANGED <<state, trust, doing, check, pending, accepted>>
  BY DEF PublishRelease, PublishRotation
<1>2. WorldInv'
  <2>1. CASE PublishRelease
    <3>1. Newest \in ReleaseDoc /\ rotated \in Nat /\ Len(releases) \in Nat
      <4>1. ASSUME NEW T, releases \in Seq(T) PROVE releases[Len(releases)] \in T
        BY <4>1 DEF UpdateInv, WorldInv
      <4>2. Newest \in ReleaseDoc
        BY <4>1 DEF Newest, UpdateInv, WorldInv
      <4> QED
        BY <4>2 DEF UpdateInv, WorldInv
    <3>2. Newest.version \in Nat /\ Newest.data \in Nat
      BY <3>1 DEF ReleaseDoc
    <3>3. PICK r \in ReleaseDoc : releases' = Append(releases, r)
      <4> DEFINE Doc(v, d, a) ==
                    [type |-> "release", sequence |-> Len(releases) + 1,
                     key_epoch |-> rotated, version |-> v, data |-> d, artifact |-> a]
      <4>1. PICK v \in {Newest.version, Newest.version + 1},
                 d \in {Newest.data, Newest.data + 1}, a \in BOOLEAN :
                    releases' = Append(releases, Doc(v, d, a))
        BY <2>1 DEF PublishRelease
      <4>2. v \in Nat /\ d \in Nat /\ Len(releases) + 1 \in Nat
        BY <3>1, <3>2
      <4>3. Doc(v, d, a) \in ReleaseDoc
        BY <3>1, <4>2 DEF ReleaseDoc
      <4> HIDE DEF Doc
      <4> QED
        BY <4>1, <4>3
    <3>4. releases' \in Seq(ReleaseDoc) /\ Len(releases') >= 1
      BY <3>3 DEF UpdateInv, WorldInv
    <3> QED
      BY <2>1, <3>4 DEF PublishRelease, UpdateInv, WorldInv
  <2>2. CASE PublishRotation
    <3>1. rotated + 1 \in 1 .. Len(chain)
      BY <2>2, ChainType DEF PublishRotation, UpdateInv, WorldInv
    <3> QED
      BY <2>2, <3>1 DEF PublishRotation, UpdateInv, WorldInv
  <2> QED
    BY <2>1, <2>2
<1>3. ClientInv'
  BY <1>1 DEF UpdateInv, ClientInv, StageInv
<1>4. TrustInv'
  BY <1>1, PublishedStays DEF UpdateInv, TrustInv, Published_, TrustOf
<1> QED
  BY <1>2, <1>3, <1>4 DEF UpdateInv

LEMMA CrashStep ==
    ASSUME UpdateInv, BrowserStops
    PROVE  UpdateInv'
<1>1. WorldInv'
  BY WorldStays DEF UpdateInv, BrowserStops
<1>2. ClientInv'
  BY NoCheckType DEF UpdateInv, ClientInv, StageInv, BrowserStops
<1>3. TrustInv'
  BY DEF UpdateInv, TrustInv, Published_, TrustOf, BrowserStops, worldVars
<1> QED
  BY <1>1, <1>2, <1>3 DEF UpdateInv

(* Settle, and what the clock says, touch nothing the invariant speaks of. *)
LEMMA OtherStep ==
    ASSUME UpdateInv,
           UNCHANGED <<chain, rotated, releases, state, trust, doing, check, pending, accepted>>
    PROVE  UpdateInv'
<1>1. WorldInv'
  BY DEF UpdateInv, WorldInv
<1>2. ClientInv'
  BY DEF UpdateInv, ClientInv, StageInv
<1>3. TrustInv'
  BY DEF UpdateInv, TrustInv, Published_, TrustOf
<1> QED
  BY <1>1, <1>2, <1>3 DEF UpdateInv

LEMMA InvNext ==
    ASSUME UpdateInv, [UpdateNext]_updateVars
    PROVE  UpdateInv' /\ accepted' >= accepted
<1>0. accepted \in Nat
  BY DEF UpdateInv, ClientInv, StateType
<1>1. CASE Check("Scheduled") \/ Check("Manual")
  <2>1. UpdateInv'
    BY <1>1, CheckStep
  <2>2. accepted' = accepted
    BY <1>1 DEF Check
  <2> QED
    BY <1>0, <2>1, <2>2
<1>2. CASE ManifestFails \/ EnvelopeFails \/ RotationFails \/ ReleaseRefused
  <2>1. doing \in {"Manifest", "Open", "Rotation"} /\ MirrorFails
    BY <1>2 DEF ManifestFails, EnvelopeFails, RotationFails, ReleaseRefused
  <2>2. accepted' = accepted
    BY <2>1 DEF MirrorFails
  <2> QED
    BY <1>0, <2>1, <2>2, MirrorFailsStep
<1>3. CASE FetchManifest
  <2>1. UpdateInv'
    BY <1>3, FetchManifestStep
  <2>2. accepted' = accepted
    BY <1>3 DEF FetchManifest
  <2> QED
    BY <1>0, <2>1, <2>2
<1>4. CASE CatchUp
  <2>1. UpdateInv'
    BY <1>4, CatchUpStep
  <2>2. accepted' = accepted
    BY <1>4 DEF CatchUp
  <2> QED
    BY <1>0, <2>1, <2>2
<1>5. CASE FetchRotation
  <2>1. UpdateInv'
    BY <1>5, FetchRotationStep
  <2>2. accepted' = accepted
    BY <1>5 DEF FetchRotation
  <2> QED
    BY <1>0, <2>1, <2>2
<1>6. CASE ReleaseAccepted
  BY <1>6, ReleaseAcceptedStep
<1>7. CASE \E file \in {"release", "data"} : Download(file)
  <2>1. UpdateInv'
    BY <1>7, DownloadStep
  <2>2. accepted' = accepted
    BY <1>7 DEF Download
  <2> QED
    BY <1>0, <2>1, <2>2
<1>8. CASE BodyVerified \/ BodyFails
  <2>1. UpdateInv'
    BY <1>8, BodyStep
  <2>2. accepted' = accepted
    BY <1>8 DEF BodyVerified, BodyFails
  <2> QED
    BY <1>0, <2>1, <2>2
<1>9. CASE PublishRelease \/ PublishRotation
  <2>1. UpdateInv'
    BY <1>9, PublisherStep
  <2>2. accepted' = accepted
    BY <1>9 DEF PublishRelease, PublishRotation
  <2> QED
    BY <1>0, <2>1, <2>2
<1>10. CASE BrowserStops
  <2>1. UpdateInv'
    BY <1>10, CrashStep
  <2>2. accepted' = accepted
    BY <1>10 DEF BrowserStops
  <2> QED
    BY <1>0, <2>1, <2>2
<1>11. CASE Settle \/ TimePasses \/ ClockMoves \/ UNCHANGED updateVars
  <2>1. UNCHANGED <<chain, rotated, releases, state, trust, doing, check, pending, accepted>>
    BY <1>11 DEF Settle, TimePasses, ClockMoves, updateVars, worldVars
  <2> QED
    BY <1>0, <2>1, OtherStep
<1> QED
  BY <1>1, <1>2, <1>3, <1>4, <1>5, <1>6, <1>7, <1>8, <1>9, <1>10, <1>11
  DEF UpdateNext, ClientStep
-----------------------------------------------------------------------------
(* For every number of mirrors, keys, epochs and releases, and whatever    *)
(* the mirrors answer and whenever the process ends, the keys that         *)
(* try_mirror and apply_rotation leave the client with are the published   *)
(* set of their epoch, and every key dropped on the way is revoked.        *)
THEOREM TrustIsPublishedCorrect == UpdateSpec => []TrustIsPublished
<1>1. UpdateInv => TrustIsPublished
  <2> SUFFICES ASSUME UpdateInv PROVE TrustIsPublished
    OBVIOUS
  <2>1. Published_(trust)
    BY DEF UpdateInv, TrustInv
  <2>2. check.trust # None => Published_(check.trust)
    BY DEF UpdateInv, ClientInv, StageInv, TrustInv
  <2>3. rotated \in Nat
    BY DEF UpdateInv, WorldInv
  <2> QED
    BY <2>1, <2>2, <2>3 DEF Published_, TrustIsPublished
<1> QED
  BY <1>1, InvInit, InvNext, PTL DEF UpdateSpec

(* A release is accepted only if no newer one was accepted and stored      *)
(* before, for every number of mirrors, releases and crashes (the sequence *)
(* check of try_mirror).                                                   *)
THEOREM NeverBackwardsCorrect == UpdateSpec => NeverBackwards
<1>1. UpdateInv /\ [UpdateNext]_updateVars => [accepted' >= accepted]_updateVars
  BY InvNext
<1> QED
  BY <1>1, InvInit, InvNext, PTL DEF UpdateSpec, NeverBackwards
=============================================================================
