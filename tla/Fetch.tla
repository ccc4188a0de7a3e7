-------------------------------- MODULE Fetch --------------------------------
(***************************************************************************)
(* The fetch path: SecureFetcher of crates/px-net/src/secure.rs, which     *)
(* takes one request through its redirects under the verdicts of           *)
(* WebPolicy, and Loader of crates/px-net/src/browse.rs, which uses it for *)
(* a page and for what the page asks for.                                  *)
(*                                                                         *)
(* A fetch is one call on one thread.  Everything between two answers of   *)
(* the network is one step; the network may answer with any of Replies, or *)
(* fail, and time may pass.  A response has its headers' values as fields. *)
(***************************************************************************)
EXTENDS WebPolicy, Functions

CONSTANTS
    Contexts,            \* what a caller other than Loader may ask under
    Replies,             \* what a server may answer
    MAX_HOPS,            \* redirects followed
    MAX_PER_KEY,         \* cookies per partition
    MAX_CACHE_ENTRIES,   \* grants remembered
    MaxFetches, MaxClock \* bounds of the model

ASSUME FetchAssumption ==
    /\ MAX_HOPS \in Nat /\ MAX_PER_KEY \in Nat
    /\ MAX_CACHE_ENTRIES \in Nat \ {0}
    /\ MaxFetches \in Nat /\ MaxClock \in Nat
    /\ \A c \in Contexts : c.doc \in Url

VARIABLES
    fpc,                 \* "idle", "hop", "preflight" or "sent"
    ctx, hop, visited,   \* the request, where it stands, where it was sent
    wire,                \* the last request put on the wire
    out,                 \* the outcome, once there is one
    jar, preflights,     \* the fetcher's own state
    document, loaded,    \* the loader's document, and its last answer
    clock, fetches,
    travel, grants       \* histories: of this request, of the grants received

requestVars == <<ctx, hop, visited>>
fetcherVars == <<jar, preflights>>
loaderVars == <<document, loaded>>
historyVars == <<travel, grants>>
fetchVars == <<fpc, requestVars, wire, out, fetcherVars, loaderVars, clock, fetches, historyVars>>

------------------------------------------------------------------------------
(* The requests. *)

(* FetchContext::top_level_document: the defaults of a plain load.         *)
default_mode(dest) ==
    CASE dest \in {"Navigation", "Iframe"} -> "navigate"
      [] dest \in {"Fetch", "EventSource", "Beacon"} -> "cors"
      [] OTHER -> "no-cors"

top_level_document(u, dest) ==
    [doc |-> u, ancestors |-> {}, top |-> from_url(u), dest |-> dest,
     mode |-> default_mode(dest),
     cred |-> "same-origin", method |-> "GET", headers |-> {}, flag |-> FALSE,
     policy |-> None, csp |-> NoPolicy, coep |-> "unsafe-none", integrity |-> None,
     loader |-> TRUE]

is_forbidden(c) == c.method = "TRACE" \/ "cookie" \in c.headers

(* Where a request with no redirect behind it stands. *)
HopState(c, u) ==
    [url |-> u, method |-> c.method, headers |-> c.headers,
     tainted |-> FALSE, redirects |-> 0, policy |-> None]

NoTravel == [begun |-> FALSE, start |-> Opaque, last |-> Opaque, elsewhere |-> FALSE,
             crossed |-> FALSE, unadmitted |-> FALSE]

initiator(c) == from_url(c.doc)

request_origin == IF hop.tainted THEN Opaque ELSE initiator(ctx)

(* An opaque origin is told apart from the one of any other fetch. *)
opaque_id == IF hop.tainted THEN fetches ELSE 0

(* The URL a hop requests after HSTS, upgrade-insecure-requests and mixed  *)
(* content, or None where the last one refuses.                            *)
requested(c, u) ==
    LET preloaded == IF requires_https(u) THEN upgraded_to_https(u) ELSE u
        asked == IF preloaded.scheme = "http" /\ upgrade_insecure_url(c, preloaded)
                 THEN upgraded_to_https(preloaded) ELSE preloaded
    IN  check_mixed(c, asked)

(* PartitionKey::new: None where the top-level host has no site. *)
PartitionKey(c, u) ==
    IF RegistrableDomainOf[c.top.host] = None THEN None
    ELSE [site |-> RegistrableDomainOf[c.top.host], origin |-> from_url(u)]

(* Whether u, which is not None, may be requested at all. *)
permitted(u) ==
    /\ ~blocks_mixed_content(ctx, u)
    /\ csp_allows(ctx, u, hop.redirects)
    /\ PartitionKey(ctx, u) # None
    /\ taint_of(ctx, u, request_origin) # None

------------------------------------------------------------------------------
(* The cookie jar and the preflight cache. *)

CookiesOf(j, k) == IF k \in DOMAIN j THEN j[k] ELSE <<>>

(* Jar::store.  A cookie keeps, as a history, who set it under which page. *)
store_cookie(j, k, cookie) ==
    LET held == CookiesOf(j, k)
        new == [name |-> cookie.name, same_site |-> cookie.same_site, secure |-> cookie.secure,
                path |-> cookie.path, expired |-> cookie.expired,
                by |-> [top |-> ctx.top.host, origin |-> k.origin]]
        same == {i \in DOMAIN held : held[i].name = cookie.name /\ held[i].path = cookie.path}
        after == IF same # {} THEN [i \in DOMAIN held |-> IF i \in same THEN new ELSE held[i]]
                 ELSE IF Len(held) >= MAX_PER_KEY THEN held
                 ELSE Append(held, new)
    IN  IF cookie = None THEN j
        ELSE IF ~parse_cookie(k.origin, cookie) THEN j
        ELSE [x \in DOMAIN j \cup {k} |-> IF x = k THEN after ELSE j[x]]

cookies_for(j, k, path, cross_site) ==
    {c \in Range(CookiesOf(j, k)) : cookie_matches(c, k.origin, path, cross_site)}

(* What an entry of the cache is about; the entry adds one granted method  *)
(* or header and when the grant ends.                                      *)
CacheKey(u) ==
    [key |-> PartitionKey(ctx, u), origin |-> request_origin, id |-> opaque_id, url |-> u,
     include |-> ctx.cred = "include"]

Entry(u, method, header, end) ==
    [about |-> CacheKey(u), method |-> method, header |-> header, expires |-> end]

(* PreflightCache::store's inner add, for one entry. *)
add(cache, e) ==
    LET equal == {i \in DOMAIN cache : [cache[i] EXCEPT !.expires = e.expires] = e}
    IN  IF equal # {} THEN [i \in DOMAIN cache |-> IF i \in equal THEN e ELSE cache[i]]
        ELSE Append(IF Len(cache) >= MAX_CACHE_ENTRIES THEN Tail(cache) ELSE cache, e)

add_all(cache, entries) ==
    MapThenFoldSet(LAMBDA e, c : add(c, e), cache, LAMBDA e : e,
                   LAMBDA S : CHOOSE e \in S : TRUE, entries)

store_grant(cache, u, methods, headers, age) ==
    LET end == clock + age
        live == SelectSeq(cache, LAMBDA e : e.expires > clock)
    IN  IF age = 0 THEN cache
        ELSE add_all(add_all(live, {Entry(u, m, None, end) : m \in methods}),
                     {Entry(u, None, h, end) : h \in headers})

(* Mutant: a grant lasts one instant too long. *)
base_match_ToTheLast(e, u) ==
    /\ e.expires >= clock
    /\ [e.about EXCEPT !.include = FALSE] = [CacheKey(u) EXCEPT !.include = FALSE]
    /\ e.about.include \/ ctx.cred # "include"

base_match(e, u) ==
    /\ e.expires > clock
    /\ [e.about EXCEPT !.include = FALSE] = [CacheKey(u) EXCEPT !.include = FALSE]
    /\ e.about.include \/ ctx.cred # "include"

covers(u) ==
    LET live == {e \in Range(preflights) : base_match(e, u)}
        Hit(h) == \E e \in live : e.header \in {h} \cup (Wild(ctx) \ IF h = "authorization" THEN {"*"} ELSE {})
    IN  /\ \/ \E e \in live : e.method \in {hop.method} \cup Wild(ctx)
           \/ is_safelisted_method(hop.method) /\ ~ctx.flag
        /\ \A h \in hop.headers : Hit(h)

------------------------------------------------------------------------------
(* What is put on the wire. *)

effective_policy ==
    IF hop.policy # None THEN hop.policy
    ELSE IF ctx.policy # None THEN ctx.policy ELSE DefaultReferrerPolicy

send_credentials(taint) ==
    \/ ctx.cred = "include"
    \/ ctx.cred = "same-origin" /\ taint = "basic"

should_send_origin_header(taint) == taint = "cors" \/ hop.method \notin {"GET", "HEAD"}

Request(u) ==
    LET taint == taint_of(ctx, u, request_origin)
        cross_site == cross_site_for_cookies(ctx.top, from_url(u))
    IN  [preflight |-> FALSE, url |-> u, method |-> hop.method, headers |-> hop.headers,
         origin |-> IF should_send_origin_header(taint) THEN request_origin ELSE None,
         referrer |-> compute_referrer(ctx.doc, effective_policy, u),
         cookies |-> IF send_credentials(taint)
                     THEN cookies_for(jar, PartitionKey(ctx, u), u.path, cross_site) ELSE {},
         taint |-> taint, at |-> clock]

PreflightRequest(u) ==
    [preflight |-> TRUE, url |-> u, method |-> "OPTIONS", headers |-> {},
     origin |-> request_origin,
     referrer |-> compute_referrer(ctx.doc, effective_policy, u),
     cookies |-> {}, taint |-> "cors", at |-> clock]

NoOutcome == [verdict |-> "none", taint |-> None, status |-> 0, served |-> 0, body |-> None]

(* The call returns without a response; the loader reports an error. *)
Ended(verdict) ==
    /\ fpc' = "idle"
    /\ out' = [NoOutcome EXCEPT !.verdict = verdict]
    /\ loaded' = IF ctx.loader THEN "Err" ELSE loaded
    /\ UNCHANGED <<ctx, visited, document, clock, fetches>>

(* fetch_request refuses plaintext to a preloaded host once more. *)
Deliver(pc, request) ==
    IF requires_https(request.url) THEN Ended("failed") /\ UNCHANGED wire
    ELSE /\ fpc' = pc /\ wire' = request
         /\ UNCHANGED <<ctx, visited, out, loaderVars, clock, fetches>>

------------------------------------------------------------------------------
(* Beginning a fetch. *)

BeginFetch(c, u) ==
    /\ fpc = "idle" /\ fetches < MaxFetches
    /\ fetches' = fetches + 1
    /\ ctx' = c /\ visited' = {} /\ wire' = None /\ hop' = HopState(c, u)
    /\ travel' = NoTravel
    /\ IF is_forbidden(c) \/ u = Malformed
       THEN fpc' = "idle" /\ out' = [NoOutcome EXCEPT !.verdict = "denied"]
       ELSE fpc' = "hop" /\ out' = NoOutcome
    /\ UNCHANGED <<clock, grants>>

fetch(c, u) == BeginFetch(c, u) /\ UNCHANGED <<fetcherVars, loaderVars>>

(* WebPages::load: a fresh loader, whose fetcher remembers nothing, and    *)
(* Loader::navigate.                                                       *)
navigate(u) ==
    /\ BeginFetch([top_level_document(u, "Navigation") EXCEPT !.policy = "no-referrer"], u)
    /\ jar' = <<>> /\ preflights' = <<>>
    /\ document' = None /\ loaded' = None

(* Loader::stylesheet, image and font. *)
subresource(dest, u) ==
    /\ document # None
    /\ LET plain == [top_level_document(document.url, dest)
                        EXCEPT !.csp = document.csp, !.policy = document.policy]
       IN  BeginFetch(IF dest = "Font" THEN [plain EXCEPT !.mode = "cors"] ELSE plain, u)
    /\ loaded' = None
    /\ UNCHANGED <<fetcherVars, document>>

------------------------------------------------------------------------------
(* SecureFetcher::hop, up to the request. *)

(* The history of where the request has been, which no code reads: whether *)
(* it left the origin it began at, and whether an origin foreign to the    *)
(* initiator has sent it to another one.                                   *)
Travelled(o) ==
    [begun |-> TRUE,
     start |-> IF travel.begun THEN travel.start ELSE o,
     last |-> o,
     elsewhere |-> travel.elsewhere \/ (travel.begun /\ o # travel.start),
     crossed |-> \/ travel.crossed
                 \/ travel.begun /\ travel.last # initiator(ctx) /\ o # travel.last,
     unadmitted |-> travel.unadmitted]

NeedsPreflight(u) ==
    /\ ctx.mode = "cors" /\ taint_of(ctx, u, request_origin) = "cors"
    /\ preflighted(ctx, hop.method, hop.headers)
    /\ ~covers(u)

HopDenied ==
    /\ fpc = "hop"
    /\ LET u == requested(ctx, hop.url) IN u # None => ~permitted(u)
    /\ Ended("denied")
    /\ UNCHANGED <<hop, wire, fetcherVars, historyVars>>

Requesting(u) ==
    /\ fpc = "hop"
    /\ u # None /\ permitted(u)
    /\ travel' = Travelled(from_url(u))
    /\ hop' = [hop EXCEPT !.url = u]
    /\ UNCHANGED <<fetcherVars, grants>>

HopAsks ==
    LET u == requested(ctx, hop.url)
    IN  /\ Requesting(u) /\ NeedsPreflight(u)
        /\ Deliver("preflight", PreflightRequest(u))

HopSends ==
    LET u == requested(ctx, hop.url)
    IN  /\ Requesting(u) /\ ~NeedsPreflight(u)
        /\ Deliver("sent", Request(u))

(* The answer to a preflight: the grant is remembered and the request goes *)
(* out, or the fetch is over.                                              *)
PreflightGranted(reply) ==
    LET u == hop.url
        methods == granted_methods(ctx, hop.method, reply)
    IN  /\ fpc = "preflight"
        /\ validate_preflight(ctx, request_origin, hop.method, hop.headers, reply)
        /\ preflights' = store_grant(preflights, u, methods, reply.headers, reply.age)
        /\ grants' = grants \cup
               {[about |-> CacheKey(u), methods |-> methods, headers |-> reply.headers,
                 until |-> clock + reply.age, fetch |-> fetches]}
        /\ Deliver("sent", Request(u))
        /\ UNCHANGED <<hop, jar, travel>>

PreflightRefused(reply) ==
    /\ fpc = "preflight"
    /\ ~validate_preflight(ctx, request_origin, hop.method, hop.headers, reply)
    /\ Ended("denied")
    /\ UNCHANGED <<hop, wire, fetcherVars, historyVars>>

------------------------------------------------------------------------------
(* The answer to the request. *)

IsRedirect(reply) == reply.status \in {301, 302, 303, 307, 308} /\ reply.location # None

(* Whether the server let the initiator read this answer, were it asked    *)
(* under the origin the request's travel calls for.                        *)
Admits(reply) ==
    cors_check(ctx, IF travel.crossed THEN Opaque ELSE initiator(ctx), reply)

(* Cookies are kept before anything is checked. *)
Received(reply) ==
    /\ fpc = "sent"
    /\ jar' = IF send_credentials(wire.taint)
              THEN store_cookie(jar, PartitionKey(ctx, wire.url), reply.cookie) ELSE jar
    /\ travel' = [travel EXCEPT
           !.unadmitted = @ \/ ( /\ travel.crossed \/ travel.last # initiator(ctx)
                                 /\ ~Admits(reply))]
    /\ UNCHANGED <<wire, grants>>

validate_response(reply) == wire.taint = "cors" => cors_check(ctx, request_origin, reply)

(* redirect.rs resolve: a Location inherits what it does not state. *)
resolve(from, location) ==
    [scheme |-> IF location.scheme = None THEN from.scheme ELSE location.scheme,
     host |-> IF location.host = None THEN from.host ELSE location.host,
     path |-> location.path]

(* Chain::follow's refusals. *)
may_follow(to) ==
    /\ Cardinality(visited) < MAX_HOPS
    /\ to.scheme \in {"http", "https"}
    /\ ~(wire.url.scheme = "https" /\ to.scheme = "http")
    /\ to \notin visited

(* Mutant: the chain does not record where it went. *)
followed_Nothing(to) == visited

(* Chain::follow records the step it allows. *)
followed(to) == visited \cup {to}

(* Mutant: the request keeps its origin and its headers. *)
advance_KeepsAll(to, reply) ==
    [hop EXCEPT !.url = to,
                !.policy = IF reply.policy = None THEN hop.policy ELSE reply.policy]

(* SecureFetcher::advance. *)
advance(to, reply) ==
    LET from == from_url(wire.url)
        leaves == from # from_url(to)
        to_get == \/ reply.status \in {301, 302} /\ hop.method = "POST"
                  \/ reply.status = 303 /\ hop.method \notin {"GET", "HEAD"}
    IN  [url |-> to,
         method |-> IF to_get THEN "GET" ELSE hop.method,
         headers |-> hop.headers \ IF leaves THEN {"authorization"} ELSE {},
         tainted |-> hop.tainted \/ (leaves /\ from # initiator(ctx)),
         redirects |-> IF hop.redirects < MAX_HOPS THEN hop.redirects + 1 ELSE hop.redirects,
         policy |-> IF reply.policy = None THEN hop.policy ELSE reply.policy]

Redirected(reply) ==
    LET to == resolve(wire.url, reply.location)
    IN  /\ Received(reply)
        /\ IsRedirect(reply) /\ validate_response(reply) /\ may_follow(to)
        /\ fpc' = "hop"
        /\ visited' = followed(to)
        /\ hop' = advance(to, reply)
        /\ UNCHANGED <<ctx, out, preflights, loaderVars, clock, fetches>>

RedirectRefused(reply) ==
    /\ Received(reply)
    /\ IsRedirect(reply)
    /\ ~(validate_response(reply) /\ may_follow(resolve(wire.url, reply.location)))
    /\ Ended("denied")
    /\ UNCHANGED <<hop, preflights>>

(* SecureFetcher::finish: the checks of the final response. *)
Accepted(reply) ==
    LET u == wire.url
    IN  /\ ctx.dest = "Navigation" \/ ~prohibits_mixed(ctx) \/ trustworthy(u)
        /\ validate_response(reply)
        /\ resource_policy_allows(ctx, u, wire.taint, reply)
        /\ integrity_allows(ctx, wire.taint, reply)
        /\ framing_allows(ctx, u, reply)

(* The status the caller sees: filter_response hides an opaque one. *)
visible_status(reply) == IF wire.taint = "opaque" THEN 0 ELSE reply.status

(* What the loader's methods take for an answer. *)
LoaderTakes(reply) ==
    \/ ctx.dest = "Navigation"
    \/ /\ visible_status(reply) = 200
       /\ CASE ctx.dest = "Style" -> reply.body # "huge"
            [] ctx.dest = "Image" -> reply.body = "picture"
            [] ctx.dest = "Font" -> reply.body \notin {"huge", "empty"}

Finished(reply) ==
    /\ Received(reply)
    /\ ~IsRedirect(reply) /\ Accepted(reply)
    /\ fpc' = "idle"
    /\ out' = [verdict |-> "ok", taint |-> wire.taint, status |-> visible_status(reply),
               served |-> reply.status, body |-> reply.body]
    /\ IF ctx.loader
       THEN /\ loaded' = IF LoaderTakes(reply) THEN "Ok" ELSE "Err"
            /\ document' = IF ctx.dest = "Navigation"
                           THEN [url |-> wire.url, csp |-> reply.csp, policy |-> reply.policy]
                           ELSE document
       ELSE UNCHANGED loaderVars
    /\ UNCHANGED <<requestVars, preflights, clock, fetches>>

FinishRefused(reply) ==
    /\ Received(reply)
    /\ ~IsRedirect(reply) /\ ~Accepted(reply)
    /\ Ended("denied")
    /\ UNCHANGED <<hop, preflights>>

(* The connection, TLS or the exchange fails, or times out. *)
TransportFails ==
    /\ fpc \in {"preflight", "sent"}
    /\ Ended("failed")
    /\ UNCHANGED <<hop, wire, fetcherVars, historyVars>>

Tick ==
    /\ clock < MaxClock
    /\ clock' = clock + 1
    /\ UNCHANGED <<fpc, requestVars, wire, out, fetcherVars, loaderVars, fetches, historyVars>>

------------------------------------------------------------------------------
FetchInit ==
    /\ fpc = "idle" /\ wire = None /\ out = NoOutcome
    /\ ctx = None /\ hop = None /\ visited = {}
    /\ jar = <<>> /\ preflights = <<>>
    /\ document = None /\ loaded = None
    /\ clock = 0 /\ fetches = 0
    /\ travel = NoTravel /\ grants = {}

Answers ==
    \E reply \in Replies :
        \/ PreflightGranted(reply) \/ PreflightRefused(reply)
        \/ Redirected(reply) \/ RedirectRefused(reply)
        \/ Finished(reply) \/ FinishRefused(reply)

FetchStep == HopDenied \/ HopAsks \/ HopSends \/ Answers \/ TransportFails

FetchNext ==
    \/ \E c \in Contexts, u \in Url \cup {Malformed} : fetch(c, u)
    \/ \E u \in Url : navigate(u)
    \/ \E dest \in {"Style", "Image", "Font"}, u \in Url : subresource(dest, u)
    \/ FetchStep
    \/ Tick

(* A call in progress goes on: an exchange that is neither answered nor    *)
(* broken ends at the timeouts fetch_request sets on its stream.           *)
FetchSpec == FetchInit /\ [][FetchNext]_fetchVars /\ WF_fetchVars(FetchStep)

------------------------------------------------------------------------------
(* Properties. *)

(* What goes out on the wire, on every hop of every fetch, whatever        *)
(* upgrades and redirects led to it.  A server reached through another's   *)
(* redirect never sees an Authorization header meant for the first, and    *)
(* sees the initiator's origin only if nobody foreign to the initiator     *)
(* sent the request across origins (secure.rs advance).  A cookie goes     *)
(* back only to the origin that set it, under a page of the same site      *)
(* (cookie.rs Jar, partition.rs).  A preloaded host is never asked in the  *)
(* clear, and by a page that is not itself in the clear only a page's own  *)
(* address and loopback hosts are (secure.rs hop, steps 1 to 3).           *)
NothingGoesAstray ==
    wire # None =>
        /\ "authorization" \in wire.headers => ~travel.elsewhere
        /\ wire.origin # None /\ wire.origin = initiator(ctx) => ~travel.crossed
        /\ \A c \in wire.cookies :
              /\ c.by.origin = from_url(wire.url)
              /\ RegistrableDomainOf[c.by.top] = RegistrableDomainOf[ctx.top.host]
        /\ wire.url.scheme = "http" =>
              /\ wire.url.host \notin Preloaded
              /\ \/ ctx.dest = "Navigation" \/ wire.url.host \in Loopback
                 \/ \A d \in {ctx.doc} \cup ctx.ancestors : ~trustworthy(d)

(* What a script may read was offered to it: every server along the way    *)
(* that is not the initiator's own, redirects included, admitted the       *)
(* origin the request came under.  (secure.rs hop and finish, cors.rs)     *)
ReadableIsAdmitted ==
    out.verdict = "ok" /\ out.taint # "opaque" /\ ctx.mode # "navigate" => ~travel.unadmitted

(* A request that needs leave has it: its method and each of its headers   *)
(* were granted to this origin in this partition for this URL, by a        *)
(* preflight of this very fetch or by one whose grant has not run out.     *)
(* (cors.rs PreflightCache, secure.rs hop step 7)                          *)
UnsafeIsGranted ==
    LET Standing == {g \in grants :
            /\ [g.about EXCEPT !.include = FALSE] =
                   [key |-> [site |-> RegistrableDomainOf[ctx.top.host],
                             origin |-> from_url(wire.url)],
                    origin |-> request_origin, id |-> opaque_id, url |-> wire.url,
                    include |-> FALSE]
            /\ g.about.include \/ ctx.cred # "include"
            /\ g.fetch = fetches \/ g.until > wire.at}
    IN  fpc = "sent" /\ wire.taint = "cors" =>
            /\ \/ is_safelisted_method(wire.method)
               \/ \E g \in Standing : g.methods \cap ({wire.method} \cup Wild(ctx)) # {}
            /\ \A h \in wire.headers : \E g \in Standing :
                   \/ h \in g.headers
                   \/ h # "authorization" /\ g.headers \cap Wild(ctx) # {}

(* Every fetch comes to an end, however the servers redirect it.           *)
(* (redirect.rs Chain)                                                     *)
FetchesEnd == (fpc # "idle") ~> (fpc = "idle")

(* A style sheet the page's policies let through, and whose server answers *)
(* it with a style sheet, is given to the page.  (browse.rs stylesheet)    *)
StyleSheetsLoad ==
    out.verdict = "ok" /\ ctx.loader /\ ctx.dest = "Style"
        /\ out.served = 200 /\ out.body = "plain" => loaded = "Ok"
=============================================================================
