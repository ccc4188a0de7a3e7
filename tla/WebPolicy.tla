------------------------------ MODULE WebPolicy ------------------------------
(***************************************************************************)
(* The verdicts the fetch path asks for, as pure operators: HSTS, mixed    *)
(* content, CSP, CORS, referrer, resource policy and framing (crates/      *)
(* px-websec), and the registrable domain and the cookie filters of        *)
(* crates/px-net.                                                          *)
(*                                                                         *)
(* A URL is a scheme (http or https), a host and a path, on the default    *)
(* port and without credentials; Malformed stands for every text that is   *)
(* not such a URL.  An origin is a scheme and a host, or Opaque (sent as   *)
(* "null"), which is the same as no other.  A header is absent or has one  *)
(* of the few values the verdicts tell apart; AnyOrigin is the value "*".  *)
(***************************************************************************)
EXTENDS Integers, Sequences, FiniteSets, Option

CONSTANTS
    Host, Path,
    RegistrableDomainOf,  \* the public suffix list: a host's site, or None
    Preloaded,            \* the hosts of the HSTS preload list
    Loopback              \* the hosts that are loopback names

Url == [scheme : {"http", "https"}, host : Host, path : Path]
Origins == [scheme : {"http", "https"}, host : Host]
Malformed == [scheme |-> "other", host |-> None, path |-> None]
Opaque == [scheme |-> "null", host |-> None]
AnyOrigin == [scheme |-> "*", host |-> None]

ASSUME WebPolicyAssumption ==
    /\ Preloaded \subseteq Host /\ Loopback \subseteq Host
    /\ DOMAIN RegistrableDomainOf = Host

from_url(u) == [scheme |-> u.scheme, host |-> u.host]

same_origin(a, b) == a = b /\ a # Opaque

(* An origin's site: its scheme and the registrable domain, or the host.   *)
SiteOf(o) ==
    [scheme |-> o.scheme,
     host |-> IF RegistrableDomainOf[o.host] = None THEN o.host
                                                    ELSE RegistrableDomainOf[o.host]]

cross_site_for_cookies(top, o) == SiteOf(top) # SiteOf(o)

schemelessly_same_site(a, b) == SiteOf(a).host = SiteOf(b).host

upgraded_to_https(u) == [u EXCEPT !.scheme = "https"]

requires_https(u) == u.scheme = "http" /\ u.host \in Preloaded

------------------------------------------------------------------------------
(* Mixed content. *)

trustworthy(u) == u.scheme = "https" \/ u.host \in Loopback

OptionallyBlockable == {"Image", "Audio", "Video"}

prohibits_mixed(c) == \E d \in {c.doc} \cup c.ancestors : trustworthy(d)

is_secure_context(c) == \A d \in {c.doc} \cup c.ancestors : trustworthy(d)

(* The URL to request, or None to refuse.  IP addresses are not among the  *)
(* hosts.                                                                  *)
check_mixed(c, u) ==
    IF c.dest = "Navigation" \/ ~prohibits_mixed(c) \/ trustworthy(u) THEN u
    ELSE IF c.dest \in OptionallyBlockable THEN upgraded_to_https(u)
    ELSE None

------------------------------------------------------------------------------
(* Content security policy: the directive that governs the destination is  *)
(* a set of sources or None, and two directives that are flags.  A source  *)
(* is Self or a host with a path (None: every path).                       *)

Self == [host |-> None, path |-> None]
NoPolicy == [upgrade |-> FALSE, block |-> FALSE, sources |-> None]

scheme_part_matches(policy, scheme) == policy = scheme \/ policy = "http"

expr_matches_url(s, u, o, redirects) ==
    /\ scheme_part_matches(o.scheme, u.scheme)
    /\ \/ s = Self /\ u.host = o.host
       \/ /\ s.host = u.host
          /\ s.path \in {None, u.path} \/ redirects > 0

csp_allows(c, u, redirects) ==
    c.dest # "Navigation" /\ c.csp.sources # None =>
        \E s \in c.csp.sources : expr_matches_url(s, u, from_url(c.doc), redirects)

blocks_mixed_content(c, u) == c.csp.block /\ is_secure_context(c) /\ ~trustworthy(u)

is_navigation(dest) == dest \in {"Navigation", "Iframe"}

(* upgrade-insecure-requests leaves cross-origin navigations alone.        *)
upgrade_insecure_url(c, u) ==
    c.csp.upgrade /\ (is_navigation(c.dest) => same_origin(from_url(u), from_url(c.doc)))

------------------------------------------------------------------------------
(* CORS. *)

(* Mutant: the initiator's own servers are trusted whatever led there. *)
taint_of_Home(c, u, origin) ==
    IF c.mode = "navigate" \/ same_origin(from_url(u), from_url(c.doc)) THEN "basic"
    ELSE CASE c.mode = "same-origin" -> None
           [] c.mode = "no-cors" -> "opaque"
           [] OTHER -> "cors"

(* The tainting of a request for u that carries origin, or None where the  *)
(* request may not be made at all.                                         *)
taint_of(c, u, origin) ==
    IF c.mode = "navigate" \/ same_origin(from_url(u), origin) THEN "basic"
    ELSE CASE c.mode = "same-origin" -> None
           [] c.mode = "no-cors" -> "opaque"
           [] OTHER -> "cors"

is_safelisted_method(m) == m \in {"GET", "HEAD", "POST"}

(* The author headers of the model are all unsafe ones. *)
preflighted(c, method, headers) ==
    ~is_safelisted_method(method) \/ headers # {} \/ c.flag

cors_check(c, origin, reply) ==
    /\ reply.acao # None
    /\ \/ c.cred # "include" /\ reply.acao = AnyOrigin
       \/ /\ reply.acao = origin
          /\ c.cred = "include" => reply.acac

Wild(c) == IF c.cred = "include" THEN {} ELSE {"*"}

(* What a preflight response grants: its methods, where a request that     *)
(* only asked because of its flag is granted its own.                      *)
granted_methods(c, method, reply) ==
    IF reply.methods = None THEN IF c.flag THEN {method} ELSE {}
                            ELSE reply.methods

validate_preflight(c, origin, method, headers, reply) ==
    /\ cors_check(c, origin, reply)
    /\ reply.status = 200
    /\ \/ is_safelisted_method(method)
       \/ granted_methods(c, method, reply) \cap ({method} \cup Wild(c)) # {}
    /\ "authorization" \in headers => "authorization" \in reply.headers
    /\ headers \subseteq reply.headers \/ reply.headers \cap Wild(c) # {}

------------------------------------------------------------------------------
(* Referrer policy: the whole document URL, its origin, or nothing. *)

compute_referrer(doc, policy, u) ==
    LET same == from_url(doc) = from_url(u)
        downgrade == trustworthy(doc) /\ ~trustworthy(u)
        Full(sent) == IF sent THEN "full" ELSE None
        Short(sent) == IF sent THEN "origin" ELSE None
    IN  CASE policy = "no-referrer" -> None
          [] policy = "origin" -> "origin"
          [] policy = "unsafe-url" -> "full"
          [] policy = "strict-origin" -> Short(~downgrade)
          [] policy = "strict-origin-when-cross-origin" ->
                 IF same THEN "full" ELSE Short(~downgrade)
          [] policy = "origin-when-cross-origin" -> IF same THEN "full" ELSE "origin"
          [] policy = "same-origin" -> Full(same)
          [] policy = "no-referrer-when-downgrade" -> Full(~downgrade)

DefaultReferrerPolicy == "strict-origin-when-cross-origin"

------------------------------------------------------------------------------
(* Resource policy and framing. *)

corp_internal(o, embedder, u, corp, include, navigation) ==
    LET demanded == \/ embedder = "require-corp"
                    \/ embedder = "credentialless" /\ (include \/ navigation)
        policy == IF corp = None /\ demanded THEN "same-origin" ELSE corp
    IN  \/ navigation /\ embedder = "unsafe-none"
        \/ policy \in {None, "cross-origin"}
        \/ policy = "same-origin" /\ o = from_url(u)
        \/ /\ policy = "same-site"
           /\ schemelessly_same_site(o, from_url(u))
           /\ o.scheme = "https" \/ u.scheme # "https"

corp_check(o, embedder, u, corp, include, navigation) ==
    /\ corp_internal(o, "unsafe-none", u, corp, include, navigation)
    /\ corp_internal(o, embedder, u, corp, include, navigation)

(* Subframes are checked always, other requests when the response is       *)
(* opaque.                                                                 *)
resource_policy_allows(c, u, taint, reply) ==
    \/ c.dest # "Iframe" /\ taint # "opaque"
    \/ corp_check(from_url(c.doc), c.coep, u, reply.corp, c.cred = "include", c.dest = "Iframe")

(* X-Frame-Options, unless frame-ancestors is there and decides; a frame   *)
(* under an embedder policy needs one of its own.                          *)
check_xfo(c, u, xfo) ==
    \/ xfo = None
    \/ xfo = "sameorigin" /\ \A d \in {c.doc} \cup c.ancestors : from_url(d) = from_url(u)

embedding_allowed(c, u, reply) ==
    \/ reply.frame_ancestors = "Allowed"
    \/ reply.frame_ancestors = "Absent" /\ check_xfo(c, u, reply.xfo)

coep_navigation_check(c, reply) == c.coep = "unsafe-none" \/ reply.coep # "unsafe-none"

framing_allows(c, u, reply) ==
    c.dest = "Iframe" => embedding_allowed(c, u, reply) /\ coep_navigation_check(c, reply)

(* Subresource integrity: opaque responses are not eligible. *)
integrity_allows(c, taint, reply) ==
    c.integrity # None => taint # "opaque" /\ reply.body = c.integrity

------------------------------------------------------------------------------
(* Cookies: a name, SameSite, Secure, a path, whether the header is well   *)
(* formed, and whether its Max-Age had passed when it was set.             *)

parse_cookie(o, cookie) ==
    /\ cookie.valid
    /\ cookie.same_site = "None" => cookie.secure
    /\ cookie.secure => o.scheme = "https"

cookie_matches(cookie, o, path, cross_site) ==
    /\ ~cookie.expired
    /\ cookie.path \in {"/", path}
    /\ cookie.secure => o.scheme = "https"
    /\ cross_site => cookie.same_site = "None"
=============================================================================
