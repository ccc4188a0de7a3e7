------------------------------- MODULE MCFetch -------------------------------
(***************************************************************************)
(* Instance of the fetch path for TLC: two sites, one on the preload list, *)
(* pages on both, and the requests a page's element, frame or script may   *)
(* make.                                                                   *)
(***************************************************************************)
EXTENDS Fetch

MCHost == {"a", "b"}
MCRegistrableDomainOf == [h \in MCHost |-> h]

At(scheme, host) == [scheme |-> scheme, host |-> host, path |-> "/"]
Page == At("https", "a")
Frame == At("https", "b")

(* fetch() with an Authorization header and credentials, and with a header *)
(* of the page's own; a frame inside a frame under an embedder policy; a   *)
(* script with integrity metadata; a picture of a page on another site;    *)
(* and a method no page may use.                                           *)
Plainly(u, dest) == [top_level_document(u, dest) EXCEPT !.loader = FALSE]
MCContexts ==
    {[Plainly(Page, "Fetch") EXCEPT !.cred = "include", !.method = "PUT",
                                    !.headers = {"authorization"}],
     [Plainly(Page, "Fetch") EXCEPT !.method = "POST", !.headers = {"x"}],
     [Plainly(Page, "Fetch") EXCEPT !.mode = "same-origin", !.csp.block = TRUE],
     [Plainly(Frame, "Iframe") EXCEPT !.ancestors = {Page},
                                      !.top = from_url(Page), !.coep = "require-corp"],
     [Plainly(Page, "Script") EXCEPT !.cred = "include", !.integrity = "plain"],
     [Plainly(Frame, "Image") EXCEPT !.cred = "include"],
     [Plainly(Page, "Fetch") EXCEPT !.method = "TRACE"]}

Plain ==
    [status |-> 200, location |-> None, acao |-> None, acac |-> FALSE,
     methods |-> None, headers |-> {}, age |-> 0, corp |-> None, xfo |-> None,
     frame_ancestors |-> "Absent", coep |-> "unsafe-none", body |-> "plain",
     cookie |-> None, policy |-> None, csp |-> NoPolicy]

Cookie == [name |-> "n", same_site |-> "None", secure |-> TRUE, path |-> "/",
           valid |-> TRUE, expired |-> FALSE]

Admitting == {[Plain EXCEPT !.acao = from_url(Page), !.acac = TRUE],
              [Plain EXCEPT !.acao = AnyOrigin], [Plain EXCEPT !.acao = Opaque]}

Granting ==
    {[r EXCEPT !.methods = {"PUT"}, !.headers = h, !.age = 1] :
        r \in Admitting, h \in {{"authorization"}, {"*"}}}

Bodies == {[Plain EXCEPT !.body = "picture", !.cookie = Cookie],
           [Plain EXCEPT !.body = "empty", !.corp = "same-origin"],
           [Plain EXCEPT !.status = 404]}

Framing == {[Plain EXCEPT !.coep = "require-corp", !.corp = "cross-origin"],
            [Plain EXCEPT !.coep = "require-corp", !.corp = "same-site", !.xfo = "sameorigin"]}

Documents == {[Plain EXCEPT !.csp.sources = {Self}, !.policy = "unsafe-url"],
              [Plain EXCEPT !.csp.upgrade = TRUE]}

Relative == [scheme |-> None, host |-> None, path |-> "/"]

Redirecting ==
    {[r EXCEPT !.status = 307, !.location = l] :
        r \in {Plain} \cup Admitting, l \in {Page, At("http", "a"), Frame}}
    \cup {[Plain EXCEPT !.status = 302, !.acao = AnyOrigin, !.location = l] :
        l \in {Page, Frame, Relative, Malformed}}

MCReplies == {Plain} \cup Admitting \cup Granting \cup Bodies \cup Framing \cup Documents
             \cup Redirecting
=============================================================================
