-------------------------- MODULE RequestPipeline --------------------------
(***************************************************************************)
(* One request from its arrival to its answer: the routing handler, the    *)
(* middleware, the cache interceptor and the handlers of routes of         *)
(* packages/core/src/core, either in one function or with the middleware   *)
(* in front of it (adapters/middleware.ts, Cloudflare's worker.ts).        *)
(*                                                                         *)
(* What the configuration, the application and the stores of the request   *)
(* do is chosen; what is followed is where the request goes, the response  *)
(* headers the routes and the middleware gave, the branch of the body that *)
(* is kept for the handler, and how often the head of the answer is sent.  *)
(***************************************************************************)
EXTENDS Integers

VARIABLES
    external,  \* whether the middleware is a function of its own
    method,
    purpose,   \* visit, revalidate (x-isr, x-prerender-revalidate), or bypass
               \* (next-action, next-resume, preview cookies)
    stage,     \* the code that has the request
    target,    \* what the handler is to answer it with
    entry,     \* the kind of the cache entry, or none
    routed,    \* whether response headers were given
    carried,   \* whether the request that is passed on carries them
    branch,    \* the branch of the body that the middleware does not read
    heads,     \* how often the head of the answer was sent
    from,      \* what the answer is
    headers,   \* whether it has the response headers
    thrown     \* history: the stages in which an error was thrown

pipelineVars ==
    <<external, method, purpose, stage, target, entry, routed, carried, branch, heads, from, headers, thrown>>

Methods == {"GET", "HEAD", "POST"}

PipelineInit ==
    /\ external \in BOOLEAN
    /\ method \in Methods
    /\ purpose \in {"visit", "revalidate", "bypass"}
    /\ stage = "routing"
    /\ target = "none"
    /\ entry = "none"
    /\ routed = FALSE
    /\ carried = FALSE
    /\ branch = "none"
    /\ heads = 0
    /\ from = "none"
    /\ headers = FALSE
    /\ thrown = {}

\* An answer that is complete before its head is sent.
AnswerWith(source, withHeaders) ==
    /\ stage' = "done"
    /\ from' = source
    /\ headers' = withHeaders
    /\ heads' = 1
    /\ UNCHANGED <<external, method, purpose>>

GoTo(s) ==
    /\ stage' = s
    /\ UNCHANGED <<external, method, purpose, heads, from, headers>>

\* createRoutingResult
PassOn(t) == target' = t /\ GoTo("handling")

\* Mutant: nobody cancels the branch of the handler.
LeaveBranch == UNCHANGED branch
\* cancelForwardedBody
CancelBranch == branch' = IF branch = "held" THEN "cancelled" ELSE branch
ForwardBranch == branch' = IF branch = "held" THEN "forwarded" ELSE branch

----------------------------------------------------------------------------
(* routingHandler *)

\* A priority redirect, or data of another build.
AnswerAtOnce ==
    /\ stage = "routing"
    /\ \E source \in {"redirect", "notFound"} : AnswerWith(source, FALSE)
    /\ UNCHANGED <<target, entry, routed, carried, branch, thrown>>

\* resolveRoutes, without the middleware: no matcher fits, or the request is the
\* revalidation of a page.
SkipMiddleware ==
    /\ stage = "routing"
    /\ GoTo("resolving")
    /\ UNCHANGED <<target, entry, routed, carried, branch, thrown>>

\* The body of the request is split; the middleware reads one branch.  Routes that
\* come before the middleware may have given response headers.
RunMiddleware ==
    /\ stage = "routing"
    /\ purpose # "revalidate"
    /\ routed' \in BOOLEAN
    /\ branch' = IF method = "POST" THEN "held" ELSE "none"
    /\ GoTo("middleware")
    /\ UNCHANGED <<target, entry, carried, thrown>>

\* The middleware's own response, which is returned as it is; or its headers and the
\* route that follows.
MiddlewareAnswers ==
    /\ stage = "middleware"
    /\ AnswerWith("middleware", FALSE)
    /\ CancelBranch
    /\ UNCHANGED <<target, entry, routed, carried, thrown>>

MiddlewareContinues ==
    /\ stage = "middleware"
    /\ GoTo("resolving")
    /\ UNCHANGED <<target, entry, routed, carried, branch, thrown>>

\* Mutant: headers are not added to the event of a page that is not found.
CarriesToFound(t) == t # "404"
\* applyResponseHeaders: under a prefix, on the event that is passed on.
Carries(t) == TRUE

\* resolveRoutes is done: a redirect, a rewrite to elsewhere, nothing, or a
\* target; routed tells whether it has response headers.
Redirects ==
    /\ stage = "resolving"
    /\ routed' \in {routed, TRUE}
    /\ AnswerWith("redirect", routed')
    /\ CancelBranch
    /\ UNCHANGED <<target, entry, carried, thrown>>

Elsewhere ==
    /\ stage = "resolving"
    /\ routed' \in {routed, TRUE}
    /\ \E t \in {"external", "404"} : PassOn(t) /\ carried' = (routed' /\ Carries(t))
    /\ ForwardBranch
    /\ UNCHANGED <<entry, thrown>>

FindsTarget ==
    /\ stage = "resolving"
    /\ routed' \in {routed, TRUE}
    /\ GoTo("target")
    /\ UNCHANGED <<target, entry, carried, branch, thrown>>

\* maybeGetAssetResult has an asset; a GET whose asset has no body, as with 304,
\* is given a stream that never closes.
AssetFound ==
    /\ stage = "target"
    /\ method # "POST"
    /\ \E source \in {"asset", "endless"} : (source = "endless" => method = "GET") /\ AnswerWith(source, routed)
    /\ CancelBranch
    /\ UNCHANGED <<target, entry, routed, carried, thrown>>

\* No asset, and the route index has no route of the target.
RouteUnknown ==
    /\ stage = "target"
    /\ PassOn("404")
    /\ carried' = (routed /\ Carries("404"))
    /\ ForwardBranch
    /\ UNCHANGED <<entry, routed, thrown>>

RouteKnown ==
    /\ stage = "target"
    /\ GoTo("intercepting")
    /\ UNCHANGED <<target, entry, routed, carried, branch, thrown>>

\* The catch of the routing handler: the page /500, with the incoming headers
\* and without a body.
RouteTo500 == PassOn("500")

RoutingThrows ==
    /\ stage \in {"middleware", "resolving", "target"}
    /\ RouteTo500
    /\ thrown' = thrown \cup {stage}
    /\ UNCHANGED <<entry, routed, carried, branch>>

----------------------------------------------------------------------------
(* cacheInterceptor *)

Intercepts == method = "GET" /\ purpose = "visit"

\* The request is passed to its route: it is not to be intercepted, the route is
\* not in the prerender manifest, or the cache has nothing or fails.
PassToRoute ==
    /\ stage = "intercepting"
    /\ PassOn("route")
    /\ carried' = (routed /\ Carries("route"))
    /\ ForwardBranch
    /\ UNCHANGED <<entry, routed, thrown>>

FindsEntry ==
    /\ stage = "intercepting"
    /\ Intercepts
    /\ entry' \in {"page", "redirect", "route", "postponed"}
    /\ GoTo("entry")
    /\ UNCHANGED <<target, routed, carried, branch, thrown>>

\* generateResult or computeCacheControl, which sends a message for a stale one.
AnswerFromCache ==
    /\ stage = "entry"
    /\ entry # "postponed"
    /\ AnswerWith("cache", routed)
    /\ CancelBranch
    /\ UNCHANGED <<target, entry, routed, carried, thrown>>

\* The answer of a page is returned without an await, out of reach of the catch.
Awaited(e) == e \in {"redirect", "route"}

\* The queue refuses the message.  The catch of the interceptor passes the
\* request to its route, the one of the routing handler to the page /500.
QueueRefuses ==
    /\ stage = "entry"
    /\ entry # "postponed"
    /\ thrown' = thrown \cup {stage}
    /\ IF Awaited(entry)
       THEN PassOn("route") /\ carried' = (routed /\ Carries("route")) /\ ForwardBranch
       ELSE RouteTo500 /\ UNCHANGED <<carried, branch>>
    /\ UNCHANGED <<entry, routed>>

\* createPprPartialResult: the shell of the page, and a request to resume it
\* whose body is not the incoming one.
AnswerPartially ==
    /\ stage = "entry"
    /\ entry = "postponed"
    /\ PassOn("resume")
    /\ carried' = (routed /\ Carries("resume"))
    /\ UNCHANGED <<entry, routed, branch, thrown>>

----------------------------------------------------------------------------
(* openNextHandler, and the middleware adapter in front of it *)

\* proxyExternalRequest
Proxied ==
    /\ stage = "handling"
    /\ target = "external"
    /\ AnswerWith("elsewhere", FALSE)
    /\ UNCHANGED <<target, entry, routed, carried, branch, thrown>>

\* The middleware adapter returns the promise of the proxy without an await: an
\* error is not caught there.
ProxyFails ==
    /\ stage = "handling"
    /\ target = "external"
    /\ thrown' = thrown \cup {"proxy"}
    /\ IF external THEN GoTo("failed") /\ UNCHANGED target ELSE PassOn("500")
    /\ UNCHANGED <<entry, routed, carried, branch>>

\* The head of the response, with the headers that the request carried.  Of a
\* page to resume it is the shell's head, which was given them directly.
SendHead(source) ==
    /\ heads' = heads + 1
    /\ from' = IF heads = 0 THEN source ELSE from
    /\ headers' = IF heads = 0 THEN carried ELSE headers
    /\ UNCHANGED <<external, method, purpose>>

\* The head of the response made for the rest of a page goes nowhere; what is
\* written to it is written to the answer that has the shell.
SendNoHead == UNCHANGED <<external, method, purpose, heads, from, headers>>

\* writeHead or the first write of the module of the route, or of an error page.
Respond(source) == IF target = "resume" THEN SendNoHead ELSE SendHead(source)

SendShell ==
    /\ stage = "handling"
    /\ target = "resume"
    /\ SendHead("shell")
    /\ stage' = "resuming"
    /\ UNCHANGED <<target, entry, routed, carried, branch, thrown>>

\* adapterHandler has no module of the route and returns: nobody ends the answer.
NoModule ==
    /\ \/ stage = "handling" /\ target = "route"
       \/ stage = "resuming"
    /\ GoTo("unended")
    /\ UNCHANGED <<target, entry, routed, carried, branch, thrown>>

\* A module has the request: of the route, of the rest of its page, or of an
\* error page.
InModule ==
    \/ stage = "handling" /\ target \in {"route", "404", "500"}
    \/ stage = "resuming"

Renders ==
    /\ InModule
    /\ Respond(target)
    /\ stage' = "done"
    /\ UNCHANGED <<target, entry, routed, carried, branch, thrown>>

\* It throws, and may have sent the head: handle500.
RenderThrows ==
    /\ InModule
    /\ Respond(target) \/ SendNoHead
    /\ stage' = "handling500"
    /\ thrown' = thrown \cup {stage}
    /\ UNCHANGED <<target, entry, routed, carried, branch>>

\* The module of the error page answers on the same response, whose head it may
\* send again.
RendersError ==
    /\ stage = "handling500"
    /\ target \in {"route", "resume"}
    /\ \/ Respond("500")
       \/ heads > 0 /\ SendNoHead
    /\ stage' = "done"
    /\ UNCHANGED <<target, entry, routed, carried, branch, thrown>>

\* There is no module for it, or it throws as well: a plain text ends the answer.
EndsPlainly ==
    /\ stage = "handling500"
    /\ IF heads = 0 THEN SendHead("plain") ELSE SendNoHead
    /\ stage' = "done"
    /\ UNCHANGED <<target, entry, routed, carried, branch, thrown>>

PipelineNext ==
    \/ AnswerAtOnce \/ SkipMiddleware \/ RunMiddleware \/ MiddlewareAnswers \/ MiddlewareContinues
    \/ Redirects \/ Elsewhere \/ FindsTarget \/ AssetFound \/ RouteUnknown \/ RouteKnown \/ RoutingThrows
    \/ PassToRoute \/ FindsEntry \/ AnswerFromCache \/ QueueRefuses \/ AnswerPartially
    \/ Proxied \/ ProxyFails \/ SendShell \/ NoModule \/ Renders \/ RenderThrows \/ RendersError \/ EndsPlainly

PipelineSpec == PipelineInit /\ [][PipelineNext]_pipelineVars

----------------------------------------------------------------------------
(* Properties *)

PipelineTypeOK ==
    /\ external \in BOOLEAN
    /\ method \in Methods
    /\ purpose \in {"visit", "revalidate", "bypass"}
    /\ stage \in {"routing", "middleware", "resolving", "target", "intercepting", "entry", "handling", "resuming",
                  "handling500", "done", "unended", "failed"}
    /\ target \in {"none", "external", "404", "500", "route", "resume"}
    /\ entry \in {"none", "page", "redirect", "route", "postponed"}
    /\ routed \in BOOLEAN
    /\ carried \in BOOLEAN
    /\ branch \in {"none", "held", "forwarded", "cancelled"}
    /\ heads \in 0 .. 2
    /\ from \in {"none", "redirect", "notFound", "middleware", "asset", "endless", "cache", "elsewhere", "shell",
                 "route", "404", "500", "plain"}
    /\ headers \in BOOLEAN
    /\ thrown \subseteq {"middleware", "resolving", "target", "entry", "proxy", "handling", "resuming"}

\* The response headers that the routes gave, before the middleware and after it,
\* and those of the middleware reach the client on whatever path the answer is made.
\* They are lost only where the answer is another server's, or the middleware's own,
\* which drops those of the routes before it, or the page /500 of an error in the
\* routing handler; and in the last two cases all of them are.
RoutedHeadersSent ==
    heads > 0 /\ routed =>
        (headers <=>
            /\ from \notin {"elsewhere", "middleware"}
            /\ thrown \cap {"middleware", "resolving", "target", "entry"} = {} \/ target # "500")

\* When the request has left the routing handler, the branch of its body that the
\* middleware did not read is cancelled or passed on, unless the routing threw.
BranchSettled ==
    branch = "held" /\ stage \in {"handling", "resuming", "handling500", "done"} =>
        target = "500" /\ thrown \cap {"middleware", "resolving", "target"} # {}

=============================================================================
