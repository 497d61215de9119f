---------------------------- MODULE ImageRequest ----------------------------
(***************************************************************************)
(* An image request to the Cloudflare worker: packages/cloudflare/src/cli/ *)
(* templates/images.ts, "/_next/image" with its three parameters and       *)
(* "/cdn-cgi/image/" of a development server.  What the parameters are,    *)
(* what the other server does and what the bytes of the image are is       *)
(* chosen; what is followed is the fetches and the answer.  Its lines of   *)
(* patterns and magic bytes are the choice of a kind.                      *)
(***************************************************************************)
EXTENDS Integers

CONSTANT MaxRedirects  \* __IMAGES_MAX_REDIRECTS__

ASSUME ImageAssumption == MaxRedirects \in Nat

VARIABLES
    route,    \* "next" or "cdn"
    query,    \* the parameters of the request
    bindings, \* which of ASSETS and IMAGES the worker has
    svg,      \* __IMAGES_ALLOW_SVG__
    step,     \* where the handler is
    left,     \* maxRedirectCount of the next fetch
    kind,     \* the type of the image that was found
    status,   \* the status of the answer, "none" before
    output    \* the type of the image in the answer

imageVars == <<route, query, bindings, svg, step, left, kind, status, output>>

\* What validateUrlQueryParameter tells apart.
Locals == {"local", "media"}
Urls == Locals \cup {"remote", "absent", "twice", "refused", "broken"}
\* ... and the validation of the width and the quality.
Numbers == {"listed", "absent", "twice", "malformed", "unlisted"}

Transformable == {"avif", "webp", "jpeg", "png"}
Kinds == Transformable \cup {"gif", "svg", "heic", "other", "unknown"}
Formats == {"avif", "webp"}

ImageInit ==
    /\ route \in {"next", "cdn"}
    /\ query \in [url : Urls, width : Numbers, quality : Numbers, format : Formats \cup {"none"}]
    /\ route = "cdn" => query.width = "listed" /\ query.quality = "listed" /\ query.format = "none"
    /\ bindings \in SUBSET {"assets", "images"}
    /\ svg \in BOOLEAN
    /\ step = "parse"
    /\ left = MaxRedirects
    /\ kind = "none"
    /\ status = "none"
    /\ output = "none"

RequestKept == UNCHANGED <<route, query, bindings, svg>>

ImageAnswer(s, type) ==
    /\ step' = "done"
    /\ status' = s
    /\ output' = type
    /\ RequestKept
    /\ UNCHANGED <<left, kind>>

\* The promise of the handler is rejected.
Rejects ==
    /\ step' = "rejected"
    /\ RequestKept
    /\ UNCHANGED <<left, kind, status, output>>

ImageGoTo(s) ==
    /\ step' = s
    /\ RequestKept
    /\ UNCHANGED <<left, kind, status, output>>

----------------------------------------------------------------------------

\* parseImageRequest or parseCdnCgiImageRequest refuses the parameters.
RefuseParameters ==
    /\ step = "parse"
    /\ \/ query.url \in {"absent", "twice", "refused"}
       \/ query.url # "broken" /\ (query.width # "listed" \/ query.quality # "listed")
    /\ ImageAnswer("400", "none")

\* A path with an escape that does not decode: decodeURIComponent throws, and
\* nobody catches.
ParseThrows ==
    /\ step = "parse"
    /\ route = "next"
    /\ query.url = "broken"
    /\ Rejects

\* "broken" is no error for a development server, which does not decode.
Accepted ==
    /\ query.url \in Locals \cup {"remote"} \cup (IF route = "cdn" THEN {"broken"} ELSE {})
    /\ query.width = "listed"
    /\ query.quality = "listed"

WithoutAssets ==
    /\ step = "parse"
    /\ Accepted
    /\ query.url # "remote"
    /\ "assets" \notin bindings
    /\ ImageAnswer("404", "none")

FetchAsset ==
    /\ step = "parse"
    /\ Accepted
    /\ query.url # "remote"
    /\ "assets" \in bindings
    /\ \/ ImageGoTo("response")
       \/ Rejects

FetchRemote ==
    /\ step = "parse"
    /\ Accepted
    /\ query.url = "remote"
    /\ ImageGoTo("fetch")

\* fetchWithRedirects: one fetch.  A development server calls fetch, which
\* follows redirects by itself.
Fetched ==
    /\ step = "fetch"
    /\ RequestKept

FetchAnswered ==
    /\ Fetched
    /\ step' = "response"
    /\ UNCHANGED <<left, kind, status, output>>

\* Its timeout or another error; only the former is an answer.
FetchFails ==
    /\ Fetched
    /\ \/ route = "next" /\ step' = "done" /\ status' = "504"
       \/ step' = "rejected" /\ UNCHANGED status
    /\ UNCHANGED <<left, kind, output>>

\* Mutant: the limit is met one redirect later.
OneMore == left < 0
NoneLeft == left < 1

Redirected ==
    /\ route = "next"
    /\ Fetched
    /\ IF NoneLeft
       THEN step' = "done" /\ status' = "508" /\ UNCHANGED left
       ELSE left' = left - 1 /\ UNCHANGED <<step, status>>
    /\ UNCHANGED <<kind, output>>

\* The response is not ok or has no body: its status is passed on.
UpstreamInvalid ==
    /\ step = "response"
    /\ ImageAnswer("upstream", "none")

\* readImageHeader: the first bytes of one branch tell the type.
ReadHeader ==
    /\ step = "response"
    /\ kind' \in Kinds
    /\ step' = "header"
    /\ RequestKept
    /\ UNCHANGED <<left, status, output>>

\* There are none: the body, which is locked by its branches, cannot be
\* cancelled; or the read fails, by the timeout of the fetch too.
ReadFails ==
    /\ step = "response"
    /\ Rejects

\* What is answered with as it is, and what with the status 400.
AsIs == IF route = "cdn" THEN {"jpeg", "png", "gif", "webp", "svg", "heic"} ELSE Kinds \ {"unknown"}

RefuseType ==
    /\ step = "header"
    /\ kind \in AsIs => kind = "svg" /\ ~svg
    /\ ImageAnswer("400", "none")

Transforms == route = "next" /\ "images" \in bindings /\ kind \in Transformable \cup {"gif"}

PassImage ==
    /\ step = "header"
    /\ kind \in AsIs
    /\ kind = "svg" => svg
    /\ ~Transforms
    /\ ImageAnswer("200", kind)

\* The format that the client accepts goes before the one of the image, but for
\* a GIF, which may be animated.
TransformImage ==
    /\ step = "header"
    /\ Transforms
    /\ \/ ImageAnswer("200", IF query.format # "none" /\ kind # "gif" THEN query.format ELSE kind)
       \/ Rejects

ImageNext ==
    \/ RefuseParameters \/ ParseThrows \/ WithoutAssets \/ FetchAsset \/ FetchRemote
    \/ FetchAnswered \/ FetchFails \/ Redirected \/ UpstreamInvalid
    \/ ReadHeader \/ ReadFails \/ RefuseType \/ PassImage \/ TransformImage

ImageSpec == ImageInit /\ [][ImageNext]_imageVars

----------------------------------------------------------------------------
(* Properties *)

\* Among the types: no redirect is followed beyond the limit.
ImageTypeOK ==
    /\ route \in {"next", "cdn"}
    /\ query \in [url : Urls, width : Numbers, quality : Numbers, format : Formats \cup {"none"}]
    /\ bindings \subseteq {"assets", "images"}
    /\ svg \in BOOLEAN
    /\ step \in {"parse", "fetch", "response", "header", "done", "rejected"}
    /\ left \in 0 .. MaxRedirects
    /\ kind \in Kinds \cup {"none"}
    /\ status \in {"none", "200", "400", "404", "504", "508", "upstream"}
    /\ output \in Kinds \cup {"none"}

=============================================================================
