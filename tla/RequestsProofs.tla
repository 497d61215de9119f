--------------------------- MODULE RequestsProofs ---------------------------
(***************************************************************************)
(* Proofs about RequestContext, for any promises, with waitUntil and       *)
(* without, about IsrLoop, for any number of isolates and calls, about     *)
(* NodeResponse, for any cookies and any calls, about RequestPipeline, for *)
(* every request, and about ImageRequest, for any limit of redirects; and, *)
(* with those about BucketCachePurge, about the parts side by side.        *)
(***************************************************************************)
EXTENDS MCRequests, BucketCachePurgeProofs

-----------------------------------------------------------------------------
(* RequestContext *)

\* The initial state is well typed.
LEMMA ContextTypeInit == ContextInit => ContextTypeOK
  BY DEF ContextInit, ContextTypeOK

\* Every step keeps the state well typed.
LEMMA ContextTypeStep == ContextTypeOK /\ [ContextNext]_contextVars => ContextTypeOK'
<1> SUFFICES ASSUME ContextTypeOK, [ContextNext]_contextVars PROVE ContextTypeOK'
  OBVIOUS
<1> USE DEF ContextTypeOK
<1>1. ASSUME NEW w \in Works, AddToRunner(w) PROVE ContextTypeOK'
  BY <1>1 DEF AddToRunner
<1>2. ASSUME NEW w \in Works, After(w) PROVE ContextTypeOK'
  BY <1>1, <1>2 DEF After
<1>3. ASSUME NEW w \in Works, Settle(w) PROVE ContextTypeOK'
  BY <1>3 DEF Settle
<1>4. CASE HandlerEnds
  BY <1>4 DEF HandlerEnds, Snapshot
<1>5. CASE AwaitEnds
  BY <1>5 DEF AwaitEnds
<1>6. CASE PlatformStops
  BY <1>6 DEF PlatformStops
<1>7. CASE UNCHANGED contextVars
  BY <1>7 DEF contextVars
<1>8. QED
  BY <1>1, <1>2, <1>3, <1>4, <1>5, <1>6, <1>7 DEF ContextNext

\* The state of a request is well typed; what await() took is in the runner.
THEOREM ContextTyping == ContextSpec => []ContextTypeOK
  BY ContextTypeInit, ContextTypeStep, PTL DEF ContextSpec

\* A promise that was registered is the runner's or waitUntil's.  Once the handler
\* has ended, what is in the runner was taken by await() or came late; and what it
\* took is awaited before the request returns, or given to waitUntil.
Registered == \A w \in Works : work[w] = "none" <=> w \notin runner \cup kept

Taken == request # "running" => runner \subseteq awaited \cup late

Kept ==
    /\ waitUntil /\ request # "running" => awaited \subseteq kept
    /\ ~waitUntil => kept = {}
    /\ ~waitUntil /\ request \in {"returned", "stopped"} => Unsettled(awaited) = {}
    /\ request = "stopped" => Unsettled(kept) = {}

ContextInv == ContextTypeOK /\ Registered /\ Taken /\ Kept

\* Every step keeps the inductive invariant.
LEMMA ContextInvStep == ContextInv /\ [ContextNext]_contextVars => ContextInv'
<1> SUFFICES ASSUME ContextInv, [ContextNext]_contextVars PROVE (Registered /\ Taken /\ Kept)'
  BY ContextTypeStep DEF ContextInv
<1> USE DEF ContextInv, ContextTypeOK, Registered, Taken, Kept, Unsettled
<1>1. ASSUME NEW w \in Works, AddToRunner(w) PROVE (Registered /\ Taken /\ Kept)'
  BY <1>1 DEF AddToRunner, Active
<1>2. ASSUME NEW w \in Works, After(w) PROVE (Registered /\ Taken /\ Kept)'
  BY <1>1, <1>2 DEF After, Active
<1>3. ASSUME NEW w \in Works, Settle(w) PROVE (Registered /\ Taken /\ Kept)'
  BY <1>3 DEF Settle
<1>4. CASE HandlerEnds
  BY <1>4 DEF HandlerEnds, Snapshot
<1>5. CASE AwaitEnds
  BY <1>5 DEF AwaitEnds
<1>6. CASE PlatformStops
  BY <1>6 DEF PlatformStops
<1>7. CASE UNCHANGED contextVars
  BY <1>7 DEF contextVars
<1>8. QED
  BY <1>1, <1>2, <1>3, <1>4, <1>5, <1>6, <1>7 DEF ContextNext

\* A promise is cut off only when it was added to the runner after the handler had
\* ended.
THEOREM OnlyLateCut == ContextSpec => []CutOnlyWhenLate
<1>1. ContextInit => ContextInv
  BY ContextTypeInit DEF ContextInit, ContextInv, Registered, Taken, Kept
<1>2. ContextInv => CutOnlyWhenLate
  <2> SUFFICES ASSUME ContextInv, request = "stopped",
                      NEW w \in Works, work[w] = "pending"
               PROVE  w \in late
    BY DEF CutOnlyWhenLate, Unsettled
  <2>1. w \notin kept
    BY DEF ContextInv, Kept, Unsettled
  <2>2. w \in awaited \cup late
    BY <2>1 DEF ContextInv, Registered, Taken
  <2>3. w \notin awaited
    BY <2>1 DEF ContextInv, Kept, Unsettled
  <2>4. QED
    BY <2>2, <2>3
<1>3. QED
  BY <1>1, <1>2, ContextInvStep, PTL DEF ContextSpec

-----------------------------------------------------------------------------
(* IsrLoop *)

\* The state of the queue caches is well typed initially.
LEMMA LoopTypeInit == LoopInit => LoopTypeOK
<1> SUFFICES ASSUME LoopInit PROVE LoopTypeOK
  OBVIOUS
<1>1. current \in [Sends -> BOOLEAN]
  BY DEF LoopInit
<1>2. send \in [Sends -> {"idle", "matching", "putting", "storing", "sending", "revalidating"}]
  BY DEF LoopInit
<1>3. localCache \in [Isolates -> {"none", "young", "old"}]
  BY DEF LoopInit
<1>4. waitForQueueAck \in BOOLEAN /\ fresh \in BOOLEAN /\ regional \in BOOLEAN /\ requested \in BOOLEAN
  BY DEF LoopInit
<1>5. QED
  BY <1>1, <1>2, <1>3, <1>4 DEF LoopInit, LoopTypeOK

\* With waitForQueueAck, a message that is about to be cached, in a memory queue or
\* cached was sent; unless it is about a page that was rendered since.
AckedIsRequested ==
    waitForQueueAck =>
        /\ \A m \in Sends : current[m] /\ send[m] \in {"putting", "storing"} => requested
        /\ revalidatedPaths # {} => requested
        /\ regional => requested
        /\ \A i \in Isolates : localCache[i] # "none" => requested

\* A HEAD that is under way is about a message in the memory queue of its isolate.
HeadIsRequested ==
    \A m \in Sends : send[m] = "revalidating" /\ current[m] => requested

LoopInv == LoopTypeOK /\ AckedIsRequested /\ HeadIsRequested

\* Every step keeps the state well typed.
LEMMA LoopTypeStep == LoopTypeOK /\ [LoopNext]_loopVars => LoopTypeOK'
<1> SUFFICES ASSUME LoopTypeOK, [LoopNext]_loopVars PROVE LoopTypeOK'
  OBVIOUS
<1> USE DEF LoopTypeOK
<1>1. ASSUME GoesStale PROVE LoopTypeOK'
  BY <1>1 DEF GoesStale
<1>2. ASSUME NEW m \in Sends, Request(m) PROVE LoopTypeOK'
  BY <1>2 DEF Request, First, IsInLocal
<1>3. ASSUME NEW m \in Sends, Match(m) PROVE LoopTypeOK'
  BY <1>3 DEF Match, First, Done
<1>4. ASSUME NEW m \in Sends, PutLocal(m) PROVE LoopTypeOK'
  BY <1>4 DEF PutLocal
<1>5. ASSUME NEW m \in Sends, PutRegional(m) PROVE LoopTypeOK'
  BY <1>5 DEF PutRegional, Done
<1>6. ASSUME NEW m \in Sends, CacheFails(m) PROVE LoopTypeOK'
  BY <1>6 DEF CacheFails, Done
<1>7. ASSUME NEW m \in Sends, Deduplicate(m) PROVE LoopTypeOK'
  BY <1>7 DEF Deduplicate, IsRevalidated, Acked, Done
<1>8. ASSUME NEW m \in Sends, RequestHead(m) PROVE LoopTypeOK'
  BY <1>8 DEF RequestHead, IsRevalidated
<1>9. ASSUME NEW m \in Sends, HeadRenders(m) PROVE LoopTypeOK'
  BY <1>9 DEF HeadRenders
<1>10. ASSUME NEW m \in Sends, HeadEnds(m) PROVE LoopTypeOK'
  BY <1>10 DEF HeadEnds, DropRevalidated, Acked, Done
<1>11. ASSUME NEW i \in Isolates, LocalAges(i) PROVE LoopTypeOK'
  BY <1>11 DEF LocalAges
<1>12. ASSUME RegionalExpires PROVE LoopTypeOK'
  BY <1>12 DEF RegionalExpires
<1>13. CASE UNCHANGED loopVars
  BY <1>13 DEF loopVars
<1>14. QED
  BY <1>1, <1>2, <1>3, <1>4, <1>5, <1>6, <1>7, <1>8, <1>9, <1>10, <1>11, <1>12, <1>13 DEF LoopNext

\* Every step keeps the messages that are kept from the queue requested.
LEMMA LoopInvStep ==
    LoopInv /\ [LoopNext]_loopVars => (AckedIsRequested /\ HeadIsRequested)'
<1> SUFFICES ASSUME LoopInv, [LoopNext]_loopVars PROVE (AckedIsRequested /\ HeadIsRequested)'
  OBVIOUS
<1> USE DEF LoopInv, LoopTypeOK, AckedIsRequested, HeadIsRequested
<1>1. ASSUME GoesStale PROVE (AckedIsRequested /\ HeadIsRequested)'
  BY <1>1 DEF GoesStale
<1>2. ASSUME NEW m \in Sends, Request(m) PROVE (AckedIsRequested /\ HeadIsRequested)'
  BY <1>2 DEF Request, First, IsInLocal
<1>3. ASSUME NEW m \in Sends, Match(m) PROVE (AckedIsRequested /\ HeadIsRequested)'
  BY <1>3 DEF Match, First, Done
<1>4. ASSUME NEW m \in Sends, PutLocal(m) PROVE (AckedIsRequested /\ HeadIsRequested)'
  BY <1>4 DEF PutLocal
<1>5. ASSUME NEW m \in Sends, PutRegional(m) PROVE (AckedIsRequested /\ HeadIsRequested)'
  BY <1>5 DEF PutRegional, Done
<1>6. ASSUME NEW m \in Sends, CacheFails(m) PROVE (AckedIsRequested /\ HeadIsRequested)'
  BY <1>6 DEF CacheFails, Done
<1>7. ASSUME NEW m \in Sends, Deduplicate(m) PROVE (AckedIsRequested /\ HeadIsRequested)'
  BY <1>7 DEF Deduplicate, IsRevalidated, Acked, Done
<1>8. ASSUME NEW m \in Sends, RequestHead(m) PROVE (AckedIsRequested /\ HeadIsRequested)'
  BY <1>8 DEF RequestHead, IsRevalidated
<1>9. ASSUME NEW m \in Sends, HeadRenders(m) PROVE (AckedIsRequested /\ HeadIsRequested)'
  BY <1>9 DEF HeadRenders
<1>10. ASSUME NEW m \in Sends, HeadEnds(m) PROVE (AckedIsRequested /\ HeadIsRequested)'
  BY <1>10 DEF HeadEnds, DropRevalidated, Acked, Done
<1>11. ASSUME NEW i \in Isolates, LocalAges(i) PROVE (AckedIsRequested /\ HeadIsRequested)'
  BY <1>11 DEF LocalAges
<1>12. ASSUME RegionalExpires PROVE (AckedIsRequested /\ HeadIsRequested)'
  BY <1>12 DEF RegionalExpires
<1>13. CASE UNCHANGED loopVars
  BY <1>13 DEF loopVars
<1>14. QED
  BY <1>1, <1>2, <1>3, <1>4, <1>5, <1>6, <1>7, <1>8, <1>9, <1>10, <1>11, <1>12, <1>13 DEF LoopNext

\* The invariant holds in every state.
LEMMA LoopInvariant == LoopSpec => []LoopInv
<1>1. LoopInit => LoopInv
  BY LoopTypeInit DEF LoopInit, LoopInv, AckedIsRequested, HeadIsRequested
<1>2. LoopInv /\ [LoopNext]_loopVars => LoopInv'
  BY LoopTypeStep, LoopInvStep DEF LoopInv
<1>3. QED
  BY <1>1, <1>2, PTL DEF LoopSpec

\* The state of the messages and of what keeps them is well typed.
THEOREM LoopTyping == LoopSpec => []LoopTypeOK
<1>1. LoopInv => LoopTypeOK
  BY DEF LoopInv
<1>2. QED
  BY <1>1, LoopInvariant, PTL

\* A queue that does not take its messages does not silence a page: with waitForQueueAck
\* nothing keeps a message from it before HEAD was sent, in any number of isolates.
THEOREM NeverSilenced == LoopSpec => []QuietOnlyAfterHead
<1>1. LoopInv => QuietOnlyAfterHead
  BY DEF LoopInv, AckedIsRequested, QuietOnlyAfterHead
<1>2. QED
  BY <1>1, LoopInvariant, PTL

-----------------------------------------------------------------------------
(* NodeResponse *)

\* Lists of cookies are sequences, and so is what a head has.
LEMMA ListsAreSequences ==
    /\ CookieLists \subseteq Seq(Cookies)
    /\ \A list \in Seq(Cookies) : Merged(list) \in Seq(Cookies)
<1>1. CookieLists \subseteq Seq(Cookies)
  BY ResponseAssumption DEF CookieLists
<1>2. \A list \in Seq(Cookies) : Merged(list) \in Seq(Cookies)
  BY ResponseAssumption DEF Merged
<1>3. QED
  BY <1>1, <1>2

\* Before the head the cookies are the ones the handler asked for, and the header has
\* them where appendHeader looks for it.  The first head has the cookies that were
\* asked for then, and a later change is excused.
HeadInv ==
    /\ headersSent <=> sent # <<>>
    /\ sent = <<>> => cookies = asked /\ (cookies # <<>> => header = cookies)
    /\ ~excused /\ sent # <<>> => sent[1] = Merged(asked)
    /\ ~excused /\ Len(sent) = 1 => cookies = Merged(asked)

\* A head that is sent keeps the state well typed, and is the first or comes after it.
LEMMA FlushTyped ==
    ASSUME ResponseTypeOK, FlushHeaders
    PROVE  /\ header' \in Seq(Cookies) /\ cookies' \in Seq(Cookies)
           /\ sent' \in Seq(Seq(Cookies)) /\ headersSent' \in BOOLEAN
<1>1. Merged(cookies) \in Seq(Cookies)
  BY ListsAreSequences DEF ResponseTypeOK
<1>2. headersSent' \in BOOLEAN
  BY DEF FlushHeaders
<1>3. header' \in Seq(Cookies) /\ cookies' \in Seq(Cookies)
  BY <1>1 DEF FlushHeaders
<1>4. sent' \in Seq(Seq(Cookies))
  BY <1>1 DEF FlushHeaders, ResponseTypeOK
<1>5. QED
  BY <1>2, <1>3, <1>4

\* What the head that is sent has.
LEMMA FlushSends ==
    ASSUME ResponseTypeOK, HeadInv, FlushHeaders
    PROVE  /\ headersSent' /\ sent' # <<>>
           /\ sent = <<>> => Len(sent') = 1 /\ sent'[1] = Merged(asked) /\ cookies' = Merged(asked)
           /\ sent # <<>> => Len(sent') # 1 /\ sent'[1] = sent[1]
<1>1. Merged(cookies) \in Seq(Cookies) /\ sent \in Seq(Seq(Cookies))
  BY ListsAreSequences DEF ResponseTypeOK
<1>2. headersSent' /\ cookies' = Merged(cookies) /\ sent' = Append(sent, Merged(cookies))
  BY DEF FlushHeaders
<1>3. CASE sent = <<>>
  BY <1>1, <1>2, <1>3 DEF HeadInv
<1>4. CASE sent # <<>>
  BY <1>1, <1>2, <1>4
<1>5. QED
  BY <1>2, <1>3, <1>4

\* The response is well typed initially.
LEMMA ResponseTypeInit == ResponseInit => ResponseTypeOK
<1> SUFFICES ASSUME ResponseInit PROVE ResponseTypeOK
  OBVIOUS
<1>1. renderFirst \in BOOLEAN /\ headersSent \in BOOLEAN /\ ended \in BOOLEAN /\ excused \in BOOLEAN
  BY DEF ResponseInit
<1>2. header \in Seq(Cookies) /\ cookies \in Seq(Cookies) /\ asked \in Seq(Cookies) /\ sent \in Seq(Seq(Cookies))
  BY DEF ResponseInit
<1>3. QED
  BY <1>1, <1>2 DEF ResponseTypeOK

\* A call that changes the cookies keeps the invariant.
LEMMA SetKeeps ==
    ASSUME ResponseTypeOK, HeadInv, NEW list \in Seq(Cookies), SetTo(list), asked' = list
    PROVE  ResponseTypeOK' /\ HeadInv'
<1>1. excused' \in BOOLEAN
  BY DEF SetTo, ResponseTypeOK
<1>2. ResponseTypeOK'
  BY <1>1 DEF SetTo, ResponseTypeOK
<1>3. HeadInv'
  <2>1. CASE sent = <<>>
    BY <2>1 DEF SetTo, HeadInv
  <2>2. CASE sent # <<>>
    BY <2>2 DEF SetTo, HeadInv
  <2>3. QED
    BY <2>1, <2>2
<1>4. QED
  BY <1>2, <1>3

\* Every step keeps the invariant.
LEMMA ResponseStep ==
    ResponseTypeOK /\ HeadInv /\ [ResponseNext]_responseVars => (ResponseTypeOK /\ HeadInv)'
<1> SUFFICES ASSUME ResponseTypeOK, HeadInv, [ResponseNext]_responseVars
             PROVE  ResponseTypeOK' /\ HeadInv'
  OBVIOUS
<1>1. CASE SetCookie
  BY <1>1, SetKeeps, ListsAreSequences DEF SetCookie
<1>2. CASE AppendCookie
  <2>1. PICK c \in Cookies : SetTo(Append(Existing, c)) /\ asked' = Append(asked, c)
    BY <1>2 DEF AppendCookie
  <2>2. Append(Existing, c) \in Seq(Cookies) /\ Append(asked, c) \in Seq(Cookies)
    BY DEF ResponseTypeOK, Existing
  <2>3. CASE sent = <<>>
    <3>1. Existing = asked
      BY <2>3 DEF HeadInv, Existing
    <3>2. QED
      BY <2>1, <2>2, <3>1, SetKeeps
  <2>4. CASE sent # <<>>
    <3>1. excused'
      BY <2>1, <2>4 DEF SetTo, HeadInv
    <3>2. HeadInv'
      BY <2>1, <2>4, <3>1 DEF SetTo, HeadInv
    <3>3. ResponseTypeOK'
      BY <2>1, <2>2, <3>1 DEF SetTo, ResponseTypeOK
    <3>4. QED
      BY <3>2, <3>3
  <2>5. QED
    BY <2>3, <2>4
<1>3. CASE RemoveCookies
  <2>1. excused' \in BOOLEAN /\ <<>> \in Seq(Cookies)
    BY <1>3 DEF RemoveCookies, ResponseTypeOK
  <2>2. ResponseTypeOK'
    BY <1>3, <2>1 DEF RemoveCookies, ResponseTypeOK
  <2>3. HeadInv'
    <3>1. CASE sent = <<>>
      BY <1>3, <3>1 DEF RemoveCookies, HeadInv
    <3>2. CASE sent # <<>>
      BY <1>3, <3>2 DEF RemoveCookies, HeadInv
    <3>3. QED
      BY <3>1, <3>2
  <2>4. QED
    BY <2>2, <2>3
<1>4. CASE SendHeaders \/ WriteFirst
  <2>1. FlushHeaders /\ UNCHANGED <<renderFirst, ended, asked, excused>>
    BY <1>4 DEF SendHeaders, WriteFirst
  <2>2. ResponseTypeOK'
    BY <2>1, FlushTyped DEF ResponseTypeOK
  <2>3. Merged(asked)' = Merged(asked)
    BY <2>1 DEF Merged
  <2>4. HeadInv'
    BY <2>1, <2>3, FlushSends DEF HeadInv
  <2>5. QED
    BY <2>2, <2>4
<1>5. CASE WriteHeadWithCookies
  <2>1. ResponseTypeOK'
    BY <1>5, FlushTyped, ListsAreSequences DEF WriteHeadWithCookies, ResponseTypeOK
  <2>2. HeadInv'
    BY <1>5, FlushSends DEF WriteHeadWithCookies, HeadInv
  <2>3. QED
    BY <2>1, <2>2
<1>6. CASE EndResponse
  <2>1. CASE headersSent
    <3>1. ended' \in BOOLEAN
      BY <1>6 DEF EndResponse
    <3>2. ResponseTypeOK'
      BY <1>6, <2>1, <3>1 DEF EndResponse, ResponseTypeOK
    <3>3. HeadInv'
      BY <1>6, <2>1 DEF EndResponse, HeadInv, Merged
    <3>4. QED
      BY <3>2, <3>3
  <2>2. CASE ~headersSent
    <3>1. FlushHeaders /\ UNCHANGED <<renderFirst, asked, excused>> /\ ended' \in BOOLEAN
      BY <1>6, <2>2 DEF EndResponse
    <3>2. ResponseTypeOK'
      BY <3>1, FlushTyped DEF ResponseTypeOK
    <3>3. Merged(asked)' = Merged(asked)
      BY <3>1 DEF Merged
    <3>4. HeadInv'
      BY <3>1, <3>3, FlushSends DEF HeadInv
    <3>5. QED
      BY <3>2, <3>4
  <2>3. QED
    BY <2>1, <2>2
<1>7. CASE UNCHANGED responseVars
  BY <1>7 DEF responseVars, ResponseTypeOK, HeadInv, Merged
<1>8. QED
  BY <1>1, <1>2, <1>3, <1>4, <1>5, <1>6, <1>7 DEF ResponseNext

\* The invariant holds initially.
LEMMA ResponseInvInit == ResponseInit => ResponseTypeOK /\ HeadInv
  BY ResponseTypeInit DEF ResponseInit, HeadInv

\* The state of a response is well typed.
THEOREM ResponseTyping == ResponseSpec => []ResponseTypeOK
  BY ResponseInvInit, ResponseStep, PTL DEF ResponseSpec

\* The first head has the cookies of the middleware and those the handler asked for, in
\* their order, and so has a response that is converted at its end, whatever the
\* handler calls and in which order.
THEOREM CookiesAlwaysSent == ResponseSpec => []CookiesSent
<1>1. HeadInv => CookiesSent
  BY DEF HeadInv, CookiesSent
<1>2. QED
  BY <1>1, ResponseInvInit, ResponseStep, PTL DEF ResponseSpec

-----------------------------------------------------------------------------
(* RequestPipeline *)

Routing == {"routing", "middleware", "resolving"}
Before == Routing \cup {"target", "intercepting", "entry", "handling"}

\* How often the head was sent when a stage has the request.
HeadOnce ==
    /\ stage \in Before \cup {"failed"} => heads = 0
    /\ stage = "resuming" => heads = 1 /\ target = "resume"
    /\ stage \in {"handling500", "unended"} => heads <= 1

\* The page /500 of the routing handler, which has lost the headers.
Lost == target = "500" /\ thrown \cap {"middleware", "resolving", "target", "entry"} # {}

\* Nothing was thrown before the routing handler is left, nor headers given before the
\* first routes; the request that it passes on
\* carries the headers that the routes gave, and the page /500 of an error in it does not.
HeadersCarried ==
    /\ stage = "routing" => ~routed
    /\ stage \in Before \ {"handling"} => ~carried /\ thrown = {}
    /\ stage = "handling" /\ target = "external" => thrown = {}
    /\ stage \in {"handling", "resuming", "handling500"} /\ routed => (carried <=> ~Lost)
    /\ from \in {"elsewhere", "middleware"} => stage = "done"

\* Only a POST has a body to split, and no cached answer is made for it.
BranchOfPost ==
    /\ branch # "none" => method = "POST"
    /\ stage = "routing" => branch = "none"
    /\ stage = "entry" => method = "GET" /\ entry # "none"

PipelineInv ==
    /\ PipelineTypeOK
    /\ HeadOnce
    /\ HeadersCarried
    /\ BranchOfPost
    /\ RoutedHeadersSent
    /\ BranchSettled

\* Every step keeps the state well typed.
LEMMA PipelineTypeStep ==
    PipelineInv /\ [PipelineNext]_pipelineVars => (PipelineTypeOK /\ HeadOnce)'
<1> SUFFICES ASSUME PipelineInv, [PipelineNext]_pipelineVars PROVE (PipelineTypeOK /\ HeadOnce)'
  OBVIOUS
<1> USE DEF PipelineInv, PipelineTypeOK, HeadOnce, Before, Routing, Methods
<1>1. CASE AnswerAtOnce
  <2>1. headers' \in BOOLEAN
    BY <1>1, Zenon DEF AnswerAtOnce, AnswerWith
  <2>2. QED
    BY <1>1, <2>1 DEF AnswerAtOnce, AnswerWith
<1>2. CASE SkipMiddleware
  BY <1>2 DEF SkipMiddleware, GoTo
<1>3. CASE RunMiddleware
  BY <1>3 DEF RunMiddleware, GoTo
<1>4. CASE MiddlewareAnswers
  <2>1. headers' \in BOOLEAN
    BY <1>4, Zenon DEF MiddlewareAnswers, AnswerWith
  <2>2. QED
    BY <1>4, <2>1 DEF MiddlewareAnswers, AnswerWith, CancelBranch
<1>5. CASE MiddlewareContinues
  BY <1>5 DEF MiddlewareContinues, GoTo
<1>6. CASE Redirects
  <2>1. routed \in BOOLEAN /\ routed' \in {routed, TRUE}
    BY <1>6, Zenon DEF Redirects
  <2>2. routed' \in BOOLEAN
    BY <2>1, Zenon
  <2>3. headers' = routed'
    BY <1>6, Zenon DEF Redirects, AnswerWith
  <2>4. QED
    BY <1>6, <2>2, <2>3 DEF Redirects, AnswerWith, CancelBranch
<1>7. CASE Elsewhere
  <2>1. routed \in BOOLEAN /\ routed' \in {routed, TRUE}
    BY <1>7, Zenon DEF Elsewhere
  <2>2. routed' \in BOOLEAN
    BY <2>1, Zenon
  <2>3. carried' \in BOOLEAN
    BY <1>7, <2>2, Zenon DEF Elsewhere, Carries
  <2>4. QED
    BY <1>7, <2>2, <2>3 DEF Elsewhere, PassOn, GoTo, ForwardBranch
<1>8. CASE FindsTarget
  <2>1. routed \in BOOLEAN /\ routed' \in {routed, TRUE}
    BY <1>8, Zenon DEF FindsTarget
  <2>2. routed' \in BOOLEAN
    BY <2>1, Zenon
  <2>3. QED
    BY <1>8, <2>2 DEF FindsTarget, GoTo
<1>9. CASE AssetFound
  BY <1>9 DEF AssetFound, AnswerWith, CancelBranch
<1>10. CASE RouteUnknown
  BY <1>10 DEF RouteUnknown, PassOn, GoTo, Carries, ForwardBranch
<1>11. CASE RouteKnown
  BY <1>11 DEF RouteKnown, GoTo
<1>12. CASE RoutingThrows
  BY <1>12 DEF RoutingThrows, RouteTo500, PassOn, GoTo
<1>13. CASE PassToRoute
  BY <1>13 DEF PassToRoute, PassOn, GoTo, Carries, ForwardBranch
<1>14. CASE FindsEntry
  BY <1>14 DEF FindsEntry, Intercepts, GoTo
<1>15. CASE AnswerFromCache
  BY <1>15 DEF AnswerFromCache, AnswerWith, CancelBranch
<1>16. CASE QueueRefuses
  BY <1>16 DEF QueueRefuses, Awaited, RouteTo500, PassOn, GoTo, Carries, ForwardBranch
<1>17. CASE AnswerPartially
  BY <1>17 DEF AnswerPartially, PassOn, GoTo, Carries
<1>18. CASE Proxied
  <2>1. headers' \in BOOLEAN
    BY <1>18, Zenon DEF Proxied, AnswerWith
  <2>2. QED
    BY <1>18, <2>1 DEF Proxied, AnswerWith
<1>19. CASE ProxyFails
  BY <1>19 DEF ProxyFails, PassOn, GoTo
<1>20. CASE SendShell
  BY <1>20 DEF SendShell, SendHead
<1>21. CASE NoModule
  BY <1>21 DEF NoModule, GoTo
<1>22. CASE Renders
  BY <1>22 DEF Renders, InModule, Respond, SendHead, SendNoHead
<1>23. CASE RenderThrows
  BY <1>23 DEF RenderThrows, InModule, Respond, SendHead, SendNoHead
<1>24. CASE RendersError
  BY <1>24 DEF RendersError, Respond, SendHead, SendNoHead
<1>25. CASE EndsPlainly
  BY <1>25 DEF EndsPlainly, SendHead, SendNoHead
<1>26. CASE UNCHANGED pipelineVars
  BY <1>26 DEF pipelineVars
<1>27. QED
  BY <1>1, <1>2, <1>3, <1>4, <1>5, <1>6, <1>7, <1>8, <1>9, <1>10, <1>11, <1>12, <1>13, <1>14, <1>15,
     <1>16, <1>17, <1>18, <1>19, <1>20, <1>21, <1>22, <1>23, <1>24, <1>25, <1>26 DEF PipelineNext

\* Every step carries the headers of the routes on, or sends them.
LEMMA HeadersStep ==
    PipelineInv /\ [PipelineNext]_pipelineVars => (HeadersCarried /\ RoutedHeadersSent)'
<1> SUFFICES ASSUME PipelineInv, [PipelineNext]_pipelineVars PROVE (HeadersCarried /\ RoutedHeadersSent)'
  OBVIOUS
<1> USE DEF PipelineInv, PipelineTypeOK, HeadOnce, Before, Routing, Lost, HeadersCarried, RoutedHeadersSent
<1>1. CASE AnswerAtOnce
  BY <1>1 DEF AnswerAtOnce, AnswerWith
<1>2. CASE SkipMiddleware
  BY <1>2 DEF SkipMiddleware, GoTo
<1>3. CASE RunMiddleware
  BY <1>3 DEF RunMiddleware, GoTo
<1>4. CASE MiddlewareAnswers
  BY <1>4 DEF MiddlewareAnswers, AnswerWith, CancelBranch
<1>5. CASE MiddlewareContinues
  BY <1>5 DEF MiddlewareContinues, GoTo
<1>6. CASE Redirects
  BY <1>6 DEF Redirects, AnswerWith, CancelBranch
<1>7. CASE Elsewhere
  <2>1. routed' => carried'
    BY <1>7, Zenon DEF Elsewhere, Carries
  <2>2. target' \in {"external", "404"} /\ stage' = "handling" /\ heads' = heads /\ from' = from /\ thrown' = thrown
    BY <1>7 DEF Elsewhere, PassOn, GoTo
  <2>3. QED
    BY <1>7, <2>1, <2>2 DEF Elsewhere
<1>8. CASE FindsTarget
  BY <1>8 DEF FindsTarget, GoTo
<1>9. CASE AssetFound
  BY <1>9 DEF AssetFound, AnswerWith, CancelBranch
<1>10. CASE RouteUnknown
  BY <1>10 DEF RouteUnknown, PassOn, GoTo, Carries, ForwardBranch
<1>11. CASE RouteKnown
  BY <1>11 DEF RouteKnown, GoTo
<1>12. CASE RoutingThrows
  BY <1>12 DEF RoutingThrows, RouteTo500, PassOn, GoTo
<1>13. CASE PassToRoute
  BY <1>13 DEF PassToRoute, PassOn, GoTo, Carries, ForwardBranch
<1>14. CASE FindsEntry
  BY <1>14 DEF FindsEntry, Intercepts, GoTo
<1>15. CASE AnswerFromCache
  BY <1>15 DEF AnswerFromCache, AnswerWith, CancelBranch
<1>16. CASE QueueRefuses
  BY <1>16 DEF QueueRefuses, Awaited, RouteTo500, PassOn, GoTo, Carries, ForwardBranch
<1>17. CASE AnswerPartially
  BY <1>17 DEF AnswerPartially, PassOn, GoTo, Carries
<1>18. CASE Proxied
  BY <1>18 DEF Proxied, AnswerWith
<1>19. CASE ProxyFails
  BY <1>19 DEF ProxyFails, PassOn, GoTo
<1>20. CASE SendShell
  BY <1>20 DEF SendShell, SendHead
<1>21. CASE NoModule
  BY <1>21 DEF NoModule, GoTo
<1>22. CASE Renders
  BY <1>22 DEF Renders, InModule, Respond, SendHead, SendNoHead
<1>23. CASE RenderThrows
  BY <1>23 DEF RenderThrows, InModule, Respond, SendHead, SendNoHead
<1>24. CASE RendersError
  BY <1>24 DEF RendersError, Respond, SendHead, SendNoHead
<1>25. CASE EndsPlainly
  BY <1>25 DEF EndsPlainly, SendHead, SendNoHead
<1>26. CASE UNCHANGED pipelineVars
  BY <1>26 DEF pipelineVars
<1>27. QED
  BY <1>1, <1>2, <1>3, <1>4, <1>5, <1>6, <1>7, <1>8, <1>9, <1>10, <1>11, <1>12, <1>13, <1>14, <1>15,
     <1>16, <1>17, <1>18, <1>19, <1>20, <1>21, <1>22, <1>23, <1>24, <1>25, <1>26 DEF PipelineNext

\* Every step that takes the request out of the routing handler settles the branch.
LEMMA BranchStep ==
    PipelineInv /\ [PipelineNext]_pipelineVars => (BranchOfPost /\ BranchSettled)'
<1> SUFFICES ASSUME PipelineInv, [PipelineNext]_pipelineVars PROVE (BranchOfPost /\ BranchSettled)'
  OBVIOUS
<1> USE DEF PipelineInv, PipelineTypeOK, Methods, BranchOfPost, BranchSettled
<1>1. CASE AnswerAtOnce
  BY <1>1 DEF AnswerAtOnce, AnswerWith
<1>2. CASE SkipMiddleware
  BY <1>2 DEF SkipMiddleware, GoTo
<1>3. CASE RunMiddleware
  BY <1>3 DEF RunMiddleware, GoTo
<1>4. CASE MiddlewareAnswers
  BY <1>4 DEF MiddlewareAnswers, AnswerWith, CancelBranch
<1>5. CASE MiddlewareContinues
  BY <1>5 DEF MiddlewareContinues, GoTo
<1>6. CASE Redirects
  BY <1>6 DEF Redirects, AnswerWith, CancelBranch
<1>7. CASE Elsewhere
  BY <1>7 DEF Elsewhere, PassOn, GoTo, Carries, ForwardBranch
<1>8. CASE FindsTarget
  BY <1>8 DEF FindsTarget, GoTo
<1>9. CASE AssetFound
  BY <1>9 DEF AssetFound, AnswerWith, CancelBranch
<1>10. CASE RouteUnknown
  BY <1>10 DEF RouteUnknown, PassOn, GoTo, Carries, ForwardBranch
<1>11. CASE RouteKnown
  BY <1>11 DEF RouteKnown, GoTo
<1>12. CASE RoutingThrows
  BY <1>12 DEF RoutingThrows, RouteTo500, PassOn, GoTo
<1>13. CASE PassToRoute
  BY <1>13 DEF PassToRoute, PassOn, GoTo, Carries, ForwardBranch
<1>14. CASE FindsEntry
  BY <1>14 DEF FindsEntry, Intercepts, GoTo
<1>15. CASE AnswerFromCache
  BY <1>15 DEF AnswerFromCache, AnswerWith, CancelBranch
<1>16. CASE QueueRefuses
  BY <1>16 DEF QueueRefuses, Awaited, RouteTo500, PassOn, GoTo, Carries, ForwardBranch
<1>17. CASE AnswerPartially
  BY <1>17 DEF AnswerPartially, PassOn, GoTo, Carries
<1>18. CASE Proxied
  BY <1>18 DEF Proxied, AnswerWith
<1>19. CASE ProxyFails
  BY <1>19 DEF ProxyFails, PassOn, GoTo
<1>20. CASE SendShell
  BY <1>20 DEF SendShell, SendHead
<1>21. CASE NoModule
  BY <1>21 DEF NoModule, GoTo
<1>22. CASE Renders
  BY <1>22 DEF Renders, InModule, Respond, SendHead, SendNoHead
<1>23. CASE RenderThrows
  BY <1>23 DEF RenderThrows, InModule, Respond, SendHead, SendNoHead
<1>24. CASE RendersError
  BY <1>24 DEF RendersError, Respond, SendHead, SendNoHead
<1>25. CASE EndsPlainly
  BY <1>25 DEF EndsPlainly, SendHead, SendNoHead
<1>26. CASE UNCHANGED pipelineVars
  BY <1>26 DEF pipelineVars
<1>27. QED
  BY <1>1, <1>2, <1>3, <1>4, <1>5, <1>6, <1>7, <1>8, <1>9, <1>10, <1>11, <1>12, <1>13, <1>14, <1>15,
     <1>16, <1>17, <1>18, <1>19, <1>20, <1>21, <1>22, <1>23, <1>24, <1>25, <1>26 DEF PipelineNext

\* The inductive invariant holds initially.
LEMMA PipelineInvInit == PipelineInit => PipelineInv
<1> SUFFICES ASSUME PipelineInit PROVE PipelineInv
  OBVIOUS
<1>1. routed \in BOOLEAN /\ carried \in BOOLEAN /\ headers \in BOOLEAN
  BY Zenon DEF PipelineInit
<1>2. PipelineTypeOK
  BY <1>1 DEF PipelineInit, PipelineTypeOK
<1>3. QED
  BY <1>2 DEF PipelineInit, PipelineInv, HeadOnce, Before, Routing, HeadersCarried, BranchOfPost,
              RoutedHeadersSent, BranchSettled

\* Every step keeps the inductive invariant.
LEMMA PipelineInvStep == PipelineInv /\ [PipelineNext]_pipelineVars => PipelineInv'
  BY PipelineTypeStep, HeadersStep, BranchStep DEF PipelineInv

\* The inductive invariant holds in every state.
LEMMA PipelineInvariant == PipelineSpec => []PipelineInv
  BY PipelineInvInit, PipelineInvStep, PTL DEF PipelineSpec

\* A request's state stays well typed: the head of an answer is sent at most twice.
THEOREM PipelineTyping == PipelineSpec => []PipelineTypeOK
<1>1. PipelineInv => PipelineTypeOK
  BY DEF PipelineInv
<1>2. QED
  BY <1>1, PipelineInvariant, PTL

\* The head that is sent has the response headers of the routes, whatever path made it,
\* unless it is another server's, the middleware's own or the routing handler's 500,
\* which have none of them.
THEOREM HeadersAlwaysSent == PipelineSpec => []RoutedHeadersSent
<1>1. PipelineInv => RoutedHeadersSent
  BY DEF PipelineInv
<1>2. QED
  BY <1>1, PipelineInvariant, PTL

\* No branch of a body is left unread but by an error in the routing handler.
THEOREM BranchAlwaysSettled == PipelineSpec => []BranchSettled
<1>1. PipelineInv => BranchSettled
  BY DEF PipelineInv
<1>2. QED
  BY <1>1, PipelineInvariant, PTL

-----------------------------------------------------------------------------
(* ImageRequest *)

\* Every step keeps the types; a redirect that is followed leaves one less to follow.
LEMMA ImageTypeStep == ImageTypeOK /\ [ImageNext]_imageVars => ImageTypeOK'
<1> SUFFICES ASSUME ImageTypeOK, [ImageNext]_imageVars PROVE ImageTypeOK'
  OBVIOUS
<1> USE DEF ImageTypeOK, RequestKept, ImageAnswer, Rejects, ImageGoTo, Kinds, Transformable, Formats
<1>1. CASE RefuseParameters
  BY <1>1 DEF RefuseParameters
<1>2. CASE ParseThrows
  BY <1>2 DEF ParseThrows
<1>3. CASE WithoutAssets
  BY <1>3 DEF WithoutAssets
<1>4. CASE FetchAsset
  <2>1. CASE ImageGoTo("response")
    BY <2>1
  <2>2. CASE Rejects
    BY <2>2
  <2>3. QED
    BY <1>4, <2>1, <2>2 DEF FetchAsset
<1>5. CASE FetchRemote
  BY <1>5 DEF FetchRemote
<1>6. CASE FetchAnswered
  BY <1>6 DEF FetchAnswered, Fetched
<1>7. CASE FetchFails
  BY <1>7 DEF FetchFails, Fetched
<1>8. CASE Redirected
  <2>1. CASE NoneLeft
    BY <1>8, <2>1 DEF Redirected, Fetched
  <2>2. CASE ~NoneLeft
    <3>1. left - 1 \in 0 .. MaxRedirects
      BY <2>2, ImageAssumption DEF NoneLeft
    <3>2. QED
      BY <1>8, <2>2, <3>1 DEF Redirected, Fetched
  <2>3. QED
    BY <2>1, <2>2
<1>9. CASE UpstreamInvalid
  BY <1>9 DEF UpstreamInvalid
<1>10. CASE ReadHeader
  BY <1>10 DEF ReadHeader
<1>11. CASE ReadFails
  BY <1>11 DEF ReadFails
<1>12. CASE RefuseType
  BY <1>12 DEF RefuseType
<1>13. CASE PassImage
  BY <1>13 DEF PassImage, AsIs
<1>14. CASE TransformImage
  BY <1>14 DEF TransformImage, Transforms
<1>15. CASE UNCHANGED imageVars
  BY <1>15 DEF imageVars
<1>16. QED
  BY <1>1, <1>2, <1>3, <1>4, <1>5, <1>6, <1>7, <1>8, <1>9, <1>10, <1>11, <1>12, <1>13, <1>14, <1>15 DEF ImageNext

\* The request is well typed initially.
LEMMA ImageTypeInit == ImageInit => ImageTypeOK
  BY ImageAssumption DEF ImageInit, ImageTypeOK, Kinds

\* No redirect is followed beyond the limit, whatever it is, and an answer has one of
\* the known types.
THEOREM ImageTyping == ImageSpec => []ImageTypeOK
  BY ImageTypeInit, ImageTypeStep, PTL DEF ImageSpec

-----------------------------------------------------------------------------
(* The parts side by side *)

\* Whichever part takes the steps, each part behaves as it does on its own.
THEOREM RequestsApart ==
    MCSpec => Spec /\ LoopSpec /\ ContextSpec /\ PipelineSpec /\ ResponseSpec /\ ImageSpec
<1>1. MCInit => Init /\ LoopInit /\ ContextInit /\ PipelineInit /\ ResponseInit /\ ImageInit
  BY DEF MCInit
<1>2. [MCNext]_<<part, vars, loopVars, contextVars, pipelineVars, responseVars, imageVars>> =>
        /\ [Next]_vars
        /\ [LoopNext]_loopVars
        /\ [ContextNext]_contextVars
        /\ [PipelineNext]_pipelineVars
        /\ [ResponseNext]_responseVars
        /\ [ImageNext]_imageVars
  BY DEF MCNext
<1>3. QED
  BY <1>1, <1>2, PTL DEF MCSpec, Spec, LoopSpec, ContextSpec, PipelineSpec, ResponseSpec, ImageSpec

\* In every behaviour of one of the parts all of them are well typed, for any tags,
\* calls, isolates, promises, cookies and limits.
THEOREM RequestsTyping == MCSpec => []RequestsTypeOK
<1>1. TypeOK /\ LoopTypeOK /\ ContextTypeOK /\ PipelineTypeOK /\ ResponseTypeOK /\ ImageTypeOK => RequestsTypeOK
  BY DEF RequestsTypeOK
<1>2. QED
  BY <1>1, RequestsApart, Typing, LoopTyping, ContextTyping, PipelineTyping, ResponseTyping, ImageTyping, PTL

\* All that the parts of a request promise holds side by side as well.
THEOREM RequestsKeepPromises ==
    MCSpec =>
        /\ []OwedIsBuffered /\ StrandedOnlyByRateLimit /\ ImplementsBuffer
        /\ []QuietOnlyAfterHead
        /\ []CutOnlyWhenLate
        /\ []RoutedHeadersSent /\ []BranchSettled
        /\ []CookiesSent
  BY RequestsApart, OwedTagsBuffered, StrandingNeedsRateLimit, BufferImplemented, NeverSilenced, OnlyLateCut,
     HeadersAlwaysSent, BranchAlwaysSettled, CookiesAlwaysSent, PTL

=============================================================================
