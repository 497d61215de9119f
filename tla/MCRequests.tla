----------------------------- MODULE MCRequests -----------------------------
(***************************************************************************)
(* The parts of a request and of what it starts for TLC, side by side: a   *)
(* behaviour is one of BucketCachePurge, IsrLoop, RequestContext,          *)
(* RequestPipeline, NodeResponse or ImageRequest, and the others stay in   *)
(* an initial state.  In those states the fair steps of the others are     *)
(* disabled, so that the fairness is that of the part.                     *)
(***************************************************************************)
EXTENDS BucketCachePurge, IsrLoop, RequestContext, RequestPipeline, NodeResponse, ImageRequest, TLC

VARIABLE part

Parts == {"purge", "loop", "context", "pipeline", "response", "image"}

MCGiven == <<"theirs">>

\* Another part stays in one initial state.
AtRest(p, state) == part # p => state

MCInit ==
    /\ part \in Parts
    /\ Init
    /\ LoopInit
    /\ AtRest("loop", ~waitForQueueAck /\ isolate = [m \in Sends |-> CHOOSE i \in Isolates : TRUE])
    /\ ContextInit
    /\ AtRest("context", waitUntil)
    /\ PipelineInit
    /\ AtRest("pipeline", external /\ method = "GET" /\ purpose = "visit")
    /\ ResponseInit
    /\ AtRest("response", renderFirst)
    /\ ImageInit
    /\ AtRest("image", route = "cdn" /\ query.url = "absent" /\ bindings = {} /\ svg)

MCNext ==
    /\ UNCHANGED part
    /\ \/ part = "purge" /\ Next /\ UNCHANGED <<loopVars, contextVars, pipelineVars, responseVars, imageVars>>
       \/ part = "loop" /\ LoopNext /\ UNCHANGED <<vars, contextVars, pipelineVars, responseVars, imageVars>>
       \/ part = "context" /\ ContextNext /\ UNCHANGED <<vars, loopVars, pipelineVars, responseVars, imageVars>>
       \/ part = "pipeline" /\ PipelineNext /\ UNCHANGED <<vars, loopVars, contextVars, responseVars, imageVars>>
       \/ part = "response" /\ ResponseNext /\ UNCHANGED <<vars, loopVars, contextVars, pipelineVars, imageVars>>
       \/ part = "image" /\ ImageNext /\ UNCHANGED <<vars, loopVars, contextVars, pipelineVars, responseVars>>

MCSpec ==
    /\ MCInit
    /\ [][MCNext]_<<part, vars, loopVars, contextVars, pipelineVars, responseVars, imageVars>>
    /\ Fairness
    /\ LoopFairness

\* Every variable of the six has its type.
RequestsTypeOK ==
    TypeOK /\ LoopTypeOK /\ ContextTypeOK /\ PipelineTypeOK /\ ResponseTypeOK /\ ImageTypeOK

=============================================================================
