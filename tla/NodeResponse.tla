---------------------------- MODULE NodeResponse ----------------------------
(***************************************************************************)
(* The response a handler writes to, packages/core/src/http/               *)
(* openNextResponse.ts: which cookies the client gets.  The cookies of the *)
(* middleware and the routes are given when the response is made, and are  *)
(* merged into its head when the head is sent.  Next.js calls it as it     *)
(* calls a ServerResponse of Node, in any order, and after an error again. *)
(* With a stream creator the client gets the head that was sent, without   *)
(* one it gets what convertRes makes of the response at its end.           *)
(***************************************************************************)
EXTENDS Naturals, Sequences

CONSTANTS
    Cookies,
    GivenCookies,  \* the cookies of the middleware and the routes, in order
    MaxCookies,    \* a bound for the model: the cookies a handler sets at once
    MaxHeads       \* a bound for the model: the heads of a response

ASSUME ResponseAssumption ==
    /\ GivenCookies \in Seq(Cookies)
    /\ MaxCookies \in Nat
    /\ MaxHeads \in Nat

VARIABLES
    renderFirst,  \* mergeHeadersPriority is "handler"
    header,       \* headers["set-cookie"]
    cookies,      \* _cookies
    headersSent,
    sent,         \* the cookies of the heads that were sent
    ended,
    asked,        \* history: the cookies the handler has asked for
    excused       \* history: the handler gave cookies to writeHead, or changed
                  \* them when the head had been sent

responseVars == <<renderFirst, header, cookies, headersSent, sent, ended, asked, excused>>

CookieLists == UNION {[1 .. n -> Cookies] : n \in 1 .. MaxCookies}

ResponseInit ==
    /\ renderFirst \in BOOLEAN
    /\ header = <<>>
    /\ cookies = <<>>
    /\ headersSent = FALSE
    /\ sent = <<>>
    /\ ended = FALSE
    /\ asked = <<>>
    /\ excused = FALSE

\* Mutant: hasHeader looks for the header, which removeHeader leaves.
InHeader == header
\* appendHeader: the cookies it adds to, from the header if hasHeader.
Existing == IF cookies = <<>> THEN <<>> ELSE header

\* setHeader
SetTo(list) ==
    /\ header' = list
    /\ cookies' = list
    /\ excused' = (excused \/ headersSent)
    /\ UNCHANGED <<renderFirst, headersSent, sent, ended>>

SetCookie ==
    /\ ~ended
    /\ \E list \in CookieLists : SetTo(list) /\ asked' = list

AppendCookie ==
    /\ ~ended
    /\ Len(cookies) < MaxCookies
    /\ \E c \in Cookies : SetTo(Append(Existing, c)) /\ asked' = Append(asked, c)

\* removeHeader leaves the value in headers.
RemoveCookies ==
    /\ ~ended
    /\ cookies' = <<>>
    /\ asked' = <<>>
    /\ excused' = (excused \/ headersSent)
    /\ UNCHANGED <<renderFirst, header, headersSent, sent, ended>>

Merged(list) == IF renderFirst THEN GivenCookies \o list ELSE list \o GivenCookies

\* flushHeaders: _cookies is what is sent, whatever the header holds.
FlushHeaders ==
    /\ Len(sent) < MaxHeads
    /\ headersSent' = TRUE
    /\ cookies' = Merged(cookies)
    /\ header' = Merged(cookies)
    /\ sent' = Append(sent, Merged(cookies))

\* flushHeaders, or writeHead without cookies; the handler of errors may call it
\* for a head that was sent before.
SendHeaders ==
    /\ FlushHeaders
    /\ UNCHANGED <<renderFirst, ended, asked, excused>>

\* writeHead with cookies: they are put in the header, and flushHeaders replaces
\* the header.
WriteHeadWithCookies ==
    /\ FlushHeaders
    /\ asked' \in CookieLists
    /\ excused' = TRUE
    /\ UNCHANGED <<renderFirst, ended>>

\* _transform of the first chunk; of another one nothing changes here.
WriteFirst ==
    /\ ~ended
    /\ ~headersSent
    /\ FlushHeaders
    /\ UNCHANGED <<renderFirst, ended, asked, excused>>

\* _flush
EndResponse ==
    /\ ~ended
    /\ ended' = TRUE
    /\ IF headersSent THEN UNCHANGED <<header, cookies, headersSent, sent>> ELSE FlushHeaders
    /\ UNCHANGED <<renderFirst, asked, excused>>

ResponseNext ==
    SetCookie \/ AppendCookie \/ RemoveCookies \/ SendHeaders \/ WriteHeadWithCookies \/ WriteFirst \/ EndResponse

ResponseSpec == ResponseInit /\ [][ResponseNext]_responseVars

----------------------------------------------------------------------------
(* Properties *)

\* The lists have no length here: they grow by the given cookies with each head.
ResponseTypeOK ==
    /\ renderFirst \in BOOLEAN
    /\ header \in Seq(Cookies)
    /\ cookies \in Seq(Cookies)
    /\ headersSent \in BOOLEAN
    /\ sent \in Seq(Seq(Cookies))
    /\ ended \in BOOLEAN
    /\ asked \in Seq(Cookies)
    /\ excused \in BOOLEAN

\* The client gets the cookies of the handler and those of the middleware and the
\* routes, each as often as it was asked for and in their order: with the first
\* head, and, where the response is converted at its end, then as well if no other
\* head was sent.  Cookies that are given to writeHead are lost, and a change after
\* the head is not refused: it drops the cookies of the middleware.
CookiesSent ==
    ~excused =>
        /\ sent # <<>> => sent[1] = Merged(asked)
        /\ ended /\ Len(sent) = 1 => cookies = Merged(asked)

=============================================================================
