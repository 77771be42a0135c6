------------------------------ MODULE MCWebHttp -------------------------------
(***************************************************************************)
(* Instances of the modules of the web server's HTTP side for TLC: a       *)
(* request (WebRequest), its multipart body (WebMultipart) and a response  *)
(* (WebResponse).  They are stages of a request that share no state, so a  *)
(* behaviour is of one of them, part, and the others stay as one of their  *)
(* behaviours begins.                                                      *)
(***************************************************************************)
EXTENDS WebRequest

CONSTANTS Boundary, Contents, BufferSize,                       \* of WebMultipart
          SndBufs, ContinueLens, HeadLen, ContentLens,
          FrameHead, FrameTail, MaxFaults                       \* of WebResponse

VARIABLES part, items, parser, response

Multipart == INSTANCE WebMultipart WITH p <- parser
Response  == INSTANCE WebResponse WITH r <- response

(* A head, a frame around chunks, and buffers that hold more than a frame  *)
(* and in which "100 Continue" may be under way.                           *)
ASSUME ResponseAssumption ==
  /\ HeadLen \in Nat \ {0} /\ ContentLens \subseteq Nat /\ ContinueLens \subseteq Nat
  /\ FrameHead \in Nat /\ FrameTail \in Nat /\ FrameHead + FrameTail > 0
  /\ \A buf \in SndBufs : /\ buf \in Nat /\ buf > FrameHead + FrameTail
                           /\ \A n \in ContinueLens : n <= buf

(* The boundary is a line's text, so that CR is not in it, and a client    *)
(* chooses one for which no content holds the delimiter.                   *)
ASSUME BodyAssumption ==
  LET d == Multipart!Delimiter
  IN  /\ Boundary \in Seq(Range(Boundary)) /\ Boundary # <<>>
      /\ Multipart!CR \notin Range(Boundary)
      /\ \A c \in Contents : /\ c \in Seq(Range(c))
                             /\ \A k \in Len(d)..Len(c) : SubSeq(c, k - Len(d) + 1, k) # d

(* Requests without a body, and forms, texts and raw bodies, with and      *)
(* without bytes after them; a handler for GET, one for POST, and the      *)
(* catch-all for what neither takes.                                       *)
request(first, headers, bytes, excess) ==
  [first |-> first, headers |-> headers, body |-> bytes, excess |-> excess]

MCRequests ==
  { request("GET", <<"upgrade">>, <<>>, <<>>),
    request("GET", <<>>, <<>>, <<"x">>),
    request(Blank, <<>>, <<>>, <<>>),
    request("POST", <<"form", "length">>, <<"a", "&", "b", "&">>, <<>>),
    request("POST", <<"length", "form">>, <<"a", "b", "&", "c">>, <<"x">>),
    request("POST", <<"text", "length">>, <<"a", "=", "b">>, <<>>),
    request("POST", <<"length", "raw", "expect">>, <<"a", "b", "c">>, <<>>),
    request("POST", <<"length">>, <<"a", "b">>, <<"x">>),
    request("POST", <<"form", "upgrade", "length">>, <<"a">>, <<>>) }

handler(name, methods, upgrade) ==
  [name |-> name, methods |-> methods, upgrade |-> upgrade, trivial |-> FALSE]

MCHandlers == << handler("socket", {"GET"}, TRUE), handler("post", {"POST"}, FALSE) >>

(* A boundary of two bytes, and contents that break off a delimiter at     *)
(* each of its bytes, or begin it anew.                                    *)
MCBoundary == <<"b", "-">>
MCContents ==
  { <<>>, <<"x">>, <<"cr", "cr">>, <<"cr", "lf", "x", "cr">>, <<"cr", "lf", "-", "b">>,
    <<"cr", "lf", "-", "-">>, <<"cr", "lf", "-", "-", "b">>,
    <<"cr", "cr", "lf", "-", "-", "cr">>, <<"lf", "-", "-", "b", "-">>,
    <<"cr", "lf", "-", "-", "-", "b", "-">> }

multipartVars == <<items, parser>>
MCvars        == <<vars, multipartVars, response, part>>

OfRequest(A)   == part = "request" /\ A /\ UNCHANGED <<multipartVars, response, part>>
OfMultipart(A) == part = "multipart" /\ A /\ UNCHANGED <<vars, response, part>>
OfResponse(A)  == part = "response" /\ A /\ UNCHANGED <<vars, multipartVars, part>>

some(S) == CHOOSE x \in S : TRUE

MCInit ==
  /\ part \in {"request", "multipart", "response"}
  /\ Init           /\ (part # "request"   => sent = some(Requests))
  /\ Multipart!Init
  /\ part # "multipart" => items = << [file |-> FALSE, content |-> some(Contents)] >>
  /\ Response!Init
  /\ part # "response" =>
       response = Response!Response("basic", some(ContentLens), some(SndBufs), some(ContinueLens))

MCNext == OfRequest(Next) \/ OfMultipart(Multipart!Next) \/ OfResponse(Response!Next)

(* The fairness of the parts: WebRequest!FairSpec, WebResponse!FairSpec.   *)
MCSpec == /\ MCInit /\ [][MCNext]_MCvars
          /\ WF_MCvars(OfRequest(PollCloses))
          /\ WF_MCvars(OfResponse(Response!Respond \/ Response!Printed))
          /\ WF_MCvars(OfResponse(Response!AckedAny))
          /\ WF_MCvars(OfResponse(Response!Poll))

-------------------------------------------------------------------------------
(* Every connection is answered or closed in the end (WebRequest!Ends).    *)
ConnectionEnds == part = "request" => Ends

(* The items found in a body are the ones that were sent (WebMultipart).   *)
ItemsAsSent == Multipart!ItemsAsSent

(* The peer gets the whole response, in order (WebResponse).               *)
WholeResponse == Response!WholeResponse

(* A response is sent to its end, or the connection closed (WebResponse).  *)
Completes == Response!Completes
===============================================================================
