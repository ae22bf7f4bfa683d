---------------------------- MODULE WebsiteVisit ----------------------------
(***************************************************************************)
(* One visit of a website by analyzeWebsite: the address is normalised,    *)
(* its host resolved, the page requested, redirections followed by hand up *)
(* to a limit, and the page read up to a number of bytes, all under one    *)
(* timer.  Only the requests and the reading of the page look at the       *)
(* timer: the resolution of a host does not.                               *)
(*                                                                         *)
(* An address is a record of what the code tells apart: its protocol       *)
(* ("none" when it is written without one), whether it holds credentials   *)
(* or a port that is refused, whether it has a fragment, and its host.     *)
(* PastLimit is a faulty variant of the operator defined after it; no      *)
(* action uses it.                                                         *)
(***************************************************************************)
EXTENDS Integers, Sequences

CONSTANTS
  Addresses,     \* as a record or a redirection writes them
  Hosts,
  LocalHosts,    \* localhost, .localhost and .local
  MaxRedirects,  \* WEBSITE_ANALYZER_MAX_REDIRECTS
  MaxBytes,      \* WEBSITE_ANALYZER_MAX_BYTES, in blocks
  Blocks         \* the sizes of the blocks a page arrives in

Address == [protocol : {"none", "http", "https", "other"}, plain : BOOLEAN, fragment : BOOLEAN,
            host : Hosts]

ASSUME VisitAssumption ==
  /\ Addresses \subseteq Address /\ MaxRedirects \in Nat
  /\ MaxBytes \in Nat \ {0} /\ Blocks \subseteq Nat \ {0}

VARIABLES
  visit,      \* where the visit is
  current,    \* currentUrl
  redirects,
  aborted,    \* the timer has fired
  response,   \* the last response
  received,   \* the bytes of the page
  requests,   \* the addresses requested, in order
  result      \* what analyzeWebsite returned

visitVars == <<visit, current, redirects, aborted, response, received, requests, result>>

NoResponse == [code |-> 0, location |-> {}]
Nothing    == {}

\* The codes: an answer, a redirection (301, 302, 303, 307, 308), another code of the
\* three hundreds and an error.
Codes == {200, 302, 304, 404}

VisitInit ==
  /\ visit = "idle" /\ current \in Addresses /\ redirects = 0 /\ aborted = FALSE
  /\ response = NoResponse /\ received = 0 /\ requests = <<>> /\ result = Nothing

-----------------------------------------------------------------------------
Accepted(a) == a.protocol # "other" /\ a.plain

NormalizedUrl(a) ==
  [a EXCEPT !.protocol = IF @ = "none" THEN "https" ELSE @, !.fragment = FALSE]

Fail == visit' = "failed" /\ UNCHANGED <<current, redirects, aborted, response, received,
                                          requests, result>>

BeginVisit ==
  /\ visit = "idle"
  /\ IF Accepted(current)
     THEN /\ visit' = "resolving" /\ current' = NormalizedUrl(current)
          /\ UNCHANGED <<redirects, aborted, response, received, requests, result>>
     ELSE Fail

TimerFires ==
  /\ visit \in {"resolving", "requesting", "reading"} /\ ~aborted /\ aborted' = TRUE
  /\ UNCHANGED <<visit, current, redirects, response, received, requests, result>>

\* A host may resolve to several addresses, or to none, or the resolution may fail.
ResolveHost ==
  /\ visit = "resolving"
  /\ \E found \in SUBSET {"public", "private"} :
       IF current.host \in LocalHosts \/ found # {"public"} THEN Fail
       ELSE /\ visit' = "requesting"
            /\ UNCHANGED <<current, redirects, aborted, response, received, requests, result>>

\* The response, or an error of the request: the timer has fired or the site is away.
Request ==
  /\ visit = "requesting"
  /\ \/ Fail
     \/ /\ ~aborted /\ visit' = "answered" /\ requests' = Append(requests, current)
        /\ response' \in [code : Codes,
                          location : {Nothing} \union {{a} : a \in Addresses}]
        /\ UNCHANGED <<current, redirects, aborted, received, result>>

\* new URL(location, currentUrl): one without a protocol is relative to the current address.
Resolved(a) == IF a.protocol = "none" THEN [current EXCEPT !.fragment = a.fragment] ELSE a

Redirection == response.code = 302 /\ response.location # Nothing

PastLimit(hop) == hop > MaxRedirects
LastHop(hop)   == hop = MaxRedirects

\* The loop goes on while redirects <= maxRedirects, and falls out of it otherwise.
Follow ==
  /\ visit = "answered" /\ Redirection
  /\ \E a \in response.location :
       IF LastHop(redirects) \/ ~Accepted(Resolved(a)) THEN Fail
       ELSE /\ current' = NormalizedUrl(Resolved(a)) /\ redirects' = redirects + 1
            /\ visit' = IF redirects < MaxRedirects THEN "resolving" ELSE "reading"
            /\ UNCHANGED <<aborted, response, received, requests, result>>

Stay ==
  /\ visit = "answered" /\ ~Redirection /\ visit' = "reading"
  /\ UNCHANGED <<current, redirects, aborted, response, received, requests, result>>

\* A block of the page, or an error: the timer has fired or the site is away.
Read ==
  /\ visit = "reading"
  /\ \/ Fail
     \/ \E b \in Blocks :
          IF aborted \/ received + b > MaxBytes THEN Fail
          ELSE /\ received' = received + b
               /\ UNCHANGED <<visit, current, redirects, aborted, response, requests, result>>

\* classifyWebsite: score is what title, description, viewport and speed are worth.
Class(code, https, score) ==
  IF code < 200 \/ code >= 400 THEN "POOR"
  ELSE LET quality == 30 + (IF https THEN 20 ELSE 0) + score
       IN IF quality >= 75 THEN "GOOD" ELSE IF quality >= 45 THEN "AVERAGE" ELSE "POOR"

Return ==
  /\ visit = "reading" /\ ~aborted /\ visit' = "done"
  /\ \E score \in {0, 15, 25, 50} :
       result' = {[url |-> current, code |-> response.code, https |-> current.protocol = "https",
                   status |-> Class(response.code, current.protocol = "https", score)]}
  /\ UNCHANGED <<current, redirects, aborted, response, received, requests>>

VisitNext ==
  \/ BeginVisit \/ TimerFires \/ ResolveHost \/ Request \/ Follow \/ Stay \/ Read \/ Return

VisitSpec == VisitInit /\ [][VisitNext]_visitVars

-----------------------------------------------------------------------------
(* Property.                                                               *)

\* A visit makes at most MaxRedirects + 1 requests, each to an address that was normalised,
\* and what it returns is about the address whose response it read: the last one requested,
\* whose answer was no redirection left to follow (integrations/src/website.ts 33-41, 126-149).
ResultIsLastPage ==
  /\ Len(requests) <= MaxRedirects + 1
  /\ \A i \in 1..Len(requests) : requests[i] = NormalizedUrl(requests[i])
  /\ \A r \in result :
       /\ requests # <<>> /\ r.url = requests[Len(requests)]
       /\ r.code = response.code /\ ~Redirection /\ received <= MaxBytes
       /\ r.https <=> requests[Len(requests)].protocol = "https"
       /\ r.status = "GOOD" => r.code \in 200..399
=============================================================================
