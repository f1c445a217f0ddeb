----------------------------- MODULE RangeProxy -----------------------------
(***************************************************************************)
(* The multi-range responses of the update feed                            *)
(* (server/src/routes/version.js, sendMultipartRanges): up to Window       *)
(* ranges are fetched from GitHub ahead of the one whose bytes are written *)
(* to the client, strictly in order and under the client's backpressure.   *)
(***************************************************************************)
EXTENDS Naturals, FiniteSets

CONSTANTS
    NumRanges,      \* the ranges of the request
    Window          \* RANGE_FETCH_CONCURRENCY

ASSUME RangeAssumption == NumRanges \in Nat \ {0} /\ Window \in Nat \ {0}

VARIABLES
    fetch,          \* the fetch of each range
    current,        \* the range the loop is at
    writing,        \* the loop: "await", "stream", "drain", "done" or "threw"
    whole,          \* the ranges whose bytes are all written
    client,         \* the client reads on
    server          \* the process runs

rangeVars == <<fetch, current, writing, whole, client, server>>

RangeSet == 1..NumRanges
Fetches == {"no", "wait", "open", "failed", "read"}

RangeTypeOK ==
    /\ fetch \in [RangeSet -> Fetches]
    /\ current \in 1..(NumRanges + 1)
    /\ writing \in {"await", "stream", "drain", "done", "threw"}
    /\ whole \in SUBSET RangeSet
    /\ client \in BOOLEAN /\ server \in BOOLEAN

\* Fault: one range too many is fetched ahead.
MutAhead(i) == i <= current + Window

\* The ranges whose fetch has been started when the loop streams `current`.
Ahead(i) == i <= current + Window - 1

RangeInit ==
    /\ current = 1
    /\ fetch = [i \in RangeSet |-> IF i <= Window THEN "wait" ELSE "no"]
    /\ writing = "await" /\ whole = {}
    /\ client = TRUE /\ server = TRUE

Sending == server /\ writing \in {"await", "stream", "drain"}

-----------------------------------------------------------------------------
(***************************************************************************)
(* fetchVerifiedRange: an answer with exactly the range that was asked     *)
(* for, or the third failure.  A promise that rejects before the loop      *)
(* awaits it is an unhandled rejection, which ends the process.            *)
(***************************************************************************)
FetchOpens(i) ==
    /\ server /\ fetch[i] = "wait"
    /\ fetch' = [fetch EXCEPT ![i] = "open"]
    /\ UNCHANGED <<current, writing, whole, client, server>>

FetchFails(i) ==
    /\ server /\ fetch[i] = "wait"
    /\ fetch' = [fetch EXCEPT ![i] = "failed"]
    /\ IF i = current /\ writing = "await"
       THEN writing' = "threw" /\ UNCHANGED server
       ELSE server' = FALSE /\ UNCHANGED writing
    /\ UNCHANGED <<current, whole, client>>

\* await inFlight[i], and the fetch that takes its place in the window.
Await ==
    /\ Sending /\ writing = "await" /\ current \in RangeSet /\ fetch[current] = "open"
    /\ writing' = "stream"
    /\ fetch' = [i \in RangeSet |-> IF Ahead(i - 1) /\ fetch[i] = "no" THEN "wait" ELSE fetch[i]]
    /\ UNCHANGED <<current, whole, client, server>>

\* res.write reports a full buffer; the loop waits for drain.
BufferFills ==
    /\ Sending /\ writing = "stream"
    /\ writing' = "drain"
    /\ UNCHANGED <<fetch, current, whole, client, server>>

Drain ==
    /\ Sending /\ writing = "drain" /\ client
    /\ writing' = "stream"
    /\ UNCHANGED <<fetch, current, whole, client, server>>

\* received is compared with the length of the range.
Length(complete) == complete

BodyEnds(complete) ==
    /\ Sending /\ writing = "stream"
    /\ fetch' = [fetch EXCEPT ![current] = "read"]
    /\ whole' = IF complete THEN whole \union {current} ELSE whole
    /\ IF Length(complete)
       THEN /\ current' = current + 1
            /\ writing' = IF current = NumRanges THEN "done" ELSE "await"
       ELSE writing' = "threw" /\ UNCHANGED current
    /\ UNCHANGED <<client, server>>

\* The upstream body errors in the middle of a range.
BodyFails ==
    /\ Sending /\ writing = "stream"
    /\ writing' = "threw"
    /\ UNCHANGED <<fetch, current, whole, client, server>>

ClientLeaves ==
    /\ client /\ Sending
    /\ client' = FALSE
    /\ UNCHANGED <<fetch, current, writing, whole, server>>

RangeNext ==
    \/ \E i \in RangeSet : FetchOpens(i) \/ FetchFails(i)
    \/ Await \/ BufferFills \/ Drain \/ BodyFails \/ ClientLeaves
    \/ \E complete \in BOOLEAN : BodyEnds(complete)

RangeSpec == RangeInit /\ [][RangeNext]_rangeVars

-----------------------------------------------------------------------------
OpenFetches == {i \in RangeSet : fetch[i] \in {"wait", "open"}}

(* A response that ends carries every range completely, and behind the      *)
(* range that is being written no more than the window's worth of fetches   *)
(* is open, however they are answered and whenever the client stalls        *)
(* (version.js: "Fetches stay concurrent (RANGE_FETCH_CONCURRENCY in flight *)
(* at once, via a sliding window)"; buffering more once brought the         *)
(* container down).                                                         *)
RangesBounded ==
    /\ writing = "done" => whole = RangeSet
    /\ Cardinality(OpenFetches \ {current}) <= Window
    /\ \A i \in whole : i <= current

(* "A dead container takes the whole server down for every user": a failed  *)
(* range ends its own response and nothing else.                            *)
ServerSurvives == server

(* A response is over sooner or later once the client has gone.             *)
ResponseSettles == []<>(~client => ~Sending)
=============================================================================
