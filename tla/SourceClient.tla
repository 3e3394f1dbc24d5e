---------------------------- MODULE SourceClient ----------------------------
(***************************************************************************)
(* One bounded GET of contest.run, by either of its two clients:           *)
(* ContestRunHttpClient.request ("package"), which turns whatever is wrong *)
(* into one typed error, and observe of the contest-run-poc tools ("poc"), *)
(* which records what happened and uses whatever parses as JSON.           *)
(*                                                                         *)
(* A body is a number of chunks of one size.  A timeout may come at any    *)
(* time: while it waits for the head it is TIMEOUT, in the body it is a    *)
(* body that cannot be read.                                               *)
(***************************************************************************)
EXTENDS Naturals

CONSTANTS MaxBody   \* maxResponseBytes, in chunks

ASSUME ClientConstants == MaxBody \in Nat \ {0}

VARIABLE exchange   \* the request under way: its client, what was read of the
                    \* answer, the head's status and content type; the code of
                    \* the last one that ended

Codes == {"OK", "TIMEOUT", "NETWORK", "RESPONSE_TOO_LARGE", "INVALID_BODY",
          "NON_2XX", "INVALID_CONTENT", "ADAPTER_PARSE"}

Idle   == exchange.pc = "idle"
Using(client) == exchange.client = client

\* The request has ended with a code.
Ended(code) == exchange' = [exchange EXCEPT !.pc = "idle", !.read = 0, !.ok = TRUE,
                                            !.json = TRUE, !.code = code]

ClientInit == exchange = [pc |-> "idle", client |-> "package", read |-> 0,
                          ok |-> TRUE, json |-> TRUE, code |-> "OK"]

Send(client) ==
    /\ Idle
    /\ exchange' = [exchange EXCEPT !.pc = "head", !.client = client]

FetchFails ==
    /\ exchange.pc = "head"
    /\ \E code \in {"TIMEOUT", "NETWORK"} : Ended(code)

\* A redirect is a network error of the package's client and a head without a
\* useful body for the other one.
Headers(ok, json) ==
    /\ exchange.pc = "head"
    /\ exchange' = [exchange EXCEPT !.pc = "body", !.ok = ok, !.json = json]

\* Content-Length is above the limit; only the package's client looks at it.
DeclaredTooLarge ==
    /\ exchange.pc = "head"
    /\ Using("package")
    /\ Ended("RESPONSE_TOO_LARGE")

\* A chunk that still fits.
Chunk ==
    /\ exchange.pc = "body"
    /\ exchange.read < MaxBody
    /\ exchange' = [exchange EXCEPT !.read = @ + 1]

\* A chunk that does not; the rest of the body is cancelled.
TooLarge ==
    /\ exchange.pc = "body"
    /\ exchange.read = MaxBody
    /\ Ended("RESPONSE_TOO_LARGE")

BodyBreaks == exchange.pc = "body" /\ Ended("INVALID_BODY")

\* What a whole body amounts to, when its bytes can be parsed or not.
Classified(parses) ==
    CASE Using("package") /\ ~exchange.ok   -> "NON_2XX"
      [] Using("package") /\ exchange.ok /\ ~exchange.json -> "INVALID_CONTENT"
      [] Using("package") /\ exchange.ok /\ exchange.json  ->
             IF parses THEN "OK" ELSE "ADAPTER_PARSE"
      [] Using("poc") -> IF parses THEN "OK" ELSE "ADAPTER_PARSE"

BodyEnds(parses) ==
    /\ exchange.pc = "body"
    /\ parses => exchange.read > 0
    /\ Ended(Classified(parses))

\* What is not a whole body.
Breaks == FetchFails \/ DeclaredTooLarge \/ TooLarge \/ BodyBreaks

Reads == Chunk \/ \E ok, json \in BOOLEAN : Headers(ok, json)
=============================================================================
