------------------------------ MODULE BodyLimit -----------------------------
(***************************************************************************)
(* DocumentBodyLimitRoute: POST bodies are counted, and the closing        *)
(* multipart boundary is looked for, message by message, while the form    *)
(* parser pulls the body.  The server cuts the body into messages as it    *)
(* likes, so the boundary may be split over any number of them; only the   *)
(* last bytes seen are kept.                                               *)
(***************************************************************************)
EXTENDS Naturals, Sequences

CONSTANTS
  Bytes,      \* the bytes a body is made of
  Boundary,   \* b'\r\n--' + boundary + b'--'
  Limit,      \* max_file_size_bytes + MULTIPART_OVERHEAD_BYTES
  MaxChunk    \* bound on the bytes of one message

ASSUME BoundaryAssumption == Boundary \in Seq(Bytes) /\ Len(Boundary) > 1
ASSUME NumbersAssumption == Limit \in Nat /\ MaxChunk \in Nat

VARIABLES
  form,       \* closing_boundary is not None: a multipart form with a boundary
  declared,   \* what Content-Length claims: "absent" (or not a number), "fits"
              \* or "oversized"
  received, tail, closed,
  outcome,    \* "new", "reading", "complete", "413", "400" or "disconnected"
  body        \* auxiliary: every byte received

bodyVars == <<form, declared, received, tail, closed, outcome, body>>

SmallerOf(a, b) == IF a < b THEN a ELSE b

\* s[:n] and s[-n:] of Python, for n > 0
FirstBytes(s, n) == SubSeq(s, 1, SmallerOf(n, Len(s)))
LastBytes(s, n) == SubSeq(s, Len(s) - SmallerOf(n, Len(s)) + 1, Len(s))

\* p in s
Includes(s, p) ==
  \E i \in 0..Len(s) : /\ i + Len(p) <= Len(s)
                       /\ \A j \in 1..Len(p) : s[i + j] = p[j]

Overlap == Len(Boundary) - 1

BodyTypeOK ==
  /\ form \in BOOLEAN
  /\ declared \in {"absent", "fits", "oversized"}
  /\ body \in Seq(Bytes) /\ received = Len(body)
  /\ tail \in Seq(Bytes) /\ Len(tail) <= Overlap
  /\ closed \in BOOLEAN
  /\ outcome \in {"new", "reading", "complete", "413", "400", "disconnected"}

BodyInit ==
  /\ form \in BOOLEAN
  /\ declared \in {"absent", "fits", "oversized"}
  /\ received = 0 /\ tail = <<>> /\ closed = FALSE
  /\ outcome = "new" /\ body = <<>>

\* _declares_oversized_body: an oversized Content-Length is refused unread.
Start ==
  /\ outcome = "new"
  /\ outcome' = IF declared = "oversized" THEN "413" ELSE "reading"
  /\ UNCHANGED <<form, declared, received, tail, closed, body>>

\* Mutant: the kept tail is one byte short.
ShortTail(chunk) == LastBytes(tail \o LastBytes(chunk, Overlap), Overlap - 1)

\* tail = (tail + chunk[-overlap:])[-overlap:]
NextTail(chunk) == LastBytes(tail \o LastBytes(chunk, Overlap), Overlap)

\* The boundary is in the message or starts in the tail kept before it.
Closes(chunk) == \/ Includes(chunk, Boundary)
                 \/ Includes(tail \o FirstBytes(chunk, Overlap), Boundary)

\* Mutant: received_bytes >= limit.
TooLongInclusive(n) == n >= Limit

TooLong(n) == n > Limit

\* limited_receive: one http.request message, with more_body set or not.
Receive(chunk, more) ==
  /\ outcome = "reading"
  /\ body' = body \o chunk
  /\ received' = received + Len(chunk)
  /\ IF TooLong(received')
     THEN outcome' = "413" /\ UNCHANGED <<tail, closed>>
     ELSE /\ IF form
             THEN /\ closed' = (closed \/ Closes(chunk))
                  /\ tail' = NextTail(chunk)
             ELSE UNCHANGED <<tail, closed>>
          /\ outcome' = IF more THEN "reading"
                        ELSE IF form /\ ~closed' THEN "400"
                        ELSE "complete"
  /\ UNCHANGED <<form, declared>>

\* The client goes away; the message is handed on untouched.
Disconnect ==
  /\ outcome = "reading"
  /\ outcome' = "disconnected"
  /\ UNCHANGED <<form, declared, received, tail, closed, body>>

Chunks == UNION {[1..n -> Bytes] : n \in 0..MaxChunk}

BodyNext ==
  \/ Start \/ Disconnect
  \/ \E chunk \in Chunks, more \in BOOLEAN : Receive(chunk, more)

BodySpec == BodyInit /\ [][BodyNext]_bodyVars

-----------------------------------------------------------------------------
(* Properties *)

\* However the body is cut into messages, the flag says exactly whether the
\* closing boundary has been received: no split hides it, no tail invents it.
ClosedIffReceived ==
  form /\ outcome # "413" => (closed <=> Includes(body, Boundary))

\* The verdict is about the whole body, not about its messages: what the parser
\* is given as a finished form is within the limit and closed, 413 is for a body
\* over the limit, declared or received, and 400 for an unclosed form.
VerdictIsJustified ==
  /\ outcome = "complete" =>
       Len(body) <= Limit /\ (form => Includes(body, Boundary))
  /\ outcome = "413" => declared = "oversized" \/ Len(body) > Limit
  /\ outcome = "400" => form /\ ~Includes(body, Boundary)
=============================================================================
