----------------------------- MODULE Handshake -----------------------------
(***************************************************************************)
(* The HTTP request that opens a connection (src/http/http.c and           *)
(* src/websocket/server/handshake).  A request is [line, headers]: the     *)
(* line is [method, target, version], a header [key, value].  Case does    *)
(* not matter to the code, texts are lower case here.  Every line is       *)
(* LineSize bytes long, and the empty line after the headers two.          *)
(***************************************************************************)
EXTENDS Integers, SequencesExt, FiniteSetsExt

CONSTANTS
  LineSize,               \* bytes of a line of a request, its end included
  HTTP_HEADER_CAPACITY    \* headers of a request that are kept

ASSUME HandshakeConstants ==
  LineSize \in Nat /\ LineSize > 2 /\ HTTP_HEADER_CAPACITY \in Nat \ {0}

RequestSize(request) == LineSize * (1 + Len(request.headers)) + 2

NotHttp == <<>>

\* The headers in the first n bytes of a request, NotHttp when they are
\* refused: a read that ends between two headers is as good as a whole
\* request, one that ends within a line is not.
extract_http_request(request, n) ==
  LET count == (n \div LineSize) - 1
      kept == Min({count, Len(request.headers), HTTP_HEADER_CAPACITY})
  IN  IF n >= RequestSize(request) \/ (n % LineSize = 0 /\ count > 0)
      THEN SubSeq(request.headers, 1, kept) ELSE NotHttp

is_valid_request_line(line) ==
  /\ line.method = "get"
  /\ line.target # ""
  /\ line.version \in {"http/1.1", "http/2.0", "http/3.0"}

\* A header that is missing is not missed.
is_valid_request_header(headers) ==
  \A header \in ToSet(headers) :
    header.value = CASE header.key = "upgrade" -> "websocket"
                     [] header.key = "connection" -> "upgrade"
                     [] header.key = "sec-websocket-key" -> "16 or more base64 digits"
                     [] header.key = "sec-websocket-version" -> "13"
                     [] OTHER -> header.value

is_valid_request(request, headers) ==
  is_valid_request_line(request.line) /\ is_valid_request_header(headers)

is_nip11_request(headers) ==
  [key |-> "accept", value |-> "application/nostr+json"] \in ToSet(headers)

select_websocket_client_key(headers) ==
  \E header \in ToSet(headers) : header.key = "sec-websocket-key"

\* What becomes of a connection: "websocket", "nip11" or "error".
client_handshake(request, headers) ==
  IF is_nip11_request(headers) THEN "nip11"
  ELSE IF is_valid_request(request, headers) /\ select_websocket_client_key(headers)
  THEN "websocket" ELSE "error"
=============================================================================
