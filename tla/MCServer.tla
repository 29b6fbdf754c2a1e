------------------------------ MODULE MCServer ------------------------------
EXTENDS Server
Header(key, value) == [key |-> key, value |-> value]
Upgrade ==
  [line |-> [method |-> "get", target |-> "/", version |-> "http/1.1"],
   headers |-> <<Header("sec-websocket-key", "16 or more base64 digits"),
                 Header("upgrade", "websocket")>>]
OrNip11 == [Upgrade EXCEPT !.headers[2] = Header("accept", "application/nostr+json")]

Frame(opcode, bits, len) == [opcode |-> opcode, mask |-> TRUE, bits |-> bits, len |-> len]
Text(message, bits, len, reply) ==
  [opcode |-> "text", mask |-> TRUE, bits |-> bits, len |-> len, message |-> message, reply |-> reply]

\* 1 writes its request in two pieces, the first of which is refused; its
\* frames together are more than one read.  2 writes its request in two
\* pieces: the first is good for a WebSocket, both ask for NIP-11.
MCScript ==
  <<[request |-> Upgrade,
     frames |-> <<Text("REQ", 7, 94, 0), Frame("pong", 7, 94), Text("EVENT", 16, 65500, 65534)>>,
     pieces |-> <<50, 122, 322, 65830>>],
    [request |-> OrNip11,
     frames |-> <<Text("REQ", 7, 94, 0), Text("EVENT", 7, 94, 300), Frame("ping", 7, 94),
                  Frame("close", 7, 0)>>,
     pieces |-> <<80, 428>>]>>
=============================================================================
