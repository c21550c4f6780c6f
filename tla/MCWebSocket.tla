---------------------------- MODULE MCWebSocket ----------------------------
(* Model checking of web sockets. *)
EXTENDS WebSocket

\* With bytes of 8 values a small head says 0 or 1, a medium one 2 to 63.
MCHeads ==
  {[fin |-> 1, opcode |-> 1, payload_length |-> 0],
   [fin |-> 0, opcode |-> 1, payload_length |-> 1],
   [fin |-> 1, opcode |-> 0, payload_length |-> 2],
   [fin |-> 0, opcode |-> 0, payload_length |-> 6],
   [fin |-> 1, opcode |-> 1, payload_length |-> 64]}

Good == <<<<"Host", "h">>, <<"Origin", "">>, <<"Upgrade", "websocket">>,
          <<"Connection", "Upgrade">>, <<"Sec-WebSocket-Version", "13">>,
          <<"Sec-WebSocket-Key", "key">>>>

\* A complete request with a second header behind the first of that name,
\* requests without one of the headers, and with a wrong one before the first.
MCRequests ==
  {Good \o <<<<"Upgrade", "h2c">>>>}
  \cup {[j \in 1..5 |-> Good[IF j < i THEN j ELSE j + 1]] : i \in 1..6}
  \cup {<<x>> \o Good : x \in {<<"Upgrade", "h2c">>, <<"Sec-WebSocket-Version", "8">>,
                              <<"Sec-WebSocket-Key", "long">>}}
=============================================================================
