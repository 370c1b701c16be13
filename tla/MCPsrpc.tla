------------------------------ MODULE MCPsrpc ------------------------------
(* Small instances of Psrpc for TLC. *)
EXTENDS Psrpc

CONSTANTS r1, r2, s1, s2

\* One request, two bidding servers, a bus that loses and duplicates; two
\* concurrent requests at one server, a bus that loses nothing.
MCSettings ==
    {[requests |-> {r1}, servers |-> {s1, s2}, copies |-> {0, 1, 2}],
     [requests |-> {r1, r2}, servers |-> {s1}, copies |-> {1}]}

=============================================================================
