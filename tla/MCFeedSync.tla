----------------------------- MODULE MCFeedSync -----------------------------
(* Addresses of two bits. One feed has a bad line, a duplicate, two entries   *)
(* of one prefix, and an entry of the prefix that two others merge into; it   *)
(* becomes one entry if nothing is whitelisted. The other does not parse.     *)
EXTENDS FeedSync

Prefix(bits, addr) == [bits |-> bits, addr |-> addr]
Line(bits, addr, class, reason) ==
  [cidr |-> Prefix(bits, addr), class |-> class, reason |-> reason]

MCPayloads ==
  {<<Line(2, 0, 1, "r"), Line(2, 0, 2, "r"), Line(2, 1, 1, "r"), Malformed, Line(2, 1, 1, "q"),
     Line(1, 0, 1, "q"), Line(1, 2, 1, "r")>>,
   <<Malformed>>}

MCWhitelists == {Prefix(2, 3)}
=============================================================================
