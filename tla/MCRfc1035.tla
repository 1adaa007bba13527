------------------------------- MODULE MCRfc1035 -------------------------------
(* Instances of Rfc1035 for TLC.                                           *)
EXTENDS Rfc1035, TLC

Four == [key |-> "ipv4hint", len |-> 2]
Six  == [key |-> "ipv6hint", len |-> 1]
Alpn == [key |-> "alpn", len |-> 0]

SomeTypes ==
  "A" :> {"A"} @@ "AAAA" :> {"AAAA"} @@ "OTHER" :> {"TXT"} @@ "SVCB" :> {"CNAME", "SVCB", "HTTPS"}

SomeParams == {Alpn, Four, Six}
===============================================================================
