----------------------------- MODULE MCConsole -----------------------------
(* The console for TLC: the settings that meet different cuts, and a bind  *)
(* that sees more PDUs than the other.                                     *)
EXTENDS Console, TLC

CONSTANTS b1, b2, l1, p1, p2, h1

Layout(choice, mode, packed, charset) ==
  [choice |-> choice, mode |-> mode, packed |-> packed, charset |-> charset]

UsedLayouts ==
  { Layout("automatic", "udh", FALSE, "gsm0338"), Layout("automatic", "udh", TRUE, "gsm0338"),
    Layout("automatic", "sar", TRUE, "gsm0338"), Layout("automatic", "payload", TRUE, "gsm0338"),
    Layout("automatic", "udh", FALSE, "latin1"), Layout("automatic", "udh", TRUE, "latin1"),
    Layout("latin1", "udh", FALSE, "gsm0338") }

Selection(combination, lists, excluded) ==
  [combination |-> combination, lists |-> lists, excluded |-> excluded]

UsedSelections ==
  { Selection("everything", <<>>, <<>>), Selection("everything", <<>>, <<l1>>),
    Selection("intersection", <<l1, l1>>, <<>>),
    Selection("union", <<l1>>, <<>>), Selection("union", <<>>, <<>>) }

\* Two answers to a bind and one that refuses it, a body that is not read to
\* its end, one that does not parse, and lengths on both sides of the bounds.
SomePdus ==
  { Pdu(3, 3, "bind_receiver_resp", "ok"), Pdu(5, 3, "bind_transceiver_resp", "ok"),
    Pdu(3, 3, "bind_receiver_resp", "error"), Pdu(4, 4, "request", "ok"),
    Pdu(5, 3, "unparsed", "ok"), Pdu(2, 3, "request", "ok"), Pdu(6, 3, "request", "ok") }

Powers    == [n \in 0 .. WordBits - 1 |-> 2 ^ n]
OneList   == {l1}
BothIds   == {p1, p2}
OneHost   == {h1}
TwoZones  == {0, 2}
BothBinds == {b1, b2}
PdusSeen  == (b1 :> 2) @@ (b2 :> 1)
=============================================================================
