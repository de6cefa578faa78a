----------------------------- MODULE MCReceipts -----------------------------
(* Receipts for TLC: a message of this session, one that failed in part,   *)
(* and one of another session under the identifier of the first.           *)
EXTENDS Receipts, TLC

CONSTANTS a, foreign, doomed, nobody

AllMessages == {a, foreign, doomed}
OwnMessages == {a, doomed}
OnlyDoomed  == {doomed}
Ids == (a :> Text(42, FALSE, FALSE)) @@ (foreign :> Text(42, FALSE, TRUE))
       @@ (doomed :> Text(66, FALSE, FALSE))

Field(name, id, stat, spaced) == [field |-> name, id |-> id, stat |-> stat, spaced |-> spaced]
Id(t)   == Field("id", t, "none", FALSE)
Stat(s) == Field("stat", NoText, s, FALSE)
Pdu(type, tlvId, tlvState, body, about) ==
  [type |-> type, tlvId |-> tlvId, tlvState |-> tlvState, body |-> body, about |-> about]

(* Delivered, under a padded identifier; failed, under one in capitals;     *)
(* still trying; unknown, which changes nothing; the parts of a message     *)
(* that failed; and a message that only looks like a receipt.               *)
Deliveries == {
  Pdu("receipt", NoText, "none", <<Id(Text(42, TRUE, FALSE)), Stat("DELIVRD")>>, a),
  Pdu("receipt", Text(42, FALSE, TRUE), "UNDELIV", <<Id(Text(9, FALSE, FALSE))>>, a),
  Pdu("notification", NoText, "none", <<Id(Text(42, FALSE, FALSE)), Stat("DELIVRD")>>, a),
  Pdu("receipt", Text(42, FALSE, FALSE), "ENROUTE",
      <<Field("stat", NoText, "DELIVRD", TRUE)>>, a),
  Pdu("receipt", Text(66, FALSE, FALSE), "DELIVRD", <<>>, doomed),
  Pdu("message", NoText, "none", <<Id(Text(42, FALSE, FALSE)), Stat("DELIVRD")>>, nobody) }
=============================================================================
