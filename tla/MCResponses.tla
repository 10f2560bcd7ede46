---------------------------- MODULE MCResponses ----------------------------
(* Responses for TLC: every framing, and every CORS case on one framing.   *)
EXTENDS Responses

MCRequests == {r \in RequestType : r.kind \in {"upgrade", "sealed"} => ~r.close}
MCReplies == {r \in ReplyType : r.origin # "none" => ~r.bodyless /\ ~r.length /\ r.body = 1}
=============================================================================
