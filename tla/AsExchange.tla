----------------------------- MODULE AsExchange -----------------------------
(***************************************************************************)
(* What an AS exchange promises its caller, whichever driver runs it: it   *)
(* ends, once, either in failure or in success, and it succeeds only while *)
(* holding a reply that the KDC asked genuinely issued for the request.   *)
(* Until then the client may receive and drop any number of replies.      *)
(*                                                                         *)
(*   outcome   "pending", "ok" or "failed"                                 *)
(*   genuine   the reply the client holds, if any, is one the KDC issued   *)
(*             for the request it answers (and not forged or corrupted)    *)
(***************************************************************************)
VARIABLES outcome, genuine

vars == <<outcome, genuine>>

Init == outcome = "pending" /\ genuine = FALSE

(* A reply arrives, or the one held is dropped. *)
Receive == outcome = "pending" /\ genuine' \in BOOLEAN /\ UNCHANGED outcome

Succeed == outcome = "pending" /\ genuine /\ outcome' = "ok" /\ UNCHANGED genuine

Fail == outcome = "pending" /\ outcome' = "failed" /\ genuine' \in BOOLEAN

Next == Receive \/ Succeed \/ Fail

(* The exchange does not stay pending for ever: failing is always possible. *)
Spec == Init /\ [][Next]_vars /\ WF_vars(Succeed \/ Fail)
====
