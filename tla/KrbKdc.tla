------------------------------- MODULE KrbKdc -------------------------------
(***************************************************************************)
(* The KDCs both drivers of get_in_tkt.c talk to, as the environment: the  *)
(* replies the KDC of a realm may send to an AS-REQ.  Nothing here models  *)
(* code of get_in_tkt.c; it is what the code's checks are run against.   *)
(*                                                                         *)
(* A faithful AS-REP echoes the request: start time from for a postdated   *)
(* request, else omitted or the KDC's clock; end time the KDC's maximum    *)
(* life, capped by till when till is set; renew-till the requested rtime.  *)
(* It is encrypted in the client key, salted with the client's realm.  The *)
(* other replies each get one field wrong, as a buggy or hostile KDC (or   *)
(* an attacker on the path) might; the field fault names what is wrong and *)
(* is never read by the client.  more is the KDC asking for another round  *)
(* of pre-authentication in the reply's padata.                            *)
(***************************************************************************)
EXTENDS KrbAsCommon

CONSTANTS
  KdcHints,         \* pa-type lists a KDC may put in e-data
  KdcMaxLife,       \* lifetime a KDC grants
  OtherNonce        \* a nonce no request carries

OtherRealm(kr) == CHOOSE r \in Realms : r # kr

MinOf(a, b) == IF a < b THEN a ELSE b

GoodReps(req, kr) ==
  LET post == "POSTDATED" \in req.options
      ren  == "RENEWABLE" \in req.options
      life(st) == (IF st = 0 THEN Now ELSE st) + KdcMaxLife
  IN  { [type |-> "AS_REP", client |-> req.client, server |-> req.server,
         tktServer |-> req.server, nonce |-> req.nonce, authtime |-> Now,
         starttime |-> st,
         endtime |-> IF req.till = 0 THEN life(st) ELSE MinOf(req.till, life(st)),
         renewable |-> ren, renewTill |-> IF ren THEN req.rtime ELSE 0,
         key |-> req.client.realm, more |-> FALSE, fault |-> "none"] :
        st \in IF post THEN {req.from} ELSE {0, Now} }

BadReps(good, kr) ==
  { [good EXCEPT !.client = ClientPrinc(kr, CanonName), !.fault = "canon"],
    [good EXCEPT !.nonce = OtherNonce, !.fault = "nonce"],
    [good EXCEPT !.tktServer = [good.server EXCEPT !.realm = OtherRealm(kr)],
                 !.fault = "server"],
    [good EXCEPT !.starttime = Now + ClockSkew + 1, !.fault = "start"],
    [good EXCEPT !.key = OtherRealm(good.key), !.fault = "key"] }
  \cup (IF good.renewable THEN {[good EXCEPT !.renewTill = @ + 1, !.fault = "renew"]}
       ELSE {})

KdcErrors(kr, tcp) ==
  {ErrorMsg("PREAUTH_REQUIRED", h, NULL) : h \in KdcHints \cup {<<>>}}
  \cup {ErrorMsg("PREAUTH_FAILED", h, NULL) : h \in KdcHints}
  \cup {ErrorMsg("WRONG_REALM", <<>>, r) : r \in (Realms \ {kr}) \cup {NULL}}
  \cup {ErrorMsg("C_PRINCIPAL_UNKNOWN", <<>>, NULL)}
  \cup (IF tcp THEN {} ELSE {TooBig})

KdcReplies(req, kr, tcp) ==
  LET good == GoodReps(req, kr)
  IN  good \cup UNION {BadReps(g, kr) : g \in good} \cup KdcErrors(kr, tcp)
      \cup {V4Reply, BadReply}

(* A canonicalised client is what the KDC may rightly return when asked to *)
(* canonicalise a TGT request; every other fault is a reply the client     *)
(* must refuse.                                                            *)
Genuine(rep, req) ==
  \/ rep.fault = "none"
  \/ /\ rep.fault = "canon"
     /\ "CANONICALIZE" \in req.options \/ Enterprise
     /\ IsTgsPrinc(req.server)
====
