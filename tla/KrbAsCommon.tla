---------------------------- MODULE KrbAsCommon ----------------------------
(***************************************************************************)
(* What both AS-exchange drivers of get_in_tkt.c share: principals, the   *)
(* fields of AS-REQ, AS-REP and KRB-ERROR that the checks tell apart, the  *)
(* server name built by build_in_tkt_name and rewrite_server_realm, and    *)
(* the reply checks of verify_as_reply.                                    *)
(*                                                                         *)
(* A principal is a realm and a sequence of name components.  Keys are    *)
(* abstracted to the realm whose KDC derived them: string-to-key of the    *)
(* one password with the salt of a realm gives that realm's key.           *)
(***************************************************************************)
EXTENDS KrbAlgorithms

CONSTANTS
  Realms,        \* realm names
  HomeRealm,     \* realm of the client principal the caller passes
  ClientName,    \* the name component the caller passes
  CanonName,     \* a different spelling a KDC may return when it canonicalizes
  Enterprise,    \* TRUE iff the client is a KRB5_NT_ENTERPRISE_PRINCIPAL
  Now,           \* krb5_timeofday during the exchange
  ClockSkew,     \* context->clockskew
  SyncKdcTime,   \* KRB5_LIBOPT_SYNC_KDCTIME in context->library_options
  NULL

ASSUME HomeRealm \in Realms /\ ClientName # CanonName
ASSUME Enterprise \in BOOLEAN /\ SyncKdcTime \in BOOLEAN

TgsName == "krbtgt"                              \* KRB5_TGS_NAME

ClientPrinc(r, n) == [realm |-> r, comps |-> <<n>>]
TgsPrinc(r)       == [realm |-> r, comps |-> <<TgsName, r>>]

(* IS_TGS_PRINC: two components, the first "krbtgt". *)
IsTgsPrinc(p) == Len(p.comps) = 2 /\ p.comps[1] = TgsName

(* tgt_is_local_realm: krbtgt/R@R with R the client's realm. *)
TgtIsLocalRealm(client, server) == server = TgsPrinc(client.realm)

(* build_in_tkt_name: krbtgt/R@R for the client realm R, or the parsed   *)
(* in_tkt_service with its realm overwritten by the client realm.        *)
BuildInTktName(service, client) ==
  IF service = NULL THEN TgsPrinc(client.realm)
  ELSE [realm |-> client.realm, comps |-> service]

(* Mutant: only the realm of the copy rewritten, for a TGT request too. *)
RewriteServerRealmKeepsComps(oldServer, realm, tgs) == [oldServer EXCEPT !.realm = realm]

(* rewrite_server_realm: a copy of old_server in realm, and for a TGT     *)
(* request the second component rewritten to realm as well.              *)
RewriteServerRealm(oldServer, realm, tgs) ==
  [realm |-> realm,
   comps |-> IF tgs THEN [oldServer.comps EXCEPT ![2] = realm] ELSE oldServer.comps]

----------------------------------------------------------------------------
(* Messages.  An AS-REQ is its body fields; an AS-REP is its clear part   *)
(* (client, ticket server, enc-part key) and its decrypted enc_part2.     *)
(* A KRB-ERROR carries its code, the pa-types in its e-data (empty when   *)
(* there is no e-data) and the realm of its client field (NULL if none).  *)
ErrorMsg(code, edata, crealm) ==
  [type |-> "ERROR", error |-> code, edata |-> edata, crealm |-> crealm]
TooBig == ErrorMsg("RESPONSE_TOO_BIG", <<>>, NULL)
V4Reply == [type |-> "V4"]                   \* reply[0] == 4, reply[1] & ~1 == 5<<1
BadReply == [type |-> "BAD"]                 \* neither error nor AS-REP, nor v4

----------------------------------------------------------------------------
(* Mutant: the nonce comparison dropped. *)
NonceIgnored(req, rep) == TRUE

(* The reply's nonce is the request's. *)
NonceMatches(req, rep) == req.nonce = rep.nonce

(* verify_as_reply: the starttime repair, then one disjunction of checks  *)
(* giving KDCREP_MODIFIED, then either the clock is synchronised to the   *)
(* KDC or the start time must lie within the clock skew when the request  *)
(* had no from.  Returns the code ("OK" for 0) and the repaired reply.   *)
VerifyAsReply(timeNow, req, rep0) ==
  LET rep      == IF rep0.starttime = 0 THEN [rep0 EXCEPT !.starttime = rep0.authtime]
                  ELSE rep0
      canonReq == "CANONICALIZE" \in req.options \/ Enterprise
      canonOk  == canonReq /\ IsTgsPrinc(req.server) /\ IsTgsPrinc(rep.server)
      modified ==
        \/ ~canonOk /\ (rep.client # req.client \/ rep.server # req.server)
        \/ rep.server # rep.tktServer
        \/ ~NonceMatches(req, rep)
        \/ "POSTDATED" \in req.options /\ req.from # 0 /\ req.from # rep.starttime
        \/ req.till # 0 /\ rep.endtime > req.till
        \/ "RENEWABLE" \in req.options /\ req.rtime # 0 /\ rep.renewTill > req.rtime
        \/ /\ "RENEWABLE_OK" \in req.options /\ "RENEWABLE" \notin req.options
           /\ rep.renewable /\ req.till # 0 /\ rep.renewTill > req.till
      skewed   == req.from = 0 /\ SkewExceeded(rep.starttime, timeNow, ClockSkew)
  IN  [code  |-> IF modified THEN "KDCREP_MODIFIED"
                 ELSE IF ~SyncKdcTime /\ skewed THEN "KDCREP_SKEW"
                 ELSE "OK",
       reply |-> rep]

(* Mutant: the AS key copied into the credential as its session key. *)
StashAsReplyWithKey(rep) ==
  [client |-> rep.client, server |-> rep.server, starttime |-> rep.starttime,
   endtime |-> rep.endtime, renewTill |-> rep.renewTill, renewable |-> rep.renewable,
   key |-> rep.key]

(* stash_as_reply into an empty credential: client and server copied from *)
(* the reply (creds->client and ->server are NULL), then times and flags;  *)
(* the session key, addresses and encoded ticket are copied unchanged.     *)
StashAsReply(rep) ==
  [client |-> rep.client, server |-> rep.server, starttime |-> rep.starttime,
   endtime |-> rep.endtime, renewTill |-> rep.renewTill, renewable |-> rep.renewable]

=============================================================================
