--------------------------- MODULE InitCredsStep ---------------------------
(***************************************************************************)
(* The step API of get_in_tkt.c (krb5_init_creds_init / _step / _get /    *)
(* _free) driven by krb5int_init_creds_get_ext, which owns the transport   *)
(* loop, against KDCs that may answer each request with any reply.         *)
(*                                                                         *)
(* ctx is krb5_init_creds_context: the request under construction and the *)
(* fields step_reply and step_request keep between calls.  Each call of   *)
(* krb5_init_creds_step is one atomic action (the step API holds no I/O   *)
(* and nothing else touches ctx); sendto_kdc is the other action.         *)
(***************************************************************************)
EXTENDS KrbKdc, KrbAlgorithms

CONSTANTS
  MAX_IN_TKT_LOOPS, \* 16 in the source
  PrepareTypes,     \* pa-types krb5_do_preauth can answer
  TryAgainTypes,    \* pa-types whose module has a tryagain method
  PasswordTypes,    \* pa-types whose answer needs the AS key (gak_fct)
  PreferredPreauth, \* tokens of preferred_preauth_types
  Services,         \* in_tkt_service choices: NULL or name components
  StartTimes,       \* start_time offsets a caller may pass
  RenewLifes,       \* renew_lifetime settings (0 = none)
  TktLifes,         \* tkt_life settings (option, ticket_lifetime, or 24h)
  PreauthLists,     \* pa-type lists the caller may set as the preauth_list option (NULL: unset)
  Canonicalize,     \* canonicalize settings the caller may choose
  Nonce,            \* the context's random nonce
  KdcBudget,        \* requests the KDCs answer before the network fails
  MaxGetCalls       \* times the application calls krb5_init_creds_get

VARIABLES
  ctx,          \* krb5_init_creds_context
  drv,          \* where the application is: idle, in get_ext (step/send), returned, freed
  inMsg,        \* reply handed to the next step (NULL: empty krb5_data)
  outMsg,       \* request produced by the last step
  outRealm,     \* realm produced by the last step
  tcpOnly,      \* get_ext's tcp_only
  result,       \* code get_ext returned
  gets,         \* calls of krb5_init_creds_get so far
  sends,        \* requests the KDCs answered so far
  lastSent,     \* the request most recently put on the wire, its realm and transport
  referred,     \* realms KDCs have named in WRONG_REALM errors
  appCreds,     \* what krb5_init_creds_get_creds last copied out
  appError      \* what krb5_init_creds_get_error last returned (NotCalled before)

vars == <<ctx, drv, inMsg, outMsg, outRealm, tcpOnly, result, gets, sends,
          lastSent, referred, appCreds, appError>>

NotCalled == [code |-> "not called", error |-> NULL]

NoKey == "none"     \* as_key.length == 0
NoSalt == "none"    \* salt.length == SALT_TYPE_AFS_LENGTH && salt.data == NULL
KdcCode(e) == e     \* err_reply->error + ERROR_TABLE_BASE_krb5

----------------------------------------------------------------------------
(* Collaborators outside get_in_tkt.c (preauth2.c, fast.c, gic_pwd.c),    *)
(* modelled from their contract in the spec, without FAST armor.          *)

(* gak_fct: string-to-key of the password with the current salt; the     *)
(* prompter may fail.                                                    *)
GetAsKey(salt, ok) == IF ok THEN [code |-> "OK", key |-> salt]
                      ELSE [code |-> "GAK_FAILED", key |-> NoKey]

(* krb5_do_preauth on the hints to use: no hints, no padata; otherwise    *)
(* the methods that can answer produce padata, a password method without  *)
(* an AS key first calling gak_fct.  Hints that are bare pa-types carry no *)
(* ETYPE-INFO or PW-SALT, so ctx->salt is left as it is; gak_fct salts     *)
(* with the request client's default salt, kept local to it.              *)
DoPreauth(c, hints, ok) ==
  LET types == {hints[i] : i \in DOMAIN hints} \cap PrepareTypes
      salt  == IF c.salt = NoSalt THEN c.request.client.realm ELSE c.salt
      gak   == GetAsKey(salt, ok)
      pw    == types \cap PasswordTypes # {}
  IN  IF hints = NULL THEN [code |-> "OK", padata |-> {}, salt |-> c.salt, asKey |-> c.asKey]
      ELSE IF pw /\ c.asKey = NoKey /\ gak.code # "OK"
        THEN [code |-> gak.code, padata |-> {}, salt |-> c.salt, asKey |-> c.asKey]
      ELSE [code |-> "OK", padata |-> types, salt |-> c.salt,
            asKey |-> IF pw /\ c.asKey = NoKey THEN gak.key ELSE c.asKey]

(* krb5_do_preauth_tryagain: only modules with a tryagain method act.     *)
DoPreauthTryAgain(c) ==
  LET types == {c.preauthToUse[i] : i \in DOMAIN c.preauthToUse} \cap TryAgainTypes
  IN  [code   |-> IF types = {} THEN "GENERIC" ELSE "OK",
       padata |-> IF types = {} THEN c.request.padata ELSE types,
       salt   |-> c.salt, asKey |-> c.asKey]

(* krb5int_fast_process_error without armor: retry iff there is e-data,   *)
(* and for PREAUTH_REQUIRED the e-data decoded as padata.                 *)
FastProcessError(err) ==
  [retry  |-> err.edata # <<>>,
   padata |-> IF err.error = "PREAUTH_REQUIRED" /\ err.edata # <<>> THEN err.edata ELSE NULL]

----------------------------------------------------------------------------
(* init_creds_validate_reply: drop the previous error and reply, then     *)
(* classify the new one.                                                  *)
ValidateReply(c, in) ==
  LET c1 == [c EXCEPT !.errReply = NULL, !.reply = NULL]
  IN  CASE in.type = "ERROR" /\ in.error = "RESPONSE_TOO_BIG"
             -> [code |-> "RESPONSE_TOO_BIG", ctx |-> c1]
        [] in.type = "ERROR"  -> [code |-> "OK", ctx |-> [c1 EXCEPT !.errReply = in]]
        [] in.type = "V4"     -> [code |-> "V4_REPLY", ctx |-> c1]
        [] in.type = "BAD"    -> [code |-> "MSG_TYPE", ctx |-> c1]
        [] in.type = "AS_REP" -> [code |-> "OK", ctx |-> [c1 EXCEPT !.reply = in]]

(* init_creds_step_reply, error branch. *)
StepReplyError(c) ==
  LET err   == c.errReply
      fe    == FastProcessError(err)
      canon == "CANONICALIZE" \in c.request.options \/ Enterprise
  IN  IF err.error = "PREAUTH_REQUIRED" /\ fe.retry
        THEN [code |-> "OK", complete |-> FALSE,
              ctx |-> [c EXCEPT !.preauthToUse = SortPadata(fe.padata, PreferredPreauth)]]
      ELSE IF canon /\ err.error = "WRONG_REALM"
        THEN IF err.crealm = NULL
               THEN [code |-> "WRONG_REALM", complete |-> FALSE, ctx |-> c]
             ELSE [code |-> "OK", complete |-> FALSE,
                   ctx |-> [c EXCEPT !.request.client.realm = err.crealm]]
      ELSE [code |-> IF fe.retry THEN "OK" ELSE KdcCode(err.error),
            complete |-> FALSE, ctx |-> c]

(* init_creds_step_reply, AS-REP branch: loop limit, salt from the reply  *)
(* client if none yet, decrypt with the AS key or else with a fresh key   *)
(* from gak_fct, verify against request_time, stash.                      *)
(* No salt from pre-auth yet: krb5_principal2salt of the reply's client.   *)
ReplySalt(c, rep) == IF c.salt = NoSalt THEN rep.client.realm ELSE c.salt

(* Mutant: a held AS key taken as the reply key, gak_fct called only when *)
(* there is none ("if we haven't get gotten a key, get it now").          *)
DecryptsWithAnyAsKey(c, rep) == c.asKey # NoKey

(* decrypt_as_reply with ctx->as_key, when there is one, succeeds only if  *)
(* it is the key the KDC used; otherwise gak_fct is asked for a new key.   *)
DecryptsWithAsKey(c, rep) == c.asKey # NoKey /\ c.asKey = rep.key

StepReplyAsRep(c, ok) ==
  LET rep   == c.reply
      salt  == ReplySalt(c, rep)
      first == DecryptsWithAsKey(c, rep)
      gak   == GetAsKey(salt, ok)
      c1    == [c EXCEPT !.salt = salt,
                         !.asKey = IF first \/ gak.code # "OK" THEN c.asKey ELSE gak.key]
      v     == VerifyAsReply(c.requestTime, c.request, rep)
      c2    == [c1 EXCEPT !.reply = v.reply]
      Fail(code, cx) == [code |-> code, complete |-> FALSE, ctx |-> cx]
  IN  IF c.loopcount >= MAX_IN_TKT_LOOPS THEN Fail("GET_IN_TKT_LOOP", c)
      ELSE IF ~first /\ gak.code # "OK" THEN Fail(gak.code, c1)
      ELSE IF c1.asKey # rep.key THEN Fail("BAD_INTEGRITY", c1)
      ELSE IF v.code # "OK" THEN Fail(v.code, c2)
      ELSE [code |-> "OK", complete |-> TRUE,
            ctx |-> [c2 EXCEPT !.cred = StashAsReply(v.reply)]]

StepReply(c, in, ok) ==
  LET v == ValidateReply(c, in)
  IN  IF v.code # "OK" THEN [code |-> v.code, complete |-> FALSE, ctx |-> v.ctx]
      ELSE IF v.ctx.errReply # NULL THEN StepReplyError(v.ctx)
      ELSE StepReplyAsRep(v.ctx, ok)

----------------------------------------------------------------------------
(* init_creds_step_request: rebuild the server from the (possibly         *)
(* referred) client realm; on the first pass take request_time, encode     *)
(* the request body for pre-auth, then set from and rtime; then either    *)
(* run the pre-auth methods (no error kept) or ask them to try again      *)
(* (an error kept), and encode the request as the previous request.       *)
(* Mutant: the server built once, on the first pass, and kept after a     *)
(* referral changes the client realm.                                      *)
RequestServerBuiltOnce(c) ==
  IF c.request.server = NULL THEN BuildInTktName(c.service, c.request.client)
  ELSE c.request.server

(* The server is freed and rebuilt from the current client every pass.    *)
RequestServer(c) == BuildInTktName(c.service, c.request.client)

StepRequest(c, ok) ==
  LET first == c.loopcount = 0
      r0    == [c.request EXCEPT !.server = RequestServer(c)]
      rt    == IF first THEN Now ELSE c.requestTime
      from  == AddInt32(rt, c.startTime)
      rtime == LET t == AddInt32(from, c.renewLife) IN IF t < r0.till THEN r0.till ELSE t
      r1    == IF ~first THEN r0
               ELSE IF c.renewLife > 0
                 THEN [r0 EXCEPT !.from = from, !.rtime = rtime,
                                 !.options = @ \ {"RENEWABLE_OK"}]
               ELSE [r0 EXCEPT !.from = from, !.rtime = 0]
      c1    == [c EXCEPT !.request = r1, !.requestTime = rt,
                         !.encodedBody = IF first THEN r0 ELSE c.encodedBody]
      pa    == IF c.errReply = NULL THEN DoPreauth(c1, c.preauthToUse, ok)
               ELSE DoPreauthTryAgain(c1)
      c2    == [c1 EXCEPT !.request.padata = pa.padata, !.salt = pa.salt, !.asKey = pa.asKey]
      c3    == [c2 EXCEPT !.encodedPrev = c2.request]
  IN  IF c.errReply # NULL /\ (c.preauthToUse = NULL \/ pa.code # "OK")
        THEN [code |-> KdcCode(c.errReply.error), ctx |-> c1]
      ELSE IF pa.code # "OK" THEN [code |-> pa.code, ctx |-> c2]
      ELSE [code |-> "OK", ctx |-> c3]

(* krb5_init_creds_step: with a reply, step_reply first; RESPONSE_TOO_BIG *)
(* copies the previous request to out and carries on as success; then    *)
(* step_request, the server realm as the realm to send to, and loopcount  *)
(* incremented.                                                           *)
InitCredsStep(c, in, ok) ==
  LET sr   == IF in = NULL THEN [code |-> "OK", complete |-> FALSE, ctx |-> c]
              ELSE StepReply(c, in, ok)
      big  == sr.code = "RESPONSE_TOO_BIG"
      out1 == IF big THEN c.encodedPrev ELSE NULL
      sq   == StepRequest(sr.ctx, ok)
  IN  IF (sr.code # "OK" /\ ~big) \/ sr.complete
        THEN [code |-> sr.code, out |-> out1, realm |-> NULL,
              complete |-> sr.complete, ctx |-> sr.ctx]
      ELSE IF sq.code # "OK"
        THEN [code |-> sq.code, out |-> out1, realm |-> NULL, complete |-> FALSE, ctx |-> sq.ctx]
      ELSE [code |-> "OK", out |-> sq.ctx.encodedPrev, realm |-> sq.ctx.request.server.realm,
            complete |-> FALSE, ctx |-> [sq.ctx EXCEPT !.loopcount = @ + 1]]

----------------------------------------------------------------------------
(* krb5_init_creds_init: the client principal copied, kdc_options from    *)
(* the options (canonicalize; postdating iff start_time > 0; tkt_life;     *)
(* RENEWABLE iff renew_life > 0; RENEWABLE_OK from kdc_default_options),   *)
(* the salt unset, a random nonce and loopcount 0.                         *)
InitOptions(canon, st, rl) ==
  {"RENEWABLE_OK"} \cup (IF canon THEN {"CANONICALIZE"} ELSE {})
                  \cup (IF st > 0 THEN {"ALLOW_POSTDATE", "POSTDATED"} ELSE {})
                  \cup (IF rl > 0 THEN {"RENEWABLE"} ELSE {})

(* make_preauth_list with the option's explicit length: one empty pa-data *)
(* element per listed type, in the caller's order.                        *)
InitPreauthList(pl) == IF pl = NULL THEN NULL ELSE [i \in 1..Len(pl) |-> pl[i]]

InitCtx(canon, st, tl, rl, pl) ==
  [request |-> [client |-> ClientPrinc(HomeRealm, ClientName), server |-> NULL,
                options |-> InitOptions(canon, st, rl), from |-> 0, till |-> 0,
                rtime |-> 0, nonce |-> Nonce, padata |-> {}],
   service |-> NULL, startTime |-> st, tktLife |-> tl, renewLife |-> rl, requestTime |-> 0,
   loopcount |-> 0, errReply |-> NULL, reply |-> NULL, preauthToUse |-> InitPreauthList(pl),
   salt |-> NoSalt, asKey |-> NoKey, encodedBody |-> NULL, encodedPrev |-> NULL,
   cred |-> NULL]

Init ==
  /\ \E canon \in Canonicalize, st \in StartTimes, tl \in TktLifes, rl \in RenewLifes,
       pl \in PreauthLists :
       ctx = InitCtx(canon, st, tl, rl, pl)
  /\ drv = "idle"
  /\ inMsg = NULL /\ outMsg = NULL /\ outRealm = NULL /\ tcpOnly = FALSE
  /\ result = NULL /\ gets = 0 /\ sends = 0 /\ lastSent = NULL
  /\ referred = {} /\ appCreds = NULL /\ appError = NotCalled

----------------------------------------------------------------------------
(* krb5_init_creds_get -> krb5int_init_creds_get_ext: return 0 at once if *)
(* ctx->reply is set, else enter the loop with an empty reply and         *)
(* tcp_only 0.                                                            *)
CallGet ==
  /\ drv \in {"idle", "returned"}
  /\ gets < MaxGetCalls
  /\ gets' = gets + 1
  /\ IF ctx.reply # NULL
       THEN drv' = "returned" /\ result' = "OK" /\ UNCHANGED <<inMsg, tcpOnly>>
       ELSE drv' = "step" /\ inMsg' = NULL /\ tcpOnly' = FALSE /\ UNCHANGED result
  /\ UNCHANGED <<ctx, outMsg, outRealm, sends, lastSent, referred, appCreds, appError>>

(* One pass of the get_ext loop body up to sendto_kdc: krb5_init_creds_step *)
(* and the decision on its code and flags.                                  *)
Step ==
  /\ drv = "step"
  /\ \E ok \in BOOLEAN :
       LET s == InitCredsStep(ctx, inMsg, ok) IN
       /\ ctx' = s.ctx /\ outMsg' = s.out /\ outRealm' = s.realm
       /\ IF s.code = "RESPONSE_TOO_BIG" /\ ~tcpOnly
            THEN tcpOnly' = TRUE /\ drv' = "send" /\ UNCHANGED result
          ELSE IF s.code # "OK" \/ s.complete
            THEN drv' = "returned" /\ result' = s.code /\ UNCHANGED tcpOnly
          ELSE drv' = "send" /\ UNCHANGED <<tcpOnly, result>>
  /\ UNCHANGED <<inMsg, gets, sends, lastSent, referred, appCreds, appError>>

(* krb5_init_creds_get_creds: copy the stashed credential out. *)
GetCreds ==
  /\ drv \in {"idle", "returned"}
  /\ appCreds' = ctx.cred
  /\ UNCHANGED <<ctx, drv, inMsg, outMsg, outRealm, tcpOnly, result, gets, sends,
                 lastSent, referred, appError>>

(* krb5_init_creds_set_service: in_tkt_service replaced by a copy of the   *)
(* service name; the next step_request builds the server from it.          *)
SetService ==
  /\ drv \in {"idle", "returned"}
  /\ \E svc \in Services \ {NULL} : ctx' = [ctx EXCEPT !.service = svc]
  /\ UNCHANGED <<drv, inMsg, outMsg, outRealm, tcpOnly, result, gets, sends,
                 lastSent, referred, appCreds, appError>>

(* Mutant: the client principal copied without the NULL check, which fails *)
(* for a KRB-ERROR that names no client.                                   *)
GetErrorCopiesClient(c) ==
  IF c.errReply = NULL THEN [code |-> "OK", error |-> NULL]
  ELSE IF c.errReply.crealm = NULL THEN [code |-> "EINVAL", error |-> NULL]
  ELSE [code |-> "OK", error |-> c.errReply]

(* krb5_init_creds_get_error: nothing when no error is held, else a deep   *)
(* copy of err_reply (code, client if any, server, text, e-data).          *)
GetErrorCopy(c) ==
  [code |-> "OK", error |-> c.errReply]

GetError ==
  /\ drv \in {"idle", "returned"}
  /\ appError' = GetErrorCopy(ctx)
  /\ UNCHANGED <<ctx, drv, inMsg, outMsg, outRealm, tcpOnly, result, gets, sends,
                 lastSent, referred, appCreds>>

(* krb5_init_creds_free: the context is gone; nothing acts afterwards. *)
Free ==
  /\ drv \in {"idle", "returned"}
  /\ drv' = "freed"
  /\ UNCHANGED <<ctx, inMsg, outMsg, outRealm, tcpOnly, result, gets, sends,
                 lastSent, referred, appCreds, appError>>

Done == drv = "freed" /\ UNCHANGED vars
----------------------------------------------------------------------------
(* krb5_sendto_kdc: the request reaches the KDC of realm and its reply     *)
(* comes back, or, once the KDCs have answered KdcBudget requests, no KDC  *)
(* answers and get_ext returns the transport error.                        *)
Send ==
  /\ drv = "send"
  /\ \/ /\ sends < KdcBudget
        /\ \E rep \in KdcReplies(outMsg, outRealm, tcpOnly) :
             /\ inMsg' = rep
             /\ referred' = IF rep.type = "ERROR" /\ rep.error = "WRONG_REALM"
                                /\ rep.crealm # NULL
                             THEN referred \cup {rep.crealm} ELSE referred
        /\ sends' = sends + 1
        /\ lastSent' = [req |-> outMsg, realm |-> outRealm, tcp |-> tcpOnly,
                         service |-> ctx.service, body |-> ctx.encodedBody]
        /\ drv' = "step"
        /\ UNCHANGED result
     \/ /\ sends = KdcBudget
        /\ drv' = "returned" /\ result' = "KDC_UNREACH"
        /\ UNCHANGED <<inMsg, sends, lastSent, referred>>
  /\ UNCHANGED <<ctx, outMsg, outRealm, tcpOnly, gets, appCreds, appError>>

Next == CallGet \/ Step \/ Send \/ GetCreds \/ SetService \/ GetError \/ Free \/ Done

Spec == Init /\ [][Next]_vars
----------------------------------------------------------------------------
Principals == {ClientPrinc(r, n) : r \in Realms, n \in {ClientName, CanonName}}
              \cup {TgsPrinc(r) : r \in Realms}
              \cup {[realm |-> r, comps |-> svc] : r \in Realms, svc \in Services \ {NULL}}
Creds == [client : Principals, server : UNION {Principals, {[realm |-> r, comps |-> <<TgsName, q>>] : r, q \in Realms}},
          starttime : Int, endtime : Int, renewTill : Int, renewable : BOOLEAN]

TypeOK ==
  /\ drv \in {"idle", "step", "send", "returned", "freed"}
  /\ ctx.request.client \in {ClientPrinc(r, ClientName) : r \in Realms}
  /\ ctx.loopcount \in Nat
  /\ ctx.salt \in Realms \cup {NoSalt}
  /\ ctx.asKey \in Realms \cup {NoKey}
  /\ ctx.cred \in {NULL} \cup Creds
  /\ appCreds \in {NULL} \cup Creds
  /\ appError \in {NotCalled} \cup [code : {"OK", "EINVAL"}, error : {NULL} \cup UNION
       {KdcErrors(r, FALSE) : r \in Realms}]
  /\ tcpOnly \in BOOLEAN
  /\ sends \in 0..KdcBudget /\ gets \in 0..MaxGetCalls

(* Every AS-REQ the step API puts on the wire names a client realm that is *)
(* the caller's or one a KDC referred it to, asks for the server that      *)
(* build_in_tkt_name gives for that client (so a WRONG_REALM referral      *)
(* moves client and server together), and goes to the KDC of that realm   *)
(* (krb5_init_creds_step returns the server's realm).                      *)
RequestAddressing ==
  lastSent # NULL =>
    LET r == lastSent.req IN
    /\ r.client.realm \in {HomeRealm} \cup referred
    /\ r.server = BuildInTktName(lastSent.service, r.client)
    /\ lastSent.realm = r.server.realm

(* A credential stashed by step_reply comes from an AS-REP that answers    *)
(* the request last sent: same nonce, decrypted under the key the KDC      *)
(* used, for the ticket's own server, for the client and server asked for  *)
(* unless canonicalisation was requested of a TGT, starting at from when   *)
(* postdated and renewable no longer than asked.                           *)
CredentialBinding ==
  ctx.cred # NULL =>
    LET req == lastSent.req
        rep == ctx.reply
        canon == "CANONICALIZE" \in req.options \/ Enterprise
    IN  /\ rep.nonce = req.nonce
        /\ ctx.asKey = rep.key
        /\ ctx.cred.server = rep.tktServer
        /\ \/ ctx.cred.client = req.client /\ ctx.cred.server = req.server
           \/ canon /\ IsTgsPrinc(req.server) /\ IsTgsPrinc(ctx.cred.server)
        /\ "POSTDATED" \in req.options => ctx.cred.starttime = req.from
        /\ "RENEWABLE" \in req.options => ctx.cred.renewTill =< req.rtime

(* Spec 7: PREAUTH_REQUIRED with e-data naming pa-types, and, when        *)
(* canonicalising, WRONG_REALM naming a realm, are consumed by the step    *)
(* API and cause another request; krb5_init_creds_get does not return     *)
(* that KDC error for them.                                                *)
Consumable(m) ==
  /\ m # NULL /\ m.type = "ERROR"
  /\ \/ m.error = "PREAUTH_REQUIRED" /\ m.edata # <<>>
     \/ /\ m.error = "WRONG_REALM" /\ m.crealm # NULL
        /\ ("CANONICALIZE" \in ctx.request.options \/ Enterprise)

LocallyConsumedErrors ==
  [][drv = "step" /\ Consumable(inMsg) /\ drv' = "returned" => result' # inMsg.error]_vars

(* Spec 4.8/4.9: after RESPONSE_TOO_BIG the request is sent again over TCP *)
(* (get_ext sets tcp_only when krb5_init_creds_step returns that code).    *)
TooBigFallsBackToTcp ==
  [][drv = "step" /\ inMsg = TooBig /\ drv' = "send" => tcpOnly']_vars

(* Spec 3.1: the loop counter never exceeds MAX_IN_TKT_LOOPS, whatever     *)
(* mix of KDC errors and replies the step API is fed.                      *)
LoopBound == ctx.loopcount =< MAX_IN_TKT_LOOPS

(* krb5_init_creds_get returns 0 only when a credential has been stashed   *)
(* for krb5_init_creds_get_creds to copy out.                              *)
GetResultConsistent == drv = "returned" /\ result = "OK" => ctx.cred # NULL

(* Spec 3.10 / 8: without SYNC_KDCTIME a ticket for now whose start time   *)
(* lies outside the clock skew of the local clock is rejected.             *)
SkewedStartRejected ==
  (ctx.cred # NULL /\ ~SyncKdcTime /\ "POSTDATED" \notin ctx.request.options)
    => Abs(ctx.cred.starttime - ctx.requestTime) =< ClockSkew

(* Spec 7 (get_error): the most recent KRB-ERROR is kept on the context.   *)
(* When krb5_init_creds_get has surfaced a KDC error, krb5_init_creds_get_  *)
(* error hands the application a copy of that very error, whichever of     *)
(* step_reply or step_request (the failed tryagain) gave up on it.          *)
ErrorReportMatchesResult ==
  [][GetError /\ drv = "returned" /\ result \in {KdcCode(e.error) : e \in KdcErrors(HomeRealm, TRUE)}
       => appError'.code = "OK" /\ appError'.error # NULL
          /\ KdcCode(appError'.error.error) = result]_vars

(* Spec 4.7/4.9: a reply encrypted in the client's long-term key for the    *)
(* realm the request was sent to is never refused as BAD_INTEGRITY: an AS  *)
(* key that pre-auth derived for the realm before a WRONG_REALM referral   *)
(* is tried first and fails, and step_reply must then fetch a new key      *)
(* from gak_fct, salted from the reply's client.                            *)
GenuineReplyDecrypts ==
  [][drv = "step" /\ inMsg # NULL /\ inMsg.type = "AS_REP"
     /\ inMsg.key = lastSent.req.client.realm
       => result' # "BAD_INTEGRITY"]_vars

(* Spec 4.9: step_request hands encoded_request_body to the pre-auth       *)
(* methods and FAST, which checksum it (PKINIT's paChecksum, the FAST      *)
(* request checksum); the KDC verifies the checksum against the body it   *)
(* receives, so the body signed is the body of the request sent with the  *)
(* padata.                                                                 *)
EncodedBodyMatchesSent ==
  lastSent # NULL /\ lastSent.req.padata # {} =>
    [lastSent.body EXCEPT !.padata = {}] = [lastSent.req EXCEPT !.padata = {}]

(* Spec 8: only the (MAX_IN_TKT_LOOPS+1)th iteration fails with            *)
(* GET_IN_TKT_LOOP, so an AS-REP answering one of the first                *)
(* MAX_IN_TKT_LOOPS requests is never refused for the loop limit; the     *)
(* check at the head of init_creds_step_reply sees loopcount already      *)
(* incremented for the request being answered.                            *)
LastRoundAccepted ==
  [][drv = "step" /\ inMsg # NULL /\ inMsg.type = "AS_REP"
     /\ ctx.loopcount =< MAX_IN_TKT_LOOPS
       => result' # "GET_IN_TKT_LOOP"]_vars

=========================================================================
