------------------------------ MODULE GetInTkt ------------------------------
(***************************************************************************)
(* krb5_get_in_tkt, the all-in-one driver of get_in_tkt.c, with the       *)
(* helpers only it calls: make_preauth_list, send_as_request and           *)
(* decrypt_as_reply, and stash_as_reply into the caller's credential.     *)
(*                                                                         *)
(* One call, run by one thread to its return.  The steps are the entry     *)
(* code up to the loop (Start), one pass of the while (1) loop, which     *)
(* sends one AS-REQ and handles its answer (Iterate), and the code after   *)
(* the loop, decrypt, verify and stash (Finish).  The KDC of the request's *)
(* client realm answers with any reply of KrbKdc, or not at all.           *)
(***************************************************************************)
EXTENDS KrbKdc

LOCAL Seqs == INSTANCE SequencesExt

CONSTANTS
  MAX_IN_TKT_LOOPS,       \* 16 in the source
  KRB5_REFERRAL_MAXHOPS,  \* k5-int.h
  ObtainTypes,            \* pa-types krb5_obtain_padata can answer
  PasswordTypes,          \* pa-types whose answer needs key_proc (the AS key)
  PreferredPreauth,       \* tokens of preferred_preauth_types for the realm
  Calls                   \* the arguments a caller may pass: creds, options, ptypes, ccache

VARIABLES
  args,           \* options, ptypes and whether a ccache was passed
  creds,          \* *creds, the caller's credential
  ccache,         \* credentials stored in the ccache; NULL when none was passed
  pc,             \* "entry", "loop" (top of while), "finish" (after break), "done"
  request,        \* the krb5_kdc_req, as last sent
  isTgtReq,       \* is_tgt_req
  preauthToUse,   \* preauth_to_use: a sequence of pa-types, or NULL
  loopcount,
  referralCount,  \* referral_count
  asReply,        \* as_reply
  result          \* the code returned (NULL while running)

vars == <<args, creds, ccache, pc, request, isTgtReq, preauthToUse, loopcount,
          referralCount, asReply, result>>

NoKey == "none"   \* keyblock.contents == 0
NoKdc == [type |-> "NONE"]   \* krb5_sendto_kdc fails: no KDC answered in time
KdcCode(e) == e              \* err_reply->error + ERROR_TABLE_BASE_krb5

----------------------------------------------------------------------------
(* Collaborators in preauth.c, modelled from their contract in the spec.  *)

(* krb5_obtain_padata: nothing to do without hints (request.padata is     *)
(* left as it is); otherwise the pa-data of the hinted types it knows,     *)
(* the password-based ones calling key_proc, which may fail.               *)
ObtainPadata(hints, req, ok) ==
  LET types == {hints[i] : i \in DOMAIN hints} \cap ObtainTypes
  IN  IF hints = NULL THEN [code |-> "OK", padata |-> req.padata]
      ELSE IF types \cap PasswordTypes # {} /\ ~ok
        THEN [code |-> "KEYPROC_FAILED", padata |-> req.padata]
      ELSE [code |-> "OK", padata |-> types]

(* krb5_process_padata on the reply: may fail, and do_more is set when the *)
(* KDC's padata asks for another round.                                    *)
ProcessPadata(rep, ok) ==
  [code |-> IF ok THEN "OK" ELSE "PREAUTH_FAILED", doMore |-> rep.more]

----------------------------------------------------------------------------
(* make_preauth_list: the types up to the 0 terminator, contents empty. *)
MakePreauthList(ptypes) ==
  SubSeq(ptypes, 1, Seqs!SelectInSeq(ptypes, LAMBDA t : t = 0) - 1)

(* What the KDC of the request's client realm may answer, over UDP or TCP. *)
KdcAnswers(req, tcp) ==
  KdcReplies(req, req.client.realm, tcp)
  \cup {[g EXCEPT !.more = TRUE] : g \in GoodReps(req, req.client.realm)}
  \cup {NoKdc}

(* The tail of send_as_request: a KRB-ERROR is returned as err_reply; any  *)
(* other non-AS-REP is V4_REPLY or MSG_TYPE; an AS-REP as as_reply.        *)
Classify(rep) ==
  CASE rep.type = "NONE"   -> [code |-> "KDC_UNREACH", err |-> NULL, rep |-> NULL]
    [] rep.type = "ERROR"  -> [code |-> "OK", err |-> rep, rep |-> NULL]
    [] rep.type = "V4"     -> [code |-> "V4_REPLY", err |-> NULL, rep |-> NULL]
    [] rep.type = "BAD"    -> [code |-> "MSG_TYPE", err |-> NULL, rep |-> NULL]
    [] rep.type = "AS_REP" -> [code |-> "OK", err |-> NULL, rep |-> rep]

(* send_as_request: sendto_kdc with tcp_only 0; RESPONSE_TOO_BIG sends the  *)
(* same packet again with tcp_only 1, once.  The set of outcomes.          *)
SendAsRequest(req) ==
  LET udp == KdcAnswers(req, FALSE)
  IN  {Classify(r) : r \in udp \ {TooBig}}
      \cup (IF TooBig \in udp THEN {Classify(r) : r \in KdcAnswers(req, TRUE)} ELSE {})

(* decrypt_as_reply without a decrypt key: key_proc with the salt of the   *)
(* reply's client, then decrypt_proc, which fails unless the key is the    *)
(* one the KDC used.  (enc_part2 is never decrypted beforehand here.)      *)
DecryptAsReply(rep, ok) ==
  IF ~ok THEN "KEYPROC_FAILED"
  ELSE IF rep.client.realm # rep.key THEN "BAD_INTEGRITY"
  ELSE "OK"

(* Mutant: the AS reply key copied in as the session key. *)
StashAsReplyWithAsKey(c, rep) ==
  [c EXCEPT !.key = rep.key, !.starttime = rep.starttime, !.endtime = rep.endtime,
            !.renewTill = rep.renewTill, !.renewable = rep.renewable,
            !.ticket = rep.tktServer]

(* stash_as_reply into the caller's credential: client and server copied  *)
(* only where creds has none, then the session key, times, flags and the   *)
(* ticket.                                                                 *)
StashAsReplyPreset(c, rep) ==
  [c EXCEPT !.client = IF @ = NULL THEN rep.client ELSE @,
            !.server = IF @ = NULL THEN rep.server ELSE @,
            !.key = "session", !.starttime = rep.starttime, !.endtime = rep.endtime,
            !.renewTill = rep.renewTill, !.renewable = rep.renewable,
            !.ticket = rep.tktServer]

(* Mutant: the cleanup frees the ticket but does not zero the keyblock. *)
StashCleanupKeepsKey(c) == [c EXCEPT !.ticket = NULL]

(* The cleanup of stash_as_reply on failure: the keyblock zeroed and       *)
(* freed, the ticket and addresses freed; times and flags stay.            *)
StashCleanup(c) == [c EXCEPT !.key = NoKey, !.ticket = NULL]
----------------------------------------------------------------------------
Init ==
  /\ args \in Calls
  /\ creds = [args.creds EXCEPT !.renewable = FALSE, !.key = NoKey, !.ticket = NULL]
  /\ ccache = IF args.ccache THEN {} ELSE NULL
  /\ pc = "entry"
  /\ request = NULL /\ isTgtReq = FALSE /\ preauthToUse = NULL
  /\ loopcount = 0 /\ referralCount = 0 /\ asReply = NULL /\ result = NULL

(* Entry: REALM_MISMATCH unless client and server share a realm; then the  *)
(* request from the caller's credential (nonce 0), ptypes turned into      *)
(* preauth_to_use, and is_tgt_req.                                         *)
Start ==
  /\ pc = "entry"
  /\ IF creds.client.realm # creds.server.realm
       THEN /\ pc' = "done" /\ result' = "IN_TKT_REALM_MISMATCH"
            /\ UNCHANGED <<request, preauthToUse, isTgtReq>>
       ELSE /\ request' = [client |-> creds.client, server |-> creds.server,
                           options |-> args.options, from |-> creds.starttime,
                           till |-> creds.endtime, rtime |-> creds.renewTill,
                           nonce |-> 0, padata |-> NULL]
            /\ preauthToUse' = IF args.ptypes = NULL THEN NULL
                               ELSE MakePreauthList(args.ptypes)
            /\ isTgtReq' = TgtIsLocalRealm(creds.client, creds.server)
            /\ pc' = "loop" /\ UNCHANGED result
  /\ UNCHANGED <<args, creds, ccache, loopcount, referralCount, asReply>>

CanonFlag == "CANONICALIZE" \in args.options \/ Enterprise

(* Mutant: loopcount++ dropped from the loop test. *)
LoopcountUnchanged(n) == n

LoopcountNext(n) == n + 1

HopLimitExceeded(n) == n > KRB5_REFERRAL_MAXHOPS

Stop(code) == pc' = "done" /\ result' = code

(* The answer s to the request req just sent, as the loop body handles it. *)
HandleAnswer(req, s) ==
  LET err == s.err IN
  CASE s.code # "OK" ->
         Stop(s.code) /\ request' = req /\ UNCHANGED <<referralCount, asReply, preauthToUse>>
    [] err # NULL /\ err.error = "PREAUTH_REQUIRED" /\ err.edata # <<>> ->
         /\ preauthToUse' = SortPadata(err.edata, PreferredPreauth)
         /\ request' = req /\ pc' = "loop"
         /\ UNCHANGED <<referralCount, asReply, result>>
    [] err # NULL /\ CanonFlag /\ err.error = "WRONG_REALM" ->
         /\ referralCount' = referralCount + 1
         /\ UNCHANGED <<asReply, preauthToUse>>
         /\ IF HopLimitExceeded(referralCount + 1) \/ err.crealm = NULL
              THEN Stop("WRONG_REALM") /\ request' = req
              ELSE /\ request' = [req EXCEPT
                                   !.client = [creds.client EXCEPT !.realm = err.crealm],
                                   !.server = RewriteServerRealm(creds.server, err.crealm,
                                                                 isTgtReq)]
                   /\ pc' = "loop" /\ UNCHANGED result
    [] err # NULL ->
         Stop(KdcCode(err.error)) /\ request' = req
         /\ UNCHANGED <<referralCount, asReply, preauthToUse>>
    [] OTHER ->
         /\ request' = req /\ asReply' = s.rep
         /\ UNCHANGED <<referralCount, preauthToUse>>
         /\ \E ok \in BOOLEAN :
              LET pp == ProcessPadata(s.rep, ok) IN
              IF pp.code # "OK" THEN Stop(pp.code)
              ELSE IF pp.doMore THEN pc' = "loop" /\ UNCHANGED result
              ELSE pc' = "finish" /\ UNCHANGED result

(* One pass of while (1): the loop test, krb5_obtain_padata, preauth_to_use *)
(* freed, the nonce set to the time, the request sent, the answer handled. *)
Iterate ==
  /\ pc = "loop"
  /\ loopcount' = LoopcountNext(loopcount)
  /\ IF loopcount > MAX_IN_TKT_LOOPS
       THEN Stop("GET_IN_TKT_LOOP")
            /\ UNCHANGED <<request, preauthToUse, referralCount, asReply>>
       ELSE \E ok \in BOOLEAN :
              LET op  == ObtainPadata(preauthToUse, request, ok)
                  req == [request EXCEPT !.padata = op.padata, !.nonce = Now]
              IN  IF op.code # "OK"
                    THEN Stop(op.code)
                         /\ UNCHANGED <<request, preauthToUse, referralCount, asReply>>
                  ELSE /\ preauthToUse' = NULL
                       /\ \E s \in SendAsRequest(req) : HandleAnswer(req, s)
  /\ UNCHANGED <<args, creds, ccache, isTgtReq>>
(* After the loop: decrypt_as_reply, verify_as_reply against the time of   *)
(* the last request, stash_as_reply, whose last step stores the credential *)
(* in the ccache (which may fail, e.g. on a full disk).                    *)
Finish ==
  /\ pc = "finish"
  /\ \E keyOk, storeOk \in BOOLEAN :
       LET d  == DecryptAsReply(asReply, keyOk)
           v  == VerifyAsReply(Now, request, asReply)
           st == StashAsReplyPreset(creds, v.reply)
       IN  CASE d # "OK" -> Stop(d) /\ UNCHANGED <<creds, ccache, asReply>>
             [] v.code # "OK" -> Stop(v.code) /\ asReply' = v.reply
                                 /\ UNCHANGED <<creds, ccache>>
             [] ccache # NULL /\ ~storeOk ->
                  Stop("CC_WRITE") /\ asReply' = v.reply /\ creds' = StashCleanup(st)
                  /\ UNCHANGED ccache
             [] OTHER ->
                  Stop("OK") /\ asReply' = v.reply /\ creds' = st
                  /\ ccache' = IF ccache = NULL THEN NULL ELSE ccache \cup {st}
  /\ UNCHANGED <<args, request, isTgtReq, preauthToUse, loopcount, referralCount>>

(* krb5_get_in_tkt has returned. *)
Done == pc = "done" /\ UNCHANGED vars

Next == Start \/ Iterate \/ Finish \/ Done

(* One thread runs the call to its return, and sendto_kdc returns, with an *)
(* answer or with a timeout error: each step that is enabled is taken.     *)
Spec == Init /\ [][Next]_vars /\ WF_vars(Start) /\ WF_vars(Iterate) /\ WF_vars(Finish)
----------------------------------------------------------------------------
TypeOK ==
  /\ pc \in {"entry", "loop", "finish", "done"}
  /\ loopcount \in 0..MAX_IN_TKT_LOOPS + 2
  /\ referralCount \in 0..KRB5_REFERRAL_MAXHOPS + 1
  /\ preauthToUse \in {NULL} \cup Seq(Int)
  /\ creds.key \in {NoKey, "session"}
  /\ ccache = NULL \/ ccache \subseteq {c \in {creds} : c.key = "session"}
  /\ (pc = "done") = (result # NULL)

(* Every AS-REQ krb5_get_in_tkt sends names the caller's client, in the   *)
(* realm it now asks (home, or the last referral), and a server in that   *)
(* same realm: the krbtgt of that realm for a local TGT request, else the *)
(* caller's server name; send_as_request sends it to the client's realm.  *)
RequestAddressing ==
  pc \in {"loop", "finish"} =>
    LET r == request.client.realm IN
    /\ request.client = [creds.client EXCEPT !.realm = r]
    /\ request.server.realm = r
    /\ request.server.comps =
         IF creds.server = TgsPrinc(creds.client.realm) THEN <<TgsName, r>>
         ELSE creds.server.comps
    /\ r = creds.client.realm \/ referralCount > 0

(* When krb5_get_in_tkt returns, the caller's credential holds a session  *)
(* key and a ticket exactly when it returned 0, and a ccache passed in    *)
(* holds that credential exactly then: a failure anywhere, including the  *)
(* ccache store at the end of stash_as_reply, leaves no key material.    *)
CredsAgreeWithResult ==
  pc = "done" =>
    /\ (creds.key # NoKey) <=> (result = "OK")
    /\ (creds.ticket # NULL) <=> (result = "OK")
    /\ ccache # NULL => ((ccache = {creds}) <=> (result = "OK"))

(* Every call returns, whatever the KDCs answer: the loop test bounds the *)
(* passes, under the fairness of one thread running the call.             *)
Termination == <>(pc = "done")

(* krb5_get_in_tkt implements AsExchange: it returns 0 only holding a     *)
(* reply the KDC genuinely issued for the request last sent, returns once *)
(* and returns at all.                                                    *)
Exchange == INSTANCE AsExchange WITH
  outcome <- IF pc # "done" THEN "pending" ELSE IF result = "OK" THEN "ok" ELSE "failed",
  genuine <- asReply # NULL /\ Genuine(asReply, request)

ImplementsAsExchange == Exchange!Spec

(* Spec 3.1, 8 and scenario 6: at most MAX_IN_TKT_LOOPS requests are sent, *)
(* the 17th iteration failing with GET_IN_TKT_LOOP.  While the loop runs,  *)
(* loopcount is the number of requests sent so far.                        *)
RequestsBounded == pc \in {"loop", "finish"} => loopcount =< MAX_IN_TKT_LOOPS
====
