# TLA+ models of `src/lib/krb5/krb/get_in_tkt.c`

This directory holds TLA+ models of the Kerberos v5 client's initial-credential code: the AS exchange that turns a password or other pre-authentication into a TGT. The models are checked with TLC. Everything is translated from `src/lib/krb5/krb/get_in_tkt.c`. Code outside that file (pre-auth plugins, FAST, `gak_fct`, `IS_TGS_PRINC`) is modelled from its contract in `spec.md` and marked `spec_modelled` in `PROJECT.json`.

## The system

`get_in_tkt.c` has two drivers of the same AS exchange.

* **All-in-one driver** (`krb5_get_in_tkt`, `send_as_request`, `decrypt_as_reply`, `make_preauth_list`):
  * a loop of at most `MAX_IN_TKT_LOOPS` rounds;
  * it follows `WRONG_REALM` referrals up to `KRB5_REFERRAL_MAXHOPS`;
  * it falls back to TCP on `RESPONSE_TOO_BIG`.
* **Step API** (`krb5_init_creds_init`, `_step`, `_get`, `_get_creds`, `_get_error`, `_free`, and `krb5_get_init_creds` on top of them):
  * the context `krb5_init_creds_context` keeps the request under construction between calls;
  * it also keeps the last error, the last AS-REP, the pre-auth list, the salt, the AS key and the loop count;
  * `krb5_init_creds_step` consumes one reply (`init_creds_step_reply`, which calls `init_creds_validate_reply`) and builds the next request (`init_creds_step_request`);
  * `krb5int_init_creds_get_ext` owns the transport loop and calls `krb5_sendto_kdc`.

Both drivers share these helpers:
* `verify_as_reply`: the nonce, principal, postdate, lifetime and renewal checks, and the clock-skew check.
* `stash_as_reply`.
* `build_in_tkt_name`, `rewrite_server_realm` and `tgt_is_local_realm`.
* Three pure algorithms:
  * `krb5int_addint32`, saturating addition;
  * `sort_krb5_padata_sequence`, ordering pre-auth types by preference;
  * the enctype reordering loop of `krb5_get_in_tkt`.
* The profile lookups `krb5_libdefault_*`.

How the parts interact:
* The driver calls the request builder.
* The request goes to a KDC, through `sendto_kdc` or through the application.
* The reply is classified as an error, an AS-REP, a v4 reply or garbage.
* `PREAUTH_REQUIRED` with hints, and `WRONG_REALM` with canonicalisation, lead to another round.
* An AS-REP is decrypted with the AS key. If that fails, the driver asks `gak_fct` for a key and tries again.
* The reply is then verified and stashed.

Nothing runs concurrently inside the library. What is hard is the order of events:
* KDC replies that are wrong, repeated or unexpected;
* state carried from one round to the next: the error, the reply, the salt and key, the encoded body;
* referrals that change the realm in the middle of the loop;
* loop bounds;
* repeated API calls.

## Modules

| module | models | state and actions |
|---|---|---|
| `KrbAlgorithms` | `krb5int_addint32`, the 32-bit clock-skew test of `verify_as_reply`, `sort_krb5_padata_sequence`, the ktypes loop of `krb5_get_in_tkt` | operators only (`AddInt32`, `Wrap32`/`SkewExceeded`, `ParsePreauthTypes`/`BubbleToBase`/`SortPadata`, `ReorderStep`/`ReorderKtypes`), written from the C |
| `MCKrbAlgorithms` | checks them | one variable `input` holding one test case; `Init` enumerates every bounded input |
| `KrbAsCommon` | principals, message shapes, `build_in_tkt_name`, `rewrite_server_realm`, `tgt_is_local_realm`, `verify_as_reply`, `stash_as_reply` | operators shared by the drivers |
| `KrbKdc` | the KDCs (environment, not code) | the replies a KDC may send to an AS-REQ; each wrong AS-REP carries a ghost `fault` field that the client never reads |
| `InitCredsStep` | the step API with `get_ext` as the application driver, against arbitrary KDC answers | see below |
| `MCInitCredsStep` | model values for `InitCredsStep` | |
| `GetInTkt` | `krb5_get_in_tkt` with `make_preauth_list`, `send_as_request`, `decrypt_as_reply` and `stash_as_reply` into the caller's credential | see below |
| `MCGetInTkt` | model values for `GetInTkt` | the caller's argument choices `MCCalls` |
| `AsExchange` | what an AS exchange promises its caller | `outcome` and `genuine`; `GetInTkt` is shown to implement it |

### How `InitCredsStep` corresponds to the code

* **State.**
  * `ctx` is `krb5_init_creds_context`: the request fields that the checks tell apart, plus `errReply`, `reply`, `preauthToUse`, `salt`, `asKey`, `loopcount`, `requestTime`, `encodedBody`, `encodedPrev` and `cred`.
  * Keys are abstracted to a realm: string-to-key of the one password, salted for a realm, gives that realm's key.
  * Messages are records.
* **Operators.** Each is the whole C function, with its early returns as the `IF` chain and in the code's order:
  * `InitCredsStep` is `krb5_init_creds_step`;
  * `StepReply`, `StepReplyError` and `StepReplyAsRep` are `init_creds_step_reply`;
  * `ValidateReply` is `init_creds_validate_reply`;
  * `StepRequest` is `init_creds_step_request`.
* **Actions.**
  * `Init` is `krb5_init_creds_init`. The option choices are the constants `Canonicalize`, `StartTimes`, `TktLifes` and `RenewLifes`. `in_tkt_service` starts as NULL.
  * `SetService` is `krb5_init_creds_set_service`: the application may call it before or between calls of `krb5_init_creds_get`.
  * `GetError` is `krb5_init_creds_get_error`. `GetErrorCopy` is the copy it hands out, kept in `appError`; it survives `Free`.
  * `ReplySalt` is the default-salt fallback of `init_creds_step_reply` (lines 1641-1656).
  * `DoPreauth` (`krb5_do_preauth`, in `preauth2.c`) leaves `salt` alone: the hints are bare pa-types with no ETYPE-INFO or PW-SALT, and `gak_fct`'s default salt is local to it. Only the AS key it derives is kept, in `asKey`.
  * `DecryptsWithAsKey` is the first decryption attempt with `ctx->as_key` (lines 1670-1680). When it fails, `StepReplyAsRep` calls `gak_fct` again with the reply-derived salt and replaces `asKey`.
  * `InitPreauthList` is `make_preauth_list` as `krb5_init_creds_init` calls it for the `preauth_list` option (lines 1378-1385). The constant `PreauthLists` gives the choices: unset, or `<<2, 16>>`.
  * `CallGet` is `krb5_init_creds_get` entering `get_ext`. It returns at once when `ctx->reply` is set.
  * `Step` is one `krb5_init_creds_step` call plus `get_ext`'s decision on its code and flags.
  * `Send` is `krb5_sendto_kdc`. The reply comes from the KDC of the realm the step returned, or the transport fails once the budget is spent.
  * `GetCreds` is `krb5_init_creds_get_creds`.
  * `krb5int_init_creds_set_as_key_func` has no action: it swaps the `gak_fct` pointer, and the model's `gak_fct` already returns any outcome.
  * `Free` is `krb5_init_creds_free`.
  * `Done` is the freed context; nothing happens after it.
* **The KDCs** may answer with:
  * `PREAUTH_REQUIRED`, with or without pa-type hints;
  * an error carrying e-data;
  * `WRONG_REALM`, naming the other realm or no realm;
  * `C_PRINCIPAL_UNKNOWN`;
  * `RESPONSE_TOO_BIG`;
  * a v4 reply or garbage;
  * a faithful AS-REP;
  * an AS-REP with one field wrong: a canonicalised client, the nonce, the ticket server, a skewed start time, the renew-till, or the key.
* **Collaborators.** They are modelled by their contracts:
  * pre-auth types 2 (encrypted timestamp) and 16 (PKINIT) are known to `krb5_do_preauth`;
  * only 16 has a tryagain method;
  * only 2 needs the password through `gak_fct`, and the prompter may fail.

### How `GetInTkt` corresponds to the code

* **State.**
  * `args` holds the caller's arguments: options, `ptypes` (0-terminated), and whether a ccache was passed.
  * `creds` is `*creds`, with `key` (the keyblock) and `ticket` (the server the encoded ticket is for).
  * `ccache` is the set of credentials stored, or `NULL` if none was passed.
  * The locals of `krb5_get_in_tkt` are `request`, `isTgtReq`, `preauthToUse`, `loopcount`, `referralCount` and `asReply`.
  * `pc` is where the one thread is: entry, the top of `while (1)`, after `break`, or returned with `result`.
* **Actions.**
  * `Init` holds the caller's arguments, chosen from `Calls`.
  * `Start` is the entry code up to the loop (lines 583-673): `REALM_MISMATCH`, the request taken from `creds->times`, `make_preauth_list` and `is_tgt_req`.
  * `Iterate` is one pass of the loop (675-780), in this order:
    1. the loop test `loopcount++ > MAX_IN_TKT_LOOPS`;
    2. `krb5_obtain_padata`;
    3. `preauth_to_use` freed;
    4. the nonce set;
    5. `send_as_request`, including its one TCP resend on `RESPONSE_TOO_BIG`;
    6. the `PREAUTH_REQUIRED`, `WRONG_REALM` (with the hop test and `rewrite_server_realm`) and error branches, and `krb5_process_padata` with `do_more`.
  * `Finish` is lines 782-793: `decrypt_as_reply`, then `verify_as_reply`, then `stash_as_reply`. The last step of the stash is the ccache store, which may fail, and its cleanup is modelled too.
* **The KDC.** The KDC of the request's client realm answers with any reply of `KrbKdc`, or not at all (`KDC_UNREACH`). An AS-REP may also ask for another pre-auth round (`more`).
* **Collaborators.** `krb5_obtain_padata` and `krb5_process_padata` are modelled from their contracts.

## Runs

| run | cfg | expect | what it shows |
|---|---|---|---|
| algorithms | `MCKrbAlgorithms.cfg` | pass | Three results hold on every input in the bounds (see below). `AddInt32` equals the clamped sum on all of 4-bit `krb5_int32`. `SortPadata` equals "preferred types first in preference order, the rest in their order", for every padata list up to length 4 and five preference strings (including junk tokens and repeats). The ktypes loop yields the caller's known enctypes, in the caller's order and without duplicates. |
| step_core | `MCInitCredsStep.cfg` | pass | `TypeOK`. `RequestAddressing`: every request on the wire has a client realm that is home or referred; its server is what `build_in_tkt_name` gives for that client; it goes to that server's realm. `CredentialBinding`: a stashed credential matches the request last sent in nonce, key, ticket server, client and server (unless a TGT was canonicalised), postdated start and renew-till. `ErrorReportMatchesResult`: when get has surfaced a KDC error, `get_error` returns a copy of that error. `GenuineReplyDecrypts`: a reply from the realm the request went to, in that realm's key, is never refused as `BAD_INTEGRITY`, even when pre-auth left an AS key for the realm before a referral. `MaxGetCalls = 2`, so `set_service` and `get_error` also fall between two gets. 946,952 states. |
| step_consumed | `MCInitCredsStep_consumed.cfg` | violation | `LocallyConsumedErrors`: `PREAUTH_REQUIRED` with hints `<<2>>` is returned to the caller after one round. |
| step_toobig | `MCInitCredsStep_toobig.cfg` | violation | `TooBigFallsBackToTcp`: after `RESPONSE_TOO_BIG` the next request is sent without `tcp_only`. |
| step_loop | `MCInitCredsStep_loop.cfg` | violation | `LoopBound`: `loopcount` passes `MAX_IN_TKT_LOOPS` (2 in this cfg) on error replies. |
| step_twoget | `MCInitCredsStep_twoget.cfg` | violation | `GetResultConsistent`: the first get returns a `gak_fct` failure; the second get returns 0 with no credential. |
| step_skew | `MCInitCredsStep_skew.cfg` | violation | `SkewedStartRejected`: a reply starting at `now + skew + 1` is stashed. |
| step_rounds | `MCInitCredsStep_rounds.cfg` | violation | `LastRoundAccepted`: three `RESPONSE_TOO_BIG` answers, then the AS-REP to the fourth request is refused with `GET_IN_TKT_LOOP` under `MAX_IN_TKT_LOOPS = 4`. |
| step_body | `MCInitCredsStep_body.cfg` | violation | `EncodedBodyMatchesSent`: the second request carries padata, but the body encoded for pre-auth still has `from = 0`, while the request sent has `from = request_time + start_time`. |
| algorithms_skew | `MCKrbAlgorithms_skew.cfg` | violation | `SkewCheckSound`: with 4-bit timestamps, start −8 and now 6 are 14 apart, but the wrapped difference is 2 and passes a skew of 2. |
| gitk_core | `MCGetInTkt.cfg` | pass | Checked whatever the KDCs answer (9,884 states). `RequestAddressing`: every request names the caller's client in the current realm and a server in that same realm, either that realm's krbtgt or the caller's service. `CredsAgreeWithResult`: on return, the credential holds a key and a ticket, and the ccache holds the credential, exactly when the result is 0; this includes a failing ccache store. `Termination`: every call returns. `ImplementsAsExchange`: `krb5_get_in_tkt` refines `AsExchange`. |
| gitk_loop | `MCGetInTkt_loop.cfg` | violation | `RequestsBounded`: four requests are answered with `MAX_IN_TKT_LOOPS = 3`. |

Every property of a passing run has a mutant in `PROJECT.json`. The mutant is a plausible bug in the mapped code, and TLC finds it:

| mutant | property it breaks |
|---|---|
| lower bound unguarded in `krb5int_addint32` | `AddInt32Saturates` |
| swap instead of bubble in the sort | `SortPadataIsStablePreference` |
| slot `next` not compared in the ktypes loop | `ReorderKtypesHonoursCaller` |
| server built once and not rebuilt after a referral | `RequestAddressing` |
| nonce check dropped | `CredentialBinding` |
| key copied into the credential | `TypeOK` (step_core) |
| AS key copied into the caller's credential | `TypeOK` (gitk_core) |
| `rewrite_server_realm` leaves the krbtgt instance | `RequestAddressing` (gitk_core) |
| stash cleanup does not zero the keyblock | `CredsAgreeWithResult` |
| `loopcount++` dropped from the loop test | `Termination` |
| clock-skew test dropped | `ImplementsAsExchange` |
| `get_error` copies the client without the NULL check | `ErrorReportMatchesResult` |
| a held AS key assumed to decrypt, `gak_fct` called only without one | `GenuineReplyDecrypts` |

### Findings

The violated runs are disagreements between the code and the spec. The details are in `PROJECT.json`.

1. **`err_reply` is never cleared after `PREAUTH_REQUIRED` or a referral rewrite.**
   * Because of this, `init_creds_step_request` always takes the tryagain branch (line 1797), never `krb5_do_preauth`. This contradicts its own comment at line 1777.
   * Encrypted-timestamp pre-auth therefore cannot succeed through the step API.
   * A referral without a prior pre-auth list ends with `WRONG_REALM`.
2. **`RESPONSE_TOO_BIG` is converted into success.** The step then builds a new request, so `get_ext` never switches to TCP.
3. **The step API has no loop bound on error replies.** `loopcount` is checked only when an AS-REP arrives.
4. **`get_ext` treats `ctx->reply != NULL` as "finished".** `ctx->reply` is set before decryption and verification. After a failed reply, a second `krb5_init_creds_get` therefore returns 0 with no credential.
5. **The clock-skew check is dead in the step API.** `from` is always `request_time + start_time`, which is never 0.
6. **`krb5_get_in_tkt` sends `MAX_IN_TKT_LOOPS + 1` requests.** The loop test `loopcount++ > MAX` allows 17 requests, while the spec says 16.
7. **The skew test overflows.** `labs(starttime - time_now)` on 32-bit timestamps wraps, so near the end of the epoch a start time about 2^32 seconds away passes the test.
8. **The signed request body is stale.** `encoded_request_body` is encoded only at `loopcount == 0` (line 1756), before `from` and `rtime` are set. It is never re-encoded after a referral or `set_service`. Pre-auth and FAST checksums therefore cover a body that differs from the one sent.
9. **The step API's loop limit is one short.** `krb5_init_creds_step` increments `loopcount` for each request it sends, and `init_creds_step_reply` refuses any reply once `loopcount >= MAX_IN_TKT_LOOPS` (line 1604). The AS-REP answering the 16th request is therefore refused with `GET_IN_TKT_LOOP`; spec 8 puts that failure on the 17th iteration.

## Bounds and why they are enough

* **Realms.** There are two realms `{A, B}`, which is enough for one referral and back.
* **Pre-auth hints.** The hint lists are `<<2>>`, `<<16>>` and `<<2,16>>`. They cover a password-only method, a tryagain-only method and both together.
* **Nonces.** `Nonce` and `OtherNonce`.
* **Times and lifetimes.**
  * Times are small integers, with `Now = 50` and a clock skew of 5.
  * `StartTimes {0, 10}` gives both the postdated and the not-postdated case.
  * `RenewLifes {0, 20}` gives both RENEWABLE and RENEWABLE_OK.
  * `TktLifes {20}` is one `tkt_life` setting; the request never carries it (see *Not modelled*).
  * `Int32Max = 100`.
* **Pre-auth list option.** `PreauthLists {NULL, <<2, 16>>}`: no list, or a list with a password method and a tryagain method, so that a first request pre-authenticated with an AS key for A can be followed through a referral to B.
* **Services.** `in_tkt_service` starts as `NULL`; `set_service` may set a two-component service.
* **Canonicalisation.** On and off.
* **KDC answers.**
  * `KdcBudget = 4` answers allows PREAUTH_REQUIRED, then a referral, then a pre-authenticated request to the other realm, then an AS-REP.
  * With `MAX_IN_TKT_LOOPS = 4`, that sequence both succeeds and, one round later, reaches the loop-limit check.
  * The violation run for the loop bound uses `MAX_IN_TKT_LOOPS = 2`, so that it overruns within the budget.
* **Get calls.** `MaxGetCalls = 2` in step_core and the `twoget` run; the other violation runs use 1.

For `GetInTkt`:
* **Realms and hops.** The realms are `{A, B}` with `KRB5_REFERRAL_MAXHOPS = 1`. A second referral (A to B to A) hits the limit.
* **Loop bound.** `MAX_IN_TKT_LOOPS = 3`, so four requests go out before the loop test fails. Within that bound there is room for pre-auth, a referral, a `do_more` round and the loop-limit path.
* **Callers.** The caller asks for the local TGT, for a service, or for B's TGT (which gives `REALM_MISMATCH`). Each of these is combined with:
  * an end time, a postdated start or a renew-till;
  * canonicalisation on or off;
  * hints `<<2, 0>>` or none;
  * a ccache or none.
* **Coverage.** Every result code of the model was checked to be reachable.

## Fairness

* **`InitCredsStep` has no fairness.** The application decides whether to call again, and the KDC budget ends every behaviour. `Done` stutters after `Free`, so deadlock is still checked.
* **`GetInTkt` has weak fairness on `Start`, `Iterate` and `Finish`.** One thread runs the call to its return. `krb5_sendto_kdc` always returns, with an answer or a timeout, and the model includes the timeout as `KDC_UNREACH`.
* **`AsExchange`** assumes weak fairness of `Succeed \/ Fail`. It is checked as part of `ImplementsAsExchange`.

## Not modelled (yet), and the plan

1. **A refinement from the step API to `AsExchange`.** It would fail, for the reason of finding 5: a skewed reply is accepted. It also needs a fairness assumption on the application, which calls `krb5_init_creds_get` again only if it chooses to.
2. **`krb5_init_creds_step` called directly.** It is `static` in this file, so only `get_ext` calls it. "Step after COMPLETE" reduces to `get_ext` returning at once when `ctx->reply` is set (finding 4).
3. **Padata salts** (ETYPE-INFO/ETYPE-INFO2/PW-SALT in hints or replies, and a `decrypt_key` from `krb5_process_padata`). These are not modelled: the hint sets are bare pa-types, spec 4.5 gives the reply-side pre-auth no salt, and their code is in `preauth2.c`, outside this file.
4. **`krb5_get_init_creds`** is init, `set_as_key_func`, one `get_ext`, `get_creds`, the hand-off of `ctx->reply` as `as_reply`, then free. The model's application performs this sequence. The hand-off itself (it only moves a pointer before free) is not an action.
5. **Allocation failures** (ENOMEM) and `krb5_os_localaddr`. These error paths return at once and change no state that any property here distinguishes.
6. **Disagreements no run checks.** Each would need a violation run of its own, and the runs went to the disagreements that are harder to test:
   * `krb5_init_creds_init` computes `tkt_life`, but no code sets `request->till` from it. Spec 4.2 says `till` comes from `tkt_life`.
   * After a referral or canonicalisation, `krb5_get_in_tkt` stores a credential under the names the caller preset (`stash_as_reply` copies client and server only when unset, line 383), while its ticket is for the rewritten server. The spec does not say which names are right, so no property states either.
7. **Out of scope:**
   * the profile lookups (`_krb5_conf_boolean`, `krb5_libdefault_*`), whose results are constants here;
   * `gen_nonce`, which is compiled only with `APPLE_PKINIT`;
   * cryptography, ASN.1 and the transport internals.
