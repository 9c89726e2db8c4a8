---------------------------- MODULE MCGetInTkt ----------------------------
(***************************************************************************)
(* Instance of GetInTkt for TLC: two realms; a caller asking for the      *)
(* local TGT, for a service of its realm, or (REALM_MISMATCH) for the     *)
(* other realm's TGT; with or without canonicalisation, an end time, a    *)
(* postdated start, a renew-till, pre-auth hints and a ccache.            *)
(***************************************************************************)
EXTENDS GetInTkt

MCInt32Min == -101
MCRealms == {"A", "B"}
MCKdcHints == {<<2>>, <<16>>}
MCPreferred == <<Num(16)>>

(* The caller's time choices: from 0 (now), an end time, a postdated     *)
(* start (POSTDATED with a start time), a renew-till (RENEWABLE with a    *)
(* renew_till); krb5_get_in_tkt takes them from creds->times.            *)
MCTimes ==
  { [st |-> 0,  end |-> 0,  rt |-> 0,  opts |-> {}],
    [st |-> 0,  end |-> 70, rt |-> 0,  opts |-> {}],
    [st |-> 60, end |-> 0,  rt |-> 0,  opts |-> {"ALLOW_POSTDATE", "POSTDATED"}],
    [st |-> 0,  end |-> 0,  rt |-> 90, opts |-> {"RENEWABLE"}] }

MCCalls ==
  { [creds |-> [client |-> ClientPrinc("A", "u"), server |-> srv, starttime |-> t.st,
                endtime |-> t.end, renewTill |-> t.rt, renewable |-> FALSE,
                key |-> NoKey, ticket |-> NULL],
     options |-> t.opts \cup canon, ptypes |-> pt, ccache |-> cc] :
      srv \in {TgsPrinc("A"), [realm |-> "A", comps |-> <<"host", "h">>], TgsPrinc("B")},
      t \in MCTimes, canon \in {{}, {"CANONICALIZE"}}, pt \in {NULL, <<2, 0>>},
      cc \in BOOLEAN }
====
