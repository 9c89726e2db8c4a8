-------------------------- MODULE MCKrbAlgorithms --------------------------
(***************************************************************************)
(* Checks the helpers of KrbAlgorithms against reference definitions over *)
(* every input of a bounded domain.  The variable input holds one test     *)
(* case; Init enumerates them and Next leaves them alone, so each case is  *)
(* one state and the invariants compare operator and reference on it.     *)
(***************************************************************************)
EXTENDS KrbAlgorithms, SequencesExt

CONSTANTS
  PaTypes,       \* pa-types that occur in KDC hints
  MaxPadata,     \* longest padata list enumerated
  PrefLists,     \* token lists of preferred_preauth_types
  DefaultKtypes, \* get_in_tkt_enctypes, by index
  Enctypes,      \* enctypes a caller may ask for (some not in the defaults)
  MaxKtypes,     \* longest caller ktypes list enumerated
  Skew           \* context->clockskew for the skew cases

VARIABLE input

(* Values of the constants for the cfg.  A 4-bit krb5_int32 makes every  *)
(* saturating case reachable; 17, 16, 14 are default preferences and 2    *)
(* (encrypted timestamp) is not one; Junk is a token strtol rejects.      *)
MCInt32Max == 7
MCInt32Min == -8
MCPaTypes == {2, 14, 16, 17}
MCPrefLists == {<<Num(17), Num(16), Num(15), Num(14)>>, <<Num(2)>>, <<>>,
                <<Num(16), Junk, Num(2)>>, <<Num(2), Num(2), Num(17)>>}
MCDefaultKtypes == <<16, 23, 3, 2, 1>>
MCEnctypes == {16, 23, 1, 18}

AddCases  == [kind : {"add"}, x : Int32Min..Int32Max, y : Int32Min..Int32Max]
SortCases == [kind : {"sort"}, padata : BoundedSeq(PaTypes, MaxPadata), prefs : PrefLists]
KtypeCases == [kind : {"ktypes"}, ktypes : BoundedSeq(Enctypes, MaxKtypes)]
SkewCases == [kind : {"skew"}, start : Int32Min..Int32Max, now : Int32Min..Int32Max]

Init == input \in AddCases \cup SortCases \cup KtypeCases \cup SkewCases
Next == UNCHANGED input
Spec == Init /\ [][Next]_input

----------------------------------------------------------------------------
(* Reference: the true sum clamped to [Int32Min, Int32Max]. *)
Clamp(v) == IF v > Int32Max THEN Int32Max ELSE IF v < Int32Min THEN Int32Min ELSE v

(* krb5int_addint32 never overflows: its result is the mathematical sum    *)
(* when that fits krb5_int32 and the nearer bound otherwise, so a from or  *)
(* rtime computed near the end of time never wraps negative.               *)
AddInt32Saturates ==
  input.kind = "add" => AddInt32(input.x, input.y) = Clamp(input.x + input.y)

(* Reference: take the preferred types in order, each removing the first  *)
(* remaining entry of that type, then the untouched entries in order.     *)
RECURSIVE PreferredFront(_, _)
PreferredFront(rest, prefs) ==
  IF prefs = <<>> THEN [front |-> <<>>, rest |-> rest]
  ELSE LET p == Head(prefs)
           r == IF Contains(rest, p) THEN RemoveFirst(rest, p) ELSE rest
           f == PreferredFront(r, Tail(prefs))
       IN  [front |-> IF Contains(rest, p) THEN <<p>> \o f.front ELSE f.front,
            rest  |-> f.rest]

SortReference(padata, tokens) ==
  LET f == PreferredFront(padata, ParsePreauthTypes(tokens)) IN f.front \o f.rest

(* sort_krb5_padata_sequence puts the preferred types first in preference *)
(* order and keeps every other entry, in its original relative order,     *)
(* behind them; it is a permutation of the list KDC sent.                 *)
SortPadataIsStablePreference ==
  input.kind = "sort" =>
    SortPadata(input.padata, input.prefs) = SortReference(input.padata, input.prefs)

(* Reference: the requested enctypes that are in the default list, first  *)
(* occurrence only, in the caller's order.                                *)
RECURSIVE Distinct(_)
Distinct(s) ==
  IF s = <<>> THEN <<>>
  ELSE <<Head(s)>> \o Distinct(SelectSeq(Tail(s), LAMBDA e : e # Head(s)))

KtypeReference(ktypes) ==
  Distinct(SelectSeq(ktypes, LAMBDA e : Contains(DefaultKtypes, e)))

(* The ktypes loop of krb5_get_in_tkt honours the caller's order, never   *)
(* asks for an enctype outside get_in_tkt_enctypes and never asks for one *)
(* twice, whatever repetitions or unknown values the caller passes.       *)
ReorderKtypesHonoursCaller ==
  input.kind = "ktypes" =>
    ReorderKtypes(DefaultKtypes, input.ktypes) = KtypeReference(input.ktypes)

(* verify_as_reply rejects a reply whose start time is more than the     *)
(* clock skew away from the local clock, whatever the two timestamps are: *)
(* the test agrees with the true distance |starttime - time_now|.         *)
SkewCheckSound ==
  input.kind = "skew" =>
    (SkewExceeded(input.start, input.now, Skew) <=> Abs(input.start - input.now) > Skew)

=============================================================================
