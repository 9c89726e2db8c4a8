--------------------------- MODULE KrbAlgorithms ---------------------------
(***************************************************************************)
(* The pure helpers of lib/krb5/krb/get_in_tkt.c:                          *)
(*   krb5int_addint32          saturating addition used for from / rtime   *)
(*   the clock-skew test of verify_as_reply, in 32-bit arithmetic         *)
(*   sort_krb5_padata_sequence preferred pre-auth types moved to the front *)
(*   the ktypes loop of krb5_get_in_tkt (caller enctype order)             *)
(* Each is an operator here; the MC module checks each against a reference *)
(* definition over every input of a bounded domain.                        *)
(***************************************************************************)
EXTENDS Integers, Sequences, FiniteSets

CONSTANTS
  Int32Max,   \* KRB5_INT32_MAX; the check uses a narrow width
  Int32Min    \* KRB5_INT32_MIN

ASSUME Int32Min < 0 /\ 0 < Int32Max

----------------------------------------------------------------------------
(* krb5int_addint32: x + y, saturated at the bounds of krb5_int32.  The   *)
(* guards are evaluated on the C operands, so MAX - x and MIN - x must be  *)
(* representable for the branch taken; the plain sum is only reached when *)
(* it fits.                                                                *)
(* Mutant: the lower bound not guarded, so a negative sum wraps.          *)
AddInt32NoLowerGuard(x, y) ==
  IF x > 0 /\ y > Int32Max - x THEN Int32Max
  ELSE LET v == x + y IN IF v < Int32Min THEN v + (Int32Max - Int32Min + 1) ELSE v

AddInt32(x, y) ==
  IF x > 0 /\ y > Int32Max - x THEN Int32Max
  ELSE IF x < 0 /\ y < Int32Min - x THEN Int32Min
  ELSE x + y

(* verify_as_reply's skew test labs(starttime - time_now) > clockskew.     *)
(* Both operands are 32-bit krb5_timestamps and the difference is taken in *)
(* int: the overflow is undefined, and what the built code does is wrap it *)
(* modulo 2^32 before labs sees it.                                        *)
Wrap32(v) == ((v - Int32Min) % (Int32Max - Int32Min + 1)) + Int32Min

Abs(x) == IF x < 0 THEN -x ELSE x

(* Mutant: the skew test dropped. *)
SkewNeverExceeded(start, now, skew) == FALSE

SkewExceeded(start, now, skew) == Abs(Wrap32(start - now)) > skew

----------------------------------------------------------------------------
(* The preference string "17, 16, 15, 14" is a sequence of tokens; strtol *)
(* stops at the first token that is not a number, and parsing stops there *)
(* without an error.  A token is what strtol makes of it: a number, or a   *)
(* failed conversion (q == p).                                             *)
Num(n) == [isNum |-> TRUE, val |-> n]
Junk == [isNum |-> FALSE, val |-> 0]

RECURSIVE ParsePreauthTypes(_)
ParsePreauthTypes(tokens) ==
  IF tokens = <<>> \/ ~Head(tokens).isNum THEN <<>>
  ELSE <<Head(tokens).val>> \o ParsePreauthTypes(Tail(tokens))

(* One preferred type: the first entry at or after base with that type is *)
(* bubbled down to position base, shifting the entries in between up by    *)
(* one, and base advances; with no match the list and base are unchanged.  *)
(* Mutant: the match swapped with the entry at base instead of bubbled.    *)
BubbleSwap(st, l) ==
  LET s    == st.seq
      hits == {i \in st.base..Len(s) : s[i] = l}
      i    == CHOOSE j \in hits : \A k \in hits : j =< k
  IN  IF hits = {} THEN st
      ELSE [seq |-> [s EXCEPT ![st.base] = s[i], ![i] = s[st.base]], base |-> st.base + 1]

BubbleToBase(st, l) ==
  LET s    == st.seq
      hits == {i \in st.base..Len(s) : s[i] = l}
      i    == CHOOSE j \in hits : \A k \in hits : j =< k
  IN  IF hits = {} THEN st
      ELSE [seq  |-> SubSeq(s, 1, st.base - 1) \o <<s[i]>>
                       \o SubSeq(s, st.base, i - 1) \o SubSeq(s, i + 1, Len(s)),
            base |-> st.base + 1]

RECURSIVE SortFrom(_, _)
SortFrom(st, prefs) ==
  IF prefs = <<>> THEN st ELSE SortFrom(BubbleToBase(st, Head(prefs)), Tail(prefs))

(* sort_krb5_padata_sequence over a list of pa-types and the tokens of the *)
(* preferred_preauth_types setting.                                        *)
SortPadata(padata, tokens) ==
  SortFrom([seq |-> padata, base |-> 1], ParsePreauthTypes(tokens)).seq

----------------------------------------------------------------------------
(* The ktypes loop of krb5_get_in_tkt: start from the default list; for    *)
(* each requested enctype either it is already at slot next, or the first *)
(* later copy is swapped into slot next; unknown ones are dropped; the     *)
(* list is cut after slot next.                                            *)
Swap(s, i, j) == [s EXCEPT ![i] = s[j], ![j] = s[i]]

(* Mutant: no test of slot next itself, only of the later slots.          *)
ReorderStepSkipsNext(st, want) ==
  LET k     == st.ktype
      later == {i \in st.next + 1..Len(k) : k[i] = want}
  IN  IF later = {} THEN st
      ELSE LET i == CHOOSE j \in later : \A m \in later : j =< m
           IN  [ktype |-> Swap(k, st.next, i), next |-> st.next + 1]

ReorderStep(st, want) ==
  LET k    == st.ktype
      next == st.next
      later == {i \in next + 1..Len(k) : k[i] = want}
  IN  IF next =< Len(k) /\ k[next] = want
        THEN [ktype |-> k, next |-> next + 1]
      ELSE IF later = {} THEN st
      ELSE LET i == CHOOSE j \in later : \A m \in later : j =< m
           IN  [ktype |-> Swap(k, next, i), next |-> next + 1]

RECURSIVE ReorderFrom(_, _)
ReorderFrom(st, wants) ==
  IF wants = <<>> THEN st ELSE ReorderFrom(ReorderStep(st, Head(wants)), Tail(wants))

ReorderKtypes(defaults, ktypes) ==
  LET st == ReorderFrom([ktype |-> defaults, next |-> 1], ktypes)
  IN  SubSeq(st.ktype, 1, st.next - 1)

=============================================================================
