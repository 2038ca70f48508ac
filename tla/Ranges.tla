------------------------------- MODULE Ranges -------------------------------
(***************************************************************************)
(* Integer range check of leaf values (src/pkg/utils/srnges.go).           *)
(*                                                                         *)
(* An SRnges holds a list of closed ranges [min, max].  NewSrnges starts   *)
(* it empty and addRange appends a range.  isWithinAnyRange parses the     *)
(* value with strconv.ParseInt(value, 10, 64) and accepts it when the      *)
(* list is empty or some range holds it.                                   *)
(*                                                                         *)
(* The value is a string, here a sequence of characters.  ParseInt is      *)
(* modelled by what it does for base 10 at bit size BitSize: an optional   *)
(* sign, then at least one decimal digit, the magnitude below 2^BitSize    *)
(* (ParseUint) and then inside [-2^(BitSize-1), 2^(BitSize-1) - 1].  The   *)
(* code uses 64; the boundary logic is the same at every bit size.         *)
(***************************************************************************)
EXTENDS Integers, Sequences, SequencesExt

CONSTANTS
    BitSize,    \* bitSize argument of ParseInt (64 in the code)
    Chars,      \* characters a value string is made of
    MaxLen,     \* bound on the length of a value string
    Bounds,     \* min and max arguments of addRange
    MaxRanges   \* bound on the number of addRange calls

DigitChars == <<"0", "1", "2", "3", "4", "5", "6", "7", "8", "9">>

ASSUME /\ BitSize \in Nat \ {0} /\ MaxLen \in Nat /\ MaxRanges \in Nat
       /\ Chars \subseteq {"+", "-", "x"} \cup Range(DigitChars)

MinInt  == -(2^(BitSize - 1))
MaxInt  == 2^(BitSize - 1) - 1
MaxUint == 2^BitSize - 1
IntRange == MinInt..MaxInt

ASSUME Bounds \subseteq IntRange

\* the value strings considered
Strings == SeqOf(Chars, MaxLen)

VARIABLE rnges  \* SRnges.rnges: a sequence of [min, max] records

vars == <<rnges>>

\* SRng.isInRange
IsInRangeStrict(rng, value) == rng.min < value /\ value < rng.max
IsInRange(rng, value) == rng.min <= value /\ value <= rng.max

\* one iteration of the ParseUint digit loop: a non-digit is a syntax error,
\* a magnitude past 2^bitSize - 1 a range error
DigitOf(c) == CHOOSE d \in 0..9 : DigitChars[d + 1] = c
ParseUintStep(st, c) ==
    IF st.err THEN st
    ELSE IF c \notin Range(DigitChars) THEN [err |-> TRUE, n |-> 0]
    ELSE IF st.n * 10 + DigitOf(c) > MaxUint THEN [err |-> TRUE, n |-> 0]
    ELSE [err |-> FALSE, n |-> st.n * 10 + DigitOf(c)]

ParseUint(s) ==
    IF s = <<>> THEN [err |-> TRUE, n |-> 0]
    ELSE FoldLeft(ParseUintStep, [err |-> FALSE, n |-> 0], s)

\* strconv.ParseInt(value, 10, BitSize): sign, magnitude, then the cutoff
\* 2^(bitSize-1), which a negative value may reach and a positive may not
ParseInt(s) ==
    IF s = <<>> THEN [err |-> TRUE, n |-> 0]
    ELSE LET neg  == Head(s) = "-"
             body == IF Head(s) \in {"+", "-"} THEN Tail(s) ELSE s
             un   == ParseUint(body)
         IN  IF un.err THEN un
             ELSE IF ~neg /\ un.n >= 2^(BitSize - 1) THEN [err |-> TRUE, n |-> 0]
             ELSE IF neg /\ un.n > 2^(BitSize - 1) THEN [err |-> TRUE, n |-> 0]
             ELSE [err |-> FALSE, n |-> IF neg THEN -un.n ELSE un.n]

\* SRnges.isWithinAnyRange: ok with the parsed TypedValue, or an error
IsWithinAnyRange(rs, value) ==
    LET p == ParseInt(value) IN
    IF p.err THEN [ok |-> FALSE]
    ELSE IF rs = <<>> THEN [ok |-> TRUE, tv |-> p.n]
    ELSE IF \E i \in DOMAIN rs : IsInRange(rs[i], p.n) THEN [ok |-> TRUE, tv |-> p.n]
    ELSE [ok |-> FALSE]

-----------------------------------------------------------------------------
\* NewSrnges
Init == rnges = <<>>

\* SRnges.addRange: appended as given, min > max included
AddRange(min, max) ==
    /\ Len(rnges) < MaxRanges
    /\ rnges' = Append(rnges, [min |-> min, max |-> max])

Next == \E min, max \in Bounds : AddRange(min, max)

Spec == Init /\ [][Next]_vars

-----------------------------------------------------------------------------
(* Reference: the decimal spellings of an integer, and the integers a      *)
(* list of ranges admits, written independently of the code.               *)

RECURSIVE Decimal(_)
Decimal(m) == IF m < 10 THEN <<DigitChars[m + 1]>>
              ELSE Decimal(m \div 10) \o <<DigitChars[(m % 10) + 1]>>

Zeros(k) == [i \in 1..k |-> "0"]

Signs(n) == (IF n >= 0 THEN {<<>>, <<"+">>} ELSE {})
              \cup (IF n <= 0 THEN {<<"-">>} ELSE {})

\* s spells n: a sign, leading zeros, then the digits of |n|
Spells(s, n) ==
    \E sg \in Signs(n), k \in 0..MaxLen :
        s = sg \o Zeros(k) \o Decimal(IF n < 0 THEN -n ELSE n)

\* no range admits every value of the type, otherwise the union of the ranges
Admitted(rs) ==
    IF rs = <<>> THEN IntRange
    ELSE IntRange \cap UNION {r.min..r.max : r \in Range(rs)}

-----------------------------------------------------------------------------
(* isWithinAnyRange accepts a string exactly when it is the decimal        *)
(* spelling (sign and leading zeros allowed) of a 64-bit (here BitSize)    *)
(* integer the ranges admit, and the TypedValue it returns holds that      *)
(* integer.  This covers ParseInt's asymmetric cutoff at -2^(w-1) and      *)
(* 2^(w-1), the closed bounds of isInRange and the empty-list rule.        *)
AcceptsExactlyAdmitted ==
    \A s \in Strings :
        LET res == IsWithinAnyRange(rnges, s) IN
        /\ res.ok = \E n \in Admitted(rnges) : Spells(s, n)
        /\ res.ok => Spells(s, res.tv) /\ res.tv \in Admitted(rnges)
=============================================================================
