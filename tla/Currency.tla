------------------------------- MODULE Currency -------------------------------
(***************************************************************************)
(* Currency: reading amounts from text and numbers, arithmetic, printing.  *)
(* A caller makes a Currency by a factory and replaces it by the result of *)
(* each further call.                                                      *)
(*                                                                         *)
(* A text is what split('.') makes of it: a sequence of parts, each a      *)
(* sequence of characters, a digit being its value.  White space around it *)
(* is left out.                                                            *)
(***************************************************************************)
EXTENDS Integers, Sequences

CONSTANTS
  Decimals,    \* decimal places of one Mina; 9 in the code
  Figures,     \* the digits that inputs are made of
  Longest,     \* bound: characters in a part of an input
  MaxNano      \* bound: amounts that are calculated with

ASSUME DecimalsAssumption == Decimals \in Nat \ {0}
ASSUME FiguresAssumption == Figures \subseteq 0..9
ASSUME LongestAssumption == Longest \in Nat
ASSUME MaxNanoAssumption == MaxNano \in Nat

\* 10^k, unfolded so that it can be reasoned about.
TenTo(k) == LET v[i \in 0..k] == IF i = 0 THEN 1 ELSE 10 * v[i - 1] IN v[k]

NANOMINA_PER_MINA == TenTo(Decimals)

Other == 10                     \* a character that is neither digit nor point
Parts == UNION {[1..k -> Figures \union {Other}] : k \in 0..Longest}
Texts == {<<p>> : p \in Parts} \union {<<p, q>> : p, q \in Parts}
         \union {<<p, <<>>, p>> : p \in Parts}

\* Numbers that are integers; the others are NaN, the infinities, and those
\* with a fraction.
Integral == [integral : {TRUE}, n : -1..11]
NotIntegral == [integral |-> FALSE, n |-> 0]

-----------------------------------------------------------------------------
(* Conversions.  Invalid stands for a CurrencyParseError.                  *)

Digital(p) == \A i \in 1..Len(p) : p[i] # Other

\* BigInt(p) of digits, 0 for none.
Number(p) == LET v[i \in 0..Len(p)] == IF i = 0 THEN 0 ELSE 10 * v[i - 1] + p[i]
             IN v[Len(p)]

\* The decimal digits of a bigint.
Digits(n) == LET k == CHOOSE k \in 1..(n + 1) : n < TenTo(k) /\ (k = 1 \/ n >= TenTo(k - 1))
             IN [i \in 1..k |-> (n \div TenTo(k - i)) % 10]

Zeros(k) == [i \in 1..k |-> 0]
padStart(p) == Zeros(Decimals - Len(p)) \o p
padEnd(p)   == p \o Zeros(Decimals - Len(p))

Invalid == -1

\* A plausible slip: the fraction is not padded to its full width.
ParseUnpadded(t) ==
  IF /\ Len(t) = 2 /\ Digital(t[1]) /\ Digital(t[2]) /\ t[2] # <<>>
     /\ Len(t[2]) <= Decimals
  THEN Number(t[1]) * NANOMINA_PER_MINA + Number(t[2])
  ELSE IF Len(t) = 1 /\ Digital(t[1]) /\ t[1] # <<>>
  THEN Number(t[1]) * NANOMINA_PER_MINA
  ELSE Invalid

\* A whole number, or one with a point, a fraction and perhaps no whole part.
parseDecimal(t) ==
  CASE Len(t) = 1 /\ Digital(t[1]) /\ t[1] # <<>> ->
         Number(t[1]) * NANOMINA_PER_MINA
    [] /\ Len(t) = 2 /\ Digital(t[1]) /\ Digital(t[2]) /\ t[2] # <<>>
       /\ Len(t[2]) <= Decimals ->
         Number(t[1]) * NANOMINA_PER_MINA + Number(padEnd(t[2]))
    [] OTHER -> Invalid

parseNanomina(t) == IF Len(t) = 1 /\ Digital(t[1]) /\ t[1] # <<>>
                    THEN Number(t[1]) ELSE Invalid

\* A plausible slip: an amount below one Mina is padded at the wrong end.
toMinaShifted(n) ==
  LET s == Digits(n) IN
  IF Len(s) > Decimals
    THEN <<SubSeq(s, 1, Len(s) - Decimals), SubSeq(s, Len(s) - Decimals + 1, Len(s))>>
    ELSE <<<<0>>, padEnd(s)>>

\* All decimals, and at least one digit before the point.
toMina(n) ==
  LET s == Digits(n) IN
  IF Len(s) > Decimals
    THEN <<SubSeq(s, 1, Len(s) - Decimals), SubSeq(s, Len(s) - Decimals + 1, Len(s))>>
    ELSE <<<<0>>, padStart(s)>>

toNanominaString(n) == <<Digits(n)>>

-----------------------------------------------------------------------------
VARIABLES
  nano,        \* the amount of the Currency that the caller holds, or None
  reader,      \* the factory that has read it from a text
  text,        \* ... and that text
  thrown       \* the error that the latest call threw, with the call

vars == <<nano, reader, text, thrown>>

None == -1
NoText == <<>>
Fine == [by |-> "none", error |-> "none"]

Errors == {"CurrencyParseError", "CurrencyUnderflowError", "RangeError", "SyntaxError"}
Factories == {"fromMina", "fromNanomina", "fromGraphQL"}

TypeOK == /\ nano \in Nat \union {None}
          /\ reader \in Factories \union {"none"}
          /\ text \in Texts \union {NoText}
          /\ thrown \in [by : Factories \union {"sub", "mul"}, error : Errors] \union {Fine}

Init == nano = None /\ reader = "none" /\ text = NoText /\ thrown = Fine

Holds == nano # None
\* Bound: amounts up to MaxNano are calculated with.
Calculates == nano \in 0..MaxNano

Read(n, factory, t) == nano' = n /\ reader' = factory /\ text' = t /\ thrown' = Fine
Hold(n) == Read(n, "none", NoText)
Throw(call, error) == thrown' = [by |-> call, error |-> error] /\ UNCHANGED <<nano, reader, text>>

fromMinaText ==
  /\ ~Holds
  /\ \E t \in Texts :
       IF parseDecimal(t) = Invalid THEN Throw("fromMina", "CurrencyParseError")
                                    ELSE Read(parseDecimal(t), "fromMina", t)

\* A plausible slip: the constructor does not look at the sign.
fromNumberUnchecked ==
  /\ ~Holds
  /\ \E x \in Integral \union {NotIntegral} :
       \/ IF x.integral THEN Hold(x.n * NANOMINA_PER_MINA)
                        ELSE Throw("fromMina", "RangeError")
       \/ IF x.integral THEN Hold(x.n)
                        ELSE Throw("fromNanomina", "RangeError")

\* fromMina(n) and fromNanomina(n) of a number: BigInt() rejects what is not
\* an integer and the constructor what is negative.
fromNumber ==
  /\ ~Holds
  /\ \E x \in Integral \union {NotIntegral} :
       \/ IF x.integral /\ x.n >= 0 THEN Hold(x.n * NANOMINA_PER_MINA)
                                    ELSE Throw("fromMina", "RangeError")
       \/ IF x.integral /\ x.n >= 0 THEN Hold(x.n)
                                    ELSE Throw("fromNanomina", "RangeError")

\* BigInt() takes the empty text for 0.  (It takes signs and other radices
\* too: texts of this model have none.)
fromNanominaText ==
  /\ ~Holds
  /\ \E t \in Texts :
       IF Len(t) = 1 /\ Digital(t[1]) THEN Read(Number(t[1]), "fromNanomina", t)
                                      ELSE Throw("fromNanomina", "SyntaxError")

fromGraphQL ==
  /\ ~Holds
  /\ \E t \in Texts :
       IF parseNanomina(t) = Invalid THEN Throw("fromGraphQL", "CurrencyParseError")
                                     ELSE Read(parseNanomina(t), "fromGraphQL", t)

Operands == {1, NANOMINA_PER_MINA - 1, NANOMINA_PER_MINA}

add == Calculates /\ \E m \in Operands : Hold(nano + m)

sub == /\ Calculates
       /\ \E m \in Operands : IF nano < m THEN Throw("sub", "CurrencyUnderflowError")
                                           ELSE Hold(nano - m)

mul == /\ Calculates
       /\ \E x \in Integral \union {NotIntegral} :
            IF x.integral /\ x.n >= 0 THEN Hold(nano * x.n)
                                      ELSE Throw("mul", "RangeError")

Next == \/ fromMinaText \/ fromNumber \/ fromNanominaText \/ fromGraphQL
        \/ add \/ sub \/ mul

Spec == Init /\ [][Next]_vars

-----------------------------------------------------------------------------
(* Properties.                                                             *)

\* A text becomes exactly the amount that it says, in the unit of the factory
\* that reads it: with the point moved past its last digit, it is the amount
\* times the same power of ten.  What a factory takes has nothing but digits,
\* a point for fromMina only, and no fewer than one but for fromNanomina.
ReadsExactly ==
  reader # "none" =>
    LET fraction == IF Len(text) = 2 THEN text[2] ELSE <<>>
        digits   == text[1] \o fraction
        unit     == IF reader = "fromMina" THEN NANOMINA_PER_MINA ELSE 1
    IN /\ nano * TenTo(Len(fraction)) = Number(digits) * unit
       /\ Digital(digits)
       /\ Len(text) = 1 \/ (reader = "fromMina" /\ Len(text) = 2)
       /\ digits = <<>> => reader = "fromNanomina"

\* What toMina and toNanominaString print is read back as the same amount, by
\* fromMina and by fromGraphQL.
PrintsReadably == Holds => /\ parseDecimal(toMina(nano)) = nano
                           /\ parseNanomina(toNanominaString(nano)) = nano
=============================================================================
