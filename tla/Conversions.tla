---------------------------- MODULE Conversions -----------------------------
(***************************************************************************)
(* Tables of conversions.  What a method sends is converted from its       *)
(* arguments, and what it returns from the daemon's answer, field by       *)
(* field: a rule says where a field comes from, where it goes, which       *)
(* values may come and what becomes of each.  Fields are named by paths.   *)
(***************************************************************************)
EXTENDS Naturals, Sequences

(* JavaScript's values, as far as the conversions tell them apart: 0 and 1 *)
(* as numbers, as digits in a text and as Currency, texts with and without *)
(* characters, an object or a list with elements, an object whose fields   *)
(* are all null, and a subtree that is passed on unseen.                   *)
Texts   == {"''", "'0'", "'1'", "'x'", "'y'", "'unknown'", "'null'", "'undefined'"}
Numbers == {"0", "1", "-1", "NaN"}
Flags   == {"true", "false"}
Amounts == {"C0", "C1"}
Nullish == {"undefined", "null"}
Falsy   == Nullish \union {"''", "0", "NaN", "false"}
Values  == Texts \union Numbers \union Flags \union Amounts \union Nullish
             \union {"{}", "[]", "{nulls}", "subtree", "absent", "throws"}

\* What a value says, whatever its type; "nothing" is what null says.
Meaning(v) == CASE v \in {"0", "'0'", "C0"} -> "zero"
                [] v \in {"1", "'1'", "C1"} -> "one"
                [] v \in Nullish \union {"absent", "[]", "{nulls}"} -> "nothing"
                [] OTHER -> v

-----------------------------------------------------------------------------
(* Conversions.                                                            *)

AsIs == [v \in Values |-> IF v = "undefined" THEN "absent" ELSE v]

Number == [v \in Values |-> CASE v \in {"0", "'0'", "''", "null", "false"} -> "0"
                              [] v \in {"1", "'1'", "true"} -> "1"
                              [] v = "-1" -> "-1"
                              [] OTHER -> "NaN"]

String == [v \in Values |-> CASE v = "0" -> "'0'"
                              [] v = "1" -> "'1'"
                              [] v = "null" -> "'null'"
                              [] v = "undefined" -> "'undefined'"
                              [] OTHER -> v]

\* Currency.fromGraphQL and toNanominaString.
FromGraphQL == [v \in Values |-> CASE v = "'0'" -> "C0" [] v = "'1'" -> "C1" [] OTHER -> "throws"]
Nanomina    == [v \in Values |-> CASE v = "C0" -> "'0'" [] v = "C1" -> "'1'" [] OTHER -> "throws"]

When(test, yes, no) == [v \in Values |-> IF v \in test THEN yes ELSE no[v]]

UnlessNull(f)      == When(Nullish, "absent", f)          \* if (v != null)
UnlessUndefined(f) == When({"undefined"}, "absent", f)    \* if (v !== undefined)
IfTruthy(f)        == When(Falsy, "absent", f)            \* if (v)
OrNull(f)          == When(Nullish, "null", f)            \* v == null ? null : f(v)
Else(default)      == When(Nullish, default, AsIs)        \* v ?? default
NullIfFalsy        == When(Falsy, "null", AsIs)           \* v || null
Required           == When(Falsy, "throws", AsIs)         \* if (!v) throw

-----------------------------------------------------------------------------
(* The values that may come: the ordinary one, and the odd ones.           *)

Wire(plain, odd) == [plain |-> plain, odd |-> odd]

Name   == Wire("'x'", {})                      \* a key, a hash, an identifier
Hash   == Wire("'x'", {"'y'"})                 \* a hash of this block, or of another
Text   == Wire("'x'", {"''"})                  \* a text that may be empty
Digits == Wire("'1'", {"'0'"})                 \* a number in a text
Num    == Wire("1", {"0"})
Either == Wire("'1'", {"'0'", "1", "0"})       \* string | number
Flag   == Wire("true", {"false"})
Amount == Wire("C1", {"C0"})                   \* a Currency
Object == Wire("{}", {})
List   == Wire("{}", {"[]"})
Unseen == Wire("subtree", {})

Nullable(w) == [w EXCEPT !.odd = @ \union {"null"}]
Optional(w) == [w EXCEPT !.odd = @ \union {"undefined"}]
Chained(w)  == Optional(w)                     \* x?.field, and x may be null

-----------------------------------------------------------------------------
(* Rules.                                                                  *)

Rule(from, to, wire, how) == [from |-> from, to |-> to, wire |-> wire, how |-> how]

\* Fields that keep their names.
Take(names, wire, how) == {Rule(<<n>>, <<n>>, wire, how) : n \in names}

\* A field that gets another name.
Move(from, to, wire, how) == {Rule(<<from>>, <<to>>, wire, how)}

Inside(from, to, rules) == {Rule(from \o r.from, to \o r.to, r.wire, r.how) : r \in rules}

\* An object or a list whose rules apply when it is there.
Within(from, to, wire, how, rules) == {Rule(from, to, wire, how)} \union Inside(from, to, rules)

\* A subtree passed on unseen.
Whole(from, to, paths) == {Rule(from \o p, to \o p, Unseen, AsIs) : p \in paths}

\* The prefixes of a path, the path itself left out.
Above(path) == {SubSeq(path, 1, n) : n \in 0..(Len(path) - 1)}

OddValues(rules) == UNION {{<<r.from, v>> : v \in r.wire.odd} : r \in rules}

\* A field holds one value, and an object whose fields are all null is said to
\* be one, where the code tells it apart.
Coherent(rules, odd) ==
  /\ \A p, q \in odd : p[1] = q[1] => p = q
  /\ \A r \in rules : "{nulls}" \in r.wire.odd =>
       \/ \E q \in rules : r.from \in Above(q.from) /\ <<q.from, "null">> \notin odd
       \/ \E v \in {"null", "{nulls}"} : <<r.from, v>> \in odd

\* What a table may get: the odd values of at most n of its fields.
Inputs(rules, n) ==
  {odd \in {{}} \union {{f[i] : i \in 1..n} : f \in [1..n -> OddValues(rules)]} :
     Coherent(rules, odd)}
=============================================================================
