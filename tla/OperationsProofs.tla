-------------------------- MODULE OperationsProofs --------------------------
(***************************************************************************)
(* Proofs about Operations, for the tables of all the methods: the types   *)
(* of what is sent and returned, that every declared variable is sent,     *)
(* that the arguments keep their meaning, that a backend is found, and     *)
(* that what the daemon says reaches the caller.  They hold for every      *)
(* MostOdd and every ManyOdd, where the run has one value of each: with    *)
(* bounds that are large enough, every coherent and finite set of odd      *)
(* values comes (EverySetComes).                                           *)
(*                                                                         *)
(* A request is a flat table: no variable is written twice or inside       *)
(* another rule's.  So each rule can be judged by itself, by what its      *)
(* conversion makes of the values that its wire lets through; the tables   *)
(* of the methods are then gone through one by one.                        *)
(*                                                                         *)
(* An answer is a tree: whether a field is made depends on what is made of *)
(* the objects above it, and whether it is read on what comes there.       *)
(***************************************************************************)
EXTENDS Operations, FiniteSetTheorems, SequenceTheorems, WellFoundedInduction, TLAPS

USE OddAssumption

\* The values that may come through a wire.
Comes(wire) == {wire.plain} \union wire.odd

\* No field is written twice, and none is an object that another is in.
Flat(rules) ==
  \A r, q \in rules : (r.to = q.to => r = q) /\ r.to \notin Above(q.to)

\* A field that two rules read holds the same values for both.
OneWire(rules) == \A r, q \in rules : r.from = q.from => r.wire = q.wire

\* What a flat table makes of the fields.
LEMMA ConvertFlat ==
  ASSUME NEW rules, NEW read, Flat(rules)
  PROVE  /\ \A path \in DOMAIN Convert(rules, read) :
              \E r \in rules : r.to = path /\ r.how[read[r]] # "absent"
         /\ \A r \in rules : r.how[read[r]] # "absent" =>
              r.to \in DOMAIN Convert(rules, read) /\ Convert(rules, read)[r.to] = r.how[read[r]]
  <1> DEFINE out  == [r \in rules |-> r.how[read[r]]]
             bare == {r.to : r \in {q \in rules : out[q] # "{}"}}
             made == {r \in rules : out[r] # "absent" /\ Above(r.to) \intersect bare = {}}
             kept == {r \in rules : r.how[read[r]] # "absent"}
             of(path) == CHOOSE r \in kept : r.to = path
  <1>0. \A r \in rules : out[r] = r.how[read[r]]
    OBVIOUS
  <1>a. ASSUME NEW r \in rules, NEW x \in Above(r.to) \intersect bare
        PROVE  FALSE
    <2>1. PICK q \in rules : x = q.to
      OBVIOUS
    <2> QED
      BY <2>1 DEF Flat
  <1>1. made = kept
    BY <1>0, <1>a
  <1>2. \A r \in kept : of(r.to) = r
    BY DEF Flat
  <1>3. Convert(rules, read) = [path \in {r.to : r \in kept} |-> out[of(path)]]
    BY <1>1 DEF Convert
  <1>4. DOMAIN Convert(rules, read) = {r.to : r \in kept}
    BY <1>1, <1>3
  <1>5. ASSUME NEW r \in kept
        PROVE  Convert(rules, read)[r.to] = r.how[read[r]]
    <2>1. r.to \in {q.to : q \in kept} /\ of(r.to) = r /\ out[r] = r.how[read[r]]
      BY <1>0, <1>2
    <2> HIDE DEF out, kept, of
    <2> QED
      BY <2>1, <1>3
  <1> QED
    BY <1>4, <1>5

\* What a rule reads is one of the values of its wire.
LEMMA HeldComes ==
  ASSUME NEW rules, OneWire(rules), NEW odd \in SUBSET OddValues(rules), NEW r \in rules
  PROVE  Held(r, odd) \in Comes(r.wire)
  <1> DEFINE here == {p \in odd : p[1] = r.from}
  <1>1. CASE here = {}
    BY <1>1 DEF Held, Comes
  <1>2. CASE here # {}
    <2>1. PICK p \in here : Held(r, odd) = p[2]
      BY <1>2 DEF Held
    <2>2. PICK q \in rules : \E v \in q.wire.odd : p = <<q.from, v>>
      BY <2>1 DEF OddValues
    <2> QED
      BY <2>1, <2>2 DEF OneWire, Comes
  <1> QED
    BY <1>1, <1>2

-----------------------------------------------------------------------------
(* Rules, and the tables of the requests in terms of the conversions.      *)

\* Rules as records.
LEMMA Shapes ==
  /\ \A names, wire, how : Take(names, wire, how) =
       {[from |-> <<n>>, to |-> <<n>>, wire |-> wire, how |-> how] : n \in names}
  /\ \A m, n, wire, how : Move(m, n, wire, how) =
       {[from |-> <<m>>, to |-> <<n>>, wire |-> wire, how |-> how]}
  BY DEF Take, Move, Rule

\* Requests has its own copy of Conversions: its operators are the same ones.
LEMMA SentSame ==
  /\ \A n, w, h : Sent!Take(n, w, h) = Take(n, w, h)
  /\ \A m, n, w, h : Sent!Move(m, n, w, h) = Move(m, n, w, h)
  /\ \A rules : Sent!Input(rules) = Inside(<<>>, <<"input">>, rules)
  /\ Sent!Name = Name /\ Sent!Text = Text /\ Sent!Num = Num /\ Sent!Flag = Flag
  /\ Sent!Amount = Amount /\ Sent!Object = Object /\ Sent!List = List /\ Sent!Unseen = Unseen
  /\ \A w : Sent!Nullable(w) = Nullable(w) /\ Sent!Optional(w) = Optional(w)
  /\ \A p, o : Sent!Wire(p, o) = Wire(p, o)
  <1>1. /\ \A n, w, h : Sent!Take(n, w, h) = Take(n, w, h)
        /\ \A m, n, w, h : Sent!Move(m, n, w, h) = Move(m, n, w, h)
        /\ \A rules : Sent!Input(rules) = Inside(<<>>, <<"input">>, rules)
    BY DEF Sent!Take, Sent!Move, Sent!Input, Sent!Inside, Sent!Rule, Take, Move, Inside, Rule
  <1>2. \A p, o : Sent!Wire(p, o) = Wire(p, o)
    BY DEF Sent!Wire, Wire
  <1>3. \A w : Sent!Nullable(w) = Nullable(w) /\ Sent!Optional(w) = Optional(w)
    BY DEF Sent!Nullable, Nullable, Sent!Optional, Optional
  <1>4. /\ Sent!Name = Name /\ Sent!Text = Text /\ Sent!Num = Num /\ Sent!Flag = Flag
        /\ Sent!Amount = Amount /\ Sent!Object = Object /\ Sent!List = List
        /\ Sent!Unseen = Unseen
    BY <1>2 DEF Sent!Name, Sent!Text, Sent!Num, Sent!Flag, Sent!Amount, Sent!Object, Sent!List,
                Sent!Unseen, Name, Text, Num, Flag, Amount, Object, List, Unseen
  <1> QED
    BY <1>1, <1>2, <1>3, <1>4

LEMMA SentValues ==
  /\ Sent!Values = Values /\ Sent!Nullish = Nullish /\ Sent!Falsy = Falsy
  BY DEF Sent!Values, Values, Sent!Texts, Texts, Sent!Numbers, Numbers, Sent!Flags, Flags,
         Sent!Amounts, Amounts, Sent!Nullish, Nullish, Sent!Falsy, Falsy

LEMMA SentHow ==
  /\ Sent!AsIs = AsIs /\ Sent!String = String /\ Sent!Nanomina = Nanomina
  /\ \A f : Sent!UnlessUndefined(f) = UnlessUndefined(f) /\ Sent!IfTruthy(f) = IfTruthy(f)
  /\ \A d : Sent!Else(d) = Else(d)
  /\ Sent!NullIfFalsy = NullIfFalsy
  <1>1. Sent!AsIs = AsIs /\ Sent!String = String /\ Sent!Nanomina = Nanomina
    BY SentValues DEF Sent!AsIs, AsIs, Sent!String, String, Sent!Nanomina, Nanomina
  <1>2. \A test, yes, no : Sent!When(test, yes, no) = When(test, yes, no)
    BY SentValues DEF Sent!When, When
  <1> QED
    BY <1>1, <1>2, SentValues
    DEF Sent!UnlessUndefined, UnlessUndefined, Sent!IfTruthy, IfTruthy, Sent!Else, Else,
        Sent!NullIfFalsy, NullIfFalsy

-----------------------------------------------------------------------------
(* Conversions that keep the meaning of what comes.                        *)

\* Whatever comes is made into a value of the same meaning, and into a field.
Keeps(wire, how) ==
  \A v \in Comes(wire) : /\ how[v] \in Values \ {"undefined", "throws"}
                         /\ Meaning(how[v]) = Meaning(v)
Gives(wire, how) == \A v \in Comes(wire) : how[v] # "absent"

\* What the conversions make of one value.
LEMMA HowAsIs == \A v \in Values : AsIs[v] = IF v = "undefined" THEN "absent" ELSE v
  BY DEF AsIs
LEMMA HowNanomina == Nanomina["C0"] = "'0'" /\ Nanomina["C1"] = "'1'"
  BY DEF Nanomina, Values, Amounts
LEMMA HowString ==
  String["0"] = "'0'" /\ String["1"] = "'1'"
  BY DEF String, Values, Numbers

LEMMA InValues ==
  /\ "''" \in Values /\ "'0'" \in Values /\ "'1'" \in Values /\ "'x'" \in Values /\ "'y'" \in Values
  /\ "0" \in Values /\ "1" \in Values /\ "-1" \in Values /\ "NaN" \in Values
  /\ "true" \in Values /\ "false" \in Values /\ "C0" \in Values /\ "C1" \in Values
  /\ "undefined" \in Values /\ "null" \in Values /\ "{}" \in Values /\ "[]" \in Values
  /\ "{nulls}" \in Values /\ "subtree" \in Values /\ "absent" \in Values /\ "throws" \in Values
  /\ "'unknown'" \in Values /\ "'null'" \in Values /\ "'undefined'" \in Values
  BY DEF Values, Texts, Numbers, Flags, Amounts, Nullish

\* What may come through the wires of the requests.
LEMMA WireValues ==
  /\ \A v \in Comes(Name) : v = "'x'"
  /\ \A v \in Comes(Unseen) : v = "subtree"
  /\ \A v \in Comes(Text) : v \in {"'x'", "''"}
  /\ \A v \in Comes(Num) : v \in {"1", "0"}
  /\ \A v \in Comes(Flag) : v \in {"true", "false"}
  /\ \A v \in Comes(Amount) : v \in {"C1", "C0"}
  /\ \A v \in Comes(Nullable(Num)) : v \in {"1", "0", "null"}
  /\ \A v \in Comes(Optional(Text)) : v \in {"'x'", "''", "undefined"}
  /\ \A v \in Comes(Optional(Num)) : v \in {"1", "0", "undefined"}
  /\ \A v \in Comes(Optional(Flag)) : v \in {"true", "false", "undefined"}
  /\ \A v \in Comes(Optional(List)) : v \in {"{}", "[]", "undefined"}
  /\ \A v \in Comes(Nullable(Optional(Object))) : v \in {"{}", "null", "undefined"}
  /\ \A v \in Comes(Optional(Wire("1", {"0", "-1"}))) : v \in {"0", "1", "-1", "undefined"}
  BY DEF Comes, Name, Unseen, Text, Num, Flag, Amount, List, Object, Optional, Nullable, Wire

LEMMA MeaningOf ==
  /\ Meaning("0") = "zero" /\ Meaning("'0'") = "zero" /\ Meaning("C0") = "zero"
  /\ Meaning("1") = "one"  /\ Meaning("'1'") = "one"  /\ Meaning("C1") = "one"
  /\ Meaning("undefined") = "nothing" /\ Meaning("null") = "nothing"
  /\ Meaning("absent") = "nothing" /\ Meaning("[]") = "nothing" /\ Meaning("{nulls}") = "nothing"
  /\ Meaning("''") = "''" /\ Meaning("'x'") = "'x'" /\ Meaning("'y'") = "'y'"
  /\ Meaning("-1") = "-1" /\ Meaning("NaN") = "NaN" /\ Meaning("true") = "true"
  /\ Meaning("false") = "false" /\ Meaning("{}") = "{}" /\ Meaning("subtree") = "subtree"
  BY DEF Meaning, Nullish

\* What one value is made into, in ground terms.
KeepsOne(u, v) == u \in Values \ {"undefined", "throws"} /\ Meaning(u) = Meaning(v)

LEMMA Ground ==
  /\ KeepsOne("'0'", "C0") /\ KeepsOne("'1'", "C1") /\ KeepsOne("'0'", "0") /\ KeepsOne("'1'", "1")
  /\ KeepsOne("null", "undefined") /\ KeepsOne("null", "null") /\ KeepsOne("absent", "undefined")
  /\ KeepsOne("[]", "undefined") /\ KeepsOne("[]", "[]") /\ KeepsOne("{}", "{}")
  /\ KeepsOne("'x'", "'x'") /\ KeepsOne("''", "''") /\ KeepsOne("1", "1") /\ KeepsOne("0", "0")
  /\ KeepsOne("true", "true") /\ KeepsOne("false", "false") /\ KeepsOne("subtree", "subtree")
  BY InValues, MeaningOf DEF KeepsOne

LEMMA KeepsPointwise ==
  ASSUME NEW wire, NEW how, \A v \in Comes(wire) : KeepsOne(how[v], v)
  PROVE  Keeps(wire, how)
  BY DEF Keeps, KeepsOne

\* The conversions of the requests keep what their wires let through.
LEMMA KeepsAsIs ==
  /\ Keeps(Name, AsIs) /\ Keeps(Text, AsIs) /\ Keeps(Num, AsIs) /\ Keeps(Flag, AsIs)
  /\ Keeps(Unseen, AsIs) /\ Keeps(Nullable(Num), AsIs)
  /\ Gives(Name, AsIs) /\ Gives(Text, AsIs) /\ Gives(Num, AsIs) /\ Gives(Flag, AsIs)
  /\ Gives(Unseen, AsIs) /\ Gives(Nullable(Num), AsIs)
  <1> DEFINE Same(v) == AsIs[v] = v /\ v # "absent" /\ KeepsOne(v, v)
  <1>1. /\ AsIs["'x'"] = "'x'" /\ AsIs["''"] = "''" /\ AsIs["1"] = "1" /\ AsIs["0"] = "0"
        /\ AsIs["true"] = "true" /\ AsIs["false"] = "false"
        /\ AsIs["subtree"] = "subtree" /\ AsIs["null"] = "null"
    BY InValues, HowAsIs
  <1>2. /\ Same("'x'") /\ Same("''") /\ Same("1") /\ Same("0")
        /\ Same("true") /\ Same("false") /\ Same("subtree") /\ Same("null")
    BY <1>1, Ground
  <1>3. ASSUME NEW w, \A v \in Comes(w) : Same(v)
        PROVE  Keeps(w, AsIs) /\ Gives(w, AsIs)
    <2>1. /\ \A v \in Comes(w) : KeepsOne(AsIs[v], v)
          /\ \A v \in Comes(w) : AsIs[v] # "absent"
      BY <1>3
    <2> QED
      BY <2>1, KeepsPointwise DEF Gives
  <1> HIDE DEF Same
  <1>4. \A v \in Comes(Name) : Same(v)
    BY <1>2, WireValues
  <1>5. \A v \in Comes(Text) : Same(v)
    BY <1>2, WireValues
  <1>6. \A v \in Comes(Num) : Same(v)
    BY <1>2, WireValues
  <1>7. \A v \in Comes(Flag) : Same(v)
    BY <1>2, WireValues
  <1>8. \A v \in Comes(Unseen) : Same(v)
    BY <1>2, WireValues
  <1>9. \A v \in Comes(Nullable(Num)) : Same(v)
    BY <1>2, WireValues
  <1> QED
    BY <1>3, <1>4, <1>5, <1>6, <1>7, <1>8, <1>9

LEMMA KeepsNanomina == Keeps(Amount, Nanomina) /\ Gives(Amount, Nanomina)
  <1>1. \A v \in Comes(Amount) : v = "C1" \/ v = "C0"
    BY WireValues
  <1>2. \A v \in Comes(Amount) : KeepsOne(Nanomina[v], v)
    BY <1>1, HowNanomina, Ground
  <1>3. \A v \in Comes(Amount) : Nanomina[v] # "absent"
    BY <1>1, HowNanomina
  <1> QED
    BY <1>2, <1>3, KeepsPointwise DEF Gives

LEMMA ElseNull ==
  /\ Else("null")["undefined"] = "null" /\ Else("null")["null"] = "null"
  /\ Else("null")["'x'"] = "'x'" /\ Else("null")["''"] = "''"
  /\ Else("null")["1"] = "1" /\ Else("null")["0"] = "0"
  /\ Else("null")["true"] = "true" /\ Else("null")["false"] = "false"
  /\ Else("null")["{}"] = "{}"
  BY InValues, HowAsIs DEF Else, When, Nullish

LEMMA ElseEmpty ==
  Else("[]")["undefined"] = "[]" /\ Else("[]")["{}"] = "{}" /\ Else("[]")["[]"] = "[]"
  BY InValues, HowAsIs DEF Else, When, Nullish

LEMMA KeepsElse ==
  /\ Keeps(Optional(Text), Else("null")) /\ Gives(Optional(Text), Else("null"))
  /\ Keeps(Optional(Num), Else("null")) /\ Gives(Optional(Num), Else("null"))
  /\ Keeps(Optional(Flag), Else("null")) /\ Gives(Optional(Flag), Else("null"))
  /\ Keeps(Nullable(Optional(Object)), Else("null"))
     /\ Gives(Nullable(Optional(Object)), Else("null"))
  /\ Keeps(Optional(List), Else("[]")) /\ Gives(Optional(List), Else("[]"))
  <1>1. Keeps(Optional(Text), Else("null")) /\ Gives(Optional(Text), Else("null"))
    <2>1. \A v \in Comes(Optional(Text)) : v = "'x'" \/ v = "''" \/ v = "undefined"
      BY WireValues
    <2>2. \A v \in Comes(Optional(Text)) : KeepsOne(Else("null")[v], v)
      BY <2>1, ElseNull, Ground
    <2>3. \A v \in Comes(Optional(Text)) : Else("null")[v] # "absent"
      BY <2>1, ElseNull
    <2> QED
      BY <2>2, <2>3, KeepsPointwise DEF Gives
  <1>2. Keeps(Optional(Num), Else("null")) /\ Gives(Optional(Num), Else("null"))
    <2>1. \A v \in Comes(Optional(Num)) : v = "1" \/ v = "0" \/ v = "undefined"
      BY WireValues
    <2>2. \A v \in Comes(Optional(Num)) : KeepsOne(Else("null")[v], v)
      BY <2>1, ElseNull, Ground
    <2>3. \A v \in Comes(Optional(Num)) : Else("null")[v] # "absent"
      BY <2>1, ElseNull
    <2> QED
      BY <2>2, <2>3, KeepsPointwise DEF Gives
  <1>3. Keeps(Optional(Flag), Else("null")) /\ Gives(Optional(Flag), Else("null"))
    <2>1. \A v \in Comes(Optional(Flag)) : v = "true" \/ v = "false" \/ v = "undefined"
      BY WireValues
    <2>2. \A v \in Comes(Optional(Flag)) : KeepsOne(Else("null")[v], v)
      BY <2>1, ElseNull, Ground
    <2>3. \A v \in Comes(Optional(Flag)) : Else("null")[v] # "absent"
      BY <2>1, ElseNull
    <2> QED
      BY <2>2, <2>3, KeepsPointwise DEF Gives
  <1>4. Keeps(Nullable(Optional(Object)), Else("null"))
        /\ Gives(Nullable(Optional(Object)), Else("null"))
    <2>1. \A v \in Comes(Nullable(Optional(Object))) : v = "{}" \/ v = "null" \/ v = "undefined"
      BY WireValues
    <2>2. \A v \in Comes(Nullable(Optional(Object))) : KeepsOne(Else("null")[v], v)
      BY <2>1, ElseNull, Ground
    <2>3. \A v \in Comes(Nullable(Optional(Object))) : Else("null")[v] # "absent"
      BY <2>1, ElseNull
    <2> QED
      BY <2>2, <2>3, KeepsPointwise DEF Gives
  <1>5. Keeps(Optional(List), Else("[]")) /\ Gives(Optional(List), Else("[]"))
    <2>1. \A v \in Comes(Optional(List)) : v = "{}" \/ v = "[]" \/ v = "undefined"
      BY WireValues
    <2>2. \A v \in Comes(Optional(List)) : KeepsOne(Else("[]")[v], v)
      BY <2>1, ElseEmpty, Ground
    <2>3. \A v \in Comes(Optional(List)) : Else("[]")[v] # "absent"
      BY <2>1, ElseEmpty
    <2> QED
      BY <2>2, <2>3, KeepsPointwise DEF Gives
  <1> QED
    BY <1>1, <1>2, <1>3, <1>4, <1>5

LEMMA KeepsUnless ==
  /\ Keeps(Optional(Num), UnlessUndefined(String))
  /\ Keeps(Optional(Flag), UnlessUndefined(AsIs))
  <1>1. /\ UnlessUndefined(String)["undefined"] = "absent"
        /\ UnlessUndefined(String)["1"] = "'1'" /\ UnlessUndefined(String)["0"] = "'0'"
    BY InValues, HowString DEF UnlessUndefined, When
  <1>2. /\ UnlessUndefined(AsIs)["undefined"] = "absent"
        /\ UnlessUndefined(AsIs)["true"] = "true" /\ UnlessUndefined(AsIs)["false"] = "false"
    BY InValues, HowAsIs DEF UnlessUndefined, When
  <1>3. Keeps(Optional(Num), UnlessUndefined(String))
    <2>1. \A v \in Comes(Optional(Num)) : v = "1" \/ v = "0" \/ v = "undefined"
      BY WireValues
    <2>2. \A v \in Comes(Optional(Num)) : KeepsOne(UnlessUndefined(String)[v], v)
      BY <2>1, <1>1, Ground
    <2> QED
      BY <2>2, KeepsPointwise
  <1>4. Keeps(Optional(Flag), UnlessUndefined(AsIs))
    <2>1. \A v \in Comes(Optional(Flag)) : v = "true" \/ v = "false" \/ v = "undefined"
      BY WireValues
    <2>2. \A v \in Comes(Optional(Flag)) : KeepsOne(UnlessUndefined(AsIs)[v], v)
      BY <2>1, <1>2, Ground
    <2> QED
      BY <2>2, KeepsPointwise
  <1> QED
    BY <1>3, <1>4

\* A rule of a request does its duty: what comes is sent with its meaning.
Arrives(r) ==
  \A v \in Comes(r.wire) :
    /\ r.how[v] \in Values \ {"undefined", "throws"}
    /\ \/ Meaning(r.how[v]) = Meaning(v)
       \/ <<r.from[1], v>> \in TakenForNone /\ Meaning(r.how[v]) = "nothing"

\* Conversions that take an empty text, or a length that is not positive, for none.
Empties(wire, how, empty) ==
  \A v \in Comes(wire) : /\ how[v] \in Values \ {"undefined", "throws"}
                         /\ \/ Meaning(how[v]) = Meaning(v)
                            \/ v \in empty /\ Meaning(how[v]) = "nothing"

EmptiesOne(u, v, empty) ==
  u \in Values \ {"undefined", "throws"}
  /\ (Meaning(u) = Meaning(v) \/ (v \in empty /\ Meaning(u) = "nothing"))

LEMMA GroundEmpties ==
  /\ EmptiesOne("null", "undefined", {"''"}) /\ EmptiesOne("absent", "undefined", {"''"})
  /\ EmptiesOne("null", "''", {"''"}) /\ EmptiesOne("absent", "''", {"''"})
  /\ EmptiesOne("'x'", "'x'", {"''"})
  /\ EmptiesOne("null", "undefined", {"0", "-1"}) /\ EmptiesOne("null", "0", {"0", "-1"})
  /\ EmptiesOne("null", "-1", {"0", "-1"}) /\ EmptiesOne("1", "1", {"0", "-1"})
  BY InValues, MeaningOf DEF EmptiesOne

LEMMA EmptiesText ==
  /\ Empties(Optional(Text), NullIfFalsy, {"''"}) /\ Gives(Optional(Text), NullIfFalsy)
  /\ Empties(Optional(Text), IfTruthy(AsIs), {"''"})
  /\ Empties(Optional(Wire("1", {"0", "-1"})), Sent!IfPositive, {"0", "-1"})
  /\ Gives(Optional(Wire("1", {"0", "-1"})), Sent!IfPositive)
  <1>1. NullIfFalsy["undefined"] = "null" /\ NullIfFalsy["''"] = "null"
        /\ NullIfFalsy["'x'"] = "'x'"
    BY InValues, HowAsIs DEF NullIfFalsy, When, Falsy, Nullish
  <1>2. IfTruthy(AsIs)["undefined"] = "absent" /\ IfTruthy(AsIs)["''"] = "absent"
        /\ IfTruthy(AsIs)["'x'"] = "'x'"
    BY InValues, HowAsIs DEF IfTruthy, When, Falsy, Nullish
  <1>3. Sent!IfPositive["undefined"] = "null" /\ Sent!IfPositive["0"] = "null"
        /\ Sent!IfPositive["-1"] = "null"
        /\ Sent!IfPositive["1"] = "1"
    BY InValues, SentValues DEF Sent!IfPositive
  <1>4. /\ Empties(Optional(Text), NullIfFalsy, {"''"})
        /\ Gives(Optional(Text), NullIfFalsy)
    <2>1. \A v \in Comes(Optional(Text)) : v = "'x'" \/ v = "''" \/ v = "undefined"
      BY WireValues
    <2>2. \A v \in Comes(Optional(Text)) : EmptiesOne(NullIfFalsy[v], v, {"''"})
      BY <2>1, <1>1, GroundEmpties
    <2>3. \A v \in Comes(Optional(Text)) : NullIfFalsy[v] # "absent"
      BY <2>1, <1>1
    <2> QED
      BY <2>2, <2>3 DEF Empties, EmptiesOne, Gives
  <1>5. Empties(Optional(Text), IfTruthy(AsIs), {"''"})
    <2>1. \A v \in Comes(Optional(Text)) : v = "'x'" \/ v = "''" \/ v = "undefined"
      BY WireValues
    <2>2. \A v \in Comes(Optional(Text)) : EmptiesOne(IfTruthy(AsIs)[v], v, {"''"})
      BY <2>1, <1>2, GroundEmpties
    <2> QED
      BY <2>2 DEF Empties, EmptiesOne
  <1>6. /\ Empties(Optional(Wire("1", {"0", "-1"})), Sent!IfPositive, {"0", "-1"})
        /\ Gives(Optional(Wire("1", {"0", "-1"})), Sent!IfPositive)
    <2>1. \A v \in Comes(Optional(Wire("1", {"0", "-1"}))) : v = "0" \/ v = "1" \/ v = "-1"
          \/ v = "undefined"
      BY WireValues
    <2>2. \A v \in Comes(Optional(Wire("1", {"0", "-1"}))) :
          EmptiesOne(Sent!IfPositive[v], v, {"0", "-1"})
      BY <2>1, <1>3, GroundEmpties
    <2>3. \A v \in Comes(Optional(Wire("1", {"0", "-1"}))) : Sent!IfPositive[v] # "absent"
      BY <2>1, <1>3
    <2> QED
      BY <2>2, <2>3 DEF Empties, EmptiesOne, Gives
  <1> QED
    BY <1>4, <1>5, <1>6

LEMMA ArrivesKept == ASSUME NEW r, Keeps(r.wire, r.how) PROVE Arrives(r)
  BY DEF Keeps, Arrives

-----------------------------------------------------------------------------
(* Tables of requests.                                                     *)

\* A table that fills the declared variables, and whose rules do their duty.
RequestTable(rules, declared) ==
  /\ Flat(rules) /\ OneWire(rules)
  /\ \A r \in rules : Arrives(r) /\ r.to[1] \in declared
  /\ \A n \in declared : \E r \in rules : r.to[1] = n /\ Gives(r.wire, r.how)

\* Short paths, and what is above them.
LEMMA Two == ASSUME NEW S, NEW s \in Seq(S), Len(s) = 2 PROVE s = <<s[1], s[2]>>
  OBVIOUS

LEMMA Pair == ASSUME NEW a, NEW b PROVE <<a>> \o <<b>> = <<a, b>>
  <1> DEFINE S == {a, b}
  <1>1. <<a>> \in Seq(S) /\ <<b>> \in Seq(S) /\ Len(<<a>>) = 1 /\ Len(<<b>>) = 1 /\ <<a>>[1] = a
        /\ <<b>>[1] = b
    OBVIOUS
  <1>2. <<a>> \o <<b>> \in Seq(S) /\ Len(<<a>> \o <<b>>) = 2
    BY <1>1, ConcatProperties
  <1>3. (<<a>> \o <<b>>)[1] = a /\ (<<a>> \o <<b>>)[2] = b
    BY <1>1, ConcatProperties
  <1> QED
    BY <1>2, <1>3, Two

LEMMA Single == ASSUME NEW a  PROVE <<>> \o <<a>> = <<a>>
  BY <<a>> \in Seq({a}), ConcatEmptySeq

LEMMA AboveShort ==
  /\ \A n : Above(<<n>>) = {<<>>}
  /\ \A m, n : Above(<<m, n>>) = {<<>>, <<m>>}
  /\ Above(<<>>) = {}
  <1>1. ASSUME NEW n PROVE Above(<<n>>) = {<<>>}
    <2>1. Len(<<n>>) = 1 /\ 0..0 = {0}
      OBVIOUS
    <2>2. Above(<<n>>) = {SubSeq(<<n>>, 1, k) : k \in {0}}
      BY <2>1 DEF Above
    <2>3. SubSeq(<<n>>, 1, 0) = <<>>
      BY SubSeqEmpty
    <2> QED
      BY <2>2, <2>3
  <1>2. ASSUME NEW m, NEW n PROVE Above(<<m, n>>) = {<<>>, <<m>>}
    <2>1. SubSeq(<<m, n>>, 1, 0) = <<>>
      BY SubSeqEmpty
    <2>2. SubSeq(<<m, n>>, 1, 1) = <<m>>
      <3>1. \A i \in 1..1 : <<m, n>>[i] \in {m}
        OBVIOUS
      <3>2. /\ SubSeq(<<m, n>>, 1, 1) \in Seq({m})
            /\ Len(SubSeq(<<m, n>>, 1, 1)) = 1
            /\ SubSeq(<<m, n>>, 1, 1)[1] = m
        BY <3>1, SubSeqProperties
      <3>3. \A s \in Seq({m}) : Len(s) = 1 => s = <<s[1]>>
        OBVIOUS
      <3> QED
        BY <3>2, <3>3
    <2>3. Len(<<m, n>>) = 2 /\ 0..1 = {0, 1}
      OBVIOUS
    <2>4. Above(<<m, n>>) = {SubSeq(<<m, n>>, 1, k) : k \in {0, 1}}
      BY <2>3 DEF Above
    <2> QED
      BY <2>1, <2>2, <2>4
  <1>3. Above(<<>>) = {}
    BY DEF Above
  <1> QED
    BY <1>1, <1>2, <1>3

\* A table whose rules keep what they are given, each under a name of its own.
Tidy(rules) ==
  /\ \A r \in rules :
       /\ r = [from |-> <<r.from[1]>>, to |-> <<r.to[1]>>, wire |-> r.wire, how |-> r.how]
                      /\ Arrives(r)
  /\ \A r, q \in rules : r.from = q.from \/ r.to = q.to => r = q

\* The variables that a table fills.
Tops(rules) == {r.to[1] : r \in rules}

LEMMA TopsOf ==
  /\ \A names, wire, how : Tops(Take(names, wire, how)) = names
  /\ \A m, n, wire, how : Tops(Move(m, n, wire, how)) = {n}
  /\ \A A, B : Tops(A \union B) = Tops(A) \union Tops(B)
  <1>1. ASSUME NEW names, NEW wire, NEW how
        PROVE  Tops(Take(names, wire, how)) = names
    <2> DEFINE rule(n) == [from |-> <<n>>, to |-> <<n>>, wire |-> wire, how |-> how]
    <2>1. Take(names, wire, how) = {rule(n) : n \in names}
      BY Shapes
    <2>2. \A n : rule(n).to[1] = n
      OBVIOUS
    <2> HIDE DEF rule
    <2> QED
      BY <2>1, <2>2 DEF Tops
  <1>2. ASSUME NEW m, NEW n, NEW wire, NEW how
        PROVE  Tops(Move(m, n, wire, how)) = {n}
    <2> DEFINE r == [from |-> <<m>>, to |-> <<n>>, wire |-> wire, how |-> how]
    <2>1. Move(m, n, wire, how) = {r} /\ r.to[1] = n
      BY Shapes
    <2> HIDE DEF r
    <2> QED
      BY <2>1 DEF Tops
  <1>3. ASSUME NEW A, NEW B
        PROVE  Tops(A \union B) = Tops(A) \union Tops(B)
    BY DEF Tops
  <1> QED
    BY <1>1, <1>2, <1>3

LEMMA ArrivesEmpty ==
  ASSUME NEW r,
         \/ r.from[1] \in {"tokenId", "publicKey", "memo"} /\ Empties(r.wire, r.how, {"''"})
         \/ r.from[1] = "maxLength" /\ Empties(r.wire, r.how, {"0", "-1"})
  PROVE  Arrives(r)
  BY DEF Empties, Arrives, TakenForNone

\* A tidy table whose rules always make a field fills the variables it names.
LEMMA DirectTable ==
  ASSUME NEW A, NEW declared, Tidy(A), \A a \in A : Gives(a.wire, a.how),
         declared = Tops(A)
  PROVE  RequestTable(A, declared)
  <1>1. ASSUME NEW r \in A, NEW q \in A
        PROVE  r.to \notin Above(q.to)
    <2>1. r.to = <<r.to[1]>> /\ Above(q.to) = {<<>>}
      BY AboveShort DEF Tidy
    <2> QED
      BY <2>1
  <1>2. Flat(A) /\ OneWire(A)
    BY <1>1 DEF Tidy, Flat, OneWire
  <1>3. \A r \in A : Arrives(r) /\ r.to[1] \in declared
    BY DEF Tidy, Tops
  <1> QED
    BY <1>2, <1>3 DEF RequestTable, Tops

\* So does one that puts the fields of another into the variable "input".
LEMMA InputTable ==
  ASSUME NEW A, NEW B, NEW declared, Tidy(A), Tidy(B), \A a \in A : Gives(a.wire, a.how),
         \E b \in B : Gives(b.wire, b.how),
         \A a \in A : a.to[1] # "input" /\ \A b \in B : a.from # b.from,
         declared = Tops(A) \union {"input"}
  PROVE  RequestTable(A \union Inside(<<>>, <<"input">>, B), declared)
  <1> DEFINE C == Inside(<<>>, <<"input">>, B)
             T == A \union C
  <1>1. ASSUME NEW b \in B
        PROVE  Rule(<<>> \o b.from, <<"input">> \o b.to, b.wire, b.how)
                 = [from |-> b.from, to |-> <<"input", b.to[1]>>, wire |-> b.wire, how |-> b.how]
    <2>1. b.from = <<b.from[1]>> /\ b.to = <<b.to[1]>>
      BY DEF Tidy
    <2>2. <<>> \o b.from = b.from /\ <<"input">> \o b.to = <<"input", b.to[1]>>
      BY <2>1, Single, Pair
    <2> QED
      BY <2>2 DEF Rule
  <1>2. ASSUME NEW c \in C
        PROVE  \E b \in B :
          c = [from |-> b.from, to |-> <<"input", b.to[1]>>, wire |-> b.wire, how |-> b.how]
    <2>1. PICK b \in B : c = Rule(<<>> \o b.from, <<"input">> \o b.to, b.wire, b.how)
      BY DEF Inside
    <2> QED
      BY <2>1, <1>1
  <1>3. \A b \in B :
          [from |-> b.from, to |-> <<"input", b.to[1]>>, wire |-> b.wire, how |-> b.how] \in C
    BY <1>1 DEF Inside
  <1>4. \A a \in A : a.to = <<a.to[1]>> /\ Above(a.to) = {<<>>}
    BY AboveShort DEF Tidy
  <1>5. \A c \in C : c.to = <<"input", c.to[2]>> /\ Above(c.to) = {<<>>, <<"input">>}
    BY <1>2, AboveShort
  <1> HIDE DEF C
  <1>6. ASSUME NEW r \in T, NEW q \in T PROVE r.to \notin Above(q.to)
    BY <1>4, <1>5
  <1>7. ASSUME NEW r \in C, NEW q \in C, r.from = q.from \/ r.to = q.to PROVE r = q
    BY <1>2, <1>7 DEF Tidy
  <1>8. ASSUME NEW r \in T, NEW q \in T, r.from = q.from \/ r.to = q.to PROVE r = q
    <2>1. CASE r \in A /\ q \in A
      BY <2>1, <1>8 DEF Tidy
    <2>2. CASE r \in C /\ q \in C
      BY <2>2, <1>8, <1>7
    <2>3. \A a \in A, c \in C : a.to # c.to /\ a.from # c.from
      BY <1>2, <1>4, <1>5
    <2> QED
      BY <2>1, <2>2, <2>3, <1>8
  <1>9. ASSUME NEW r \in T PROVE Arrives(r) /\ r.to[1] \in declared
    <2>1. CASE r \in A
      BY <2>1 DEF Tidy, Tops
    <2>2. CASE r \in C
      <3>1. PICK b \in B :
              r = [from |-> b.from, to |-> <<"input", b.to[1]>>, wire |-> b.wire, how |-> b.how]
        BY <2>2, <1>2
      <3>2. Arrives(b) /\ r.from = b.from /\ r.wire = b.wire /\ r.how = b.how /\ r.to[1] = "input"
        BY <3>1 DEF Tidy
      <3> QED
        BY <3>2 DEF Arrives
    <2> QED
      BY <2>1, <2>2
  <1>10. ASSUME NEW n \in declared PROVE \E r \in T : r.to[1] = n /\ Gives(r.wire, r.how)
    <2>1. CASE n = "input"
      <3>1. PICK b \in B : Gives(b.wire, b.how)
        OBVIOUS
      <3> DEFINE r == [from |-> b.from, to |-> <<"input", b.to[1]>>, wire |-> b.wire, how |-> b.how]
      <3>2. r \in T /\ r.to[1] = n /\ Gives(r.wire, r.how)
        BY <3>1, <2>1, <1>3
      <3> QED
        BY <3>2
    <2>2. CASE n # "input"
      BY <2>2 DEF Tops
    <2> QED
      BY <2>1, <2>2
  <1>11. Flat(T) /\ OneWire(T)
    BY <1>6, <1>8 DEF Flat, OneWire
  <1> QED
    BY <1>9, <1>10, <1>11 DEF RequestTable, C

\* The tables of the requests are tidy.
LEMMA TidyAccount == Tidy(Sent!getAccount)
  <1>1. ASSUME NEW r \in Sent!getAccount, NEW q \in Sent!getAccount, r.from = q.from \/ r.to = q.to
        PROVE  r = q
    BY <1>1, SentSame, Shapes DEF Sent!getAccount
  <1>2. ASSUME NEW r \in Sent!getAccount
        PROVE  r = [from |-> <<r.from[1]>>, to |-> <<r.to[1]>>, wire |-> r.wire, how |-> r.how]
    BY SentSame, Shapes DEF Sent!getAccount
  <1>3. ASSUME NEW r \in Sent!getAccount
        PROVE  Keeps(r.wire, r.how)
               \/ (r.from[1] = "tokenId" /\ r.wire = Optional(Text) /\ r.how = NullIfFalsy)
    BY SentSame, SentHow, Shapes, KeepsAsIs DEF Sent!getAccount
  <1>4. ASSUME NEW r \in Sent!getAccount
        PROVE  Arrives(r)
    BY <1>3, EmptiesText, ArrivesKept, ArrivesEmpty
  <1> QED
    BY <1>1, <1>2, <1>4 DEF Tidy

LEMMA TidyChain == Tidy(Sent!getBestChain)
  <1>1. ASSUME NEW r \in Sent!getBestChain, NEW q \in Sent!getBestChain,
               r.from = q.from \/ r.to = q.to
        PROVE  r = q
    BY <1>1, SentSame, Shapes DEF Sent!getBestChain
  <1>2. ASSUME NEW r \in Sent!getBestChain
        PROVE  r = [from |-> <<r.from[1]>>, to |-> <<r.to[1]>>, wire |-> r.wire, how |-> r.how]
    BY SentSame, Shapes DEF Sent!getBestChain
  <1>3. ASSUME NEW r \in Sent!getBestChain
        PROVE  (r.from[1] = "maxLength" /\ r.wire = Optional(Wire("1", {"0", "-1"}))
               /\ r.how = Sent!IfPositive)
    BY SentSame, SentHow, Shapes DEF Sent!getBestChain
  <1>4. ASSUME NEW r \in Sent!getBestChain
        PROVE  Arrives(r)
    BY <1>3, EmptiesText, ArrivesKept, ArrivesEmpty
  <1> QED
    BY <1>1, <1>2, <1>4 DEF Tidy

LEMMA TidyKey == Tidy(Sent!ofPublicKey)
  <1>1. ASSUME NEW r \in Sent!ofPublicKey, NEW q \in Sent!ofPublicKey,
               r.from = q.from \/ r.to = q.to
        PROVE  r = q
    BY <1>1, SentSame, Shapes DEF Sent!ofPublicKey
  <1>2. ASSUME NEW r \in Sent!ofPublicKey
        PROVE  r = [from |-> <<r.from[1]>>, to |-> <<r.to[1]>>, wire |-> r.wire, how |-> r.how]
    BY SentSame, Shapes DEF Sent!ofPublicKey
  <1>3. ASSUME NEW r \in Sent!ofPublicKey
        PROVE  (r.from[1] = "publicKey" /\ r.wire = Optional(Text) /\ r.how = NullIfFalsy)
    BY SentSame, SentHow, Shapes DEF Sent!ofPublicKey
  <1>4. ASSUME NEW r \in Sent!ofPublicKey
        PROVE  Arrives(r)
    BY <1>3, EmptiesText, ArrivesKept, ArrivesEmpty
  <1> QED
    BY <1>1, <1>2, <1>4 DEF Tidy

LEMMA TidyBlock == Tidy(Sent!getBlock)
  <1>1. ASSUME NEW r \in Sent!getBlock, NEW q \in Sent!getBlock, r.from = q.from \/ r.to = q.to
        PROVE  r = q
    BY <1>1, SentSame, Shapes DEF Sent!getBlock
  <1>2. ASSUME NEW r \in Sent!getBlock
        PROVE  r = [from |-> <<r.from[1]>>, to |-> <<r.to[1]>>, wire |-> r.wire, how |-> r.how]
    BY SentSame, Shapes DEF Sent!getBlock
  <1>3. ASSUME NEW r \in Sent!getBlock
        PROVE  Keeps(r.wire, r.how)
    BY SentSame, SentHow, Shapes, KeepsElse DEF Sent!getBlock
  <1> QED
    BY <1>1, <1>2, <1>3, ArrivesKept DEF Tidy

LEMMA TidyStatus == Tidy(Sent!getTransactionStatus)
  <1>1. ASSUME NEW r \in Sent!getTransactionStatus, NEW q \in Sent!getTransactionStatus,
               r.from = q.from \/ r.to = q.to
        PROVE  r = q
    BY <1>1, SentSame, Shapes DEF Sent!getTransactionStatus
  <1>2. ASSUME NEW r \in Sent!getTransactionStatus
        PROVE  r = [from |-> <<r.from[1]>>, to |-> <<r.to[1]>>, wire |-> r.wire, how |-> r.how]
    BY SentSame, Shapes DEF Sent!getTransactionStatus
  <1>3. ASSUME NEW r \in Sent!getTransactionStatus
        PROVE  Keeps(r.wire, r.how)
    BY SentSame, SentHow, Shapes, KeepsElse DEF Sent!getTransactionStatus
  <1> QED
    BY <1>1, <1>2, <1>3, ArrivesKept DEF Tidy

LEMMA TidySignature == Tidy(Sent!signature)
  <1>1. ASSUME NEW r \in Sent!signature, NEW q \in Sent!signature, r.from = q.from \/ r.to = q.to
        PROVE  r = q
    BY <1>1, SentSame, Shapes DEF Sent!signature
  <1>2. ASSUME NEW r \in Sent!signature
        PROVE  r = [from |-> <<r.from[1]>>, to |-> <<r.to[1]>>, wire |-> r.wire, how |-> r.how]
    BY SentSame, Shapes DEF Sent!signature
  <1>3. ASSUME NEW r \in Sent!signature
        PROVE  Keeps(r.wire, r.how)
    BY SentSame, SentHow, Shapes, KeepsElse DEF Sent!signature
  <1> QED
    BY <1>1, <1>2, <1>3, ArrivesKept DEF Tidy

LEMMA TidyPayment == Tidy(Sent!commandInput \union Sent!Move("receiver", "to", Sent!Name, Sent!AsIs)
                    \union Sent!Move("amount", "amount", Sent!Amount, Sent!Nanomina))
  <1> DEFINE t == Sent!commandInput \union Sent!Move("receiver", "to", Sent!Name, Sent!AsIs)
                    \union Sent!Move("amount", "amount", Sent!Amount, Sent!Nanomina)
  <1>1. ASSUME NEW r \in t, NEW q \in t, r.from = q.from \/ r.to = q.to
        PROVE  r = q
    BY <1>1, SentSame, Shapes DEF Sent!commandInput
  <1>2. ASSUME NEW r \in t
        PROVE  r = [from |-> <<r.from[1]>>, to |-> <<r.to[1]>>, wire |-> r.wire, how |-> r.how]
    BY SentSame, Shapes DEF Sent!commandInput
  <1>3. ASSUME NEW r \in t
        PROVE  Keeps(r.wire, r.how)
               \/ (r.from[1] = "memo" /\ r.wire = Optional(Text) /\ r.how = IfTruthy(AsIs))
    BY SentSame, SentHow, Shapes, KeepsAsIs, KeepsNanomina, KeepsUnless DEF Sent!commandInput
  <1>4. ASSUME NEW r \in t
        PROVE  Arrives(r)
    BY <1>3, EmptiesText, ArrivesKept, ArrivesEmpty
  <1> QED
    BY <1>1, <1>2, <1>4 DEF Tidy

LEMMA TidyDelegation ==
      Tidy(Sent!commandInput \union Sent!Move("delegateTo", "to", Sent!Name, Sent!AsIs))
  <1> DEFINE t == Sent!commandInput \union Sent!Move("delegateTo", "to", Sent!Name, Sent!AsIs)
  <1>1. ASSUME NEW r \in t, NEW q \in t, r.from = q.from \/ r.to = q.to
        PROVE  r = q
    BY <1>1, SentSame, Shapes DEF Sent!commandInput
  <1>2. ASSUME NEW r \in t
        PROVE  r = [from |-> <<r.from[1]>>, to |-> <<r.to[1]>>, wire |-> r.wire, how |-> r.how]
    BY SentSame, Shapes DEF Sent!commandInput
  <1>3. ASSUME NEW r \in t
        PROVE  Keeps(r.wire, r.how)
               \/ (r.from[1] = "memo" /\ r.wire = Optional(Text) /\ r.how = IfTruthy(AsIs))
    BY SentSame, SentHow, Shapes, KeepsAsIs, KeepsNanomina, KeepsUnless DEF Sent!commandInput
  <1>4. ASSUME NEW r \in t
        PROVE  Arrives(r)
    BY <1>3, EmptiesText, ArrivesKept, ArrivesEmpty
  <1> QED
    BY <1>1, <1>2, <1>4 DEF Tidy

LEMMA TidyZkapp == Tidy(Sent!Take({"zkappCommand"}, Sent!Unseen, Sent!AsIs))
  <1> DEFINE t == Sent!Take({"zkappCommand"}, Sent!Unseen, Sent!AsIs)
  <1>1. ASSUME NEW r \in t, NEW q \in t, r.from = q.from \/ r.to = q.to
        PROVE  r = q
    BY <1>1, SentSame, Shapes
  <1>2. ASSUME NEW r \in t
        PROVE  r = [from |-> <<r.from[1]>>, to |-> <<r.to[1]>>, wire |-> r.wire, how |-> r.how]
    BY SentSame, Shapes
  <1>3. ASSUME NEW r \in t
        PROVE  Keeps(r.wire, r.how)
    BY SentSame, SentHow, Shapes, KeepsAsIs
  <1> QED
    BY <1>1, <1>2, <1>3, ArrivesKept DEF Tidy

LEMMA TidyUnlock == Tidy(Sent!Take({"publicKey"}, Sent!Name, Sent!AsIs)
                    \union Sent!Take({"password"}, Sent!Text, Sent!AsIs))
  <1> DEFINE t == Sent!Take({"publicKey"}, Sent!Name, Sent!AsIs)
                    \union Sent!Take({"password"}, Sent!Text, Sent!AsIs)
  <1>1. ASSUME NEW r \in t, NEW q \in t, r.from = q.from \/ r.to = q.to
        PROVE  r = q
    BY <1>1, SentSame, Shapes
  <1>2. ASSUME NEW r \in t
        PROVE  r = [from |-> <<r.from[1]>>, to |-> <<r.to[1]>>, wire |-> r.wire, how |-> r.how]
    BY SentSame, Shapes
  <1>3. ASSUME NEW r \in t
        PROVE  Keeps(r.wire, r.how)
    BY SentSame, SentHow, Shapes, KeepsAsIs
  <1> QED
    BY <1>1, <1>2, <1>3, ArrivesKept DEF Tidy

LEMMA TidyWorker == Tidy(Sent!setSnarkWorker)
  <1>1. ASSUME NEW r \in Sent!setSnarkWorker, NEW q \in Sent!setSnarkWorker,
               r.from = q.from \/ r.to = q.to
        PROVE  r = q
    BY <1>1, SentSame, Shapes DEF Sent!setSnarkWorker
  <1>2. ASSUME NEW r \in Sent!setSnarkWorker
        PROVE  r = [from |-> <<r.from[1]>>, to |-> <<r.to[1]>>, wire |-> r.wire, how |-> r.how]
    BY SentSame, Shapes DEF Sent!setSnarkWorker
  <1>3. ASSUME NEW r \in Sent!setSnarkWorker
        PROVE  (r.from[1] = "publicKey" /\ r.wire = Optional(Text) /\ r.how = NullIfFalsy)
    BY SentSame, SentHow, Shapes DEF Sent!setSnarkWorker
  <1>4. ASSUME NEW r \in Sent!setSnarkWorker
        PROVE  Arrives(r)
    BY <1>3, EmptiesText, ArrivesKept, ArrivesEmpty
  <1> QED
    BY <1>1, <1>2, <1>4 DEF Tidy

LEMMA TidyFee == Tidy(Sent!setSnarkWorkFee)
  <1>1. ASSUME NEW r \in Sent!setSnarkWorkFee, NEW q \in Sent!setSnarkWorkFee,
               r.from = q.from \/ r.to = q.to
        PROVE  r = q
    BY <1>1, SentSame, Shapes DEF Sent!setSnarkWorkFee
  <1>2. ASSUME NEW r \in Sent!setSnarkWorkFee
        PROVE  r = [from |-> <<r.from[1]>>, to |-> <<r.to[1]>>, wire |-> r.wire, how |-> r.how]
    BY SentSame, Shapes DEF Sent!setSnarkWorkFee
  <1>3. ASSUME NEW r \in Sent!setSnarkWorkFee
        PROVE  Keeps(r.wire, r.how)
    BY SentSame, SentHow, Shapes, KeepsNanomina DEF Sent!setSnarkWorkFee
  <1> QED
    BY <1>1, <1>2, <1>3, ArrivesKept DEF Tidy

LEMMA TidyLogs == ASSUME NEW name PROVE Tidy(Sent!logIds(name))
  <1> DEFINE t == Sent!logIds(name)
  <1>1. ASSUME NEW r \in t, NEW q \in t, r.from = q.from \/ r.to = q.to
        PROVE  r = q
    BY <1>1, SentSame, Shapes DEF Sent!logIds
  <1>2. ASSUME NEW r \in t
        PROVE  r = [from |-> <<r.from[1]>>, to |-> <<r.to[1]>>, wire |-> r.wire, how |-> r.how]
    BY SentSame, Shapes DEF Sent!logIds
  <1>3. ASSUME NEW r \in t
        PROVE  Keeps(r.wire, r.how)
    BY SentSame, SentHow, Shapes, KeepsAsIs DEF Sent!logIds
  <1> QED
    BY <1>1, <1>2, <1>3, ArrivesKept DEF Tidy

LEMMA TidySchedule == Tidy(Sent!paymentsInput)
  <1>1. ASSUME NEW r \in Sent!paymentsInput, NEW q \in Sent!paymentsInput,
               r.from = q.from \/ r.to = q.to
        PROVE  r = q
    BY <1>1, SentSame, Shapes DEF Sent!paymentsInput
  <1>2. ASSUME NEW r \in Sent!paymentsInput
        PROVE  r = [from |-> <<r.from[1]>>, to |-> <<r.to[1]>>, wire |-> r.wire, how |-> r.how]
    BY SentSame, Shapes DEF Sent!paymentsInput
  <1>3. ASSUME NEW r \in Sent!paymentsInput
        PROVE  Keeps(r.wire, r.how)
    BY SentSame, SentHow, Shapes, KeepsAsIs, KeepsNanomina, KeepsElse DEF Sent!paymentsInput
  <1> QED
    BY <1>1, <1>2, <1>3, ArrivesKept DEF Tidy

LEMMA TidyZkapps == Tidy(Sent!zkappInput)
  <1>1. ASSUME NEW r \in Sent!zkappInput, NEW q \in Sent!zkappInput, r.from = q.from \/ r.to = q.to
        PROVE  r = q
    BY <1>1, SentSame, Shapes DEF Sent!zkappInput
  <1>2. ASSUME NEW r \in Sent!zkappInput
        PROVE  r = [from |-> <<r.from[1]>>, to |-> <<r.to[1]>>, wire |-> r.wire, how |-> r.how]
    BY SentSame, Shapes DEF Sent!zkappInput
  <1>3. ASSUME NEW r \in Sent!zkappInput
        PROVE  Keeps(r.wire, r.how)
    BY SentSame, SentHow, Shapes, KeepsAsIs, KeepsNanomina, KeepsElse, KeepsUnless
    DEF Sent!zkappInput
  <1> QED
    BY <1>1, <1>2, <1>3, ArrivesKept DEF Tidy

LEMMA TidyHandle == Tidy(Sent!handle)
  <1>1. ASSUME NEW r \in Sent!handle, NEW q \in Sent!handle, r.from = q.from \/ r.to = q.to
        PROVE  r = q
    BY <1>1, SentSame, Shapes DEF Sent!handle
  <1>2. ASSUME NEW r \in Sent!handle
        PROVE  r = [from |-> <<r.from[1]>>, to |-> <<r.to[1]>>, wire |-> r.wire, how |-> r.how]
    BY SentSame, Shapes DEF Sent!handle
  <1>3. ASSUME NEW r \in Sent!handle
        PROVE  Keeps(r.wire, r.how)
    BY SentSame, SentHow, Shapes, KeepsAsIs DEF Sent!handle
  <1> QED
    BY <1>1, <1>2, <1>3, ArrivesKept DEF Tidy

LEMMA TidyGating == Tidy(Sent!Take({"addedPeers", "bannedPeers", "trustedPeers"},
      Sent!Optional(Sent!List), Sent!Else("[]"))
                    \union Sent!Take({"cleanAddedPeers", "isolate"}, Sent!Flag, Sent!AsIs))
  <1> DEFINE t == Sent!Take({"addedPeers", "bannedPeers", "trustedPeers"},
                    Sent!Optional(Sent!List), Sent!Else("[]"))
                    \union Sent!Take({"cleanAddedPeers", "isolate"}, Sent!Flag, Sent!AsIs)
  <1>1. ASSUME NEW r \in t, NEW q \in t, r.from = q.from \/ r.to = q.to
        PROVE  r = q
    BY <1>1, SentSame, Shapes
  <1>2. ASSUME NEW r \in t
        PROVE  r = [from |-> <<r.from[1]>>, to |-> <<r.to[1]>>, wire |-> r.wire, how |-> r.how]
    BY SentSame, Shapes
  <1>3. ASSUME NEW r \in t
        PROVE  Keeps(r.wire, r.how)
    BY SentSame, SentHow, Shapes, KeepsAsIs, KeepsElse
  <1> QED
    BY <1>1, <1>2, <1>3, ArrivesKept DEF Tidy

LEMMA TidyStop == Tidy(Sent!stopDaemon)
  <1>1. ASSUME NEW r \in Sent!stopDaemon, NEW q \in Sent!stopDaemon, r.from = q.from \/ r.to = q.to
        PROVE  r = q
    BY <1>1, SentSame, Shapes DEF Sent!stopDaemon
  <1>2. ASSUME NEW r \in Sent!stopDaemon
        PROVE  r = [from |-> <<r.from[1]>>, to |-> <<r.to[1]>>, wire |-> r.wire, how |-> r.how]
    BY SentSame, Shapes DEF Sent!stopDaemon
  <1>3. ASSUME NEW r \in Sent!stopDaemon
        PROVE  Keeps(r.wire, r.how)
    BY SentSame, SentHow, Shapes, KeepsElse DEF Sent!stopDaemon
  <1> QED
    BY <1>1, <1>2, <1>3, ArrivesKept DEF Tidy

LEMMA TidyLimit == Tidy(Sent!setZkappCommandLimit)
  <1>1. ASSUME NEW r \in Sent!setZkappCommandLimit, NEW q \in Sent!setZkappCommandLimit,
               r.from = q.from \/ r.to = q.to
        PROVE  r = q
    BY <1>1, SentSame, Shapes DEF Sent!setZkappCommandLimit
  <1>2. ASSUME NEW r \in Sent!setZkappCommandLimit
        PROVE  r = [from |-> <<r.from[1]>>, to |-> <<r.to[1]>>, wire |-> r.wire, how |-> r.how]
    BY SentSame, Shapes DEF Sent!setZkappCommandLimit
  <1>3. ASSUME NEW r \in Sent!setZkappCommandLimit
        PROVE  Keeps(r.wire, r.how)
    BY SentSame, SentHow, Shapes, KeepsAsIs DEF Sent!setZkappCommandLimit
  <1> QED
    BY <1>1, <1>2, <1>3, ArrivesKept DEF Tidy

LEMMA TidyAccounts == Tidy(Sent!Take({"feePayer"}, Sent!Name, Sent!AsIs)
      \union Sent!Take({"numAccounts"}, Sent!Num, Sent!AsIs)
                    \union Sent!Take({"fee", "amount"}, Sent!Amount, Sent!Nanomina))
  <1> DEFINE t == Sent!Take({"feePayer"}, Sent!Name, Sent!AsIs)
                    \union Sent!Take({"numAccounts"}, Sent!Num, Sent!AsIs)
                    \union Sent!Take({"fee", "amount"}, Sent!Amount, Sent!Nanomina)
  <1>1. ASSUME NEW r \in t, NEW q \in t, r.from = q.from \/ r.to = q.to
        PROVE  r = q
    BY <1>1, SentSame, Shapes
  <1>2. ASSUME NEW r \in t
        PROVE  r = [from |-> <<r.from[1]>>, to |-> <<r.to[1]>>, wire |-> r.wire, how |-> r.how]
    BY SentSame, Shapes
  <1>3. ASSUME NEW r \in t
        PROVE  Keeps(r.wire, r.how)
    BY SentSame, SentHow, Shapes, KeepsAsIs, KeepsNanomina
  <1> QED
    BY <1>1, <1>2, <1>3, ArrivesKept DEF Tidy

LEMMA TidyNewHandle == Tidy(Sent!Take({"handle"}, Sent!Optional(Sent!Text), Sent!Else("null")))
  <1> DEFINE t == Sent!Take({"handle"}, Sent!Optional(Sent!Text), Sent!Else("null"))
  <1>1. ASSUME NEW r \in t, NEW q \in t, r.from = q.from \/ r.to = q.to
        PROVE  r = q
    BY <1>1, SentSame, Shapes
  <1>2. ASSUME NEW r \in t
        PROVE  r = [from |-> <<r.from[1]>>, to |-> <<r.to[1]>>, wire |-> r.wire, how |-> r.how]
    BY SentSame, Shapes
  <1>3. ASSUME NEW r \in t
        PROVE  Keeps(r.wire, r.how)
    BY SentSame, SentHow, Shapes, KeepsElse
  <1> QED
    BY <1>1, <1>2, <1>3, ArrivesKept DEF Tidy

\* They fill the variables that the documents declare.
LEMMA SendsAccount == RequestTable(Sent!getAccount, {"publicKey", "token"})
  <1>1. \A a \in Sent!getAccount : Gives(a.wire, a.how)
    BY SentSame, SentHow, Shapes, KeepsAsIs, EmptiesText DEF Sent!getAccount
  <1>2. {"publicKey", "token"} = Tops(Sent!getAccount)
    <2> DEFINE A == Sent!Move("publicKey", "publicKey", Sent!Name, Sent!AsIs)
               B == Sent!Move("tokenId", "token", Sent!Optional(Sent!Text), Sent!NullIfFalsy)
    <2>1. Tops(A) = {"publicKey"} /\ Tops(B) = {"token"}
      BY SentSame, TopsOf
    <2>2. Sent!getAccount = A \union B
      BY DEF Sent!getAccount
    <2> HIDE DEF A, B
    <2> QED
      BY <2>1, <2>2, TopsOf
  <1> QED
    BY <1>1, <1>2, TidyAccount, DirectTable

LEMMA SendsChain == RequestTable(Sent!getBestChain, {"maxLength"})
  <1>1. \A a \in Sent!getBestChain : Gives(a.wire, a.how)
    BY SentSame, SentHow, Shapes, EmptiesText DEF Sent!getBestChain
  <1>2. {"maxLength"} = Tops(Sent!getBestChain)
    BY SentSame, TopsOf DEF Sent!getBestChain
  <1> QED
    BY <1>1, <1>2, TidyChain, DirectTable

LEMMA SendsKey == RequestTable(Sent!ofPublicKey, {"publicKey"})
  <1>1. \A a \in Sent!ofPublicKey : Gives(a.wire, a.how)
    BY SentSame, SentHow, Shapes, EmptiesText DEF Sent!ofPublicKey
  <1>2. {"publicKey"} = Tops(Sent!ofPublicKey)
    BY SentSame, TopsOf DEF Sent!ofPublicKey
  <1> QED
    BY <1>1, <1>2, TidyKey, DirectTable

LEMMA SendsBlock == RequestTable(Sent!getBlock, {"stateHash", "height"})
  <1>1. \A a \in Sent!getBlock : Gives(a.wire, a.how)
    BY SentSame, SentHow, Shapes, KeepsElse DEF Sent!getBlock
  <1>2. {"stateHash", "height"} = Tops(Sent!getBlock)
    <2> DEFINE hash   == Move("stateHash", "stateHash", Sent!Optional(Text), Sent!Else("null"))
               height == Move("height", "height", Sent!Optional(Num), Sent!Else("null"))
    <2>1. Tops(Sent!getBlock) = Tops(hash) \union Tops(height)
      BY SentSame, TopsOf DEF Sent!getBlock
    <2>2. Tops(hash) = {"stateHash"} /\ Tops(height) = {"height"}
      BY TopsOf
    <2> HIDE DEF hash, height
    <2> QED
      BY <2>1, <2>2
  <1> QED
    BY <1>1, <1>2, TidyBlock, DirectTable

LEMMA SendsStatus == RequestTable(Sent!getTransactionStatus, {"payment", "zkappTransaction"})
  <1>1. \A a \in Sent!getTransactionStatus : Gives(a.wire, a.how)
    BY SentSame, SentHow, Shapes, KeepsElse DEF Sent!getTransactionStatus
  <1>2. {"payment", "zkappTransaction"} = Tops(Sent!getTransactionStatus)
    BY SentSame, TopsOf DEF Sent!getTransactionStatus
  <1> QED
    BY <1>1, <1>2, TidyStatus, DirectTable

LEMMA SendsWorker == RequestTable(Sent!setSnarkWorker, {"input"})
  <1>1. \A a \in Sent!setSnarkWorker : Gives(a.wire, a.how)
    BY SentSame, SentHow, Shapes, EmptiesText DEF Sent!setSnarkWorker
  <1>2. {"input"} = Tops(Sent!setSnarkWorker)
    BY SentSame, TopsOf DEF Sent!setSnarkWorker
  <1> QED
    BY <1>1, <1>2, TidyWorker, DirectTable

LEMMA SendsFee == RequestTable(Sent!setSnarkWorkFee, {"fee"})
  <1>1. \A a \in Sent!setSnarkWorkFee : Gives(a.wire, a.how)
    BY SentSame, SentHow, Shapes, KeepsNanomina DEF Sent!setSnarkWorkFee
  <1>2. {"fee"} = Tops(Sent!setSnarkWorkFee)
    BY SentSame, TopsOf DEF Sent!setSnarkWorkFee
  <1> QED
    BY <1>1, <1>2, TidyFee, DirectTable

LEMMA SendsLogs == ASSUME NEW name PROVE RequestTable(Sent!logIds(name), {name})
  <1>1. \A a \in Sent!logIds(name) : Gives(a.wire, a.how)
    BY SentSame, SentHow, Shapes, KeepsAsIs DEF Sent!logIds
  <1>2. {name} = Tops(Sent!logIds(name))
    BY SentSame, TopsOf DEF Sent!logIds
  <1> QED
    BY <1>1, <1>2, TidyLogs, DirectTable

LEMMA SendsHandle == RequestTable(Sent!handle, {"handle"})
  <1>1. \A a \in Sent!handle : Gives(a.wire, a.how)
    BY SentSame, SentHow, Shapes, KeepsAsIs DEF Sent!handle
  <1>2. {"handle"} = Tops(Sent!handle)
    BY SentSame, TopsOf DEF Sent!handle
  <1> QED
    BY <1>1, <1>2, TidyHandle, DirectTable

LEMMA SendsStop == RequestTable(Sent!stopDaemon, {"delaySeconds", "cleanConfig"})
  <1>1. \A a \in Sent!stopDaemon : Gives(a.wire, a.how)
    BY SentSame, SentHow, Shapes, KeepsElse DEF Sent!stopDaemon
  <1>2. {"delaySeconds", "cleanConfig"} = Tops(Sent!stopDaemon)
    BY SentSame, TopsOf DEF Sent!stopDaemon
  <1> QED
    BY <1>1, <1>2, TidyStop, DirectTable

LEMMA SendsLimit == RequestTable(Sent!setZkappCommandLimit, {"limit"})
  <1>1. \A a \in Sent!setZkappCommandLimit : Gives(a.wire, a.how)
    BY SentSame, SentHow, Shapes, KeepsAsIs DEF Sent!setZkappCommandLimit
  <1>2. {"limit"} = Tops(Sent!setZkappCommandLimit)
    BY SentSame, TopsOf DEF Sent!setZkappCommandLimit
  <1> QED
    BY <1>1, <1>2, TidyLimit, DirectTable

LEMMA SendsPayment == RequestTable(Sent!sendPayment, {"input", "signature"})
  <1> DEFINE B == Sent!commandInput \union Sent!Move("receiver", "to", Sent!Name, Sent!AsIs)
                    \union Sent!Move("amount", "amount", Sent!Amount, Sent!Nanomina)
  <1> DEFINE A == Sent!signature
  <1>1. \A a \in A : Gives(a.wire, a.how)
    BY SentSame, SentHow, Shapes, KeepsElse DEF Sent!signature
  <1>2. \A a \in A : a.to[1] # "input" /\ \A b \in B : a.from # b.from
    BY SentSame, Shapes DEF Sent!signature, Sent!commandInput
  <1>3. {"input", "signature"} = Tops(A) \union {"input"}
    BY SentSame, TopsOf DEF Sent!signature
  <1>4. \E b \in B : Gives(b.wire, b.how)
    <2> DEFINE b == [from |-> <<"fee">>, to |-> <<"fee">>, wire |-> Amount, how |-> Nanomina]
    <2>1. b \in B
      BY SentSame, SentHow, Shapes DEF Sent!commandInput
    <2>2. Gives(b.wire, b.how)
      BY KeepsAsIs, KeepsNanomina, KeepsElse
    <2> QED
      BY <2>1, <2>2
  <1>5. Sent!sendPayment = A \union Inside(<<>>, <<"input">>, B)
    BY SentSame DEF Sent!sendPayment
  <1>6. Tidy(A) /\ Tidy(B)
    BY TidySignature, TidyPayment
  <1> HIDE DEF A, B
  <1>7. RequestTable(A \union Inside(<<>>, <<"input">>, B), {"input", "signature"})
    BY <1>1, <1>2, <1>3, <1>4, <1>6, InputTable
  <1> QED
    BY <1>5, <1>7

LEMMA SendsDelegation == RequestTable(Sent!sendDelegation, {"input", "signature"})
  <1> DEFINE B == Sent!commandInput \union Sent!Move("delegateTo", "to", Sent!Name, Sent!AsIs)
  <1> DEFINE A == Sent!signature
  <1>1. \A a \in A : Gives(a.wire, a.how)
    BY SentSame, SentHow, Shapes, KeepsElse DEF Sent!signature
  <1>2. \A a \in A : a.to[1] # "input" /\ \A b \in B : a.from # b.from
    BY SentSame, Shapes DEF Sent!signature, Sent!commandInput
  <1>3. {"input", "signature"} = Tops(A) \union {"input"}
    BY SentSame, TopsOf DEF Sent!signature
  <1>4. \E b \in B : Gives(b.wire, b.how)
    <2> DEFINE b == [from |-> <<"fee">>, to |-> <<"fee">>, wire |-> Amount, how |-> Nanomina]
    <2>1. b \in B
      BY SentSame, SentHow, Shapes DEF Sent!commandInput
    <2>2. Gives(b.wire, b.how)
      BY KeepsAsIs, KeepsNanomina, KeepsElse
    <2> QED
      BY <2>1, <2>2
  <1>5. Sent!sendDelegation = A \union Inside(<<>>, <<"input">>, B)
    BY SentSame DEF Sent!sendDelegation
  <1>6. Tidy(A) /\ Tidy(B)
    BY TidySignature, TidyDelegation
  <1> HIDE DEF A, B
  <1>7. RequestTable(A \union Inside(<<>>, <<"input">>, B), {"input", "signature"})
    BY <1>1, <1>2, <1>3, <1>4, <1>6, InputTable
  <1> QED
    BY <1>5, <1>7

LEMMA SendsZkapp == RequestTable(Sent!sendZkapp, {"input"})
  <1> DEFINE B == Sent!Take({"zkappCommand"}, Sent!Unseen, Sent!AsIs)
  <1>4. \E b \in B : Gives(b.wire, b.how)
    <2> DEFINE b == [from |-> <<"zkappCommand">>, to |-> <<"zkappCommand">>, wire |-> Unseen,
                      how |-> AsIs]
    <2>1. b \in B
      BY SentSame, SentHow, Shapes
    <2>2. Gives(b.wire, b.how)
      BY KeepsAsIs, KeepsNanomina, KeepsElse
    <2> QED
      BY <2>1, <2>2
  <1>5. Sent!sendZkapp = {} \union Inside(<<>>, <<"input">>, B)
    BY SentSame DEF Sent!sendZkapp
  <1>6. Tidy({}) /\ Tidy(B)
    BY TidyZkapp DEF Tidy
  <1> HIDE DEF B
  <1>7. RequestTable({} \union Inside(<<>>, <<"input">>, B), {"input"})
    BY <1>4, <1>6, InputTable DEF Tops
  <1> QED
    BY <1>5, <1>7

LEMMA SendsUnlock == RequestTable(Sent!unlockAccount, {"input"})
  <1> DEFINE B == Sent!Take({"publicKey"}, Sent!Name, Sent!AsIs)
                    \union Sent!Take({"password"}, Sent!Text, Sent!AsIs)
  <1>4. \E b \in B : Gives(b.wire, b.how)
    <2> DEFINE b == [from |-> <<"publicKey">>, to |-> <<"publicKey">>, wire |-> Name, how |-> AsIs]
    <2>1. b \in B
      BY SentSame, SentHow, Shapes
    <2>2. Gives(b.wire, b.how)
      BY KeepsAsIs, KeepsNanomina, KeepsElse
    <2> QED
      BY <2>1, <2>2
  <1>5. Sent!unlockAccount = {} \union Inside(<<>>, <<"input">>, B)
    BY SentSame DEF Sent!unlockAccount
  <1>6. Tidy({}) /\ Tidy(B)
    BY TidyUnlock DEF Tidy
  <1> HIDE DEF B
  <1>7. RequestTable({} \union Inside(<<>>, <<"input">>, B), {"input"})
    BY <1>4, <1>6, InputTable DEF Tops
  <1> QED
    BY <1>5, <1>7

LEMMA SendsSchedule == RequestTable(Sent!Input(Sent!paymentsInput), {"input"})
  <1> DEFINE B == Sent!paymentsInput
  <1>4. \E b \in B : Gives(b.wire, b.how)
    <2> DEFINE b == [from |-> <<"receiver">>, to |-> <<"receiver">>, wire |-> Name, how |-> AsIs]
    <2>1. b \in B
      BY SentSame, SentHow, Shapes DEF Sent!paymentsInput
    <2>2. Gives(b.wire, b.how)
      BY KeepsAsIs, KeepsNanomina, KeepsElse
    <2> QED
      BY <2>1, <2>2
  <1>5. Sent!Input(Sent!paymentsInput) = {} \union Inside(<<>>, <<"input">>, B)
    BY SentSame
  <1>6. Tidy({}) /\ Tidy(B)
    BY TidySchedule DEF Tidy
  <1> HIDE DEF B
  <1>7. RequestTable({} \union Inside(<<>>, <<"input">>, B), {"input"})
    BY <1>4, <1>6, InputTable DEF Tops
  <1> QED
    BY <1>5, <1>7

LEMMA SendsZkapps == RequestTable(Sent!Input(Sent!zkappInput), {"input"})
  <1> DEFINE B == Sent!zkappInput
  <1>4. \E b \in B : Gives(b.wire, b.how)
    <2> DEFINE b == [from |-> <<"tps">>, to |-> <<"tps">>, wire |-> Num, how |-> AsIs]
    <2>1. b \in B
      BY SentSame, SentHow, Shapes DEF Sent!zkappInput
    <2>2. Gives(b.wire, b.how)
      BY KeepsAsIs, KeepsNanomina, KeepsElse
    <2> QED
      BY <2>1, <2>2
  <1>5. Sent!Input(Sent!zkappInput) = {} \union Inside(<<>>, <<"input">>, B)
    BY SentSame
  <1>6. Tidy({}) /\ Tidy(B)
    BY TidyZkapps DEF Tidy
  <1> HIDE DEF B
  <1>7. RequestTable({} \union Inside(<<>>, <<"input">>, B), {"input"})
    BY <1>4, <1>6, InputTable DEF Tops
  <1> QED
    BY <1>5, <1>7

LEMMA SendsGating == RequestTable(Sent!updateGating, {"input"})
  <1> DEFINE B == Sent!Take({"addedPeers", "bannedPeers", "trustedPeers"},
                    Sent!Optional(Sent!List), Sent!Else("[]"))
                    \union Sent!Take({"cleanAddedPeers", "isolate"}, Sent!Flag, Sent!AsIs)
  <1>4. \E b \in B : Gives(b.wire, b.how)
    <2> DEFINE b == [from |-> <<"isolate">>, to |-> <<"isolate">>, wire |-> Flag, how |-> AsIs]
    <2>1. b \in B
      BY SentSame, SentHow, Shapes
    <2>2. Gives(b.wire, b.how)
      BY KeepsAsIs, KeepsNanomina, KeepsElse
    <2> QED
      BY <2>1, <2>2
  <1>5. Sent!updateGating = {} \union Inside(<<>>, <<"input">>, B)
    BY SentSame DEF Sent!updateGating
  <1>6. Tidy({}) /\ Tidy(B)
    BY TidyGating DEF Tidy
  <1> HIDE DEF B
  <1>7. RequestTable({} \union Inside(<<>>, <<"input">>, B), {"input"})
    BY <1>4, <1>6, InputTable DEF Tops
  <1> QED
    BY <1>5, <1>7

LEMMA SendsScheduleWithHandle == RequestTable(WithHandle(Sent!paymentsInput), {"input", "handle"})
  <1> DEFINE B == Sent!paymentsInput
  <1> DEFINE A == Sent!handle
  <1>1. \A a \in A : Gives(a.wire, a.how)
    BY SentSame, SentHow, Shapes, KeepsAsIs DEF Sent!handle
  <1>2. \A a \in A : a.to[1] # "input" /\ \A b \in B : a.from # b.from
    BY SentSame, Shapes DEF Sent!handle, Sent!paymentsInput
  <1>3. {"input", "handle"} = Tops(A) \union {"input"}
    BY SentSame, TopsOf DEF Sent!handle
  <1>4. \E b \in B : Gives(b.wire, b.how)
    <2> DEFINE b == [from |-> <<"receiver">>, to |-> <<"receiver">>, wire |-> Name, how |-> AsIs]
    <2>1. b \in B
      BY SentSame, SentHow, Shapes DEF Sent!paymentsInput
    <2>2. Gives(b.wire, b.how)
      BY KeepsAsIs, KeepsNanomina, KeepsElse
    <2> QED
      BY <2>1, <2>2
  <1>5. WithHandle(Sent!paymentsInput) = A \union Inside(<<>>, <<"input">>, B)
    BY SentSame DEF WithHandle
  <1>6. Tidy(A) /\ Tidy(B)
    BY TidyHandle, TidySchedule
  <1> HIDE DEF A, B
  <1>7. RequestTable(A \union Inside(<<>>, <<"input">>, B), {"input", "handle"})
    BY <1>1, <1>2, <1>3, <1>4, <1>6, InputTable
  <1> QED
    BY <1>5, <1>7

LEMMA SendsZkappsWithHandle == RequestTable(WithHandle(Sent!zkappInput), {"input", "handle"})
  <1> DEFINE B == Sent!zkappInput
  <1> DEFINE A == Sent!handle
  <1>1. \A a \in A : Gives(a.wire, a.how)
    BY SentSame, SentHow, Shapes, KeepsAsIs DEF Sent!handle
  <1>2. \A a \in A : a.to[1] # "input" /\ \A b \in B : a.from # b.from
    BY SentSame, Shapes DEF Sent!handle, Sent!zkappInput
  <1>3. {"input", "handle"} = Tops(A) \union {"input"}
    BY SentSame, TopsOf DEF Sent!handle
  <1>4. \E b \in B : Gives(b.wire, b.how)
    <2> DEFINE b == [from |-> <<"tps">>, to |-> <<"tps">>, wire |-> Num, how |-> AsIs]
    <2>1. b \in B
      BY SentSame, SentHow, Shapes DEF Sent!zkappInput
    <2>2. Gives(b.wire, b.how)
      BY KeepsAsIs, KeepsNanomina, KeepsElse
    <2> QED
      BY <2>1, <2>2
  <1>5. WithHandle(Sent!zkappInput) = A \union Inside(<<>>, <<"input">>, B)
    BY SentSame DEF WithHandle
  <1>6. Tidy(A) /\ Tidy(B)
    BY TidyHandle, TidyZkapps
  <1> HIDE DEF A, B
  <1>7. RequestTable(A \union Inside(<<>>, <<"input">>, B), {"input", "handle"})
    BY <1>1, <1>2, <1>3, <1>4, <1>6, InputTable
  <1> QED
    BY <1>5, <1>7

LEMMA SendsAccounts == RequestTable(Sent!createAccounts, {"input", "handle"})
  <1> DEFINE B == Sent!Take({"feePayer"}, Sent!Name, Sent!AsIs)
                    \union Sent!Take({"numAccounts"}, Sent!Num, Sent!AsIs)
                    \union Sent!Take({"fee", "amount"}, Sent!Amount, Sent!Nanomina)
  <1> DEFINE A == Sent!Take({"handle"}, Sent!Optional(Sent!Text), Sent!Else("null"))
  <1>1. \A a \in A : Gives(a.wire, a.how)
    BY SentSame, SentHow, Shapes, KeepsElse
  <1>2. \A a \in A : a.to[1] # "input" /\ \A b \in B : a.from # b.from
    BY SentSame, Shapes
  <1>3. {"input", "handle"} = Tops(A) \union {"input"}
    BY SentSame, TopsOf
  <1>4. \E b \in B : Gives(b.wire, b.how)
    <2> DEFINE b == [from |-> <<"feePayer">>, to |-> <<"feePayer">>, wire |-> Name, how |-> AsIs]
    <2>1. b \in B
      BY SentSame, SentHow, Shapes
    <2>2. Gives(b.wire, b.how)
      BY KeepsAsIs, KeepsNanomina, KeepsElse
    <2> QED
      BY <2>1, <2>2
  <1>5. Sent!createAccounts = A \union Inside(<<>>, <<"input">>, B)
    BY SentSame DEF Sent!createAccounts
  <1>6. Tidy(A) /\ Tidy(B)
    BY TidyNewHandle, TidyAccounts
  <1> HIDE DEF A, B
  <1>7. RequestTable(A \union Inside(<<>>, <<"input">>, B), {"input", "handle"})
    BY <1>1, <1>2, <1>3, <1>4, <1>6, InputTable
  <1> QED
    BY <1>5, <1>7

LEMMA SendsNothing == RequestTable({}, {})
  BY DEF RequestTable, Flat, OneWire

-----------------------------------------------------------------------------
(* The methods.                                                            *)

LEMMA DocumentOf ==
  /\ \A d, n, s : Document(d, n, s).declared = d /\ Document(d, n, s).nonNull = n
  /\ \A s : Plain(s).declared = {}
  BY DEF Document, Plain

LEMMA MethodOf ==
  \A a, d, r, t : /\ Method(a, d, r, t).arguments = a /\ Method(a, d, r, t).document = d
                  /\ Method(a, d, r, t).decoding = r /\ Method(a, d, r, t).type = t
  BY DEF Method

\* The table of a method fills the variables of the method's document.
SendsTable(m) == RequestTable(m.arguments, m.document.declared)

LEMMA SendsMethod ==
  /\ \A a, d, r, t : RequestTable(a, d.declared) => SendsTable(Method(a, d, r, t))
  /\ \A a, d, f : RequestTable(a, d.declared) => SendsTable(Handled(a, d, f))
  BY MethodOf DEF SendsTable, Handled

\* The methods one by one, so that no proof has to open the whole record.
LEMMA TheQueries ==
  /\ DOMAIN Queries =
       {"getSyncStatus", "getDaemonStatus", "getDaemonMetrics", "getNetworkId",
       "getAccount", "getBestChain", "getGenesisBlock", "getPeers",
       "getPooledUserCommands", "getPooledZkappCommands", "getSnarkPool",
       "getForkConfig", "getBlock", "getTransactionStatus", "getGenesisConstants",
       "getTrackedAccounts"}
  /\ Queries["getSyncStatus"] = Method({}, QUERY_SYNC_STATUS, Got!getSyncStatus, Just(string))
  /\ Queries["getDaemonStatus"] = Method({}, QUERY_DAEMON_STATUS, Got!getDaemonStatus,
        DaemonStatus)
  /\ Queries["getDaemonMetrics"] = Method({}, QUERY_DAEMON_METRICS, Got!getDaemonMetrics,
        DaemonMetrics)
  /\ Queries["getNetworkId"] = Method({}, QUERY_NETWORK_ID, Got!getNetworkId, Just(string))
  /\ Queries["getAccount"] = Method(Sent!getAccount, QUERY_ACCOUNT, Got!getAccount, AccountData)
  /\ Queries["getBestChain"] = Method(Sent!getBestChain, QUERY_BEST_CHAIN, Got!getBestChain,
        ListOf(BlockInfo))
  /\ Queries["getGenesisBlock"] = Method({}, QUERY_GENESIS_BLOCK, Got!getGenesisBlock,
        BlockInfo)
  /\ Queries["getPeers"] = Method({}, QUERY_PEERS, Got!getPeers, ListOf(PeerInfo))
  /\ Queries["getPooledUserCommands"] = Method(Sent!ofPublicKey, QUERY_POOLED_USER_COMMANDS,
        Got!getPooledUserCommands, ListOf(PooledUserCommand))
  /\ Queries["getPooledZkappCommands"] = Method(Sent!ofPublicKey, QUERY_POOLED_ZKAPP_COMMANDS,
        Got!getPooledZkappCommands, ListOf(ZkappCommandResult))
  /\ Queries["getSnarkPool"] = Method({}, QUERY_SNARK_POOL, Got!getSnarkPool,
        ListOf(CompletedWork))
  /\ Queries["getForkConfig"] = Method({}, QUERY_FORK_CONFIG, Got!getForkConfig, Just(unknown))
  /\ Queries["getBlock"] = Method(Sent!getBlock, QUERY_BLOCK, Got!getBlock, Block)
  /\ Queries["getTransactionStatus"] = Method(Sent!getTransactionStatus,
        QUERY_TRANSACTION_STATUS, Got!getTransactionStatus, Just(string))
  /\ Queries["getGenesisConstants"] = Method({}, QUERY_GENESIS_CONSTANTS,
        Got!getGenesisConstants, GenesisConstants)
  /\ Queries["getTrackedAccounts"] = Method({}, QUERY_TRACKED_ACCOUNTS, Got!getTrackedAccounts,
        ListOf(TrackedAccount))
  BY DEF Queries

LEMMA TheMutations ==
  /\ DOMAIN Mutations =
       {"sendPayment", "sendDelegation", "sendZkapp", "unlockAccount", "setSnarkWorker",
       "setSnarkWorkFee"}
  /\ Mutations["sendPayment"] = Method(Sent!sendPayment, MUTATION_SEND_PAYMENT,
        Got!sendPayment, SubmittedCommand)
  /\ Mutations["sendDelegation"] = Method(Sent!sendDelegation, MUTATION_SEND_DELEGATION,
        Got!sendDelegation, SubmittedCommand)
  /\ Mutations["sendZkapp"] = Method(Sent!sendZkapp, MUTATION_SEND_ZKAPP, Got!sendZkapp,
        ZkappCommandResult)
  /\ Mutations["unlockAccount"] = Method(Sent!unlockAccount, MUTATION_UNLOCK_ACCOUNT,
        Got!unlockAccount, Just(string))
  /\ Mutations["setSnarkWorker"] = Method(Sent!setSnarkWorker, MUTATION_SET_SNARK_WORKER,
        Got!setSnarkWorker, Just(orNull(string)))
  /\ Mutations["setSnarkWorkFee"] = Method(Sent!setSnarkWorkFee, MUTATION_SET_SNARK_WORK_FEE,
        Got!setSnarkWorkFee, Just(string))
  BY DEF Mutations

LEMMA TheItnOperations ==
  /\ DOMAIN ItnOperations =
       {"auth", "slotsWon", "internalLogs", "flushInternalLogs", "schedulePayments",
       "scheduleZkappCommands", "stopScheduledTransactions", "updateGating",
       "stopDaemon", "setZkappCommandLimit", "commitId", "scheduledTransactions",
       "schedulePaymentsWithHandle", "scheduleZkappCommandsWithHandle",
       "createAccounts"}
  /\ ItnOperations["auth"] = Method({}, QUERY_AUTH, Got!parseAuth, ItnAuth)
  /\ ItnOperations["slotsWon"] = Method({}, QUERY_SLOTS_WON, Got!slotsWon, Just(list))
  /\ ItnOperations["internalLogs"] = Method(Sent!logIds("startLogId"), QUERY_INTERNAL_LOGS,
        Got!internalLogs, ListOf(ItnLog))
  /\ ItnOperations["flushInternalLogs"] = Handled(Sent!logIds("endLogId"),
        MUTATION_FLUSH_INTERNAL_LOGS, "flushInternalLogs")
  /\ ItnOperations["schedulePayments"] = Handled(Sent!Input(Sent!paymentsInput),
        MUTATION_SCHEDULE_PAYMENTS, "schedulePayments")
  /\ ItnOperations["scheduleZkappCommands"] = Handled(Sent!Input(Sent!zkappInput),
        MUTATION_SCHEDULE_ZKAPP_COMMANDS, "scheduleZkappCommands")
  /\ ItnOperations["stopScheduledTransactions"] = Handled(Sent!handle,
        MUTATION_STOP_SCHEDULED_TRANSACTIONS, "stopScheduledTransactions")
  /\ ItnOperations["updateGating"] = Handled(Sent!updateGating, MUTATION_UPDATE_GATING,
        "updateGating")
  /\ ItnOperations["stopDaemon"] = Handled(Sent!stopDaemon, MUTATION_STOP_DAEMON, "stopDaemon")
  /\ ItnOperations["setZkappCommandLimit"] = Method(Sent!setZkappCommandLimit,
        MUTATION_ZKAPP_COMMAND_LIMIT, Got!setZkappCommandLimit, Just(orNull(number)))
  /\ ItnOperations["commitId"] = Method({}, QUERY_COMMIT_ID, Got!commitId, Just(string))
  /\ ItnOperations["scheduledTransactions"] = Method({}, QUERY_SCHEDULED_TRANSACTIONS,
        Got!scheduledTransactions, Just(list))
  /\ ItnOperations["schedulePaymentsWithHandle"] = Handled(WithHandle(Sent!paymentsInput),
        MUTATION_SCHEDULE_PAYMENTS_WITH_HANDLE, "schedulePayments")
  /\ ItnOperations["scheduleZkappCommandsWithHandle"] = Handled(WithHandle(Sent!zkappInput),
        MUTATION_SCHEDULE_ZKAPP_COMMANDS_WITH_HANDLE, "scheduleZkappCommands")
  /\ ItnOperations["createAccounts"] = Method(Sent!createAccounts, MUTATION_CREATE_ACCOUNTS,
        Got!createAccounts, CreatedAccounts)
  BY DEF ItnOperations

\* The variables that the documents declare.
LEMMA QueryDocuments ==
  /\ QUERY_SYNC_STATUS.declared = {}
  /\ QUERY_DAEMON_STATUS.declared = {}
  /\ QUERY_DAEMON_METRICS.declared = {}
  /\ QUERY_NETWORK_ID.declared = {}
  /\ QUERY_ACCOUNT.declared = {"publicKey", "token"}
  /\ QUERY_BEST_CHAIN.declared = {"maxLength"}
  /\ QUERY_GENESIS_BLOCK.declared = {}
  /\ QUERY_PEERS.declared = {}
  /\ QUERY_POOLED_USER_COMMANDS.declared = {"publicKey"}
  /\ QUERY_POOLED_ZKAPP_COMMANDS.declared = {"publicKey"}
  /\ QUERY_SNARK_POOL.declared = {}
  /\ QUERY_FORK_CONFIG.declared = {}
  /\ QUERY_BLOCK.declared = {"stateHash", "height"}
  /\ QUERY_TRANSACTION_STATUS.declared = {"payment", "zkappTransaction"}
  /\ QUERY_GENESIS_CONSTANTS.declared = {}
  /\ QUERY_TRACKED_ACCOUNTS.declared = {}
  BY DocumentOf
  DEF QUERY_SYNC_STATUS, QUERY_DAEMON_STATUS, QUERY_DAEMON_METRICS, QUERY_NETWORK_ID,
      QUERY_ACCOUNT, QUERY_BEST_CHAIN, QUERY_GENESIS_BLOCK, QUERY_PEERS,
      QUERY_POOLED_USER_COMMANDS, QUERY_POOLED_ZKAPP_COMMANDS, QUERY_SNARK_POOL,
      QUERY_FORK_CONFIG, QUERY_BLOCK, QUERY_TRANSACTION_STATUS, QUERY_GENESIS_CONSTANTS,
      QUERY_TRACKED_ACCOUNTS

LEMMA QueryTables == \A name \in DOMAIN Queries : SendsTable(Queries[name])
  <1>1. /\ RequestTable({}, QUERY_SYNC_STATUS.declared)
        /\ RequestTable({}, QUERY_DAEMON_STATUS.declared)
        /\ RequestTable({}, QUERY_DAEMON_METRICS.declared)
        /\ RequestTable({}, QUERY_NETWORK_ID.declared)
        /\ RequestTable(Sent!getAccount, QUERY_ACCOUNT.declared)
        /\ RequestTable(Sent!getBestChain, QUERY_BEST_CHAIN.declared)
        /\ RequestTable({}, QUERY_GENESIS_BLOCK.declared)
        /\ RequestTable({}, QUERY_PEERS.declared)
        /\ RequestTable(Sent!ofPublicKey, QUERY_POOLED_USER_COMMANDS.declared)
        /\ RequestTable(Sent!ofPublicKey, QUERY_POOLED_ZKAPP_COMMANDS.declared)
        /\ RequestTable({}, QUERY_SNARK_POOL.declared)
        /\ RequestTable({}, QUERY_FORK_CONFIG.declared)
        /\ RequestTable(Sent!getBlock, QUERY_BLOCK.declared)
        /\ RequestTable(Sent!getTransactionStatus, QUERY_TRANSACTION_STATUS.declared)
        /\ RequestTable({}, QUERY_GENESIS_CONSTANTS.declared)
        /\ RequestTable({}, QUERY_TRACKED_ACCOUNTS.declared)
    BY QueryDocuments, SendsNothing, SendsAccount, SendsChain, SendsKey, SendsBlock, SendsStatus
  <1> QED
    BY <1>1, TheQueries, SendsMethod

LEMMA MutationDocuments ==
  /\ MUTATION_SEND_PAYMENT.declared = {"input", "signature"}
  /\ MUTATION_SEND_DELEGATION.declared = {"input", "signature"}
  /\ MUTATION_SEND_ZKAPP.declared = {"input"}
  /\ MUTATION_UNLOCK_ACCOUNT.declared = {"input"}
  /\ MUTATION_SET_SNARK_WORKER.declared = {"input"}
  /\ MUTATION_SET_SNARK_WORK_FEE.declared = {"fee"}
  BY DocumentOf
  DEF MUTATION_SEND_PAYMENT, MUTATION_SEND_DELEGATION, MUTATION_SEND_ZKAPP,
      MUTATION_UNLOCK_ACCOUNT, MUTATION_SET_SNARK_WORKER, MUTATION_SET_SNARK_WORK_FEE

LEMMA MutationTables == \A name \in DOMAIN Mutations : SendsTable(Mutations[name])
  <1>1. /\ RequestTable(Sent!sendPayment, MUTATION_SEND_PAYMENT.declared)
        /\ RequestTable(Sent!sendDelegation, MUTATION_SEND_DELEGATION.declared)
        /\ RequestTable(Sent!sendZkapp, MUTATION_SEND_ZKAPP.declared)
        /\ RequestTable(Sent!unlockAccount, MUTATION_UNLOCK_ACCOUNT.declared)
        /\ RequestTable(Sent!setSnarkWorker, MUTATION_SET_SNARK_WORKER.declared)
        /\ RequestTable(Sent!setSnarkWorkFee, MUTATION_SET_SNARK_WORK_FEE.declared)
    BY MutationDocuments, SendsPayment, SendsDelegation, SendsZkapp, SendsUnlock, SendsWorker,
       SendsFee
  <1> QED
    BY <1>1, TheMutations, SendsMethod

LEMMA ItnDocuments ==
  /\ QUERY_AUTH.declared = {}
  /\ QUERY_SLOTS_WON.declared = {}
  /\ QUERY_INTERNAL_LOGS.declared = {"startLogId"}
  /\ MUTATION_FLUSH_INTERNAL_LOGS.declared = {"endLogId"}
  /\ MUTATION_SCHEDULE_PAYMENTS.declared = {"input"}
  /\ MUTATION_SCHEDULE_ZKAPP_COMMANDS.declared = {"input"}
  /\ MUTATION_STOP_SCHEDULED_TRANSACTIONS.declared = {"handle"}
  /\ MUTATION_UPDATE_GATING.declared = {"input"}
  /\ MUTATION_STOP_DAEMON.declared = {"delaySeconds", "cleanConfig"}
  /\ MUTATION_ZKAPP_COMMAND_LIMIT.declared = {"limit"}
  /\ QUERY_COMMIT_ID.declared = {}
  /\ QUERY_SCHEDULED_TRANSACTIONS.declared = {}
  /\ MUTATION_SCHEDULE_PAYMENTS_WITH_HANDLE.declared = {"input", "handle"}
  /\ MUTATION_SCHEDULE_ZKAPP_COMMANDS_WITH_HANDLE.declared = {"input", "handle"}
  /\ MUTATION_CREATE_ACCOUNTS.declared = {"input", "handle"}
  BY DocumentOf
  DEF QUERY_AUTH, QUERY_SLOTS_WON, QUERY_INTERNAL_LOGS, MUTATION_FLUSH_INTERNAL_LOGS,
      MUTATION_SCHEDULE_PAYMENTS, MUTATION_SCHEDULE_ZKAPP_COMMANDS,
      MUTATION_STOP_SCHEDULED_TRANSACTIONS, MUTATION_UPDATE_GATING, MUTATION_STOP_DAEMON,
      MUTATION_ZKAPP_COMMAND_LIMIT, QUERY_COMMIT_ID, QUERY_SCHEDULED_TRANSACTIONS,
      MUTATION_SCHEDULE_PAYMENTS_WITH_HANDLE, MUTATION_SCHEDULE_ZKAPP_COMMANDS_WITH_HANDLE,
      MUTATION_CREATE_ACCOUNTS

LEMMA ItnTables == \A name \in DOMAIN ItnOperations : SendsTable(ItnOperations[name])
  <1>1. /\ RequestTable({}, QUERY_AUTH.declared)
        /\ RequestTable({}, QUERY_SLOTS_WON.declared)
        /\ RequestTable(Sent!logIds("startLogId"), QUERY_INTERNAL_LOGS.declared)
        /\ RequestTable(Sent!logIds("endLogId"), MUTATION_FLUSH_INTERNAL_LOGS.declared)
        /\ RequestTable(Sent!Input(Sent!paymentsInput), MUTATION_SCHEDULE_PAYMENTS.declared)
        /\ RequestTable(Sent!Input(Sent!zkappInput), MUTATION_SCHEDULE_ZKAPP_COMMANDS.declared)
        /\ RequestTable(Sent!handle, MUTATION_STOP_SCHEDULED_TRANSACTIONS.declared)
        /\ RequestTable(Sent!updateGating, MUTATION_UPDATE_GATING.declared)
        /\ RequestTable(Sent!stopDaemon, MUTATION_STOP_DAEMON.declared)
        /\ RequestTable(Sent!setZkappCommandLimit, MUTATION_ZKAPP_COMMAND_LIMIT.declared)
        /\ RequestTable({}, QUERY_COMMIT_ID.declared)
        /\ RequestTable({}, QUERY_SCHEDULED_TRANSACTIONS.declared)
        /\ RequestTable(WithHandle(Sent!paymentsInput),
                        MUTATION_SCHEDULE_PAYMENTS_WITH_HANDLE.declared)
        /\ RequestTable(WithHandle(Sent!zkappInput),
                        MUTATION_SCHEDULE_ZKAPP_COMMANDS_WITH_HANDLE.declared)
        /\ RequestTable(Sent!createAccounts, MUTATION_CREATE_ACCOUNTS.declared)
    BY ItnDocuments, SendsNothing, SendsLogs, SendsSchedule, SendsZkapps, SendsHandle,
       SendsGating, SendsStop, SendsLimit, SendsScheduleWithHandle, SendsZkappsWithHandle,
       SendsAccounts
  <1> QED
    BY <1>1, TheItnOperations, SendsMethod

LEMMA AllTables == \A name \in DOMAIN Methods : SendsTable(Methods[name])
  BY QueryTables, MutationTables, ItnTables DEF Methods

-----------------------------------------------------------------------------
(* Tables of answers.                                                      *)

\* Decoding has its own copy of Conversions, too.
LEMMA GotSame ==
  /\ \A a, b, w, h : Got!Rule(a, b, w, h) = Rule(a, b, w, h)
  /\ \A n, w, h : Got!Take(n, w, h) = Take(n, w, h)
  /\ \A m, n, w, h : Got!Move(m, n, w, h) = Move(m, n, w, h)
  /\ \A a, b, R : Got!Inside(a, b, R) = Inside(a, b, R)
  /\ \A a, b, w, h, R : Got!Within(a, b, w, h, R) = Within(a, b, w, h, R)
  /\ \A a, b, P : Got!Whole(a, b, P) = Whole(a, b, P)
  <1>1. \A a, b, w, h : Got!Rule(a, b, w, h) = Rule(a, b, w, h)
    BY DEF Got!Rule, Rule
  <1>2. /\ \A n, w, h : Got!Take(n, w, h) = Take(n, w, h)
        /\ \A m, n, w, h : Got!Move(m, n, w, h) = Move(m, n, w, h)
    BY <1>1 DEF Got!Take, Got!Move, Take, Move
  <1>3. \A a, b, R : Got!Inside(a, b, R) = Inside(a, b, R)
    BY <1>1 DEF Got!Inside, Inside
  <1>4. \A a, b, w, h, R : Got!Within(a, b, w, h, R) = Within(a, b, w, h, R)
    BY <1>1, <1>3 DEF Got!Within, Within
  <1>5. \A p : Got!Unseen = Unseen /\ Got!AsIs = AsIs
    BY DEF Got!Unseen, Unseen, Got!Wire, Wire, Got!AsIs, AsIs, Got!Values, Values, Got!Texts, Texts,
           Got!Numbers, Numbers, Got!Flags, Flags, Got!Amounts, Amounts, Got!Nullish, Nullish
  <1>6. \A a, b, P : Got!Whole(a, b, P) = Whole(a, b, P)
    BY <1>1, <1>5 DEF Got!Whole, Whole
  <1> QED
    BY <1>1, <1>2, <1>3, <1>4, <1>6

LEMMA GotWires ==
  /\ Got!Name = Name /\ Got!Hash = Hash /\ Got!Text = Text /\ Got!Digits = Digits /\ Got!Num = Num
  /\ Got!Either = Either /\ Got!Flag = Flag /\ Got!Object = Object /\ Got!List = List
  /\ Got!Unseen = Unseen
  /\ \A w : Got!Nullable(w) = Nullable(w) /\ Got!Optional(w) = Optional(w)
       /\ Got!Chained(w) = Chained(w)
  BY DEF Got!Name, Got!Hash, Got!Text, Got!Digits, Got!Num, Got!Either, Got!Flag, Got!Object,
     Got!List,
         Got!Unseen, Got!Wire, Got!Nullable, Got!Optional, Got!Chained,
         Name, Hash, Text, Digits, Num, Either, Flag, Object, List, Unseen, Wire, Nullable,
         Optional, Chained

LEMMA GotValues ==
  /\ Got!Values = Values /\ Got!Nullish = Nullish /\ Got!Falsy = Falsy
  BY DEF Got!Values, Values, Got!Texts, Texts, Got!Numbers, Numbers, Got!Flags, Flags,
         Got!Amounts, Amounts, Got!Nullish, Nullish, Got!Falsy, Falsy

LEMMA GotHow ==
  /\ Got!AsIs = AsIs /\ Got!Number = Number /\ Got!String = String /\ Got!FromGraphQL = FromGraphQL
  /\ \A t, d, f : Got!When(t, d, f) = When(t, d, f)
  /\ \A f : /\ Got!UnlessNull(f) = UnlessNull(f) /\ Got!UnlessUndefined(f) = UnlessUndefined(f)
            /\ Got!IfTruthy(f) = IfTruthy(f) /\ Got!OrNull(f) = OrNull(f)
  /\ \A d : Got!Else(d) = Else(d)
  /\ Got!Required = Required
  <1>1. /\ Got!AsIs = AsIs /\ Got!Number = Number /\ Got!String = String
        /\ Got!FromGraphQL = FromGraphQL
    BY GotValues DEF Got!AsIs, AsIs, Got!Number, Number, Got!String, String, Got!FromGraphQL,
       FromGraphQL
  <1>2. \A t, d, f : Got!When(t, d, f) = When(t, d, f)
    BY GotValues DEF Got!When, When
  <1> QED
    BY <1>1, <1>2, GotValues
    DEF Got!UnlessNull, UnlessNull, Got!UnlessUndefined, UnlessUndefined, Got!IfTruthy, IfTruthy,
        Got!OrNull, OrNull, Got!Else, Else, Got!Required, Required

\* A conversion makes a value of every value, and undefined of none.
Makes(how) == \A v \in Values : how[v] \in Values \ {"undefined"}

\* What says something is made into what says the same, unless it throws.
SaysSame(u, v) == Meaning(v) # "nothing" => u = "throws" \/ Meaning(u) = Meaning(v)
Faithful(how) == \A v \in Values : SaysSame(how[v], v)

\* A conversion that makes values of what may come, and says what they say.
Fine(wire, how) ==
  Comes(wire) \subseteq Values /\ Makes(how) /\ \A v \in Comes(wire) : SaysSame(how[v], v)

\* A table of such conversions.
Sound(rules) ==
  \A r \in rules : /\ r = [from |-> r.from, to |-> r.to, wire |-> r.wire, how |-> r.how]
                    /\ Fine(r.wire, r.how)

LEMMA MakesBasic == Makes(AsIs) /\ Makes(Number) /\ Makes(String) /\ Makes(FromGraphQL)
  <1>1. Makes(AsIs)
    BY HowAsIs, InValues DEF Makes
  <1>2. Makes(Number)
    BY InValues DEF Makes, Number
  <1>3. Makes(String)
    BY InValues DEF Makes, String
  <1>4. Makes(FromGraphQL)
    BY InValues DEF Makes, FromGraphQL
  <1> QED
    BY <1>1, <1>2, <1>3, <1>4

LEMMA MakesWhen ==
  ASSUME NEW test, NEW yes \in Values \ {"undefined"}, NEW no, Makes(no)
  PROVE  Makes(When(test, yes, no))
  BY DEF Makes, When

LEMMA MakesMore ==
  /\ \A f : Makes(f) => /\ Makes(UnlessNull(f)) /\ Makes(UnlessUndefined(f)) /\ Makes(IfTruthy(f))
                        /\ Makes(OrNull(f))
  /\ \A d \in Values \ {"undefined"} : Makes(Else(d))
  /\ Makes(Required)
  BY MakesBasic, MakesWhen, InValues
  DEF UnlessNull, UnlessUndefined, IfTruthy, OrNull, Else, Required

LEMMA MakesUint16 == Makes(Got!parseUint16)
  BY GotValues, GotHow, MakesBasic, InValues DEF Makes, Got!parseUint16

\* Every wire lets values through.
LEMMA SoundWires ==
  /\ Comes(Name) \subseteq Values /\ Comes(Hash) \subseteq Values /\ Comes(Text) \subseteq Values
  /\ Comes(Digits) \subseteq Values /\ Comes(Num) \subseteq Values /\ Comes(Either) \subseteq Values
  /\ Comes(Flag) \subseteq Values /\ Comes(Object) \subseteq Values /\ Comes(List) \subseteq Values
  /\ Comes(Unseen) \subseteq Values
  /\ \A p, o : Comes(Wire(p, o)) \subseteq Values =>
       \A v \in {"null", "undefined"} : Comes(Wire(p, o \union {v})) \subseteq Values
  <1>1. /\ Comes(Name) \subseteq Values /\ Comes(Hash) \subseteq Values
           /\ Comes(Text) \subseteq Values
        /\ Comes(Digits) \subseteq Values /\ Comes(Num) \subseteq Values
        /\ Comes(Either) \subseteq Values
    BY InValues DEF Comes, Name, Hash, Text, Digits, Num, Either, Wire
  <1>2. /\ Comes(Flag) \subseteq Values /\ Comes(Object) \subseteq Values
        /\ Comes(List) \subseteq Values /\ Comes(Unseen) \subseteq Values
    BY InValues DEF Comes, Flag, Object, List, Unseen, Wire
  <1>3. ASSUME NEW p, NEW o, Comes(Wire(p, o)) \subseteq Values, NEW v \in {"null", "undefined"}
        PROVE  Comes(Wire(p, o \union {v})) \subseteq Values
    BY <1>3, InValues DEF Comes, Wire
  <1> QED
    BY <1>1, <1>2, <1>3

LEMMA SoundNullables ==
  /\ Comes(Nullable(Name)) \subseteq Values /\ Comes(Nullable(Text)) \subseteq Values
  /\ Comes(Nullable(Digits)) \subseteq Values /\ Comes(Nullable(Num)) \subseteq Values
  /\ Comes(Nullable(Either)) \subseteq Values /\ Comes(Nullable(Flag)) \subseteq Values
  /\ Comes(Nullable(Object)) \subseteq Values /\ Comes(Nullable(List)) \subseteq Values
  /\ Comes(Optional(Name)) \subseteq Values /\ Comes(Optional(Digits)) \subseteq Values
  /\ Comes(Optional(Text)) \subseteq Values
  /\ Comes(Chained(Name)) \subseteq Values /\ Comes(Chained(Nullable(Name))) \subseteq Values
  <1>1. /\ Comes(Nullable(Name)) \subseteq Values /\ Comes(Nullable(Text)) \subseteq Values
        /\ Comes(Nullable(Digits)) \subseteq Values /\ Comes(Nullable(Num)) \subseteq Values
    BY InValues DEF Comes, Nullable, Wire, Name, Text, Digits, Num
  <1>2. /\ Comes(Nullable(Either)) \subseteq Values /\ Comes(Nullable(Flag)) \subseteq Values
        /\ Comes(Nullable(Object)) \subseteq Values /\ Comes(Nullable(List)) \subseteq Values
    BY InValues DEF Comes, Nullable, Wire, Either, Flag, Object, List
  <1>3. /\ Comes(Optional(Name)) \subseteq Values /\ Comes(Optional(Digits)) \subseteq Values
        /\ Comes(Optional(Text)) \subseteq Values
        /\ Comes(Chained(Name)) \subseteq Values /\ Comes(Chained(Nullable(Name))) \subseteq Values
    BY InValues DEF Comes, Nullable, Optional, Chained, Wire, Name, Digits, Text
  <1> QED
    BY <1>1, <1>2, <1>3

\* Tables that are built from sound parts are sound.
LEMMA SoundTables ==
  /\ \A n, w, h : Fine(w, h) => Sound(Take(n, w, h))
  /\ \A m, n, w, h : Fine(w, h) => Sound(Move(m, n, w, h))
  /\ \A a, b, w, h : Fine(w, h) => Sound({Rule(a, b, w, h)})
  /\ \A A, B : Sound(A) /\ Sound(B) => Sound(A \union B)
  /\ \A a, b, R : Sound(R) => Sound(Inside(a, b, R))
  /\ \A a, b, P : Sound(Whole(a, b, P))
  <1>1. ASSUME NEW a, NEW b, NEW w, NEW h
        PROVE  LET r == Rule(a, b, w, h)
               IN /\ r.wire = w /\ r.how = h
                  /\ r = [from |-> r.from, to |-> r.to, wire |-> r.wire, how |-> r.how]
    BY DEF Rule
  <1>2. ASSUME NEW n, NEW w, NEW h, Fine(w, h)
        PROVE  Sound(Take(n, w, h))
    <2>1. ASSUME NEW r \in Take(n, w, h)
          PROVE  /\ r.wire = w /\ r.how = h
                 /\ r = [from |-> r.from, to |-> r.to, wire |-> r.wire, how |-> r.how]
      BY Shapes
    <2> QED
      BY <1>2, <2>1 DEF Sound
  <1>3. ASSUME NEW m, NEW n, NEW w, NEW h, Fine(w, h)
        PROVE  Sound(Move(m, n, w, h))
    BY <1>1, <1>3 DEF Sound, Move
  <1>4. ASSUME NEW a, NEW b, NEW w, NEW h, Fine(w, h)
        PROVE  Sound({Rule(a, b, w, h)})
    BY <1>1, <1>4 DEF Sound
  <1>5. ASSUME NEW A, NEW B, Sound(A), Sound(B)
        PROVE  Sound(A \union B)
    BY <1>5 DEF Sound
  <1>6. ASSUME NEW a, NEW b, NEW R, Sound(R)
        PROVE  Sound(Inside(a, b, R))
    BY <1>1, <1>6 DEF Sound, Inside
  <1>7. ASSUME NEW a, NEW b, NEW P
        PROVE  Sound(Whole(a, b, P))
    <2>1. \A v \in Comes(Unseen) : AsIs[v] = v
      BY WireValues, HowAsIs, InValues
    <2>2. Fine(Unseen, AsIs)
      BY <2>1, SoundWires, MakesBasic DEF Fine, SaysSame
    <2> QED
      BY <1>1, <2>2 DEF Sound, Whole
  <1> QED
    BY <1>2, <1>3, <1>4, <1>5, <1>6, <1>7

LEMMA SoundWithin ==
  \A a, b, w, h, R : Fine(w, h) /\ Sound(R)
    => Sound(Within(a, b, w, h, R))
  BY SoundTables DEF Within

LEMMA SoundElements ==
  /\ \A f, w, h : Fine(w, h) => Sound(Got!Returned(f, w, h))
  /\ \A f, w, h, R : Fine(w, h) /\ Sound(R)
       => Sound(Got!Elements(f, w, h, R))
  BY SoundTables, SoundWithin, GotSame DEF Got!Returned, Got!Elements

LEMMA MakesAll ==
  /\ Makes(AsIs) /\ Makes(Number) /\ Makes(String) /\ Makes(FromGraphQL)
  /\ Makes(UnlessNull(AsIs)) /\ Makes(UnlessNull(Number)) /\ Makes(UnlessUndefined(AsIs))
  /\ Makes(UnlessUndefined(OrNull(String)))
  /\ Makes(IfTruthy(AsIs)) /\ Makes(IfTruthy(FromGraphQL))
  /\ Makes(OrNull(AsIs)) /\ Makes(OrNull(Number)) /\ Makes(OrNull(String))
  /\ Makes(Else("null")) /\ Makes(Else("[]")) /\ Makes(Else("{}")) /\ Makes(Else("''"))
  /\ Makes(Else("false")) /\ Makes(Else("'unknown'"))
  /\ Makes(Required)
  BY MakesBasic, MakesMore, InValues

LEMMA SoundGot ==
  /\ \A n, w, h : Fine(w, h) => Sound(Got!Take(n, w, h))
  /\ \A m, n, w, h : Fine(w, h) => Sound(Got!Move(m, n, w, h))
  /\ \A a, b, w, h : Fine(w, h) => Sound({Got!Rule(a, b, w, h)})
  /\ \A A, B : Sound(A) /\ Sound(B) => Sound(A \union B)
  /\ \A a, b, R : Sound(R) => Sound(Got!Inside(a, b, R))
  /\ \A a, b, w, h, R : Fine(w, h) /\ Sound(R)
       => Sound(Got!Within(a, b, w, h, R))
  /\ \A a, b, P : Sound(Got!Whole(a, b, P))
  <1>1. /\ \A n, w, h : Fine(w, h) => Sound(Got!Take(n, w, h))
        /\ \A m, n, w, h : Fine(w, h) => Sound(Got!Move(m, n, w, h))
    BY SoundTables, GotSame
  <1>2. \A a, b, w, h : Fine(w, h) => Sound({Got!Rule(a, b, w, h)})
    BY SoundTables, GotSame
  <1>3. /\ \A A, B : Sound(A) /\ Sound(B) => Sound(A \union B)
        /\ \A a, b, R : Sound(R) => Sound(Got!Inside(a, b, R))
        /\ \A a, b, P : Sound(Got!Whole(a, b, P))
    BY SoundTables, GotSame
  <1>4. \A a, b, w, h, R : Fine(w, h) /\ Sound(R)
                           => Sound(Got!Within(a, b, w, h, R))
    BY SoundWithin, GotSame
  <1> QED
    BY <1>1, <1>2, <1>3, <1>4

LEMMA GotComes ==
  /\ Comes(Got!Name) \subseteq Values /\ Comes(Got!Hash) \subseteq Values
  /\ Comes(Got!Text) \subseteq Values /\ Comes(Got!Digits) \subseteq Values
  /\ Comes(Got!Num) \subseteq Values /\ Comes(Got!Either) \subseteq Values
  /\ Comes(Got!Object) \subseteq Values /\ Comes(Got!List) \subseteq Values
  /\ Comes(Got!Unseen) \subseteq Values
  /\ Comes(Got!Nullable(Got!Name)) \subseteq Values
  /\ Comes(Got!Nullable(Got!Text)) \subseteq Values
  /\ Comes(Got!Nullable(Got!Digits)) \subseteq Values
  /\ Comes(Got!Nullable(Got!Num)) \subseteq Values
  /\ Comes(Got!Nullable(Got!Either)) \subseteq Values
  /\ Comes(Got!Nullable(Got!Flag)) \subseteq Values
  /\ Comes(Got!Nullable(Got!Object)) \subseteq Values
  /\ Comes(Got!Nullable(Got!List)) \subseteq Values
  /\ Comes(Got!Optional(Got!Name)) \subseteq Values
  /\ Comes(Got!Optional(Got!Digits)) \subseteq Values
  /\ Comes(Got!Optional(Got!Text)) \subseteq Values
  /\ Comes(Got!Chained(Got!Name)) \subseteq Values
  /\ Comes(Got!Chained(Got!Nullable(Got!Name))) \subseteq Values
  BY SoundWires, SoundNullables, GotWires

\* Conversions that keep whatever says something.
LEMMA FaithfulBasic == Faithful(AsIs) /\ Faithful(String) /\ Faithful(FromGraphQL)
  <1>1. Faithful(AsIs)
    BY HowAsIs, MeaningOf DEF Faithful, SaysSame
  <1>2. Faithful(String)
    BY MeaningOf DEF Faithful, SaysSame, String
  <1>3. Faithful(FromGraphQL)
    BY MeaningOf DEF Faithful, SaysSame, FromGraphQL
  <1> QED
    BY <1>1, <1>2, <1>3

LEMMA FaithfulMore ==
  /\ \A f : Faithful(f) => /\ Faithful(UnlessNull(f)) /\ Faithful(UnlessUndefined(f))
                           /\ Faithful(OrNull(f))
  /\ \A d : Faithful(Else(d))
  /\ Faithful(Required)
  <1>1. ASSUME NEW f, Faithful(f), NEW yes, NEW test \in SUBSET Nullish
        PROVE  Faithful(When(test, yes, f))
    BY <1>1, MeaningOf DEF Faithful, SaysSame, When, Nullish
  <1>2. Nullish \subseteq Nullish /\ {"undefined"} \subseteq Nullish
    BY DEF Nullish
  <1>3. Faithful(Required)
    BY FaithfulBasic DEF Faithful, SaysSame, Required, When
  <1> QED
    BY <1>1, <1>2, <1>3, FaithfulBasic DEF UnlessNull, UnlessUndefined, OrNull, Else

LEMMA FaithfulAll ==
  /\ Faithful(UnlessNull(AsIs)) /\ Faithful(UnlessUndefined(AsIs))
  /\ Faithful(UnlessUndefined(OrNull(String))) /\ Faithful(OrNull(AsIs))
  /\ Faithful(OrNull(String))
  BY FaithfulBasic, FaithfulMore

\* A number is read from what may be one.
LEMMA FineNumbers ==
  /\ Fine(Either, Number) /\ Fine(Nullable(Either), UnlessNull(Number))
  /\ Fine(Nullable(Either), OrNull(Number))
  <1>1. /\ \A v \in Comes(Either) : v \in {"'1'", "'0'", "1", "0"}
        /\ \A v \in Comes(Nullable(Either)) : v \in {"'1'", "'0'", "1", "0", "null"}
    BY DEF Comes, Either, Nullable, Wire
  <1>2. ASSUME NEW v \in {"'1'", "'0'", "1", "0"}
        PROVE  Meaning(Number[v]) = Meaning(v)
    BY InValues, MeaningOf DEF Number
  <1>3. Fine(Either, Number)
    BY <1>1, <1>2, SoundWires, MakesBasic DEF Fine, SaysSame
  <1>4. ASSUME NEW h, Makes(h), \A v \in {"'1'", "'0'", "1", "0"} : h[v] = Number[v]
        PROVE  Fine(Nullable(Either), h)
    <2>1. ASSUME NEW v \in Comes(Nullable(Either))
          PROVE  SaysSame(h[v], v)
      <3>1. v \in {"'1'", "'0'", "1", "0"} \/ v = "null"
        BY <1>1
      <3>2. v \in {"'1'", "'0'", "1", "0"} => Meaning(h[v]) = Meaning(v)
        BY <1>2, <1>4
      <3>3. Meaning("null") = "nothing"
        BY MeaningOf
      <3> QED
        BY <3>1, <3>2, <3>3 DEF SaysSame
    <2> QED
      BY <1>4, <2>1, SoundNullables DEF Fine
  <1>5. \A v \in {"'1'", "'0'", "1", "0"} :
          UnlessNull(Number)[v] = Number[v] /\ OrNull(Number)[v] = Number[v]
    BY InValues DEF UnlessNull, OrNull, When, Nullish
  <1> QED
    BY <1>3, <1>4, <1>5, MakesAll

\* What is tested for truth is not false when it says something.
LEMMA FineTruthy ==
  /\ Fine(Chained(Name), IfTruthy(AsIs)) /\ Fine(Nullable(Object), IfTruthy(AsIs))
  /\ Fine(Nullable(Digits), IfTruthy(FromGraphQL))
  <1>1. /\ \A v \in Comes(Chained(Name)) : v \in {"'x'", "undefined"}
        /\ \A v \in Comes(Nullable(Object)) : v \in {"{}", "null"}
        /\ \A v \in Comes(Nullable(Digits)) : v \in {"'1'", "'0'", "null"}
    BY DEF Comes, Name, Object, Digits, Chained, Optional, Nullable, Wire
  <1>2. /\ IfTruthy(AsIs)["'x'"] = "'x'" /\ IfTruthy(AsIs)["{}"] = "{}"
        /\ IfTruthy(FromGraphQL)["'1'"] = "C1" /\ IfTruthy(FromGraphQL)["'0'"] = "C0"
    BY InValues, HowAsIs DEF IfTruthy, When, Falsy, Nullish, FromGraphQL
  <1>3. \A v \in Comes(Chained(Name)) : SaysSame(IfTruthy(AsIs)[v], v)
    BY <1>1, <1>2, MeaningOf DEF SaysSame
  <1>4. \A v \in Comes(Nullable(Object)) : SaysSame(IfTruthy(AsIs)[v], v)
    BY <1>1, <1>2, MeaningOf DEF SaysSame
  <1>5. \A v \in Comes(Nullable(Digits)) : SaysSame(IfTruthy(FromGraphQL)[v], v)
    BY <1>1, <1>2, MeaningOf DEF SaysSame
  <1> QED
    BY <1>3, <1>4, <1>5, SoundNullables, MakesAll DEF Fine

LEMMA GotFine ==
  /\ \A w : Comes(w) \subseteq Values =>
       /\ Fine(w, Got!AsIs) /\ Fine(w, Got!String) /\ Fine(w, Got!FromGraphQL)
       /\ Fine(w, Got!UnlessNull(Got!AsIs)) /\ Fine(w, Got!UnlessUndefined(Got!AsIs))
       /\ Fine(w, Got!UnlessUndefined(Got!OrNull(Got!String)))
       /\ Fine(w, Got!OrNull(Got!AsIs)) /\ Fine(w, Got!OrNull(Got!String))
       /\ Fine(w, Got!Else("null")) /\ Fine(w, Got!Else("[]")) /\ Fine(w, Got!Else("{}"))
       /\ Fine(w, Got!Else("''")) /\ Fine(w, Got!Else("false")) /\ Fine(w, Got!Else("'unknown'"))
       /\ Fine(w, Got!Required)
  /\ Fine(Got!Either, Got!Number) /\ Fine(Got!Nullable(Got!Either), Got!UnlessNull(Got!Number))
  /\ Fine(Got!Nullable(Got!Either), Got!OrNull(Got!Number))
  /\ Fine(Got!Chained(Got!Name), Got!IfTruthy(Got!AsIs))
  /\ Fine(Got!Nullable(Got!Object), Got!IfTruthy(Got!AsIs))
  /\ Fine(Got!Nullable(Got!Digits), Got!IfTruthy(Got!FromGraphQL))
  <1>1. ASSUME NEW w, Comes(w) \subseteq Values, NEW h, Makes(h), Faithful(h)
        PROVE  Fine(w, h)
    BY <1>1 DEF Fine, Faithful
  <1>2. ASSUME NEW w, Comes(w) \subseteq Values
        PROVE  /\ Fine(w, AsIs) /\ Fine(w, String) /\ Fine(w, FromGraphQL)
               /\ Fine(w, UnlessNull(AsIs)) /\ Fine(w, UnlessUndefined(AsIs))
               /\ Fine(w, UnlessUndefined(OrNull(String)))
               /\ Fine(w, OrNull(AsIs)) /\ Fine(w, OrNull(String))
               /\ Fine(w, Else("null")) /\ Fine(w, Else("[]")) /\ Fine(w, Else("{}"))
               /\ Fine(w, Else("''")) /\ Fine(w, Else("false")) /\ Fine(w, Else("'unknown'"))
               /\ Fine(w, Required)
    BY <1>1, <1>2, MakesAll, FaithfulBasic, FaithfulMore, FaithfulAll
  <1>3. /\ Fine(Got!Either, Got!Number) /\ Fine(Got!Nullable(Got!Either), Got!UnlessNull(Got!Number))
        /\ Fine(Got!Nullable(Got!Either), Got!OrNull(Got!Number))
        /\ Fine(Got!Chained(Got!Name), Got!IfTruthy(Got!AsIs))
        /\ Fine(Got!Nullable(Got!Object), Got!IfTruthy(Got!AsIs))
        /\ Fine(Got!Nullable(Got!Digits), Got!IfTruthy(Got!FromGraphQL))
    BY FineNumbers, FineTruthy, GotHow, GotWires
  <1> QED
    BY <1>2, <1>3, GotHow

\* The tables of the answers are sound.
LEMMA SoundPeers == Sound(Got!getDaemonPeers)
  BY SoundGot, GotComes, GotFine DEF Got!getDaemonPeers

LEMMA SoundStatus == Sound(Got!getDaemonStatus)
  BY SoundGot, GotComes, GotFine, SoundPeers DEF Got!getDaemonStatus

LEMMA SoundMetrics == Sound(Got!getDaemonMetrics)
  BY SoundGot, GotComes, GotFine DEF Got!getDaemonMetrics

LEMMA SoundTiming == Sound(Got!parseTiming)
  <1>1. Comes([Got!Object EXCEPT !.odd = {"null", "{nulls}"}]) \subseteq Values
    BY InValues, GotWires DEF Comes, Object, Wire
  <1>2. Makes(Got!When({"null", "{nulls}"}, "null", Got!AsIs))
    BY MakesWhen, MakesBasic, GotHow, InValues
  <1>3. Faithful(Got!When({"null", "{nulls}"}, "null", Got!AsIs))
    BY FaithfulBasic, GotHow, MeaningOf DEF Faithful, SaysSame, When
  <1>4. Fine([Got!Object EXCEPT !.odd = {"null", "{nulls}"}],
             Got!When({"null", "{nulls}"}, "null", Got!AsIs))
    BY <1>1, <1>2, <1>3 DEF Fine, Faithful
  <1> QED
    BY <1>4, SoundGot, GotComes, GotFine DEF Got!parseTiming

LEMMA SoundAccount == Sound(Got!getAccount)
  <1>1. /\ Sound(Got!Take({"publicKey", "delegate", "tokenId"}, Got!Name, Got!AsIs))
        /\ Sound(Got!Take({"nonce"}, Got!Either, Got!Number))
        /\ Sound(Got!Take({"tokenSymbol"}, Got!Nullable(Got!Text), Got!UnlessNull(Got!AsIs)))
    BY SoundGot, GotComes, GotFine
  <1>2. /\ Sound(Got!Take({"total"}, Got!Digits, Got!FromGraphQL))
        /\ Sound(Got!Take({"liquid", "locked"}, Got!Nullable(Got!Digits),
                          Got!IfTruthy(Got!FromGraphQL)))
        /\ Sound(Got!Take({"blockHeight"}, Got!Nullable(Got!Either), Got!UnlessNull(Got!Number)))
    BY SoundGot, GotComes, GotFine
  <1>3. /\ Sound(Got!Take({"votingFor", "receiptChainHash", "zkappUri"}, Got!Nullable(Got!Name),
                          Got!UnlessUndefined(Got!AsIs)))
        /\ Sound(Got!Take({"zkappState"}, Got!Nullable(Got!List), Got!UnlessUndefined(Got!AsIs)))
        /\ Sound(Got!Take({"provedState"}, Got!Nullable(Got!Flag), Got!UnlessUndefined(Got!AsIs)))
    BY SoundGot, GotComes, GotFine
  <1>4. /\ Sound({Got!Rule(<<"permissions">>, <<"permissions">>, Got!Nullable(Got!Object),
                           Got!UnlessUndefined(Got!AsIs))})
        /\ Sound(Got!Whole(<<"permissions">>, <<"permissions">>, Got!Permissions))
    BY SoundGot, GotComes, GotFine
  <1>5. Sound(Got!Inside(<<"balance">>, <<"balance">>,
          Got!Take({"total"}, Got!Digits, Got!FromGraphQL)
          \union Got!Take({"liquid", "locked"}, Got!Nullable(Got!Digits),
                             Got!IfTruthy(Got!FromGraphQL))
          \union Got!Take({"blockHeight"}, Got!Nullable(Got!Either), Got!UnlessNull(Got!Number))))
    BY <1>2, SoundGot
  <1>6. Fine(Got!Nullable(Got!Object), Got!Required)
    BY GotComes, GotFine
  <1>7. \A A, B : Sound(A) /\ Sound(B) => Sound(A \union B)
    BY SoundGot
  <1>8. \A R : Sound(R)
          => Sound(Got!Within(<<"account">>, <<>>, Got!Nullable(Got!Object), Got!Required, R))
    BY <1>6, SoundGot
  <1> QED
    BY <1>1, <1>3, <1>4, <1>5, <1>7, <1>8, SoundTiming DEF Got!getAccount

LEMMA SoundParts == Sound(Got!failures) /\ Sound(Got!snarkWork) /\ Sound(Got!heights)
  BY SoundGot, GotComes, GotFine DEF Got!failures, Got!snarkWork, Got!heights

LEMMA SoundAlike ==
  ASSUME NEW R, NEW w, NEW h, Fine(w, h),
         \A r \in R : r = [from |-> r.from, to |-> r.to, wire |-> w, how |-> h]
  PROVE  Sound(R)
  <1>1. \A r \in R : r.wire = w /\ r.how = h
    OBVIOUS
  <1> QED
    BY <1>1 DEF Sound

LEMMA SoundSides ==
  /\ Sound({Got!Rule(<<n, "publicKey">>, <<n>>, Got!Name, Got!AsIs) : n \in {"source", "receiver"}})
  /\ Sound({Got!Rule(<<n, "publicKey">>, <<n>>, Got!Chained(Got!Name), Got!IfTruthy(Got!AsIs)) :
              n \in {"source", "receiver"}})
  <1> DEFINE w == Got!Chained(Got!Name)
             h == Got!IfTruthy(Got!AsIs)
             A == {Got!Rule(<<n, "publicKey">>, <<n>>, Got!Name, Got!AsIs) :
                    n \in {"source", "receiver"}}
             B == {Got!Rule(<<n, "publicKey">>, <<n>>, w, h) : n \in {"source", "receiver"}}
  <1>1. Fine(Got!Name, Got!AsIs) /\ Fine(w, h)
    BY GotComes, GotFine
  <1>2. \A r \in A : r = [from |-> r.from, to |-> r.to, wire |-> Got!Name, how |-> Got!AsIs]
    BY DEF Got!Rule
  <1>3. \A r \in B : r = [from |-> r.from, to |-> r.to, wire |-> w, how |-> h]
    BY DEF Got!Rule
  <1>4. Sound(A)
    <2> HIDE DEF A
    <2> QED
      BY <1>1, <1>2, SoundAlike
  <1>5. Sound(B)
    <2> HIDE DEF B, w, h
    <2> QED
      BY <1>1, <1>3, SoundAlike
  <1> QED
    BY <1>4, <1>5

LEMMA SoundUserCommands == Sound(Got!userCommands)
  BY SoundGot, GotComes, GotFine, SoundSides DEF Got!userCommands

LEMMA SoundZkappCommands == Sound(Got!zkappCommands)
  BY SoundGot, GotComes, GotFine, SoundParts DEF Got!zkappCommands

LEMMA SoundTransactions == Sound(Got!transactions)
  BY SoundGot, GotComes, GotFine, SoundUserCommands, SoundZkappCommands DEF Got!transactions

LEMMA SoundEpochData == Sound(Got!epochData) /\ Sound(Got!blockEpochData)
  <1>1. Sound(Got!epochData)
    BY SoundGot, GotComes, GotFine DEF Got!epochData
  <1>2. Makes(Got!When({"undefined"}, "0", Got!Number))
    BY MakesWhen, MakesBasic, GotHow, InValues
  <1>3. \A v \in Comes(Either) : When({"undefined"}, "0", Number)[v] = Number[v]
    BY InValues DEF When, Comes, Either, Wire
  <1>4. Fine(Got!Either, Got!When({"undefined"}, "0", Got!Number))
    BY <1>2, <1>3, GotFine, GotHow, GotWires DEF Fine
  <1> QED
    BY <1>1, <1>4, SoundGot, GotComes, GotFine DEF Got!blockEpochData

LEMMA SoundBlockInfo ==
  /\ \A epoch : Sound(epoch) => Sound(Got!blockInfo(epoch))
  /\ Sound(Got!parseBlockInfo)
  <1>1. \A epoch : Sound(epoch) => Sound(Got!blockInfo(epoch))
    BY SoundGot, GotComes, GotFine, SoundParts, SoundTransactions DEF Got!blockInfo
  <1> QED
    BY <1>1, SoundEpochData DEF Got!parseBlockInfo

LEMMA SoundBlock == Sound(Got!getBlock)
  <1> DEFINE B == Got!blockInfo(Got!blockEpochData)
             R == {Got!inBlock(r) : r \in B}
  <1>1. Sound(B)
    BY SoundBlockInfo, SoundEpochData
  <1> HIDE DEF B
  <1>2. Sound(R)
    <2> SUFFICES ASSUME NEW r \in R
                 PROVE  /\ Fine(r.wire, r.how)
                        /\ r = [from |-> r.from, to |-> r.to, wire |-> r.wire, how |-> r.how]
      BY DEF Sound
    <2>1. PICK q \in B : r = Got!inBlock(q)
      OBVIOUS
    <2>2. q = [from |-> q.from, to |-> q.to, wire |-> q.wire, how |-> q.how]
      BY <1>1 DEF Sound
    <2>3. /\ r.wire = q.wire /\ r.how = q.how
          /\ r = [from |-> r.from, to |-> r.to, wire |-> r.wire, how |-> r.how]
      BY <2>1, <2>2 DEF Got!inBlock
    <2> QED
      BY <2>3, <1>1 DEF Sound
  <1> HIDE DEF R
  <1>3. Got!getBlock = Got!Within(<<"block">>, <<>>, Got!Nullable(Got!Object), Got!Required, R)
    BY DEF R, B, Got!getBlock
  <1> QED
    BY <1>2, <1>3, SoundGot, GotComes, GotFine

LEMMA SoundLists ==
  /\ Sound(Got!getBestChain) /\ Sound(Got!getGenesisBlock) /\ Sound(Got!getPeers)
  /\ Sound(Got!getSnarkPool) /\ Sound(Got!getTrackedAccounts) /\ Sound(Got!getGenesisConstants)
  BY SoundGot, SoundElements, GotComes, GotFine, SoundBlockInfo, SoundPeers, SoundParts
  DEF Got!getBestChain, Got!getGenesisBlock, Got!getPeers, Got!getSnarkPool,
      Got!getTrackedAccounts, Got!getGenesisConstants

LEMMA SoundPools == Sound(Got!getPooledUserCommands) /\ Sound(Got!getPooledZkappCommands)
                      /\ Sound(Got!parseZkappCommand)
  <1>1. Sound(Got!getPooledUserCommands)
    BY SoundGot, SoundElements, SoundSides, GotComes, GotFine DEF Got!getPooledUserCommands
  <1>2. Sound(Got!parseZkappCommand)
    BY SoundGot, GotComes, GotFine, SoundParts DEF Got!parseZkappCommand
  <1> QED
    BY <1>1, <1>2, SoundElements, GotComes, GotFine DEF Got!getPooledZkappCommands

LEMMA SoundTexts ==
  /\ Sound(Got!getSyncStatus) /\ Sound(Got!getNetworkId) /\ Sound(Got!getForkConfig)
  /\ Sound(Got!getTransactionStatus) /\ Sound(Got!unlockAccount) /\ Sound(Got!setSnarkWorker)
  /\ Sound(Got!setSnarkWorkFee) /\ Sound(Got!slotsWon) /\ Sound(Got!scheduledTransactions)
  /\ Sound(Got!setZkappCommandLimit) /\ Sound(Got!commitId)
  /\ \A field : Sound(Got!handleOf(field))
  BY SoundGot, SoundElements, GotComes, GotFine
  DEF Got!getSyncStatus, Got!getNetworkId, Got!getForkConfig, Got!getTransactionStatus,
      Got!unlockAccount, Got!setSnarkWorker, Got!setSnarkWorkFee, Got!slotsWon,
      Got!scheduledTransactions, Got!setZkappCommandLimit, Got!commitId, Got!handleOf

LEMMA SoundSubmitted ==
  /\ Sound(Got!sendPayment) /\ Sound(Got!sendDelegation) /\ Sound(Got!sendZkapp)
  <1>1. Sound(Got!mapSubmittedCommand)
    BY SoundGot, SoundSides, GotComes, GotFine DEF Got!mapSubmittedCommand
  <1> QED
    BY <1>1, SoundGot, SoundPools DEF Got!sendPayment, Got!sendDelegation, Got!sendZkapp

LEMMA SoundItn ==
  /\ Sound(Got!parseAuth) /\ Sound(Got!internalLogs) /\ Sound(Got!createAccounts)
  <1>1. Comes([Got!Either EXCEPT !.odd = @ \union {"-1", "'x'", "null"}]) \subseteq Values
    BY InValues, GotWires DEF Comes, Either, Wire
  <1>2. ASSUME NEW v \in Comes([Got!Either EXCEPT !.odd = @ \union {"-1", "'x'", "null"}])
        PROVE  SaysSame(Got!parseUint16[v], v)
    <2>1. v \in {"'1'", "'0'", "1", "0", "-1", "'x'", "null"}
      BY GotWires DEF Comes, Either, Wire
    <2>2. /\ v \in {"'1'", "'0'", "1", "0"} => Got!parseUint16[v] = Number[v]
          /\ v \in {"-1", "'x'", "null"} => Got!parseUint16[v] = "throws"
      BY GotValues, GotHow, InValues DEF Got!parseUint16
    <2>3. v \in {"'1'", "'0'", "1", "0"} => Meaning(Number[v]) = Meaning(v)
      BY InValues, MeaningOf DEF Number
    <2> QED
      BY <2>1, <2>2, <2>3 DEF SaysSame
  <1>5. Fine([Got!Either EXCEPT !.odd = @ \union {"-1", "'x'", "null"}], Got!parseUint16)
    BY <1>1, <1>2, MakesUint16 DEF Fine
  <1>6. /\ Sound(Got!Take({"serverUuid"}, Got!Nullable(Got!Text), Got!Required))
        /\ Sound(Got!Take({"signerSequenceNumber", "libp2pPort"},
             [Got!Either EXCEPT !.odd = @ \union {"-1", "'x'", "null"}], Got!parseUint16))
        /\ Sound(Got!Take({"peerId"}, Got!Nullable(Got!Text), Got!OrNull(Got!AsIs)))
        /\ Sound(Got!Take({"isBlockProducer"}, Got!Nullable(Got!Flag), Got!Else("false")))
    BY <1>5, SoundGot, GotComes, GotFine
  <1>7. Fine(Got!Nullable(Got!Object), Got!Required)
    BY GotComes, GotFine
  <1>8. \A A, B : Sound(A) /\ Sound(B) => Sound(A \union B)
    BY SoundGot
  <1>9. \A R : Sound(R)
          => Sound(Got!Within(<<"auth">>, <<>>, Got!Nullable(Got!Object), Got!Required, R))
    BY <1>7, SoundGot
  <1>10. Sound(Got!parseAuth)
    BY <1>6, <1>8, <1>9 DEF Got!parseAuth
  <1>3. Sound(Got!internalLogs)
    BY SoundGot, SoundElements, GotComes, GotFine DEF Got!internalLogs
  <1>4. Sound(Got!createAccounts)
    BY SoundGot, SoundElements, GotComes, GotFine DEF Got!createAccounts
  <1> QED
    BY <1>10, <1>3, <1>4

LEMMA ReadQueries == \A name \in DOMAIN Queries : Sound(Queries[name].decoding)
  BY TheQueries, MethodOf, SoundStatus, SoundMetrics, SoundAccount, SoundBlock, SoundLists,
     SoundPools,
     SoundTexts

LEMMA ReadMutations == \A name \in DOMAIN Mutations : Sound(Mutations[name].decoding)
  BY TheMutations, MethodOf, SoundTexts, SoundSubmitted

LEMMA ReadItn == \A name \in DOMAIN ItnOperations : Sound(ItnOperations[name].decoding)
  BY TheItnOperations, MethodOf, SoundTexts, SoundItn DEF Handled

LEMMA AllRead == \A name \in DOMAIN Methods : Sound(Methods[name].decoding)
  BY ReadQueries, ReadMutations, ReadItn DEF Methods

-----------------------------------------------------------------------------
(* Requests and results.                                                   *)

\* The inputs consist of odd values of the table.
LEMMA InputsAreOdd ==
  ASSUME NEW rules, NEW odd \in InputsOf(rules)
  PROVE  odd \subseteq OddValues(rules)
  <1> DEFINE n == IF Cardinality(OddValues(rules)) > ManyOdd THEN 1 ELSE MostOdd
             V == OddValues(rules)
  <1>1. odd = {} \/ \E f \in [1..n -> V] : odd = {f[i] : i \in 1..n}
    <2>1. odd \in {{}} \union {{f[i] : i \in 1..n} : f \in [1..n -> V]}
      BY DEF InputsOf, Inputs
    <2> QED
      BY <2>1
  <1> HIDE DEF n, V
  <1>2. odd \subseteq V
    BY <1>1
  <1> QED
    BY <1>2 DEF V

\* No finite set of them is left out when the bounds are large enough: what
\* holds for every MostOdd and ManyOdd holds for every set.
LEMMA EverySetComes ==
  ASSUME NEW rules, NEW odd \in SUBSET OddValues(rules), Coherent(rules, odd),
         IsFiniteSet(odd), Cardinality(odd) <= MostOdd,
         ~(Cardinality(OddValues(rules)) > ManyOdd)
  PROVE  odd \in InputsOf(rules)
  <1> DEFINE V == OddValues(rules)
             k == Cardinality(odd)
             n == MostOdd
  <1>1. odd \in {{}} \union {{f[i] : i \in 1..n} : f \in [1..n -> V]}
    <2>1. CASE odd = {}
      BY <2>1
    <2>2. CASE odd # {}
      <3>1. PICK g \in [1..k -> odd] : \A x \in odd : \E i \in 1..k : g[i] = x
        BY FS_CardinalityType DEF ExistsBijection, Bijection, Injection, Surjection
      <3>2. PICK x \in odd : TRUE
        BY <2>2
      <3>3. k \in Nat /\ n \in Nat /\ k <= n
        BY FS_CardinalityType
      <3> DEFINE f == [i \in 1..n |-> IF i \in 1..k THEN g[i] ELSE x]
      <3> HIDE DEF V, k, n
      <3>4. f \in [1..n -> V]
        BY <3>1, <3>2 DEF V
      <3>5. ASSUME NEW y \in odd PROVE \E i \in 1..n : f[i] = y
        <4>1. PICK i \in 1..k : g[i] = y
          BY <3>1
        <4>2. i \in 1..n
          BY <3>3
        <4> QED
          BY <4>1, <4>2
      <3>6. odd = {f[i] : i \in 1..n}
        BY <3>1, <3>2, <3>5
      <3> HIDE DEF f
      <3>7. odd \in {{h[i] : i \in 1..n} : h \in [1..n -> V]}
        BY <3>4, <3>6
      <3> QED
        BY <3>7
    <2> QED
      BY <2>1, <2>2
  <1> QED
    BY <1>1 DEF InputsOf, Inputs

\* An argument that is v is among the variables s with its meaning.
Says(r, v, s) ==
  LET w == IF r.to \in DOMAIN s THEN s[r.to] ELSE "absent"
  IN \/ Meaning(w) = Meaning(v)
     \/ <<r.from[1], v>> \in TakenForNone /\ Meaning(w) = "nothing"

\* What the variables of a request are, when its table does its duty.
LEMMA RequestKept ==
  ASSUME NEW m, SendsTable(m), NEW odd \in SUBSET OddValues(m.arguments)
  PROVE  /\ DOMAIN Variables(m, odd) \subseteq {r.to : r \in m.arguments}
         /\ \A path \in DOMAIN Variables(m, odd) : Variables(m, odd)[path] \in Stated \ {"throws"}
         /\ {path[1] : path \in DOMAIN Variables(m, odd)} = m.document.declared
         /\ \A r \in m.arguments : Says(r, Held(r, odd), Variables(m, odd))
  <1> DEFINE R == m.arguments
             D == m.document.declared
             read == [r \in R |-> Held(r, odd)]
             s == Variables(m, odd)
             made(r) == r.how[Held(r, odd)]
             kept == {r \in R : made(r) # "absent"}
  <1>1. RequestTable(R, D)
    BY DEF SendsTable
  <1>2. \A r \in R : Held(r, odd) \in Comes(r.wire) /\ read[r] = Held(r, odd)
    BY <1>1, HeldComes DEF RequestTable
  <1>3. /\ \A path \in DOMAIN s : \E r \in kept : r.to = path
        /\ \A r \in kept : r.to \in DOMAIN s /\ s[r.to] = made(r)
    <2>1. /\ \A path \in DOMAIN Convert(R, read) :
               \E r \in R : r.to = path /\ r.how[read[r]] # "absent"
          /\ \A r \in R : r.how[read[r]] # "absent" =>
               r.to \in DOMAIN Convert(R, read) /\ Convert(R, read)[r.to] = r.how[read[r]]
      <3>1. Flat(R)
        BY <1>1 DEF RequestTable
      <3> HIDE DEF R, read
      <3> QED
        BY <3>1, ConvertFlat
    <2>2. s = Convert(R, read) /\ \A r \in R : r.how[read[r]] = made(r)
      BY <1>2 DEF Variables
    <2> HIDE DEF made, read, s
    <2> QED
      BY <2>1, <2>2
  <1>4. \A r \in R : /\ made(r) \in Values \ {"undefined", "throws"}
                     /\ \/ Meaning(made(r)) = Meaning(Held(r, odd))
                        \/ <<r.from[1], Held(r, odd)>> \in TakenForNone
                           /\ Meaning(made(r)) = "nothing"
    BY <1>1, <1>2 DEF RequestTable, Arrives
  <1>5. \A path \in DOMAIN s : s[path] \in Stated \ {"throws"}
    <2> SUFFICES ASSUME NEW r \in kept PROVE made(r) \in Stated \ {"throws"}
      BY <1>3
    <2> QED
      BY <1>4 DEF Stated
  <1>6. {path[1] : path \in DOMAIN s} = D
    <2>1. \A r \in R : r.to[1] \in D
      BY <1>1 DEF RequestTable
    <2>2. ASSUME NEW n \in D
          PROVE  \E r \in kept : r.to[1] = n
      <3>1. PICK r \in R : r.to[1] = n /\ Gives(r.wire, r.how)
        BY <1>1 DEF RequestTable
      <3> QED
        BY <3>1, <1>2 DEF Gives
    <2> HIDE DEF kept, s, D
    <2>3. kept \subseteq R
      BY DEF kept
    <2> QED
      BY <1>3, <2>1, <2>2, <2>3
  <1>7. ASSUME NEW r \in R
        PROVE  Says(r, Held(r, odd), s)
    <2>1. CASE r \in kept
      <3>1. r.to \in DOMAIN s /\ s[r.to] = made(r)
        BY <2>1, <1>3
      <3> QED
        BY <3>1, <1>4 DEF Says
    <2>2. CASE r \notin kept
      <3>1. r.to \notin DOMAIN s
        BY <2>2, <1>1, <1>3 DEF RequestTable, Flat
      <3>2. made(r) = "absent"
        BY <2>2
      <3> QED
        BY <3>1, <3>2, <1>4 DEF Says
    <2> QED
      BY <2>1, <2>2
  <1>8. DOMAIN s \subseteq {r.to : r \in R}
    BY <1>3
  <1> QED
    BY <1>5, <1>6, <1>7, <1>8

\* A result consists of values that JavaScript has.
LEMMA AnswerStated ==
  ASSUME NEW m, Sound(m.decoding), NEW odd \in SUBSET OddValues(m.decoding)
  PROVE  \A path \in DOMAIN Decode(m, odd) : Decode(m, odd)[path] \in Stated
  <1> DEFINE R == m.decoding
             read == [r \in R |-> IF There(r, odd) /\ r.from \in m.selected
                                  THEN Held(r, odd) ELSE "undefined"]
             out  == [r \in R |-> r.how[read[r]]]
             bare == {r.to : r \in {q \in R : out[q] # "{}"}}
             made == {r \in R : out[r] # "absent" /\ Above(r.to) \intersect bare = {}}
  <1>1. ASSUME NEW r \in R
        PROVE  Held(r, odd) \in Values
    <2>1. \A p \in odd : p[2] \in Values
      BY DEF OddValues, Sound, Fine, Comes
    <2>2. r.wire.plain \in Values
      BY DEF Sound, Fine, Comes
    <2> QED
      BY <2>1, <2>2 DEF Held
  <1>2. \A r \in R : read[r] \in Values
    BY <1>1, InValues
  <1>3. \A r \in R : out[r] \in Values \ {"undefined"}
    BY <1>2 DEF Sound, Fine, Makes
  <1>4. Decode(m, odd) = [path \in {r.to : r \in made} |-> out[CHOOSE r \in made : r.to = path]]
    BY DEF Decode, Convert
  <1>5. made \subseteq R /\ \A r \in made : out[r] # "absent"
    OBVIOUS
  <1> HIDE DEF made, out
  <1>6. ASSUME NEW path \in {r.to : r \in made}
        PROVE  out[CHOOSE r \in made : r.to = path] \in Stated
    BY <1>3, <1>5 DEF Stated
  <1> QED
    BY <1>4, <1>6

-----------------------------------------------------------------------------
(* The inductive invariant.                                                *)

\* A request and a result are what the tables make of odd values of theirs.
Made ==
  /\ operation \in DOMAIN Methods \union {"none"}
  /\ phase \in {"idle", "refused", "sent", "over", "claimed"}
  /\ phase = "sent" => /\ operation \in DOMAIN Methods
                       /\ given \subseteq OddValues(Called.arguments)
                       /\ sent = Variables(Called, given)
  /\ phase = "over" => /\ operation \in DOMAIN Methods
                       /\ answer \subseteq OddValues(Called.decoding)
                       /\ result = Decode(Called, answer)
  /\ DOMAIN claim \subseteq DOMAIN InBlock /\ DOMAIN told \subseteq DOMAIN claim

\* A backend that is kept was loaded from a place that still has it.
Kept ==
  /\ installed \in [Check!Places -> Check!Packages]
  /\ backend \in Check!Places \union {"none"}
  /\ backend # "none" => installed[backend] = "usable"

IInv == Made /\ Kept

LEMMA Empty == DOMAIN Nothing = {}
  BY DEF Nothing

LEMMA InitIInv == Init => IInv
  BY Empty DEF Init, IInv, Made, Kept, Check!Init, Check!Packages

LEMMA StepMade == ASSUME Made, [Next]_vars PROVE Made'
  <1>1. ASSUME NEW name \in DOMAIN Methods, NEW odd \in ArgumentsOf[name], Call(name, odd)
        PROVE  Made'
    <2>1. odd \subseteq OddValues(Methods[name].arguments)
      BY InputsAreOdd DEF ArgumentsOf
    <2> QED
      BY <1>1, <2>1 DEF Made, Call, Called
  <1>2. ASSUME phase = "sent", NEW odd \in AnswersOf[operation], Answer(odd)
        PROVE  Made'
    <2>1. odd \subseteq OddValues(Methods[operation].decoding)
      BY <1>2, InputsAreOdd DEF AnswersOf, Made
    <2> QED
      BY <1>2, <2>1 DEF Made, Answer, Called
  <1>3. CASE Return
    BY <1>3 DEF Made, Return
  <1>4. ASSUME NEW fields \in SUBSET DOMAIN InBlock, NEW undefined \in SUBSET fields,
               Claim(fields, undefined)
        PROVE  Made'
    BY <1>4 DEF Made, Claim
  <1>5. ASSUME NEW block, NEW network, CheckClaims(block, network)
        PROVE  Made'
    BY <1>5 DEF Made, CheckClaims, callVars, Called
  <1>6. ASSUME NEW place, NEW package, InstallBackend(place, package)
        PROVE  Made'
    BY <1>6 DEF Made, InstallBackend, callVars, Called
  <1>7. CASE CheckAgain
    BY <1>7 DEF Made, CheckAgain, callVars, Called
  <1>8. CASE Restart
    BY <1>8, Empty DEF Made, Restart
  <1>9. CASE UNCHANGED vars
    BY <1>9 DEF Made, vars, callVars, Called
  <1> QED
    BY <1>1, <1>2, <1>3, <1>4, <1>5, <1>6, <1>7, <1>8, <1>9 DEF Next

\* A backend is loaded if and only if some place has a usable one.
LEMMA Loaded ==
  ASSUME Kept
  PROVE  LET b == Check!loadBackend(Check!bases)
         IN /\ b \in Check!Places \union {"none"}
            /\ b # "none" => installed[b] = "usable"
            /\ b = "none" <=> \A p \in Check!Places : installed[p] # "usable"
  <1> DEFINE places == Check!bases
             usable == {i \in DOMAIN places : installed[places[i]] = "usable"}
             first  == CHOOSE i \in usable : \A j \in usable : i <= j
  <1>1. DOMAIN places = {1, 2} /\ places[1] = "module" /\ places[2] = "cwd"
    BY DEF Check!bases
  <1>2. CASE backend # "none"
    BY <1>2 DEF Kept, Check!loadBackend
  <1>3. CASE backend = "none" /\ usable = {}
    <2>1. Check!loadBackend(places) = "none"
      BY <1>3 DEF Check!loadBackend
    <2> QED
      BY <1>1, <1>3, <2>1 DEF Check!Places
  <1>4. CASE backend = "none" /\ usable # {}
    <2>1. Check!loadBackend(places) = places[first]
      BY <1>4 DEF Check!loadBackend
    <2>2. \E i \in usable : \A j \in usable : i <= j
      <3>1. 1 <= 1 /\ 1 <= 2 /\ 2 <= 2
        OBVIOUS
      <3> QED
        BY <1>1, <1>4, <3>1
    <2>3. first \in usable
      BY <2>2
    <2> HIDE DEF first
    <2>4. places[first] \in Check!Places /\ installed[places[first]] = "usable"
      BY <1>1, <2>3 DEF Check!Places
    <2> QED
      BY <2>1, <2>4 DEF Check!Places
  <1> QED
    BY <1>2, <1>3, <1>4

LEMMA StepKept == ASSUME Kept, [Next]_vars PROVE Kept'
  <1>1. ASSUME NEW name, NEW odd, Call(name, odd)
        PROVE  Kept'
    BY <1>1 DEF Kept, Call
  <1>2. ASSUME NEW odd, Answer(odd)
        PROVE  Kept'
    BY <1>2 DEF Kept, Answer
  <1>3. CASE Return
    BY <1>3 DEF Kept, Return
  <1>4. ASSUME NEW fields, NEW undefined, Claim(fields, undefined)
        PROVE  Kept'
    BY <1>4 DEF Kept, Claim
  <1>5. ASSUME NEW block, NEW network, CheckClaims(block, network)
        PROVE  Kept'
    <2>1. backend' = Check!loadBackend(Check!bases) /\ installed' = installed
      BY <1>5 DEF CheckClaims, Check!checkBlockClaims
    <2> QED
      BY <2>1, Loaded DEF Kept
  <1>6. ASSUME NEW place \in Check!Places, NEW package \in Check!Packages,
               InstallBackend(place, package)
        PROVE  Kept'
    BY <1>6 DEF Kept, InstallBackend, Check!Install
  <1>7. CASE CheckAgain
    BY <1>7 DEF Kept, CheckAgain, Check!Heard
  <1>8. CASE Restart
    BY <1>8 DEF Kept, Restart, Check!Packages
  <1>9. CASE UNCHANGED vars
    BY <1>9 DEF Kept, vars, Check!vars
  <1> QED
    BY <1>1, <1>2, <1>3, <1>4, <1>5, <1>6, <1>7, <1>8, <1>9 DEF Next

LEMMA Always == Spec => []IInv
  <1>1. IInv /\ [Next]_vars => IInv'
    BY StepMade, StepKept DEF IInv
  <1> QED
    BY <1>1, InitIInv, PTL DEF Spec

-----------------------------------------------------------------------------
(* The theorems.                                                           *)

\* What is sent and returned are values of JavaScript; a request has only the
\* variables its table names, and nothing is thrown before it has gone out.
THEOREM TypeCorrect == Spec => []TypeOK
  <1>1. IInv => TypeOK
    <2> SUFFICES ASSUME IInv PROVE TypeOK
      OBVIOUS
    <2>1. ASSUME phase = "sent"
          PROVE  /\ DOMAIN sent \subseteq {r.to : r \in Called.arguments}
                 /\ \A path \in DOMAIN sent : sent[path] \in Stated \ {"throws"}
      <3>1. SendsTable(Called)
        BY <2>1, AllTables DEF IInv, Made, Called
      <3> QED
        BY <2>1, <3>1, RequestKept DEF IInv, Made
    <2>2. ASSUME phase = "over"
          PROVE  \A path \in DOMAIN result : result[path] \in Stated
      <3>1. Sound(Called.decoding)
        BY <2>2, AllRead DEF IInv, Made, Called
      <3> QED
        BY <2>2, <3>1, AnswerStated DEF IInv, Made
    <2> QED
      BY <2>1, <2>2 DEF IInv, Made, Kept, TypeOK
  <1> QED
    BY <1>1, Always, PTL

\* Every request gives each variable that its document declares, an explicit
\* null where the caller gave none, and no other: the
\* daemon refuses a request that leaves one out.
THEOREM EveryVariableIsSent == Spec => []EveryVariableSent
  <1>1. IInv => EveryVariableSent
    <2> SUFFICES ASSUME IInv, phase = "sent"
                 PROVE  {path[1] : path \in DOMAIN sent} = Called.document.declared
      BY DEF EveryVariableSent
    <2>1. SendsTable(Called)
      BY AllTables DEF IInv, Made, Called
    <2> QED
      BY <2>1, RequestKept DEF IInv, Made
  <1> QED
    BY <1>1, Always, PTL

\* Whatever the caller gives is sent with its meaning: a zero, a false or an
\* empty text is not taken for "none", but where the clients mean it.  That is
\* for any MostOdd arguments that are odd at once, in tables of any ManyOdd.
THEOREM ArgumentsAreKept == Spec => []ArgumentsKept
  <1>1. IInv => ArgumentsKept
    <2> SUFFICES ASSUME IInv, phase = "sent"
                 PROVE  \A r \in Called.arguments : Says(r, Held(r, given), sent)
      BY DEF ArgumentsKept, Says
    <2>1. SendsTable(Called)
      BY AllTables DEF IInv, Made, Called
    <2> QED
      BY <2>1, RequestKept DEF IInv, Made
  <1> QED
    BY <1>1, Always, PTL

\* A check of claims lacks its backend exactly when no place has a usable one
\* at that time: a failure is not remembered, and a loaded backend is kept.
THEOREM BackendIsFound == Spec => BackendFound
  <1> DEFINE Lacks == verdict'.kind = "VerificationBackendError"
             Found == verdict = Check!NoVerdict /\ verdict' # verdict =>
                        (Lacks <=> \A p \in Check!Places : installed[p] # "usable")
  <1>1. ASSUME Kept, [Next]_vars, verdict = Check!NoVerdict, verdict' # verdict
        PROVE  Lacks <=> \A p \in Check!Places : installed[p] # "usable"
    <2>1. PICK block, network : CheckClaims(block, network)
      <3>1. ~ UNCHANGED verdict
        BY <1>1
      <3>2. ~Return /\ ~CheckAgain /\ ~Restart /\ ~ UNCHANGED vars
        BY <1>1 DEF Return, CheckAgain, Check!Heard, Restart, vars, Check!vars
      <3>3. \A name, odd : ~Call(name, odd) /\ ~Answer(odd)
        BY <1>1 DEF Call, Answer
      <3>4. /\ \A fields, undefined : ~Claim(fields, undefined)
            /\ \A place, package : ~InstallBackend(place, package)
        BY <1>1 DEF Claim, InstallBackend, Check!Install
      <3> QED
        BY <1>1, <3>2, <3>3, <3>4 DEF Next
    <2> DEFINE b == Check!loadBackend(Check!bases)
    <2>2. verdict' = IF b = "none" THEN [kind |-> "VerificationBackendError"]
                     ELSE IF ~Check!verifyPrecomputed(block, network)
                          THEN [kind |-> "VerificationError"]
                          ELSE Check!compareToClaims(claim)
      BY <2>1 DEF CheckClaims, Check!checkBlockClaims
    <2>3. Check!compareToClaims(claim).kind = "judged"
      BY DEF Check!compareToClaims
    <2>4. Lacks <=> b = "none"
      BY <2>2, <2>3
    <2> QED
      BY <1>1, <2>4, Loaded
  <1>2. IInv /\ [Next]_vars => [Found]_vars
    BY <1>1 DEF IInv
  <1>3. Spec => [][Found]_vars
    BY <1>2, Always, PTL DEF Spec
  <1> QED
    BY <1>3 DEF BackendFound

-----------------------------------------------------------------------------
\* Paths are sequences of field names; nothing is assumed of the names.

\* A path: the names of the fields from the answer, or from the result, to a value.
Path(p) == \E S : p \in Seq(S)

LEMMA One == \A n : Path(<<n>>) /\ Len(<<n>>) = 1 /\ <<n>>[1] = n
  <1>1. ASSUME NEW n PROVE <<n>> \in Seq({n}) /\ Len(<<n>>) = 1 /\ <<n>>[1] = n
    OBVIOUS
  <1> QED
    BY <1>1 DEF Path

LEMMA Lit ==
  /\ Path(<<>>)
  /\ \A n : Path(<<n>>) /\ <<n>> # <<>> /\ <<n>>[1] = n
  /\ \A m, n : Path(<<m, n>>) /\ <<m, n>> # <<>> /\ <<m, n>>[1] = m
  <1>1. <<>> \in Seq({})
    OBVIOUS
  <1>2. ASSUME NEW m, NEW n
        PROVE  <<n>> \in Seq({n}) /\ <<m, n>> \in Seq({m, n})
    OBVIOUS
  <1> QED
    BY <1>1, <1>2 DEF Path

\* Two paths are sequences over one set.
LEMMA Common ==
  ASSUME NEW p, NEW q, Path(p), Path(q)
  PROVE  \E S : p \in Seq(S) /\ q \in Seq(S)
  <1>1. PICK A, B : p \in Seq(A) /\ q \in Seq(B)
    BY DEF Path
  <1>2. \A S, T : S \subseteq T => Seq(S) \subseteq Seq(T)
    OBVIOUS
  <1>3. p \in Seq(A \union B) /\ q \in Seq(A \union B)
    BY <1>1, <1>2
  <1> QED
    BY <1>3

LEMMA PathIs ==
  ASSUME NEW p, Path(p)
  PROVE  Len(p) \in Nat /\ DOMAIN p = 1..Len(p) /\ (Len(p) = 0 <=> p = <<>>)
  BY EmptySeq DEF Path

\* What Above finds is the proper prefixes.
LEMMA AboveIs ==
  ASSUME NEW p, Path(p), NEW q
  PROVE  q \in Above(p) <=> /\ Path(q) /\ Len(q) < Len(p)
                            /\ \A i \in 1..Len(q) : q[i] = p[i]
  <1>0. PICK S : p \in Seq(S)
    BY DEF Path
  <1>1. ASSUME NEW n \in 0..(Len(p) - 1)
        PROVE  /\ SubSeq(p, 1, n) \in Seq(S) /\ Len(SubSeq(p, 1, n)) = n
               /\ \A i \in 1..n : SubSeq(p, 1, n)[i] = p[i]
    <2>1. CASE n = 0
      <3>1. SubSeq(p, 1, n) = <<>>
        BY <2>1, <1>0, SubSeqEmpty
      <3> QED
        BY <3>1, <2>1
    <2>2. CASE n # 0
      <3>1. \A i \in 1..n : p[i] \in S
        BY <1>0
      <3>2. n - 1 + 1 = n /\ n \in Nat
        OBVIOUS
      <3> QED
        BY <2>2, <3>1, <3>2, <1>0, SubSeqProperties
    <2> QED
      BY <2>1, <2>2
  <1>2. ASSUME q \in Above(p)
        PROVE  Path(q) /\ Len(q) < Len(p) /\ \A i \in 1..Len(q) : q[i] = p[i]
    <2>1. PICK n \in 0..(Len(p) - 1) : q = SubSeq(p, 1, n)
      BY <1>2 DEF Above
    <2>2. n < Len(p)
      BY <1>0
    <2> QED
      BY <2>1, <2>2, <1>1 DEF Path
  <1>3. ASSUME Path(q), Len(q) < Len(p), \A i \in 1..Len(q) : q[i] = p[i]
        PROVE  q \in Above(p)
    <2> DEFINE s == SubSeq(p, 1, Len(q))
    <2>1. Len(q) \in 0..(Len(p) - 1)
      BY <1>0, <1>3, PathIs
    <2>2. Path(s) /\ Len(s) = Len(q) /\ \A i \in 1..Len(q) : s[i] = q[i]
      BY <1>1, <1>3, <2>1 DEF Path
    <2>3. s = q
      <3> HIDE DEF s
      <3>1. PICK T : s \in Seq(T) /\ q \in Seq(T)
        BY <1>3, <2>2, Common
      <3> QED
        BY <3>1, <2>2, <1>3
    <2> QED
      BY <2>1, <2>3 DEF Above
  <1> QED
    BY <1>2, <1>3

\* A path continued by another.
LEMMA JoinIs ==
  ASSUME NEW a, NEW p, Path(a), Path(p)
  PROVE  /\ Path(a \o p) /\ Len(a \o p) = Len(a) + Len(p)
         /\ \A i \in 1..Len(a) : (a \o p)[i] = a[i]
         /\ \A i \in 1..Len(p) : (a \o p)[Len(a) + i] = p[i]
  <1>1. PICK S : a \in Seq(S) /\ p \in Seq(S)
    BY Common
  <1> QED
    BY <1>1, ConcatProperties DEF Path

LEMMA SamePath ==
  ASSUME NEW p, NEW q, Path(p), Path(q), Len(p) = Len(q),
         \A i \in 1..Len(p) : p[i] = q[i]
  PROVE  p = q
  <1>1. PICK S : q \in Seq(S) /\ p \in Seq(S)
    BY Common
  <1> QED
    BY <1>1

LEMMA JoinCancel ==
  ASSUME NEW a, NEW p, NEW q, Path(a), Path(p), Path(q), a \o p = a \o q
  PROVE  p = q
  <1>0. Len(a) \in Nat /\ Len(p) \in Nat /\ Len(q) \in Nat
    BY PathIs
  <1>1. Len(p) = Len(q)
    BY <1>0, JoinIs
  <1>2. ASSUME NEW i \in 1..Len(p) PROVE p[i] = q[i]
    BY <1>1, JoinIs
  <1> QED
    BY <1>1, <1>2, SamePath

\* Continuing two paths alike neither makes nor breaks a prefix.
LEMMA JoinAbove ==
  ASSUME NEW a, NEW p, NEW q, Path(a), Path(p), Path(q)
  PROVE  a \o q \in Above(a \o p) <=> q \in Above(p)
  <1> DEFINE n == Len(a)
             x == a \o q
             y == a \o p
  <1>0. n \in Nat /\ Len(p) \in Nat /\ Len(q) \in Nat
    BY PathIs
  <1>1. /\ Path(x) /\ Path(y) /\ Len(x) = n + Len(q) /\ Len(y) = n + Len(p)
        /\ \A i \in 1..n : x[i] = a[i] /\ y[i] = a[i]
        /\ \A i \in 1..Len(q) : x[n + i] = q[i]
        /\ \A i \in 1..Len(p) : y[n + i] = p[i]
    BY JoinIs
  <1> HIDE DEF x, y
  <1>2. x \in Above(y) <=> Len(x) < Len(y) /\ \A i \in 1..Len(x) : x[i] = y[i]
    <2>1. Path(y) /\ Path(x)
      BY <1>1
    <2> QED
      BY <2>1, AboveIs
  <1>3. q \in Above(p) <=> Len(q) < Len(p) /\ \A i \in 1..Len(q) : q[i] = p[i]
    BY AboveIs
  <1>4. ASSUME Len(q) < Len(p), \A i \in 1..Len(x) : x[i] = y[i],
               NEW i \in 1..Len(q)
        PROVE  q[i] = p[i]
    <2>1. n + i \in 1..Len(x) /\ i \in 1..Len(p)
      BY <1>0, <1>1, <1>4
    <2> QED
      BY <2>1, <1>1, <1>4
  <1>5. ASSUME Len(q) < Len(p), \A i \in 1..Len(q) : q[i] = p[i], NEW i \in 1..Len(x)
        PROVE  x[i] = y[i]
    <2>1. CASE i <= n
      BY <2>1, <1>0, <1>1
    <2>2. CASE i > n
      <3> DEFINE j == i - n
      <3>1. j \in 1..Len(q) /\ j \in 1..Len(p) /\ n + j = i
        BY <2>2, <1>0, <1>1, <1>5
      <3> HIDE DEF j
      <3> QED
        BY <3>1, <1>1, <1>5
    <2> QED
      BY <2>1, <2>2, <1>0, <1>1
  <1> QED
    BY <1>0, <1>1, <1>2, <1>3, <1>4, <1>5 DEF x, y

LEMMA JoinBelow ==
  ASSUME NEW a, NEW p, Path(a), Path(p), p # <<>>
  PROVE  a \in Above(a \o p) /\ a \o p \notin Above(a) /\ a \o p # a
  <1>1. Len(p) \in Nat /\ Len(p) > 0 /\ Len(a) \in Nat
    BY PathIs
  <1>2. Path(a \o p) /\ Len(a \o p) = Len(a) + Len(p) /\ \A i \in 1..Len(a) : (a \o p)[i] = a[i]
    BY JoinIs
  <1>3. Len(a) < Len(a \o p) /\ ~(Len(a \o p) < Len(a))
    BY <1>1, <1>2
  <1>4. a \in Above(a \o p)
    BY <1>2, <1>3, AboveIs
  <1>5. a \o p \notin Above(a)
    BY <1>3, AboveIs
  <1> QED
    BY <1>1, <1>3, <1>4, <1>5

LEMMA AboveHead ==
  ASSUME NEW p, Path(p), NEW q \in Above(p), q # <<>>
  PROVE  q[1] = p[1]
  <1>1. Path(q) /\ \A i \in 1..Len(q) : q[i] = p[i]
    BY AboveIs
  <1>2. 1 \in 1..Len(q)
    BY <1>1, PathIs
  <1> QED
    BY <1>1, <1>2

LEMMA AboveAbove ==
  ASSUME NEW p, Path(p), NEW q \in Above(p), NEW x \in Above(q)
  PROVE  x \in Above(p)
  <1>1. Path(q) /\ Len(q) < Len(p) /\ \A i \in 1..Len(q) : q[i] = p[i]
    BY AboveIs
  <1>2. Path(x) /\ Len(x) < Len(q) /\ \A i \in 1..Len(x) : x[i] = q[i]
    BY <1>1, AboveIs
  <1>3. Len(x) \in Nat /\ Len(q) \in Nat /\ Len(p) \in Nat
    BY <1>1, <1>2, PathIs
  <1>4. \A i \in 1..Len(x) : i \in 1..Len(q)
    BY <1>2, <1>3
  <1>5. Len(x) < Len(p) /\ \A i \in 1..Len(x) : x[i] = p[i]
    BY <1>1, <1>2, <1>3, <1>4
  <1> QED
    BY <1>2, <1>5, AboveIs

LEMMA AboveNot == ASSUME NEW p, Path(p) PROVE p \notin Above(p)
  <1>1. ~(Len(p) < Len(p))
    BY PathIs
  <1> QED
    BY <1>1, AboveIs

\* The same, for provers that need not look into a sequence.
Join(a, p) == a \o p
First(p) == p[1]

LEMMA Joins ==
  ASSUME NEW a, NEW p, Path(a), Path(p)
  PROVE  /\ Path(Join(a, p))
         /\ Join(a, p) = <<>> <=> a = <<>> /\ p = <<>>
         /\ a # <<>> => First(Join(a, p)) = First(a)
         /\ a = <<>> => Join(a, p) = p
         /\ p # <<>> => a \in Above(Join(a, p)) /\ Join(a, p) \notin Above(a) /\ Join(a, p) # a
  <1>1. Path(a \o p) /\ Len(a \o p) = Len(a) + Len(p) /\ \A i \in 1..Len(a) : (a \o p)[i] = a[i]
    BY JoinIs
  <1>2. Len(a) \in Nat /\ Len(p) \in Nat /\ (Len(a) = 0 <=> a = <<>>) /\ (Len(p) = 0 <=> p = <<>>)
    BY PathIs
  <1>3. Len(a \o p) = 0 <=> a \o p = <<>>
    BY <1>1, PathIs
  <1>4. a # <<>> => 1 \in 1..Len(a)
    BY <1>2
  <1>5. a = <<>> => a \o p = p
    BY DEF Path
  <1>6. p # <<>> => a \in Above(a \o p) /\ a \o p \notin Above(a) /\ a \o p # a
    BY JoinBelow
  <1>8. a # <<>> => (a \o p)[1] = a[1]
    BY <1>1, <1>4
  <1>9. a \o p = <<>> <=> a = <<>> /\ p = <<>>
    BY <1>1, <1>2, <1>3
  <1> QED
    BY <1>1, <1>5, <1>6, <1>8, <1>9 DEF Join, First

-----------------------------------------------------------------------------
\* The rules of a table are a tree: no two read or write one field, the result
\* nests as the answer does, and what has a rule beneath it can be an object.

\* An answer that is regular there is an object, and is passed on as one.
Opens(q) == q.wire.plain = "{}" /\ q.how["{}"] = "{}"

\* The rules of a table are in a tree.
Tree(R) ==
  /\ \A r \in R : Path(r.from) /\ Path(r.to)
                  /\ r = [from |-> r.from, to |-> r.to, wire |-> r.wire, how |-> r.how]
  /\ \A r, q \in R : r.from = q.from \/ r.to = q.to => r = q
  /\ \A r, q \in R : q.from \in Above(r.from) <=> q.to \in Above(r.to)
  /\ \A r, q \in R : q.from \in Above(r.from) => Opens(q)

\* A tree none of whose rules reads the answer itself or makes the result itself.
Fit(R) == Tree(R) /\ \A r \in R : r.from # <<>> /\ r.to # <<>>

\* What the paths of a table begin with.
From(R, x) == \E r \in R : First(r.from) = x
To(R, x)   == \E r \in R : First(r.to) = x

Apart(A, B) == \A x : ~(From(A, x) /\ From(B, x)) /\ ~(To(A, x) /\ To(B, x))

\* Tables of fields that begin apart are a tree together.
LEMMA FitUnion ==
  ASSUME NEW A, NEW B, Fit(A), Fit(B), Apart(A, B)
  PROVE  Fit(A \union B)
  <1>1. ASSUME NEW a \in A, NEW b \in B
        PROVE  /\ a.from # b.from /\ a.to # b.to
               /\ a.from \notin Above(b.from) /\ b.from \notin Above(a.from)
               /\ a.to \notin Above(b.to) /\ b.to \notin Above(a.to)
    <2>1. /\ Path(a.from) /\ Path(a.to) /\ a.from # <<>> /\ a.to # <<>>
          /\ Path(b.from) /\ Path(b.to) /\ b.from # <<>> /\ b.to # <<>>
      BY DEF Fit, Tree
    <2>2. First(a.from) # First(b.from) /\ First(a.to) # First(b.to)
      BY DEF From, To, Apart
    <2> QED
      BY <2>1, <2>2, AboveHead DEF First
  <1>2. ASSUME NEW r \in A \union B, NEW q \in A \union B
        PROVE  /\ r.from = q.from \/ r.to = q.to => r = q
               /\ q.from \in Above(r.from) <=> q.to \in Above(r.to)
               /\ q.from \in Above(r.from) => Opens(q)
    <2>1. CASE r \in A /\ q \in A
      BY <2>1 DEF Fit, Tree
    <2>2. CASE r \in B /\ q \in B
      BY <2>2 DEF Fit, Tree
    <2>3. CASE r \in A /\ q \in B
      BY <2>3, <1>1
    <2>4. CASE r \in B /\ q \in A
      BY <2>4, <1>1
    <2> QED
      BY <2>1, <2>2, <2>3, <2>4
  <1>3. ASSUME NEW r \in A \union B
        PROVE  /\ Path(r.from) /\ Path(r.to) /\ r.from # <<>> /\ r.to # <<>>
               /\ r = [from |-> r.from, to |-> r.to, wire |-> r.wire, how |-> r.how]
    BY DEF Fit, Tree
  <1> QED
    BY <1>2, <1>3 DEF Fit, Tree

LEMMA JoinsCancel ==
  ASSUME NEW a, NEW p, NEW q, Path(a), Path(p), Path(q), Join(a, p) = Join(a, q)
  PROVE  p = q
  BY JoinCancel DEF Join

LEMMA JoinsAlike ==
  ASSUME NEW a, NEW p, NEW q, Path(a), Path(p), Path(q)
  PROVE  Join(a, q) \in Above(Join(a, p)) <=> q \in Above(p)
  BY JoinAbove DEF Join

LEMMA InsideIs ==
  \A a, b, R : \A r \in Inside(a, b, R) :
    \E q \in R :
      r = [from |-> Join(a, q.from), to |-> Join(b, q.to), wire |-> q.wire, how |-> q.how]
  BY DEF Inside, Rule, Join

\* A table used beneath a field of the answer, for a field of the result.
LEMMA InsidePaths ==
  ASSUME NEW a, NEW b, NEW R, NEW r \in Inside(a, b, R)
  PROVE  \E q \in R : /\ r.from = Join(a, q.from) /\ r.to = Join(b, q.to)
                       /\ r.wire = q.wire /\ r.how = q.how
  <1>1. PICK q \in R :
        r = [from |-> Join(a, q.from), to |-> Join(b, q.to), wire |-> q.wire, how |-> q.how]
    BY InsideIs
  <1>2. r.from = Join(a, q.from) /\ r.to = Join(b, q.to) /\ r.wire = q.wire /\ r.how = q.how
    BY <1>1
  <1> QED
    BY <1>2

\* The rules of a table keep their order beneath a field.
LEMMA TreeInside ==
  ASSUME NEW a, NEW b, NEW R, Path(a), Path(b), Tree(R)
  PROVE  Tree(Inside(a, b, R))
  <1> DEFINE I == Inside(a, b, R)
  <1>1. ASSUME NEW r \in I
        PROVE  \E q \in R :
                 r = [from |-> Join(a, q.from), to |-> Join(b, q.to), wire |-> q.wire, how |-> q.how]
    BY InsideIs
  <1> HIDE DEF I
  <1>2. ASSUME NEW r \in I
        PROVE  /\ Path(r.from) /\ Path(r.to)
               /\ r = [from |-> r.from, to |-> r.to, wire |-> r.wire, how |-> r.how]
    <2>1. PICK q \in R :
          r = [from |-> Join(a, q.from), to |-> Join(b, q.to), wire |-> q.wire, how |-> q.how]
      BY <1>1
    <2>2. Path(Join(a, q.from)) /\ Path(Join(b, q.to))
      BY Joins DEF Tree
    <2> QED
      BY <2>1, <2>2
  <1>3. ASSUME NEW r \in I, NEW s \in I
        PROVE  /\ r.from = s.from \/ r.to = s.to => r = s
               /\ s.from \in Above(r.from) <=> s.to \in Above(r.to)
               /\ s.from \in Above(r.from) => Opens(s)
    <2>1. PICK q \in R :
          r = [from |-> Join(a, q.from), to |-> Join(b, q.to), wire |-> q.wire, how |-> q.how]
      BY <1>1
    <2>2. PICK p \in R :
          s = [from |-> Join(a, p.from), to |-> Join(b, p.to), wire |-> p.wire, how |-> p.how]
      BY <1>1
    <2>3. Path(q.from) /\ Path(q.to) /\ Path(p.from) /\ Path(p.to)
      BY DEF Tree
    <2>3a. /\ r.from = Join(a, q.from) /\ r.to = Join(b, q.to)
           /\ s.from = Join(a, p.from) /\ s.to = Join(b, p.to)
      BY <2>1, <2>2
    <2>4. r.from = s.from \/ r.to = s.to => r = s
      <3>1. r.from = s.from => q.from = p.from
        BY <2>3, <2>3a, JoinsCancel
      <3>2. r.to = s.to => q.to = p.to
        BY <2>3, <2>3a, JoinsCancel
      <3>3. q.from = p.from \/ q.to = p.to => q = p
        BY DEF Tree
      <3> QED
        BY <3>1, <3>2, <3>3, <2>1, <2>2
    <2>5. /\ s.from \in Above(r.from) <=> p.from \in Above(q.from)
          /\ s.to \in Above(r.to) <=> p.to \in Above(q.to)
      BY <2>3, <2>3a, JoinsAlike
    <2>6. /\ p.from \in Above(q.from) <=> p.to \in Above(q.to)
          /\ p.from \in Above(q.from) => Opens(p)
      BY DEF Tree
    <2>7. Opens(p) => Opens(s)
      BY <2>2 DEF Opens
    <2> QED
      BY <2>4, <2>5, <2>6, <2>7
  <1> QED
    BY <1>2, <1>3 DEF Tree, I

LEMMA FitInside ==
  ASSUME NEW a, NEW b, NEW R, Path(a), Path(b), Fit(R)
  PROVE  Fit(Inside(a, b, R))
  <1>1. Tree(Inside(a, b, R))
    BY TreeInside DEF Fit
  <1>2. ASSUME NEW q \in R PROVE Join(a, q.from) # <<>> /\ Join(b, q.to) # <<>>
    BY Joins DEF Fit, Tree
  <1>3. ASSUME NEW r \in Inside(a, b, R) PROVE r.from # <<>> /\ r.to # <<>>
    BY <1>2, InsidePaths
  <1> QED
    BY <1>1, <1>3 DEF Fit

\* A single rule.
LEMMA TreeRule ==
  ASSUME NEW a, NEW b, NEW w, NEW h, Path(a), Path(b)
  PROVE  /\ Tree({Rule(a, b, w, h)})
         /\ a # <<>> /\ b # <<>> => Fit({Rule(a, b, w, h)})
  <1> DEFINE r == [from |-> a, to |-> b, wire |-> w, how |-> h]
  <1>1. Rule(a, b, w, h) = r /\ r.from = a /\ r.to = b
    BY DEF Rule
  <1>2. a \notin Above(a) /\ b \notin Above(b)
    BY AboveNot
  <1>3. Tree({r})
    BY <1>2 DEF Tree
  <1> QED
    BY <1>1, <1>3 DEF Fit

\* Fields taken under their own names.
LEMMA FitTake == ASSUME NEW N, NEW w, NEW h PROVE Fit(Take(N, w, h))
  <1> DEFINE T == Take(N, w, h)
  <1>1. ASSUME NEW r \in T
        PROVE  \E n \in N : r = [from |-> <<n>>, to |-> <<n>>, wire |-> w, how |-> h]
    BY Shapes
  <1> HIDE DEF T
  <1>2. ASSUME NEW r \in T, NEW q \in T
        PROVE  /\ r.from = q.from \/ r.to = q.to => r = q
               /\ q.from \notin Above(r.from) /\ q.to \notin Above(r.to)
    <2>1. PICK n \in N : r = [from |-> <<n>>, to |-> <<n>>, wire |-> w, how |-> h]
      BY <1>1
    <2>2. PICK m \in N : q = [from |-> <<m>>, to |-> <<m>>, wire |-> w, how |-> h]
      BY <1>1
    <2>3. ASSUME <<m>> \in Above(<<n>>) PROVE FALSE
      <3>1. Len(<<m>>) < Len(<<n>>)
        BY <2>3, Lit, AboveIs
      <3> QED
        BY <3>1
    <2> QED
      BY <2>1, <2>2, <2>3
  <1>3. ASSUME NEW r \in T
        PROVE  /\ Path(r.from) /\ Path(r.to) /\ r.from # <<>> /\ r.to # <<>>
               /\ r = [from |-> r.from, to |-> r.to, wire |-> r.wire, how |-> r.how]
    <2>1. PICK n \in N : r = [from |-> <<n>>, to |-> <<n>>, wire |-> w, how |-> h]
      BY <1>1
    <2>2. Path(<<n>>) /\ <<n>> # <<>>
      BY Lit
    <2> QED
      BY <2>1, <2>2
  <1> QED
    BY <1>2, <1>3 DEF Fit, Tree, T

LEMMA InsideBelow ==
  ASSUME NEW a, NEW b, NEW R, Path(a), Path(b), Fit(R), NEW r \in Inside(a, b, R)
  PROVE  /\ r.from # a /\ r.to # b /\ a \in Above(r.from) /\ b \in Above(r.to)
         /\ r.from \notin Above(a) /\ r.to \notin Above(b)
  <1>1. PICK q \in R : r.from = Join(a, q.from) /\ r.to = Join(b, q.to)
    BY InsidePaths
  <1>2. Path(q.from) /\ Path(q.to) /\ q.from # <<>> /\ q.to # <<>>
    BY DEF Fit, Tree
  <1>3. r.from # a /\ a \in Above(r.from) /\ r.from \notin Above(a)
    BY <1>1, <1>2, Joins
  <1>4. r.to # b /\ b \in Above(r.to) /\ r.to \notin Above(b)
    BY <1>1, <1>2, Joins
  <1> QED
    BY <1>3, <1>4

\* A table beneath a field that has a rule of its own.
LEMMA TreeWithin ==
  ASSUME NEW a, NEW b, NEW w, NEW h, NEW R, Path(a), Path(b), a # <<>>, Fit(R),
         w.plain = "{}", h["{}"] = "{}"
  PROVE  /\ Tree(Within(a, b, w, h, R))
         /\ b # <<>> => Fit(Within(a, b, w, h, R))
  <1> DEFINE o == [from |-> a, to |-> b, wire |-> w, how |-> h]
             I == Inside(a, b, R)
  <1>1. Tree({o}) /\ Fit(I)
    BY TreeRule, FitInside DEF Rule
  <1>2. ASSUME NEW r \in I
        PROVE  /\ r.from # a /\ r.to # b /\ a \in Above(r.from) /\ b \in Above(r.to)
               /\ r.from \notin Above(a) /\ r.to \notin Above(b)
    BY InsideBelow
  <1> HIDE DEF I
  <1>3. ASSUME NEW r \in {o} \union I, NEW q \in {o} \union I
        PROVE  /\ r.from = q.from \/ r.to = q.to => r = q
               /\ q.from \in Above(r.from) <=> q.to \in Above(r.to)
               /\ q.from \in Above(r.from) => Opens(q)
    <2>1. CASE r = o /\ q = o
      BY <2>1, <1>1 DEF Tree
    <2>2. CASE r \in I /\ q \in I
      BY <2>2, <1>1 DEF Fit, Tree
    <2>3. CASE r = o /\ q \in I
      BY <2>3, <1>2
    <2>4. CASE r \in I /\ q = o
      BY <2>4, <1>2 DEF Opens
    <2> QED
      BY <2>1, <2>2, <2>3, <2>4
  <1>4. ASSUME NEW r \in {o} \union I
        PROVE  /\ Path(r.from) /\ Path(r.to) /\ r.from # <<>> /\ (b # <<>> => r.to # <<>>)
               /\ r = [from |-> r.from, to |-> r.to, wire |-> r.wire, how |-> r.how]
    BY <1>1 DEF Fit, Tree
  <1>5. Within(a, b, w, h, R) = {o} \union I
    BY DEF Within, Rule, I
  <1> QED
    BY <1>3, <1>4, <1>5 DEF Fit, Tree

-----------------------------------------------------------------------------
\* What the fields of a table begin with, which is what tells tables apart.

\* What the rules of each way to build a table begin with.
LEMMA Heads ==
  /\ \A x : ~From({}, x) /\ ~To({}, x)
  /\ \A A, B, x : (From(A \union B, x) => From(A, x) \/ From(B, x))
                  /\ (To(A \union B, x) => To(A, x) \/ To(B, x))
  /\ \A a, b, w, h, x : (From({Rule(a, b, w, h)}, x) => x = First(a))
                        /\ (To({Rule(a, b, w, h)}, x) => x = First(b))
  /\ \A N, w, h, x : (From(Take(N, w, h), x) => x \in N) /\ (To(Take(N, w, h), x) => x \in N)
  /\ \A m, n, w, h, x : (From(Move(m, n, w, h), x) => x = m) /\ (To(Move(m, n, w, h), x) => x = n)
  <1>1. \A A, B, x : (From(A \union B, x) => From(A, x) \/ From(B, x))
                     /\ (To(A \union B, x) => To(A, x) \/ To(B, x))
    BY DEF From, To
  <1>2. \A a, b, w, h, x : (From({Rule(a, b, w, h)}, x) => x = First(a))
                           /\ (To({Rule(a, b, w, h)}, x) => x = First(b))
    BY DEF From, To, Rule
  <1>3. ASSUME NEW N, NEW w, NEW h, NEW x, From(Take(N, w, h), x) \/ To(Take(N, w, h), x)
        PROVE  x \in N
    <2>1. PICK r \in Take(N, w, h) : First(r.from) = x \/ First(r.to) = x
      BY <1>3 DEF From, To
    <2>2. PICK n \in N : r = [from |-> <<n>>, to |-> <<n>>, wire |-> w, how |-> h]
      BY Shapes
    <2> QED
      BY <2>1, <2>2 DEF First
  <1>4. \A m, n, w, h, x : (From(Move(m, n, w, h), x) => x = m)
                          /\ (To(Move(m, n, w, h), x) => x = n)
    BY <1>2, Lit DEF Move, First
  <1> QED
    BY <1>1, <1>2, <1>3, <1>4 DEF From, To

LEMMA HeadsInside ==
  ASSUME NEW a, NEW b, NEW R, Path(a), Path(b), Fit(R), NEW x
  PROVE  /\ From(Inside(a, b, R), x) => IF a = <<>> THEN From(R, x) ELSE x = First(a)
         /\ To(Inside(a, b, R), x) => IF b = <<>> THEN To(R, x) ELSE x = First(b)
  <1>1. ASSUME NEW r \in Inside(a, b, R)
        PROVE  \E q \in R : r.from = Join(a, q.from) /\ r.to = Join(b, q.to)
    BY InsidePaths
  <1>2. ASSUME NEW q \in R
        PROVE  /\ First(Join(a, q.from)) = IF a = <<>> THEN First(q.from) ELSE First(a)
               /\ First(Join(b, q.to)) = IF b = <<>> THEN First(q.to) ELSE First(b)
    BY Joins DEF Fit, Tree
  <1>3. ASSUME From(Inside(a, b, R), x)
        PROVE  IF a = <<>> THEN From(R, x) ELSE x = First(a)
    <2>1. PICK r \in Inside(a, b, R) : First(r.from) = x
      BY <1>3 DEF From
    <2>2. PICK q \in R : r.from = Join(a, q.from)
      BY <1>1
    <2> QED
      BY <2>1, <2>2, <1>2 DEF From
  <1>4. ASSUME To(Inside(a, b, R), x)
        PROVE  IF b = <<>> THEN To(R, x) ELSE x = First(b)
    <2>1. PICK r \in Inside(a, b, R) : First(r.to) = x
      BY <1>4 DEF To
    <2>2. PICK q \in R : r.to = Join(b, q.to)
      BY <1>1
    <2> QED
      BY <2>1, <2>2, <1>2 DEF To
  <1> QED
    BY <1>3, <1>4

LEMMA HeadsWithin ==
  ASSUME NEW a, NEW b, NEW w, NEW h, NEW R, Path(a), Path(b), Fit(R), a # <<>>, b # <<>>, NEW x
  PROVE  /\ From(Within(a, b, w, h, R), x) => x = First(a)
         /\ To(Within(a, b, w, h, R), x) => x = First(b)
  <1>1. Within(a, b, w, h, R) = {Rule(a, b, w, h)} \union Inside(a, b, R)
    BY DEF Within
  <1>2. /\ From(Inside(a, b, R), x) => x = First(a)
        /\ To(Inside(a, b, R), x) => x = First(b)
    BY HeadsInside
  <1>3. /\ From({Rule(a, b, w, h)}, x) => x = First(a)
        /\ To({Rule(a, b, w, h)}, x) => x = First(b)
    BY Heads
  <1>4. \A A, B : (From(A \union B, x) => From(A, x) \/ From(B, x))
                  /\ (To(A \union B, x) => To(A, x) \/ To(B, x))
    BY Heads
  <1> QED
    BY <1>1, <1>2, <1>3, <1>4

\* The same of the tables of answers.
LEMMA FitGot ==
  /\ \A A, B : Fit(A) /\ Fit(B) /\ Apart(A, B) => Fit(A \union B)
  /\ \A n, w, h : Fit(Got!Take(n, w, h))
  /\ \A m, n, w, h : Fit(Got!Move(m, n, w, h))
  /\ \A a, b, w, h : Path(a) /\ Path(b) /\ a # <<>> /\ b # <<>> => Fit({Got!Rule(a, b, w, h)})
  /\ \A a, b, R : Path(a) /\ Path(b) /\ Fit(R) => Fit(Got!Inside(a, b, R))
  /\ \A a, b, w, h, R : /\ Path(a) /\ Path(b) /\ a # <<>> /\ b # <<>> /\ Fit(R)
                        /\ w.plain = "{}" /\ h["{}"] = "{}"
                        => Fit(Got!Within(a, b, w, h, R))
  <1>1. \A n, w, h : Fit(Got!Take(n, w, h))
    BY FitTake, GotSame
  <1>2. \A m, n, w, h : Fit(Got!Move(m, n, w, h))
    BY TreeRule, Lit, GotSame DEF Move
  <1>3. \A a, b, w, h : Path(a) /\ Path(b) /\ a # <<>> /\ b # <<>> => Fit({Got!Rule(a, b, w, h)})
    BY TreeRule, GotSame
  <1>4. \A a, b, R : Path(a) /\ Path(b) /\ Fit(R) => Fit(Got!Inside(a, b, R))
    BY FitInside, GotSame
  <1>5. \A a, b, w, h, R : /\ Path(a) /\ Path(b) /\ a # <<>> /\ b # <<>> /\ Fit(R)
                          /\ w.plain = "{}" /\ h["{}"] = "{}"
                          => Fit(Got!Within(a, b, w, h, R))
    BY TreeWithin, GotSame
  <1>6. \A A, B : Fit(A) /\ Fit(B) /\ Apart(A, B) => Fit(A \union B)
    BY FitUnion
  <1> QED
    BY <1>1, <1>2, <1>3, <1>4, <1>5, <1>6

LEMMA HeadsGot ==
  /\ \A A, B, x : (From(A \union B, x) => From(A, x) \/ From(B, x))
                  /\ (To(A \union B, x) => To(A, x) \/ To(B, x))
  /\ \A a, b, w, h, x : (From({Got!Rule(a, b, w, h)}, x) => x = First(a))
                        /\ (To({Got!Rule(a, b, w, h)}, x) => x = First(b))
  /\ \A N, w, h, x : (From(Got!Take(N, w, h), x) => x \in N)
                       /\ (To(Got!Take(N, w, h), x) => x \in N)
  /\ \A m, n, w, h, x : (From(Got!Move(m, n, w, h), x) => x = m)
                          /\ (To(Got!Move(m, n, w, h), x) => x = n)
  /\ \A a, b, R, x : Path(a) /\ Path(b) /\ Fit(R) /\ a # <<>> =>
                       /\ From(Got!Inside(a, b, R), x) => x = First(a)
                       /\ To(Got!Inside(a, b, R), x) =>
                              IF b = <<>> THEN To(R, x) ELSE x = First(b)
  /\ \A a, b, w, h, R, x : Path(a) /\ Path(b) /\ Fit(R) /\ a # <<>> /\ b # <<>> =>
                             /\ From(Got!Within(a, b, w, h, R), x) => x = First(a)
                             /\ To(Got!Within(a, b, w, h, R), x) => x = First(b)
  <1>1. \A a, b, w, h, x : (From({Got!Rule(a, b, w, h)}, x) => x = First(a))
                          /\ (To({Got!Rule(a, b, w, h)}, x) => x = First(b))
    BY Heads, GotSame
  <1>2. \A N, w, h, x : (From(Got!Take(N, w, h), x) => x \in N)
                       /\ (To(Got!Take(N, w, h), x) => x \in N)
    BY Heads, GotSame
  <1>3. \A m, n, w, h, x : (From(Got!Move(m, n, w, h), x) => x = m)
                          /\ (To(Got!Move(m, n, w, h), x) => x = n)
    BY Heads, GotSame
  <1>4. \A a, b, R, x : Path(a) /\ Path(b) /\ Fit(R) /\ a # <<>> =>
                         /\ From(Got!Inside(a, b, R), x) => x = First(a)
                         /\ To(Got!Inside(a, b, R), x) =>
                              IF b = <<>> THEN To(R, x) ELSE x = First(b)
    BY HeadsInside, GotSame
  <1>5. \A a, b, w, h, R, x : Path(a) /\ Path(b) /\ Fit(R) /\ a # <<>> /\ b # <<>> =>
                             /\ From(Got!Within(a, b, w, h, R), x) => x = First(a)
                             /\ To(Got!Within(a, b, w, h, R), x) => x = First(b)
    BY HeadsWithin, GotSame
  <1> QED
    BY <1>1, <1>2, <1>3, <1>4, <1>5, Heads

LEMMA Paths ==
  /\ Path(<<>>)
  /\ \A n : Path(<<n>>) /\ <<n>> # <<>> /\ First(<<n>>) = n
  /\ \A m, n : Path(<<m, n>>) /\ <<m, n>> # <<>> /\ First(<<m, n>>) = m
  BY Lit DEF First

LEMMA OpenHow ==
  /\ Got!Else("[]")["{}"] = "{}" /\ Got!Else("{}")["{}"] = "{}"
  /\ Got!UnlessNull(Got!AsIs)["{}"] = "{}"
  /\ Got!UnlessUndefined(Got!AsIs)["{}"] = "{}" /\ Got!OrNull(Got!AsIs)["{}"] = "{}"
  /\ Got!IfTruthy(Got!AsIs)["{}"] = "{}" /\ Got!Required["{}"] = "{}" /\ Got!AsIs["{}"] = "{}"
  /\ Got!When({"null", "{nulls}"}, "null", Got!AsIs)["{}"] = "{}"
  BY GotHow, InValues, HowAsIs
  DEF When, Else, UnlessNull, UnlessUndefined, OrNull, IfTruthy, Required, Falsy, Nullish

LEMMA OpenWires ==
  /\ Got!Object.plain = "{}" /\ Got!List.plain = "{}"
  /\ Got!Nullable(Got!Object).plain = "{}" /\ Got!Nullable(Got!List).plain = "{}"
  BY DEF Got!Object, Got!List, Got!Nullable, Got!Wire

\* A tree that reads fields of F and makes fields of T.
Fits(R, F, T) == Fit(R) /\ \A r \in R : First(r.from) \in F /\ First(r.to) \in T

Disjoint(F, G) == \A x \in F : x \notin G

LEMMA FitsUnion ==
  ASSUME NEW A, NEW B, NEW F, NEW G, NEW S, NEW T, Fits(A, F, S), Fits(B, G, T),
         Disjoint(F, G), Disjoint(S, T)
  PROVE  Fits(A \union B, F \union G, S \union T)
  <1>1. Apart(A, B)
    BY DEF Apart, From, To, Fits, Disjoint
  <1>2. Fit(A \union B)
    BY <1>1, FitUnion DEF Fits
  <1> QED
    BY <1>2 DEF Fits

LEMMA FitsHeads ==
  ASSUME NEW R, NEW F, NEW T, Fit(R), \A x : From(R, x) => x \in F, \A x : To(R, x) => x \in T
  PROVE  Fits(R, F, T)
  BY DEF Fits, From, To

\* The ways the decoding tables are built, and what they read and make.
LEMMA FitsGot ==
  /\ \A A, B, F, G, S, T : Fits(A, F, S) /\ Fits(B, G, T) /\ Disjoint(F, G) /\ Disjoint(S, T)
                             => Fits(A \union B, F \union G, S \union T)
  /\ \A N, w, h : Fits(Got!Take(N, w, h), N, N)
  /\ \A m, n, w, h : Fits(Got!Move(m, n, w, h), {m}, {n})
  /\ \A m, k, n, w, h : Fits({Got!Rule(<<m, k>>, <<n>>, w, h)}, {m}, {n})
  /\ \A m, n, w, h, R : w.plain = "{}" /\ h["{}"] = "{}" /\ Fit(R)
                          => Fits(Got!Within(<<m>>, <<n>>, w, h, R), {m}, {n})
  /\ \A m, n, R : Fit(R) => Fits(Got!Inside(<<m>>, <<n>>, R), {m}, {n})
  /\ \A m, k, n, R : Fit(R) => Fits(Got!Inside(<<m, k>>, <<n>>, R), {m}, {n})
  <1>1. \A N, w, h : Fits(Got!Take(N, w, h), N, N)
    BY FitGot, HeadsGot, FitsHeads
  <1>2. ASSUME NEW m, NEW n, NEW w, NEW h
        PROVE  Fits(Got!Move(m, n, w, h), {m}, {n})
    BY FitGot, HeadsGot, FitsHeads
  <1>3. ASSUME NEW m, NEW k, NEW n, NEW w, NEW h
        PROVE  Fits({Got!Rule(<<m, k>>, <<n>>, w, h)}, {m}, {n})
    <2>1. /\ Path(<<m, k>>) /\ Path(<<n>>) /\ <<m, k>> # <<>> /\ <<n>> # <<>>
          /\ First(<<m, k>>) = m /\ First(<<n>>) = n
      BY Paths
    <2> DEFINE a == <<m, k>>
               b == <<n>>
    <2> HIDE DEF a, b
    <2>2. Fit({Got!Rule(a, b, w, h)})
      BY <2>1, FitGot DEF a, b
    <2>3. \A x : /\ From({Got!Rule(a, b, w, h)}, x) => x = m
                 /\ To({Got!Rule(a, b, w, h)}, x) => x = n
      BY <2>1, HeadsGot DEF a, b
    <2>4. Fits({Got!Rule(a, b, w, h)}, {m}, {n})
      BY <2>2, <2>3, FitsHeads
    <2> QED
      BY <2>4 DEF a, b
  <1>4. ASSUME NEW a, NEW b, NEW w, NEW h, NEW R, Path(a), Path(b), a # <<>>, b # <<>>, Fit(R),
               w.plain = "{}", h["{}"] = "{}"
        PROVE  Fits(Got!Within(a, b, w, h, R), {First(a)}, {First(b)})
    BY <1>4, FitGot, HeadsGot, FitsHeads
  <1>5. ASSUME NEW a, NEW b, NEW R, Path(a), Path(b), a # <<>>, b # <<>>, Fit(R)
        PROVE  Fits(Got!Inside(a, b, R), {First(a)}, {First(b)})
    BY <1>5, FitGot, HeadsGot, FitsHeads
  <1>7. \A m, n, w, h, R : w.plain = "{}" /\ h["{}"] = "{}" /\ Fit(R)
                          => Fits(Got!Within(<<m>>, <<n>>, w, h, R), {m}, {n})
    BY <1>4, Paths
  <1>8. \A m, n, R : Fit(R) => Fits(Got!Inside(<<m>>, <<n>>, R), {m}, {n})
    BY <1>5, Paths
  <1>9. \A m, k, n, R : Fit(R) => Fits(Got!Inside(<<m, k>>, <<n>>, R), {m}, {n})
    BY <1>5, Paths
  <1>12. \A A, B, F, G, S, T : Fits(A, F, S) /\ Fits(B, G, T) /\ Disjoint(F, G) /\ Disjoint(S, T)
                             => Fits(A \union B, F \union G, S \union T)
    BY FitsUnion
  <1> QED
    BY <1>1, <1>2, <1>3, <1>7, <1>8, <1>9, <1>12

LEMMA FitsFit == \A R, F, T : Fits(R, F, T) => Fit(R) /\ Tree(R)
  BY DEF Fits, Fit

LEMMA FitsInside ==
  ASSUME NEW R, NEW F, NEW T, Fits(R, F, T)
  PROVE  /\ \A m : Fits(Got!Inside(<<m>>, <<>>, R), {m}, T)
         /\ \A m, k : Fits(Got!Inside(<<m, k>>, <<>>, R), {m}, T)
  <1>1. ASSUME NEW a, Path(a), a # <<>>
        PROVE  Fits(Got!Inside(a, <<>>, R), {First(a)}, T)
    <2>1. Path(<<>>)
      BY Paths
    <2>2. \A x : To(R, x) => x \in T
      BY DEF To, Fits
    <2>3. Fit(Got!Inside(a, <<>>, R))
      BY <1>1, <2>1, FitGot DEF Fits
    <2>4. \A x : /\ From(Got!Inside(a, <<>>, R), x) => x = First(a)
                 /\ To(Got!Inside(a, <<>>, R), x) => To(R, x)
      BY <1>1, <2>1, HeadsGot DEF Fits
    <2> QED
      BY <2>2, <2>3, <2>4 DEF Fits, From, To
  <1> QED
    BY <1>1, Paths

-----------------------------------------------------------------------------
\* A document that selects what a table reads, an honest table that is a tree:
\* what the daemon says arrives.

\* What a rule makes of a value that says something says the same, unless it throws.
Honest(R) == \A r \in R : \A v \in Comes(r.wire) :
  Meaning(v) # "nothing" => r.how[v] = "throws" \/ Meaning(r.how[v]) = Meaning(v)

\* A table reads only what is selected.
Reads(R, P) == \A r \in R : r.from \in P

\* What a rule makes of an answer, if it makes anything.
Becomes(r, odd) == r.how[IF There(r, odd) THEN Held(r, odd) ELSE "undefined"]

\* Each rule makes its field by itself, if what is above that becomes an object.
LEMMA Decoded ==
  ASSUME NEW m, Tree(m.decoding), Reads(m.decoding, m.selected), NEW odd
  PROVE  /\ \A path \in DOMAIN Decode(m, odd) : \E r \in m.decoding : r.to = path
         /\ \A r \in m.decoding :
              /\ r.to \in DOMAIN Decode(m, odd) <=>
                   /\ Becomes(r, odd) # "absent"
                   /\ \A q \in m.decoding : q.to \in Above(r.to) => Becomes(q, odd) = "{}"
              /\ r.to \in DOMAIN Decode(m, odd) => Decode(m, odd)[r.to] = Becomes(r, odd)
  <1> DEFINE R == m.decoding
             read == [q \in R |-> IF There(q, odd) /\ q.from \in m.selected
                                  THEN Held(q, odd) ELSE "undefined"]
             out  == [q \in R |-> q.how[read[q]]]
             bare == {q.to : q \in {p \in R : out[p] # "{}"}}
             made == {q \in R : out[q] # "absent" /\ Above(q.to) \intersect bare = {}}
             of(path) == CHOOSE q \in made : q.to = path
  <1>1. Decode(m, odd) = [path \in {q.to : q \in made} |-> out[of(path)]]
    BY DEF Decode, Convert
  <1>2. \A q \in R : out[q] = Becomes(q, odd)
    BY DEF Reads, Becomes
  <1>3. ASSUME NEW r \in R
        PROVE  r \in made <=> /\ Becomes(r, odd) # "absent"
                              /\ \A q \in R : q.to \in Above(r.to) => Becomes(q, odd) = "{}"
    <2>1. Above(r.to) \intersect bare = {} <=>
            \A q \in R : q.to \in Above(r.to) => out[q] = "{}"
      OBVIOUS
    <2> HIDE DEF bare, out
    <2> QED
      BY <1>2, <2>1
  <1>4. made \subseteq R
    OBVIOUS
  <1> HIDE DEF made, out
  <1>5. DOMAIN Decode(m, odd) = {q.to : q \in made}
    BY <1>1
  <1>6. ASSUME NEW r \in R, r.to \in DOMAIN Decode(m, odd)
        PROVE  r \in made /\ Decode(m, odd)[r.to] = Becomes(r, odd)
    <2>1. \E q \in made : q.to = r.to
      BY <1>5, <1>6
    <2>2. of(r.to) \in made /\ of(r.to).to = r.to
      BY <2>1
    <2> HIDE DEF of
    <2>3. of(r.to) = r
      BY <2>2, <1>4 DEF Tree
    <2>4. r.to \in {q.to : q \in made}
      BY <1>5, <1>6
    <2>5. Decode(m, odd)[r.to] = out[r]
      BY <2>3, <2>4, <1>1
    <2> QED
      BY <1>2, <2>2, <2>3, <2>5
  <1>7. ASSUME NEW r \in made
        PROVE  r.to \in DOMAIN Decode(m, odd)
    BY <1>5
  <1>8. \A path \in DOMAIN Decode(m, odd) : \E r \in R : r.to = path
    BY <1>4, <1>5
  <1> QED
    BY <1>3, <1>6, <1>7, <1>8

\* An odd value that a field holds is one that its rule has.
LEMMA HeldOdd ==
  ASSUME NEW R, Tree(R), NEW odd \in SUBSET OddValues(R), NEW r \in R,
         NEW p \in odd, p[1] = r.from
  PROVE  p[2] \in r.wire.odd
  <1>1. PICK u \in R : \E v \in u.wire.odd : p = <<u.from, v>>
    BY DEF OddValues
  <1>2. p[1] = u.from /\ p[2] \in u.wire.odd
    BY <1>1
  <1>3. u = r
    BY <1>2 DEF Tree
  <1> QED
    BY <1>2, <1>3

\* What a field holds is one of the values that its rule has.
LEMMA HeldWire ==
  ASSUME NEW R, Tree(R), NEW odd \in SUBSET OddValues(R), NEW r \in R
  PROVE  Held(r, odd) \in Comes(r.wire)
  <1>1. OneWire(R)
    BY DEF OneWire, Tree
  <1> QED
    BY <1>1, HeldComes

\* A value there is for a rule of such a table reaches the result with its meaning:
\* what is above it in the result was made of what is above it in the answer, which
\* is an object.
LEMMA AnswerKept ==
  ASSUME NEW m, Tree(m.decoding), Honest(m.decoding), Reads(m.decoding, m.selected),
         NEW odd \in SUBSET OddValues(m.decoding),
         \A path \in DOMAIN Decode(m, odd) : Decode(m, odd)[path] # "throws",
         NEW r \in m.decoding, There(r, odd), Meaning(Held(r, odd)) # "nothing"
  PROVE  /\ r.to \in DOMAIN Decode(m, odd)
         /\ Meaning(Decode(m, odd)[r.to]) = Meaning(Held(r, odd))
  <1>1. ASSUME NEW q \in m.decoding, q.to \in Above(r.to)
        PROVE  Becomes(q, odd) = "{}"
    <2>1. q.from \in Above(r.from) /\ Opens(q) /\ Path(r.from)
      BY <1>1 DEF Tree
    <2>2. \A p \in odd : p[1] = q.from => p[2] = "{}"
      BY <2>1 DEF There
    <2>3. Held(q, odd) = "{}"
      BY <2>1, <2>2 DEF Held, Opens
    <2>4. There(q, odd)
      BY <2>1, AboveAbove DEF There
    <2> QED
      BY <2>1, <2>3, <2>4 DEF Becomes, Opens
  <1>2. Held(r, odd) \in Comes(r.wire)
    BY HeldWire
  <1>3. Becomes(r, odd) = "throws" \/ Meaning(Becomes(r, odd)) = Meaning(Held(r, odd))
    BY <1>2 DEF Honest, Becomes
  <1>4. Becomes(r, odd) # "absent"
    BY <1>3, MeaningOf
  <1>5. r.to \in DOMAIN Decode(m, odd) /\ Decode(m, odd)[r.to] = Becomes(r, odd)
    <2>1. \A q \in m.decoding :
             /\ q.to \in DOMAIN Decode(m, odd) <=>
                  /\ Becomes(q, odd) # "absent"
                  /\ \A s \in m.decoding : s.to \in Above(q.to) => Becomes(s, odd) = "{}"
             /\ q.to \in DOMAIN Decode(m, odd) => Decode(m, odd)[q.to] = Becomes(q, odd)
      BY Decoded
    <2> QED
      BY <1>1, <1>4, <2>1
  <1> QED
    BY <1>3, <1>5

-----------------------------------------------------------------------------
\* Fields passed on unseen.

\* Two pairs of fields that are objects with a key in the answer.
LEMMA FitsSides ==
  ASSUME NEW w, NEW h
  PROVE  Fits({Got!Rule(<<n, "publicKey">>, <<n>>, w, h) : n \in {"source", "receiver"}},
              {"source"} \union {"receiver"}, {"source"} \union {"receiver"})
  <1> DEFINE A == {Got!Rule(<<"source", "publicKey">>, <<"source">>, w, h)}
             B == {Got!Rule(<<"receiver", "publicKey">>, <<"receiver">>, w, h)}
  <1>1. {Got!Rule(<<n, "publicKey">>, <<n>>, w, h) : n \in {"source", "receiver"}} = A \union B
    OBVIOUS
  <1>2. Fits(A, {"source"}, {"source"}) /\ Fits(B, {"receiver"}, {"receiver"})
    BY FitsGot
  <1>3. Disjoint({"source"}, {"receiver"})
    BY DEF Disjoint
  <1> HIDE DEF A, B
  <1> QED
    BY <1>1, <1>2, <1>3, FitsUnion

\* Paths of which none leads through another.
Grove(P, F) ==
  /\ \A p \in P : Path(p) /\ p # <<>> /\ First(p) \in F
  /\ \A p, q \in P : q \notin Above(p)

LEMMA GroveUnion ==
  ASSUME NEW A, NEW B, NEW F, NEW G, Grove(A, F), Grove(B, G), Disjoint(F, G)
  PROVE  Grove(A \union B, F \union G)
  <1>1. ASSUME NEW p \in A, NEW q \in B
        PROVE  q \notin Above(p) /\ p \notin Above(q)
    <2>1. Path(p) /\ Path(q) /\ p # <<>> /\ q # <<>> /\ First(p) # First(q)
      BY DEF Grove, Disjoint
    <2> QED
      BY <2>1, AboveHead DEF First
  <1> QED
    BY <1>1 DEF Grove

LEMMA GroveLeaves == ASSUME NEW N PROVE Grove(Leaves(N), N)
  <1>1. ASSUME NEW p \in Leaves(N)
        PROVE  \E n \in N : p = <<n>>
    BY DEF Leaves
  <1>2. ASSUME NEW m, NEW n, <<m>> \in Above(<<n>>)
        PROVE  FALSE
    <2>1. Len(<<m>>) < Len(<<n>>)
      BY <1>2, Lit, AboveIs
    <2> QED
      BY <2>1
  <1>3. ASSUME NEW p \in Leaves(N)
        PROVE  Path(p) /\ p # <<>> /\ First(p) \in N
    BY <1>1, Paths
  <1> QED
    BY <1>1, <1>2, <1>3 DEF Grove

LEMMA UnderIs == \A f, S : Under(f, S) = {Join(<<f>>, p) : p \in S}
  BY DEF Under, Join

LEMMA GroveUnder ==
  ASSUME NEW f, NEW S, NEW F, Grove(S, F)
  PROVE  Grove(Under(f, S), {f})
  <1> DEFINE a == <<f>>
  <1>0. Path(a) /\ a # <<>> /\ First(a) = f
    BY Paths
  <1> HIDE DEF a
  <1>1. ASSUME NEW p \in Under(f, S)
        PROVE  \E x \in S : p = Join(a, x) /\ Path(x)
    BY UnderIs DEF Grove, a
  <1>2. ASSUME NEW p \in Under(f, S)
        PROVE  Path(p) /\ p # <<>> /\ First(p) = f
    BY <1>0, <1>1, Joins
  <1>3. ASSUME NEW p \in Under(f, S), NEW q \in Under(f, S)
        PROVE  q \notin Above(p)
    BY <1>0, <1>1, JoinsAlike DEF Grove
  <1> QED
    BY <1>2, <1>3 DEF Grove

LEMMA GroveEach ==
  ASSUME NEW N, NEW S, NEW F, Grove(S, F)
  PROVE  Grove(Each(N, S), N)
  <1>1. ASSUME NEW p \in Each(N, S)
        PROVE  \E n \in N : p \in Under(n, S)
    BY DEF Each
  <1>2. \A n : Grove(Under(n, S), {n})
    BY GroveUnder
  <1>3. ASSUME NEW p \in Each(N, S)
        PROVE  Path(p) /\ p # <<>> /\ First(p) \in N
    BY <1>1, <1>2 DEF Grove
  <1>4. ASSUME NEW p \in Each(N, S), NEW q \in Each(N, S), q \in Above(p)
        PROVE  FALSE
    <2>1. PICK n \in N : p \in Under(n, S)
      BY <1>1
    <2>2. PICK m \in N : q \in Under(m, S)
      BY <1>1
    <2>3. First(p) = n /\ First(q) = m /\ Path(p) /\ q # <<>>
      BY <1>2, <2>1, <2>2 DEF Grove
    <2>4. m = n
      BY <1>4, <2>3, AboveHead DEF First
    <2> QED
      BY <1>2, <1>4, <2>1, <2>2, <2>4 DEF Grove
  <1> QED
    BY <1>3, <1>4 DEF Grove

\* Subtrees passed on unseen.
LEMMA WholeIs ==
  \A a, b, P : Whole(a, b, P) = Inside(a, b, {Rule(p, p, Unseen, AsIs) : p \in P})
  <1> SUFFICES ASSUME NEW a, NEW b, NEW P
               PROVE  Whole(a, b, P) = Inside(a, b, {Rule(p, p, Unseen, AsIs) : p \in P})
    OBVIOUS
  <1> DEFINE R == {Rule(p, p, Unseen, AsIs) : p \in P}
             Copy(p) == [from |-> p, to |-> p, wire |-> Unseen, how |-> AsIs]
             Put(r) == Rule(a \o r.from, b \o r.to, r.wire, r.how)
  <1>1. \A p : Put(Copy(p)) = Rule(a \o p, b \o p, Unseen, AsIs)
    BY DEF Rule
  <1>2. R = {Copy(p) : p \in P} /\ Inside(a, b, R) = {Put(r) : r \in R}
    BY DEF Rule, Inside
  <1>3. Whole(a, b, P) = {Put(Copy(p)) : p \in P}
    BY <1>1 DEF Whole
  <1> HIDE DEF R, Copy, Put
  <1>4. Whole(a, b, P) = Inside(a, b, R)
    BY <1>2, <1>3
  <1> QED
    BY <1>4 DEF R

\* Such paths, passed on as they are, are a tree.
LEMMA GroveFit ==
  ASSUME NEW P, NEW F, Grove(P, F)
  PROVE  Fit({Rule(p, p, Unseen, AsIs) : p \in P})
  <1> DEFINE R == {Rule(p, p, Unseen, AsIs) : p \in P}
  <1>1. ASSUME NEW r \in R
        PROVE  \E p \in P : r = [from |-> p, to |-> p, wire |-> Unseen, how |-> AsIs]
    BY DEF Rule
  <1> HIDE DEF R
  <1>2. ASSUME NEW r \in R, NEW q \in R
        PROVE  /\ r.from = q.from \/ r.to = q.to => r = q
               /\ q.from \notin Above(r.from) /\ q.to \notin Above(r.to)
    <2>1. PICK x \in P : r = [from |-> x, to |-> x, wire |-> Unseen, how |-> AsIs]
      BY <1>1
    <2>2. PICK y \in P : q = [from |-> y, to |-> y, wire |-> Unseen, how |-> AsIs]
      BY <1>1
    <2> QED
      BY <2>1, <2>2 DEF Grove
  <1>3. ASSUME NEW r \in R
        PROVE  /\ Path(r.from) /\ Path(r.to) /\ r.from # <<>> /\ r.to # <<>>
               /\ r = [from |-> r.from, to |-> r.to, wire |-> r.wire, how |-> r.how]
    <2>1. PICK x \in P : r = [from |-> x, to |-> x, wire |-> Unseen, how |-> AsIs]
      BY <1>1
    <2> QED
      BY <2>1 DEF Grove
  <1>4. Fit(R)
    BY <1>2, <1>3 DEF Fit, Tree
  <1> QED
    BY <1>4 DEF R

-----------------------------------------------------------------------------
\* Every table is a tree: the daemon's status, metrics and accounts.

LEMMA FitsPeers ==
  Fits(Got!getDaemonPeers, {"peerId", "host"} \union {"libp2pPort"},
       {"peerId", "host"} \union {"port"})
  BY FitsGot DEF Got!getDaemonPeers, Disjoint

LEMMA TreeGot ==
  /\ \A R : Fit(R) => Tree(R)
  /\ \A m, R : Fit(R) => Tree(Got!Inside(<<m>>, <<>>, R))
  /\ \A m, n, R : Fit(R) => Tree(Got!Inside(<<m, n>>, <<>>, R))
  /\ \A m, w, h, R : Fit(R) /\ w.plain = "{}" /\ h["{}"] = "{}"
       => Tree(Got!Within(<<m>>, <<>>, w, h, R))
  BY FitInside, TreeInside, TreeWithin, Paths, GotSame DEF Fit

LEMMA GotPaths == Got!Permissions = Permissions /\ Got!AccountUpdates = AccountUpdates
  <1>1. /\ \A N : Got!Leaves(N) = Leaves(N)
        /\ \A f, S : Got!Under(f, S) = Under(f, S)
    BY DEF Got!Leaves, Leaves, Got!Under, Under
  <1>2. \A N, S : Got!Each(N, S) = Each(N, S)
    BY <1>1 DEF Got!Each, Each
  <1>3. /\ Got!Permissions = Permissions /\ Got!Timing = Timing /\ Got!Bounds = Bounds
    BY <1>1 DEF Got!Permissions, Permissions, Got!Timing, Timing, Got!Bounds, Bounds
  <1>4. Got!EpochPreconditions = EpochPreconditions
    BY <1>1, <1>3 DEF Got!EpochPreconditions, EpochPreconditions
  <1>5. Got!AccountUpdates = AccountUpdates
    BY <1>1, <1>2, <1>3, <1>4 DEF Got!AccountUpdates, AccountUpdates
  <1> QED
    BY <1>3, <1>5

\* The paths of subtrees that are passed on unseen.
LEMMA GrovePermissions == \E F : Grove(Permissions, F)
  <1> DEFINE A == Leaves({"editState", "send", "receive", "access", "setDelegate",
                          "setPermissions", "setZkappUri", "editActionState", "setTokenSymbol",
                          "incrementNonce", "setVotingFor", "setTiming"})
             a == {"editState", "send", "receive", "access", "setDelegate", "setPermissions",
                   "setZkappUri", "editActionState", "setTokenSymbol", "incrementNonce",
                   "setVotingFor", "setTiming"}
             B == Under("setVerificationKey", Leaves({"auth", "txnVersion"}))
  <1>1. Grove(A, a) /\ Grove(B, {"setVerificationKey"})
    BY GroveLeaves, GroveUnder
  <1>2. Disjoint(a, {"setVerificationKey"})
    BY DEF Disjoint
  <1> HIDE DEF A, B, a
  <1> QED
    BY <1>1, <1>2, GroveUnion DEF Permissions, A, B

LEMMA FitPorts == Fit(Got!Take({"externalIp", "bindIp"}, Got!Name, Got!AsIs)
       \union Got!Take({"clientPort", "libp2pPort"}, Got!Num, Got!AsIs)
       \union Got!Within(<<"peer">>, <<"peer">>, Got!Nullable(Got!Object),
       Got!UnlessNull(Got!AsIs), Got!getDaemonPeers))
  <1> DEFINE A == Got!Take({"externalIp", "bindIp"}, Got!Name, Got!AsIs)
             B == Got!Take({"clientPort", "libp2pPort"}, Got!Num, Got!AsIs)
             C == Got!Within(<<"peer">>, <<"peer">>, Got!Nullable(Got!Object),
                    Got!UnlessNull(Got!AsIs), Got!getDaemonPeers)
             a == {"externalIp", "bindIp"}
             b == {"clientPort", "libp2pPort"}
             c == {"peer"}
  <1>1. Fits(A, a, a) /\ Fits(B, b, b) /\ Fits(C, c, c)
    BY FitsGot, FitsFit, OpenHow, OpenWires, FitsPeers
  <1>2. Disjoint(a, b) /\ Disjoint(a \union b, c)
    BY DEF Disjoint
  <1> HIDE DEF A, B, C, a, b, c
  <1>3. Fits(A \union B \union C, a \union b \union c, a \union b \union c)
    BY <1>1, <1>2, FitsUnion
  <1> QED
    BY <1>3, FitsFit DEF A, B, C

LEMMA FitTime == Fit(Got!Take({"epoch", "slot", "globalSlot"}, Got!Either, Got!Number)
       \union Got!Take({"startTime", "endTime"}, Got!Digits, Got!String))
  <1> DEFINE A == Got!Take({"epoch", "slot", "globalSlot"}, Got!Either, Got!Number)
             B == Got!Take({"startTime", "endTime"}, Got!Digits, Got!String)
             a == {"epoch", "slot", "globalSlot"}
             b == {"startTime", "endTime"}
  <1>1. Fits(A, a, a) /\ Fits(B, b, b)
    BY FitsGot, FitsFit, OpenHow, OpenWires
  <1>2. Disjoint(a, b)
    BY DEF Disjoint
  <1> HIDE DEF A, B, a, b
  <1>3. Fits(A \union B, a \union b, a \union b)
    BY <1>1, <1>2, FitsUnion
  <1> QED
    BY <1>3, FitsFit DEF A, B

LEMMA TreeStatus == Tree(Got!getDaemonStatus)
  <1> DEFINE A == Got!Take({"syncStatus", "stateHash", "commitId"}, Got!Name, Got!AsIs)
             B == Got!Within(<<"peers">>, <<"peers">>, Got!Nullable(Got!List), Got!Else("[]"),
                    Got!getDaemonPeers)
             C == Got!Take({"blockchainLength", "highestBlockLengthReceived", "uptimeSecs",
                    "numAccounts", "highestUnvalidatedBlockLengthReceived"},
                    Got!Nullable(Got!Num), Got!UnlessNull(Got!AsIs))
             D == Got!Take({"ledgerMerkleRoot", "chainId", "coinbaseReceiver"},
                    Got!Nullable(Got!Name), Got!UnlessNull(Got!AsIs))
             E == Got!Take({"catchupStatus", "blockProductionKeys"}, Got!Nullable(Got!List),
                    Got!UnlessNull(Got!AsIs))
             F == Got!Take({"globalSlotSinceGenesisBestTip"}, Got!Nullable(Got!Either),
                    Got!UnlessNull(Got!Number))
             G == Got!Within(<<"addrsAndPorts">>, <<"addrsAndPorts">>, Got!Nullable(Got!Object),
                    Got!UnlessNull(Got!AsIs), 
                   Got!Take({"externalIp", "bindIp"}, Got!Name, Got!AsIs)
                   \union Got!Take({"clientPort", "libp2pPort"}, Got!Num, Got!AsIs)
                   \union Got!Within(<<"peer">>, <<"peer">>, Got!Nullable(Got!Object),
                   Got!UnlessNull(Got!AsIs), Got!getDaemonPeers))
             H == Got!Within(<<"consensusTimeNow">>, <<"consensusTimeNow">>,
                    Got!Nullable(Got!Object), Got!UnlessNull(Got!AsIs), 
                   Got!Take({"epoch", "slot", "globalSlot"}, Got!Either, Got!Number)
                   \union Got!Take({"startTime", "endTime"}, Got!Digits, Got!String))
             a == {"syncStatus", "stateHash", "commitId"}
             b == {"peers"}
             c == {"blockchainLength", "highestBlockLengthReceived", "uptimeSecs", "numAccounts",
                    "highestUnvalidatedBlockLengthReceived"}
             d == {"ledgerMerkleRoot", "chainId", "coinbaseReceiver"}
             e == {"catchupStatus", "blockProductionKeys"}
             f == {"globalSlotSinceGenesisBestTip"}
             g == {"addrsAndPorts"}
             h == {"consensusTimeNow"}
  <1>1. /\ Fits(A, a, a) /\ Fits(B, b, b) /\ Fits(C, c, c) /\ Fits(D, d, d)
        /\ Fits(E, e, e) /\ Fits(F, f, f) /\ Fits(G, g, g) /\ Fits(H, h, h)
    BY FitsGot, FitsFit, OpenHow, OpenWires, FitsPeers, FitPorts, FitTime
  <1>2. /\ Disjoint(a, b) /\ Disjoint(a \union b, c) /\ Disjoint(a \union b \union c, d)
        /\ Disjoint(a \union b \union c \union d, e)
        /\ Disjoint(a \union b \union c \union d \union e, f)
        /\ Disjoint(a \union b \union c \union d \union e \union f, g)
        /\ Disjoint(a \union b \union c \union d \union e \union f \union g, h)
    BY DEF Disjoint
  <1> HIDE DEF A, B, C, D, E, F, G, H, a, b, c, d, e, f, g, h
  <1>3. Fits(A \union B \union C \union D \union E, a \union b \union c \union d \union e,
        a \union b \union c \union d \union e)
    BY <1>1, <1>2, FitsUnion
  <1>4. Fits(A \union B \union C \union D \union E \union F \union G \union H, a \union b
        \union c \union d \union e \union f \union g \union h, a \union b \union c \union d
        \union e \union f \union g \union h)
    BY <1>1, <1>2, <1>3, FitsUnion
  <1>5. Fit(A \union B \union C \union D \union E \union F \union G \union H)
    BY <1>4, FitsFit
  <1> QED
    BY <1>5, TreeGot DEF Got!getDaemonStatus, A, B, C, D, E, F, G, H

LEMMA TreeMetrics == Tree(Got!getDaemonMetrics)
  <1> DEFINE A == Got!Take({"blockProductionDelay"}, Got!List, Got!AsIs)
             b == {"transactionPoolDiffReceived", "transactionPoolDiffBroadcasted",
                   "transactionsAddedToPool", "transactionPoolSize", "snarkPoolDiffReceived",
                   "snarkPoolDiffBroadcasted", "pendingSnarkWork", "snarkPoolSize"}
             B == Got!Take(b, Got!Num, Got!AsIs)
  <1>1. Fits(A, {"blockProductionDelay"}, {"blockProductionDelay"}) /\ Fits(B, b, b)
    BY FitsGot
  <1>2. Disjoint({"blockProductionDelay"}, b)
    BY DEF Disjoint
  <1> HIDE DEF A, B, b
  <1>3. Fit(A \union B)
    BY <1>1, <1>2, FitsUnion, FitsFit
  <1> QED
    BY <1>3, TreeGot DEF Got!getDaemonMetrics, A, B, b

LEMMA FitBalance == Fit(Got!Take({"total"}, Got!Digits, Got!FromGraphQL)
       \union Got!Take({"liquid", "locked"}, Got!Nullable(Got!Digits),
       Got!IfTruthy(Got!FromGraphQL))
       \union Got!Take({"blockHeight"}, Got!Nullable(Got!Either), Got!UnlessNull(Got!Number)))
  <1> DEFINE A == Got!Take({"total"}, Got!Digits, Got!FromGraphQL)
             B == Got!Take({"liquid", "locked"}, Got!Nullable(Got!Digits),
                    Got!IfTruthy(Got!FromGraphQL))
             C == Got!Take({"blockHeight"}, Got!Nullable(Got!Either), Got!UnlessNull(Got!Number))
             a == {"total"}
             b == {"liquid", "locked"}
             c == {"blockHeight"}
  <1>1. Fits(A, a, a) /\ Fits(B, b, b) /\ Fits(C, c, c)
    BY FitsGot, FitsFit, OpenHow, OpenWires
  <1>2. Disjoint(a, b) /\ Disjoint(a \union b, c)
    BY DEF Disjoint
  <1> HIDE DEF A, B, C, a, b, c
  <1>3. Fits(A \union B \union C, a \union b \union c, a \union b \union c)
    BY <1>1, <1>2, FitsUnion
  <1> QED
    BY <1>3, FitsFit DEF A, B, C

LEMMA FitsTiming == Fits(Got!parseTiming, {"timing"}, {"timing"})
  <1>1. Got!When({"null", "{nulls}"}, "null", Got!AsIs)["{}"] = "{}"
    BY OpenHow
  <1>2. [Got!Object EXCEPT !.odd = {"null", "{nulls}"}].plain = "{}"
    BY DEF Got!Object, Got!Wire
  <1> QED
    BY <1>1, <1>2, FitsGot, FitsFit DEF Got!parseTiming

\* A field that is passed on with everything in it.
LEMMA FitsPermissions ==
  Fits({Got!Rule(<<"permissions">>, <<"permissions">>, Got!Nullable(Got!Object),
                 Got!UnlessUndefined(Got!AsIs))}
       \union Got!Whole(<<"permissions">>, <<"permissions">>, Got!Permissions),
       {"permissions"}, {"permissions"})
  <1> DEFINE R == {Rule(p, p, Unseen, AsIs) : p \in Permissions}
             a == <<"permissions">>
             w == Got!Nullable(Got!Object)
             h == Got!UnlessUndefined(Got!AsIs)
  <1>1. Fit(R)
    BY GrovePermissions, GroveFit
  <1>2. Got!Whole(a, a, Got!Permissions) = Inside(a, a, R)
    BY WholeIs, GotSame, GotPaths
  <1>3. {Got!Rule(a, a, w, h)} \union Inside(a, a, R) = Got!Within(a, a, w, h, R)
    BY GotSame DEF Within
  <1> HIDE DEF R
  <1>4. Fits(Got!Within(a, a, w, h, R), {"permissions"}, {"permissions"})
    BY <1>1, FitsGot, OpenHow, OpenWires
  <1> QED
    BY <1>2, <1>3, <1>4

LEMMA TreeAccount == Tree(Got!getAccount)
  <1> DEFINE A == Got!Take({"publicKey", "delegate", "tokenId"}, Got!Name, Got!AsIs)
             B == Got!Take({"nonce"}, Got!Either, Got!Number)
             C == Got!Inside(<<"balance">>, <<"balance">>,
                   Got!Take({"total"}, Got!Digits, Got!FromGraphQL)
                   \union Got!Take({"liquid", "locked"}, Got!Nullable(Got!Digits),
                   Got!IfTruthy(Got!FromGraphQL))
                   \union Got!Take({"blockHeight"}, Got!Nullable(Got!Either),
                   Got!UnlessNull(Got!Number)))
             D == Got!Take({"tokenSymbol"}, Got!Nullable(Got!Text), Got!UnlessNull(Got!AsIs))
             E == Got!Take({"votingFor", "receiptChainHash", "zkappUri"}, Got!Nullable(Got!Name),
                    Got!UnlessUndefined(Got!AsIs))
             F == Got!Take({"zkappState"}, Got!Nullable(Got!List), Got!UnlessUndefined(Got!AsIs))
             G == Got!Take({"provedState"}, Got!Nullable(Got!Flag), Got!UnlessUndefined(Got!AsIs))
             H == Got!parseTiming
             I == {Got!Rule(<<"permissions">>, <<"permissions">>, Got!Nullable(Got!Object),
                    Got!UnlessUndefined(Got!AsIs))}
                   \union Got!Whole(<<"permissions">>, <<"permissions">>, Got!Permissions)
             a == {"publicKey", "delegate", "tokenId"}
             b == {"nonce"}
             c == {"balance"}
             d == {"tokenSymbol"}
             e == {"votingFor", "receiptChainHash", "zkappUri"}
             f == {"zkappState"}
             g == {"provedState"}
             h == {"timing"}
             i == {"permissions"}
  <1>1. /\ Fits(A, a, a) /\ Fits(B, b, b) /\ Fits(C, c, c) /\ Fits(D, d, d)
        /\ Fits(E, e, e) /\ Fits(F, f, f) /\ Fits(G, g, g) /\ Fits(H, h, h)
        /\ Fits(I, i, i)
    BY FitsGot, FitsFit, OpenHow, OpenWires, FitBalance, FitsTiming, FitsPermissions
  <1>2. /\ Disjoint(a, b) /\ Disjoint(a \union b, c) /\ Disjoint(a \union b \union c, d)
        /\ Disjoint(a \union b \union c \union d, e)
        /\ Disjoint(a \union b \union c \union d \union e, f)
        /\ Disjoint(a \union b \union c \union d \union e \union f, g)
        /\ Disjoint(a \union b \union c \union d \union e \union f \union g, h)
        /\ Disjoint(a \union b \union c \union d \union e \union f \union g \union h, i)
    BY DEF Disjoint
  <1> HIDE DEF A, B, C, D, E, F, G, H, I, a, b, c, d, e, f, g, h, i
  <1>3. Fits(A \union B \union C \union D \union E, a \union b \union c \union d \union e,
        a \union b \union c \union d \union e)
    BY <1>1, <1>2, FitsUnion
  <1>4. Fits(A \union B \union C \union D \union E \union F \union G \union H \union I, a
        \union b \union c \union d \union e \union f \union g \union h \union i, a \union b
        \union c \union d \union e \union f \union g \union h \union i)
    BY <1>1, <1>2, <1>3, FitsUnion
  <1>5. Fit(A \union B \union C \union D \union E \union F \union G \union H \union I)
    BY <1>4, FitsFit
  <1>6. Got!getAccount = Got!Within(<<"account">>, <<>>, Got!Nullable(Got!Object), Got!Required,
        A \union B \union C \union D \union E \union F \union G \union H \union I)
    <2>1. \A X, Y, Z : X \union Y \union Z = X \union (Y \union Z)
      OBVIOUS
    <2> QED
      BY <2>1 DEF Got!getAccount, A, B, C, D, E, F, G, H, I
  <1> QED
    BY <1>5, <1>6, TreeGot, OpenHow, OpenWires

-----------------------------------------------------------------------------
\* The subtrees of account updates, which are passed on unseen.

LEMMA GroveBounds == \E N : Grove(Bounds, N)
  BY GroveLeaves DEF Bounds

LEMMA GroveTiming == \E N : Grove(Timing, N)
  BY GroveLeaves DEF Timing

LEMMA GroveOne == \A n : Grove({<<n>>}, {n})
  <1>1. \A n : {<<n>>} = Leaves({n})
    BY DEF Leaves
  <1> QED
    BY <1>1, GroveLeaves

LEMMA GroveLedger == \E N : Grove({<<"hash">>} \union Under("totalCurrency", Bounds), N)
  <1>1. Grove({<<"hash">>}, {"hash"}) /\ Grove(Under("totalCurrency", Bounds), {"totalCurrency"})
    BY GroveOne, GroveUnder, GroveBounds
  <1>2. Disjoint({"hash"}, {"totalCurrency"})
    BY DEF Disjoint
  <1> QED
    BY <1>1, <1>2, GroveUnion

LEMMA GroveEpoch == \E N : Grove(EpochPreconditions, N)
  <1> DEFINE A == Leaves({"seed", "startCheckpoint", "lockCheckpoint"})
             B == Under("epochLength", Bounds)
             C == Under("ledger", {<<"hash">>} \union Under("totalCurrency", Bounds))
             a == {"seed", "startCheckpoint", "lockCheckpoint"}
             b == {"epochLength"}
             c == {"ledger"}
  <1>1. Grove(A, a) /\ Grove(B, b) /\ Grove(C, c)
    BY GroveLeaves, GroveUnder, GroveBounds, GroveLedger
  <1>2. Disjoint(a, b) /\ Disjoint(a \union b, c)
    BY DEF Disjoint
  <1> HIDE DEF A, B, C, a, b, c
  <1>3. Grove(A \union B \union C, a \union b \union c)
    BY <1>1, <1>2, GroveUnion
  <1> QED
    BY <1>3 DEF EpochPreconditions, A, B, C

LEMMA GroveUpdate == \E N : Grove(Leaves({"appState", "delegate", "zkappUri", "votingFor",
"tokenSymbol"})
       \union Under("verificationKey", Leaves({"hash", "data"}))
       \union Under("timing", Timing)
       \union Under("permissions", Permissions), N)
  <1> DEFINE A == Leaves({"appState", "delegate", "zkappUri", "votingFor", "tokenSymbol"})
             B == Under("verificationKey", Leaves({"hash", "data"}))
             C == Under("timing", Timing)
             D == Under("permissions", Permissions)
             a == {"appState", "delegate", "zkappUri", "votingFor", "tokenSymbol"}
             b == {"verificationKey"}
             c == {"timing"}
             d == {"permissions"}
  <1>1. Grove(A, a) /\ Grove(B, b) /\ Grove(C, c) /\ Grove(D, d)
    BY GroveLeaves, GroveUnder, GroveTiming, GrovePermissions
  <1>2. Disjoint(a, b) /\ Disjoint(a \union b, c) /\ Disjoint(a \union b \union c, d)
    BY DEF Disjoint
  <1> HIDE DEF A, B, C, D, a, b, c, d
  <1>3. Grove(A \union B \union C \union D, a \union b \union c \union d)
    BY <1>1, <1>2, GroveUnion
  <1> QED
    BY <1>3 DEF A, B, C, D

LEMMA GroveNetwork == \E N : Grove({<<"snarkedLedgerHash">>}
       \union Each({"blockchainLength", "minWindowDensity", "totalCurrency",
       "globalSlotSinceGenesis"}, Bounds)
       \union Each({"stakingEpochData", "nextEpochData"}, EpochPreconditions), N)
  <1> DEFINE A == {<<"snarkedLedgerHash">>}
             B == Each({"blockchainLength", "minWindowDensity", "totalCurrency",
                    "globalSlotSinceGenesis"}, Bounds)
             C == Each({"stakingEpochData", "nextEpochData"}, EpochPreconditions)
             a == {"snarkedLedgerHash"}
             b == {"blockchainLength", "minWindowDensity", "totalCurrency",
                    "globalSlotSinceGenesis"}
             c == {"stakingEpochData", "nextEpochData"}
  <1>1. Grove(A, a) /\ Grove(B, b) /\ Grove(C, c)
    BY GroveLeaves, GroveUnder, GroveOne, GroveEach, GroveBounds, GroveEpoch
  <1>2. Disjoint(a, b) /\ Disjoint(a \union b, c)
    BY DEF Disjoint
  <1> HIDE DEF A, B, C, a, b, c
  <1>3. Grove(A \union B \union C, a \union b \union c)
    BY <1>1, <1>2, GroveUnion
  <1> QED
    BY <1>3 DEF A, B, C

LEMMA GroveAccount == \E N : Grove(Leaves({"receiptChainHash", "delegate", "state",
"actionState", "provedState", "isNew"})
       \union Each({"balance", "nonce"}, Bounds), N)
  <1> DEFINE A == Leaves({"receiptChainHash", "delegate", "state", "actionState", "provedState",
             "isNew"})
             B == Each({"balance", "nonce"}, Bounds)
             a == {"receiptChainHash", "delegate", "state", "actionState", "provedState", "isNew"}
             b == {"balance", "nonce"}
  <1>1. Grove(A, a) /\ Grove(B, b)
    BY GroveLeaves, GroveUnder, GroveEach, GroveBounds
  <1>2. Disjoint(a, b)
    BY DEF Disjoint
  <1> HIDE DEF A, B, a, b
  <1>3. Grove(A \union B, a \union b)
    BY <1>1, <1>2, GroveUnion
  <1> QED
    BY <1>3 DEF A, B

LEMMA GrovePreconditions == \E N : Grove(Under("validWhile", Bounds)
       \union Under("network", 
                   {<<"snarkedLedgerHash">>}
                   \union Each({"blockchainLength", "minWindowDensity", "totalCurrency",
                   "globalSlotSinceGenesis"}, Bounds)
                   \union Each({"stakingEpochData", "nextEpochData"}, EpochPreconditions))
       \union Under("account", 
                   Leaves({"receiptChainHash", "delegate", "state", "actionState", "provedState",
                   "isNew"})
                   \union Each({"balance", "nonce"}, Bounds)), N)
  <1> DEFINE A == Under("validWhile", Bounds)
             B == Under("network", 
                   {<<"snarkedLedgerHash">>}
                   \union Each({"blockchainLength", "minWindowDensity", "totalCurrency",
                   "globalSlotSinceGenesis"}, Bounds)
                   \union Each({"stakingEpochData", "nextEpochData"}, EpochPreconditions))
             C == Under("account", 
                   Leaves({"receiptChainHash", "delegate", "state", "actionState", "provedState",
                   "isNew"})
                   \union Each({"balance", "nonce"}, Bounds))
             a == {"validWhile"}
             b == {"network"}
             c == {"account"}
  <1>1. Grove(A, a) /\ Grove(B, b) /\ Grove(C, c)
    BY GroveLeaves, GroveUnder, GroveBounds, GroveNetwork, GroveAccount
  <1>2. Disjoint(a, b) /\ Disjoint(a \union b, c)
    BY DEF Disjoint
  <1> HIDE DEF A, B, C, a, b, c
  <1>3. Grove(A \union B \union C, a \union b \union c)
    BY <1>1, <1>2, GroveUnion
  <1> QED
    BY <1>3 DEF A, B, C

LEMMA GroveBody == \E N : Grove(Leaves({"publicKey", "tokenId", "callDepth", "callData",
"actions", "events", "incrementNonce", "useFullCommitment", "implicitAccountCreationFee"})
       \union Under("balanceChange", Leaves({"magnitude", "sgn"}))
       \union Under("mayUseToken", Leaves({"parentsOwnToken", "inheritFromParent"}))
       \union Under("authorizationKind", Leaves({"isSigned", "isProved", "verificationKeyHash"}))
       \union Under("update", 
                   Leaves({"appState", "delegate", "zkappUri", "votingFor", "tokenSymbol"})
                   \union Under("verificationKey", Leaves({"hash", "data"}))
                   \union Under("timing", Timing)
                   \union Under("permissions", Permissions))
       \union Under("preconditions", 
                   Under("validWhile", Bounds)
                   \union Under("network", 
                   {<<"snarkedLedgerHash">>}
                   \union Each({"blockchainLength", "minWindowDensity", "totalCurrency",
                   "globalSlotSinceGenesis"}, Bounds)
                   \union Each({"stakingEpochData", "nextEpochData"}, EpochPreconditions))
                   \union Under("account", 
                   Leaves({"receiptChainHash", "delegate", "state", "actionState", "provedState",
                   "isNew"})
                   \union Each({"balance", "nonce"}, Bounds))), N)
  <1> DEFINE A == Leaves({"publicKey", "tokenId", "callDepth", "callData", "actions", "events",
             "incrementNonce", "useFullCommitment", "implicitAccountCreationFee"})
             B == Under("balanceChange", Leaves({"magnitude", "sgn"}))
             C == Under("mayUseToken", Leaves({"parentsOwnToken", "inheritFromParent"}))
             D == Under("authorizationKind", Leaves({"isSigned", "isProved",
                    "verificationKeyHash"}))
             E == Under("update", 
                   Leaves({"appState", "delegate", "zkappUri", "votingFor", "tokenSymbol"})
                   \union Under("verificationKey", Leaves({"hash", "data"}))
                   \union Under("timing", Timing)
                   \union Under("permissions", Permissions))
             F == Under("preconditions", 
                   Under("validWhile", Bounds)
                   \union Under("network", 
                   {<<"snarkedLedgerHash">>}
                   \union Each({"blockchainLength", "minWindowDensity", "totalCurrency",
                   "globalSlotSinceGenesis"}, Bounds)
                   \union Each({"stakingEpochData", "nextEpochData"}, EpochPreconditions))
                   \union Under("account", 
                   Leaves({"receiptChainHash", "delegate", "state", "actionState", "provedState",
                   "isNew"})
                   \union Each({"balance", "nonce"}, Bounds)))
             a == {"publicKey", "tokenId", "callDepth", "callData", "actions", "events",
                    "incrementNonce", "useFullCommitment", "implicitAccountCreationFee"}
             b == {"balanceChange"}
             c == {"mayUseToken"}
             d == {"authorizationKind"}
             e == {"update"}
             f == {"preconditions"}
  <1>1. /\ Grove(A, a) /\ Grove(B, b) /\ Grove(C, c) /\ Grove(D, d) /\ Grove(E, e)
        /\ Grove(F, f)
    BY GroveLeaves, GroveUnder, GroveUpdate, GrovePreconditions
  <1>2. /\ Disjoint(a, b) /\ Disjoint(a \union b, c) /\ Disjoint(a \union b \union c, d)
        /\ Disjoint(a \union b \union c \union d, e)
        /\ Disjoint(a \union b \union c \union d \union e, f)
    BY DEF Disjoint
  <1> HIDE DEF A, B, C, D, E, F, a, b, c, d, e, f
  <1>3. Grove(A \union B \union C \union D \union E, a \union b \union c \union d \union e)
    BY <1>1, <1>2, GroveUnion
  <1>4. Grove(A \union B \union C \union D \union E \union F, a \union b \union c \union d
        \union e \union f)
    BY <1>1, <1>2, <1>3, GroveUnion
  <1> QED
    BY <1>4 DEF A, B, C, D, E, F

LEMMA GroveUpdates == \E N : Grove(AccountUpdates, N)
  <1> DEFINE A == Under("authorization", Leaves({"signature", "proof"}))
             B == Under("body", 
                   Leaves({"publicKey", "tokenId", "callDepth", "callData", "actions", "events",
                   "incrementNonce", "useFullCommitment", "implicitAccountCreationFee"})
                   \union Under("balanceChange", Leaves({"magnitude", "sgn"}))
                   \union Under("mayUseToken", Leaves({"parentsOwnToken", "inheritFromParent"}))
                   \union Under("authorizationKind", Leaves({"isSigned", "isProved",
                   "verificationKeyHash"}))
                   \union Under("update", 
                   Leaves({"appState", "delegate", "zkappUri", "votingFor", "tokenSymbol"})
                   \union Under("verificationKey", Leaves({"hash", "data"}))
                   \union Under("timing", Timing)
                   \union Under("permissions", Permissions))
                   \union Under("preconditions", 
                   Under("validWhile", Bounds)
                   \union Under("network", 
                   {<<"snarkedLedgerHash">>}
                   \union Each({"blockchainLength", "minWindowDensity", "totalCurrency",
                   "globalSlotSinceGenesis"}, Bounds)
                   \union Each({"stakingEpochData", "nextEpochData"}, EpochPreconditions))
                   \union Under("account", 
                   Leaves({"receiptChainHash", "delegate", "state", "actionState", "provedState",
                   "isNew"})
                   \union Each({"balance", "nonce"}, Bounds))))
             a == {"authorization"}
             b == {"body"}
  <1>1. Grove(A, a) /\ Grove(B, b)
    BY GroveLeaves, GroveUnder, GroveBody
  <1>2. Disjoint(a, b)
    BY DEF Disjoint
  <1> HIDE DEF A, B, a, b
  <1>3. Grove(A \union B, a \union b)
    BY <1>1, <1>2, GroveUnion
  <1> QED
    BY <1>3 DEF AccountUpdates, A, B

-----------------------------------------------------------------------------
\* Every table is a tree: transactions and epochs of blocks.

LEMMA FitFailure == Fit(Got!Take({"index"}, Got!Nullable(Got!Either), Got!OrNull(Got!Number))
       \union Got!Take({"failures"}, Got!List, Got!AsIs))
  <1> DEFINE A == Got!Take({"index"}, Got!Nullable(Got!Either), Got!OrNull(Got!Number))
             B == Got!Take({"failures"}, Got!List, Got!AsIs)
             a == {"index"}
             b == {"failures"}
  <1>1. Fits(A, a, a) /\ Fits(B, b, b)
    BY FitsGot, FitsFit, OpenHow, OpenWires
  <1>2. Disjoint(a, b)
    BY DEF Disjoint
  <1> HIDE DEF A, B, a, b
  <1>3. Fits(A \union B, a \union b, a \union b)
    BY <1>1, <1>2, FitsUnion
  <1> QED
    BY <1>3, FitsFit DEF A, B

LEMMA FitsFailures == Fits(Got!failures, {"failureReason"}, {"failureReason"})
  BY FitFailure, FitsGot, OpenHow, OpenWires DEF Got!failures

LEMMA FitSnarkWork == Fit(Got!snarkWork)
  <1> DEFINE A == Got!Take({"prover"}, Got!Name, Got!AsIs)
             B == Got!Take({"fee"}, Got!Digits, Got!FromGraphQL)
             C == Got!Take({"workIds"}, Got!Either, Got!Number)
             a == {"prover"}
             b == {"fee"}
             c == {"workIds"}
  <1>1. Fits(A, a, a) /\ Fits(B, b, b) /\ Fits(C, c, c)
    BY FitsGot, FitsFit, OpenHow, OpenWires
  <1>2. Disjoint(a, b) /\ Disjoint(a \union b, c)
    BY DEF Disjoint
  <1> HIDE DEF A, B, C, a, b, c
  <1>3. Fits(A \union B \union C, a \union b \union c, a \union b \union c)
    BY <1>1, <1>2, FitsUnion
  <1> QED
    BY <1>3, FitsFit DEF Got!snarkWork, A, B, C

LEMMA FitUserCommands == Fit(Got!userCommands)
  <1> DEFINE A == Got!Take({"id", "hash", "kind"}, Got!Name, Got!AsIs)
             B == Got!Take({"nonce"}, Got!Either, Got!String)
             C == {Got!Rule(<<n, "publicKey">>, <<n>>, Got!Name, Got!AsIs) : n \in {"source",
                    "receiver"}}
             D == Got!Take({"amount", "fee"}, Got!Digits, Got!AsIs)
             E == Got!Take({"memo"}, Got!Text, Got!AsIs)
             F == Got!Take({"failureReason"}, Got!Nullable(Got!Name), Got!AsIs)
             a == {"id", "hash", "kind"}
             b == {"nonce"}
             c == {"source"} \union {"receiver"}
             d == {"amount", "fee"}
             e == {"memo"}
             f == {"failureReason"}
  <1>1. Fits(C, c, c)
    BY FitsSides
  <1>2. /\ Fits(A, a, a) /\ Fits(B, b, b) /\ Fits(D, d, d) /\ Fits(E, e, e)
        /\ Fits(F, f, f)
    BY FitsGot, FitsFit, OpenHow, OpenWires
  <1>3. /\ Disjoint(a, b) /\ Disjoint(a \union b, c) /\ Disjoint(a \union b \union c, d)
        /\ Disjoint(a \union b \union c \union d, e)
        /\ Disjoint(a \union b \union c \union d \union e, f)
    BY DEF Disjoint
  <1> HIDE DEF A, B, C, D, E, F, a, b, c, d, e, f
  <1>4. Fits(A \union B \union C \union D \union E, a \union b \union c \union d \union e,
        a \union b \union c \union d \union e)
    BY <1>1, <1>2, <1>3, FitsUnion
  <1>5. Fits(A \union B \union C \union D \union E \union F, a \union b \union c \union d
        \union e \union f, a \union b \union c \union d \union e \union f)
    BY <1>1, <1>2, <1>3, <1>4, FitsUnion
  <1> QED
    BY <1>5, FitsFit DEF Got!userCommands, A, B, C, D, E, F

LEMMA FitPayerBody == Fit(Got!Take({"publicKey"}, Got!Name, Got!AsIs)
       \union Got!Take({"fee"}, Got!Digits, Got!AsIs)
       \union Got!Take({"nonce"}, Got!Either, Got!String)
       \union Got!Take({"validUntil"}, Got!Nullable(Got!Either), Got!OrNull(Got!String)))
  <1> DEFINE A == Got!Take({"publicKey"}, Got!Name, Got!AsIs)
             B == Got!Take({"fee"}, Got!Digits, Got!AsIs)
             C == Got!Take({"nonce"}, Got!Either, Got!String)
             D == Got!Take({"validUntil"}, Got!Nullable(Got!Either), Got!OrNull(Got!String))
             a == {"publicKey"}
             b == {"fee"}
             c == {"nonce"}
             d == {"validUntil"}
  <1>1. Fits(A, a, a) /\ Fits(B, b, b) /\ Fits(C, c, c) /\ Fits(D, d, d)
    BY FitsGot, FitsFit, OpenHow, OpenWires
  <1>2. Disjoint(a, b) /\ Disjoint(a \union b, c) /\ Disjoint(a \union b \union c, d)
    BY DEF Disjoint
  <1> HIDE DEF A, B, C, D, a, b, c, d
  <1>3. Fits(A \union B \union C \union D, a \union b \union c \union d, a \union b
        \union c \union d)
    BY <1>1, <1>2, FitsUnion
  <1> QED
    BY <1>3, FitsFit DEF A, B, C, D

LEMMA FitPayer == Fit(Got!Take({"authorization"}, Got!Name, Got!AsIs)
       \union Got!Inside(<<"body">>, <<"body">>, 
                   Got!Take({"publicKey"}, Got!Name, Got!AsIs)
                   \union Got!Take({"fee"}, Got!Digits, Got!AsIs)
                   \union Got!Take({"nonce"}, Got!Either, Got!String)
                   \union Got!Take({"validUntil"}, Got!Nullable(Got!Either),
                   Got!OrNull(Got!String))))
  <1> DEFINE A == Got!Take({"authorization"}, Got!Name, Got!AsIs)
             B == Got!Inside(<<"body">>, <<"body">>, 
                   Got!Take({"publicKey"}, Got!Name, Got!AsIs)
                   \union Got!Take({"fee"}, Got!Digits, Got!AsIs)
                   \union Got!Take({"nonce"}, Got!Either, Got!String)
                   \union Got!Take({"validUntil"}, Got!Nullable(Got!Either),
                   Got!OrNull(Got!String)))
             a == {"authorization"}
             b == {"body"}
  <1>1. Fits(A, a, a) /\ Fits(B, b, b)
    BY FitsGot, FitsFit, OpenHow, OpenWires, FitPayerBody
  <1>2. Disjoint(a, b)
    BY DEF Disjoint
  <1> HIDE DEF A, B, a, b
  <1>3. Fits(A \union B, a \union b, a \union b)
    BY <1>1, <1>2, FitsUnion
  <1> QED
    BY <1>3, FitsFit DEF A, B

LEMMA FitsUpdates ==
  Fits(Got!Whole(<<"accountUpdates">>, <<"accountUpdates">>, Got!AccountUpdates),
       {"accountUpdates"}, {"accountUpdates"})
  <1> DEFINE R == {Rule(p, p, Unseen, AsIs) : p \in AccountUpdates}
             a == <<"accountUpdates">>
  <1>1. Fit(R)
    BY GroveUpdates, GroveFit
  <1>2. Got!Whole(a, a, Got!AccountUpdates) = Got!Inside(a, a, R)
    BY WholeIs, GotSame, GotPaths
  <1> HIDE DEF R
  <1> QED
    BY <1>1, <1>2, FitsGot

LEMMA FitZkappCommand == Fit(Got!Take({"memo"}, Got!Text, Got!AsIs)
       \union Got!Inside(<<"feePayer">>, <<"feePayer">>, 
                   Got!Take({"authorization"}, Got!Name, Got!AsIs)
                   \union Got!Inside(<<"body">>, <<"body">>, 
                   Got!Take({"publicKey"}, Got!Name, Got!AsIs)
                   \union Got!Take({"fee"}, Got!Digits, Got!AsIs)
                   \union Got!Take({"nonce"}, Got!Either, Got!String)
                   \union Got!Take({"validUntil"}, Got!Nullable(Got!Either),
                   Got!OrNull(Got!String))))
       \union Got!Whole(<<"accountUpdates">>, <<"accountUpdates">>, Got!AccountUpdates))
  <1> DEFINE A == Got!Take({"memo"}, Got!Text, Got!AsIs)
             B == Got!Inside(<<"feePayer">>, <<"feePayer">>, 
                   Got!Take({"authorization"}, Got!Name, Got!AsIs)
                   \union Got!Inside(<<"body">>, <<"body">>, 
                   Got!Take({"publicKey"}, Got!Name, Got!AsIs)
                   \union Got!Take({"fee"}, Got!Digits, Got!AsIs)
                   \union Got!Take({"nonce"}, Got!Either, Got!String)
                   \union Got!Take({"validUntil"}, Got!Nullable(Got!Either),
                   Got!OrNull(Got!String))))
             C == Got!Whole(<<"accountUpdates">>, <<"accountUpdates">>, Got!AccountUpdates)
             a == {"memo"}
             b == {"feePayer"}
             c == {"accountUpdates"}
  <1>1. Fits(A, a, a) /\ Fits(B, b, b) /\ Fits(C, c, c)
    BY FitsGot, FitsFit, OpenHow, OpenWires, FitPayer, FitsUpdates
  <1>2. Disjoint(a, b) /\ Disjoint(a \union b, c)
    BY DEF Disjoint
  <1> HIDE DEF A, B, C, a, b, c
  <1>3. Fits(A \union B \union C, a \union b \union c, a \union b \union c)
    BY <1>1, <1>2, FitsUnion
  <1> QED
    BY <1>3, FitsFit DEF A, B, C

LEMMA FitZkappCommands == Fit(Got!zkappCommands)
  <1> DEFINE A == Got!Take({"id", "hash"}, Got!Name, Got!AsIs)
             B == Got!failures
             C == Got!Inside(<<"zkappCommand">>, <<"zkappCommand">>, 
                   Got!Take({"memo"}, Got!Text, Got!AsIs)
                   \union Got!Inside(<<"feePayer">>, <<"feePayer">>, 
                   Got!Take({"authorization"}, Got!Name, Got!AsIs)
                   \union Got!Inside(<<"body">>, <<"body">>, 
                   Got!Take({"publicKey"}, Got!Name, Got!AsIs)
                   \union Got!Take({"fee"}, Got!Digits, Got!AsIs)
                   \union Got!Take({"nonce"}, Got!Either, Got!String)
                   \union Got!Take({"validUntil"}, Got!Nullable(Got!Either),
                   Got!OrNull(Got!String))))
                   \union Got!Whole(<<"accountUpdates">>, <<"accountUpdates">>,
                   Got!AccountUpdates))
             a == {"id", "hash"}
             b == {"failureReason"}
             c == {"zkappCommand"}
  <1>1. Fits(A, a, a) /\ Fits(B, b, b) /\ Fits(C, c, c)
    BY FitsGot, FitsFit, OpenHow, OpenWires, FitsFailures, FitZkappCommand
  <1>2. Disjoint(a, b) /\ Disjoint(a \union b, c)
    BY DEF Disjoint
  <1> HIDE DEF A, B, C, a, b, c
  <1>3. Fits(A \union B \union C, a \union b \union c, a \union b \union c)
    BY <1>1, <1>2, FitsUnion
  <1> QED
    BY <1>3, FitsFit DEF Got!zkappCommands, A, B, C

LEMMA FitFeeTransfer == Fit(Got!Take({"recipient", "type"}, Got!Name, Got!AsIs)
       \union Got!Take({"fee"}, Got!Digits, Got!AsIs))
  <1> DEFINE A == Got!Take({"recipient", "type"}, Got!Name, Got!AsIs)
             B == Got!Take({"fee"}, Got!Digits, Got!AsIs)
             a == {"recipient", "type"}
             b == {"fee"}
  <1>1. Fits(A, a, a) /\ Fits(B, b, b)
    BY FitsGot, FitsFit, OpenHow, OpenWires
  <1>2. Disjoint(a, b)
    BY DEF Disjoint
  <1> HIDE DEF A, B, a, b
  <1>3. Fits(A \union B, a \union b, a \union b)
    BY <1>1, <1>2, FitsUnion
  <1> QED
    BY <1>3, FitsFit DEF A, B

LEMMA FitsTransactions ==
  Fits(Got!transactions, {"transactions"},
       {"userCommands"} \union {"feeTransfers"} \union {"zkappCommands"}
       \union {"coinbase"} \union {"coinbaseReceiverAccount"})
  <1> DEFINE A == Got!Within(<<"userCommands">>, <<"userCommands">>, Got!Nullable(Got!List),
             Got!Else("[]"), Got!userCommands)
             B == Got!Within(<<"feeTransfer">>, <<"feeTransfers">>, Got!Nullable(Got!List),
                    Got!Else("[]"), 
                   Got!Take({"recipient", "type"}, Got!Name, Got!AsIs)
                   \union Got!Take({"fee"}, Got!Digits, Got!AsIs))
             C == Got!Within(<<"zkappCommands">>, <<"zkappCommands">>, Got!Nullable(Got!List),
                    Got!UnlessNull(Got!AsIs), Got!zkappCommands)
             D == Got!Move("coinbase", "coinbase", Got!Digits, Got!AsIs)
             E == {Got!Rule(<<"coinbaseReceiverAccount", "publicKey">>,
                    <<"coinbaseReceiverAccount">>, Got!Chained(Got!Name), Got!Else("null"))}
             a == {"userCommands"}
             b == {"feeTransfer"}
             c == {"zkappCommands"}
             d == {"coinbase"}
             e == {"coinbaseReceiverAccount"}
             tb == {"feeTransfers"}
  <1>1. /\ Fits(A, a, a) /\ Fits(B, b, tb) /\ Fits(C, c, c) /\ Fits(D, d, d)
        /\ Fits(E, e, e)
    BY FitsGot, FitsFit, OpenHow, OpenWires, FitUserCommands, FitFeeTransfer, FitZkappCommands
  <1>2. /\ Disjoint(a, b) /\ Disjoint(a, tb) /\ Disjoint(a \union b, c)
        /\ Disjoint(a \union tb, c) /\ Disjoint(a \union b \union c, d)
        /\ Disjoint(a \union tb \union c, d) /\ Disjoint(a \union b \union c \union d, e)
        /\ Disjoint(a \union tb \union c \union d, e)
    BY DEF Disjoint
  <1> HIDE DEF A, B, C, D, E, a, b, c, d, e, tb
  <1>3. Fits(A \union B \union C \union D, a \union b \union c \union d, a \union tb
        \union c \union d)
    BY <1>1, <1>2, FitsUnion
  <1>4. Fits(A \union B \union C \union D \union E, a \union b \union c \union d \union e,
        a \union tb \union c \union d \union e)
    BY <1>1, <1>2, <1>3, FitsUnion
  <1> QED
    BY <1>4, FitsInside DEF Got!transactions, A, B, C, D, E, a, b, c, d, e, tb

LEMMA FitsHeights ==
  Fits(Got!heights, {"blockHeight"} \union {"slot"} \union {"slotSinceGenesis"} \union {"epoch"},
       {"height"} \union {"globalSlotSinceHardFork"} \union {"globalSlotSinceGenesis"}
       \union {"epoch"})
  <1> DEFINE A == Got!Move("blockHeight", "height", Got!Either, Got!Number)
             B == Got!Move("slot", "globalSlotSinceHardFork", Got!Either, Got!Number)
             C == Got!Move("slotSinceGenesis", "globalSlotSinceGenesis", Got!Either, Got!Number)
             D == Got!Take({"epoch"}, Got!Either, Got!Number)
             a == {"blockHeight"}
             b == {"slot"}
             c == {"slotSinceGenesis"}
             d == {"epoch"}
             ta == {"height"}
             tb == {"globalSlotSinceHardFork"}
             tc == {"globalSlotSinceGenesis"}
  <1>1. Fits(A, a, ta) /\ Fits(B, b, tb) /\ Fits(C, c, tc) /\ Fits(D, d, d)
    BY FitsGot, FitsFit, OpenHow, OpenWires
  <1>2. /\ Disjoint(a, b) /\ Disjoint(ta, tb) /\ Disjoint(a \union b, c)
        /\ Disjoint(ta \union tb, tc) /\ Disjoint(a \union b \union c, d)
        /\ Disjoint(ta \union tb \union tc, d)
    BY DEF Disjoint
  <1> HIDE DEF A, B, C, D, a, b, c, d, ta, tb, tc
  <1>3. Fits(A \union B \union C \union D, a \union b \union c \union d, ta \union tb
        \union tc \union d)
    BY <1>1, <1>2, FitsUnion
  <1> QED
    BY <1>3 DEF Got!heights, A, B, C, D, a, b, c, d, ta, tb, tc

LEMMA FitStakingEpoch == Fit(Got!Take({"epochLength"}, Got!Either, Got!Number)
       \union Got!Take({"seed"}, Got!Name, Got!AsIs)
       \union {Got!Rule(<<"ledger", "hash">>, <<"ledgerHash">>, Got!Name, Got!AsIs)})
  <1> DEFINE A == Got!Take({"epochLength"}, Got!Either, Got!Number)
             B == Got!Take({"seed"}, Got!Name, Got!AsIs)
             C == {Got!Rule(<<"ledger", "hash">>, <<"ledgerHash">>, Got!Name, Got!AsIs)}
             a == {"epochLength"}
             b == {"seed"}
             c == {"ledger"}
             tc == {"ledgerHash"}
  <1>1. Fits(A, a, a) /\ Fits(B, b, b) /\ Fits(C, c, tc)
    BY FitsGot, FitsFit, OpenHow, OpenWires
  <1>2. /\ Disjoint(a, b) /\ Disjoint(a, b) /\ Disjoint(a \union b, c)
        /\ Disjoint(a \union b, tc)
    BY DEF Disjoint
  <1> HIDE DEF A, B, C, a, b, c, tc
  <1>3. Fits(A \union B \union C, a \union b \union c, a \union b \union tc)
    BY <1>1, <1>2, FitsUnion
  <1> QED
    BY <1>3, FitsFit DEF A, B, C

LEMMA FitNextEpoch == Fit(Got!Take({"seed"}, Got!Name, Got!AsIs)
       \union {Got!Rule(<<"ledger", "hash">>, <<"ledgerHash">>, Got!Name, Got!AsIs)})
  <1> DEFINE A == Got!Take({"seed"}, Got!Name, Got!AsIs)
             B == {Got!Rule(<<"ledger", "hash">>, <<"ledgerHash">>, Got!Name, Got!AsIs)}
             a == {"seed"}
             b == {"ledger"}
             tb == {"ledgerHash"}
  <1>1. Fits(A, a, a) /\ Fits(B, b, tb)
    BY FitsGot, FitsFit, OpenHow, OpenWires
  <1>2. Disjoint(a, b) /\ Disjoint(a, tb)
    BY DEF Disjoint
  <1> HIDE DEF A, B, a, b, tb
  <1>3. Fits(A \union B, a \union b, a \union tb)
    BY <1>1, <1>2, FitsUnion
  <1> QED
    BY <1>3, FitsFit DEF A, B

LEMMA FitsEpoch ==
  Fits(Got!epochData, {"stakingEpochData"} \union {"nextEpochData"}, {"stakingEpochData"}
  \union {"nextEpochData"})
  <1> DEFINE A == Got!Within(<<"stakingEpochData">>, <<"stakingEpochData">>,
             Got!Nullable(Got!Object), Got!IfTruthy(Got!AsIs), 
                   Got!Take({"epochLength"}, Got!Either, Got!Number)
                   \union Got!Take({"seed"}, Got!Name, Got!AsIs)
                   \union {Got!Rule(<<"ledger", "hash">>, <<"ledgerHash">>, Got!Name, Got!AsIs)})
             B == Got!Within(<<"nextEpochData">>, <<"nextEpochData">>, Got!Nullable(Got!Object),
                    Got!IfTruthy(Got!AsIs), 
                   Got!Take({"seed"}, Got!Name, Got!AsIs)
                   \union {Got!Rule(<<"ledger", "hash">>, <<"ledgerHash">>, Got!Name, Got!AsIs)})
             a == {"stakingEpochData"}
             b == {"nextEpochData"}
  <1>1. Fits(A, a, a) /\ Fits(B, b, b)
    BY FitsGot, FitsFit, OpenHow, OpenWires, FitStakingEpoch, FitNextEpoch
  <1>2. Disjoint(a, b)
    BY DEF Disjoint
  <1> HIDE DEF A, B, a, b
  <1>3. Fits(A \union B, a \union b, a \union b)
    BY <1>1, <1>2, FitsUnion
  <1> QED
    BY <1>3 DEF Got!epochData, A, B, a, b

LEMMA FitStakingBlockEpoch == Fit(Got!Take({"epochLength"}, Got!Either, Got!When({"undefined"},
"0", Got!Number))
       \union Got!Take({"seed"}, Got!Name, Got!AsIs)
       \union {Got!Rule(<<"ledger", "hash">>, <<"ledgerHash">>, Got!Name, Got!AsIs)})
  <1> DEFINE A == Got!Take({"epochLength"}, Got!Either, Got!When({"undefined"}, "0", Got!Number))
             B == Got!Take({"seed"}, Got!Name, Got!AsIs)
             C == {Got!Rule(<<"ledger", "hash">>, <<"ledgerHash">>, Got!Name, Got!AsIs)}
             a == {"epochLength"}
             b == {"seed"}
             c == {"ledger"}
             tc == {"ledgerHash"}
  <1>1. Fits(A, a, a) /\ Fits(B, b, b) /\ Fits(C, c, tc)
    BY FitsGot, FitsFit, OpenHow, OpenWires
  <1>2. /\ Disjoint(a, b) /\ Disjoint(a, b) /\ Disjoint(a \union b, c)
        /\ Disjoint(a \union b, tc)
    BY DEF Disjoint
  <1> HIDE DEF A, B, C, a, b, c, tc
  <1>3. Fits(A \union B \union C, a \union b \union c, a \union b \union tc)
    BY <1>1, <1>2, FitsUnion
  <1> QED
    BY <1>3, FitsFit DEF A, B, C

LEMMA FitNextBlockEpoch == Fit(Got!Take({"seed"}, Got!Name, Got!Else("''"))
       \union {Got!Rule(<<"ledger", "hash">>, <<"ledgerHash">>, Got!Name, Got!Else("''"))})
  <1> DEFINE A == Got!Take({"seed"}, Got!Name, Got!Else("''"))
             B == {Got!Rule(<<"ledger", "hash">>, <<"ledgerHash">>, Got!Name, Got!Else("''"))}
             a == {"seed"}
             b == {"ledger"}
             tb == {"ledgerHash"}
  <1>1. Fits(A, a, a) /\ Fits(B, b, tb)
    BY FitsGot, FitsFit, OpenHow, OpenWires
  <1>2. Disjoint(a, b) /\ Disjoint(a, tb)
    BY DEF Disjoint
  <1> HIDE DEF A, B, a, b, tb
  <1>3. Fits(A \union B, a \union b, a \union tb)
    BY <1>1, <1>2, FitsUnion
  <1> QED
    BY <1>3, FitsFit DEF A, B

LEMMA FitsBlockEpoch ==
  Fits(Got!blockEpochData, {"stakingEpochData"} \union {"nextEpochData"},
  {"stakingEpochData"} \union {"nextEpochData"})
  <1> DEFINE A == Got!Within(<<"stakingEpochData">>, <<"stakingEpochData">>,
             Got!Nullable(Got!Object), Got!Else("{}"), 
                   Got!Take({"epochLength"}, Got!Either, Got!When({"undefined"}, "0", Got!Number))
                   \union Got!Take({"seed"}, Got!Name, Got!AsIs)
                   \union {Got!Rule(<<"ledger", "hash">>, <<"ledgerHash">>, Got!Name, Got!AsIs)})
             B == Got!Within(<<"nextEpochData">>, <<"nextEpochData">>, Got!Nullable(Got!Object),
                    Got!Else("{}"), 
                   Got!Take({"seed"}, Got!Name, Got!Else("''"))
                   \union {Got!Rule(<<"ledger", "hash">>, <<"ledgerHash">>, Got!Name,
                   Got!Else("''"))})
             a == {"stakingEpochData"}
             b == {"nextEpochData"}
  <1>1. Fits(A, a, a) /\ Fits(B, b, b)
    BY FitsGot, FitsFit, OpenHow, OpenWires, FitStakingBlockEpoch, FitNextBlockEpoch
  <1>2. Disjoint(a, b)
    BY DEF Disjoint
  <1> HIDE DEF A, B, a, b
  <1>3. Fits(A \union B, a \union b, a \union b)
    BY <1>1, <1>2, FitsUnion
  <1> QED
    BY <1>3 DEF Got!blockEpochData, A, B, a, b

-----------------------------------------------------------------------------
\* Every table is a tree: blocks.

\* What the parts of a block's table read and make.
TransactionNames ==
  {"userCommands"} \union {"feeTransfers"} \union {"zkappCommands"}
    \union {"coinbase"} \union {"coinbaseReceiverAccount"}
HeightFields ==
  {"blockHeight"} \union {"slot"} \union {"slotSinceGenesis"}
    \union {"epoch"}
HeightNames ==
  {"height"} \union {"globalSlotSinceHardFork"}
    \union {"globalSlotSinceGenesis"} \union {"epoch"}
EpochNames == {"stakingEpochData"} \union {"nextEpochData"}

ConsensusNames ==
  HeightNames \union EpochNames \union {"blockCreator"}
    \union {"coinbaseReceiver"}
ChainNames == {"date", "utcDate", "snarkedLedgerHash"} \union {"stagedLedgerHash"}

LEMMA FitsConsensus ==
  ASSUME NEW epoch, Fits(epoch, EpochNames, EpochNames)
  PROVE  Fits(Got!heights
              \union epoch
              \union Got!Take({"blockCreator"}, Got!Name, Got!AsIs)
              \union Got!Move("coinbaseReceiever", "coinbaseReceiver", Got!Nullable(Got!Name),
              Got!UnlessNull(Got!AsIs)),
              HeightFields \union EpochNames \union {"blockCreator"}
              \union {"coinbaseReceiever"}, ConsensusNames)
  <1> DEFINE A == Got!heights
             B == epoch
             C == Got!Take({"blockCreator"}, Got!Name, Got!AsIs)
             D == Got!Move("coinbaseReceiever", "coinbaseReceiver", Got!Nullable(Got!Name),
                    Got!UnlessNull(Got!AsIs))
             a == HeightFields
             b == EpochNames
             c == {"blockCreator"}
             d == {"coinbaseReceiever"}
             ta == HeightNames
             td == {"coinbaseReceiver"}
  <1>0. Fits(B, b, b)
    OBVIOUS
  <1>1. Fits(A, a, ta) /\ Fits(C, c, c) /\ Fits(D, d, td)
    BY FitsGot, FitsHeights DEF HeightFields, HeightNames
  <1>2. /\ Disjoint(a, b) /\ Disjoint(ta, b) /\ Disjoint(a \union b, c)
        /\ Disjoint(ta \union b, c) /\ Disjoint(a \union b \union c, d)
        /\ Disjoint(ta \union b \union c, td)
    BY DEF Disjoint, HeightFields, HeightNames, EpochNames
  <1> HIDE DEF A, B, C, D, a, b, c, d, ta, td
  <1>3. Fits(A \union B \union C \union D, a \union b \union c \union d, ta \union b
        \union c \union td)
    BY <1>0, <1>1, <1>2, FitsUnion
  <1> QED
    BY <1>3 DEF ConsensusNames, A, B, C, D, a, b, c, d, ta, td

LEMMA FitsChain ==
  Fits(Got!Take({"date", "utcDate", "snarkedLedgerHash"}, Got!Name, Got!AsIs)
       \union Got!Take({"stagedLedgerHash"}, Got!Hash, Got!AsIs),
              ChainNames, ChainNames)
  <1> DEFINE A == Got!Take({"date", "utcDate", "snarkedLedgerHash"}, Got!Name, Got!AsIs)
             B == Got!Take({"stagedLedgerHash"}, Got!Hash, Got!AsIs)
             a == {"date", "utcDate", "snarkedLedgerHash"}
             b == {"stagedLedgerHash"}
  <1>1. Fits(A, a, a) /\ Fits(B, b, b)
    BY FitsGot, FitsFit, OpenHow, OpenWires
  <1>2. Disjoint(a, b)
    BY DEF Disjoint
  <1> HIDE DEF A, B, a, b
  <1>3. Fits(A \union B, a \union b, a \union b)
    BY <1>1, <1>2, FitsUnion
  <1> QED
    BY <1>3 DEF ChainNames, A, B, a, b

ProtocolNames == {"previousStateHash"} \union ConsensusNames \union ChainNames

LEMMA FitsProtocol ==
  ASSUME NEW epoch, Fits(epoch, EpochNames, EpochNames)
  PROVE  Fits(Got!Take({"previousStateHash"}, Got!Hash, Got!AsIs)
              \union Got!Inside(<<"consensusState">>, <<>>,
                   Got!heights
                   \union epoch
                   \union Got!Take({"blockCreator"}, Got!Name, Got!AsIs)
                   \union Got!Move("coinbaseReceiever", "coinbaseReceiver",
                   Got!Nullable(Got!Name), Got!UnlessNull(Got!AsIs)))
              \union Got!Inside(<<"blockchainState">>, <<>>,
                   Got!Take({"date", "utcDate", "snarkedLedgerHash"}, Got!Name, Got!AsIs)
                   \union Got!Take({"stagedLedgerHash"}, Got!Hash, Got!AsIs)),
              {"previousStateHash"} \union {"consensusState"} \union {"blockchainState"},
              ProtocolNames)
  <1> DEFINE A == Got!Take({"previousStateHash"}, Got!Hash, Got!AsIs)
             B == Got!Inside(<<"consensusState">>, <<>>,
                   Got!heights
                   \union epoch
                   \union Got!Take({"blockCreator"}, Got!Name, Got!AsIs)
                   \union Got!Move("coinbaseReceiever", "coinbaseReceiver",
                   Got!Nullable(Got!Name), Got!UnlessNull(Got!AsIs)))
             C == Got!Inside(<<"blockchainState">>, <<>>,
                   Got!Take({"date", "utcDate", "snarkedLedgerHash"}, Got!Name, Got!AsIs)
                   \union Got!Take({"stagedLedgerHash"}, Got!Hash, Got!AsIs))
             a == {"previousStateHash"}
             b == {"consensusState"}
             c == {"blockchainState"}
             tb == ConsensusNames
             tc == ChainNames
  <1>0. Fits(B, b, tb)
    BY FitsConsensus, FitsInside
  <1>1. Fits(A, a, a) /\ Fits(C, c, tc)
    BY FitsGot, FitsInside, FitsChain
  <1>2. /\ Disjoint(a, b) /\ Disjoint(a, tb) /\ Disjoint(a \union b, c)
        /\ Disjoint(a \union tb, tc)
    BY DEF Disjoint, ConsensusNames, HeightNames, EpochNames, ChainNames
  <1> HIDE DEF A, B, C, a, b, c, tb, tc
  <1>3. Fits(A \union B \union C, a \union b \union c, a \union tb \union tc)
    BY <1>0, <1>1, <1>2, FitsUnion
  <1> QED
    BY <1>3 DEF ProtocolNames, A, B, C, a, b, c, tb, tc

BlockFieldNames ==
  {"stateHash"} \union {"commandTransactionCount"}
    \union {"creatorAccount"} \union {"protocolState"}
    \union {"snarkJobs"} \union {"transactions"}
BlockInfoNames ==
  {"stateHash"} \union {"commandTransactionCount"}
    \union {"creatorPublicKey"} \union ProtocolNames \union {"snarkJobs"}
    \union TransactionNames

LEMMA FitsBlockInfo ==
  ASSUME NEW epoch, Fits(epoch, EpochNames, EpochNames)
  PROVE  Fits(Got!blockInfo(epoch),
              BlockFieldNames, BlockInfoNames)
  <1> DEFINE A == Got!Take({"stateHash"}, Got!Hash, Got!AsIs)
             B == Got!Take({"commandTransactionCount"}, Got!Num, Got!AsIs)
             C == {Got!Rule(<<"creatorAccount", "publicKey">>, <<"creatorPublicKey">>,
                    Got!Chained(Got!Nullable(Got!Name)), Got!Else("'unknown'"))}
             D == Got!Inside(<<"protocolState">>, <<>>,
                   Got!Take({"previousStateHash"}, Got!Hash, Got!AsIs)
                   \union Got!Inside(<<"consensusState">>, <<>>,
                   Got!heights
                   \union epoch
                   \union Got!Take({"blockCreator"}, Got!Name, Got!AsIs)
                   \union Got!Move("coinbaseReceiever", "coinbaseReceiver",
                   Got!Nullable(Got!Name), Got!UnlessNull(Got!AsIs)))
                   \union Got!Inside(<<"blockchainState">>, <<>>,
                   Got!Take({"date", "utcDate", "snarkedLedgerHash"}, Got!Name, Got!AsIs)
                   \union Got!Take({"stagedLedgerHash"}, Got!Hash, Got!AsIs)))
             E == Got!Within(<<"snarkJobs">>, <<"snarkJobs">>, Got!Nullable(Got!List),
                    Got!UnlessNull(Got!AsIs), Got!snarkWork)
             F == Got!transactions
             a == {"stateHash"}
             b == {"commandTransactionCount"}
             c == {"creatorAccount"}
             d == {"protocolState"}
             e == {"snarkJobs"}
             f == {"transactions"}
             tc == {"creatorPublicKey"}
             td == ProtocolNames
             tf == TransactionNames
  <1>0. Fits(D, d, td)
    BY FitsProtocol, FitsInside
  <1>1. /\ Fits(A, a, a) /\ Fits(B, b, b) /\ Fits(C, c, tc)
        /\ Fits(E, e, e) /\ Fits(F, f, tf)
    BY FitsGot, OpenHow, OpenWires, FitSnarkWork, FitsTransactions DEF TransactionNames
  <1>2. /\ Disjoint(a, b) /\ Disjoint(a, b) /\ Disjoint(a \union b, c)
        /\ Disjoint(a \union b, tc) /\ Disjoint(a \union b \union c, d)
        /\ Disjoint(a \union b \union tc, td) /\ Disjoint(a \union b \union c \union d, e)
        /\ Disjoint(a \union b \union tc \union td, e)
        /\ Disjoint(a \union b \union c \union d \union e, f)
        /\ Disjoint(a \union b \union tc \union td \union e, tf)
    BY DEF Disjoint, ProtocolNames, ConsensusNames, HeightNames, EpochNames, ChainNames,
           TransactionNames
  <1> HIDE DEF A, B, C, D, E, F, a, b, c, d, e, f, tc, td, tf
  <1>3. Fits(A \union B \union C \union D, a \union b \union c \union d, a \union b
        \union tc \union td)
    BY <1>0, <1>1, <1>2, FitsUnion
  <1>4. Fits(A \union B \union C \union D \union E \union F, a \union b \union c \union d
        \union e \union f, a \union b \union tc \union td \union e \union tf)
    BY <1>1, <1>2, <1>3, FitsUnion
  <1> QED
    BY <1>4 DEF Got!blockInfo, BlockFieldNames, BlockInfoNames, A, B, C, D, E, F, a, b, c, d, e,
       f, tc, td, tf

\* The lists of blocks, and the genesis block.
LEMMA FitBlockInfo == Fit(Got!parseBlockInfo)
  <1>1. Fits(Got!epochData, EpochNames, EpochNames)
    BY FitsEpoch DEF EpochNames
  <1>2. Fits(Got!blockInfo(Got!epochData), BlockFieldNames, BlockInfoNames)
    BY <1>1, FitsBlockInfo
  <1> QED
    BY <1>2, FitsFit DEF Got!parseBlockInfo

LEMMA TreeElements ==
  \A n, w, h, R : Fit(R) /\ w.plain = "{}" /\ h["{}"] = "{}" => Tree(Got!Elements(n, w, h, R))
  BY FitsGot, FitsFit DEF Got!Elements

LEMMA TreeBestChain == Tree(Got!getBestChain)
  BY FitBlockInfo, TreeElements, OpenHow, OpenWires DEF Got!getBestChain

LEMMA TreeGenesis == Tree(Got!getGenesisBlock)
  BY FitBlockInfo, TreeGot DEF Got!getGenesisBlock

\* getBlock renames fields of what parseBlockInfo makes.
Renamed(n) == IF n \in DOMAIN Got!blockNames THEN Got!blockNames[n] ELSE n
Again(p) == IF p[1] \in DOMAIN Got!blockNames THEN <<Got!blockNames[p[1]]>> \o Tail(p) ELSE p

\* Renaming the first field of a path.
LEMMA AgainIs ==
  ASSUME NEW p, Path(p), p # <<>>
  PROVE  /\ Path(Again(p)) /\ Len(Again(p)) = Len(p) /\ Again(p) # <<>>
         /\ First(Again(p)) = Renamed(First(p))
         /\ \A i \in 2..Len(p) : Again(p)[i] = p[i]
  <1>1. PICK S : p \in Seq(S)
    BY DEF Path
  <1>2. CASE p[1] \notin DOMAIN Got!blockNames
    BY <1>2 DEF Again, Renamed, First
  <1>3. CASE p[1] \in DOMAIN Got!blockNames
    <2> DEFINE a == <<Got!blockNames[p[1]]>>
               t == Tail(p)
    <2>1. Path(a) /\ Len(a) = 1 /\ a[1] = Got!blockNames[p[1]]
      BY One
    <2>2. Path(t) /\ Len(t) = Len(p) - 1 /\ Len(p) \in Nat
      BY <1>1 DEF Path
    <2>3. \A i \in 1..Len(t) : t[i] = p[i + 1]
      BY <1>1
    <2>4. Again(p) = a \o t
      BY <1>3 DEF Again
    <2> HIDE DEF a, t
    <2>4a. Path(a) /\ Path(t)
      BY <2>1, <2>2
    <2>5. /\ Path(a \o t) /\ Len(a \o t) = Len(a) + Len(t)
          /\ \A i \in 1..Len(a) : (a \o t)[i] = a[i]
          /\ \A i \in 1..Len(t) : (a \o t)[Len(a) + i] = t[i]
      BY ONLY <2>4a, JoinIs
    <2>6. Len(a \o t) = Len(p) /\ a \o t # <<>> /\ (a \o t)[1] = a[1]
      <3>1. Len(a \o t) = Len(p) /\ 1 \in 1..Len(a)
        BY <2>1, <2>2, <2>5
      <3>2. Len(p) # 0
        BY PathIs
      <3> QED
        BY <3>1, <3>2, <2>5
    <2>7. ASSUME NEW i \in 2..Len(p)
          PROVE  (a \o t)[i] = p[i]
      <3>1. i - 1 \in 1..Len(t) /\ Len(a) + (i - 1) = i /\ (i - 1) + 1 = i
        BY <2>1, <2>2
      <3> QED
        BY <3>1, <2>3, <2>5
    <2>8. Renamed(First(p)) = a[1]
      BY <1>3, <2>1 DEF Renamed, First
    <2> QED
      BY <2>4, <2>5, <2>6, <2>7, <2>8 DEF First
  <1> QED
    BY <1>2, <1>3

LEMMA AgainAlike ==
  ASSUME NEW p, NEW q, Path(p), Path(q), p # <<>>, q # <<>>,
         Renamed(First(p)) = Renamed(First(q)) => First(p) = First(q)
  PROVE  /\ Again(p) = Again(q) => p = q
         /\ Again(q) \in Above(Again(p)) <=> q \in Above(p)
  <1> DEFINE x == Again(p)
             y == Again(q)
  <1>1. /\ Path(x) /\ Len(x) = Len(p) /\ x[1] = Renamed(p[1]) /\ \A i \in 2..Len(p) : x[i] = p[i]
        /\ Path(y) /\ Len(y) = Len(q) /\ y[1] = Renamed(q[1]) /\ \A i \in 2..Len(q) : y[i] = q[i]
    BY AgainIs DEF First
  <1>2. Renamed(p[1]) = Renamed(q[1]) <=> p[1] = q[1]
    BY DEF First
  <1>3. Len(p) \in Nat /\ Len(q) \in Nat /\ 1 \in 1..Len(p) /\ 1 \in 1..Len(q)
    BY PathIs
  <1> HIDE DEF x, y
  <1>4. ASSUME x = y PROVE p = q
    <2>1. Len(p) = Len(q)
      BY <1>1, <1>4
    <2>2. ASSUME NEW i \in 1..Len(p) PROVE p[i] = q[i]
      <3>1. CASE i = 1
        BY <3>1, <1>1, <1>2, <1>4
      <3>2. CASE i # 1
        <4>1. i \in 2..Len(p) /\ i \in 2..Len(q)
          BY <3>2, <2>1, <1>3
        <4> QED
          BY <4>1, <1>1, <1>4
      <3> QED
        BY <3>1, <3>2
    <2> QED
      BY <2>1, <2>2, SamePath
  <1>5. x \in {x} /\ (y \in Above(x) <=> Len(y) < Len(x) /\ \A i \in 1..Len(y) : y[i] = x[i])
    BY <1>1, AboveIs
  <1>6. q \in Above(p) <=> Len(q) < Len(p) /\ \A i \in 1..Len(q) : q[i] = p[i]
    BY AboveIs
  <1>7. ASSUME Len(q) < Len(p), NEW i \in 1..Len(q)
        PROVE  y[i] = x[i] <=> q[i] = p[i]
    <2>1. CASE i = 1
      BY <2>1, <1>1, <1>2
    <2>2. CASE i # 1
      <3>1. i \in 2..Len(p) /\ i \in 2..Len(q)
        BY <2>2, <1>3, <1>7
      <3> QED
        BY <3>1, <1>1
    <2> QED
      BY <2>1, <2>2
  <1> QED
    BY <1>1, <1>4, <1>5, <1>6, <1>7 DEF x, y

\* Renaming the fields of a result so that no two get the same name.
LEMMA FitRenamed ==
  ASSUME NEW R, NEW F, NEW T, Fits(R, F, T),
         \A m, n \in T : Renamed(m) = Renamed(n) => m = n
  PROVE  Fit({Got!inBlock(r) : r \in R})
  <1> DEFINE B == {Got!inBlock(r) : r \in R}
  <1>1. ASSUME NEW r \in R
        PROVE  Got!inBlock(r) =
                 [from |-> r.from, to |-> Again(r.to), wire |-> r.wire, how |-> r.how]
    <2>1. r = [from |-> r.from, to |-> r.to, wire |-> r.wire, how |-> r.how]
      BY DEF Fits, Fit, Tree
    <2>2. Got!inBlock(r) = [r EXCEPT !.to = Again(r.to)]
      BY DEF Got!inBlock, Again
    <2> QED
      BY <2>1, <2>2
  <1>2. ASSUME NEW s \in B
        PROVE  \E r \in R :
                  s = [from |-> r.from, to |-> Again(r.to), wire |-> r.wire, how |-> r.how]
    BY <1>1
  <1> HIDE DEF B
  <1>3. ASSUME NEW s \in B
        PROVE  /\ Path(s.from) /\ Path(s.to) /\ s.from # <<>> /\ s.to # <<>>
               /\ s = [from |-> s.from, to |-> s.to, wire |-> s.wire, how |-> s.how]
    <2>1. PICK r \in R :
                  s = [from |-> r.from, to |-> Again(r.to), wire |-> r.wire, how |-> r.how]
      BY <1>2
    <2>2. Path(r.from) /\ Path(r.to) /\ r.from # <<>> /\ r.to # <<>>
      BY DEF Fits, Fit, Tree
    <2> QED
      BY <2>1, <2>2, AgainIs
  <1>4. ASSUME NEW s \in B, NEW u \in B
        PROVE  /\ s.from = u.from \/ s.to = u.to => s = u
               /\ u.from \in Above(s.from) <=> u.to \in Above(s.to)
               /\ u.from \in Above(s.from) => Opens(u)
    <2>1. PICK r \in R :
                  s = [from |-> r.from, to |-> Again(r.to), wire |-> r.wire, how |-> r.how]
      BY <1>2
    <2>2. PICK q \in R : u = [from |-> q.from, to |-> Again(q.to), wire |-> q.wire, how |-> q.how]
      BY <1>2
    <2>3. /\ s.from = r.from /\ s.to = Again(r.to)
          /\ u.from = q.from /\ u.to = Again(q.to) /\ u.wire = q.wire /\ u.how = q.how
      BY <2>1, <2>2
    <2>4. /\ Path(r.to) /\ Path(q.to) /\ r.to # <<>> /\ q.to # <<>>
          /\ First(r.to) \in T /\ First(q.to) \in T
      BY DEF Fits, Fit, Tree
    <2>5. Renamed(First(r.to)) = Renamed(First(q.to)) => First(r.to) = First(q.to)
      BY <2>4
    <2>6. /\ Again(r.to) = Again(q.to) => r.to = q.to
          /\ Again(q.to) \in Above(Again(r.to)) <=> q.to \in Above(r.to)
      BY <2>4, <2>5, AgainAlike
    <2>7. /\ r.from = q.from \/ r.to = q.to => r = q
          /\ q.from \in Above(r.from) <=> q.to \in Above(r.to)
          /\ q.from \in Above(r.from) => Opens(q)
      BY DEF Fits, Fit, Tree
    <2>8. r = q => s = u
      BY <2>1, <2>2
    <2> QED
      BY <2>3, <2>6, <2>7, <2>8 DEF Opens
  <1> QED
    BY <1>3, <1>4 DEF Fit, Tree, B

\* A block, fetched by its hash or height.
LEMMA TreeBlock == Tree(Got!getBlock)
  <1>1. Fits(Got!blockEpochData, EpochNames, EpochNames)
    BY FitsBlockEpoch DEF EpochNames
  <1>2. Fits(Got!blockInfo(Got!blockEpochData), BlockFieldNames, BlockInfoNames)
    BY <1>1, FitsBlockInfo
  <1>3. ASSUME NEW m \in BlockInfoNames, NEW n \in BlockInfoNames, Renamed(m) = Renamed(n)
        PROVE  m = n
    BY <1>3 DEF BlockInfoNames, ProtocolNames, ConsensusNames, HeightNames, EpochNames, ChainNames,
                TransactionNames, Renamed, Got!blockNames
  <1>4. Fit({Got!inBlock(r) : r \in Got!blockInfo(Got!blockEpochData)})
    BY <1>2, <1>3, FitRenamed
  <1> QED
    BY <1>4, TreeGot, OpenHow, OpenWires DEF Got!getBlock

-----------------------------------------------------------------------------
\* Every table is a tree: commands, pools and the lists of the daemon.

\* A zkApp command as sent, or in the pool.
LEMMA FitSubmittedBody ==
  Fit(Got!Take({"publicKey"}, Got!Name, Got!AsIs)
      \union Got!Take({"fee"}, Got!Digits, Got!FromGraphQL)
      \union Got!Take({"nonce"}, Got!Either, Got!Number)
      \union Got!Take({"validUntil"}, Got!Nullable(Got!Either), Got!OrNull(Got!Number)))
  <1> DEFINE A == Got!Take({"publicKey"}, Got!Name, Got!AsIs)
             B == Got!Take({"fee"}, Got!Digits, Got!FromGraphQL)
             C == Got!Take({"nonce"}, Got!Either, Got!Number)
             D == Got!Take({"validUntil"}, Got!Nullable(Got!Either), Got!OrNull(Got!Number))
             a == {"publicKey"}
             b == {"fee"}
             c == {"nonce"}
             d == {"validUntil"}
  <1>1. Fits(A, a, a) /\ Fits(B, b, b) /\ Fits(C, c, c) /\ Fits(D, d, d)
    BY FitsGot
  <1>2. Disjoint(a, b) /\ Disjoint(a \union b, c) /\ Disjoint(a \union b \union c, d)
    BY DEF Disjoint
  <1> HIDE DEF A, B, C, D, a, b, c, d
  <1>3. Fits(A \union B \union C \union D, a \union b \union c \union d,
             a \union b \union c \union d)
    BY <1>1, <1>2, FitsUnion
  <1> QED
    BY <1>3, FitsFit DEF A, B, C, D

LEMMA FitSubmittedZkapp == Fit(Got!parseZkappCommand)
  <1> DEFINE P == Got!Take({"publicKey"}, Got!Name, Got!AsIs)
                  \union Got!Take({"fee"}, Got!Digits, Got!FromGraphQL)
                  \union Got!Take({"nonce"}, Got!Either, Got!Number)
                  \union Got!Take({"validUntil"}, Got!Nullable(Got!Either), Got!OrNull(Got!Number))
             M == Got!Take({"memo"}, Got!Text, Got!AsIs)
             N == Got!Inside(<<"feePayer", "body">>, <<"feePayer">>, P)
             m == {"memo"}
             n == {"feePayer"}
             A == Got!Take({"id", "hash"}, Got!Name, Got!AsIs)
             B == Got!failures
             C == Got!Inside(<<"zkappCommand">>, <<>>, M \union N)
             a == {"id", "hash"}
             b == {"failureReason"}
             c == {"zkappCommand"}
             tc == m \union n
  <1>1. Fit(P)
    BY FitSubmittedBody
  <1>2. Fits(M, m, m) /\ Fits(N, n, n) /\ Disjoint(m, n)
    BY <1>1, FitsGot DEF Disjoint
  <1>3. Fits(A, a, a) /\ Fits(B, b, b)
    BY FitsGot, FitsFailures
  <1>4. Disjoint(a, b) /\ Disjoint(a \union b, c) /\ Disjoint(a \union b, tc)
    BY DEF Disjoint
  <1>5. Got!parseZkappCommand = A \union B \union C
    BY DEF Got!parseZkappCommand
  <1> HIDE DEF M, N, m, n
  <1>6. Fits(M \union N, m \union n, m \union n)
    BY <1>2, FitsUnion
  <1>7. Fits(C, c, tc)
    BY <1>6, FitsInside
  <1> HIDE DEF A, B, C, a, b, c, tc
  <1>8. Fits(A \union B \union C, a \union b \union c, a \union b \union tc)
    BY <1>3, <1>4, <1>7, FitsUnion
  <1> QED
    BY <1>5, <1>8, FitsFit

LEMMA FitPooledUserCommand ==
  Fit(Got!Take({"id", "hash", "kind", "from", "to"}, Got!Name, Got!AsIs)
      \union Got!Take({"nonce"}, Got!Either, Got!String)
      \union Got!Take({"amount", "fee"}, Got!Digits, Got!AsIs)
      \union {Got!Rule(<<n, "publicKey">>, <<n>>, Got!Chained(Got!Name), Got!IfTruthy(Got!AsIs)) :
                n \in {"source", "receiver"}}
      \union Got!Take({"memo"}, Got!Nullable(Got!Text), Got!UnlessNull(Got!AsIs))
      \union Got!Take({"failureReason"}, Got!Nullable(Got!Name), Got!UnlessUndefined(Got!AsIs))
      \union Got!Take({"validUntil"}, Got!Nullable(Got!Either),
                      Got!UnlessUndefined(Got!OrNull(Got!String)))
      \union Got!Take({"token", "feeToken"}, Got!Nullable(Got!Name), Got!UnlessNull(Got!AsIs)))
  <1> DEFINE A == Got!Take({"id", "hash", "kind", "from", "to"}, Got!Name, Got!AsIs)
             B == Got!Take({"nonce"}, Got!Either, Got!String)
             C == Got!Take({"amount", "fee"}, Got!Digits, Got!AsIs)
             D == {Got!Rule(<<n, "publicKey">>, <<n>>, Got!Chained(Got!Name),
                            Got!IfTruthy(Got!AsIs)) : n \in {"source", "receiver"}}
             E == Got!Take({"memo"}, Got!Nullable(Got!Text), Got!UnlessNull(Got!AsIs))
             F == Got!Take({"failureReason"}, Got!Nullable(Got!Name), Got!UnlessUndefined(Got!AsIs))
             G == Got!Take({"validUntil"}, Got!Nullable(Got!Either),
                           Got!UnlessUndefined(Got!OrNull(Got!String)))
             H == Got!Take({"token", "feeToken"}, Got!Nullable(Got!Name), Got!UnlessNull(Got!AsIs))
             a == {"id", "hash", "kind", "from", "to"}
             b == {"nonce"}
             c == {"amount", "fee"}
             d == {"source"} \union {"receiver"}
             e == {"memo"}
             f == {"failureReason"}
             g == {"validUntil"}
             h == {"token", "feeToken"}
  <1>1. Fits(D, d, d)
    BY FitsSides
  <1>2. /\ Fits(A, a, a) /\ Fits(B, b, b) /\ Fits(C, c, c) /\ Fits(E, e, e)
        /\ Fits(F, f, f) /\ Fits(G, g, g) /\ Fits(H, h, h)
    BY FitsGot
  <1>3. /\ Disjoint(a, b) /\ Disjoint(a \union b, c) /\ Disjoint(a \union b \union c, d)
        /\ Disjoint(a \union b \union c \union d, e)
        /\ Disjoint(a \union b \union c \union d \union e, f)
        /\ Disjoint(a \union b \union c \union d \union e \union f, g)
        /\ Disjoint(a \union b \union c \union d \union e \union f \union g, h)
    BY DEF Disjoint
  <1> HIDE DEF A, B, C, D, E, F, G, H, a, b, c, d, e, f, g, h
  <1>4. Fits(A \union B \union C \union D \union E, a \union b \union c \union d \union e,
             a \union b \union c \union d \union e)
    BY <1>1, <1>2, <1>3, FitsUnion
  <1>5. Fits(A \union B \union C \union D \union E \union F \union G \union H,
             a \union b \union c \union d \union e \union f \union g \union h,
             a \union b \union c \union d \union e \union f \union g \union h)
    BY <1>2, <1>3, <1>4, FitsUnion
  <1> QED
    BY <1>5, FitsFit DEF A, B, C, D, E, F, G, H

LEMMA FitTracked ==
  Fit(Got!Take({"publicKey"}, Got!Name, Got!AsIs)
      \union {Got!Rule(<<"balance", "total">>, <<"balance">>, Got!Digits, Got!AsIs)})
  <1>1. /\ Fits(Got!Take({"publicKey"}, Got!Name, Got!AsIs), {"publicKey"}, {"publicKey"})
        /\ Fits({Got!Rule(<<"balance", "total">>, <<"balance">>, Got!Digits, Got!AsIs)},
                {"balance"}, {"balance"})
    BY FitsGot
  <1>2. Disjoint({"publicKey"}, {"balance"})
    BY DEF Disjoint
  <1> QED
    BY <1>1, <1>2, FitsUnion, FitsFit

LEMMA TreeLists ==
  /\ Tree(Got!getPeers) /\ Tree(Got!getPooledUserCommands) /\ Tree(Got!getPooledZkappCommands)
  /\ Tree(Got!getSnarkPool) /\ Tree(Got!getTrackedAccounts)
  <1>1. Tree(Got!getPeers)
    BY FitsPeers, FitsFit, TreeElements, OpenHow, OpenWires DEF Got!getPeers
  <1>2. Tree(Got!getPooledUserCommands)
    BY FitPooledUserCommand, TreeElements, OpenHow, OpenWires DEF Got!getPooledUserCommands
  <1>3. Tree(Got!getPooledZkappCommands)
    BY FitSubmittedZkapp, TreeElements, OpenHow, OpenWires DEF Got!getPooledZkappCommands
  <1>4. Tree(Got!getSnarkPool)
    BY FitSnarkWork, TreeElements, OpenHow, OpenWires DEF Got!getSnarkPool
  <1>5. Tree(Got!getTrackedAccounts)
    BY FitTracked, TreeElements, OpenHow, OpenWires DEF Got!getTrackedAccounts
  <1> QED
    BY <1>1, <1>2, <1>3, <1>4, <1>5

LEMMA TreeGenesisConstants == Tree(Got!getGenesisConstants)
  <1> DEFINE A == Got!Take({"genesisTimestamp"}, Got!Name, Got!AsIs)
             B == Got!Take({"coinbase", "accountCreationFee"}, Got!Digits, Got!AsIs)
             a == {"genesisTimestamp"}
             b == {"coinbase", "accountCreationFee"}
  <1>1. Fits(A, a, a) /\ Fits(B, b, b)
    BY FitsGot
  <1>2. Disjoint(a, b)
    BY DEF Disjoint
  <1> HIDE DEF A, B, a, b
  <1>3. Fit(A \union B)
    BY <1>1, <1>2, FitsUnion, FitsFit
  <1> QED
    BY <1>3, TreeGot DEF Got!getGenesisConstants, A, B

\* What is the result itself.
LEMMA TreeReturned ==
  /\ \A n, w, h : Tree(Got!Returned(n, w, h))
  /\ \A m, n, w, h : Tree(Got!Inside(<<m>>, <<>>, Got!Returned(n, w, h)))
  <1>1. ASSUME NEW n, NEW w, NEW h
        PROVE  Tree(Got!Returned(n, w, h))
    BY TreeRule, Paths, GotSame DEF Got!Returned
  <1> QED
    BY <1>1, TreeInside, Paths, GotSame

-----------------------------------------------------------------------------
\* Every table is a tree: commands as sent, and the ITN operations.

LEMMA FitSubmittedCommand == Fit(Got!mapSubmittedCommand)
  <1> DEFINE A == Got!Take({"id", "hash"}, Got!Name, Got!AsIs)
             B == Got!Take({"nonce"}, Got!Either, Got!Number)
             C == Got!Take({"kind"}, Got!Optional(Got!Name), Got!UnlessNull(Got!AsIs))
             D == {Got!Rule(<<n, "publicKey">>, <<n>>, Got!Chained(Got!Name),
                            Got!IfTruthy(Got!AsIs)) : n \in {"source", "receiver"}}
             E == Got!Take({"amount", "fee"}, Got!Optional(Got!Digits), Got!UnlessNull(Got!AsIs))
             F == Got!Take({"memo"}, Got!Optional(Got!Text), Got!UnlessNull(Got!AsIs))
             a == {"id", "hash"}
             b == {"nonce"}
             c == {"kind"}
             d == {"source"} \union {"receiver"}
             e == {"amount", "fee"}
             f == {"memo"}
  <1>1. Fits(D, d, d)
    BY FitsSides
  <1>2. Fits(A, a, a) /\ Fits(B, b, b) /\ Fits(C, c, c) /\ Fits(E, e, e) /\ Fits(F, f, f)
    BY FitsGot
  <1>3. /\ Disjoint(a, b) /\ Disjoint(a \union b, c) /\ Disjoint(a \union b \union c, d)
        /\ Disjoint(a \union b \union c \union d, e)
        /\ Disjoint(a \union b \union c \union d \union e, f)
    BY DEF Disjoint
  <1> HIDE DEF A, B, C, D, E, F, a, b, c, d, e, f
  <1>4. Fits(A \union B \union C \union D, a \union b \union c \union d,
             a \union b \union c \union d)
    BY <1>1, <1>2, <1>3, FitsUnion
  <1>5. Fits(A \union B \union C \union D \union E \union F,
             a \union b \union c \union d \union e \union f,
             a \union b \union c \union d \union e \union f)
    BY <1>2, <1>3, <1>4, FitsUnion
  <1> QED
    BY <1>5, FitsFit DEF Got!mapSubmittedCommand, A, B, C, D, E, F

LEMMA TreeSubmitted ==
  Tree(Got!sendPayment) /\ Tree(Got!sendDelegation) /\ Tree(Got!sendZkapp)
  BY FitSubmittedCommand, FitSubmittedZkapp, TreeGot
  DEF Got!sendPayment, Got!sendDelegation, Got!sendZkapp

LEMMA TreeTexts ==
  /\ Tree(Got!getSyncStatus) /\ Tree(Got!getNetworkId) /\ Tree(Got!getForkConfig)
  /\ Tree(Got!getTransactionStatus) /\ Tree(Got!unlockAccount) /\ Tree(Got!setSnarkWorker)
  /\ Tree(Got!setSnarkWorkFee) /\ Tree(Got!slotsWon) /\ Tree(Got!scheduledTransactions)
  /\ Tree(Got!setZkappCommandLimit) /\ Tree(Got!commitId)
  /\ \A field : Tree(Got!handleOf(field))
  BY TreeReturned
  DEF Got!getSyncStatus, Got!getNetworkId, Got!getForkConfig, Got!getTransactionStatus,
      Got!unlockAccount, Got!setSnarkWorker, Got!setSnarkWorkFee, Got!slotsWon,
      Got!scheduledTransactions, Got!setZkappCommandLimit, Got!commitId, Got!handleOf

LEMMA TreeAuth == Tree(Got!parseAuth)
  <1> DEFINE A == Got!Take({"serverUuid"}, Got!Nullable(Got!Text), Got!Required)
             w == [Got!Either EXCEPT !.odd = @ \union {"-1", "'x'", "null"}]
             B == Got!Take({"signerSequenceNumber", "libp2pPort"}, w, Got!parseUint16)
             C == Got!Take({"peerId"}, Got!Nullable(Got!Text), Got!OrNull(Got!AsIs))
             D == Got!Take({"isBlockProducer"}, Got!Nullable(Got!Flag), Got!Else("false"))
             a == {"serverUuid"}
             b == {"signerSequenceNumber", "libp2pPort"}
             c == {"peerId"}
             d == {"isBlockProducer"}
  <1>1. Fits(A, a, a) /\ Fits(B, b, b) /\ Fits(C, c, c) /\ Fits(D, d, d)
    BY FitsGot
  <1>2. Disjoint(a, b) /\ Disjoint(a \union b, c) /\ Disjoint(a \union b \union c, d)
    BY DEF Disjoint
  <1>3. Got!parseAuth = Got!Within(<<"auth">>, <<>>, Got!Nullable(Got!Object), Got!Required,
          A \union B \union C \union D)
    BY DEF Got!parseAuth
  <1> HIDE DEF A, B, C, D, a, b, c, d
  <1>4. Fits(A \union B \union C \union D, a \union b \union c \union d,
             a \union b \union c \union d)
    BY <1>1, <1>2, FitsUnion
  <1> QED
    BY <1>3, <1>4, FitsFit, TreeGot, OpenHow, OpenWires

LEMMA FitLogItem == Fit(Got!Take({"item"}, Got!Name, Got!AsIs)
                        \union Got!Take({"value"}, Got!Unseen, Got!AsIs))
  <1>1. /\ Fits(Got!Take({"item"}, Got!Name, Got!AsIs), {"item"}, {"item"})
        /\ Fits(Got!Take({"value"}, Got!Unseen, Got!AsIs), {"value"}, {"value"})
        /\ Disjoint({"item"}, {"value"})
    BY FitsGot DEF Disjoint
  <1> QED
    BY <1>1, FitsUnion, FitsFit

LEMMA TreeLogs == Tree(Got!internalLogs)
  <1> DEFINE A == Got!Take({"id"}, Got!Num, Got!AsIs)
             B == Got!Take({"timestamp"}, Got!Name, Got!AsIs)
             C == Got!Take({"message"}, Got!Text, Got!AsIs)
             D == Got!Within(<<"metadata">>, <<"metadata">>, Got!List, Got!AsIs,
                    Got!Take({"item"}, Got!Name, Got!AsIs)
                    \union Got!Take({"value"}, Got!Unseen, Got!AsIs))
             E == Got!Take({"process"}, Got!Nullable(Got!Name), Got!AsIs)
             a == {"id"}
             b == {"timestamp"}
             c == {"message"}
             d == {"metadata"}
             e == {"process"}
  <1>1. Fits(A, a, a) /\ Fits(B, b, b) /\ Fits(C, c, c) /\ Fits(D, d, d) /\ Fits(E, e, e)
    BY FitsGot, OpenHow, OpenWires, FitLogItem
  <1>2. /\ Disjoint(a, b) /\ Disjoint(a \union b, c) /\ Disjoint(a \union b \union c, d)
        /\ Disjoint(a \union b \union c \union d, e)
    BY DEF Disjoint
  <1>3. Got!internalLogs = Got!Elements("internalLogs", Got!List, Got!AsIs,
                                        A \union B \union C \union D \union E)
    BY DEF Got!internalLogs
  <1> HIDE DEF A, B, C, D, E, a, b, c, d, e
  <1>4. Fits(A \union B \union C \union D \union E, a \union b \union c \union d \union e,
             a \union b \union c \union d \union e)
    BY <1>1, <1>2, FitsUnion
  <1> QED
    BY <1>3, <1>4, FitsFit, TreeElements, OpenHow, OpenWires

LEMMA TreeAccounts == Tree(Got!createAccounts)
  <1> DEFINE A == Got!Take({"handle"}, Got!Name, Got!AsIs)
             B == Got!Within(<<"accounts">>, <<"accounts">>, Got!List, Got!AsIs,
                    Got!Take({"publicKey", "privateKey"}, Got!Name, Got!AsIs))
             a == {"handle"}
             b == {"accounts"}
  <1>1. Fits(A, a, a) /\ Fits(B, b, b) /\ Disjoint(a, b)
    BY FitsGot, FitsFit, OpenHow, OpenWires DEF Disjoint
  <1>2. Got!createAccounts = Got!Inside(<<"createAccounts">>, <<>>, A \union B)
    BY DEF Got!createAccounts
  <1> HIDE DEF A, B, a, b
  <1>3. Fit(A \union B)
    BY <1>1, FitsUnion, FitsFit
  <1> QED
    BY <1>2, <1>3, TreeGot

LEMMA TreeQueries == \A name \in DOMAIN Queries : Tree(Queries[name].decoding)
  BY TheQueries, MethodOf, TreeStatus, TreeMetrics, TreeAccount, TreeBestChain, TreeGenesis,
     TreeBlock, TreeLists, TreeGenesisConstants, TreeTexts

LEMMA TreeMutations == \A name \in DOMAIN Mutations : Tree(Mutations[name].decoding)
  BY TheMutations, MethodOf, TreeTexts, TreeSubmitted

LEMMA TreeItn == \A name \in DOMAIN ItnOperations : Tree(ItnOperations[name].decoding)
  BY TheItnOperations, MethodOf, TreeTexts, TreeAuth, TreeLogs, TreeAccounts DEF Handled

\* Every method's decoding is a tree.
LEMMA AllTrees == \A name \in DOMAIN Methods : Tree(Methods[name].decoding)
  BY TreeQueries, TreeMutations, TreeItn DEF Methods

-----------------------------------------------------------------------------
\* Documents and tables: what a method reads of an answer, its document selects.

\* A selection has every field that a table reads, or one beneath it.
Covers(S, R) ==
  /\ \E q \in S : Path(q)
  /\ \A r \in R : \E q \in S : Path(q) /\ (r.from = q \/ r.from \in Above(q))

\* A selection that has every field of a set.
Has(S, N) == N # {} /\ \A n \in N : <<n>> \in S

LEMMA HasLeaf ==
  /\ \A N, n : n \in N => <<n>> \in Leaves(N)
  /\ \A S, T, N : Has(S, N) \/ Has(T, N) => Has(S \union T, N)
  BY DEF Leaves, Has

LEMMA CoversMore ==
  /\ \A S, A, B : Covers(S, A) /\ Covers(S, B) => Covers(S, A \union B)
  /\ \A S, T, R : Covers(S, R) => Covers(S \union T, R) /\ Covers(T \union S, R)
  BY DEF Covers

LEMMA CoversTake ==
  ASSUME NEW S, NEW N, NEW w, NEW h, Has(S, N)
  PROVE  Covers(S, Got!Take(N, w, h))
  <1>1. ASSUME NEW r \in Got!Take(N, w, h)
        PROVE  \E n \in N : r.from = <<n>>
    BY GotSame, Shapes
  <1>2. \A n \in N : Path(<<n>>) /\ <<n>> \in S
    BY Paths DEF Has
  <1>3. ASSUME NEW r \in Got!Take(N, w, h)
        PROVE  \E q \in S : Path(q) /\ r.from = q
    BY <1>1, <1>2
  <1>4. \E n : n \in N
    BY DEF Has
  <1> QED
    BY <1>2, <1>3, <1>4 DEF Covers

LEMMA CoversRule ==
  ASSUME NEW S, NEW a \in S, Path(a), NEW b, NEW w, NEW h
  PROVE  Covers(S, {Got!Rule(a, b, w, h)})
  BY GotSame DEF Covers, Rule

\* Selections nest as tables do.
LEMMA CoversInside ==
  ASSUME NEW S, NEW R, Covers(S, R), NEW f, NEW b, NEW w, NEW h
  PROVE  /\ Covers(Under(f, S), Inside(<<f>>, b, R))
         /\ Covers(Under(f, S), Within(<<f>>, b, w, h, R))
  <1> DEFINE a == <<f>>
             U == Under(f, S)
             I == Inside(a, b, R)
  <1>1. Path(a) /\ a # <<>>
    BY Paths
  <1>2. U = {Join(a, p) : p \in S}
    BY UnderIs
  <1>3. ASSUME NEW r \in I PROVE \E q \in R : r.from = Join(a, q.from)
    BY InsidePaths
  <1>4. Within(a, b, w, h, R) = {Rule(a, b, w, h)} \union I /\ Rule(a, b, w, h).from = a
    BY DEF Within, Rule
  <1> HIDE DEF a, U, I
  <1>5. PICK x \in S : Path(x)
    BY DEF Covers
  <1>6. Join(a, x) \in U /\ Path(Join(a, x))
    BY <1>1, <1>2, <1>5, Joins
  <1>7. ASSUME NEW r \in I
        PROVE  \E q \in U : Path(q) /\ (r.from = q \/ r.from \in Above(q))
    <2>1. PICK s \in R : r.from = Join(a, s.from)
      BY <1>3
    <2>2. PICK q \in S : Path(q) /\ (s.from = q \/ s.from \in Above(q))
      BY DEF Covers
    <2>3. Join(a, q) \in U /\ Path(Join(a, q))
      BY <1>1, <1>2, <2>2, Joins
    <2>4. CASE s.from = q
      BY <2>1, <2>3, <2>4
    <2>5. CASE s.from \in Above(q)
      <3>1. Path(s.from)
        BY <2>2, <2>5, AboveIs
      <3>2. Join(a, s.from) \in Above(Join(a, q))
        BY <1>1, <2>2, <2>5, <3>1, JoinsAlike
      <3> QED
        BY <2>1, <2>3, <3>2
    <2> QED
      BY <2>2, <2>4, <2>5
  <1>8. \E q \in U : Path(q) /\ (a = q \/ a \in Above(q))
    <2>1. CASE x = <<>>
      <3>1. Join(a, x) = a
        BY <2>1, <1>1 DEF Join, Path
      <3> QED
        BY <3>1, <1>6
    <2>2. CASE x # <<>>
      BY <2>2, <1>1, <1>5, <1>6, Joins
    <2> QED
      BY <2>1, <2>2
  <1>9. Covers(U, I)
    BY <1>6, <1>7 DEF Covers
  <1>10. Covers(U, Within(a, b, w, h, R))
    BY <1>4, <1>6, <1>7, <1>8 DEF Covers
  <1> QED
    BY <1>9, <1>10 DEF U, I, a

LEMMA CoversSame ==
  ASSUME NEW S, NEW A, NEW B, Covers(S, B), \A r \in A : \E q \in B : r.from = q.from
  PROVE  Covers(S, A)
  BY DEF Covers

LEMMA CoversTwice ==
  ASSUME NEW S, NEW R, Covers(S, R), NEW m, NEW k, NEW b
  PROVE  Covers(Under(m, Under(k, S)), Inside(<<m, k>>, b, R))
  <1> DEFINE K == Inside(<<k>>, b, R)
             M == Inside(<<m>>, b, K)
  <1>1. Covers(Under(m, Under(k, S)), M)
    BY CoversInside
  <1>2. ASSUME NEW p, Path(p)
        PROVE  Join(<<m, k>>, p) = Join(<<m>>, Join(<<k>>, p))
    <2>1. Path(<<m>>) /\ Path(<<k>>) /\ <<m, k>> = <<m>> \o <<k>>
      BY Paths, Pair
    <2> DEFINE x == <<m>>
               y == <<k>>
    <2> HIDE DEF x, y
    <2>2. PICK T : x \in Seq(T) /\ y \in Seq(T)
      BY <2>1, Common DEF x, y
    <2>3. PICK W : p \in Seq(W)
      BY <1>2 DEF Path
    <2>4. x \in Seq(T \union W) /\ y \in Seq(T \union W) /\ p \in Seq(T \union W)
      <3>1. \A A, B : A \subseteq B => Seq(A) \subseteq Seq(B)
        OBVIOUS
      <3> QED
        BY <3>1, <2>2, <2>3
    <2>5. (x \o y) \o p = x \o (y \o p)
      BY <2>4, ConcatAssociative
    <2> QED
      BY <2>1, <2>5 DEF Join, x, y
  <1>3. ASSUME NEW r \in Inside(<<m, k>>, b, R)
        PROVE  \E q \in M : r.from = q.from
    <2>1. PICK q \in R : r.from = Join(<<m, k>>, q.from)
      BY InsidePaths
    <2>2. PICK p \in S : Path(p) /\ (q.from = p \/ q.from \in Above(p))
      BY DEF Covers
    <2>3. Path(q.from)
      BY <2>2, AboveIs
    <2>4. r.from = Join(<<m>>, Join(<<k>>, q.from))
      BY <1>2, <2>1, <2>3
    <2>5. ASSUME NEW a, NEW c, NEW Q, NEW u \in Q
          PROVE  \E v \in Inside(a, c, Q) : v.from = Join(a, u.from)
      <3> DEFINE v == Rule(a \o u.from, c \o u.to, u.wire, u.how)
      <3>1. v \in Inside(a, c, Q)
        BY DEF Inside
      <3>2. v.from = Join(a, u.from)
        BY DEF Rule, Join
      <3> QED
        BY <3>1, <3>2
    <2>6. PICK v \in K : v.from = Join(<<k>>, q.from)
      BY <2>5
    <2>7. PICK u \in M : u.from = Join(<<m>>, v.from)
      BY <2>5
    <2> QED
      BY <2>4, <2>6, <2>7
  <1> QED
    BY <1>1, <1>3, CoversSame

\* The same of the tables of answers.
LEMMA CoversGot ==
  /\ \A S, N, w, h : Has(S, N) => Covers(S, Got!Take(N, w, h))
  /\ \A S, m, n, w, h : <<m>> \in S => Covers(S, Got!Move(m, n, w, h))
  /\ \A S, m, b, w, h : <<m>> \in S => Covers(S, {Got!Rule(<<m>>, b, w, h)})
  /\ \A S, m, k, b, w, h : <<m, k>> \in S => Covers(S, {Got!Rule(<<m, k>>, b, w, h)})
  /\ \A S, f, b, R : Covers(S, R) => Covers(Under(f, S), Got!Inside(<<f>>, b, R))
  /\ \A S, m, k, b, R : Covers(S, R) => Covers(Under(m, Under(k, S)), Got!Inside(<<m, k>>, b, R))
  /\ \A S, f, b, w, h, R : Covers(S, R) => Covers(Under(f, S), Got!Within(<<f>>, b, w, h, R))
  <1>1. \A S, N, w, h : Has(S, N) => Covers(S, Got!Take(N, w, h))
    BY CoversTake
  <1>2. \A S, m, b, w, h : <<m>> \in S => Covers(S, {Got!Rule(<<m>>, b, w, h)})
    BY CoversRule, Paths
  <1>3. \A S, m, k, b, w, h : <<m, k>> \in S => Covers(S, {Got!Rule(<<m, k>>, b, w, h)})
    BY CoversRule, Paths
  <1>4. \A S, m, n, w, h : <<m>> \in S => Covers(S, Got!Move(m, n, w, h))
    BY <1>2, GotSame DEF Move
  <1>5. \A S, f, b, R : Covers(S, R) => Covers(Under(f, S), Got!Inside(<<f>>, b, R))
    BY CoversInside, GotSame
  <1>6. \A S, m, k, b, R : Covers(S, R) =>
          Covers(Under(m, Under(k, S)), Got!Inside(<<m, k>>, b, R))
    BY CoversTwice, GotSame
  <1>7. \A S, f, b, w, h, R : Covers(S, R) => Covers(Under(f, S), Got!Within(<<f>>, b, w, h, R))
    BY CoversInside, GotSame
  <1> QED
    BY <1>1, <1>2, <1>3, <1>4, <1>5, <1>6, <1>7

LEMMA CoversWider == \A S, T, R : S \subseteq T /\ Covers(S, R) => Covers(T, R)
  BY DEF Covers

LEMMA UnderPair ==
  /\ \A m, k, T : <<k>> \in T => <<m, k>> \in Under(m, T)
  /\ \A m, k, N, T : m \in N /\ <<k>> \in T => <<m, k>> \in Each(N, T)
  <1>1. ASSUME NEW m, NEW k, NEW T, <<k>> \in T
        PROVE  <<m, k>> \in Under(m, T)
    BY <1>1, Pair DEF Under
  <1> QED
    BY <1>1 DEF Each

\* A field that is passed on with everything in it.
LEMMA CoversWhole ==
  ASSUME NEW T, NEW F, Grove(T, F), T # {}, NEW f
  PROVE  Covers(Under(f, T), Got!Whole(<<f>>, <<f>>, T))
  <1> DEFINE R == {Rule(p, p, Unseen, AsIs) : p \in T}
  <1>1. ASSUME NEW r \in R PROVE \E p \in T : r.from = p
    BY DEF Rule
  <1> HIDE DEF R
  <1>2. Covers(T, R)
    BY <1>1 DEF Covers, Grove
  <1>3. Covers(Under(f, T), Inside(<<f>>, <<f>>, R))
    BY <1>2, CoversInside
  <1> QED
    BY <1>3, WholeIs, GotSame DEF R

LEMMA CoversSides ==
  ASSUME NEW S, NEW w, NEW h, <<"source", "publicKey">> \in S, <<"receiver", "publicKey">> \in S
  PROVE  Covers(S, {Got!Rule(<<n, "publicKey">>, <<n>>, w, h) : n \in {"source", "receiver"}})
  <1> DEFINE A == {Got!Rule(<<"source", "publicKey">>, <<"source">>, w, h)}
             B == {Got!Rule(<<"receiver", "publicKey">>, <<"receiver">>, w, h)}
  <1>1. {Got!Rule(<<n, "publicKey">>, <<n>>, w, h) : n \in {"source", "receiver"}} = A \union B
    OBVIOUS
  <1>2. Covers(S, A) /\ Covers(S, B)
    BY CoversGot
  <1> HIDE DEF A, B
  <1> QED
    BY <1>1, <1>2, CoversMore

-----------------------------------------------------------------------------
\* Every document selects what its method reads: status, accounts and blocks.

LEMMA CoversPeers == Covers(Peer, Got!getDaemonPeers)
  <1>1. Has(Peer, {"peerId", "host"}) /\ <<"libp2pPort">> \in Peer
    BY HasLeaf DEF Has, Peer
  <1> QED
    BY <1>1, CoversGot, CoversMore DEF Got!getDaemonPeers

LEMMA CoversPorts ==
  Covers(Leaves({"externalIp", "bindIp", "clientPort", "libp2pPort"}) \union Under("peer", Peer),
         Got!Take({"externalIp", "bindIp"}, Got!Name, Got!AsIs)
           \union Got!Take({"clientPort", "libp2pPort"}, Got!Num, Got!AsIs)
           \union Got!Within(<<"peer">>, <<"peer">>, Got!Nullable(Got!Object),
           Got!UnlessNull(Got!AsIs), Got!getDaemonPeers))
  <1> DEFINE M == Under("peer", Peer)
             S == Leaves({"externalIp", "bindIp", "clientPort", "libp2pPort"}) \union M
             A == Got!Take({"externalIp", "bindIp"}, Got!Name, Got!AsIs)
             B == Got!Take({"clientPort", "libp2pPort"}, Got!Num, Got!AsIs)
             C == Got!Within(<<"peer">>, <<"peer">>, Got!Nullable(Got!Object),
                    Got!UnlessNull(Got!AsIs), Got!getDaemonPeers)
  <1>1. Has(S, {"externalIp", "bindIp"}) /\ Has(S, {"clientPort", "libp2pPort"})
    BY HasLeaf, UnderPair DEF Has
  <1>2. M \subseteq S
    OBVIOUS
  <1>3. Covers(M, C)
    BY CoversPeers, CoversGot
  <1> HIDE DEF M, S
  <1>4. Covers(S, A) /\ Covers(S, B) /\ Covers(S, C)
    BY <1>1, <1>2, <1>3, CoversGot, CoversWider
  <1> HIDE DEF A, B, C
  <1>5. Covers(S, A \union B \union C)
    BY <1>4, CoversMore
  <1> QED
    BY <1>5 DEF M, S, A, B, C

LEMMA CoversTime ==
  Covers(Leaves({"epoch", "slot", "globalSlot", "startTime", "endTime"}),
         Got!Take({"epoch", "slot", "globalSlot"}, Got!Either, Got!Number)
           \union Got!Take({"startTime", "endTime"}, Got!Digits, Got!String))
  <1> DEFINE S == Leaves({"epoch", "slot", "globalSlot", "startTime", "endTime"})
             A == Got!Take({"epoch", "slot", "globalSlot"}, Got!Either, Got!Number)
             B == Got!Take({"startTime", "endTime"}, Got!Digits, Got!String)
  <1>1. Has(S, {"epoch", "slot", "globalSlot"}) /\ Has(S, {"startTime", "endTime"})
    BY HasLeaf, UnderPair DEF Has
  <1> HIDE DEF S
  <1>2. Covers(S, A) /\ Covers(S, B)
    BY <1>1, CoversGot, CoversWider
  <1> HIDE DEF A, B
  <1>3. Covers(S, A \union B)
    BY <1>2, CoversMore
  <1> QED
    BY <1>3 DEF S, A, B

LEMMA CoversStatus == Covers(QUERY_DAEMON_STATUS.selection, Got!getDaemonStatus)
  <1> DEFINE M == Under("consensusTimeNow", Leaves({"epoch", "slot", "globalSlot", "startTime",
             "endTime"}))
             N == Under("peers", Peer)
             O == Under("addrsAndPorts", Leaves({"externalIp", "bindIp", "clientPort",
                    "libp2pPort"}) \union Under("peer", Peer))
             S == Leaves({"syncStatus", "blockchainLength", "highestBlockLengthReceived",
                    "highestUnvalidatedBlockLengthReceived", "uptimeSecs", "stateHash",
                    "commitId", "numAccounts", "ledgerMerkleRoot", "chainId", "catchupStatus",
                    "blockProductionKeys", "coinbaseReceiver",
                    "globalSlotSinceGenesisBestTip"}) \union M \union N \union O
             A == Got!Take({"syncStatus", "stateHash", "commitId"}, Got!Name, Got!AsIs)
             B == Got!Within(<<"peers">>, <<"peers">>, Got!Nullable(Got!List), Got!Else("[]"),
                    Got!getDaemonPeers)
             C == Got!Take({"blockchainLength", "highestBlockLengthReceived", "uptimeSecs",
                    "numAccounts", "highestUnvalidatedBlockLengthReceived"},
                    Got!Nullable(Got!Num), Got!UnlessNull(Got!AsIs))
             D == Got!Take({"ledgerMerkleRoot", "chainId", "coinbaseReceiver"},
                    Got!Nullable(Got!Name), Got!UnlessNull(Got!AsIs))
             E == Got!Take({"catchupStatus", "blockProductionKeys"}, Got!Nullable(Got!List),
                    Got!UnlessNull(Got!AsIs))
             F == Got!Take({"globalSlotSinceGenesisBestTip"}, Got!Nullable(Got!Either),
                    Got!UnlessNull(Got!Number))
             G == Got!Within(<<"addrsAndPorts">>, <<"addrsAndPorts">>, Got!Nullable(Got!Object),
                    Got!UnlessNull(Got!AsIs), Got!Take({"externalIp", "bindIp"}, Got!Name,
                    Got!AsIs)
           \union Got!Take({"clientPort", "libp2pPort"}, Got!Num, Got!AsIs)
           \union Got!Within(<<"peer">>, <<"peer">>, Got!Nullable(Got!Object),
           Got!UnlessNull(Got!AsIs), Got!getDaemonPeers))
             H == Got!Within(<<"consensusTimeNow">>, <<"consensusTimeNow">>,
                    Got!Nullable(Got!Object), Got!UnlessNull(Got!AsIs), Got!Take({"epoch",
                    "slot", "globalSlot"}, Got!Either, Got!Number)
           \union Got!Take({"startTime", "endTime"}, Got!Digits, Got!String))
  <1>1. /\ Has(S, {"syncStatus", "stateHash", "commitId"})
        /\ Has(S, {"blockchainLength", "highestBlockLengthReceived", "uptimeSecs", "numAccounts",
           "highestUnvalidatedBlockLengthReceived"})
        /\ Has(S, {"ledgerMerkleRoot", "chainId", "coinbaseReceiver"})
        /\ Has(S, {"catchupStatus", "blockProductionKeys"})
        /\ Has(S, {"globalSlotSinceGenesisBestTip"})
    BY HasLeaf, UnderPair DEF Has
  <1>2. N \subseteq S /\ O \subseteq S /\ M \subseteq S
    OBVIOUS
  <1>3. Covers(N, B) /\ Covers(O, G) /\ Covers(M, H)
    BY CoversPeers, CoversPorts, CoversTime, CoversGot
  <1> HIDE DEF M, N, O, S
  <1>4. /\ Covers(S, A) /\ Covers(S, B) /\ Covers(S, C) /\ Covers(S, D) /\ Covers(S, E)
        /\ Covers(S, F) /\ Covers(S, G) /\ Covers(S, H)
    BY <1>1, <1>2, <1>3, CoversGot, CoversWider
  <1> HIDE DEF A, B, C, D, E, F, G, H
  <1>5. Covers(S, A \union B \union C \union D \union E \union F \union G \union H)
    BY <1>4, CoversMore
  <1>6. Got!getDaemonStatus = Got!Inside(<<"daemonStatus">>, <<>>, A \union B \union C
        \union D \union E \union F \union G \union H)
    BY DEF Got!getDaemonStatus, A, B, C, D, E, F, G, H
  <1>7. QUERY_DAEMON_STATUS.selection = Under("daemonStatus", S)
    BY DEF QUERY_DAEMON_STATUS, Plain, Document, M, N, O, S
  <1> QED
    BY <1>5, <1>6, <1>7, CoversGot

LEMMA CoversBalance ==
  Covers(Leaves({"total", "liquid", "locked", "blockHeight"}),
         Got!Take({"total"}, Got!Digits, Got!FromGraphQL)
           \union Got!Take({"liquid", "locked"}, Got!Nullable(Got!Digits),
           Got!IfTruthy(Got!FromGraphQL))
           \union Got!Take({"blockHeight"}, Got!Nullable(Got!Either), Got!UnlessNull(Got!Number)))
  <1> DEFINE S == Leaves({"total", "liquid", "locked", "blockHeight"})
             A == Got!Take({"total"}, Got!Digits, Got!FromGraphQL)
             B == Got!Take({"liquid", "locked"}, Got!Nullable(Got!Digits),
                    Got!IfTruthy(Got!FromGraphQL))
             C == Got!Take({"blockHeight"}, Got!Nullable(Got!Either), Got!UnlessNull(Got!Number))
  <1>1. Has(S, {"total"}) /\ Has(S, {"liquid", "locked"}) /\ Has(S, {"blockHeight"})
    BY HasLeaf, UnderPair DEF Has
  <1> HIDE DEF S
  <1>2. Covers(S, A) /\ Covers(S, B) /\ Covers(S, C)
    BY <1>1, CoversGot, CoversWider
  <1> HIDE DEF A, B, C
  <1>3. Covers(S, A \union B \union C)
    BY <1>2, CoversMore
  <1> QED
    BY <1>3 DEF S, A, B, C

LEMMA CoversTiming == Covers(Under("timing", Timing), Got!parseTiming)
  <1> DEFINE a == {"initialMinimumBalance", "cliffTime", "cliffAmount", "vestingPeriod",
                   "vestingIncrement"}
  <1>1. Has(Timing, a)
    BY HasLeaf DEF Has, Timing
  <1> HIDE DEF a
  <1>2. Covers(Timing, Got!Take(a, Got!Nullable(Got!Digits), Got!Else("''")))
    BY <1>1, CoversGot
  <1> QED
    BY <1>2, CoversGot DEF Got!parseTiming, a

LEMMA CoversPermissions ==
  Covers(Under("permissions", Permissions),
         {Got!Rule(<<"permissions">>, <<"permissions">>, Got!Nullable(Got!Object),
                   Got!UnlessUndefined(Got!AsIs))}
         \union Got!Whole(<<"permissions">>, <<"permissions">>, Got!Permissions))
  <1> DEFINE R == {Rule(p, p, Unseen, AsIs) : p \in Permissions}
             a == <<"permissions">>
             w == Got!Nullable(Got!Object)
             h == Got!UnlessUndefined(Got!AsIs)
  <1>1. ASSUME NEW r \in R PROVE \E p \in Permissions : r.from = p
    BY DEF Rule
  <1>2. Permissions # {}
    BY DEF Permissions, Leaves
  <1>3. Got!Whole(a, a, Got!Permissions) = Inside(a, a, R)
    BY WholeIs, GotSame, GotPaths
  <1>4. {Got!Rule(a, a, w, h)} \union Inside(a, a, R) = Got!Within(a, a, w, h, R)
    BY GotSame DEF Within
  <1> HIDE DEF R
  <1>5. Covers(Permissions, R)
    BY <1>1, <1>2, GrovePermissions DEF Covers, Grove
  <1>6. Covers(Under("permissions", Permissions), Got!Within(a, a, w, h, R))
    BY <1>5, CoversGot
  <1> QED
    BY <1>3, <1>4, <1>6

LEMMA CoversAccount == Covers(QUERY_ACCOUNT.selection, Got!getAccount)
  <1> DEFINE K == Under("balance", Leaves({"total", "liquid", "locked", "blockHeight"}))
             L == Under("timing", Timing)
             M == Under("permissions", Permissions)
             S == Leaves({"publicKey", "nonce", "delegate", "tokenId", "tokenSymbol",
                    "votingFor", "receiptChainHash", "zkappState", "provedState",
                    "zkappUri"}) \union K \union L \union M
             A == Got!Take({"publicKey", "delegate", "tokenId"}, Got!Name, Got!AsIs)
             B == Got!Take({"nonce"}, Got!Either, Got!Number)
             C == Got!Inside(<<"balance">>, <<"balance">>, Got!Take({"total"}, Got!Digits,
                    Got!FromGraphQL)
           \union Got!Take({"liquid", "locked"}, Got!Nullable(Got!Digits),
           Got!IfTruthy(Got!FromGraphQL))
           \union Got!Take({"blockHeight"}, Got!Nullable(Got!Either), Got!UnlessNull(Got!Number)))
             D == Got!Take({"tokenSymbol"}, Got!Nullable(Got!Text), Got!UnlessNull(Got!AsIs))
             E == Got!Take({"votingFor", "receiptChainHash", "zkappUri"}, Got!Nullable(Got!Name),
                    Got!UnlessUndefined(Got!AsIs))
             F == Got!Take({"zkappState"}, Got!Nullable(Got!List), Got!UnlessUndefined(Got!AsIs))
             G == Got!Take({"provedState"}, Got!Nullable(Got!Flag), Got!UnlessUndefined(Got!AsIs))
             H == Got!parseTiming
             I == {Got!Rule(<<"permissions">>, <<"permissions">>, Got!Nullable(Got!Object),
                    Got!UnlessUndefined(Got!AsIs))}
             \union Got!Whole(<<"permissions">>, <<"permissions">>, Got!Permissions)
  <1>1. /\ Has(S, {"publicKey", "delegate", "tokenId"}) /\ Has(S, {"nonce"})
        /\ Has(S, {"tokenSymbol"})
        /\ Has(S, {"votingFor", "receiptChainHash", "zkappUri"}) /\ Has(S, {"zkappState"})
        /\ Has(S, {"provedState"})
    BY HasLeaf, UnderPair DEF Has
  <1>2. K \subseteq S /\ L \subseteq S /\ M \subseteq S
    OBVIOUS
  <1>3. Covers(K, C) /\ Covers(L, H) /\ Covers(M, I)
    BY CoversBalance, CoversTiming, CoversPermissions, CoversGot
  <1> HIDE DEF K, L, M, S
  <1>4. /\ Covers(S, A) /\ Covers(S, B) /\ Covers(S, C) /\ Covers(S, D) /\ Covers(S, E)
        /\ Covers(S, F) /\ Covers(S, G) /\ Covers(S, H) /\ Covers(S, I)
    BY <1>1, <1>2, <1>3, CoversGot, CoversWider
  <1> HIDE DEF A, B, C, D, E, F, G, H, I
  <1>5. Covers(S, A \union B \union C \union D \union E \union F \union G \union H \union I)
    BY <1>4, CoversMore
  <1>6. Got!getAccount = Got!Within(<<"account">>, <<>>, Got!Nullable(Got!Object), Got!Required,
        A \union B \union C \union D \union E \union F \union G \union H \union I)
    BY DEF Got!getAccount, A, B, C, D, E, F, G, H, I
  <1>7. QUERY_ACCOUNT.selection = Under("account", S)
    BY DEF QUERY_ACCOUNT, Document, K, L, M, S
  <1> QED
    BY <1>5, <1>6, <1>7, CoversGot

LEMMA CoversFailure ==
  Covers(Leaves({"index", "failures"}),
         Got!Take({"index"}, Got!Nullable(Got!Either), Got!OrNull(Got!Number))
           \union Got!Take({"failures"}, Got!List, Got!AsIs))
  <1> DEFINE S == Leaves({"index", "failures"})
             A == Got!Take({"index"}, Got!Nullable(Got!Either), Got!OrNull(Got!Number))
             B == Got!Take({"failures"}, Got!List, Got!AsIs)
  <1>1. Has(S, {"index"}) /\ Has(S, {"failures"})
    BY HasLeaf, UnderPair DEF Has
  <1> HIDE DEF S
  <1>2. Covers(S, A) /\ Covers(S, B)
    BY <1>1, CoversGot, CoversWider
  <1> HIDE DEF A, B
  <1>3. Covers(S, A \union B)
    BY <1>2, CoversMore
  <1> QED
    BY <1>3 DEF S, A, B

LEMMA CoversFailures ==
  Covers(Under("failureReason", Leaves({"index", "failures"})), Got!failures)
  BY CoversFailure, CoversGot DEF Got!failures

LEMMA CoversSnarkWork == Covers(Leaves({"prover", "fee", "workIds"}), Got!snarkWork)
  <1> DEFINE S == Leaves({"prover", "fee", "workIds"})
             A == Got!Take({"prover"}, Got!Name, Got!AsIs)
             B == Got!Take({"fee"}, Got!Digits, Got!FromGraphQL)
             C == Got!Take({"workIds"}, Got!Either, Got!Number)
  <1>1. Has(S, {"prover"}) /\ Has(S, {"fee"}) /\ Has(S, {"workIds"})
    BY HasLeaf, UnderPair DEF Has
  <1> HIDE DEF S
  <1>2. Covers(S, A) /\ Covers(S, B) /\ Covers(S, C)
    BY <1>1, CoversGot, CoversWider
  <1> HIDE DEF A, B, C
  <1>3. Covers(S, A \union B \union C)
    BY <1>2, CoversMore
  <1> QED
    BY <1>3 DEF Got!snarkWork, S, A, B, C

LEMMA CoversUserCommands ==
  Covers(Leaves({"id", "hash", "kind", "nonce", "amount", "fee", "memo", "failureReason"})
  \union Each({"source", "receiver"}, {<<"publicKey">>}),
         Got!userCommands)
  <1> DEFINE S == Leaves({"id", "hash", "kind", "nonce", "amount", "fee", "memo",
             "failureReason"}) \union Each({"source", "receiver"}, {<<"publicKey">>})
             A == Got!Take({"id", "hash", "kind"}, Got!Name, Got!AsIs)
             B == Got!Take({"nonce"}, Got!Either, Got!String)
             C == {Got!Rule(<<n, "publicKey">>, <<n>>, Got!Name, Got!AsIs) : n \in {"source",
                    "receiver"}}
             D == Got!Take({"amount", "fee"}, Got!Digits, Got!AsIs)
             E == Got!Take({"memo"}, Got!Text, Got!AsIs)
             F == Got!Take({"failureReason"}, Got!Nullable(Got!Name), Got!AsIs)
  <1>1. /\ Has(S, {"id", "hash", "kind"}) /\ Has(S, {"nonce"})
        /\ <<"source", "publicKey">> \in S /\ <<"receiver", "publicKey">> \in S
        /\ Has(S, {"amount", "fee"}) /\ Has(S, {"memo"}) /\ Has(S, {"failureReason"})
    BY HasLeaf, UnderPair DEF Has
  <1>2. Covers(S, C)
    BY <1>1, CoversSides
  <1> HIDE DEF S
  <1>3. /\ Covers(S, A) /\ Covers(S, B) /\ Covers(S, C) /\ Covers(S, D) /\ Covers(S, E)
        /\ Covers(S, F)
    BY <1>1, <1>2, CoversGot, CoversWider
  <1> HIDE DEF A, B, C, D, E, F
  <1>4. Covers(S, A \union B \union C \union D \union E \union F)
    BY <1>3, CoversMore
  <1> QED
    BY <1>4 DEF Got!userCommands, S, A, B, C, D, E, F

LEMMA CoversPayerBody ==
  Covers(FeePayer,
         Got!Take({"publicKey"}, Got!Name, Got!AsIs)
           \union Got!Take({"fee"}, Got!Digits, Got!AsIs)
           \union Got!Take({"nonce"}, Got!Either, Got!String)
           \union Got!Take({"validUntil"}, Got!Nullable(Got!Either), Got!OrNull(Got!String)))
  <1> DEFINE S == Leaves({"publicKey", "fee", "nonce", "validUntil"})
             A == Got!Take({"publicKey"}, Got!Name, Got!AsIs)
             B == Got!Take({"fee"}, Got!Digits, Got!AsIs)
             C == Got!Take({"nonce"}, Got!Either, Got!String)
             D == Got!Take({"validUntil"}, Got!Nullable(Got!Either), Got!OrNull(Got!String))
  <1>1. /\ Has(S, {"publicKey"}) /\ Has(S, {"fee"}) /\ Has(S, {"nonce"})
        /\ Has(S, {"validUntil"})
    BY HasLeaf, UnderPair DEF Has
  <1> HIDE DEF S
  <1>2. Covers(S, A) /\ Covers(S, B) /\ Covers(S, C) /\ Covers(S, D)
    BY <1>1, CoversGot, CoversWider
  <1> HIDE DEF A, B, C, D
  <1>3. Covers(S, A \union B \union C \union D)
    BY <1>2, CoversMore
  <1> QED
    BY <1>3 DEF FeePayer, S, A, B, C, D

LEMMA CoversPayer ==
  Covers({<<"authorization">>} \union Under("body", FeePayer),
         Got!Take({"authorization"}, Got!Name, Got!AsIs)
           \union Got!Inside(<<"body">>, <<"body">>, Got!Take({"publicKey"}, Got!Name, Got!AsIs)
           \union Got!Take({"fee"}, Got!Digits, Got!AsIs)
           \union Got!Take({"nonce"}, Got!Either, Got!String)
           \union Got!Take({"validUntil"}, Got!Nullable(Got!Either), Got!OrNull(Got!String))))
  <1> DEFINE M == Under("body", FeePayer)
             S == {<<"authorization">>} \union M
             A == Got!Take({"authorization"}, Got!Name, Got!AsIs)
             B == Got!Inside(<<"body">>, <<"body">>, Got!Take({"publicKey"}, Got!Name, Got!AsIs)
           \union Got!Take({"fee"}, Got!Digits, Got!AsIs)
           \union Got!Take({"nonce"}, Got!Either, Got!String)
           \union Got!Take({"validUntil"}, Got!Nullable(Got!Either), Got!OrNull(Got!String)))
  <1>1. Has(S, {"authorization"})
    BY HasLeaf, UnderPair DEF Has
  <1>2. M \subseteq S
    OBVIOUS
  <1>3. Covers(M, B)
    BY CoversPayerBody, CoversGot
  <1> HIDE DEF M, S
  <1>4. Covers(S, A) /\ Covers(S, B)
    BY <1>1, <1>2, <1>3, CoversGot, CoversWider
  <1> HIDE DEF A, B
  <1>5. Covers(S, A \union B)
    BY <1>4, CoversMore
  <1> QED
    BY <1>5 DEF M, S, A, B

LEMMA CoversUpdates ==
  Covers(Under("accountUpdates", AccountUpdates),
         Got!Whole(<<"accountUpdates">>, <<"accountUpdates">>, Got!AccountUpdates))
  <1>1. <<"authorization", "proof">> \in AccountUpdates
    BY UnderPair, HasLeaf DEF AccountUpdates
  <1> QED
    BY <1>1, CoversWhole, GroveUpdates, GotPaths

LEMMA CoversZkappCommand ==
  Covers({<<"memo">>} \union Under("feePayer", {<<"authorization">>} \union Under("body",
  FeePayer)) \union Under("accountUpdates", AccountUpdates),
         Got!Take({"memo"}, Got!Text, Got!AsIs)
           \union Got!Inside(<<"feePayer">>, <<"feePayer">>, Got!Take({"authorization"},
           Got!Name, Got!AsIs)
           \union Got!Inside(<<"body">>, <<"body">>, Got!Take({"publicKey"}, Got!Name, Got!AsIs)
           \union Got!Take({"fee"}, Got!Digits, Got!AsIs)
           \union Got!Take({"nonce"}, Got!Either, Got!String)
           \union Got!Take({"validUntil"}, Got!Nullable(Got!Either), Got!OrNull(Got!String))))
           \union Got!Whole(<<"accountUpdates">>, <<"accountUpdates">>, Got!AccountUpdates))
  <1> DEFINE M == Under("feePayer", {<<"authorization">>} \union Under("body", FeePayer))
             N == Under("accountUpdates", AccountUpdates)
             S == {<<"memo">>} \union M \union N
             A == Got!Take({"memo"}, Got!Text, Got!AsIs)
             B == Got!Inside(<<"feePayer">>, <<"feePayer">>, Got!Take({"authorization"},
                    Got!Name, Got!AsIs)
           \union Got!Inside(<<"body">>, <<"body">>, Got!Take({"publicKey"}, Got!Name, Got!AsIs)
           \union Got!Take({"fee"}, Got!Digits, Got!AsIs)
           \union Got!Take({"nonce"}, Got!Either, Got!String)
           \union Got!Take({"validUntil"}, Got!Nullable(Got!Either), Got!OrNull(Got!String))))
             C == Got!Whole(<<"accountUpdates">>, <<"accountUpdates">>, Got!AccountUpdates)
  <1>1. Has(S, {"memo"})
    BY HasLeaf, UnderPair DEF Has
  <1>2. M \subseteq S /\ N \subseteq S
    OBVIOUS
  <1>3. Covers(M, B) /\ Covers(N, C)
    BY CoversPayer, CoversUpdates, CoversGot
  <1> HIDE DEF M, N, S
  <1>4. Covers(S, A) /\ Covers(S, B) /\ Covers(S, C)
    BY <1>1, <1>2, <1>3, CoversGot, CoversWider
  <1> HIDE DEF A, B, C
  <1>5. Covers(S, A \union B \union C)
    BY <1>4, CoversMore
  <1> QED
    BY <1>5 DEF M, N, S, A, B, C

LEMMA CoversZkappCommands ==
  Covers(Leaves({"id", "hash"}) \union Under("failureReason", Leaves({"index",
  "failures"})) \union Under("zkappCommand", {<<"memo">>} \union Under("feePayer",
  {<<"authorization">>} \union Under("body", FeePayer)) \union Under("accountUpdates",
  AccountUpdates)),
         Got!zkappCommands)
  <1> DEFINE M == Under("failureReason", Leaves({"index", "failures"}))
             N == Under("zkappCommand", {<<"memo">>} \union Under("feePayer",
                    {<<"authorization">>} \union Under("body", FeePayer))
                    \union Under("accountUpdates", AccountUpdates))
             S == Leaves({"id", "hash"}) \union M \union N
             A == Got!Take({"id", "hash"}, Got!Name, Got!AsIs)
             B == Got!failures
             C == Got!Inside(<<"zkappCommand">>, <<"zkappCommand">>, Got!Take({"memo"}, Got!Text,
                    Got!AsIs)
           \union Got!Inside(<<"feePayer">>, <<"feePayer">>, Got!Take({"authorization"},
           Got!Name, Got!AsIs)
           \union Got!Inside(<<"body">>, <<"body">>, Got!Take({"publicKey"}, Got!Name, Got!AsIs)
           \union Got!Take({"fee"}, Got!Digits, Got!AsIs)
           \union Got!Take({"nonce"}, Got!Either, Got!String)
           \union Got!Take({"validUntil"}, Got!Nullable(Got!Either), Got!OrNull(Got!String))))
           \union Got!Whole(<<"accountUpdates">>, <<"accountUpdates">>, Got!AccountUpdates))
  <1>1. Has(S, {"id", "hash"})
    BY HasLeaf, UnderPair DEF Has
  <1>2. M \subseteq S /\ N \subseteq S
    OBVIOUS
  <1>3. Covers(M, B) /\ Covers(N, C)
    BY CoversFailures, CoversZkappCommand, CoversGot
  <1> HIDE DEF M, N, S
  <1>4. Covers(S, A) /\ Covers(S, B) /\ Covers(S, C)
    BY <1>1, <1>2, <1>3, CoversGot, CoversWider
  <1> HIDE DEF A, B, C
  <1>5. Covers(S, A \union B \union C)
    BY <1>4, CoversMore
  <1> QED
    BY <1>5 DEF Got!zkappCommands, M, N, S, A, B, C

LEMMA CoversFeeTransfer ==
  Covers(Leaves({"recipient", "fee", "type"}),
         Got!Take({"recipient", "type"}, Got!Name, Got!AsIs)
           \union Got!Take({"fee"}, Got!Digits, Got!AsIs))
  <1> DEFINE S == Leaves({"recipient", "fee", "type"})
             A == Got!Take({"recipient", "type"}, Got!Name, Got!AsIs)
             B == Got!Take({"fee"}, Got!Digits, Got!AsIs)
  <1>1. Has(S, {"recipient", "type"}) /\ Has(S, {"fee"})
    BY HasLeaf, UnderPair DEF Has
  <1> HIDE DEF S
  <1>2. Covers(S, A) /\ Covers(S, B)
    BY <1>1, CoversGot, CoversWider
  <1> HIDE DEF A, B
  <1>3. Covers(S, A \union B)
    BY <1>2, CoversMore
  <1> QED
    BY <1>3 DEF S, A, B

LEMMA CoversTransactions ==
  Covers(Under("transactions", {<<"coinbase">>} \union Under("coinbaseReceiverAccount",
  {<<"publicKey">>}) \union Under("feeTransfer", Leaves({"recipient", "fee", "type"}))
  \union Under("userCommands", Leaves({"id", "hash", "kind", "nonce", "amount", "fee", "memo",
  "failureReason"}) \union Each({"source", "receiver"}, {<<"publicKey">>}))
  \union Under("zkappCommands", Leaves({"id", "hash"}) \union Under("failureReason",
  Leaves({"index", "failures"})) \union Under("zkappCommand", {<<"memo">>}
  \union Under("feePayer", {<<"authorization">>} \union Under("body", FeePayer))
  \union Under("accountUpdates", AccountUpdates)))),
         Got!transactions)
  <1> DEFINE M == Under("feeTransfer", Leaves({"recipient", "fee", "type"}))
             N == Under("userCommands", Leaves({"id", "hash", "kind", "nonce", "amount", "fee",
                    "memo", "failureReason"}) \union Each({"source", "receiver"},
                    {<<"publicKey">>}))
             O == Under("zkappCommands", Leaves({"id", "hash"}) \union Under("failureReason",
                    Leaves({"index", "failures"})) \union Under("zkappCommand",
                    {<<"memo">>} \union Under("feePayer", {<<"authorization">>}
                    \union Under("body", FeePayer)) \union Under("accountUpdates",
                    AccountUpdates)))
             S == {<<"coinbase">>} \union Under("coinbaseReceiverAccount",
                    {<<"publicKey">>}) \union M \union N \union O
             A == Got!Within(<<"userCommands">>, <<"userCommands">>, Got!Nullable(Got!List),
                    Got!Else("[]"), Got!userCommands)
             B == Got!Within(<<"feeTransfer">>, <<"feeTransfers">>, Got!Nullable(Got!List),
                    Got!Else("[]"), Got!Take({"recipient", "type"}, Got!Name, Got!AsIs)
           \union Got!Take({"fee"}, Got!Digits, Got!AsIs))
             C == Got!Within(<<"zkappCommands">>, <<"zkappCommands">>, Got!Nullable(Got!List),
                    Got!UnlessNull(Got!AsIs), Got!zkappCommands)
             D == Got!Move("coinbase", "coinbase", Got!Digits, Got!AsIs)
             E == {Got!Rule(<<"coinbaseReceiverAccount", "publicKey">>,
                    <<"coinbaseReceiverAccount">>, Got!Chained(Got!Name), Got!Else("null"))}
  <1>1. <<"coinbase">> \in S /\ <<"coinbaseReceiverAccount", "publicKey">> \in S
    BY HasLeaf, UnderPair DEF Has
  <1>2. N \subseteq S /\ M \subseteq S /\ O \subseteq S
    OBVIOUS
  <1>3. Covers(N, A) /\ Covers(M, B) /\ Covers(O, C)
    BY CoversUserCommands, CoversFeeTransfer, CoversZkappCommands, CoversGot
  <1> HIDE DEF M, N, O, S
  <1>4. Covers(S, A) /\ Covers(S, B) /\ Covers(S, C) /\ Covers(S, D) /\ Covers(S, E)
    BY <1>1, <1>2, <1>3, CoversGot, CoversWider
  <1> HIDE DEF A, B, C, D, E
  <1>5. Covers(S, A \union B \union C \union D \union E)
    BY <1>4, CoversMore
  <1>6. Got!transactions = Got!Inside(<<"transactions">>, <<>>, A \union B \union C
        \union D \union E)
    BY DEF Got!transactions, A, B, C, D, E
  <1>7. Under("transactions", {<<"coinbase">>} \union Under("coinbaseReceiverAccount",
        {<<"publicKey">>}) \union Under("feeTransfer", Leaves({"recipient", "fee",
        "type"})) \union Under("userCommands", Leaves({"id", "hash", "kind", "nonce", "amount",
        "fee", "memo", "failureReason"}) \union Each({"source", "receiver"},
        {<<"publicKey">>})) \union Under("zkappCommands", Leaves({"id", "hash"})
        \union Under("failureReason", Leaves({"index", "failures"})) \union Under("zkappCommand",
        {<<"memo">>} \union Under("feePayer", {<<"authorization">>} \union Under("body",
        FeePayer)) \union Under("accountUpdates", AccountUpdates)))) = Under("transactions", S)
    BY DEF M, N, O, S
  <1> QED
    BY <1>5, <1>6, <1>7, CoversGot

LEMMA CoversStakingEpoch ==
  Covers(Leaves({"epochLength", "seed"}) \union Under("ledger", {<<"hash">>}),
         Got!Take({"epochLength"}, Got!Either, Got!Number)
           \union Got!Take({"seed"}, Got!Name, Got!AsIs)
           \union {Got!Rule(<<"ledger", "hash">>, <<"ledgerHash">>, Got!Name, Got!AsIs)})
  <1> DEFINE S == Leaves({"epochLength", "seed"}) \union Under("ledger", {<<"hash">>})
             A == Got!Take({"epochLength"}, Got!Either, Got!Number)
             B == Got!Take({"seed"}, Got!Name, Got!AsIs)
             C == {Got!Rule(<<"ledger", "hash">>, <<"ledgerHash">>, Got!Name, Got!AsIs)}
  <1>1. Has(S, {"epochLength"}) /\ Has(S, {"seed"}) /\ <<"ledger", "hash">> \in S
    BY HasLeaf, UnderPair DEF Has
  <1> HIDE DEF S
  <1>2. Covers(S, A) /\ Covers(S, B) /\ Covers(S, C)
    BY <1>1, CoversGot, CoversWider
  <1> HIDE DEF A, B, C
  <1>3. Covers(S, A \union B \union C)
    BY <1>2, CoversMore
  <1> QED
    BY <1>3 DEF S, A, B, C

LEMMA CoversNextEpoch ==
  Covers({<<"seed">>} \union Under("ledger", {<<"hash">>}),
         Got!Take({"seed"}, Got!Name, Got!AsIs)
           \union {Got!Rule(<<"ledger", "hash">>, <<"ledgerHash">>, Got!Name, Got!AsIs)})
  <1> DEFINE S == {<<"seed">>} \union Under("ledger", {<<"hash">>})
             A == Got!Take({"seed"}, Got!Name, Got!AsIs)
             B == {Got!Rule(<<"ledger", "hash">>, <<"ledgerHash">>, Got!Name, Got!AsIs)}
  <1>1. Has(S, {"seed"}) /\ <<"ledger", "hash">> \in S
    BY HasLeaf, UnderPair DEF Has
  <1> HIDE DEF S
  <1>2. Covers(S, A) /\ Covers(S, B)
    BY <1>1, CoversGot, CoversWider
  <1> HIDE DEF A, B
  <1>3. Covers(S, A \union B)
    BY <1>2, CoversMore
  <1> QED
    BY <1>3 DEF S, A, B

LEMMA CoversStakingBlockEpoch ==
  Covers(Leaves({"epochLength", "seed"}) \union Under("ledger", {<<"hash">>}),
         Got!Take({"epochLength"}, Got!Either, Got!When({"undefined"}, "0", Got!Number))
           \union Got!Take({"seed"}, Got!Name, Got!AsIs)
           \union {Got!Rule(<<"ledger", "hash">>, <<"ledgerHash">>, Got!Name, Got!AsIs)})
  <1> DEFINE S == Leaves({"epochLength", "seed"}) \union Under("ledger", {<<"hash">>})
             A == Got!Take({"epochLength"}, Got!Either, Got!When({"undefined"}, "0", Got!Number))
             B == Got!Take({"seed"}, Got!Name, Got!AsIs)
             C == {Got!Rule(<<"ledger", "hash">>, <<"ledgerHash">>, Got!Name, Got!AsIs)}
  <1>1. Has(S, {"epochLength"}) /\ Has(S, {"seed"}) /\ <<"ledger", "hash">> \in S
    BY HasLeaf, UnderPair DEF Has
  <1> HIDE DEF S
  <1>2. Covers(S, A) /\ Covers(S, B) /\ Covers(S, C)
    BY <1>1, CoversGot, CoversWider
  <1> HIDE DEF A, B, C
  <1>3. Covers(S, A \union B \union C)
    BY <1>2, CoversMore
  <1> QED
    BY <1>3 DEF S, A, B, C

LEMMA CoversNextBlockEpoch ==
  Covers({<<"seed">>} \union Under("ledger", {<<"hash">>}),
         Got!Take({"seed"}, Got!Name, Got!Else("''"))
           \union {Got!Rule(<<"ledger", "hash">>, <<"ledgerHash">>, Got!Name, Got!Else("''"))})
  <1> DEFINE S == {<<"seed">>} \union Under("ledger", {<<"hash">>})
             A == Got!Take({"seed"}, Got!Name, Got!Else("''"))
             B == {Got!Rule(<<"ledger", "hash">>, <<"ledgerHash">>, Got!Name, Got!Else("''"))}
  <1>1. Has(S, {"seed"}) /\ <<"ledger", "hash">> \in S
    BY HasLeaf, UnderPair DEF Has
  <1> HIDE DEF S
  <1>2. Covers(S, A) /\ Covers(S, B)
    BY <1>1, CoversGot, CoversWider
  <1> HIDE DEF A, B
  <1>3. Covers(S, A \union B)
    BY <1>2, CoversMore
  <1> QED
    BY <1>3 DEF S, A, B

\* What a block's document selects of its epochs.
EpochFields == Under("stakingEpochData", Leaves({"epochLength", "seed"}) \union Under("ledger",
                 {<<"hash">>})) \union Under("nextEpochData", {<<"seed">>}
                                           \union Under("ledger",
                 {<<"hash">>}))

LEMMA CoversEpochData == Covers(EpochFields, Got!epochData)
  <1> DEFINE M == Under("stakingEpochData", Leaves({"epochLength", "seed"})
             \union Under("ledger", {<<"hash">>}))
             N == Under("nextEpochData", {<<"seed">>} \union Under("ledger", {<<"hash">>}))
             S == M \union N
             A == Got!Within(<<"stakingEpochData">>, <<"stakingEpochData">>,
                    Got!Nullable(Got!Object), Got!IfTruthy(Got!AsIs), Got!Take({"epochLength"},
                    Got!Either, Got!Number)
           \union Got!Take({"seed"}, Got!Name, Got!AsIs)
           \union {Got!Rule(<<"ledger", "hash">>, <<"ledgerHash">>, Got!Name, Got!AsIs)})
             B == Got!Within(<<"nextEpochData">>, <<"nextEpochData">>, Got!Nullable(Got!Object),
                    Got!IfTruthy(Got!AsIs), Got!Take({"seed"}, Got!Name, Got!AsIs)
           \union {Got!Rule(<<"ledger", "hash">>, <<"ledgerHash">>, Got!Name, Got!AsIs)})
  <1>1. M \subseteq S /\ N \subseteq S
    OBVIOUS
  <1>2. Covers(M, A) /\ Covers(N, B)
    BY CoversStakingEpoch, CoversNextEpoch, CoversGot
  <1> HIDE DEF M, N, S
  <1>3. Covers(S, A) /\ Covers(S, B)
    BY <1>1, <1>2, CoversGot, CoversWider
  <1> HIDE DEF A, B
  <1>4. Covers(S, A \union B)
    BY <1>3, CoversMore
  <1> QED
    BY <1>4 DEF EpochFields, Got!epochData, M, N, S, A, B

LEMMA CoversBlockEpoch == Covers(EpochFields, Got!blockEpochData)
  <1> DEFINE M == Under("stakingEpochData", Leaves({"epochLength", "seed"})
             \union Under("ledger", {<<"hash">>}))
             N == Under("nextEpochData", {<<"seed">>} \union Under("ledger", {<<"hash">>}))
             S == M \union N
             A == Got!Within(<<"stakingEpochData">>, <<"stakingEpochData">>,
                    Got!Nullable(Got!Object), Got!Else("{}"), Got!Take({"epochLength"},
                    Got!Either, Got!When({"undefined"}, "0", Got!Number))
           \union Got!Take({"seed"}, Got!Name, Got!AsIs)
           \union {Got!Rule(<<"ledger", "hash">>, <<"ledgerHash">>, Got!Name, Got!AsIs)})
             B == Got!Within(<<"nextEpochData">>, <<"nextEpochData">>, Got!Nullable(Got!Object),
                    Got!Else("{}"), Got!Take({"seed"}, Got!Name, Got!Else("''"))
           \union {Got!Rule(<<"ledger", "hash">>, <<"ledgerHash">>, Got!Name, Got!Else("''"))})
  <1>1. M \subseteq S /\ N \subseteq S
    OBVIOUS
  <1>2. Covers(M, A) /\ Covers(N, B)
    BY CoversStakingBlockEpoch, CoversNextBlockEpoch, CoversGot
  <1> HIDE DEF M, N, S
  <1>3. Covers(S, A) /\ Covers(S, B)
    BY <1>1, <1>2, CoversGot, CoversWider
  <1> HIDE DEF A, B
  <1>4. Covers(S, A \union B)
    BY <1>3, CoversMore
  <1> QED
    BY <1>4 DEF EpochFields, Got!blockEpochData, M, N, S, A, B

LEMMA CoversHeights ==
  ASSUME NEW S, Has(S, {"blockHeight", "epoch", "slot", "slotSinceGenesis"})
  PROVE  Covers(S, Got!heights)
  <1>1. /\ <<"blockHeight">> \in S /\ <<"slot">> \in S /\ <<"slotSinceGenesis">> \in S
        /\ Has(S, {"epoch"})
    BY DEF Has
  <1> QED
    BY <1>1, CoversGot, CoversMore DEF Got!heights

LEMMA CoversConsensus ==
  ASSUME NEW epoch, Covers(EpochFields, epoch)
  PROVE  Covers(Leaves({"blockHeight", "epoch", "slot", "slotSinceGenesis", "blockCreator",
  "coinbaseReceiever"}) \union Under("stakingEpochData", Leaves({"epochLength", "seed"})
  \union Under("ledger", {<<"hash">>})) \union Under("nextEpochData", {<<"seed">>}
  \union Under("ledger", {<<"hash">>})),
         Got!heights
           \union epoch
           \union Got!Take({"blockCreator"}, Got!Name, Got!AsIs)
           \union Got!Move("coinbaseReceiever", "coinbaseReceiver", Got!Nullable(Got!Name),
           Got!UnlessNull(Got!AsIs)))
  <1> DEFINE L == Leaves({"blockHeight", "epoch", "slot", "slotSinceGenesis",
                          "blockCreator", "coinbaseReceiever"})
             S == L \union Under("stakingEpochData", Leaves({"epochLength", "seed"})
                                           \union Under("ledger", {<<"hash">>}))
                    \union Under("nextEpochData", {<<"seed">>}
                                           \union Under("ledger", {<<"hash">>}))
             A == Got!Take({"blockCreator"}, Got!Name, Got!AsIs)
             B == Got!Move("coinbaseReceiever", "coinbaseReceiver", Got!Nullable(Got!Name),
                           Got!UnlessNull(Got!AsIs))
  <1>1. EpochFields \subseteq S
    BY DEF EpochFields
  <1>2. /\ Has(S, {"blockHeight", "epoch", "slot", "slotSinceGenesis"})
        /\ Has(S, {"blockCreator"}) /\ <<"coinbaseReceiever">> \in S
    BY HasLeaf DEF Has
  <1> HIDE DEF L, S
  <1>3. Covers(S, epoch)
    BY <1>1, CoversWider
  <1>4. Covers(S, Got!heights)
    BY <1>2, CoversHeights
  <1>5. Covers(S, A) /\ Covers(S, B)
    BY <1>2, CoversGot
  <1> HIDE DEF A, B
  <1>6. Covers(S, Got!heights \union epoch \union A \union B)
    BY <1>3, <1>4, <1>5, CoversMore
  <1> QED
    BY <1>6 DEF L, S, A, B

LEMMA CoversChain ==
  Covers(Leaves({"date", "utcDate", "snarkedLedgerHash", "stagedLedgerHash"}),
         Got!Take({"date", "utcDate", "snarkedLedgerHash"}, Got!Name, Got!AsIs)
           \union Got!Take({"stagedLedgerHash"}, Got!Hash, Got!AsIs))
  <1> DEFINE S == Leaves({"date", "utcDate", "snarkedLedgerHash", "stagedLedgerHash"})
             A == Got!Take({"date", "utcDate", "snarkedLedgerHash"}, Got!Name, Got!AsIs)
             B == Got!Take({"stagedLedgerHash"}, Got!Hash, Got!AsIs)
  <1>1. /\ Has(S, {"date", "utcDate", "snarkedLedgerHash"})
        /\ Has(S, {"stagedLedgerHash"})
    BY HasLeaf, UnderPair DEF Has
  <1> HIDE DEF S
  <1>2. Covers(S, A) /\ Covers(S, B)
    BY <1>1, CoversGot, CoversWider
  <1> HIDE DEF A, B
  <1>3. Covers(S, A \union B)
    BY <1>2, CoversMore
  <1> QED
    BY <1>3 DEF S, A, B

LEMMA CoversProtocol ==
  ASSUME NEW epoch, Covers(EpochFields, epoch)
  PROVE  Covers({<<"previousStateHash">>} \union Under("consensusState", Leaves({"blockHeight",
  "epoch", "slot", "slotSinceGenesis", "blockCreator", "coinbaseReceiever"})
  \union Under("stakingEpochData", Leaves({"epochLength", "seed"}) \union Under("ledger",
  {<<"hash">>})) \union Under("nextEpochData", {<<"seed">>}
                                           \union Under("ledger",
  {<<"hash">>}))) \union Under("blockchainState", Leaves({"date", "utcDate", "snarkedLedgerHash",
  "stagedLedgerHash"})),
         Got!Take({"previousStateHash"}, Got!Hash, Got!AsIs)
           \union Got!Inside(<<"consensusState">>, <<>>, Got!heights
           \union epoch
           \union Got!Take({"blockCreator"}, Got!Name, Got!AsIs)
           \union Got!Move("coinbaseReceiever", "coinbaseReceiver", Got!Nullable(Got!Name),
           Got!UnlessNull(Got!AsIs)))
           \union Got!Inside(<<"blockchainState">>, <<>>, Got!Take({"date", "utcDate",
           "snarkedLedgerHash"}, Got!Name, Got!AsIs)
           \union Got!Take({"stagedLedgerHash"}, Got!Hash, Got!AsIs)))
  <1> DEFINE M == Under("consensusState", Leaves({"blockHeight", "epoch", "slot",
             "slotSinceGenesis", "blockCreator", "coinbaseReceiever"})
             \union Under("stakingEpochData", Leaves({"epochLength", "seed"})
             \union Under("ledger", {<<"hash">>})) \union Under("nextEpochData",
             {<<"seed">>} \union Under("ledger", {<<"hash">>})))
             N == Under("blockchainState", Leaves({"date", "utcDate", "snarkedLedgerHash",
                    "stagedLedgerHash"}))
             S == {<<"previousStateHash">>} \union M \union N
             A == Got!Take({"previousStateHash"}, Got!Hash, Got!AsIs)
             B == Got!Inside(<<"consensusState">>, <<>>, Got!heights
           \union epoch
           \union Got!Take({"blockCreator"}, Got!Name, Got!AsIs)
           \union Got!Move("coinbaseReceiever", "coinbaseReceiver", Got!Nullable(Got!Name),
           Got!UnlessNull(Got!AsIs)))
             C == Got!Inside(<<"blockchainState">>, <<>>, Got!Take({"date", "utcDate",
                    "snarkedLedgerHash"}, Got!Name, Got!AsIs)
           \union Got!Take({"stagedLedgerHash"}, Got!Hash, Got!AsIs))
  <1>1. Has(S, {"previousStateHash"})
    BY HasLeaf, UnderPair DEF Has
  <1>2. M \subseteq S /\ N \subseteq S
    OBVIOUS
  <1>3. Covers(M, B) /\ Covers(N, C)
    BY CoversConsensus, CoversChain, CoversGot
  <1> HIDE DEF M, N, S
  <1>4. Covers(S, A) /\ Covers(S, B) /\ Covers(S, C)
    BY <1>1, <1>2, <1>3, CoversGot, CoversWider
  <1> HIDE DEF A, B, C
  <1>5. Covers(S, A \union B \union C)
    BY <1>4, CoversMore
  <1> QED
    BY <1>5 DEF M, N, S, A, B, C

LEMMA CoversBlockInfo ==
  ASSUME NEW epoch, Covers(EpochFields, epoch)
  PROVE  Covers(BlockFields, Got!blockInfo(epoch))
  <1> DEFINE M == Under("protocolState", {<<"previousStateHash">>} \union Under("consensusState",
             Leaves({"blockHeight", "epoch", "slot", "slotSinceGenesis", "blockCreator",
             "coinbaseReceiever"}) \union Under("stakingEpochData", Leaves({"epochLength",
             "seed"}) \union Under("ledger", {<<"hash">>})) \union Under("nextEpochData",
             {<<"seed">>} \union Under("ledger", {<<"hash">>}))) \union Under("blockchainState",
             Leaves({"date", "utcDate", "snarkedLedgerHash", "stagedLedgerHash"})))
             N == Under("snarkJobs", Leaves({"prover", "fee", "workIds"}))
             O == Under("transactions", {<<"coinbase">>} \union Under("coinbaseReceiverAccount",
                    {<<"publicKey">>}) \union Under("feeTransfer", Leaves({"recipient", "fee",
                    "type"})) \union Under("userCommands", Leaves({"id", "hash", "kind", "nonce",
                    "amount", "fee", "memo", "failureReason"}) \union Each({"source",
                    "receiver"}, {<<"publicKey">>})) \union Under("zkappCommands", Leaves({"id",
                    "hash"}) \union Under("failureReason", Leaves({"index", "failures"}))
                    \union Under("zkappCommand", {<<"memo">>} \union Under("feePayer",
                    {<<"authorization">>} \union Under("body", FeePayer))
                    \union Under("accountUpdates", AccountUpdates))))
             S == Leaves({"stateHash", "commandTransactionCount"}) \union Under("creatorAccount",
                    {<<"publicKey">>}) \union M \union N \union O
             A == Got!Take({"stateHash"}, Got!Hash, Got!AsIs)
             B == Got!Take({"commandTransactionCount"}, Got!Num, Got!AsIs)
             C == {Got!Rule(<<"creatorAccount", "publicKey">>, <<"creatorPublicKey">>,
                    Got!Chained(Got!Nullable(Got!Name)), Got!Else("'unknown'"))}
             D == Got!Inside(<<"protocolState">>, <<>>, Got!Take({"previousStateHash"}, Got!Hash,
                    Got!AsIs)
           \union Got!Inside(<<"consensusState">>, <<>>, Got!heights
           \union epoch
           \union Got!Take({"blockCreator"}, Got!Name, Got!AsIs)
           \union Got!Move("coinbaseReceiever", "coinbaseReceiver", Got!Nullable(Got!Name),
           Got!UnlessNull(Got!AsIs)))
           \union Got!Inside(<<"blockchainState">>, <<>>, Got!Take({"date", "utcDate",
           "snarkedLedgerHash"}, Got!Name, Got!AsIs)
           \union Got!Take({"stagedLedgerHash"}, Got!Hash, Got!AsIs)))
             E == Got!Within(<<"snarkJobs">>, <<"snarkJobs">>, Got!Nullable(Got!List),
                    Got!UnlessNull(Got!AsIs), Got!snarkWork)
             F == Got!transactions
  <1>1. /\ Has(S, {"stateHash"}) /\ Has(S, {"commandTransactionCount"})
        /\ <<"creatorAccount", "publicKey">> \in S
    BY HasLeaf, UnderPair DEF Has
  <1>2. M \subseteq S /\ N \subseteq S /\ O \subseteq S
    OBVIOUS
  <1>3. Covers(M, D) /\ Covers(N, E) /\ Covers(O, F)
    BY CoversProtocol, CoversSnarkWork, CoversTransactions, CoversGot
  <1> HIDE DEF M, N, O, S
  <1>4. /\ Covers(S, A) /\ Covers(S, B) /\ Covers(S, C) /\ Covers(S, D) /\ Covers(S, E)
        /\ Covers(S, F)
    BY <1>1, <1>2, <1>3, CoversGot, CoversWider
  <1> HIDE DEF A, B, C, D, E, F
  <1>5. Covers(S, A \union B \union C \union D \union E \union F)
    BY <1>4, CoversMore
  <1> QED
    BY <1>5 DEF BlockFields, Got!blockInfo, M, N, O, S, A, B, C, D, E, F

-----------------------------------------------------------------------------
\* Every document selects what its method reads: all others.

LEMMA CoversPooledUserCommands == 
  Covers(QUERY_POOLED_USER_COMMANDS.selection, Got!getPooledUserCommands)
  <1> DEFINE S == Leaves({"id", "hash", "kind", "nonce", "amount", "fee", "validUntil", "token",
             "feeToken", "from", "to", "memo", "failureReason"}) \union Each({"source",
             "receiver"}, {<<"publicKey">>})
             A == Got!Take({"id", "hash", "kind", "from", "to"}, Got!Name, Got!AsIs)
             B == Got!Take({"nonce"}, Got!Either, Got!String)
             C == Got!Take({"amount", "fee"}, Got!Digits, Got!AsIs)
             D == {Got!Rule(<<n, "publicKey">>, <<n>>, Got!Chained(Got!Name),
                    Got!IfTruthy(Got!AsIs)) : n \in {"source", "receiver"}}
             E == Got!Take({"memo"}, Got!Nullable(Got!Text), Got!UnlessNull(Got!AsIs))
             F == Got!Take({"failureReason"}, Got!Nullable(Got!Name),
                    Got!UnlessUndefined(Got!AsIs))
             G == Got!Take({"validUntil"}, Got!Nullable(Got!Either),
                    Got!UnlessUndefined(Got!OrNull(Got!String)))
             H == Got!Take({"token", "feeToken"}, Got!Nullable(Got!Name),
                    Got!UnlessNull(Got!AsIs))
  <1>1. /\ Has(S, {"id", "hash", "kind", "from", "to"}) /\ Has(S, {"nonce"})
        /\ Has(S, {"amount", "fee"}) /\ <<"source", "publicKey">> \in S
        /\ <<"receiver", "publicKey">> \in S /\ Has(S, {"memo"})
        /\ Has(S, {"failureReason"}) /\ Has(S, {"validUntil"})
        /\ Has(S, {"token", "feeToken"})
    BY HasLeaf, UnderPair DEF Has
  <1>2. Covers(S, D)
    BY <1>1, CoversSides
  <1> HIDE DEF S
  <1>3. /\ Covers(S, A) /\ Covers(S, B) /\ Covers(S, C) /\ Covers(S, D) /\ Covers(S, E)
        /\ Covers(S, F) /\ Covers(S, G) /\ Covers(S, H)
    BY <1>1, <1>2, CoversGot, CoversWider
  <1> HIDE DEF A, B, C, D, E, F, G, H
  <1>4. Covers(S, A \union B \union C \union D \union E \union F \union G \union H)
    BY <1>3, CoversMore
  <1>5. Got!getPooledUserCommands = Got!Within(<<"pooledUserCommands">>, <<"each">>,
        Got!Nullable(Got!List), Got!Else("[]"), A \union B \union C \union D \union E
        \union F \union G \union H)
    BY DEF Got!getPooledUserCommands, Got!Elements, A, B, C, D, E, F, G, H
  <1>6. QUERY_POOLED_USER_COMMANDS.selection = Under("pooledUserCommands", S)
    BY DEF QUERY_POOLED_USER_COMMANDS, Document, S
  <1> QED
    BY <1>4, <1>5, <1>6, CoversGot

LEMMA CoversSubmittedBody ==
  Covers(FeePayer,
         Got!Take({"publicKey"}, Got!Name, Got!AsIs)
           \union Got!Take({"fee"}, Got!Digits, Got!FromGraphQL)
           \union Got!Take({"nonce"}, Got!Either, Got!Number)
           \union Got!Take({"validUntil"}, Got!Nullable(Got!Either), Got!OrNull(Got!Number)))
  <1> DEFINE S == Leaves({"publicKey", "fee", "nonce", "validUntil"})
             A == Got!Take({"publicKey"}, Got!Name, Got!AsIs)
             B == Got!Take({"fee"}, Got!Digits, Got!FromGraphQL)
             C == Got!Take({"nonce"}, Got!Either, Got!Number)
             D == Got!Take({"validUntil"}, Got!Nullable(Got!Either), Got!OrNull(Got!Number))
  <1>1. /\ Has(S, {"publicKey"}) /\ Has(S, {"fee"}) /\ Has(S, {"nonce"})
        /\ Has(S, {"validUntil"})
    BY HasLeaf, UnderPair DEF Has
  <1> HIDE DEF S
  <1>2. Covers(S, A) /\ Covers(S, B) /\ Covers(S, C) /\ Covers(S, D)
    BY <1>1, CoversGot, CoversWider
  <1> HIDE DEF A, B, C, D
  <1>3. Covers(S, A \union B \union C \union D)
    BY <1>2, CoversMore
  <1> QED
    BY <1>3 DEF FeePayer, S, A, B, C, D

LEMMA CoversSubmittedPayer ==
  Covers({<<"memo">>} \union Under("feePayer", Under("body", FeePayer)),
         Got!Take({"memo"}, Got!Text, Got!AsIs)
           \union Got!Inside(<<"feePayer", "body">>, <<"feePayer">>, Got!Take({"publicKey"},
           Got!Name, Got!AsIs)
           \union Got!Take({"fee"}, Got!Digits, Got!FromGraphQL)
           \union Got!Take({"nonce"}, Got!Either, Got!Number)
           \union Got!Take({"validUntil"}, Got!Nullable(Got!Either), Got!OrNull(Got!Number))))
  <1> DEFINE M == Under("feePayer", Under("body", FeePayer))
             S == {<<"memo">>} \union M
             A == Got!Take({"memo"}, Got!Text, Got!AsIs)
             B == Got!Inside(<<"feePayer", "body">>, <<"feePayer">>, Got!Take({"publicKey"},
                    Got!Name, Got!AsIs)
           \union Got!Take({"fee"}, Got!Digits, Got!FromGraphQL)
           \union Got!Take({"nonce"}, Got!Either, Got!Number)
           \union Got!Take({"validUntil"}, Got!Nullable(Got!Either), Got!OrNull(Got!Number)))
  <1>1. Has(S, {"memo"})
    BY HasLeaf, UnderPair DEF Has
  <1>2. M \subseteq S
    OBVIOUS
  <1>3. Covers(M, B)
    BY CoversSubmittedBody, CoversGot
  <1> HIDE DEF M, S
  <1>4. Covers(S, A) /\ Covers(S, B)
    BY <1>1, <1>2, <1>3, CoversGot, CoversWider
  <1> HIDE DEF A, B
  <1>5. Covers(S, A \union B)
    BY <1>4, CoversMore
  <1> QED
    BY <1>5 DEF M, S, A, B

LEMMA CoversSubmittedZkapp == Covers(ZkappFields, Got!parseZkappCommand)
  <1> DEFINE M == Under("zkappCommand", {<<"memo">>} \union Under("feePayer", Under("body",
             FeePayer)))
             N == Under("failureReason", Leaves({"index", "failures"}))
             S == Leaves({"id", "hash"}) \union M \union N
             A == Got!Take({"id", "hash"}, Got!Name, Got!AsIs)
             B == Got!failures
             C == Got!Inside(<<"zkappCommand">>, <<>>, Got!Take({"memo"}, Got!Text, Got!AsIs)
           \union Got!Inside(<<"feePayer", "body">>, <<"feePayer">>, Got!Take({"publicKey"},
           Got!Name, Got!AsIs)
           \union Got!Take({"fee"}, Got!Digits, Got!FromGraphQL)
           \union Got!Take({"nonce"}, Got!Either, Got!Number)
           \union Got!Take({"validUntil"}, Got!Nullable(Got!Either), Got!OrNull(Got!Number))))
  <1>1. Has(S, {"id", "hash"})
    BY HasLeaf, UnderPair DEF Has
  <1>2. N \subseteq S /\ M \subseteq S
    OBVIOUS
  <1>3. Covers(N, B) /\ Covers(M, C)
    BY CoversFailures, CoversSubmittedPayer, CoversGot
  <1> HIDE DEF M, N, S
  <1>4. Covers(S, A) /\ Covers(S, B) /\ Covers(S, C)
    BY <1>1, <1>2, <1>3, CoversGot, CoversWider
  <1> HIDE DEF A, B, C
  <1>5. Covers(S, A \union B \union C)
    BY <1>4, CoversMore
  <1> QED
    BY <1>5 DEF Got!parseZkappCommand, ZkappFields, M, N, S, A, B, C

LEMMA CoversSubmittedCommand == Covers(CommandFields, Got!mapSubmittedCommand)
  <1> DEFINE S == Leaves({"id", "hash", "kind", "nonce", "amount", "fee", "memo"})
             \union Each({"source", "receiver"}, {<<"publicKey">>})
             A == Got!Take({"id", "hash"}, Got!Name, Got!AsIs)
             B == Got!Take({"nonce"}, Got!Either, Got!Number)
             C == Got!Take({"kind"}, Got!Optional(Got!Name), Got!UnlessNull(Got!AsIs))
             D == {Got!Rule(<<n, "publicKey">>, <<n>>, Got!Chained(Got!Name),
                    Got!IfTruthy(Got!AsIs)) : n \in {"source", "receiver"}}
             E == Got!Take({"amount", "fee"}, Got!Optional(Got!Digits), Got!UnlessNull(Got!AsIs))
             F == Got!Take({"memo"}, Got!Optional(Got!Text), Got!UnlessNull(Got!AsIs))
  <1>1. /\ Has(S, {"id", "hash"}) /\ Has(S, {"nonce"}) /\ Has(S, {"kind"})
        /\ <<"source", "publicKey">> \in S /\ <<"receiver", "publicKey">> \in S
        /\ Has(S, {"amount", "fee"}) /\ Has(S, {"memo"})
    BY HasLeaf, UnderPair DEF Has
  <1>2. Covers(S, D)
    BY <1>1, CoversSides
  <1> HIDE DEF S
  <1>3. /\ Covers(S, A) /\ Covers(S, B) /\ Covers(S, C) /\ Covers(S, D) /\ Covers(S, E)
        /\ Covers(S, F)
    BY <1>1, <1>2, CoversGot, CoversWider
  <1> HIDE DEF A, B, C, D, E, F
  <1>4. Covers(S, A \union B \union C \union D \union E \union F)
    BY <1>3, CoversMore
  <1> QED
    BY <1>4 DEF Got!mapSubmittedCommand, CommandFields, S, A, B, C, D, E, F

LEMMA CoversAuth == Covers(QUERY_AUTH.selection, Got!parseAuth)
  <1> DEFINE S == Leaves({"serverUuid", "signerSequenceNumber", "libp2pPort", "peerId",
             "isBlockProducer"})
             A == Got!Take({"serverUuid"}, Got!Nullable(Got!Text), Got!Required)
             B == Got!Take({"signerSequenceNumber", "libp2pPort"},
                    [Got!Either EXCEPT !.odd = @ \union {"-1", "'x'", "null"}], Got!parseUint16)
             C == Got!Take({"peerId"}, Got!Nullable(Got!Text), Got!OrNull(Got!AsIs))
             D == Got!Take({"isBlockProducer"}, Got!Nullable(Got!Flag), Got!Else("false"))
  <1>1. /\ Has(S, {"serverUuid"}) /\ Has(S, {"signerSequenceNumber", "libp2pPort"})
        /\ Has(S, {"peerId"}) /\ Has(S, {"isBlockProducer"})
    BY HasLeaf, UnderPair DEF Has
  <1> HIDE DEF S
  <1>2. Covers(S, A) /\ Covers(S, B) /\ Covers(S, C) /\ Covers(S, D)
    BY <1>1, CoversGot, CoversWider
  <1> HIDE DEF A, B, C, D
  <1>3. Covers(S, A \union B \union C \union D)
    BY <1>2, CoversMore
  <1>4. Got!parseAuth = Got!Within(<<"auth">>, <<>>, Got!Nullable(Got!Object), Got!Required,
          A \union B \union C \union D)
    BY DEF Got!parseAuth, A, B, C, D
  <1>5. QUERY_AUTH.selection = Under("auth", S)
    BY DEF QUERY_AUTH, Plain, Document, S
  <1> QED
    BY <1>3, <1>4, <1>5, CoversGot

LEMMA CoversLogItem ==
  Covers(Leaves({"item", "value"}),
         Got!Take({"item"}, Got!Name, Got!AsIs)
           \union Got!Take({"value"}, Got!Unseen, Got!AsIs))
  <1> DEFINE S == Leaves({"item", "value"})
             A == Got!Take({"item"}, Got!Name, Got!AsIs)
             B == Got!Take({"value"}, Got!Unseen, Got!AsIs)
  <1>1. Has(S, {"item"}) /\ Has(S, {"value"})
    BY HasLeaf, UnderPair DEF Has
  <1> HIDE DEF S
  <1>2. Covers(S, A) /\ Covers(S, B)
    BY <1>1, CoversGot, CoversWider
  <1> HIDE DEF A, B
  <1>3. Covers(S, A \union B)
    BY <1>2, CoversMore
  <1> QED
    BY <1>3 DEF S, A, B

LEMMA CoversLogs == Covers(QUERY_INTERNAL_LOGS.selection, Got!internalLogs)
  <1> DEFINE M == Under("metadata", Leaves({"item", "value"}))
             S == Leaves({"id", "timestamp", "message", "process"}) \union M
             A == Got!Take({"id"}, Got!Num, Got!AsIs)
             B == Got!Take({"timestamp"}, Got!Name, Got!AsIs)
             C == Got!Take({"message"}, Got!Text, Got!AsIs)
             D == Got!Within(<<"metadata">>, <<"metadata">>, Got!List, Got!AsIs,
                    Got!Take({"item"}, Got!Name, Got!AsIs)
           \union Got!Take({"value"}, Got!Unseen, Got!AsIs))
             E == Got!Take({"process"}, Got!Nullable(Got!Name), Got!AsIs)
  <1>1. /\ Has(S, {"id"}) /\ Has(S, {"timestamp"}) /\ Has(S, {"message"})
        /\ Has(S, {"process"})
    BY HasLeaf, UnderPair DEF Has
  <1>2. M \subseteq S
    OBVIOUS
  <1>3. Covers(M, D)
    BY CoversLogItem, CoversGot
  <1> HIDE DEF M, S
  <1>4. Covers(S, A) /\ Covers(S, B) /\ Covers(S, C) /\ Covers(S, D) /\ Covers(S, E)
    BY <1>1, <1>2, <1>3, CoversGot, CoversWider
  <1> HIDE DEF A, B, C, D, E
  <1>5. Covers(S, A \union B \union C \union D \union E)
    BY <1>4, CoversMore
  <1>6. Got!internalLogs = Got!Within(<<"internalLogs">>, <<"each">>, Got!List, Got!AsIs, A
        \union B \union C \union D \union E)
    BY DEF Got!internalLogs, Got!Elements, A, B, C, D, E
  <1>7. QUERY_INTERNAL_LOGS.selection = Under("internalLogs", S)
    BY DEF QUERY_INTERNAL_LOGS, Document, M, S
  <1> QED
    BY <1>5, <1>6, <1>7, CoversGot

LEMMA CoversKeys ==
  Covers(Leaves({"publicKey", "privateKey"}),
         Got!Take({"publicKey", "privateKey"}, Got!Name, Got!AsIs))
  <1> DEFINE S == Leaves({"publicKey", "privateKey"})
             A == Got!Take({"publicKey", "privateKey"}, Got!Name, Got!AsIs)
  <1>1. Has(S, {"publicKey", "privateKey"})
    BY HasLeaf, UnderPair DEF Has
  <1> HIDE DEF S
  <1>2. Covers(S, A)
    BY <1>1, CoversGot, CoversWider
  <1> HIDE DEF A
  <1> QED
    BY <1>2 DEF S, A

LEMMA CoversAccounts == Covers(MUTATION_CREATE_ACCOUNTS.selection, Got!createAccounts)
  <1> DEFINE M == Under("accounts", Leaves({"publicKey", "privateKey"}))
             S == {<<"handle">>} \union M
             A == Got!Take({"handle"}, Got!Name, Got!AsIs)
             B == Got!Within(<<"accounts">>, <<"accounts">>, Got!List, Got!AsIs,
                    Got!Take({"publicKey", "privateKey"}, Got!Name, Got!AsIs))
  <1>1. Has(S, {"handle"})
    BY HasLeaf, UnderPair DEF Has
  <1>2. M \subseteq S
    OBVIOUS
  <1>3. Covers(M, B)
    BY CoversKeys, CoversGot
  <1> HIDE DEF M, S
  <1>4. Covers(S, A) /\ Covers(S, B)
    BY <1>1, <1>2, <1>3, CoversGot, CoversWider
  <1> HIDE DEF A, B
  <1>5. Covers(S, A \union B)
    BY <1>4, CoversMore
  <1>6. Got!createAccounts = Got!Inside(<<"createAccounts">>, <<>>, A \union B)
    BY DEF Got!createAccounts, A, B
  <1>7. MUTATION_CREATE_ACCOUNTS.selection = Under("createAccounts", S)
    BY DEF MUTATION_CREATE_ACCOUNTS, Document, M, S
  <1> QED
    BY <1>5, <1>6, <1>7, CoversGot

LEMMA CoversGenesisConstants == Covers(QUERY_GENESIS_CONSTANTS.selection, Got!getGenesisConstants)
  <1> DEFINE S == Leaves({"genesisTimestamp", "coinbase", "accountCreationFee"})
             A == Got!Take({"genesisTimestamp"}, Got!Name, Got!AsIs)
             B == Got!Take({"coinbase", "accountCreationFee"}, Got!Digits, Got!AsIs)
  <1>1. Has(S, {"genesisTimestamp"}) /\ Has(S, {"coinbase", "accountCreationFee"})
    BY HasLeaf, UnderPair DEF Has
  <1> HIDE DEF S
  <1>2. Covers(S, A) /\ Covers(S, B)
    BY <1>1, CoversGot, CoversWider
  <1> HIDE DEF A, B
  <1>3. Covers(S, A \union B)
    BY <1>2, CoversMore
  <1>4. Got!getGenesisConstants = Got!Inside(<<"genesisConstants">>, <<>>, A \union B)
    BY DEF Got!getGenesisConstants, A, B
  <1>5. QUERY_GENESIS_CONSTANTS.selection = Under("genesisConstants", S)
    BY DEF QUERY_GENESIS_CONSTANTS, Plain, Document, S
  <1> QED
    BY <1>3, <1>4, <1>5, CoversGot

LEMMA CoversTracked == Covers(QUERY_TRACKED_ACCOUNTS.selection, Got!getTrackedAccounts)
  <1> DEFINE S == {<<"publicKey">>} \union Under("balance", {<<"total">>})
             A == Got!Take({"publicKey"}, Got!Name, Got!AsIs)
             B == {Got!Rule(<<"balance", "total">>, <<"balance">>, Got!Digits, Got!AsIs)}
  <1>1. Has(S, {"publicKey"}) /\ <<"balance", "total">> \in S
    BY HasLeaf, UnderPair DEF Has
  <1> HIDE DEF S
  <1>2. Covers(S, A) /\ Covers(S, B)
    BY <1>1, CoversGot, CoversWider
  <1> HIDE DEF A, B
  <1>3. Covers(S, A \union B)
    BY <1>2, CoversMore
  <1>4. Got!getTrackedAccounts = Got!Within(<<"trackedAccounts">>, <<"each">>,
        Got!Nullable(Got!List), Got!Else("[]"), A \union B)
    BY DEF Got!getTrackedAccounts, Got!Elements, A, B
  <1>5. QUERY_TRACKED_ACCOUNTS.selection = Under("trackedAccounts", S)
    BY DEF QUERY_TRACKED_ACCOUNTS, Plain, Document, S
  <1> QED
    BY <1>3, <1>4, <1>5, CoversGot

LEMMA CoversMetricFields ==
  Covers(Leaves({"blockProductionDelay", "transactionPoolDiffReceived",
  "transactionPoolDiffBroadcasted", "transactionsAddedToPool", "transactionPoolSize",
  "snarkPoolDiffReceived", "snarkPoolDiffBroadcasted", "pendingSnarkWork", "snarkPoolSize"}),
         Got!Take({"blockProductionDelay"}, Got!List, Got!AsIs)
           \union Got!Take({"transactionPoolDiffReceived", "transactionPoolDiffBroadcasted",
           "transactionsAddedToPool", "transactionPoolSize", "snarkPoolDiffReceived",
           "snarkPoolDiffBroadcasted", "pendingSnarkWork", "snarkPoolSize"}, Got!Num, Got!AsIs))
  <1> DEFINE S == Leaves({"blockProductionDelay", "transactionPoolDiffReceived",
             "transactionPoolDiffBroadcasted", "transactionsAddedToPool", "transactionPoolSize",
             "snarkPoolDiffReceived", "snarkPoolDiffBroadcasted", "pendingSnarkWork",
             "snarkPoolSize"})
             A == Got!Take({"blockProductionDelay"}, Got!List, Got!AsIs)
             B == Got!Take({"transactionPoolDiffReceived", "transactionPoolDiffBroadcasted",
                    "transactionsAddedToPool", "transactionPoolSize", "snarkPoolDiffReceived",
                    "snarkPoolDiffBroadcasted", "pendingSnarkWork", "snarkPoolSize"}, Got!Num,
                    Got!AsIs)
  <1>1. /\ Has(S, {"blockProductionDelay"})
        /\ Has(S, {"transactionPoolDiffReceived", "transactionPoolDiffBroadcasted",
           "transactionsAddedToPool", "transactionPoolSize", "snarkPoolDiffReceived",
           "snarkPoolDiffBroadcasted", "pendingSnarkWork", "snarkPoolSize"})
    BY HasLeaf, UnderPair DEF Has
  <1> HIDE DEF S
  <1>2. Covers(S, A) /\ Covers(S, B)
    BY <1>1, CoversGot, CoversWider
  <1> HIDE DEF A, B
  <1>3. Covers(S, A \union B)
    BY <1>2, CoversMore
  <1> QED
    BY <1>3 DEF S, A, B

LEMMA CoversMetrics == Covers(QUERY_DAEMON_METRICS.selection, Got!getDaemonMetrics)
  BY CoversMetricFields, CoversGot DEF QUERY_DAEMON_METRICS, Plain, Document, Got!getDaemonMetrics

\* The blocks: the three documents select the same fields.
LEMMA CoversBlocks ==
  /\ Covers(QUERY_BEST_CHAIN.selection, Got!getBestChain)
  /\ Covers(QUERY_GENESIS_BLOCK.selection, Got!getGenesisBlock)
  <1>1. Covers(BlockFields, Got!parseBlockInfo)
    BY CoversBlockInfo, CoversEpochData DEF Got!parseBlockInfo
  <1>2. /\ QUERY_BEST_CHAIN.selection = Under("bestChain", BlockFields)
        /\ QUERY_GENESIS_BLOCK.selection = Under("genesisBlock", BlockFields)
    BY DEF QUERY_BEST_CHAIN, QUERY_GENESIS_BLOCK, Plain, Document
  <1> QED
    BY <1>1, <1>2, CoversGot DEF Got!getBestChain, Got!Elements, Got!getGenesisBlock

LEMMA CoversBlock == Covers(QUERY_BLOCK.selection, Got!getBlock)
  <1> DEFINE B == Got!blockInfo(Got!blockEpochData)
             R == {Got!inBlock(r) : r \in B}
  <1>1. Covers(BlockFields, B)
    BY CoversBlockInfo, CoversBlockEpoch
  <1>2. ASSUME NEW s \in R
        PROVE  \E r \in B : s.from = r.from
    <2>1. PICK r \in B : s = Got!inBlock(r)
      OBVIOUS
    <2>2. r = [from |-> r.from, to |-> r.to, wire |-> r.wire, how |-> r.how]
      BY SoundBlockInfo, SoundEpochData DEF Sound
    <2>3. Got!inBlock(r).from = r.from
      BY <2>2 DEF Got!inBlock
    <2> QED
      BY <2>1, <2>3
  <1>3. Got!getBlock = Got!Within(<<"block">>, <<>>, Got!Nullable(Got!Object), Got!Required, R)
    BY DEF Got!getBlock
  <1> HIDE DEF B, R
  <1>4. Covers(BlockFields, R)
    BY <1>1, <1>2, CoversSame
  <1>5. QUERY_BLOCK.selection = Under("block", BlockFields)
    BY DEF QUERY_BLOCK, Document
  <1> QED
    BY <1>3, <1>4, <1>5, CoversGot

LEMMA CoversLists ==
  /\ Covers(QUERY_PEERS.selection, Got!getPeers)
  /\ Covers(QUERY_POOLED_ZKAPP_COMMANDS.selection, Got!getPooledZkappCommands)
  /\ Covers(QUERY_SNARK_POOL.selection, Got!getSnarkPool)
  <1>1. Covers(QUERY_PEERS.selection, Got!getPeers)
    BY CoversPeers, CoversGot DEF QUERY_PEERS, Plain, Document, Got!getPeers, Got!Elements
  <1>2. Covers(QUERY_POOLED_ZKAPP_COMMANDS.selection, Got!getPooledZkappCommands)
    BY CoversSubmittedZkapp, CoversGot
    DEF QUERY_POOLED_ZKAPP_COMMANDS, Document, Got!getPooledZkappCommands, Got!Elements
  <1>3. {"prover", "fee", "workIds"} = {"fee", "prover", "workIds"}
    OBVIOUS
  <1>4. QUERY_SNARK_POOL.selection = Under("snarkPool", Leaves({"prover", "fee", "workIds"}))
    BY <1>3 DEF QUERY_SNARK_POOL, Plain, Document
  <1>5. Covers(QUERY_SNARK_POOL.selection, Got!getSnarkPool)
    BY <1>4, CoversSnarkWork, CoversGot DEF Got!getSnarkPool, Got!Elements
  <1> QED
    BY <1>1, <1>2, <1>5

LEMMA CoversSubmitted ==
  /\ Covers(MUTATION_SEND_PAYMENT.selection, Got!sendPayment)
  /\ Covers(MUTATION_SEND_DELEGATION.selection, Got!sendDelegation)
  /\ Covers(MUTATION_SEND_ZKAPP.selection, Got!sendZkapp)
  BY CoversSubmittedCommand, CoversSubmittedZkapp, CoversGot
  DEF MUTATION_SEND_PAYMENT, MUTATION_SEND_DELEGATION, MUTATION_SEND_ZKAPP, Document,
      Got!sendPayment, Got!sendDelegation, Got!sendZkapp

\* What is the result itself.
LEMMA CoversReturned ==
  /\ \A n, w, h : Covers({<<n>>}, Got!Returned(n, w, h))
  /\ \A m, n, w, h : Covers(Under(m, {<<n>>}), Got!Inside(<<m>>, <<>>, Got!Returned(n, w, h)))
  BY CoversGot DEF Got!Returned

LEMMA CoversTexts ==
  /\ Covers(QUERY_SYNC_STATUS.selection, Got!getSyncStatus)
  /\ Covers(QUERY_NETWORK_ID.selection, Got!getNetworkId)
  /\ Covers(QUERY_FORK_CONFIG.selection, Got!getForkConfig)
  /\ Covers(QUERY_TRANSACTION_STATUS.selection, Got!getTransactionStatus)
  /\ Covers(QUERY_SLOTS_WON.selection, Got!slotsWon)
  /\ Covers(QUERY_SCHEDULED_TRANSACTIONS.selection, Got!scheduledTransactions)
  /\ Covers(MUTATION_ZKAPP_COMMAND_LIMIT.selection, Got!setZkappCommandLimit)
  BY CoversReturned
  DEF QUERY_SYNC_STATUS, QUERY_NETWORK_ID, QUERY_FORK_CONFIG, QUERY_TRANSACTION_STATUS,
      QUERY_SLOTS_WON, QUERY_SCHEDULED_TRANSACTIONS, MUTATION_ZKAPP_COMMAND_LIMIT, Plain, Document,
      Got!getSyncStatus, Got!getNetworkId, Got!getForkConfig, Got!getTransactionStatus,
      Got!slotsWon, Got!scheduledTransactions, Got!setZkappCommandLimit

LEMMA CoversInner ==
  /\ Covers(MUTATION_UNLOCK_ACCOUNT.selection, Got!unlockAccount)
  /\ Covers(MUTATION_SET_SNARK_WORKER.selection, Got!setSnarkWorker)
  /\ Covers(MUTATION_SET_SNARK_WORK_FEE.selection, Got!setSnarkWorkFee)
  /\ Covers(QUERY_COMMIT_ID.selection, Got!commitId)
  BY CoversReturned
  DEF MUTATION_UNLOCK_ACCOUNT, MUTATION_SET_SNARK_WORKER, MUTATION_SET_SNARK_WORK_FEE,
      QUERY_COMMIT_ID, Plain, Document, Got!unlockAccount, Got!setSnarkWorker,
      Got!setSnarkWorkFee, Got!commitId

LEMMA CoversHandles ==
  /\ Covers(MUTATION_FLUSH_INTERNAL_LOGS.selection, Got!handleOf("flushInternalLogs"))
  /\ Covers(MUTATION_SCHEDULE_PAYMENTS.selection, Got!handleOf("schedulePayments"))
  /\ Covers(MUTATION_SCHEDULE_ZKAPP_COMMANDS.selection, Got!handleOf("scheduleZkappCommands"))
  /\ Covers(MUTATION_STOP_SCHEDULED_TRANSACTIONS.selection,
            Got!handleOf("stopScheduledTransactions"))
  /\ Covers(MUTATION_UPDATE_GATING.selection, Got!handleOf("updateGating"))
  /\ Covers(MUTATION_STOP_DAEMON.selection, Got!handleOf("stopDaemon"))
  /\ Covers(MUTATION_SCHEDULE_PAYMENTS_WITH_HANDLE.selection, Got!handleOf("schedulePayments"))
  /\ Covers(MUTATION_SCHEDULE_ZKAPP_COMMANDS_WITH_HANDLE.selection,
            Got!handleOf("scheduleZkappCommands"))
  BY CoversReturned
  DEF MUTATION_FLUSH_INTERNAL_LOGS, MUTATION_SCHEDULE_PAYMENTS, MUTATION_SCHEDULE_ZKAPP_COMMANDS,
      MUTATION_STOP_SCHEDULED_TRANSACTIONS, MUTATION_UPDATE_GATING, MUTATION_STOP_DAEMON,
      MUTATION_SCHEDULE_PAYMENTS_WITH_HANDLE, MUTATION_SCHEDULE_ZKAPP_COMMANDS_WITH_HANDLE,
      Document, Got!handleOf

\* Every method selects what it reads.
CoversMethod(m) == Covers(m.document.selection, m.decoding)

LEMMA CoversQueries == \A name \in DOMAIN Queries : CoversMethod(Queries[name])
  BY TheQueries, MethodOf, CoversStatus, CoversMetrics, CoversAccount, CoversBlocks, CoversBlock,
     CoversLists, CoversPooledUserCommands, CoversGenesisConstants, CoversTracked, CoversTexts
  DEF CoversMethod

LEMMA CoversMutations == \A name \in DOMAIN Mutations : CoversMethod(Mutations[name])
  BY TheMutations, MethodOf, CoversSubmitted, CoversInner DEF CoversMethod

LEMMA CoversItn == \A name \in DOMAIN ItnOperations : CoversMethod(ItnOperations[name])
  BY TheItnOperations, MethodOf, CoversTexts, CoversInner, CoversHandles, CoversAuth, CoversLogs,
     CoversAccounts DEF Handled, CoversMethod

\* No method reads a field that its document does not select.
LEMMA AllCovers == \A name \in DOMAIN Methods : CoversMethod(Methods[name])
  BY CoversQueries, CoversMutations, CoversItn DEF Methods

-----------------------------------------------------------------------------
\* The theorem.

\* What a document selects includes everything above it.
Selects(m) ==
  m.selected = m.document.selection \union UNION {Above(leaf) : leaf \in m.document.selection}

LEMMA SelectsMethod ==
  /\ \A a, d, r, t : Selects(Method(a, d, r, t))
  /\ \A a, d, f : Selects(Handled(a, d, f))
  BY DEF Selects, Method, Handled

\* What is selected of an answer: the document's leaves and all above them.
LEMMA AllSelect == \A name \in DOMAIN Methods : Selects(Methods[name])
  <1>1. \A name \in DOMAIN Queries : Selects(Queries[name])
    BY TheQueries, SelectsMethod
  <1>2. \A name \in DOMAIN Mutations : Selects(Mutations[name])
    BY TheMutations, SelectsMethod
  <1>3. \A name \in DOMAIN ItnOperations : Selects(ItnOperations[name])
    BY TheItnOperations, SelectsMethod
  <1> QED
    BY <1>1, <1>2, <1>3 DEF Methods

LEMMA AllSelected ==
  \A name \in DOMAIN Methods : Reads(Methods[name].decoding, Methods[name].selected)
  <1> SUFFICES ASSUME NEW m, CoversMethod(m), Selects(m)
               PROVE  Reads(m.decoding, m.selected)
    BY AllCovers, AllSelect
  <1> QED
    BY DEF Reads, CoversMethod, Covers, Selects

\* Whichever fields the daemon answers oddly, up to any MostOdd of them, what it
\* has to say about a field that a method reads reaches the caller with its
\* meaning.
THEOREM NothingIsLost == Spec => []NothingLost
  <1>1. IInv => NothingLost
    <2> SUFFICES ASSUME IInv, phase = "over", ~Throws, NEW r \in Called.decoding,
                        There(r, answer), Meaning(Held(r, answer)) # "nothing"
                 PROVE  r.to \in DOMAIN result /\ Meaning(result[r.to]) = Meaning(Held(r, answer))
      BY DEF NothingLost
    <2>1. /\ operation \in DOMAIN Methods /\ answer \subseteq OddValues(Called.decoding)
          /\ result = Decode(Called, answer)
      BY DEF IInv, Made
    <2>2. Tree(Called.decoding) /\ Reads(Called.decoding, Called.selected)
      BY <2>1, AllTrees, AllSelected DEF Called
    <2>3. Honest(Called.decoding)
      BY <2>1, AllRead DEF Called, Sound, Fine, SaysSame, Honest
    <2>4. \A path \in DOMAIN Decode(Called, answer) : Decode(Called, answer)[path] # "throws"
      BY <2>1 DEF Throws
    <2> QED
      BY <2>1, <2>2, <2>3, <2>4, AnswerKept
  <1> QED
    BY <1>1, Always, PTL
=============================================================================
