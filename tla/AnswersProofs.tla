---------------------------- MODULE AnswersProofs ----------------------------
(***************************************************************************)
(* What the results of the methods are, for every MostOdd and ManyOdd and  *)
(* so for every finite set of odd values that may come (EverySetComes).    *)
(* What the daemon does not say is not made up, but for the defaults of    *)
(* the result types: no rule makes anything else of nothing, and none      *)
(* reads anything beneath an object that is not there.  A claim taken from *)
(* a block differs from the block's proof where the daemon's answer did.   *)
(* And every field of a result has the type that the method declares.      *)
(* The trees that the tables are, are those of OperationsProofs.           *)
(***************************************************************************)
EXTENDS OperationsProofs

-----------------------------------------------------------------------------
\* What the daemon does not have is not made up: a table that makes up nothing
\* but its defaults.

\* The last field of a path.
Last(p) == p[Len(p)]

\* A value that a field may get in place of what the daemon does not have.
Quiet(u, n, D) == Meaning(u) = "nothing" \/ u = "throws" \/ <<n, u>> \in D

\* No odd value of the field becomes an object, with fields of its own.
Shut(q) == \A v \in q.wire.odd : q.how[v] # "{}"

\* A table makes nothing up, but for the defaults in D: neither of a value
\* that says nothing, nor beneath what such a value is made an object of.
Modest(R, D) ==
  /\ \A r \in R : \A v \in Comes(r.wire) :
       Meaning(v) = "nothing" => Quiet(r.how[v], Last(r.to), D)
  /\ \A q, r \in R : q.to \in Above(r.to) =>
       Shut(q) \/ Quiet(r.how["undefined"], Last(r.to), D)

\* Of the odd values above a field there is a topmost one.
LEMMA Topmost ==
  ASSUME NEW S, S # {}, \A p \in S : Path(p)
  PROVE  \E p \in S : \A q \in S : ~(Len(q) < Len(p))
  <1> DEFINE Less == OpToRel(<, Nat)
             T == {Len(p) : p \in S}
  <1>1. T \subseteq Nat /\ T # {}
    BY PathIs
  <1>2. PICK n \in T : \A m \in T : <<m, n>> \notin Less
    <2>1. IsWellFoundedOn(Less, Nat)
      BY NatLessThanWellFounded
    <2> HIDE DEF Less, T
    <2> QED
      BY <1>1, <2>1, WFMin
  <1>3. PICK p \in S : Len(p) = n
    OBVIOUS
  <1>4. ASSUME NEW q \in S, Len(q) < Len(p) PROVE FALSE
    <2>1. <<Len(q), n>> \in Less
      BY <1>1, <1>3, <1>4 DEF OpToRel
    <2> QED
      BY <1>2, <2>1
  <1> QED
    BY <1>4

\* A field of the result that says something was told, or is a default.
LEMMA AnswerTold ==
  ASSUME NEW m, NEW D, Tree(m.decoding), Modest(m.decoding, D), Reads(m.decoding, m.selected),
         NEW odd \in SUBSET OddValues(m.decoding),
         \A path \in DOMAIN Decode(m, odd) : Decode(m, odd)[path] # "throws",
         NEW r \in m.decoding, r.to \in DOMAIN Decode(m, odd),
         Meaning(Decode(m, odd)[r.to]) # "nothing"
  PROVE  \/ There(r, odd) /\ Meaning(Held(r, odd)) # "nothing"
         \/ <<Last(r.to), Decode(m, odd)[r.to]>> \in D
  <1> DEFINE R == m.decoding
  <1>1. /\ Decode(m, odd)[r.to] = Becomes(r, odd)
        /\ \A q \in R : q.to \in Above(r.to) => Becomes(q, odd) = "{}"
    <2>1. \A q \in m.decoding :
             /\ q.to \in DOMAIN Decode(m, odd) <=>
                  /\ Becomes(q, odd) # "absent"
                  /\ \A s \in m.decoding : s.to \in Above(q.to) => Becomes(s, odd) = "{}"
             /\ q.to \in DOMAIN Decode(m, odd) => Decode(m, odd)[q.to] = Becomes(q, odd)
      BY Decoded
    <2> QED
      BY <2>1
  <1>2. ASSUME ~There(r, odd)
        PROVE  Quiet(r.how["undefined"], Last(r.to), D)
    <2> DEFINE S == {p[1] : p \in {x \in odd : x[1] \in Above(r.from) /\ x[2] # "{}"}}
    <2>1. Path(r.from) /\ \A x \in S : Path(x) /\ x \in Above(r.from)
      BY AboveIs DEF Tree
    <2>2. S # {}
      BY <1>2 DEF There
    <2> HIDE DEF S
    <2>3. PICK x \in S : \A y \in S : ~(Len(y) < Len(x))
      BY <2>1, <2>2, Topmost
    <2>4. PICK p \in odd : p[1] = x /\ x \in Above(r.from) /\ p[2] # "{}"
      <3>1. \E p \in {z \in odd : z[1] \in Above(r.from) /\ z[2] # "{}"} : x = p[1]
        BY <2>3 DEF S
      <3> QED
        BY <3>1
    <2>5. PICK q \in R : \E v \in q.wire.odd : p = <<q.from, v>>
      BY DEF OddValues
    <2>6. q.from = x
      <3>1. p[1] = q.from
        BY <2>5
      <3> QED
        BY <2>4, <3>1
    <2>7. There(q, odd)
      <3> SUFFICES ASSUME NEW y \in odd, y[1] \in Above(x), y[2] # "{}" PROVE FALSE
        BY <2>6 DEF There
      <3>1. y[1] \in Above(r.from) /\ Len(y[1]) < Len(x)
        BY <2>1, AboveAbove, AboveIs
      <3>2. y[1] \in S
        BY <3>1 DEF S
      <3> QED
        BY <3>1, <3>2, <2>3
    <2>8. Held(q, odd) \in q.wire.odd
      <3> DEFINE here == {z \in odd : z[1] = q.from}
      <3>1. here # {} /\ \A z \in here : z[2] \in q.wire.odd
        BY <2>4, <2>6, HeldOdd
      <3> QED
        BY <3>1 DEF Held
    <2>9. q.to \in Above(r.to)
      BY <2>4, <2>6 DEF Tree
    <2>10. ~Shut(q)
      BY <1>1, <2>7, <2>8, <2>9 DEF Shut, Becomes
    <2> QED
      BY <2>9, <2>10 DEF Modest
  <1>3. Held(r, odd) \in Comes(r.wire)
    BY HeldWire
  <1>4. ASSUME There(r, odd), Meaning(Held(r, odd)) = "nothing"
        PROVE  Quiet(r.how[Held(r, odd)], Last(r.to), D)
    BY <1>3, <1>4 DEF Modest
  <1>5. Becomes(r, odd) # "throws" /\ Meaning(Becomes(r, odd)) # "nothing"
    BY <1>1
  <1> QED
    BY <1>1, <1>2, <1>4, <1>5 DEF Quiet, Becomes

-----------------------------------------------------------------------------
\* The conversions that make nothing of nothing, and the wires that they read.

\* What says nothing is made into what says nothing, or refused.
Hushed(u) == Meaning(u) = "nothing" \/ u = "throws"
Hushes(how) ==
  \A v \in Values : /\ how[v] = "{}" => v = "{}"
                    /\ Meaning(v) = "nothing" => Hushed(how[v])

\* What comes over a wire are values, and an object is none of the odd ones.
Decent(wire) == Comes(wire) \subseteq Values /\ "{}" \notin wire.odd

\* What comes over a wire and says nothing is hushed, and no odd value becomes an
\* object.
Calm(wire, how) ==
  /\ \A v \in wire.odd : how[v] # "{}"
  /\ \A v \in Comes(wire) : Meaning(v) = "nothing" => Hushed(how[v])

\* The defaults that every method has.
CommonDefaults ==
  {<<"creatorPublicKey", "'unknown'">>, <<"isBlockProducer", "false">>}
  \union {<<path[1], "''">> : path \in Timing}

\* A rule whose field has a default.
Excused(r) ==
  /\ Path(r.to) /\ r.to # <<>> /\ Shut(r)
  /\ \A v \in Comes(r.wire) :
       Meaning(v) = "nothing" => Quiet(r.how[v], Last(r.to), CommonDefaults)

\* Every rule is calm or has one of these defaults.
Humble(R) == \A r \in R : Calm(r.wire, r.how) \/ Excused(r)

\* A humble table is modest, as far as the defaults of all methods go.
LEMMA HumbleIsModest ==
  ASSUME NEW R, Humble(R), NEW D, CommonDefaults \subseteq D
  PROVE  Modest(R, D)
  <1>1. ASSUME NEW r \in R, NEW v \in Comes(r.wire), Meaning(v) = "nothing"
        PROVE  Quiet(r.how[v], Last(r.to), D)
    BY <1>1 DEF Humble, Calm, Excused, Quiet, Hushed
  <1>2. \A q \in R : Shut(q)
    BY DEF Humble, Calm, Excused, Shut
  <1> QED
    BY <1>1, <1>2 DEF Modest

\* The values that say nothing.
LEMMA SaysNothing ==
  \A v \in Values : Meaning(v) = "nothing" => v \in {"undefined", "null", "absent", "[]", "{nulls}"}
  BY DEF Values, Texts, Numbers, Flags, Amounts, Nullish, Meaning

\* They are hushed.
LEMMA HushedValues ==
  Hushed("undefined") /\ Hushed("null") /\ Hushed("absent") /\ Hushed("[]") /\ Hushed("{nulls}")
    /\ Hushed("throws")
  BY MeaningOf DEF Hushed

\* The conversions that keep a value keep its silence.
LEMMA HushesBasic == Hushes(AsIs) /\ Hushes(FromGraphQL)
  <1>1. Hushes(AsIs)
    BY HowAsIs, SaysNothing, HushedValues DEF Hushes
  <1>2. Hushes(FromGraphQL)
    BY SaysNothing, HushedValues DEF Hushes, FromGraphQL
  <1> QED
    BY <1>1, <1>2

\* A test before a conversion keeps it hushed when what it yields is.
LEMMA HushesWhen ==
  ASSUME NEW test, NEW yes, yes # "{}", NEW no,
         \A v \in Values \ test : /\ no[v] = "{}" => v = "{}"
                                  /\ Meaning(v) = "nothing" => Hushed(no[v]),
         Hushed(yes) \/ \A v \in test : Meaning(v) # "nothing"
  PROVE  Hushes(When(test, yes, no))
  BY DEF Hushes, When

\* The tests and defaults of the decoding functions make nothing up.
LEMMA HushesMore ==
  /\ \A f : Hushes(f) => /\ Hushes(UnlessNull(f)) /\ Hushes(UnlessUndefined(f))
                         /\ Hushes(IfTruthy(f)) /\ Hushes(OrNull(f))
  /\ Hushes(OrNull(String)) /\ Hushes(Else("null")) /\ Hushes(Else("[]")) /\ Hushes(Required)
  /\ Hushes(When({"null", "{nulls}"}, "null", AsIs))
  <1>1. ASSUME NEW f, Hushes(f), NEW test, NEW yes, yes # "{}", Hushed(yes)
        PROVE  Hushes(When(test, yes, f))
    <2>1. \A v \in Values \ test : /\ f[v] = "{}" => v = "{}"
                                   /\ Meaning(v) = "nothing" => Hushed(f[v])
      BY <1>1 DEF Hushes
    <2> QED
      BY <1>1, <2>1, HushesWhen
  <1>2. Hushes(OrNull(String))
    <2>1. \A v \in Values \ Nullish : /\ String[v] = "{}" => v = "{}"
                                      /\ Meaning(v) = "nothing" => Hushed(String[v])
      BY SaysNothing, HushedValues DEF String, Nullish
    <2> QED
      BY <2>1, HushesWhen, HushedValues DEF OrNull
  <1> QED
    BY <1>1, <1>2, HushesBasic, HushedValues
    DEF UnlessNull, UnlessUndefined, IfTruthy, OrNull, Else, Required

\* Nothing is no port and no sequence number: it is refused.
LEMMA HushesUint16 == Hushes(Got!parseUint16)
  BY GotValues, GotHow, SaysNothing, HushedValues DEF Hushes, Got!parseUint16, Number

\* Numbers and texts are made of what is one.
LEMMA CalmNumbers ==
  /\ Calm(Either, Number) /\ Calm(Either, String) /\ Calm(Digits, String)
  /\ Calm(Nullable(Either), UnlessNull(Number)) /\ Calm(Nullable(Either), OrNull(Number))
  <1>1. \A v \in {"'1'", "'0'", "1", "0"} :
          /\ Meaning(v) # "nothing" /\ Number[v] # "{}" /\ String[v] # "{}"
          /\ UnlessNull(Number)[v] # "{}" /\ OrNull(Number)[v] # "{}"
    BY MeaningOf, InValues DEF Number, String, UnlessNull, OrNull, When, Nullish
  <1>2. UnlessNull(Number)["null"] = "absent" /\ OrNull(Number)["null"] = "null"
    BY InValues DEF UnlessNull, OrNull, When, Nullish
  <1>3. /\ \A v \in Comes(Either) : v \in {"'1'", "'0'", "1", "0"}
        /\ \A v \in Comes(Digits) : v \in {"'1'", "'0'", "1", "0"}
        /\ \A v \in Comes(Nullable(Either)) : v \in {"'1'", "'0'", "1", "0"} \/ v = "null"
    BY DEF Comes, Either, Digits, Nullable, Wire
  <1>4. \A w : \A v \in w.odd : v \in Comes(w)
    BY DEF Comes
  <1>5. Calm(Either, Number) /\ Calm(Either, String) /\ Calm(Digits, String)
    BY <1>1, <1>3, <1>4 DEF Calm
  <1>6. Calm(Nullable(Either), UnlessNull(Number)) /\ Calm(Nullable(Either), OrNull(Number))
    BY <1>1, <1>2, <1>3, <1>4, HushedValues DEF Calm
  <1> QED
    BY <1>5, <1>6

\* No wire has an odd value that is an object, and all carry values.
LEMMA DecentWires ==
  /\ Decent(Name) /\ Decent(Hash) /\ Decent(Text) /\ Decent(Digits) /\ Decent(Num)
  /\ Decent(Either) /\ Decent(Flag) /\ Decent(Object) /\ Decent(List) /\ Decent(Unseen)
  /\ Decent(Nullable(Name)) /\ Decent(Nullable(Text)) /\ Decent(Nullable(Digits))
  /\ Decent(Nullable(Num)) /\ Decent(Nullable(Either)) /\ Decent(Nullable(Flag))
  /\ Decent(Nullable(Object)) /\ Decent(Nullable(List))
  /\ Decent(Optional(Name)) /\ Decent(Optional(Digits)) /\ Decent(Optional(Text))
  /\ Decent(Chained(Name)) /\ Decent(Chained(Nullable(Name)))
  <1>1. /\ "{}" \notin Name.odd /\ "{}" \notin Hash.odd /\ "{}" \notin Text.odd
        /\ "{}" \notin Digits.odd /\ "{}" \notin Num.odd /\ "{}" \notin Either.odd
        /\ "{}" \notin Flag.odd /\ "{}" \notin Object.odd /\ "{}" \notin List.odd
        /\ "{}" \notin Unseen.odd
    BY DEF Name, Hash, Text, Digits, Num, Either, Flag, Object, List, Unseen, Wire
  <1>2. \A p, o : "{}" \notin Wire(p, o).odd =>
          /\ "{}" \notin Nullable(Wire(p, o)).odd /\ "{}" \notin Optional(Wire(p, o)).odd
    BY DEF Nullable, Optional, Wire
  <1>3. /\ "{}" \notin Nullable(Name).odd /\ "{}" \notin Nullable(Text).odd
        /\ "{}" \notin Nullable(Digits).odd /\ "{}" \notin Nullable(Num).odd
        /\ "{}" \notin Nullable(Either).odd /\ "{}" \notin Nullable(Flag).odd
        /\ "{}" \notin Nullable(Object).odd /\ "{}" \notin Nullable(List).odd
        /\ "{}" \notin Optional(Name).odd /\ "{}" \notin Optional(Digits).odd
        /\ "{}" \notin Optional(Text).odd /\ "{}" \notin Chained(Name).odd
    BY <1>1, <1>2 DEF Name, Text, Digits, Num, Either, Flag, Object, List, Chained
  <1>4. "{}" \notin Chained(Nullable(Name)).odd
    BY DEF Chained, Optional, Nullable, Name, Wire
  <1> QED
    BY <1>1, <1>3, <1>4, SoundWires, SoundNullables DEF Decent

\* The same of Decoding's copy.
LEMMA GotDecent ==
  /\ Decent(Got!Name) /\ Decent(Got!Hash) /\ Decent(Got!Text) /\ Decent(Got!Digits)
  /\ Decent(Got!Num) /\ Decent(Got!Either) /\ Decent(Got!Flag) /\ Decent(Got!Object)
  /\ Decent(Got!List) /\ Decent(Got!Unseen)
  /\ Decent(Got!Nullable(Got!Name)) /\ Decent(Got!Nullable(Got!Text))
  /\ Decent(Got!Nullable(Got!Digits)) /\ Decent(Got!Nullable(Got!Num))
  /\ Decent(Got!Nullable(Got!Either)) /\ Decent(Got!Nullable(Got!Flag))
  /\ Decent(Got!Nullable(Got!Object)) /\ Decent(Got!Nullable(Got!List))
  /\ Decent(Got!Optional(Got!Name)) /\ Decent(Got!Optional(Got!Digits))
  /\ Decent(Got!Optional(Got!Text)) /\ Decent(Got!Chained(Got!Name))
  /\ Decent(Got!Chained(Got!Nullable(Got!Name)))
  BY DecentWires, GotWires

\* What may come over a wire, and how it is read, in the tables of the answers.
LEMMA GotCalm ==
  /\ \A w : Decent(w) =>
       /\ Calm(w, Got!AsIs) /\ Calm(w, Got!FromGraphQL) /\ Calm(w, Got!UnlessNull(Got!AsIs))
       /\ Calm(w, Got!UnlessUndefined(Got!AsIs))
       /\ Calm(w, Got!UnlessUndefined(Got!OrNull(Got!String)))
       /\ Calm(w, Got!OrNull(Got!AsIs)) /\ Calm(w, Got!OrNull(Got!String))
       /\ Calm(w, Got!IfTruthy(Got!AsIs)) /\ Calm(w, Got!IfTruthy(Got!FromGraphQL))
       /\ Calm(w, Got!Else("null")) /\ Calm(w, Got!Else("[]")) /\ Calm(w, Got!Required)
       /\ Calm(w, Got!parseUint16)
       /\ Calm(w, Got!When({"null", "{nulls}"}, "null", Got!AsIs))
  /\ Calm(Got!Either, Got!Number) /\ Calm(Got!Either, Got!String) /\ Calm(Got!Digits, Got!String)
  /\ Calm(Got!Nullable(Got!Either), Got!UnlessNull(Got!Number))
  /\ Calm(Got!Nullable(Got!Either), Got!OrNull(Got!Number))
  <1>1. ASSUME NEW w, Decent(w), NEW h, Hushes(h)
        PROVE  Calm(w, h)
    <2>1. \A v \in w.odd : v \in Values /\ v # "{}"
      BY <1>1 DEF Decent, Comes
    <2> QED
      BY <1>1, <2>1 DEF Calm, Hushes, Decent
  <1>2. /\ Hushes(UnlessNull(AsIs)) /\ Hushes(UnlessUndefined(AsIs))
        /\ Hushes(UnlessUndefined(OrNull(String))) /\ Hushes(OrNull(AsIs))
        /\ Hushes(IfTruthy(AsIs)) /\ Hushes(IfTruthy(FromGraphQL))
    BY HushesBasic, HushesMore
  <1>3. \A w : Decent(w) =>
       /\ Calm(w, AsIs) /\ Calm(w, FromGraphQL) /\ Calm(w, UnlessNull(AsIs))
       /\ Calm(w, UnlessUndefined(AsIs))
       /\ Calm(w, UnlessUndefined(OrNull(String)))
       /\ Calm(w, OrNull(AsIs)) /\ Calm(w, OrNull(String))
       /\ Calm(w, IfTruthy(AsIs)) /\ Calm(w, IfTruthy(FromGraphQL))
       /\ Calm(w, Else("null")) /\ Calm(w, Else("[]")) /\ Calm(w, Required)
       /\ Calm(w, Got!parseUint16)
       /\ Calm(w, When({"null", "{nulls}"}, "null", AsIs))
    BY <1>1, <1>2, HushesBasic, HushesMore, HushesUint16
  <1> QED
    BY <1>3, CalmNumbers, GotHow, GotWires

-----------------------------------------------------------------------------
\* The ways to build a table, when none of its rules makes anything up.

\* A path continued by another ends as the other does.
LEMMA LastJoin ==
  ASSUME NEW a, NEW p, Path(a), Path(p), p # <<>>
  PROVE  Path(Join(a, p)) /\ Join(a, p) # <<>> /\ Last(Join(a, p)) = Last(p)
  <1>1. /\ Path(a \o p) /\ Len(a \o p) = Len(a) + Len(p)
        /\ \A i \in 1..Len(p) : (a \o p)[Len(a) + i] = p[i]
    BY JoinIs
  <1>2. Len(p) \in 1..Len(p)
    BY PathIs
  <1>3. (a \o p)[Len(a \o p)] = p[Len(p)]
    BY <1>1, <1>2
  <1>4. Join(a, p) # <<>>
    BY Joins
  <1> QED
    BY <1>1, <1>3, <1>4 DEF Join, Last

\* The last field of a path with one.
LEMMA LastOne == \A n : Path(<<n>>) /\ <<n>> # <<>> /\ Last(<<n>>) = n
  BY One, Lit DEF Last

\* A default that is given for nothing, and in place of nothing else.
LEMMA Excuses ==
  ASSUME NEW r, NEW n, NEW d, d # "{}", <<n, d>> \in CommonDefaults, Decent(r.wire),
         r.how = Else(d), r.to = <<n>>
  PROVE  Excused(r)
  <1>1. Path(r.to) /\ r.to # <<>> /\ Last(r.to) = n
    BY LastOne
  <1>2. \A v \in Values : /\ v \in Nullish => Else(d)[v] = d
                          /\ v \notin Nullish => Else(d)[v] = v
    BY HowAsIs DEF Else, When, Nullish
  <1>3. Shut(r)
    BY <1>2 DEF Shut, Decent, Comes
  <1>4. ASSUME NEW v \in Comes(r.wire), Meaning(v) = "nothing"
        PROVE  Quiet(r.how[v], Last(r.to), CommonDefaults)
    BY <1>1, <1>2, <1>4 DEF Decent, Quiet
  <1> QED
    BY <1>1, <1>3, <1>4 DEF Excused

\* Rules that are calm.
LEMMA HumbleRule ==
  /\ \A a, b, w, h : Calm(w, h) => Humble({Rule(a, b, w, h)})
  /\ \A n, w, h : Calm(w, h) => Humble(Take(n, w, h))
  /\ \A m, n, w, h : Calm(w, h) => Humble(Move(m, n, w, h))
  /\ \A a, b, P : Humble(Whole(a, b, P))
  <1>1. ASSUME NEW a, NEW b, NEW w, NEW h
        PROVE  Rule(a, b, w, h).wire = w /\ Rule(a, b, w, h).how = h
    BY DEF Rule
  <1>2. Calm(Unseen, AsIs)
    BY GotCalm, GotDecent, GotWires, GotHow
  <1>3. \A a, b, P : Humble(Whole(a, b, P))
    BY <1>1, <1>2 DEF Humble, Whole
  <1>4. ASSUME NEW a, NEW b, NEW w, NEW h, Calm(w, h)
        PROVE  Humble({Rule(a, b, w, h)})
    BY <1>1, <1>4 DEF Humble
  <1>5. ASSUME NEW n, NEW w, NEW h, Calm(w, h)
        PROVE  Humble(Take(n, w, h))
    <2>1. \A r \in Take(n, w, h) : r.wire = w /\ r.how = h
      BY Shapes
    <2> QED
      BY <1>5, <2>1 DEF Humble
  <1> QED
    BY <1>3, <1>4, <1>5 DEF Move

\* Rules with a default.
LEMMA HumbleElse ==
  /\ \A N, w, d : Decent(w) /\ d # "{}" /\ (\A n \in N : <<n, d>> \in CommonDefaults)
       => Humble(Take(N, w, Else(d)))
  /\ \A a, n, w, d : Decent(w) /\ d # "{}" /\ <<n, d>> \in CommonDefaults
       => Humble({Rule(a, <<n>>, w, Else(d))})
  <1>1. ASSUME NEW a, NEW n, NEW w, NEW d, Decent(w), d # "{}", <<n, d>> \in CommonDefaults
        PROVE  Excused(Rule(a, <<n>>, w, Else(d)))
    <2> DEFINE r == Rule(a, <<n>>, w, Else(d))
    <2>1. r.wire = w /\ r.how = Else(d) /\ r.to = <<n>>
      BY DEF Rule
    <2> HIDE DEF r
    <2>2. Excused(r)
      BY <1>1, <2>1, Excuses
    <2> QED
      BY <2>2 DEF r
  <1> QED
    BY <1>1 DEF Humble, Take

\* A table beneath a field is as humble as it was.
LEMMA HumbleInside ==
  ASSUME NEW a, NEW b, Path(b), NEW R, Humble(R)
  PROVE  Humble(Inside(a, b, R))
  <1> SUFFICES ASSUME NEW r \in Inside(a, b, R) PROVE Calm(r.wire, r.how) \/ Excused(r)
    BY DEF Humble
  <1>1. PICK q \in R : r.to = Join(b, q.to) /\ r.wire = q.wire /\ r.how = q.how
    BY InsidePaths
  <1>2. CASE Calm(q.wire, q.how)
    BY <1>1, <1>2
  <1>3. CASE Excused(q)
    <2>1. Path(r.to) /\ r.to # <<>> /\ Last(r.to) = Last(q.to)
      BY <1>1, <1>3, LastJoin DEF Excused
    <2> QED
      BY <1>1, <1>3, <2>1 DEF Excused, Shut
  <1> QED
    BY <1>2, <1>3 DEF Humble

\* The same with Decoding's names for the ways to build a table.
LEMMA HumbleGot ==
  /\ \A n, w, h : Calm(w, h) => Humble(Got!Take(n, w, h))
  /\ \A m, n, w, h : Calm(w, h) => Humble(Got!Move(m, n, w, h))
  /\ \A a, b, w, h : Calm(w, h) => Humble({Got!Rule(a, b, w, h)})
  /\ \A A, B : Humble(A) /\ Humble(B) => Humble(A \union B)
  /\ \A a, R : Humble(R) => Humble(Got!Inside(a, <<>>, R))
  /\ \A a, n, R : Humble(R) => Humble(Got!Inside(a, <<n>>, R))
  /\ \A a, w, h, R : Calm(w, h) /\ Humble(R) => Humble(Got!Within(a, <<>>, w, h, R))
  /\ \A a, n, w, h, R : Calm(w, h) /\ Humble(R) => Humble(Got!Within(a, <<n>>, w, h, R))
  /\ \A a, b, P : Humble(Got!Whole(a, b, P))
  <1>1. \A A, B : Humble(A) /\ Humble(B) => Humble(A \union B)
    BY DEF Humble
  <1>2. Path(<<>>) /\ \A n : Path(<<n>>)
    BY Lit
  <1>3. \A a, b, w, h, R : Path(b) /\ Calm(w, h) /\ Humble(R) => Humble(Within(a, b, w, h, R))
    BY <1>1, HumbleInside, HumbleRule DEF Within
  <1>4. /\ \A a, R : Humble(R) => Humble(Inside(a, <<>>, R))
        /\ \A a, n, R : Humble(R) => Humble(Inside(a, <<n>>, R))
    BY <1>2, HumbleInside
  <1>5. /\ \A a, w, h, R : Calm(w, h) /\ Humble(R) => Humble(Within(a, <<>>, w, h, R))
        /\ \A a, n, w, h, R : Calm(w, h) /\ Humble(R) => Humble(Within(a, <<n>>, w, h, R))
    BY <1>2, <1>3
  <1> QED
    BY <1>1, <1>4, <1>5, HumbleRule, GotSame

\* Values and lists that are returned themselves.
LEMMA HumbleElements ==
  /\ \A f, w, h : Calm(w, h) => Humble(Got!Returned(f, w, h))
  /\ \A f, w, h, R : Calm(w, h) /\ Humble(R) => Humble(Got!Elements(f, w, h, R))
  BY HumbleGot DEF Got!Returned, Got!Elements

-----------------------------------------------------------------------------
\* Every table but that of getBlock has the defaults of all methods at most.

\* What the daemon is and does.
LEMMA HumblePeers == Humble(Got!getDaemonPeers)
  BY HumbleGot, GotDecent, GotCalm DEF Got!getDaemonPeers

LEMMA HumbleStatus == Humble(Got!getDaemonStatus)
  BY HumbleGot, GotDecent, GotCalm, HumblePeers DEF Got!getDaemonStatus

LEMMA HumbleMetrics == Humble(Got!getDaemonMetrics)
  BY HumbleGot, GotDecent, GotCalm DEF Got!getDaemonMetrics

\* Parts of several tables.
LEMMA HumbleParts == Humble(Got!failures) /\ Humble(Got!snarkWork) /\ Humble(Got!heights)
  BY HumbleGot, GotDecent, GotCalm DEF Got!failures, Got!snarkWork, Got!heights

\* A timing's fields that are null are empty texts.
LEMMA HumbleTiming == Humble(Got!parseTiming)
  <1> DEFINE w == [Got!Object EXCEPT !.odd = {"null", "{nulls}"}]
             N == {"initialMinimumBalance", "cliffTime", "cliffAmount", "vestingPeriod",
                   "vestingIncrement"}
             d == "''"
  <1>1. Decent(w)
    BY InValues, GotWires DEF Decent, Comes, Object, Wire
  <1>2. Calm(w, Got!When({"null", "{nulls}"}, "null", Got!AsIs))
    BY <1>1, GotCalm
  <1>3. ASSUME NEW n \in N PROVE <<n, d>> \in CommonDefaults
    <2>1. <<n>> \in Timing /\ <<n>>[1] = n
      BY DEF Timing, Leaves
    <2> QED
      BY <2>1 DEF CommonDefaults
  <1> HIDE DEF N, w
  <1>4. Humble(Got!Take(N, Got!Nullable(Got!Digits), Got!Else(d)))
    BY <1>3, HumbleElse, GotDecent, GotSame, GotHow
  <1> QED
    BY <1>2, <1>4, HumbleGot DEF Got!parseTiming, N, w

\* An account.
LEMMA HumbleAccount == Humble(Got!getAccount)
  <1>1. /\ Humble(Got!Take({"publicKey", "delegate", "tokenId"}, Got!Name, Got!AsIs))
        /\ Humble(Got!Take({"nonce"}, Got!Either, Got!Number))
        /\ Humble(Got!Take({"tokenSymbol"}, Got!Nullable(Got!Text), Got!UnlessNull(Got!AsIs)))
    BY HumbleGot, GotDecent, GotCalm
  <1>2. /\ Humble(Got!Take({"total"}, Got!Digits, Got!FromGraphQL))
        /\ Humble(Got!Take({"liquid", "locked"}, Got!Nullable(Got!Digits),
                          Got!IfTruthy(Got!FromGraphQL)))
        /\ Humble(Got!Take({"blockHeight"}, Got!Nullable(Got!Either), Got!UnlessNull(Got!Number)))
    BY HumbleGot, GotDecent, GotCalm
  <1>3. /\ Humble(Got!Take({"votingFor", "receiptChainHash", "zkappUri"}, Got!Nullable(Got!Name),
                          Got!UnlessUndefined(Got!AsIs)))
        /\ Humble(Got!Take({"zkappState"}, Got!Nullable(Got!List), Got!UnlessUndefined(Got!AsIs)))
        /\ Humble(Got!Take({"provedState"}, Got!Nullable(Got!Flag), Got!UnlessUndefined(Got!AsIs)))
    BY HumbleGot, GotDecent, GotCalm
  <1>4. /\ Humble({Got!Rule(<<"permissions">>, <<"permissions">>, Got!Nullable(Got!Object),
                           Got!UnlessUndefined(Got!AsIs))})
        /\ Humble(Got!Whole(<<"permissions">>, <<"permissions">>, Got!Permissions))
    BY HumbleGot, GotDecent, GotCalm
  <1>5. Humble(Got!Inside(<<"balance">>, <<"balance">>,
          Got!Take({"total"}, Got!Digits, Got!FromGraphQL)
          \union Got!Take({"liquid", "locked"}, Got!Nullable(Got!Digits),
                             Got!IfTruthy(Got!FromGraphQL))
          \union Got!Take({"blockHeight"}, Got!Nullable(Got!Either), Got!UnlessNull(Got!Number))))
    BY <1>2, HumbleGot
  <1>6. Calm(Got!Nullable(Got!Object), Got!Required)
    BY GotDecent, GotCalm
  <1>7. \A A, B : Humble(A) /\ Humble(B) => Humble(A \union B)
    BY HumbleGot
  <1>8. \A R : Humble(R)
          => Humble(Got!Within(<<"account">>, <<>>, Got!Nullable(Got!Object), Got!Required, R))
    BY <1>6, HumbleGot
  <1> QED
    BY <1>1, <1>3, <1>4, <1>5, <1>7, <1>8, HumbleTiming DEF Got!getAccount

\* A table whose rules read and convert alike.
LEMMA HumbleAlike ==
  ASSUME NEW R, NEW w, NEW h, Calm(w, h), \A r \in R : r.wire = w /\ r.how = h
  PROVE  Humble(R)
  BY DEF Humble

\* A command's two sides.
LEMMA HumbleSides ==
  /\ Humble({Got!Rule(<<n, "publicKey">>, <<n>>, Got!Name, Got!AsIs) : n \in {"source", "receiver"}})
  /\ Humble({Got!Rule(<<n, "publicKey">>, <<n>>, Got!Chained(Got!Name), Got!IfTruthy(Got!AsIs)) :
              n \in {"source", "receiver"}})
  <1> DEFINE w == Got!Chained(Got!Name)
             h == Got!IfTruthy(Got!AsIs)
             A == {Got!Rule(<<n, "publicKey">>, <<n>>, Got!Name, Got!AsIs) :
                    n \in {"source", "receiver"}}
             B == {Got!Rule(<<n, "publicKey">>, <<n>>, w, h) : n \in {"source", "receiver"}}
  <1>1. Calm(Got!Name, Got!AsIs) /\ Calm(w, h)
    BY GotDecent, GotCalm
  <1>2. \A r \in A : r.wire = Got!Name /\ r.how = Got!AsIs
    BY DEF Got!Rule
  <1>3. \A r \in B : r.wire = w /\ r.how = h
    BY DEF Got!Rule
  <1>4. Humble(A)
    <2> HIDE DEF A
    <2> QED
      BY <1>1, <1>2, HumbleAlike
  <1>5. Humble(B)
    <2> HIDE DEF B, w, h
    <2> QED
      BY <1>1, <1>3, HumbleAlike
  <1> QED
    BY <1>4, <1>5

\* What a block contains.
LEMMA HumbleUserCommands == Humble(Got!userCommands)
  BY HumbleGot, GotDecent, GotCalm, HumbleSides DEF Got!userCommands

LEMMA HumbleZkappCommands == Humble(Got!zkappCommands)
  BY HumbleGot, GotDecent, GotCalm, HumbleParts DEF Got!zkappCommands

LEMMA HumbleTransactions == Humble(Got!transactions)
  BY HumbleGot, GotDecent, GotCalm, HumbleUserCommands, HumbleZkappCommands DEF Got!transactions

\* The epochs' data of a BlockInfo is left out where there is none.
LEMMA HumbleEpochData == Humble(Got!epochData)
  BY HumbleGot, GotDecent, GotCalm DEF Got!epochData

\* A block without a creator has an unknown one.
LEMMA HumbleCreator ==
  Humble({Got!Rule(<<"creatorAccount", "publicKey">>, <<"creatorPublicKey">>,
                   Got!Chained(Got!Nullable(Got!Name)), Got!Else("'unknown'"))})
  <1> DEFINE a == <<"creatorAccount", "publicKey">>
             n == "creatorPublicKey"
             d == "'unknown'"
             w == Got!Chained(Got!Nullable(Got!Name))
  <1>1. Decent(w) /\ d # "{}" /\ <<n, d>> \in CommonDefaults
    BY GotDecent DEF CommonDefaults
  <1> HIDE DEF a, n, d, w
  <1>2. Humble({Got!Rule(a, <<n>>, w, Got!Else(d))})
    BY <1>1, HumbleElse, GotSame, GotHow
  <1> QED
    BY <1>2 DEF a, n, d, w

\* What blockInfo reads, but for the epochs and for what contains them.
LEMMA HumbleFields ==
  /\ Humble(Got!Take({"stateHash"}, Got!Hash, Got!AsIs))
  /\ Humble(Got!Take({"commandTransactionCount"}, Got!Num, Got!AsIs))
  /\ Humble(Got!Take({"previousStateHash"}, Got!Hash, Got!AsIs))
  /\ Humble(Got!Take({"blockCreator"}, Got!Name, Got!AsIs))
  /\ Humble(Got!Move("coinbaseReceiever", "coinbaseReceiver", Got!Nullable(Got!Name),
                     Got!UnlessNull(Got!AsIs)))
  /\ Humble(Got!Inside(<<"blockchainState">>, <<>>,
            Got!Take({"date", "utcDate", "snarkedLedgerHash"}, Got!Name, Got!AsIs)
            \union Got!Take({"stagedLedgerHash"}, Got!Hash, Got!AsIs)))
  /\ Humble(Got!Within(<<"snarkJobs">>, <<"snarkJobs">>, Got!Nullable(Got!List),
                       Got!UnlessNull(Got!AsIs), Got!snarkWork))
  BY HumbleGot, GotDecent, GotCalm, HumbleParts

\* Blocks of the best chain, and the genesis block.
LEMMA HumbleBlockInfo == Humble(Got!parseBlockInfo)
  <1> DEFINE E == Got!epochData
  <1>1. Humble(E)
    BY HumbleEpochData
  <1> HIDE DEF E
  <1>2. Humble(Got!blockInfo(E))
    BY <1>1, HumbleGot, HumbleFields, HumbleParts, HumbleCreator, HumbleTransactions
    DEF Got!blockInfo
  <1> QED
    BY <1>2 DEF E, Got!parseBlockInfo

\* Lists that are returned.
LEMMA HumbleLists ==
  /\ Humble(Got!getBestChain) /\ Humble(Got!getGenesisBlock) /\ Humble(Got!getPeers)
  /\ Humble(Got!getSnarkPool) /\ Humble(Got!getTrackedAccounts) /\ Humble(Got!getGenesisConstants)
  BY HumbleGot, HumbleElements, GotDecent, GotCalm, HumbleBlockInfo, HumblePeers, HumbleParts
  DEF Got!getBestChain, Got!getGenesisBlock, Got!getPeers, Got!getSnarkPool,
      Got!getTrackedAccounts, Got!getGenesisConstants

\* The pools.
LEMMA HumblePools ==
  /\ Humble(Got!getPooledUserCommands) /\ Humble(Got!getPooledZkappCommands)
  /\ Humble(Got!parseZkappCommand)
  <1>1. Humble(Got!getPooledUserCommands)
    BY HumbleGot, HumbleElements, HumbleSides, GotDecent, GotCalm DEF Got!getPooledUserCommands
  <1>2. Humble(Got!parseZkappCommand)
    BY HumbleGot, GotDecent, GotCalm, HumbleParts DEF Got!parseZkappCommand
  <1> QED
    BY <1>1, <1>2, HumbleElements, GotDecent, GotCalm DEF Got!getPooledZkappCommands

\* Values that are returned themselves.
LEMMA HumbleTexts ==
  /\ Humble(Got!getSyncStatus) /\ Humble(Got!getNetworkId) /\ Humble(Got!getForkConfig)
  /\ Humble(Got!getTransactionStatus) /\ Humble(Got!unlockAccount) /\ Humble(Got!setSnarkWorker)
  /\ Humble(Got!setSnarkWorkFee) /\ Humble(Got!slotsWon) /\ Humble(Got!scheduledTransactions)
  /\ Humble(Got!setZkappCommandLimit) /\ Humble(Got!commitId)
  /\ \A field : Humble(Got!handleOf(field))
  BY HumbleGot, HumbleElements, GotDecent, GotCalm
  DEF Got!getSyncStatus, Got!getNetworkId, Got!getForkConfig, Got!getTransactionStatus,
      Got!unlockAccount, Got!setSnarkWorker, Got!setSnarkWorkFee, Got!slotsWon,
      Got!scheduledTransactions, Got!setZkappCommandLimit, Got!commitId, Got!handleOf

\* Commands that were sent.
LEMMA HumbleSubmitted ==
  Humble(Got!sendPayment) /\ Humble(Got!sendDelegation) /\ Humble(Got!sendZkapp)
  <1>1. Humble(Got!mapSubmittedCommand)
    BY HumbleGot, HumbleSides, GotDecent, GotCalm DEF Got!mapSubmittedCommand
  <1> QED
    BY <1>1, HumbleGot, HumblePools DEF Got!sendPayment, Got!sendDelegation, Got!sendZkapp

\* The ITN client: who does not say that it produces blocks, does not.
LEMMA HumbleItn ==
  Humble(Got!parseAuth) /\ Humble(Got!internalLogs) /\ Humble(Got!createAccounts)
  <1> DEFINE w == [Got!Either EXCEPT !.odd = @ \union {"-1", "'x'", "null"}]
             N == {"isBlockProducer"}
             d == "false"
  <1>1. Decent(w)
    BY InValues, GotWires DEF Decent, Comes, Either, Wire
  <1>2. Calm(w, Got!parseUint16)
    BY <1>1, GotCalm
  <1>3. d # "{}" /\ \A n \in N : <<n, d>> \in CommonDefaults
    BY DEF CommonDefaults
  <1> HIDE DEF w, N, d
  <1>4. Humble(Got!Take(N, Got!Nullable(Got!Flag), Got!Else(d)))
    BY <1>3, HumbleElse, GotDecent, GotSame, GotHow
  <1>5. /\ Humble(Got!Take({"serverUuid"}, Got!Nullable(Got!Text), Got!Required))
        /\ Humble(Got!Take({"signerSequenceNumber", "libp2pPort"}, w, Got!parseUint16))
        /\ Humble(Got!Take({"peerId"}, Got!Nullable(Got!Text), Got!OrNull(Got!AsIs)))
    BY <1>2, HumbleGot, GotDecent, GotCalm
  <1>7. Calm(Got!Nullable(Got!Object), Got!Required)
    BY GotDecent, GotCalm
  <1>8. \A A, B : Humble(A) /\ Humble(B) => Humble(A \union B)
    BY HumbleGot
  <1>9. \A R : Humble(R)
          => Humble(Got!Within(<<"auth">>, <<>>, Got!Nullable(Got!Object), Got!Required, R))
    BY <1>7, HumbleGot
  <1>10. Humble(Got!parseAuth)
    BY <1>4, <1>5, <1>8, <1>9 DEF Got!parseAuth, w, N, d
  <1>6. Humble(Got!internalLogs) /\ Humble(Got!createAccounts)
    BY HumbleGot, HumbleElements, GotDecent, GotCalm DEF Got!internalLogs, Got!createAccounts
  <1> QED
    BY <1>10, <1>6

\* Every table but that of getBlock.
LEMMA HumbleMethods ==
  \A name \in DOMAIN Methods : name # "getBlock" => Humble(Methods[name].decoding)
  <1>1. \A name \in DOMAIN Queries : name # "getBlock" => Humble(Queries[name].decoding)
    BY TheQueries, MethodOf, HumbleStatus, HumbleMetrics, HumbleAccount, HumbleLists, HumblePools,
       HumbleTexts
  <1>2. \A name \in DOMAIN Mutations : Humble(Mutations[name].decoding)
    BY TheMutations, MethodOf, HumbleTexts, HumbleSubmitted
  <1>3. \A name \in DOMAIN ItnOperations : Humble(ItnOperations[name].decoding)
    BY TheItnOperations, MethodOf, HumbleTexts, HumbleItn DEF Handled
  <1> QED
    BY <1>1, <1>2, <1>3 DEF Methods

-----------------------------------------------------------------------------
\* A Block has epochs' data even when the daemon has none.

\* The defaults of getBlock.
BlockDefaults ==
  CommonDefaults \union
    {<<"stakingEpochData", "{}">>, <<"nextEpochData", "{}">>, <<"epochLength", "0">>,
     <<"seed", "''">>, <<"ledgerHash", "''">>}

\* What a rule gets for nothing, and what it gets for undefined.
Hush(r) ==
  \A v \in Comes(r.wire) : Meaning(v) = "nothing" => Quiet(r.how[v], Last(r.to), BlockDefaults)
Bare(r) == Shut(r) /\ Quiet(r.how["undefined"], Last(r.to), BlockDefaults)

\* What the data of an epoch that the daemon has not have for a field.
Blank(e, n) == IF e = "nextEpochData" THEN "''" ELSE IF n = "epochLength" THEN "0" ELSE "absent"

\* A rule for another field than the epochs' data, and one for these.
Elsewhere(r) == /\ Path(r.to) /\ (r.to = <<>> \/ First(r.to) \notin EpochNames)
                /\ Calm(r.wire, r.how) \/ Excused(r)
OfEpoch(r) == /\ Path(r.to) /\ r.to # <<>> /\ First(r.to) \in EpochNames
              /\ Hush(r)
              /\ \/ Len(r.to) = 1
                 \/ Bare(r) /\ r.how["undefined"] = Blank(First(r.to), Last(r.to))
Epochal(R) == \A r \in R : Elsewhere(r) \/ OfEpoch(r)

\* Beneath what such a table makes an object of nothing are only epochs' data.
LEMMA EpochalBeneath ==
  ASSUME NEW R, Epochal(R), NEW q \in R, NEW r \in R, q.to \in Above(r.to), ~Shut(q)
  PROVE  OfEpoch(r) /\ Len(r.to) # 1
  <1>1. OfEpoch(q) /\ Len(q.to) = 1 /\ q.to # <<>> /\ First(q.to) \in EpochNames
    BY DEF Epochal, Elsewhere, OfEpoch, Calm, Excused, Shut, Bare
  <1>2. Path(r.to)
    BY DEF Epochal, Elsewhere, OfEpoch
  <1>3. First(r.to) = First(q.to) /\ Len(q.to) < Len(r.to)
    <2>1. Len(q.to) < Len(r.to)
      BY <1>2, AboveIs
    <2>2. q.to[1] = r.to[1]
      BY <1>1, <1>2, AboveHead
    <2> QED
      BY <2>1, <2>2 DEF First
  <1>4. r.to # <<>> /\ Len(r.to) # 1
    <2> DEFINE k == Len(r.to)
    <2>1. Len(r.to) \in Nat /\ (Len(r.to) = 0 <=> r.to = <<>>)
      BY <1>2, PathIs
    <2>2. k \in Nat /\ 1 < k
      BY <1>1, <1>3, <2>1
    <2> HIDE DEF k
    <2>3. k # 0 /\ k # 1
      BY <2>2
    <2> QED
      BY <2>1, <2>3 DEF k
  <1> QED
    BY <1>1, <1>3, <1>4 DEF Epochal, Elsewhere

\* A table whose epochs' data have defaults is modest.
LEMMA EpochalIsModest ==
  ASSUME NEW R, Epochal(R)
  PROVE  Modest(R, BlockDefaults)
  <1>1. CommonDefaults \subseteq BlockDefaults
    BY DEF BlockDefaults
  <1>2. ASSUME NEW r \in R, NEW v \in Comes(r.wire), Meaning(v) = "nothing"
        PROVE  Quiet(r.how[v], Last(r.to), BlockDefaults)
    BY <1>1, <1>2 DEF Epochal, Elsewhere, OfEpoch, Calm, Excused, Hush, Quiet, Hushed
  <1>3. ASSUME NEW q \in R, NEW r \in R, q.to \in Above(r.to), ~Shut(q)
        PROVE  Quiet(r.how["undefined"], Last(r.to), BlockDefaults)
    BY <1>3, EpochalBeneath DEF OfEpoch, Bare
  <1> QED
    BY <1>2, <1>3 DEF Modest

\* Two such tables together.
LEMMA EpochalUnion == \A A, B : Epochal(A) /\ Epochal(B) => Epochal(A \union B)
  BY DEF Epochal

\* A humble table that makes no epoch's data.
LEMMA EpochalHumble ==
  ASSUME NEW R, NEW F, NEW T, Humble(R), Fits(R, F, T), Disjoint(T, EpochNames)
  PROVE  Epochal(R)
  BY DEF Epochal, Elsewhere, Humble, Fits, Fit, Tree, Disjoint

\* What is read beneath a field, and put beneath none.
LEMMA EpochalInside ==
  ASSUME NEW a, NEW R, Epochal(R)
  PROVE  Epochal(Got!Inside(a, <<>>, R))
  <1> SUFFICES ASSUME NEW r \in Inside(a, <<>>, R) PROVE Elsewhere(r) \/ OfEpoch(r)
    BY GotSame DEF Epochal
  <1>1. PICK q \in R : r.to = Join(<<>>, q.to) /\ r.wire = q.wire /\ r.how = q.how
    BY InsidePaths
  <1>2. r.to = q.to
    BY <1>1, Joins, Lit DEF Epochal, Elsewhere, OfEpoch
  <1> QED
    BY <1>1, <1>2 DEF Epochal, Elsewhere, OfEpoch, Excused, Hush, Bare, Shut

\* The fields of an epoch.
InEpoch(e, R) ==
  \A r \in R : /\ Path(r.to) /\ r.to # <<>> /\ Hush(r) /\ Bare(r)
              /\ r.how["undefined"] = Blank(e, Last(r.to))

\* A rule for a field that is there whenever its object is.
LEMMA InEpochRule ==
  ASSUME NEW e, NEW r, NEW n, NEW w, NEW h, r.to = <<n>>, r.wire = w, r.how = h,
         \A v \in w.odd : h[v] # "{}",
         \A v \in Comes(w) : Meaning(v) # "nothing",
         h["undefined"] = Blank(e, n),
         Blank(e, n) = "absent" \/ <<n, Blank(e, n)>> \in BlockDefaults
  PROVE  /\ Path(r.to) /\ r.to # <<>> /\ Hush(r) /\ Bare(r)
         /\ r.how["undefined"] = Blank(e, Last(r.to))
  <1>1. Path(r.to) /\ r.to # <<>> /\ Last(r.to) = n
    BY LastOne
  <1> QED
    BY <1>1, MeaningOf DEF Hush, Bare, Shut, Quiet

\* The same of tables with that rule alone.
LEMMA InEpochTake ==
  ASSUME NEW e, NEW n, NEW a, NEW w, NEW h,
         \A v \in w.odd : h[v] # "{}",
         \A v \in Comes(w) : Meaning(v) # "nothing",
         h["undefined"] = Blank(e, n),
         Blank(e, n) = "absent" \/ <<n, Blank(e, n)>> \in BlockDefaults
  PROVE  InEpoch(e, Got!Take({n}, w, h)) /\ InEpoch(e, {Got!Rule(a, <<n>>, w, h)})
  <1> DEFINE p == <<n>>
  <1>1. ASSUME NEW r \in Take({n}, w, h) PROVE r.to = p /\ r.wire = w /\ r.how = h
    <2>1. r = Rule(p, p, w, h)
      BY DEF Take
    <2> HIDE DEF p
    <2> QED
      BY <2>1 DEF Rule
  <1>2. ASSUME NEW r \in {Rule(a, p, w, h)} PROVE r.to = p /\ r.wire = w /\ r.how = h
    <2>1. r = Rule(a, p, w, h)
      OBVIOUS
    <2> HIDE DEF p
    <2> QED
      BY <2>1 DEF Rule
  <1>3. InEpoch(e, Take({n}, w, h)) /\ InEpoch(e, {Rule(a, <<n>>, w, h)})
    BY <1>1, <1>2, InEpochRule DEF InEpoch
  <1> QED
    BY <1>3, GotSame

\* Two such tables together.
LEMMA InEpochUnion == \A e, A, B : InEpoch(e, A) /\ InEpoch(e, B) => InEpoch(e, A \union B)
  BY DEF InEpoch

\* Such a table beneath an epoch's data.
LEMMA InEpochInside ==
  ASSUME NEW e \in EpochNames, NEW R, InEpoch(e, R)
  PROVE  Epochal(Got!Inside(<<e>>, <<e>>, R))
  <1> SUFFICES ASSUME NEW r \in Inside(<<e>>, <<e>>, R) PROVE OfEpoch(r)
    BY GotSame DEF Epochal
  <1>1. PICK q \in R : r.to = Join(<<e>>, q.to) /\ r.wire = q.wire /\ r.how = q.how
    BY InsidePaths
  <1>2. Path(<<e>>) /\ <<e>> # <<>> /\ First(<<e>>) = e
    BY Lit DEF First
  <1>3. /\ Path(q.to) /\ q.to # <<>> /\ Hush(q) /\ Bare(q)
        /\ q.how["undefined"] = Blank(e, Last(q.to))
    BY DEF InEpoch
  <1>4. Path(r.to) /\ r.to # <<>> /\ Last(r.to) = Last(q.to)
    BY <1>1, <1>2, <1>3, LastJoin
  <1>5. First(r.to) = e
    <2> DEFINE a == <<e>>
    <2>1. Path(a) /\ a # <<>> /\ First(a) = e /\ r.to = Join(a, q.to)
      BY <1>1, <1>2
    <2> HIDE DEF a
    <2> QED
      BY <2>1, <1>3, Joins
  <1> QED
    BY <1>1, <1>3, <1>4, <1>5 DEF OfEpoch, Hush, Bare, Shut

\* An epoch's data that are empty where the daemon has none.
LEMMA EpochalWithin ==
  ASSUME NEW e \in EpochNames, NEW R, InEpoch(e, R)
  PROVE  Epochal(Got!Within(<<e>>, <<e>>, Got!Nullable(Got!Object), Got!Else("{}"), R))
  <1> DEFINE w == Nullable(Object)
             h == Else("{}")
             o == Rule(<<e>>, <<e>>, w, h)
  <1>1. Epochal(Inside(<<e>>, <<e>>, R))
    BY InEpochInside, GotSame
  <1>2. \A v \in Comes(w) : Meaning(v) = "nothing" => h[v] = "{}"
    <2>1. \A v \in Comes(w) : v \in {"{}", "null"}
      BY DEF Comes, Nullable, Object, Wire
    <2>2. h["null"] = "{}" /\ Meaning("{}") # "nothing"
      BY InValues, MeaningOf DEF Else, When, Nullish
    <2> QED
      BY <2>1, <2>2
  <1>3. <<e, "{}">> \in BlockDefaults
    BY DEF BlockDefaults, EpochNames
  <1> HIDE DEF w, h
  <1>4. o.to = <<e>> /\ o.wire = w /\ o.how = h
    BY DEF Rule
  <1>5. Path(<<e>>) /\ <<e>> # <<>> /\ Last(<<e>>) = e /\ First(<<e>>) = e /\ Len(<<e>>) = 1
    BY One, LastOne DEF First
  <1> HIDE DEF o
  <1>6. OfEpoch(o)
    BY <1>2, <1>3, <1>4, <1>5 DEF OfEpoch, Hush, Quiet
  <1>7. Epochal({o})
    BY <1>6 DEF Epochal
  <1>8. Epochal(Within(<<e>>, <<e>>, w, h, R))
    BY <1>1, <1>7, EpochalUnion DEF Within, o
  <1> QED
    BY <1>8, GotSame, GotWires, GotHow DEF w, h

\* The fields of an epoch's data are as parseBlock reads them.
LEMMA EpochDataFields ==
  /\ InEpoch("stakingEpochData",
             Got!Take({"epochLength"}, Got!Either, Got!When({"undefined"}, "0", Got!Number)))
  /\ InEpoch("stakingEpochData", Got!Take({"seed"}, Got!Name, Got!AsIs))
  /\ InEpoch("stakingEpochData",
             {Got!Rule(<<"ledger", "hash">>, <<"ledgerHash">>, Got!Name, Got!AsIs)})
  /\ InEpoch("nextEpochData", Got!Take({"seed"}, Got!Name, Got!Else("''")))
  /\ InEpoch("nextEpochData",
             {Got!Rule(<<"ledger", "hash">>, <<"ledgerHash">>, Got!Name, Got!Else("''"))})
  <1>1. /\ \A v \in Comes(Name) : Meaning(v) # "nothing"
        /\ \A h : \A v \in Name.odd : h[v] # "{}"
        /\ \A v \in Comes(Either) : Meaning(v) # "nothing" /\ v \in {"'1'", "'0'", "1", "0"}
        /\ \A v \in Either.odd : v \in Comes(Either)
    BY MeaningOf DEF Comes, Name, Either, Wire
  <1>2. AsIs["undefined"] = "absent" /\ Else("''")["undefined"] = "''"
    BY InValues, HowAsIs DEF AsIs, Else, When, Nullish
  <1>3. /\ When({"undefined"}, "0", Number)["undefined"] = "0"
        /\ \A v \in Comes(Either) : When({"undefined"}, "0", Number)[v] # "{}"
    BY <1>1, InValues DEF When, Number
  <1>4. /\ <<"epochLength", "0">> \in BlockDefaults /\ <<"seed", "''">> \in BlockDefaults
        /\ <<"ledgerHash", "''">> \in BlockDefaults
    BY DEF BlockDefaults
  <1>5. /\ Blank("stakingEpochData", "epochLength") = "0"
        /\ \A n \in {"seed", "ledgerHash"} : /\ Blank("stakingEpochData", n) = "absent"
                                             /\ Blank("nextEpochData", n) = "''"
    BY DEF Blank
  <1>6. InEpoch("stakingEpochData",
                Got!Take({"epochLength"}, Either, When({"undefined"}, "0", Number)))
    BY <1>1, <1>3, <1>4, <1>5, InEpochTake
  <1>7. \A a : \A n \in {"seed", "ledgerHash"} :
          /\ InEpoch("stakingEpochData", Got!Take({n}, Name, AsIs))
          /\ InEpoch("stakingEpochData", {Got!Rule(a, <<n>>, Name, AsIs)})
    BY <1>1, <1>2, <1>5, InEpochTake
  <1>8. \A a : \A n \in {"seed", "ledgerHash"} :
          /\ InEpoch("nextEpochData", Got!Take({n}, Name, Else("''")))
          /\ InEpoch("nextEpochData", {Got!Rule(a, <<n>>, Name, Else("''"))})
    BY <1>1, <1>2, <1>4, <1>5, InEpochTake
  <1> QED
    BY <1>6, <1>7, <1>8, GotWires, GotHow

\* Both epochs.
LEMMA EpochalEpochs == Epochal(Got!blockEpochData)
  <1>1. "stakingEpochData" \in EpochNames /\ "nextEpochData" \in EpochNames
    BY DEF EpochNames
  <1> QED
    BY <1>1, EpochDataFields, InEpochUnion, EpochalWithin, EpochalUnion DEF Got!blockEpochData

\* A block's consensus state.
LEMMA EpochalConsensus ==
  ASSUME NEW epoch, Epochal(epoch)
  PROVE  Epochal(Got!heights
                 \union epoch
                 \union Got!Take({"blockCreator"}, Got!Name, Got!AsIs)
                 \union Got!Move("coinbaseReceiever", "coinbaseReceiver", Got!Nullable(Got!Name),
                                 Got!UnlessNull(Got!AsIs)))
  <1> DEFINE A == Got!heights
             C == Got!Take({"blockCreator"}, Got!Name, Got!AsIs)
             D == Got!Move("coinbaseReceiever", "coinbaseReceiver", Got!Nullable(Got!Name),
                           Got!UnlessNull(Got!AsIs))
             c == {"blockCreator"}
             d == {"coinbaseReceiver"}
             x == {"coinbaseReceiever"}
  <1>1. Humble(A) /\ Humble(C) /\ Humble(D)
    BY HumbleParts, HumbleFields
  <1>2. Fits(A, HeightFields, HeightNames) /\ Fits(C, c, c) /\ Fits(D, x, d)
    BY FitsGot, FitsHeights DEF HeightFields, HeightNames
  <1>3. Disjoint(HeightNames, EpochNames) /\ Disjoint(c, EpochNames) /\ Disjoint(d, EpochNames)
    BY DEF Disjoint, HeightNames, EpochNames
  <1> HIDE DEF A, C, D, c, d, x
  <1>4. Epochal(A) /\ Epochal(C) /\ Epochal(D)
    BY <1>1, <1>2, <1>3, EpochalHumble
  <1>5. Epochal(A \union epoch \union C \union D)
    BY <1>4, EpochalUnion
  <1> QED
    BY <1>5 DEF A, C, D

\* A block's protocol state.
LEMMA EpochalProtocol ==
  ASSUME NEW epoch, Epochal(epoch)
  PROVE  Epochal(Got!Take({"previousStateHash"}, Got!Hash, Got!AsIs)
                 \union Got!Inside(<<"consensusState">>, <<>>,
                      Got!heights
                      \union epoch
                      \union Got!Take({"blockCreator"}, Got!Name, Got!AsIs)
                      \union Got!Move("coinbaseReceiever", "coinbaseReceiver",
                                      Got!Nullable(Got!Name), Got!UnlessNull(Got!AsIs)))
                 \union Got!Inside(<<"blockchainState">>, <<>>,
                      Got!Take({"date", "utcDate", "snarkedLedgerHash"}, Got!Name, Got!AsIs)
                      \union Got!Take({"stagedLedgerHash"}, Got!Hash, Got!AsIs)))
  <1> DEFINE A == Got!Take({"previousStateHash"}, Got!Hash, Got!AsIs)
             B == Got!heights
                  \union epoch
                  \union Got!Take({"blockCreator"}, Got!Name, Got!AsIs)
                  \union Got!Move("coinbaseReceiever", "coinbaseReceiver",
                                  Got!Nullable(Got!Name), Got!UnlessNull(Got!AsIs))
             C == Got!Inside(<<"blockchainState">>, <<>>,
                      Got!Take({"date", "utcDate", "snarkedLedgerHash"}, Got!Name, Got!AsIs)
                      \union Got!Take({"stagedLedgerHash"}, Got!Hash, Got!AsIs))
             a == {"previousStateHash"}
             x == {"blockchainState"}
  <1>1. Humble(A) /\ Humble(C)
    BY HumbleFields
  <1>2. Fits(A, a, a) /\ Fits(C, x, ChainNames)
    BY FitsGot, FitsInside, FitsChain
  <1>3. Disjoint(a, EpochNames) /\ Disjoint(ChainNames, EpochNames)
    BY DEF Disjoint, ChainNames, EpochNames
  <1>4. Epochal(B)
    BY EpochalConsensus
  <1> HIDE DEF A, B, C, a, x
  <1>5. Epochal(A) /\ Epochal(C) /\ Epochal(Got!Inside(<<"consensusState">>, <<>>, B))
    BY <1>1, <1>2, <1>3, <1>4, EpochalHumble, EpochalInside
  <1>6. Epochal(A \union Got!Inside(<<"consensusState">>, <<>>, B) \union C)
    BY <1>5, EpochalUnion
  <1> QED
    BY <1>6 DEF A, B, C

\* A block, whatever its rules for the epochs are.
LEMMA EpochalBlockInfo ==
  ASSUME NEW epoch, Epochal(epoch)
  PROVE  Epochal(Got!blockInfo(epoch))
  <1> DEFINE A == Got!Take({"stateHash"}, Got!Hash, Got!AsIs)
             B == Got!Take({"commandTransactionCount"}, Got!Num, Got!AsIs)
             C == {Got!Rule(<<"creatorAccount", "publicKey">>, <<"creatorPublicKey">>,
                            Got!Chained(Got!Nullable(Got!Name)), Got!Else("'unknown'"))}
             D == Got!Take({"previousStateHash"}, Got!Hash, Got!AsIs)
                  \union Got!Inside(<<"consensusState">>, <<>>,
                       Got!heights
                       \union epoch
                       \union Got!Take({"blockCreator"}, Got!Name, Got!AsIs)
                       \union Got!Move("coinbaseReceiever", "coinbaseReceiver",
                                       Got!Nullable(Got!Name), Got!UnlessNull(Got!AsIs)))
                  \union Got!Inside(<<"blockchainState">>, <<>>,
                       Got!Take({"date", "utcDate", "snarkedLedgerHash"}, Got!Name, Got!AsIs)
                       \union Got!Take({"stagedLedgerHash"}, Got!Hash, Got!AsIs))
             E == Got!Within(<<"snarkJobs">>, <<"snarkJobs">>, Got!Nullable(Got!List),
                             Got!UnlessNull(Got!AsIs), Got!snarkWork)
             F == Got!transactions
             a == {"stateHash"}
             b == {"commandTransactionCount"}
             c == {"creatorAccount"}
             e == {"snarkJobs"}
             f == {"transactions"}
             tc == {"creatorPublicKey"}
  <1>1. Humble(A) /\ Humble(B) /\ Humble(C) /\ Humble(E) /\ Humble(F)
    BY HumbleFields, HumbleCreator, HumbleTransactions
  <1>2. /\ Fits(A, a, a) /\ Fits(B, b, b) /\ Fits(C, c, tc)
        /\ Fits(E, e, e) /\ Fits(F, f, TransactionNames)
    BY FitsGot, OpenHow, OpenWires, FitSnarkWork, FitsTransactions DEF TransactionNames
  <1>3. /\ Disjoint(a, EpochNames) /\ Disjoint(b, EpochNames) /\ Disjoint(tc, EpochNames)
        /\ Disjoint(e, EpochNames) /\ Disjoint(TransactionNames, EpochNames)
    BY DEF Disjoint, EpochNames, TransactionNames
  <1>4. Epochal(D)
    BY EpochalProtocol
  <1> HIDE DEF A, B, C, D, E, F, a, b, c, e, f, tc
  <1>5. Epochal(A) /\ Epochal(B) /\ Epochal(C) /\ Epochal(E) /\ Epochal(F)
    BY <1>1, <1>2, <1>3, EpochalHumble
  <1>6. Epochal(Got!Inside(<<"protocolState">>, <<>>, D))
    BY <1>4, EpochalInside
  <1>7. Epochal(A \union B \union C)
    BY <1>5, EpochalUnion
  <1>8. Epochal(A \union B \union C \union Got!Inside(<<"protocolState">>, <<>>, D) \union E
                \union F)
    BY <1>5, <1>6, <1>7, EpochalUnion
  <1> QED
    BY <1>8 DEF Got!blockInfo, A, B, C, D, E, F

-----------------------------------------------------------------------------
\* Renaming.

\* Renaming neither takes nor gives an epoch's name.
LEMMA EpochStays ==
  /\ \A n \in EpochNames : n \notin DOMAIN Got!blockNames
  /\ \A n : Renamed(n) \in EpochNames => n \in EpochNames
  BY DEF EpochNames, Renamed, Got!blockNames

\* A field that is renamed has no default.
LEMMA QuietAgain ==
  ASSUME NEW p, Path(p), p # <<>>, NEW u, Quiet(u, Last(p), CommonDefaults)
  PROVE  Quiet(u, Last(Again(p)), CommonDefaults)
  <1>1. Len(Again(p)) = Len(p) /\ Len(p) \in Nat /\ Len(p) # 0
    BY AgainIs, PathIs
  <1>2. CASE Len(p) # 1
    <2>1. Len(p) \in 2..Len(p)
      BY <1>1, <1>2
    <2>2. Last(Again(p)) = Last(p)
      BY <1>1, <2>1, AgainIs DEF Last
    <2> QED
      BY <2>2
  <1>3. CASE Len(p) = 1
    <2>1. Last(p) = First(p) /\ Last(Again(p)) = Renamed(First(p))
      BY <1>1, <1>3, AgainIs DEF Last, First
    <2>2. CASE First(p) \notin DOMAIN Got!blockNames
      BY <2>1, <2>2 DEF Renamed
    <2>3. CASE First(p) \in DOMAIN Got!blockNames
      <3>1. \A t \in Timing : t[1] \notin DOMAIN Got!blockNames
        BY DEF Timing, Leaves, Got!blockNames
      <3>2. "creatorPublicKey" \notin DOMAIN Got!blockNames
            /\ "isBlockProducer" \notin DOMAIN Got!blockNames
        BY DEF Got!blockNames
      <3>3. \A y : \A x \in CommonDefaults : x = <<First(p), y>> => FALSE
        BY <2>3, <3>1, <3>2 DEF CommonDefaults
      <3> QED
        BY <2>1, <3>3 DEF Quiet
    <2> QED
      BY <2>2, <2>3
  <1> QED
    BY <1>2, <1>3

\* Renamed fields are no epoch's, and those of the epochs keep their names.
LEMMA EpochalRenamed ==
  ASSUME NEW R, Fit(R), Epochal(R)
  PROVE  Epochal({Got!inBlock(r) : r \in R})
  <1> SUFFICES ASSUME NEW q \in R PROVE Elsewhere(Got!inBlock(q)) \/ OfEpoch(Got!inBlock(q))
    BY DEF Epochal
  <1> DEFINE r == Got!inBlock(q)
  <1>1. r.to = Again(q.to) /\ r.wire = q.wire /\ r.how = q.how
    <2>1. q = [from |-> q.from, to |-> q.to, wire |-> q.wire, how |-> q.how]
      BY DEF Fit, Tree
    <2>2. r = [q EXCEPT !.to = Again(q.to)]
      BY DEF Got!inBlock, Again
    <2> HIDE DEF r
    <2> QED
      BY <2>1, <2>2
  <1> HIDE DEF r
  <1>2. Path(q.to) /\ q.to # <<>>
    BY DEF Fit, Tree
  <1>3. Path(r.to) /\ r.to # <<>> /\ First(r.to) = Renamed(First(q.to))
    BY <1>1, <1>2, AgainIs
  <1>4. CASE OfEpoch(q)
    <2>1. r.to = q.to
      BY <1>1, <1>4, EpochStays DEF OfEpoch, Again, First
    <2> QED
      BY <1>1, <1>4, <2>1 DEF OfEpoch, Hush, Bare, Shut, r
  <1>5. CASE Elsewhere(q)
    <2>1. First(r.to) \notin EpochNames
      BY <1>2, <1>3, <1>5, EpochStays DEF Elsewhere
    <2>2. Excused(q) => Excused(r)
      BY <1>1, <1>2, <1>3, QuietAgain DEF Excused, Shut
    <2> QED
      BY <1>1, <1>3, <1>5, <2>1, <2>2 DEF Elsewhere, r
  <1> QED
    BY <1>4, <1>5 DEF Epochal

\* The table of getBlock has the defaults of a Block at most.
LEMMA EpochalBlock == Epochal(Got!getBlock)
  <1> DEFINE B == Got!blockInfo(Got!blockEpochData)
             R == {Got!inBlock(r) : r \in B}
             o == Got!Rule(<<"block">>, <<>>, Got!Nullable(Got!Object), Got!Required)
             w == Got!Nullable(Got!Object)
             h == Got!Required
  <1>1. Epochal(B)
    BY EpochalEpochs, EpochalBlockInfo
  <1>2. Fit(B)
    <2>1. Fits(Got!blockEpochData, EpochNames, EpochNames)
      BY FitsBlockEpoch DEF EpochNames
    <2> QED
      BY <2>1, FitsBlockInfo DEF Fits
  <1> HIDE DEF B
  <1>3. Epochal(R)
    BY <1>1, <1>2, EpochalRenamed
  <1> HIDE DEF R
  <1>4. Calm(w, h)
    BY GotDecent, GotCalm
  <1>5. Epochal({o})
    <2> HIDE DEF w, h
    <2>1. o.to = <<>> /\ o.wire = w /\ o.how = h
      BY DEF Got!Rule, w, h
    <2>2. Path(<<>>)
      BY Lit
    <2> HIDE DEF o
    <2> QED
      BY <1>4, <2>1, <2>2 DEF Epochal, Elsewhere
  <1>6. Got!getBlock = Got!Within(<<"block">>, <<>>, w, h, R)
    BY DEF R, B, Got!getBlock
  <1> QED
    BY <1>3, <1>5, <1>6, EpochalInside, EpochalUnion DEF Got!Within

LEMMA ModestBlock == Modest(Got!getBlock, BlockDefaults)
  BY EpochalBlock, EpochalIsModest

-----------------------------------------------------------------------------
\* What the daemon does not have is not made up: whichever fields it answers
\* oddly, up to any MostOdd of them, a field of a result says something only if
\* the daemon said something of it, or has one of the defaults.
THEOREM NothingIsInvented == Spec => []NothingInvented
  <1>1. IInv => NothingInvented
    <2> SUFFICES ASSUME IInv, phase = "over", ~Throws, NEW r \in Called.decoding,
                        r.to \in DOMAIN result, Meaning(result[r.to]) # "nothing"
                 PROVE  \/ There(r, answer) /\ Meaning(Held(r, answer)) # "nothing"
                        \/ <<r.to[Len(r.to)], result[r.to]>> \in Defaults
      BY DEF NothingInvented
    <2>1. /\ operation \in DOMAIN Methods /\ answer \subseteq OddValues(Called.decoding)
          /\ result = Decode(Called, answer)
      BY DEF IInv, Made
    <2>2. Tree(Called.decoding) /\ Reads(Called.decoding, Called.selected)
      BY <2>1, AllTrees, AllSelected DEF Called
    <2>3. Modest(Called.decoding, Defaults)
      <3>1. CASE operation = "getBlock"
        <4>1. Called.decoding = Got!getBlock
          BY <2>1, <3>1, TheQueries, TheMutations, TheItnOperations, MethodOf DEF Methods, Called
        <4>2. Defaults = BlockDefaults
          BY <3>1 DEF Defaults, BlockDefaults, CommonDefaults
        <4> QED
          BY <4>1, <4>2, ModestBlock
      <3>2. CASE operation # "getBlock"
        <4>1. Humble(Called.decoding)
          BY <2>1, <3>2, HumbleMethods DEF Called
        <4>2. CommonDefaults \subseteq Defaults
          BY DEF Defaults, CommonDefaults
        <4> QED
          BY <4>1, <4>2, HumbleIsModest
      <3> QED
        BY <3>1, <3>2
    <2>4. \A path \in DOMAIN Decode(Called, answer) : Decode(Called, answer)[path] # "throws"
      BY <2>1 DEF Throws
    <2>5. \/ There(r, answer) /\ Meaning(Held(r, answer)) # "nothing"
          \/ <<Last(r.to), result[r.to]>> \in Defaults
      BY <2>1, <2>2, <2>3, <2>4, AnswerTold
    <2> QED
      BY <2>5 DEF Last
  <1> QED
    BY <1>1, Always, PTL

-----------------------------------------------------------------------------
\* What a claim about a block takes from it: the rules for it.

\* A rule of a table, where the table is used beneath a field.
LEMMA InsideHas ==
  ASSUME NEW a, NEW b, NEW R, NEW q \in R
  PROVE  [from |-> Join(a, q.from), to |-> Join(b, q.to), wire |-> q.wire, how |-> q.how]
           \in Got!Inside(a, b, R)
  <1>1. \A s \in R : Rule(a \o s.from, b \o s.to, s.wire, s.how) \in Inside(a, b, R)
    BY DEF Inside
  <1> QED
    BY <1>1, GotSame DEF Rule, Join

\* A field beneath another, up to three names deep.
LEMMA JoinOne == ASSUME NEW n, NEW m PROVE Join(<<n>>, <<m>>) = <<n, m>>
  BY Pair DEF Join

LEMMA JoinTwo == ASSUME NEW n, NEW k, NEW m PROVE Join(<<n>>, <<k, m>>) = <<n, k, m>>
  <1> DEFINE a == <<n>>
             p == <<k, m>>
             q == <<n, k, m>>
  <1>1. a \in Seq({n}) /\ p \in Seq({k, m}) /\ q \in Seq({n, k, m})
    OBVIOUS
  <1>2. Len(a) = 1 /\ Len(p) = 2 /\ Len(q) = 3 /\ a[1] = n /\ p[1] = k /\ p[2] = m
        /\ q[1] = n /\ q[2] = k /\ q[3] = m
    OBVIOUS
  <1> HIDE DEF a, p, q
  <1>3. Path(a) /\ Path(p) /\ Path(q)
    BY <1>1 DEF Path
  <1>4. /\ Path(a \o p) /\ Len(a \o p) = Len(a) + Len(p)
        /\ \A i \in 1..Len(a) : (a \o p)[i] = a[i]
        /\ \A i \in 1..Len(p) : (a \o p)[Len(a) + i] = p[i]
    BY ONLY <1>3, JoinIs
  <1>5. (a \o p)[1] = n /\ (a \o p)[2] = k /\ (a \o p)[3] = m
    <2>1. 1 \in 1..Len(a) /\ 1 \in 1..Len(p) /\ 2 \in 1..Len(p) /\ Len(a) + 1 = 2 /\ Len(a) + 2 = 3
      BY <1>2
    <2> QED
      BY <2>1, <1>2, <1>4
  <1>6. Len(a \o p) = 3 /\ 1..3 = {1, 2, 3}
    BY <1>2, <1>4
  <1>7. Len(a \o p) = Len(q) /\ \A i \in 1..Len(a \o p) : (a \o p)[i] = q[i]
    BY <1>2, <1>5, <1>6
  <1>8. a \o p = q
    BY ONLY <1>3, <1>4, <1>7, SamePath
  <1> QED
    BY <1>8 DEF Join, a, p, q

LEMMA JoinThree == ASSUME NEW n, NEW k, NEW j, NEW m
                   PROVE  Join(<<n>>, <<k, j, m>>) = <<n, k, j, m>>
  <1> DEFINE a == <<n>>
             p == <<k, j, m>>
             q == <<n, k, j, m>>
  <1>1. a \in Seq({n}) /\ p \in Seq({k, j, m}) /\ q \in Seq({n, k, j, m})
    OBVIOUS
  <1>2. Len(a) = 1 /\ Len(p) = 3 /\ Len(q) = 4 /\ a[1] = n /\ p[1] = k /\ p[2] = j /\ p[3] = m
        /\ q[1] = n /\ q[2] = k /\ q[3] = j /\ q[4] = m
    OBVIOUS
  <1> HIDE DEF a, p, q
  <1>3. Path(a) /\ Path(p) /\ Path(q)
    BY <1>1 DEF Path
  <1>4. /\ Path(a \o p) /\ Len(a \o p) = Len(a) + Len(p)
        /\ \A i \in 1..Len(a) : (a \o p)[i] = a[i]
        /\ \A i \in 1..Len(p) : (a \o p)[Len(a) + i] = p[i]
    BY ONLY <1>3, JoinIs
  <1>5. (a \o p)[1] = n /\ (a \o p)[2] = k /\ (a \o p)[3] = j /\ (a \o p)[4] = m
    <2>1. /\ 1 \in 1..Len(a) /\ 1 \in 1..Len(p) /\ 2 \in 1..Len(p) /\ 3 \in 1..Len(p)
          /\ Len(a) + 1 = 2 /\ Len(a) + 2 = 3 /\ Len(a) + 3 = 4
      BY <1>2
    <2> QED
      BY <2>1, <1>2, <1>4
  <1>6. Len(a \o p) = 4 /\ 1..4 = {1, 2, 3, 4}
    BY <1>2, <1>4
  <1>7. Len(a \o p) = Len(q) /\ \A i \in 1..Len(a \o p) : (a \o p)[i] = q[i]
    BY <1>2, <1>5, <1>6
  <1>8. a \o p = q
    BY ONLY <1>3, <1>4, <1>7, SamePath
  <1> QED
    BY <1>8 DEF Join, a, p, q

\* A rule for a field, where the table is used beneath a field.
LEMMA Beneath1 ==
  ASSUME NEW n, NEW m, NEW t, NEW w, NEW h, NEW R, Rule(<<m>>, <<t>>, w, h) \in R
  PROVE  Rule(<<n, m>>, <<t>>, w, h) \in Got!Inside(<<n>>, <<>>, R)
  <1> DEFINE q == Rule(<<m>>, <<t>>, w, h)
  <1>1. q.from = <<m>> /\ q.to = <<t>> /\ q.wire = w /\ q.how = h
    BY DEF Rule
  <1>2. Join(<<>>, <<t>>) = <<t>> /\ Join(<<n>>, <<m>>) = <<n, m>>
    BY Single, JoinOne DEF Join
  <1> HIDE DEF q
  <1>3. Rule(Join(<<n>>, q.from), Join(<<>>, q.to), q.wire, q.how) \in Got!Inside(<<n>>, <<>>, R)
    BY InsideHas DEF Rule, q
  <1> QED
    BY <1>1, <1>2, <1>3

LEMMA Beneath2 ==
  ASSUME NEW n, NEW k, NEW m, NEW t, NEW w, NEW h, NEW R, Rule(<<k, m>>, <<t>>, w, h) \in R
  PROVE  Rule(<<n, k, m>>, <<t>>, w, h) \in Got!Inside(<<n>>, <<>>, R)
  <1> DEFINE q == Rule(<<k, m>>, <<t>>, w, h)
  <1>1. q.from = <<k, m>> /\ q.to = <<t>> /\ q.wire = w /\ q.how = h
    BY DEF Rule
  <1>2. Join(<<>>, <<t>>) = <<t>> /\ Join(<<n>>, <<k, m>>) = <<n, k, m>>
    BY Single, JoinTwo DEF Join
  <1> HIDE DEF q
  <1>3. Rule(Join(<<n>>, q.from), Join(<<>>, q.to), q.wire, q.how) \in Got!Inside(<<n>>, <<>>, R)
    BY InsideHas DEF Rule, q
  <1> QED
    BY <1>1, <1>2, <1>3

LEMMA Beneath3 ==
  ASSUME NEW n, NEW k, NEW j, NEW m, NEW t, NEW w, NEW h, NEW R,
         Rule(<<k, j, m>>, <<t>>, w, h) \in R
  PROVE  Rule(<<n, k, j, m>>, <<t>>, w, h) \in Got!Inside(<<n>>, <<>>, R)
  <1> DEFINE q == Rule(<<k, j, m>>, <<t>>, w, h)
  <1>1. q.from = <<k, j, m>> /\ q.to = <<t>> /\ q.wire = w /\ q.how = h
    BY DEF Rule
  <1>2. Join(<<>>, <<t>>) = <<t>> /\ Join(<<n>>, <<k, j, m>>) = <<n, k, j, m>>
    BY Single, JoinThree DEF Join
  <1> HIDE DEF q
  <1>3. Rule(Join(<<n>>, q.from), Join(<<>>, q.to), q.wire, q.how) \in Got!Inside(<<n>>, <<>>, R)
    BY InsideHas DEF Rule, q
  <1> QED
    BY <1>1, <1>2, <1>3

\* A rule for one field is in the table that is built for it.
LEMMA HasOne ==
  /\ \A n, w, h : Rule(<<n>>, <<n>>, w, h) \in Got!Take({n}, w, h)
  /\ \A m, n, w, h : Rule(<<m>>, <<n>>, w, h) \in Got!Move(m, n, w, h)
  BY GotSame DEF Take, Move

\* What is compared with a proof is among what is read of a block.
LEMMA BlockInfoHas ==
  ASSUME NEW epoch
  PROVE
    /\ Rule(<<"protocolState", "consensusState", "blockHeight">>, <<"height">>,
                Got!Either, Got!Number) \in Got!blockInfo(epoch)
    /\ Rule(<<"stateHash">>, <<"stateHash">>, Got!Hash, Got!AsIs) \in Got!blockInfo(epoch)
    /\ Rule(<<"protocolState", "previousStateHash">>, <<"previousStateHash">>,
                Got!Hash, Got!AsIs) \in Got!blockInfo(epoch)
    /\ Rule(<<"protocolState", "blockchainState", "stagedLedgerHash">>,
                <<"stagedLedgerHash">>, Got!Hash, Got!AsIs) \in Got!blockInfo(epoch)
  <1> DEFINE A == Got!Take({"previousStateHash"}, Got!Hash, Got!AsIs)
             B == Got!heights
                  \union epoch
                  \union Got!Take({"blockCreator"}, Got!Name, Got!AsIs)
                  \union Got!Move("coinbaseReceiever", "coinbaseReceiver",
                                  Got!Nullable(Got!Name), Got!UnlessNull(Got!AsIs))
             C == Got!Take({"date", "utcDate", "snarkedLedgerHash"}, Got!Name, Got!AsIs)
                  \union Got!Take({"stagedLedgerHash"}, Got!Hash, Got!AsIs)
             D == A \union Got!Inside(<<"consensusState">>, <<>>, B)
                    \union Got!Inside(<<"blockchainState">>, <<>>, C)
             E == Got!Inside(<<"protocolState">>, <<>>, D)
             H == Got!Take({"stateHash"}, Got!Hash, Got!AsIs)
  <1>1. /\ \A r \in E : r \in Got!blockInfo(epoch)
        /\ \A r \in H : r \in Got!blockInfo(epoch)
    BY DEF Got!blockInfo
  <1>2. Rule(<<"blockHeight">>, <<"height">>, Got!Either, Got!Number) \in B
    BY HasOne DEF Got!heights
  <1>3. Rule(<<"stagedLedgerHash">>, <<"stagedLedgerHash">>, Got!Hash, Got!AsIs) \in C
    BY HasOne
  <1>4. Rule(<<"previousStateHash">>, <<"previousStateHash">>, Got!Hash, Got!AsIs) \in D
    BY HasOne
  <1>5. Rule(<<"stateHash">>, <<"stateHash">>, Got!Hash, Got!AsIs) \in H
    BY HasOne
  <1> HIDE DEF A, B, C, H
  <1>6. /\ Rule(<<"consensusState", "blockHeight">>, <<"height">>, Got!Either, Got!Number) \in D
        /\ Rule(<<"blockchainState", "stagedLedgerHash">>, <<"stagedLedgerHash">>, Got!Hash,
                    Got!AsIs) \in D
    <2>1. /\ Rule(<<"consensusState", "blockHeight">>, <<"height">>, Got!Either, Got!Number)
               \in Got!Inside(<<"consensusState">>, <<>>, B)
          /\ Rule(<<"blockchainState", "stagedLedgerHash">>, <<"stagedLedgerHash">>, Got!Hash,
                      Got!AsIs) \in Got!Inside(<<"blockchainState">>, <<>>, C)
      BY <1>2, <1>3, Beneath1, Beneath2, Beneath3
    <2> QED
      BY <2>1
  <1> HIDE DEF D
  <1>7. /\ Rule(<<"protocolState", "consensusState", "blockHeight">>, <<"height">>,
                    Got!Either, Got!Number) \in E
        /\ Rule(<<"protocolState", "previousStateHash">>, <<"previousStateHash">>,
                    Got!Hash, Got!AsIs) \in E
        /\ Rule(<<"protocolState", "blockchainState", "stagedLedgerHash">>,
                    <<"stagedLedgerHash">>, Got!Hash, Got!AsIs) \in E
    BY <1>4, <1>6, Beneath1, Beneath2, Beneath3
  <1> HIDE DEF E
  <1> QED
    BY <1>1, <1>5, <1>7

\* What the rules for the fields of a claim are like in a table.
ClaimRule(R, f) ==
  \E r \in R : /\ r.from = InAnswer[f] /\ r.to = InBlock[f]
               /\ r.wire = (IF f = "height" THEN Got!Either ELSE Got!Hash)
               /\ r.how = (IF f = "height" THEN Got!Number ELSE Got!AsIs)

\* Of the names that a claim has, a Block changes that of the height.
LEMMA AgainNames ==
  /\ Again(<<"height">>) = <<"blockHeight">>
  /\ \A n \in {"stateHash", "previousStateHash", "stagedLedgerHash"} : Again(<<n>>) = <<n>>
  <1>1. \A n : Path(<<n>>) /\ <<n>> # <<>> /\ Len(<<n>>) = 1 /\ <<n>>[1] = n
    BY One, Lit
  <1>2. /\ Renamed("height") = "blockHeight"
        /\ \A n \in {"stateHash", "previousStateHash", "stagedLedgerHash"} :
             n \notin DOMAIN Got!blockNames
    BY DEF Renamed, Got!blockNames
  <1>3. Again(<<"height">>) = <<"blockHeight">>
    <2> DEFINE p == <<"height">>
               q == <<"blockHeight">>
    <2>1. Path(p) /\ Path(q) /\ p # <<>> /\ Len(p) = 1 /\ Len(q) = 1 /\ First(p) = "height"
          /\ q[1] = "blockHeight"
      BY <1>1 DEF First
    <2> HIDE DEF p, q
    <2>2. Path(Again(p)) /\ Len(Again(p)) = 1 /\ First(Again(p)) = "blockHeight"
      BY <1>2, <2>1, AgainIs
    <2>3. \A i \in 1..Len(Again(p)) : Again(p)[i] = q[i]
      BY <2>1, <2>2 DEF First
    <2>4. Again(p) = q
      BY ONLY <2>1, <2>2, <2>3, SamePath
    <2> QED
      BY <2>4 DEF p, q
  <1>4. ASSUME NEW n \in {"stateHash", "previousStateHash", "stagedLedgerHash"}
        PROVE  Again(<<n>>) = <<n>>
    BY <1>1, <1>2 DEF Again
  <1> QED
    BY <1>3, <1>4

\* A rule of a block, for a Block.
LEMMA RenamedHas ==
  ASSUME NEW p, NEW t, NEW w, NEW h, NEW R, Rule(p, t, w, h) \in R
  PROVE  Rule(p, Again(t), w, h) \in {Got!inBlock(r) : r \in R}
  <1>1. Got!inBlock(Rule(p, t, w, h)) = Rule(p, Again(t), w, h)
    BY DEF Got!inBlock, Again, Rule
  <1> QED
    BY <1>1

\* What a claim is about is read from a block.
LEMMA BlockHas == \A f \in DOMAIN InBlock : ClaimRule(Got!getBlock, f)
  <1> DEFINE I == Got!blockInfo(Got!blockEpochData)
             B == {Got!inBlock(r) : r \in I}
             G == Got!Inside(<<"block">>, <<>>, B)
  <1>1. /\ Rule(<<"protocolState", "consensusState", "blockHeight">>, <<"height">>, Got!Either,
                Got!Number) \in I
        /\ Rule(<<"stateHash">>, <<"stateHash">>, Got!Hash, Got!AsIs) \in I
        /\ Rule(<<"protocolState", "previousStateHash">>, <<"previousStateHash">>, Got!Hash,
                Got!AsIs) \in I
        /\ Rule(<<"protocolState", "blockchainState", "stagedLedgerHash">>,
                <<"stagedLedgerHash">>, Got!Hash, Got!AsIs) \in I
    BY BlockInfoHas
  <1> HIDE DEF I
  <1>2. /\ Rule(<<"protocolState", "consensusState", "blockHeight">>, <<"blockHeight">>, Got!Either,
                Got!Number) \in B
        /\ Rule(<<"stateHash">>, <<"stateHash">>, Got!Hash, Got!AsIs) \in B
        /\ Rule(<<"protocolState", "previousStateHash">>, <<"previousStateHash">>, Got!Hash,
                Got!AsIs) \in B
        /\ Rule(<<"protocolState", "blockchainState", "stagedLedgerHash">>,
                <<"stagedLedgerHash">>, Got!Hash, Got!AsIs) \in B
    <2>1. \A p, t, w, h : Rule(p, t, w, h) \in I => Rule(p, Again(t), w, h) \in B
      BY RenamedHas
    <2> HIDE DEF B
    <2> QED
      BY <1>1, <2>1, AgainNames
  <1> HIDE DEF B
  <1>3. /\ Rule(InAnswer["height"], InBlock["height"], Got!Either, Got!Number) \in G
        /\ Rule(InAnswer["stateHash"], InBlock["stateHash"], Got!Hash, Got!AsIs) \in G
        /\ Rule(InAnswer["previousStateHash"], InBlock["previousStateHash"], Got!Hash, Got!AsIs)
             \in G
        /\ Rule(InAnswer["stagedLedgerHash"], InBlock["stagedLedgerHash"], Got!Hash, Got!AsIs) \in G
    <2>1. /\ Rule(<<"block", "protocolState", "consensusState", "blockHeight">>, <<"blockHeight">>,
                  Got!Either, Got!Number) \in G
          /\ Rule(<<"block", "stateHash">>, <<"stateHash">>, Got!Hash, Got!AsIs) \in G
          /\ Rule(<<"block", "protocolState", "previousStateHash">>, <<"previousStateHash">>,
                  Got!Hash, Got!AsIs) \in G
          /\ Rule(<<"block", "protocolState", "blockchainState", "stagedLedgerHash">>,
                  <<"stagedLedgerHash">>, Got!Hash, Got!AsIs) \in G
      BY <1>2, Beneath1, Beneath2, Beneath3
    <2> HIDE DEF G
    <2> QED
      BY <2>1 DEF InAnswer, InBlock
  <1>4. G \subseteq Got!getBlock
    BY DEF Got!getBlock, Got!Within, B, I
  <1> HIDE DEF G
  <1>5. DOMAIN InBlock = {"height", "stateHash", "previousStateHash", "stagedLedgerHash"}
    BY DEF InBlock
  <1>6. ASSUME NEW a, NEW b, NEW w, NEW h, Rule(a, b, w, h) \in G
        PROVE  \E r \in Got!getBlock : r.from = a /\ r.to = b /\ r.wire = w /\ r.how = h
    <2>1. LET r == Rule(a, b, w, h) IN r.from = a /\ r.to = b /\ r.wire = w /\ r.how = h
      BY DEF Rule
    <2> QED
      BY <1>4, <1>6, <2>1
  <1> QED
    BY <1>3, <1>5, <1>6 DEF ClaimRule

-----------------------------------------------------------------------------
\* What a claim says, beside what the daemon sent.

\* A field of the result that is not above another, in a table whose only
\* object that may be missing is required: what it becomes is what is returned.
LEMMA Topped ==
  ASSUME NEW m, Tree(m.decoding), Reads(m.decoding, m.selected),
         NEW odd \in SUBSET OddValues(m.decoding),
         \A path \in DOMAIN Decode(m, odd) : Decode(m, odd)[path] # "throws",
         NEW o \in m.decoding, o.to = <<>>, o.wire.odd = {"null"}, o.how["null"] = "throws",
         NEW r \in m.decoding, Above(r.to) = {<<>>}
  PROVE  /\ There(r, odd)
         /\ r.how[Held(r, odd)] # "absent" =>
              r.to \in DOMAIN Decode(m, odd) /\ Decode(m, odd)[r.to] = r.how[Held(r, odd)]
  <1> DEFINE R == m.decoding
  <1>1. /\ o.from \in Above(r.from) /\ Opens(o)
        /\ \A q \in R : q.from \in Above(r.from) => q = o
        /\ \A q \in R : q.from \notin Above(o.from) /\ q.to \notin Above(o.to)
    <2>1. \A q \in R : q.to \in Above(r.to) <=> q = o
      BY DEF Tree
    <2>2. \A q \in R : q.to \notin Above(o.to)
      BY AboveShort
    <2> QED
      BY <2>1, <2>2 DEF Tree
  <1>2. \A p \in odd : \E q \in R : p[1] = q.from
    BY DEF OddValues
  <1>3. There(o, odd)
    BY <1>1, <1>2 DEF There
  <1>4. /\ o.to \in DOMAIN Decode(m, odd) <=>
             Becomes(o, odd) # "absent" /\ \A q \in R : q.to \in Above(o.to) => Becomes(q, odd) = "{}"
        /\ o.to \in DOMAIN Decode(m, odd) => Decode(m, odd)[o.to] = Becomes(o, odd)
        /\ r.to \in DOMAIN Decode(m, odd) <=>
             Becomes(r, odd) # "absent" /\ \A q \in R : q.to \in Above(r.to) => Becomes(q, odd) = "{}"
        /\ r.to \in DOMAIN Decode(m, odd) => Decode(m, odd)[r.to] = Becomes(r, odd)
    <2>1. \A q \in R :
             /\ q.to \in DOMAIN Decode(m, odd) <=>
                  /\ Becomes(q, odd) # "absent"
                  /\ \A s \in R : s.to \in Above(q.to) => Becomes(s, odd) = "{}"
             /\ q.to \in DOMAIN Decode(m, odd) => Decode(m, odd)[q.to] = Becomes(q, odd)
      BY Decoded
    <2> QED
      BY <2>1
  <1>5. ASSUME NEW p \in odd, p[1] = o.from PROVE FALSE
    <2>1. \A q \in odd : q[1] = o.from => q[2] = "null"
      BY HeldOdd
    <2>2. Held(o, odd) = "null"
      BY <1>5, <2>1 DEF Held
    <2>3. Becomes(o, odd) = "throws"
      BY <1>3, <2>2 DEF Becomes
    <2> QED
      BY <1>1, <1>4, <2>3
  <1>6. There(r, odd)
    BY <1>1, <1>2, <1>5 DEF There
  <1>7. Becomes(o, odd) = "{}"
    <2>1. Held(o, odd) = "{}"
      BY <1>1, <1>5 DEF Held, Opens
    <2> QED
      BY <1>1, <1>3, <2>1 DEF Becomes, Opens
  <1>8. Becomes(r, odd) = r.how[Held(r, odd)]
    BY <1>6 DEF Becomes
  <1>9. \A q \in R : q.to \in Above(r.to) => Becomes(q, odd) = "{}"
    BY <1>7 DEF Tree
  <1> QED
    BY <1>4, <1>6, <1>8, <1>9

\* A claim differs from what the proof attests as the answer does.
Agrees(f, said, claimed) ==
  /\ claimed # "undefined"
  /\ claimed = Check!facts[f] <=> Meaning(said) = Meaning(Check!facts[f])

\* The conversions of a claim's fields keep apart what the proof attests.
LEMMA FactsAgree ==
  /\ \A v \in Comes(Got!Either) : Got!Number[v] # "absent" /\ Agrees("height", v, Got!Number[v])
  /\ \A f \in {"stateHash", "previousStateHash", "stagedLedgerHash"} : \A v \in Comes(Got!Hash) :
       Got!AsIs[v] # "absent" /\ Agrees(f, v, Got!AsIs[v])
  <1>1. /\ \A v \in Comes(Got!Either) : v \in {"'1'", "'0'", "1", "0"}
        /\ \A v \in Comes(Got!Hash) : v \in {"'x'", "'y'"}
    BY DEF Comes, Got!Either, Got!Hash, Got!Wire
  <1>2. /\ Check!facts["height"] = "1"
        /\ \A f \in {"stateHash", "previousStateHash", "stagedLedgerHash"} : Check!facts[f] = "'x'"
    BY DEF Check!facts
  <1>3. /\ Meaning("'1'") = "one" /\ Meaning("1") = "one"
        /\ Meaning("'0'") = "zero" /\ Meaning("0") = "zero"
        /\ Meaning("'x'") = "'x'" /\ Meaning("'y'") = "'y'"
    BY DEF Meaning, Nullish
  <1>4. /\ Got!Number["'1'"] = "1" /\ Got!Number["1"] = "1"
        /\ Got!Number["'0'"] = "0" /\ Got!Number["0"] = "0"
        /\ Got!AsIs["'x'"] = "'x'" /\ Got!AsIs["'y'"] = "'y'"
    BY DEF Got!Number, Got!AsIs, Got!Values, Got!Texts, Got!Numbers
  <1> QED
    BY <1>1, <1>2, <1>3, <1>4 DEF Agrees

\* What a claim takes from a block agrees with what the daemon sent for it.
LEMMA ClaimAgrees ==
  ASSUME NEW m, m.decoding = Got!getBlock, Reads(m.decoding, m.selected),
         NEW odd \in SUBSET OddValues(m.decoding),
         \A path \in DOMAIN Decode(m, odd) : Decode(m, odd)[path] # "throws",
         NEW f \in DOMAIN InBlock
  PROVE  Agrees(f, Held(CHOOSE r \in m.decoding : r.from = InAnswer[f], odd),
                Decode(m, odd)[InBlock[f]])
  <1>1. Tree(m.decoding)
    BY TreeBlock
  <1>2. PICK r \in m.decoding :
          /\ r.from = InAnswer[f] /\ r.to = InBlock[f]
          /\ r.wire = (IF f = "height" THEN Got!Either ELSE Got!Hash)
          /\ r.how = (IF f = "height" THEN Got!Number ELSE Got!AsIs)
    BY BlockHas DEF ClaimRule
  <1>3. (CHOOSE q \in m.decoding : q.from = InAnswer[f]) = r
    BY <1>1, <1>2 DEF Tree
  <1>4. Above(r.to) = {<<>>}
    BY <1>2, AboveShort DEF InBlock
  <1>5. PICK o \in m.decoding : o.to = <<>> /\ o.wire.odd = {"null"} /\ o.how["null"] = "throws"
    <2> DEFINE q == Got!Rule(<<"block">>, <<>>, Got!Nullable(Got!Object), Got!Required)
    <2>1. q \in Got!getBlock
      BY DEF Got!getBlock, Got!Within
    <2>2. q.to = <<>> /\ q.wire = Got!Nullable(Got!Object) /\ q.how = Got!Required
      BY DEF Got!Rule
    <2>3. Got!Nullable(Got!Object).odd = {"null"}
      BY DEF Got!Nullable, Got!Object, Got!Wire
    <2>4. Got!Required["null"] = "throws"
      BY DEF Got!Required, Got!When, Got!Falsy, Got!Nullish, Got!Values
    <2> HIDE DEF q
    <2> QED
      BY <2>1, <2>2, <2>3, <2>4
  <1>6. r.how[Held(r, odd)] # "absent" =>
          Decode(m, odd)[r.to] = r.how[Held(r, odd)]
    BY <1>1, <1>4, <1>5, Topped
  <1>7. Held(r, odd) \in Comes(r.wire)
    BY <1>1, HeldWire
  <1>8. r.how[Held(r, odd)] # "absent" /\ Agrees(f, Held(r, odd), r.how[Held(r, odd)])
    <2>1. f = "height" \/ f \in {"stateHash", "previousStateHash", "stagedLedgerHash"}
      BY DEF InBlock
    <2> QED
      BY <1>2, <1>7, <2>1, FactsAgree
  <1> QED
    BY <1>2, <1>3, <1>6, <1>8

\* A claim is what the daemon sent, or undefined.
Recalled ==
  \A f \in DOMAIN claim :
    IF f \in DOMAIN told THEN Agrees(f, told[f], claim[f]) ELSE claim[f] = "undefined"

\* A verdict is about the claim that was made last.
Judged ==
  verdict # Check!NoVerdict =>
    phase = "claimed" /\ (verdict.kind = "judged" => verdict = Check!compareToClaims(claim))

\* No step loses that.
LEMMA StepRecalled ==
  ASSUME IInv, IInv', Recalled, Judged, [Next]_vars
  PROVE  Recalled' /\ Judged'
  <1>1. ASSUME NEW name \in DOMAIN Methods, NEW odd \in ArgumentsOf[name], Call(name, odd)
        PROVE  Recalled' /\ Judged'
    BY <1>1 DEF Recalled, Judged, Call, Agrees
  <1>2. ASSUME NEW odd \in AnswersOf[operation], Answer(odd)
        PROVE  Recalled' /\ Judged'
    BY <1>2 DEF Recalled, Judged, Answer, Agrees
  <1>3. CASE Return
    BY <1>3 DEF Recalled, Judged, Return, Agrees
  <1>4. ASSUME NEW fields \in SUBSET DOMAIN InBlock, NEW undefined \in SUBSET fields,
               Claim(fields, undefined)
        PROVE  Recalled' /\ Judged'
    <2>1. /\ phase = "over" /\ operation = "getBlock" /\ ~Throws /\ verdict' = verdict
          /\ claim' = [f \in fields |->
                         IF f \in undefined THEN "undefined" ELSE result[InBlock[f]]]
          /\ told'  = [f \in fields \ undefined |-> AnsweredAt(InAnswer[f])]
      BY <1>4 DEF Claim
    <2>2. /\ Methods["getBlock"].decoding = Got!getBlock /\ "getBlock" \in DOMAIN Methods
          /\ Reads(Methods["getBlock"].decoding, Methods["getBlock"].selected)
      <3>1. "getBlock" \in DOMAIN Methods
        BY <2>1 DEF IInv, Made
      <3>2. Methods["getBlock"].decoding = Got!getBlock
        BY TheQueries, MethodOf DEF Methods
      <3> QED
        BY <3>1, <3>2, AllSelected
    <2>3. answer \subseteq OddValues(Called.decoding) /\ result = Decode(Called, answer)
          /\ Called = Methods["getBlock"]
      BY <2>1 DEF IInv, Made, Called
    <2>4. \A path \in DOMAIN result : result[path] # "throws"
      BY <2>1 DEF Throws
    <2>5. ASSUME NEW f \in fields
          PROVE  Agrees(f, AnsweredAt(InAnswer[f]), result[InBlock[f]])
      BY <2>2, <2>3, <2>4, ClaimAgrees DEF AnsweredAt
    <2>6. Recalled'
      <3> SUFFICES ASSUME NEW f \in fields
                   PROVE  IF f \in fields \ undefined THEN Agrees(f, told'[f], claim'[f])
                          ELSE claim'[f] = "undefined"
        BY <2>1 DEF Recalled, Agrees
      <3>1. CASE f \in undefined
        BY <2>1, <3>1
      <3>2. CASE f \notin undefined
        <4>1. told'[f] = AnsweredAt(InAnswer[f]) /\ claim'[f] = result[InBlock[f]]
          BY <2>1, <3>2
        <4> QED
          BY <2>5, <3>2, <4>1
      <3> QED
        BY <3>1, <3>2
    <2>7. Judged'
      BY <2>1 DEF Judged
    <2> QED
      BY <2>6, <2>7
  <1>5. ASSUME NEW block \in Check!Blocks, NEW network \in Check!Networks \union {"undefined"},
               CheckClaims(block, network)
        PROVE  Recalled' /\ Judged'
    <2>1. phase = "claimed" /\ phase' = phase /\ claim' = claim /\ told' = told
      BY <1>5 DEF CheckClaims, callVars
    <2>2. \/ verdict'.kind \in {"VerificationBackendError", "VerificationError"}
          \/ verdict' = Check!compareToClaims(claim)
      BY <1>5 DEF CheckClaims, Check!checkBlockClaims
    <2>3. Check!compareToClaims(claim) = Check!compareToClaims(claim')
      BY <2>1
    <2> QED
      BY <2>1, <2>2, <2>3 DEF Recalled, Judged, Agrees
  <1>6. ASSUME NEW place \in Check!Places, NEW package \in Check!Packages,
               InstallBackend(place, package)
        PROVE  Recalled' /\ Judged'
    <2>1. phase' = phase /\ claim' = claim /\ told' = told /\ verdict' = verdict
      BY <1>6 DEF InstallBackend, Check!Install, callVars
    <2> QED
      BY <2>1 DEF Recalled, Judged, Agrees
  <1>7. CASE CheckAgain
    BY <1>7 DEF CheckAgain, Check!Heard, callVars, Recalled, Judged, Agrees
  <1>8. CASE Restart
    BY <1>8, Empty DEF Restart, Recalled, Judged
  <1>9. CASE UNCHANGED vars
    <2>1. phase' = phase /\ claim' = claim /\ told' = told /\ verdict' = verdict
      BY <1>9 DEF vars, callVars, Check!vars
    <2> QED
      BY <2>1 DEF Recalled, Judged, Agrees
  <1> QED
    BY <1>1, <1>2, <1>3, <1>4, <1>5, <1>6, <1>7, <1>8, <1>9 DEF Next

\* Whichever fields of the block the daemon answers oddly, up to any MostOdd of
\* them, and whatever the caller claims of it, a source is accused of exactly
\* what it lied about: the height that the daemon wrote as a text and the hashes
\* are compared, strictly, for what they say.
THEOREM SourcesAreJudged == Spec => []ClaimsJudged
  <1>1. Init => Recalled /\ Judged
    BY Empty DEF Init, Check!Init, Recalled, Judged
  <1>2. IInv /\ IInv' /\ Recalled /\ Judged /\ [Next]_vars => (Recalled /\ Judged)'
    BY StepRecalled
  <1>3. IInv /\ Recalled /\ Judged => ClaimsJudged
    <2> SUFFICES ASSUME IInv, Recalled, Judged, verdict # Check!NoVerdict, verdict.kind = "judged"
                 PROVE  LET lies == {f \in DOMAIN told : Meaning(told[f]) # Meaning(Check!facts[f])}
                        IN  verdict.mismatches = lies /\ verdict.honest = (lies = {})
      BY DEF ClaimsJudged
    <2> DEFINE lies == {f \in DOMAIN told : Meaning(told[f]) # Meaning(Check!facts[f])}
    <2>1. DOMAIN told \subseteq DOMAIN claim
      BY DEF IInv, Made
    <2>2. Check!mismatches(claim) = lies
      BY <2>1 DEF Recalled, Agrees, Check!mismatches
    <2>3. verdict = [kind |-> "judged", honest |-> lies = {}, mismatches |-> lies]
      BY <2>2 DEF Judged, Check!compareToClaims
    <2> HIDE DEF lies
    <2>4. verdict.mismatches = lies /\ verdict.honest = (lies = {})
      BY <2>3
    <2> QED
      BY <2>4 DEF lies
  <1> QED
    BY <1>1, <1>2, <1>3, Always, PTL DEF Spec


-----------------------------------------------------------------------------
\* The types: what becomes of what may come over a wire.

\* Every value that may come is converted to one of the type.
Suits(w, h, V) == \A v \in Comes(w) : h[v] \in V

\* A type may admit more than it has to.
LEMMA SuitsMore ==
  /\ \A w, h, V : Suits(w, h, V) => Suits(w, h, maybe(V)) /\ Suits(w, h, orNull(V))
  BY DEF Suits, maybe, orNull

\* What may come over the wires, one by one.
LEMMA WireComes ==
  /\ \A v \in Comes(Name) : v = "'x'"
  /\ \A v \in Comes(Hash) : v = "'x'" \/ v = "'y'"
  /\ \A v \in Comes(Text) : v = "'x'" \/ v = "''"
  /\ \A v \in Comes(Digits) : v = "'1'" \/ v = "'0'"
  /\ \A v \in Comes(Num) : v = "1" \/ v = "0"
  /\ \A v \in Comes(Either) : v = "'1'" \/ v = "'0'" \/ v = "1" \/ v = "0"
  /\ \A v \in Comes(Flag) : v = "true" \/ v = "false"
  /\ \A v \in Comes(Object) : v = "{}"
  /\ \A v \in Comes(List) : v = "{}" \/ v = "[]"
  /\ \A v \in Comes(Unseen) : v = "subtree"
  <1>1. /\ \A v \in Comes(Name) : v = "'x'"
        /\ \A v \in Comes(Hash) : v = "'x'" \/ v = "'y'"
        /\ \A v \in Comes(Text) : v = "'x'" \/ v = "''"
        /\ \A v \in Comes(Digits) : v = "'1'" \/ v = "'0'"
        /\ \A v \in Comes(Num) : v = "1" \/ v = "0"
    BY DEF Comes, Name, Hash, Text, Digits, Num, Wire
  <1>2. /\ \A v \in Comes(Either) : v = "'1'" \/ v = "'0'" \/ v = "1" \/ v = "0"
        /\ \A v \in Comes(Flag) : v = "true" \/ v = "false"
        /\ \A v \in Comes(Object) : v = "{}"
        /\ \A v \in Comes(List) : v = "{}" \/ v = "[]"
        /\ \A v \in Comes(Unseen) : v = "subtree"
    BY DEF Comes, Either, Flag, Object, List, Unseen, Wire
  <1> QED
    BY <1>1, <1>2

\* A wire over which values come.
Wired(w) == w = Wire(w.plain, w.odd) /\ Comes(w) \subseteq Values

\* The wires built on a wire.
LEMMA WiredMore ==
  ASSUME NEW w, Wired(w)
  PROVE  /\ Wired(Nullable(w)) /\ Wired(Optional(w))
         /\ \A v \in Comes(Nullable(w)) : v \in Comes(w) \/ v = "null"
         /\ \A v \in Comes(Optional(w)) : v \in Comes(w) \/ v = "undefined"
  <1>1. w = [plain |-> w.plain, odd |-> w.odd]
    BY DEF Wired, Wire
  <1>2. /\ Nullable(w) = [plain |-> w.plain, odd |-> w.odd \union {"null"}]
        /\ Optional(w) = [plain |-> w.plain, odd |-> w.odd \union {"undefined"}]
    BY <1>1 DEF Nullable, Optional
  <1>3. "null" \in Values /\ "undefined" \in Values
    BY DEF Values, Nullish
  <1> QED
    BY <1>2, <1>3 DEF Wired, Wire, Comes

\* The plain wires.
LEMMA WiredBasic ==
  /\ Wired(Name) /\ Wired(Hash) /\ Wired(Text) /\ Wired(Digits) /\ Wired(Num) /\ Wired(Either)
  /\ Wired(Flag) /\ Wired(Object) /\ Wired(List) /\ Wired(Unseen)
  <1>1. /\ "'x'" \in Values /\ "'y'" \in Values /\ "''" \in Values /\ "'1'" \in Values
        /\ "'0'" \in Values /\ "1" \in Values /\ "0" \in Values /\ "true" \in Values
        /\ "false" \in Values /\ "{}" \in Values /\ "[]" \in Values /\ "subtree" \in Values
    BY DEF Values, Texts, Numbers, Flags
  <1> QED
    BY <1>1, WireComes DEF Wired, Name, Hash, Text, Digits, Num, Either, Flag, Object, List, Unseen,
                           Wire

\* The conversions without a test, of the values that they get.
LEMMA SuitsBasic ==
  /\ Suits(Name, AsIs, string) /\ Suits(Hash, AsIs, string) /\ Suits(Text, AsIs, string)
  /\ Suits(Digits, AsIs, string) /\ Suits(Digits, String, string) /\ Suits(Either, String, string)
  /\ Suits(Num, AsIs, number) /\ Suits(Either, Number, number)
  /\ Suits(Digits, FromGraphQL, currency) /\ Suits(Flag, AsIs, boolean)
  /\ Suits(Object, AsIs, object) /\ Suits(List, AsIs, list) /\ Suits(Unseen, AsIs, unknown)
  <1>1. /\ "'x'" \in Values /\ "'y'" \in Values /\ "''" \in Values /\ "'1'" \in Values
        /\ "'0'" \in Values /\ "1" \in Values /\ "0" \in Values /\ "true" \in Values
        /\ "false" \in Values /\ "{}" \in Values /\ "[]" \in Values /\ "subtree" \in Values
    BY DEF Values, Texts, Numbers, Flags
  <1>2. /\ AsIs["'x'"] = "'x'" /\ AsIs["'y'"] = "'y'" /\ AsIs["''"] = "''" /\ AsIs["'1'"] = "'1'"
        /\ AsIs["'0'"] = "'0'" /\ AsIs["1"] = "1" /\ AsIs["0"] = "0" /\ AsIs["true"] = "true"
        /\ AsIs["false"] = "false" /\ AsIs["{}"] = "{}" /\ AsIs["[]"] = "[]"
        /\ AsIs["subtree"] = "subtree"
    BY <1>1 DEF AsIs
  <1>3. /\ Number["'1'"] = "1" /\ Number["'0'"] = "0" /\ Number["1"] = "1" /\ Number["0"] = "0"
        /\ String["'1'"] = "'1'" /\ String["'0'"] = "'0'" /\ String["1"] = "'1'"
        /\ String["0"] = "'0'" /\ FromGraphQL["'1'"] = "C1" /\ FromGraphQL["'0'"] = "C0"
    BY <1>1 DEF Number, String, FromGraphQL
  <1>4. /\ "'x'" \in string /\ "'y'" \in string /\ "''" \in string /\ "'1'" \in string
        /\ "'0'" \in string /\ "1" \in number /\ "0" \in number /\ "C0" \in currency
        /\ "C1" \in currency /\ "true" \in boolean /\ "false" \in boolean /\ "{}" \in object
        /\ "{}" \in list /\ "[]" \in list /\ "subtree" \in unknown
    BY DEF string, number, currency, boolean, object, list, unknown, Texts, Amounts, Flags
  <1>5. /\ Suits(Name, AsIs, string) /\ Suits(Hash, AsIs, string) /\ Suits(Text, AsIs, string)
        /\ Suits(Digits, AsIs, string) /\ Suits(Num, AsIs, number) /\ Suits(Flag, AsIs, boolean)
    BY <1>2, <1>4, WireComes DEF Suits
  <1>6. Suits(Object, AsIs, object) /\ Suits(List, AsIs, list) /\ Suits(Unseen, AsIs, unknown)
    BY <1>2, <1>4, WireComes DEF Suits
  <1>7. /\ Suits(Digits, String, string) /\ Suits(Either, String, string)
        /\ Suits(Either, Number, number) /\ Suits(Digits, FromGraphQL, currency)
    BY <1>3, <1>4, WireComes DEF Suits
  <1> QED
    BY <1>5, <1>6, <1>7

\* What a test before a conversion makes of null and of undefined.
LEMMA SuitsTest ==
  ASSUME NEW w, NEW h, NEW V, Wired(w), Suits(w, h, V)
  PROVE  /\ Suits(w, UnlessNull(h), maybe(V)) /\ Suits(Nullable(w), UnlessNull(h), maybe(V))
         /\ Suits(Optional(w), UnlessNull(h), maybe(V))
         /\ Suits(Nullable(w), OrNull(h), orNull(V))
         /\ Suits(w, IfTruthy(h), maybe(V)) /\ Suits(Nullable(w), IfTruthy(h), maybe(V))
         /\ Suits(Optional(w), IfTruthy(h), maybe(V))
  <1>1. "null" \in Values /\ "undefined" \in Values
    BY DEF Values, Nullish
  <1>2. \A v \in Comes(w) : v \in Values /\ h[v] \in V
    BY DEF Suits, Wired
  <1>3. \A T, d, v : v \in Values => When(T, d, h)[v] = IF v \in T THEN d ELSE h[v]
    BY DEF When
  <1>4. V \subseteq maybe(V) /\ V \subseteq orNull(V) /\ "absent" \in maybe(V)
          /\ "null" \in orNull(V)
    BY DEF maybe, orNull
  <1>5. "null" \in Nullish /\ "undefined" \in Nullish /\ "null" \in Falsy /\ "undefined" \in Falsy
    BY DEF Nullish, Falsy
  <1>6. /\ \A v \in Comes(Nullable(w)) : v \in Comes(w) \/ v = "null"
        /\ \A v \in Comes(Optional(w)) : v \in Comes(w) \/ v = "undefined"
    BY WiredMore
  <1>7. \A v \in Comes(w) : /\ UnlessNull(h)[v] \in maybe(V) /\ OrNull(h)[v] \in orNull(V)
                            /\ IfTruthy(h)[v] \in maybe(V)
    BY <1>2, <1>3, <1>4 DEF UnlessNull, OrNull, IfTruthy
  <1>8. /\ UnlessNull(h)["null"] = "absent" /\ UnlessNull(h)["undefined"] = "absent"
        /\ OrNull(h)["null"] = "null"
        /\ IfTruthy(h)["null"] = "absent" /\ IfTruthy(h)["undefined"] = "absent"
    BY <1>1, <1>3, <1>5 DEF UnlessNull, OrNull, IfTruthy
  <1> QED
    BY <1>4, <1>6, <1>7, <1>8 DEF Suits

\* What AsIs, a default and a demand make of them.
LEMMA SuitsNull ==
  ASSUME NEW w, NEW V, Wired(w), Suits(w, AsIs, V)
  PROVE  /\ Suits(Nullable(w), AsIs, orNull(V))
         /\ Suits(Nullable(w), UnlessUndefined(AsIs), maybe(orNull(V)))
         /\ \A d : d \in V => /\ Suits(Nullable(w), Else(d), V) /\ Suits(Optional(w), Else(d), V)
                              /\ Suits(Optional(Nullable(w)), Else(d), V)
         /\ Suits(Nullable(w), Required, V \union {"throws"})
  <1>1. "null" \in Values /\ "undefined" \in Values
    BY DEF Values, Nullish
  <1>2. \A v \in Comes(w) : v \in Values /\ AsIs[v] \in V
    BY DEF Suits, Wired
  <1>3. \A T, d, v : v \in Values => When(T, d, AsIs)[v] = IF v \in T THEN d ELSE AsIs[v]
    BY DEF When
  <1>4. /\ V \subseteq maybe(orNull(V)) /\ V \subseteq orNull(V)
        /\ "absent" \in maybe(orNull(V)) /\ "null" \in maybe(orNull(V)) /\ "null" \in orNull(V)
    BY DEF maybe, orNull
  <1>5. "null" \in Nullish /\ "undefined" \in Nullish /\ "null" \in Falsy /\ AsIs["null"] = "null"
    BY <1>1 DEF Nullish, Falsy, AsIs
  <1>6. /\ \A v \in Comes(Nullable(w)) : v \in Comes(w) \/ v = "null"
        /\ \A v \in Comes(Optional(w)) : v \in Comes(w) \/ v = "undefined"
        /\ \A v \in Comes(Optional(Nullable(w))) : v \in Comes(w) \/ v = "null" \/ v = "undefined"
    BY WiredMore
  <1>7. \A v \in Comes(w) : /\ UnlessUndefined(AsIs)[v] \in maybe(orNull(V))
                            /\ \A d : d \in V => Else(d)[v] \in V
                            /\ Required[v] \in V \union {"throws"}
    BY <1>2, <1>3, <1>4 DEF UnlessUndefined, Else, Required
  <1>8. /\ UnlessUndefined(AsIs)["null"] = "null" /\ Required["null"] = "throws"
        /\ \A d : Else(d)["null"] = d /\ Else(d)["undefined"] = d
    BY <1>1, <1>3, <1>5 DEF UnlessUndefined, Else, Required
  <1> QED
    BY <1>2, <1>4, <1>5, <1>6, <1>7, <1>8 DEF Suits

\* The conversions of the answers' tables, and their types.
LEMMA GotSuits ==
  /\ Suits(Got!Name, Got!AsIs, string) /\ Suits(Got!Hash, Got!AsIs, string)
  /\ Suits(Got!Text, Got!AsIs, string) /\ Suits(Got!Digits, Got!AsIs, string)
  /\ Suits(Got!Digits, Got!String, string) /\ Suits(Got!Either, Got!String, string)
  /\ Suits(Got!Num, Got!AsIs, number) /\ Suits(Got!Either, Got!Number, number)
  /\ Suits(Got!Digits, Got!FromGraphQL, currency) /\ Suits(Got!List, Got!AsIs, list)
  /\ Suits(Got!Unseen, Got!AsIs, unknown)
  \* what is left out where it is null
  /\ Suits(Got!Nullable(Got!Num), Got!UnlessNull(Got!AsIs), maybe(number))
  /\ Suits(Got!Nullable(Got!Either), Got!UnlessNull(Got!Number), maybe(number))
  /\ Suits(Got!Nullable(Got!Name), Got!UnlessNull(Got!AsIs), maybe(string))
  /\ Suits(Got!Nullable(Got!Text), Got!UnlessNull(Got!AsIs), maybe(string))
  /\ Suits(Got!Nullable(Got!List), Got!UnlessNull(Got!AsIs), maybe(list))
  /\ Suits(Got!Nullable(Got!Object), Got!UnlessNull(Got!AsIs), maybe(object))
  /\ Suits(Got!Nullable(Got!Object), Got!IfTruthy(Got!AsIs), maybe(object))
  /\ Suits(Got!Nullable(Got!Digits), Got!IfTruthy(Got!FromGraphQL), maybe(currency))
  /\ Suits(Got!Chained(Got!Name), Got!IfTruthy(Got!AsIs), maybe(string))
  /\ Suits(Got!Optional(Got!Name), Got!UnlessNull(Got!AsIs), maybe(string))
  /\ Suits(Got!Optional(Got!Digits), Got!UnlessNull(Got!AsIs), maybe(string))
  /\ Suits(Got!Optional(Got!Text), Got!UnlessNull(Got!AsIs), maybe(string))
  \* what stays null
  /\ Suits(Got!Nullable(Got!Name), Got!UnlessUndefined(Got!AsIs), maybe(orNull(string)))
  /\ Suits(Got!Nullable(Got!List), Got!UnlessUndefined(Got!AsIs), maybe(orNull(list)))
  /\ Suits(Got!Nullable(Got!Flag), Got!UnlessUndefined(Got!AsIs), maybe(orNull(boolean)))
  /\ Suits(Got!Nullable(Got!Object), Got!UnlessUndefined(Got!AsIs), maybe(orNull(object)))
  /\ Suits(Got!Nullable(Got!Either), Got!UnlessUndefined(Got!OrNull(Got!String)),
           maybe(orNull(string)))
  /\ Suits(Got!Nullable(Got!List), Got!OrNull(Got!AsIs), orNull(list))
  /\ Suits(Got!Nullable(Got!Text), Got!OrNull(Got!AsIs), orNull(string))
  /\ Suits(Got!Nullable(Got!Either), Got!OrNull(Got!Number), orNull(number))
  /\ Suits(Got!Nullable(Got!Either), Got!OrNull(Got!String), orNull(string))
  /\ Suits(Got!Nullable(Got!Name), Got!AsIs, orNull(string))
  /\ Suits(Got!Nullable(Got!Num), Got!AsIs, orNull(number))
  /\ Suits(Got!Chained(Got!Name), Got!Else("null"), orNull(string))
  \* what has a default, or is required
  /\ Suits(Got!Nullable(Got!List), Got!Else("[]"), list)
  /\ Suits(Got!Nullable(Got!Object), Got!Else("{}"), object)
  /\ Suits(Got!Nullable(Got!Digits), Got!Else("''"), string)
  /\ Suits(Got!Name, Got!Else("''"), string)
  /\ Suits(Got!Chained(Got!Nullable(Got!Name)), Got!Else("'unknown'"), string)
  /\ Suits(Got!Nullable(Got!Flag), Got!Else("false"), boolean)
  /\ Suits(Got!Nullable(Got!Object), Got!Required, {"{}", "throws"})
  /\ Suits(Got!Nullable(Got!Text), Got!Required, string \union {"throws"})
  <1>1. /\ Wired(Name) /\ Wired(Text) /\ Wired(Digits) /\ Wired(Num) /\ Wired(Either)
        /\ Wired(Flag) /\ Wired(Object) /\ Wired(List) /\ Wired(Nullable(Either))
    BY WiredBasic, WiredMore
  <1>2. /\ Suits(Nullable(Num), UnlessNull(AsIs), maybe(number))
        /\ Suits(Nullable(Either), UnlessNull(Number), maybe(number))
        /\ Suits(Nullable(Name), UnlessNull(AsIs), maybe(string))
        /\ Suits(Nullable(Text), UnlessNull(AsIs), maybe(string))
        /\ Suits(Nullable(List), UnlessNull(AsIs), maybe(list))
        /\ Suits(Nullable(Object), UnlessNull(AsIs), maybe(object))
    BY <1>1, SuitsBasic, SuitsTest
  <1>3. /\ Suits(Nullable(Object), IfTruthy(AsIs), maybe(object))
        /\ Suits(Nullable(Digits), IfTruthy(FromGraphQL), maybe(currency))
        /\ Suits(Optional(Name), IfTruthy(AsIs), maybe(string))
        /\ Suits(Optional(Name), UnlessNull(AsIs), maybe(string))
        /\ Suits(Optional(Digits), UnlessNull(AsIs), maybe(string))
        /\ Suits(Optional(Text), UnlessNull(AsIs), maybe(string))
    BY <1>1, SuitsBasic, SuitsTest
  <1>4. /\ Suits(Nullable(Name), UnlessUndefined(AsIs), maybe(orNull(string)))
        /\ Suits(Nullable(List), UnlessUndefined(AsIs), maybe(orNull(list)))
        /\ Suits(Nullable(Flag), UnlessUndefined(AsIs), maybe(orNull(boolean)))
        /\ Suits(Nullable(Object), UnlessUndefined(AsIs), maybe(orNull(object)))
        /\ Suits(Nullable(Name), AsIs, orNull(string))
        /\ Suits(Nullable(Num), AsIs, orNull(number))
    BY <1>1, SuitsBasic, SuitsNull
  <1>5. /\ Suits(Nullable(List), OrNull(AsIs), orNull(list))
        /\ Suits(Nullable(Text), OrNull(AsIs), orNull(string))
        /\ Suits(Nullable(Either), OrNull(Number), orNull(number))
        /\ Suits(Nullable(Either), OrNull(String), orNull(string))
    BY <1>1, SuitsBasic, SuitsTest
  <1>6. Suits(Nullable(Either), UnlessUndefined(OrNull(String)), maybe(orNull(string)))
    <2>1. \A v \in Comes(Nullable(Either)) : v \in Values
      BY <1>1 DEF Wired
    <2> QED
      BY <1>5, <2>1 DEF Suits, UnlessUndefined, When, maybe
  <1>7. /\ Suits(Nullable(List), Else("[]"), list) /\ Suits(Nullable(Object), Else("{}"), object)
        /\ Suits(Nullable(Digits), Else("''"), string)
        /\ Suits(Optional(Nullable(Name)), Else("'unknown'"), string)
        /\ Suits(Nullable(Flag), Else("false"), boolean)
    <2>1. /\ "[]" \in list /\ "{}" \in object /\ "''" \in string /\ "'unknown'" \in string
          /\ "false" \in boolean
      BY DEF list, object, string, boolean, Texts, Flags
    <2> QED
      BY <1>1, <2>1, SuitsBasic, SuitsNull
  <1>8. Suits(Optional(Name), Else("null"), orNull(string))
    <2>1. Suits(Name, AsIs, orNull(string)) /\ "null" \in orNull(string)
      BY SuitsBasic, SuitsMore DEF orNull
    <2> QED
      BY <1>1, <2>1, SuitsNull
  <1>9. Suits(Name, Else("''"), string)
    <2>1. Else("''")["'x'"] = "'x'" /\ "'x'" \in string
      BY DEF Else, When, AsIs, Values, Texts, Nullish, string
    <2> QED
      BY <2>1, WireComes DEF Suits
  <1>10. /\ Suits(Nullable(Object), Required, {"{}", "throws"})
         /\ Suits(Nullable(Text), Required, string \union {"throws"})
    <2>1. /\ Suits(Nullable(Object), Required, object \union {"throws"})
          /\ Suits(Nullable(Text), Required, string \union {"throws"})
      BY <1>1, SuitsBasic, SuitsNull
    <2>2. object \union {"throws"} = {"{}", "throws"}
      BY DEF object
    <2> QED
      BY <2>1, <2>2
  <1>11. \A w : Chained(w) = Optional(w)
    BY DEF Chained
  <1> QED
    BY <1>2, <1>3, <1>4, <1>5, <1>6, <1>7, <1>8, <1>9, <1>10, <1>11, SuitsBasic, GotWires, GotHow

\* The rest: numbers that have defaults, and what the ITN client refuses.
LEMMA GotSuitsMore ==
  /\ Suits(Got!Either, Got!When({"undefined"}, "0", Got!Number), number)
  /\ Suits([Got!Object EXCEPT !.odd = {"null", "{nulls}"}],
           Got!When({"null", "{nulls}"}, "null", Got!AsIs), maybe(orNull(object)))
  /\ Suits([Got!Either EXCEPT !.odd = @ \union {"-1", "'x'", "null"}], Got!parseUint16,
           number \union {"throws"})
  <1>1. Suits(Either, When({"undefined"}, "0", Number), number)
    <2>1. \A v \in Comes(Either) : v \in Values /\ Number[v] \in number
      BY SuitsBasic, WiredBasic DEF Suits, Wired
    <2> QED
      BY <2>1 DEF Suits, When, number
  <1>2. Suits([Object EXCEPT !.odd = {"null", "{nulls}"}], When({"null", "{nulls}"}, "null", AsIs),
              maybe(orNull(object)))
    <2> DEFINE w == [Object EXCEPT !.odd = {"null", "{nulls}"}]
    <2>1. \A v \in Comes(w) : v = "{}" \/ v = "null" \/ v = "{nulls}"
      BY DEF Comes, Object, Wire
    <2>2. /\ When({"null", "{nulls}"}, "null", AsIs)["{}"] = "{}"
          /\ When({"null", "{nulls}"}, "null", AsIs)["null"] = "null"
          /\ When({"null", "{nulls}"}, "null", AsIs)["{nulls}"] = "null"
      BY DEF When, AsIs, Values, Nullish
    <2> HIDE DEF w
    <2>3. Suits(w, When({"null", "{nulls}"}, "null", AsIs), maybe(orNull(object)))
      BY <2>1, <2>2 DEF Suits, maybe, orNull, object
    <2> QED
      BY <2>3 DEF w
  <1>3. Suits([Got!Either EXCEPT !.odd = @ \union {"-1", "'x'", "null"}], Got!parseUint16,
              number \union {"throws"})
    <2> DEFINE w == [Got!Either EXCEPT !.odd = @ \union {"-1", "'x'", "null"}]
    <2>1. \A v \in Comes(w) : v \in {"'1'", "'0'", "1", "0", "-1", "'x'", "null"}
      BY GotWires DEF Comes, Either, Wire
    <2>2. \A v \in {"'1'", "'0'", "1", "0", "-1", "'x'", "null"} :
            v \in Values /\ (v \in {"0", "1", "'0'", "'1'"} => Number[v] \in {"0", "1"})
      BY DEF Number, Values, Texts, Numbers, Nullish
    <2>3. \A v \in {"'1'", "'0'", "1", "0", "-1", "'x'", "null"} :
            Got!parseUint16[v] \in number \union {"throws"}
      BY <2>2, GotValues, GotHow DEF Got!parseUint16, number
    <2> HIDE DEF w
    <2>4. Suits(w, Got!parseUint16, number \union {"throws"})
      BY <2>1, <2>3 DEF Suits
    <2> QED
      BY <2>4 DEF w
  <1> QED
    BY <1>1, <1>2, <1>3, GotWires, GotHow

-----------------------------------------------------------------------------
\* A table matches a type: each rule makes a field that the type has, of its
\* type, and each field that may not be left out has a rule that makes it.

\* A rule makes a field of a type.
Typed(r, t) == /\ Path(r.to) /\ t.path = r.to /\ t = [path |-> t.path, type |-> t.type]
               /\ Suits(r.wire, r.how, t.type)

\* Every rule of a table makes a field of the type.
Into(R, T) == \A r \in R : \E t \in T : Typed(r, t)
\* Every field that a type demands is made by a rule of the table.
Onto(R, T) == \A t \in T : /\ Path(t.path) /\ t = [path |-> t.path, type |-> t.type]
                           /\ "absent" \in t.type \/ \E r \in R : Typed(r, t)

\* Beneath an object that may be made of nothing, a field may be what its rule
\* makes of nothing.
Settles(R, T) == \A q, r \in R, t \in T :
  q.to \in Above(r.to) /\ Typed(r, t) => Shut(q) \/ r.how["undefined"] \in t.type

\* A field whose value has something odd above it, has a rule above it for that.
LEMMA Unread ==
  ASSUME NEW R, Tree(R), NEW odd \in SUBSET OddValues(R), NEW r \in R, ~There(r, odd)
  PROVE  \E q \in R : /\ q.to \in Above(r.to) /\ There(q, odd) /\ Held(q, odd) \in q.wire.odd
  <1> DEFINE S == {p[1] : p \in {x \in odd : x[1] \in Above(r.from) /\ x[2] # "{}"}}
  <1>1. Path(r.from) /\ \A x \in S : Path(x) /\ x \in Above(r.from)
    BY AboveIs DEF Tree
  <1>2. S # {}
    BY DEF There
  <1> HIDE DEF S
  <1>3. PICK x \in S : \A y \in S : ~(Len(y) < Len(x))
    BY <1>1, <1>2, Topmost
  <1>4. PICK p \in odd : p[1] = x /\ x \in Above(r.from) /\ p[2] # "{}"
    <2>1. \E p \in {z \in odd : z[1] \in Above(r.from) /\ z[2] # "{}"} : x = p[1]
      BY <1>3 DEF S
    <2> QED
      BY <2>1
  <1>5. PICK q \in R : \E v \in q.wire.odd : p = <<q.from, v>>
    BY DEF OddValues
  <1>6. q.from = x
    <2>1. p[1] = q.from
      BY <1>5
    <2> QED
      BY <1>4, <2>1
  <1>7. There(q, odd)
    <2> SUFFICES ASSUME NEW y \in odd, y[1] \in Above(x), y[2] # "{}" PROVE FALSE
      BY <1>6 DEF There
    <2>1. y[1] \in Above(r.from) /\ Len(y[1]) < Len(x)
      BY <1>1, AboveAbove, AboveIs
    <2>2. y[1] \in S
      BY <2>1 DEF S
    <2> QED
      BY <2>1, <2>2, <1>3
  <1>8. Held(q, odd) \in q.wire.odd
    <2> DEFINE here == {z \in odd : z[1] = q.from}
    <2>1. here # {} /\ \A z \in here : z[2] \in q.wire.odd
      BY <1>4, <1>6, HeldOdd
    <2> QED
      BY <2>1 DEF Held
  <1>9. q.to \in Above(r.to)
    BY <1>4, <1>6 DEF Tree
  <1> QED
    BY <1>7, <1>8, <1>9

\* What such a table makes of an answer is of the type.
LEMMA AnswerTyped ==
  ASSUME NEW m, Tree(m.decoding), Reads(m.decoding, m.selected),
         Into(m.decoding, m.type), Onto(m.decoding, m.type), Settles(m.decoding, m.type),
         NEW odd \in SUBSET OddValues(m.decoding)
  PROVE  LET made == Decode(m, odd)
             without(path) == path \notin DOMAIN made \/ made[path] # "{}"
         IN /\ \A path \in DOMAIN made :
                 \E t \in m.type : t.path = path /\ made[path] \in t.type
            /\ \A t \in m.type : t.path \notin DOMAIN made =>
                 \/ "absent" \in t.type
                 \/ \E u \in m.type : u.path \in Above(t.path) /\ without(u.path)
  <1> DEFINE R == m.decoding
             made == Decode(m, odd)
             without(path) == path \notin DOMAIN made \/ made[path] # "{}"
  <1>1. /\ \A path \in DOMAIN made : \E r \in R : r.to = path
        /\ \A r \in R :
             /\ r.to \in DOMAIN made <=>
                  /\ Becomes(r, odd) # "absent"
                  /\ \A q \in R : q.to \in Above(r.to) => Becomes(q, odd) = "{}"
             /\ r.to \in DOMAIN made => made[r.to] = Becomes(r, odd)
    BY Decoded
  <1> HIDE DEF made
  <1>2. ASSUME NEW r \in R, NEW t \in m.type, Typed(r, t),
               \A q \in R : q.to \in Above(r.to) => Becomes(q, odd) = "{}"
        PROVE  Becomes(r, odd) \in t.type
    <2>1. CASE There(r, odd)
      <3>1. Held(r, odd) \in Comes(r.wire)
        BY HeldWire
      <3> QED
        BY <1>2, <2>1, <3>1 DEF Becomes, Typed, Suits
    <2>2. CASE ~There(r, odd)
      <3>1. PICK q \in R : /\ q.to \in Above(r.to) /\ There(q, odd)
                           /\ Held(q, odd) \in q.wire.odd
        BY <2>2, Unread
      <3>2. ~Shut(q)
        BY <1>2, <3>1 DEF Shut, Becomes
      <3> QED
        BY <1>2, <2>2, <3>1, <3>2 DEF Settles, Becomes
    <2> QED
      BY <2>1, <2>2
  <1>3. ASSUME NEW path \in DOMAIN made
        PROVE  \E t \in m.type : t.path = path /\ made[path] \in t.type
    <2>1. PICK r \in R : r.to = path
      BY <1>1
    <2>2. PICK t \in m.type : Typed(r, t)
      BY DEF Into
    <2>3. t.path = path
      BY <2>1, <2>2 DEF Typed
    <2>4. /\ made[path] = Becomes(r, odd)
          /\ \A q \in R : q.to \in Above(r.to) => Becomes(q, odd) = "{}"
      BY <1>1, <2>1
    <2>5. Becomes(r, odd) \in t.type
      BY <1>2, <2>2, <2>4
    <2> QED
      BY <2>3, <2>4, <2>5
  <1>4. ASSUME NEW t \in m.type, t.path \notin DOMAIN made, "absent" \notin t.type
        PROVE  \E u \in m.type : u.path \in Above(t.path) /\ without(u.path)
    <2>1. PICK r \in R : Typed(r, t)
      BY <1>4 DEF Onto
    <2>2. t.path = r.to
      BY <2>1 DEF Typed
    <2>3. PICK q \in R : q.to \in Above(r.to) /\ Becomes(q, odd) # "{}"
      <3> SUFFICES ASSUME \A q \in R : q.to \in Above(r.to) => Becomes(q, odd) = "{}"
                   PROVE  FALSE
        OBVIOUS
      <3>1. Becomes(r, odd) \in t.type
        BY <1>2, <2>1
      <3>2. Becomes(r, odd) = "absent"
        BY <1>1, <1>4, <2>2
      <3> QED
        BY <1>4, <3>1, <3>2
    <2>4. PICK u \in m.type : Typed(q, u)
      BY DEF Into
    <2>5. u.path = q.to
      BY <2>4 DEF Typed
    <2>6. without(q.to)
      BY <1>1, <2>3
    <2> QED
      BY <2>2, <2>3, <2>5, <2>6
  <1> QED
    BY <1>3, <1>4 DEF made

-----------------------------------------------------------------------------
\* How tables and types that match are built.

\* A type has a field for what a rule makes, or one for each of some names.
Has1(T, p, w, h) == \E t \in T : Path(p) /\ t = [path |-> p, type |-> t.type] /\ Suits(w, h, t.type)
Takes(T, N, w, h) == \A n \in N : Has1(T, <<n>>, w, h)
TakesIt(T, w, h) == Has1(T, <<>>, w, h)

\* A table has a rule that makes a field of a type.
Makes1(R, p, V) == \E r \in R : Path(p) /\ r.to = p /\ Suits(r.wire, r.how, V)
Fills(R, n, V) == Makes1(R, <<n>>, V)
FillsIt(R, V) == Makes1(R, <<>>, V)

\* A type has what a table makes, beneath a field.
Hosts(T, n, R) == \A a : Into(Got!Inside(a, <<n>>, R), T)

\* The fields of a type.
LEMMA FieldsAre ==
  /\ \A M, V : Fields(M, V) = {[path |-> <<n>>, type |-> V] : n \in M}
  /\ \A V : Just(V) = {[path |-> <<>>, type |-> V]}
  /\ \A n, V, F : Nested(<<n>>, V, F) = {[path |-> <<n>>, type |-> V]} \union Beneath(<<n>>, F)
  BY DEF Fields, Field, Just, Nested

\* Those beneath a field.
LEMMA BeneathIs ==
  ASSUME NEW b, NEW F
  PROVE  /\ \A f \in F : f = [path |-> f.path, type |-> f.type] =>
                           [path |-> Join(b, f.path), type |-> f.type] \in Beneath(b, F)
         /\ (\A f \in F : f = [path |-> f.path, type |-> f.type]) =>
              \A t \in Beneath(b, F) : \E f \in F :
                t = [path |-> Join(b, f.path), type |-> f.type]
  <1>1. ASSUME NEW f \in F, f = [path |-> f.path, type |-> f.type]
        PROVE  [f EXCEPT !.path = b \o @] = [path |-> Join(b, f.path), type |-> f.type]
    <2> DEFINE x == Join(b, f.path)
    <2>1. [f EXCEPT !.path = b \o @] = [f EXCEPT !.path = x]
      BY DEF Join
    <2> HIDE DEF x
    <2>2. [f EXCEPT !.path = x] = [path |-> x, type |-> f.type]
      BY <1>1
    <2> QED
      BY <2>1, <2>2 DEF x
  <1>2. /\ \A f \in F : [f EXCEPT !.path = b \o @] \in Beneath(b, F)
        /\ \A t \in Beneath(b, F) : \E f \in F : t = [f EXCEPT !.path = b \o @]
    BY DEF Beneath
  <1>3. \A f \in F : f = [path |-> f.path, type |-> f.type] =>
          [path |-> Join(b, f.path), type |-> f.type] \in Beneath(b, F)
    BY <1>1, <1>2
  <1>4. ASSUME \A f \in F : f = [path |-> f.path, type |-> f.type], NEW t \in Beneath(b, F)
        PROVE  \E f \in F : t = [path |-> Join(b, f.path), type |-> f.type]
    <2>1. PICK f \in F : t = [f EXCEPT !.path = b \o @]
      BY <1>2
    <2> QED
      BY <1>1, <1>4, <2>1
  <1> QED
    BY <1>3, <1>4

\* What the fields of a type take.
LEMMA TakesOf ==
  /\ \A M, V, N, w, h : N \subseteq M /\ Suits(w, h, V) => Takes(Fields(M, V), N, w, h)
  /\ \A V, F, n, w, h : Suits(w, h, V) => Takes(Nested(<<n>>, V, F), {n}, w, h)
  /\ \A S, T, N, w, h : Takes(S, N, w, h) \/ Takes(T, N, w, h) => Takes(S \union T, N, w, h)
  /\ \A V, w, h : Suits(w, h, V) => TakesIt(Just(V), w, h)
  /\ \A S, T, w, h : TakesIt(S, w, h) \/ TakesIt(T, w, h) => TakesIt(S \union T, w, h)
  <1>1. \A p, V, w, h, T : Path(p) /\ [path |-> p, type |-> V] \in T /\ Suits(w, h, V)
                             => Has1(T, p, w, h)
    BY DEF Has1
  <1>2. \A S, T, p, w, h : Has1(S, p, w, h) \/ Has1(T, p, w, h) => Has1(S \union T, p, w, h)
    BY DEF Has1
  <1>3. \A n, M, V : n \in M => [path |-> <<n>>, type |-> V] \in Fields(M, V)
    BY FieldsAre
  <1>4. \A n, V, F : [path |-> <<n>>, type |-> V] \in Nested(<<n>>, V, F)
    BY FieldsAre
  <1>5. \A M, V, N, w, h : N \subseteq M /\ Suits(w, h, V) => Takes(Fields(M, V), N, w, h)
    BY <1>1, <1>3, Paths DEF Takes
  <1>6. \A V, F, n, w, h : Suits(w, h, V) => Takes(Nested(<<n>>, V, F), {n}, w, h)
    BY <1>1, <1>4, Paths DEF Takes
  <1>7. \A S, T, N, w, h : Takes(S, N, w, h) \/ Takes(T, N, w, h) => Takes(S \union T, N, w, h)
    BY <1>2 DEF Takes
  <1>8. \A V, w, h : Suits(w, h, V) => TakesIt(Just(V), w, h)
    BY <1>1, FieldsAre, Paths DEF TakesIt
  <1>9. \A S, T, w, h : TakesIt(S, w, h) \/ TakesIt(T, w, h) => TakesIt(S \union T, w, h)
    BY <1>2 DEF TakesIt
  <1> QED
    BY <1>5, <1>6, <1>7, <1>8, <1>9

\* A table of one rule.
LEMMA IntoRule ==
  ASSUME NEW T, NEW a, NEW b, NEW w, NEW h, Has1(T, b, w, h)
  PROVE  Into({Got!Rule(a, b, w, h)}, T)
  <1> DEFINE r == [from |-> a, to |-> b, wire |-> w, how |-> h]
  <1>1. Got!Rule(a, b, w, h) = r
    BY GotSame DEF Rule
  <1>2. r.to = b /\ r.wire = w /\ r.how = h
    OBVIOUS
  <1> HIDE DEF r
  <1>3. PICK t \in T : Path(b) /\ t = [path |-> b, type |-> t.type] /\ Suits(w, h, t.type)
    BY DEF Has1
  <1>4. t.path = b
    BY <1>3
  <1>5. Typed(r, t)
    BY <1>2, <1>3, <1>4 DEF Typed
  <1> QED
    BY <1>1, <1>5 DEF Into

\* A table of fields that keep their names.
LEMMA IntoTake ==
  ASSUME NEW T, NEW N, NEW w, NEW h, Takes(T, N, w, h)
  PROVE  Into(Got!Take(N, w, h), T)
  <1>1. \A n \in N : Into({Got!Rule(<<n>>, <<n>>, w, h)}, T)
    BY IntoRule DEF Takes
  <1>2. \A r \in Got!Take(N, w, h) : \E n \in N : r = Got!Rule(<<n>>, <<n>>, w, h)
    BY GotSame DEF Take
  <1> QED
    BY <1>1, <1>2 DEF Into

\* Typed, where the rule and the field are used beneath another.
LEMMA TypedBeneath ==
  ASSUME NEW b, Path(b), NEW r, NEW t, Typed(r, t), NEW x
  PROVE  Typed([from |-> x, to |-> Join(b, r.to), wire |-> r.wire, how |-> r.how],
               [path |-> Join(b, t.path), type |-> t.type])
  <1>1. Path(Join(b, r.to)) /\ t.path = r.to
    BY Joins DEF Typed
  <1> DEFINE u == Join(b, r.to)
  <1> HIDE DEF u
  <1>2. \A s, V : s = [path |-> u, type |-> V] => s.path = u /\ s.type = V
    OBVIOUS
  <1> QED
    BY <1>1, <1>2 DEF Typed, u

\* A table beneath a field.
LEMMA IntoInside ==
  ASSUME NEW a, NEW b, Path(b), NEW R, NEW F, Into(R, F)
  PROVE  Into(Got!Inside(a, b, R), Beneath(b, F))
  <1> SUFFICES ASSUME NEW r \in Inside(a, b, R) PROVE \E t \in Beneath(b, F) : Typed(r, t)
    BY GotSame DEF Into
  <1>1. PICK q \in R :
          r = [from |-> Join(a, q.from), to |-> Join(b, q.to), wire |-> q.wire, how |-> q.how]
    BY InsideIs
  <1>2. PICK t \in F : Typed(q, t)
    BY DEF Into
  <1>3. [path |-> Join(b, t.path), type |-> t.type] \in Beneath(b, F)
    BY <1>2, BeneathIs DEF Typed
  <1> QED
    BY <1>1, <1>2, <1>3, TypedBeneath

\* A table whose fields stay where they are.
LEMMA IntoHere ==
  ASSUME NEW a, NEW R, NEW T, Into(R, T)
  PROVE  Into(Got!Inside(a, <<>>, R), T)
  <1> SUFFICES ASSUME NEW r \in Inside(a, <<>>, R) PROVE \E t \in T : Typed(r, t)
    BY GotSame DEF Into
  <1>1. PICK q \in R : r.to = Join(<<>>, q.to) /\ r.wire = q.wire /\ r.how = q.how
    BY InsidePaths
  <1>2. PICK t \in T : Typed(q, t)
    BY DEF Into
  <1>3. r.to = q.to
    BY <1>1, <1>2, Joins, Paths DEF Typed
  <1> QED
    BY <1>1, <1>2, <1>3 DEF Typed

\* Two tables in one.
LEMMA IntoBoth == \A A, B, T : Into(A, T) /\ Into(B, T) => Into(A \union B, T)
  BY DEF Into

\* What a type has beneath a field.
LEMMA HostsOf ==
  /\ \A F, n, R : Into(R, F) => Hosts(Beneath(<<n>>, F), n, R)
  /\ \A V, F, n, R : Into(R, F) => Hosts(Nested(<<n>>, V, F), n, R)
  /\ \A S, T, n, R : Hosts(S, n, R) \/ Hosts(T, n, R) => Hosts(S \union T, n, R)
  <1>1. \A S, T, R : Into(R, S) \/ Into(R, T) => Into(R, S \union T)
    BY DEF Into
  <1>2. \A F, a, n, R : Into(R, F) => Into(Got!Inside(a, <<n>>, R), Beneath(<<n>>, F))
    BY IntoInside, Paths
  <1>3. \A F, V, a, n, R : Into(R, F) => Into(Got!Inside(a, <<n>>, R), Nested(<<n>>, V, F))
    BY <1>1, <1>2, FieldsAre
  <1> QED
    BY <1>1, <1>2, <1>3 DEF Hosts

\* The rules, for searching.
LEMMA IntoGot ==
  /\ \A T, N, w, h : Takes(T, N, w, h) => Into(Got!Take(N, w, h), T)
  /\ \A T, m, n, w, h : Takes(T, {n}, w, h) => Into(Got!Move(m, n, w, h), T)
  /\ \A T, a, n, w, h : Takes(T, {n}, w, h) => Into({Got!Rule(a, <<n>>, w, h)}, T)
  /\ \A T, a, w, h : TakesIt(T, w, h) => Into({Got!Rule(a, <<>>, w, h)}, T)
  /\ \A T, a, R : Into(R, T) => Into(Got!Inside(a, <<>>, R), T)
  /\ \A T, a, n, R : Hosts(T, n, R) => Into(Got!Inside(a, <<n>>, R), T)
  /\ \A T, a, n, w, h, R : Takes(T, {n}, w, h) /\ Hosts(T, n, R)
       => Into(Got!Within(a, <<n>>, w, h, R), T)
  /\ \A T, a, w, h, R : TakesIt(T, w, h) /\ Into(R, T) => Into(Got!Within(a, <<>>, w, h, R), T)
  <1>1. /\ \A T, N, w, h : Takes(T, N, w, h) => Into(Got!Take(N, w, h), T)
        /\ \A T, a, R : Into(R, T) => Into(Got!Inside(a, <<>>, R), T)
    BY IntoTake, IntoHere
  <1>2. \A T, a, n, w, h : Takes(T, {n}, w, h) => Into({Got!Rule(a, <<n>>, w, h)}, T)
    BY IntoRule DEF Takes
  <1>3. \A T, a, w, h : TakesIt(T, w, h) => Into({Got!Rule(a, <<>>, w, h)}, T)
    BY IntoRule DEF TakesIt
  <1>4. \A T, m, n, w, h : Takes(T, {n}, w, h) => Into(Got!Move(m, n, w, h), T)
    BY <1>2, GotSame DEF Move
  <1>5. \A T, a, n, R : Hosts(T, n, R) => Into(Got!Inside(a, <<n>>, R), T)
    BY DEF Hosts
  <1>6. \A a, b, w, h, R : Got!Within(a, b, w, h, R) = {Got!Rule(a, b, w, h)}
          \union Got!Inside(a, b, R)
    BY GotSame DEF Within
  <1>7. \A T, a, n, w, h, R : Takes(T, {n}, w, h) /\ Hosts(T, n, R)
          => Into(Got!Within(a, <<n>>, w, h, R), T)
    BY <1>2, <1>5, <1>6, IntoBoth
  <1>8. \A T, a, w, h, R : TakesIt(T, w, h) /\ Into(R, T) => Into(Got!Within(a, <<>>, w, h, R), T)
    BY <1>1, <1>3, <1>6, IntoBoth
  <1> QED
    BY <1>1, <1>2, <1>3, <1>4, <1>5, <1>7, <1>8

\* What the rules of a table fill.
LEMMA FillsOf ==
  /\ \A N, V, n, w, h : n \in N /\ Suits(w, h, V) => Fills(Got!Take(N, w, h), n, V)
  /\ \A V, m, n, w, h : Suits(w, h, V) => Fills(Got!Move(m, n, w, h), n, V)
  /\ \A V, a, n, w, h : Suits(w, h, V) => Fills({Got!Rule(a, <<n>>, w, h)}, n, V)
  /\ \A A, B, n, V : Fills(A, n, V) \/ Fills(B, n, V) => Fills(A \union B, n, V)
  /\ \A a, n, R, V : Fills(R, n, V) => Fills(Got!Inside(a, <<>>, R), n, V)
  /\ \A a, n, w, h, R, V : Fills(R, n, V) => Fills(Got!Within(a, <<>>, w, h, R), n, V)
  /\ \A a, n, w, h, R, V : Suits(w, h, V) => Fills(Got!Within(a, <<n>>, w, h, R), n, V)
  /\ \A a, w, h, R, V : Suits(w, h, V) => FillsIt(Got!Within(a, <<>>, w, h, R), V)
  /\ \A a, w, h, V : Suits(w, h, V) => FillsIt({Got!Rule(a, <<>>, w, h)}, V)
  <1>1. \A A, B, p, V : Makes1(A, p, V) \/ Makes1(B, p, V) => Makes1(A \union B, p, V)
    BY DEF Makes1
  <1>2. ASSUME NEW R, NEW a, NEW b, Path(b), NEW w, NEW h, NEW V, Suits(w, h, V),
               Got!Rule(a, b, w, h) \in R
        PROVE  Makes1(R, b, V)
    <2> DEFINE r == Got!Rule(a, b, w, h)
    <2>1. r.to = b /\ r.wire = w /\ r.how = h
      BY GotSame DEF Rule
    <2> HIDE DEF r
    <2> QED
      BY <1>2, <2>1 DEF Makes1, r
  <1>3. \A N, n, w, h : n \in N => Got!Rule(<<n>>, <<n>>, w, h) \in Got!Take(N, w, h)
    BY GotSame DEF Take
  <1>4. \A m, n, w, h : Got!Move(m, n, w, h) = {Got!Rule(<<m>>, <<n>>, w, h)}
    BY GotSame DEF Move
  <1>5. \A a, b, w, h, R : Got!Within(a, b, w, h, R) = {Got!Rule(a, b, w, h)}
          \union Got!Inside(a, b, R)
    BY GotSame DEF Within
  <1>6. \A N, V, n, w, h : n \in N /\ Suits(w, h, V) => Makes1(Got!Take(N, w, h), <<n>>, V)
    BY <1>2, <1>3, Paths
  <1>7. \A V, a, n, w, h : Suits(w, h, V) => Makes1({Got!Rule(a, <<n>>, w, h)}, <<n>>, V)
    BY <1>2, Paths
  <1>8. \A V, m, n, w, h : Suits(w, h, V) => Makes1(Got!Move(m, n, w, h), <<n>>, V)
    BY <1>4, <1>7
  <1>9. \A a, w, h, V : Suits(w, h, V) => Makes1({Got!Rule(a, <<>>, w, h)}, <<>>, V)
    BY <1>2, Paths
  <1>10. ASSUME NEW a, NEW n, NEW R, NEW V, Makes1(R, <<n>>, V)
         PROVE  Makes1(Got!Inside(a, <<>>, R), <<n>>, V)
    <2>1. PICK q \in R : Path(<<n>>) /\ q.to = <<n>> /\ Suits(q.wire, q.how, V)
      BY <1>10 DEF Makes1
    <2>2. Join(<<>>, <<n>>) = <<n>>
      BY Joins, Paths
    <2> DEFINE x == Join(a, q.from)
               p == <<n>>
    <2>3. [from |-> x, to |-> p, wire |-> q.wire, how |-> q.how] \in Got!Inside(a, <<>>, R)
      BY <2>1, <2>2, InsideHas
    <2> HIDE DEF x, p
    <2> DEFINE r == [from |-> x, to |-> p, wire |-> q.wire, how |-> q.how]
    <2>4. r.to = p /\ r.wire = q.wire /\ r.how = q.how
      OBVIOUS
    <2> HIDE DEF r
    <2>5. Path(p)
      BY <2>1 DEF p
    <2>6. Makes1(Got!Inside(a, <<>>, R), p, V)
      BY <2>1, <2>3, <2>4, <2>5 DEF Makes1, r
    <2> QED
      BY <2>6 DEF p
  <1>11. /\ \A a, n, w, h, R, V : Makes1(R, <<n>>, V)
              => Makes1(Got!Within(a, <<>>, w, h, R), <<n>>, V)
         /\ \A a, n, w, h, R, V : Suits(w, h, V) => Makes1(Got!Within(a, <<n>>, w, h, R), <<n>>, V)
         /\ \A a, w, h, R, V : Suits(w, h, V) => Makes1(Got!Within(a, <<>>, w, h, R), <<>>, V)
    BY <1>1, <1>5, <1>7, <1>9, <1>10
  <1> QED
    BY <1>1, <1>6, <1>7, <1>8, <1>9, <1>10, <1>11 DEF Fills, FillsIt

\* One field of a type.
LEMMA OntoOne ==
  ASSUME NEW R, NEW p, Path(p), NEW V, "absent" \in V \/ Makes1(R, p, V)
  PROVE  LET t == [path |-> p, type |-> V]
         IN /\ Path(t.path) /\ t = [path |-> t.path, type |-> t.type]
            /\ "absent" \in t.type \/ \E r \in R : Typed(r, t)
  <1> DEFINE t == [path |-> p, type |-> V]
  <1>1. t.path = p /\ t.type = V /\ t = [path |-> t.path, type |-> t.type]
    OBVIOUS
  <1> HIDE DEF t
  <1>2. CASE Makes1(R, p, V)
    <2>1. PICK r \in R : Path(p) /\ r.to = p /\ Suits(r.wire, r.how, V)
      BY <1>2 DEF Makes1
    <2>2. Typed(r, t)
      BY <1>1, <2>1 DEF Typed
    <2> QED
      BY <1>1, <2>2 DEF t
  <1>3. CASE "absent" \in V
    BY <1>1, <1>3 DEF t
  <1> QED
    BY <1>2, <1>3

\* The fields beneath a field.
LEMMA OntoInside ==
  ASSUME NEW a, NEW b, Path(b), NEW R, NEW F, Onto(R, F)
  PROVE  Onto(Got!Inside(a, b, R), Beneath(b, F))
  <1> SUFFICES ASSUME NEW t \in Beneath(b, F)
               PROVE  /\ Path(t.path) /\ t = [path |-> t.path, type |-> t.type]
                      /\ "absent" \in t.type \/ \E r \in Got!Inside(a, b, R) : Typed(r, t)
    BY DEF Onto
  <1>1. PICK f \in F : t = [path |-> Join(b, f.path), type |-> f.type]
    BY BeneathIs DEF Onto
  <1>2. t.type = f.type /\ t.path = Join(b, f.path) /\ Path(t.path)
    <2>1. t.type = f.type /\ t.path = Join(b, f.path)
      BY <1>1
    <2> QED
      BY <2>1, Joins DEF Onto
  <1>3. CASE "absent" \in f.type
    BY <1>1, <1>2, <1>3
  <1>4. CASE \E q \in R : Typed(q, f)
    <2>1. PICK q \in R : Typed(q, f)
      BY <1>4
    <2>2. [from |-> Join(a, q.from), to |-> Join(b, q.to), wire |-> q.wire, how |-> q.how]
            \in Got!Inside(a, b, R)
      BY InsideHas
    <2> QED
      BY <1>1, <1>2, <2>1, <2>2, TypedBeneath
  <1> QED
    BY <1>3, <1>4 DEF Onto

\* The fields of a table whose fields stay where they are.
LEMMA OntoHere ==
  ASSUME NEW a, NEW R, NEW T, Onto(R, T)
  PROVE  Onto(Got!Inside(a, <<>>, R), T)
  <1> SUFFICES ASSUME NEW t \in T, NEW q \in R, Typed(q, t)
               PROVE  \E r \in Got!Inside(a, <<>>, R) : Typed(r, t)
    BY DEF Onto
  <1>1. Join(<<>>, q.to) = q.to
    BY Joins, Paths DEF Typed
  <1> DEFINE x == Join(a, q.from)
             r == [from |-> x, to |-> q.to, wire |-> q.wire, how |-> q.how]
  <1>2. r \in Got!Inside(a, <<>>, R)
    BY <1>1, InsideHas
  <1> HIDE DEF x
  <1>3. r.to = q.to /\ r.wire = q.wire /\ r.how = q.how
    OBVIOUS
  <1> HIDE DEF r
  <1>4. Typed(r, t)
    BY <1>3 DEF Typed
  <1> QED
    BY <1>2, <1>4

\* Two types, or two tables, in one.
LEMMA OntoBoth ==
  /\ \A R, S, T : Onto(R, S) /\ Onto(R, T) => Onto(R, S \union T)
  /\ \A A, B, T : Onto(A, T) \/ Onto(B, T) => Onto(A \union B, T)
  BY DEF Onto

\* The same rules for demands, for searching.
LEMMA OntoGot ==
  /\ \A R, M, V : (\A n \in M : Fills(R, n, V)) => Onto(R, Fields(M, V))
  /\ \A R, M, V : Onto(R, Fields(M, maybe(V)))
  /\ \A R, V : FillsIt(R, V) => Onto(R, Just(V))
  /\ \A a, n, Q, F : Onto(Q, F) => Onto(Got!Inside(a, <<n>>, Q), Beneath(<<n>>, F))
  /\ \A a, Q, T : Onto(Q, T) => Onto(Got!Inside(a, <<>>, Q), T)
  /\ \A a, w, h, Q, T : Onto(Q, T) => Onto(Got!Within(a, <<>>, w, h, Q), T)
  /\ \A a, n, w, h, Q, V, F : Suits(w, h, V) /\ Onto(Q, F)
       => Onto(Got!Within(a, <<n>>, w, h, Q), Nested(<<n>>, V, F))
  /\ \A n, R, V, F : Fills(R, n, V) /\ Onto(R, Beneath(<<n>>, F)) => Onto(R, Nested(<<n>>, V, F))
  <1>1. ASSUME NEW R, NEW M, NEW V, "absent" \in V \/ \A n \in M : Fills(R, n, V)
        PROVE  Onto(R, Fields(M, V))
    <2>1. \A n \in M : "absent" \in V \/ Fills(R, n, V)
      BY <1>1
    <2>2. \A t \in Fields(M, V) : \E n \in M : t = [path |-> <<n>>, type |-> V]
      BY FieldsAre
    <2> QED
      BY <2>1, <2>2, OntoOne, Paths DEF Onto, Fills
  <1>2. \A R, V : FillsIt(R, V) => Onto(R, Just(V))
    BY FieldsAre, OntoOne, Paths DEF Onto, FillsIt
  <1>3. \A V : "absent" \in maybe(V)
    BY DEF maybe
  <1>4. /\ \A a, n, Q, F : Onto(Q, F) => Onto(Got!Inside(a, <<n>>, Q), Beneath(<<n>>, F))
        /\ \A a, Q, T : Onto(Q, T) => Onto(Got!Inside(a, <<>>, Q), T)
    BY OntoInside, OntoHere, Paths
  <1>5. \A a, b, w, h, R : Got!Within(a, b, w, h, R) = {Got!Rule(a, b, w, h)}
          \union Got!Inside(a, b, R)
    BY GotSame DEF Within
  <1>6. \A a, w, h, Q, T : Onto(Q, T) => Onto(Got!Within(a, <<>>, w, h, Q), T)
    BY <1>4, <1>5, OntoBoth
  <1>7. \A n, R, V, F : Fills(R, n, V) /\ Onto(R, Beneath(<<n>>, F))
          => Onto(R, Nested(<<n>>, V, F))
    <2> SUFFICES ASSUME NEW n, NEW R, NEW V, NEW F, Fills(R, n, V), Onto(R, Beneath(<<n>>, F))
                 PROVE  Onto(R, Nested(<<n>>, V, F))
      OBVIOUS
    <2>1. Onto(R, {[path |-> <<n>>, type |-> V]})
      BY OntoOne, Paths DEF Onto, Fills
    <2> QED
      BY <2>1, FieldsAre, OntoBoth
  <1>8. \A a, n, w, h, Q, V, F : Suits(w, h, V) /\ Onto(Q, F)
          => Onto(Got!Within(a, <<n>>, w, h, Q), Nested(<<n>>, V, F))
    <2> SUFFICES ASSUME NEW a, NEW n, NEW w, NEW h, NEW Q, NEW V, NEW F, Suits(w, h, V), Onto(Q, F)
                 PROVE  Onto(Got!Within(a, <<n>>, w, h, Q), Nested(<<n>>, V, F))
      OBVIOUS
    <2>1. Fills(Got!Within(a, <<n>>, w, h, Q), n, V)
      BY FillsOf
    <2>2. Onto(Got!Within(a, <<n>>, w, h, Q), Beneath(<<n>>, F))
      BY <1>4, <1>5, OntoBoth
    <2> QED
      BY <1>7, <2>1, <2>2
  <1> QED
    BY <1>1, <1>2, <1>3, <1>4, <1>6, <1>7, <1>8

\* Parts of the tables of Decoding that have no name there.
BalanceTable == Got!Take({"total"}, Got!Digits, Got!FromGraphQL)
           \union Got!Take({"liquid", "locked"}, Got!Nullable(Got!Digits),
                    Got!IfTruthy(Got!FromGraphQL))
           \union Got!Take({"blockHeight"}, Got!Nullable(Got!Either), Got!UnlessNull(Got!Number))

\* A peer.
LEMMA TypedPeers == Into(Got!getDaemonPeers, PeerInfo) /\ Onto(Got!getDaemonPeers, PeerInfo)
  <1>1. Into(Got!Take({"peerId", "host"}, Got!Name, Got!AsIs), PeerInfo)
    BY GotSuits, TakesOf, IntoGot DEF PeerInfo
  <1>2. Into(Got!Move("libp2pPort", "port", Got!Num, Got!AsIs), PeerInfo)
    BY GotSuits, TakesOf, IntoGot DEF PeerInfo
  <1>3. Into(Got!getDaemonPeers, PeerInfo)
    BY <1>1, <1>2, IntoGot, IntoBoth DEF Got!getDaemonPeers
  <1>4. Onto(Got!getDaemonPeers, PeerInfo)
    BY GotSuits, FillsOf, OntoGot, OntoBoth DEF Got!getDaemonPeers, PeerInfo
  <1> QED
    BY <1>3, <1>4

\* The metrics of the daemon.
LEMMA TypedMetrics ==
  Into(Got!getDaemonMetrics, DaemonMetrics) /\ Onto(Got!getDaemonMetrics, DaemonMetrics)
  <1>1. Into(Got!Take({"blockProductionDelay"}, Got!List, Got!AsIs), DaemonMetrics)
    BY GotSuits, TakesOf, IntoGot DEF DaemonMetrics
  <1>2. Into(Got!Take({"transactionPoolDiffReceived", "transactionPoolDiffBroadcasted",
          "transactionsAddedToPool", "transactionPoolSize", "snarkPoolDiffReceived",
          "snarkPoolDiffBroadcasted", "pendingSnarkWork", "snarkPoolSize"}, Got!Num, Got!AsIs),
          DaemonMetrics)
    BY GotSuits, TakesOf, IntoGot DEF DaemonMetrics
  <1>3. Into(Got!getDaemonMetrics, DaemonMetrics)
    BY <1>1, <1>2, IntoGot, IntoBoth DEF Got!getDaemonMetrics
  <1>4. Onto(Got!getDaemonMetrics, DaemonMetrics)
    BY GotSuits, FillsOf, OntoGot, OntoBoth DEF Got!getDaemonMetrics, DaemonMetrics
  <1> QED
    BY <1>3, <1>4

\* A piece of SNARK work.
LEMMA TypedWork == Into(Got!snarkWork, CompletedWork) /\ Onto(Got!snarkWork, CompletedWork)
  <1>1. Into(Got!Take({"prover"}, Got!Name, Got!AsIs), CompletedWork)
    BY GotSuits, TakesOf, IntoGot DEF CompletedWork
  <1>2. Into(Got!Take({"fee"}, Got!Digits, Got!FromGraphQL), CompletedWork)
    BY GotSuits, TakesOf, IntoGot DEF CompletedWork
  <1>3. Into(Got!Take({"workIds"}, Got!Either, Got!Number), CompletedWork)
    BY GotSuits, TakesOf, IntoGot DEF CompletedWork
  <1>4. Into(Got!snarkWork, CompletedWork)
    BY <1>1, <1>2, <1>3, IntoGot, IntoBoth DEF Got!snarkWork
  <1>5. Onto(Got!snarkWork, CompletedWork)
    BY GotSuits, FillsOf, OntoGot, OntoBoth DEF Got!snarkWork, CompletedWork
  <1> QED
    BY <1>4, <1>5

\* The genesis constants.
LEMMA TypedGenesisConstants ==
  Into(Got!getGenesisConstants, GenesisConstants) /\ Onto(Got!getGenesisConstants, GenesisConstants)
  <1>1. Into(Got!Take({"genesisTimestamp"}, Got!Name, Got!AsIs), GenesisConstants)
    BY GotSuits, TakesOf, IntoGot DEF GenesisConstants
  <1>2. Into(Got!Take({"coinbase", "accountCreationFee"}, Got!Digits, Got!AsIs), GenesisConstants)
    BY GotSuits, TakesOf, IntoGot DEF GenesisConstants
  <1>3. Into(Got!getGenesisConstants, GenesisConstants)
    BY <1>1, <1>2, IntoGot, IntoBoth DEF Got!getGenesisConstants
  <1>4. Onto(Got!getGenesisConstants, GenesisConstants)
    BY GotSuits, FillsOf, OntoGot, OntoBoth DEF Got!getGenesisConstants, GenesisConstants
  <1> QED
    BY <1>3, <1>4

\* The balance of an account.
LEMMA TypedBalance == Into(BalanceTable, AccountBalance) /\ Onto(BalanceTable, AccountBalance)
  <1>1. Into(Got!Take({"total"}, Got!Digits, Got!FromGraphQL), AccountBalance)
    BY GotSuits, TakesOf, IntoGot DEF AccountBalance
  <1>2. Into(Got!Take({"liquid", "locked"}, Got!Nullable(Got!Digits),
          Got!IfTruthy(Got!FromGraphQL)), AccountBalance)
    BY GotSuits, TakesOf, IntoGot DEF AccountBalance
  <1>3. Into(Got!Take({"blockHeight"}, Got!Nullable(Got!Either), Got!UnlessNull(Got!Number)),
          AccountBalance)
    BY GotSuits, TakesOf, IntoGot DEF AccountBalance
  <1>4. Into(BalanceTable, AccountBalance)
    BY <1>1, <1>2, <1>3, IntoGot, IntoBoth DEF BalanceTable
  <1>5. Onto(BalanceTable, AccountBalance)
    BY GotSuits, FillsOf, OntoGot, OntoBoth DEF BalanceTable, AccountBalance
  <1> QED
    BY <1>4, <1>5

\* The addresses of the daemon, and the time of the consensus.
PortsTable ==
  Got!Take({"externalIp", "bindIp"}, Got!Name, Got!AsIs)
  \union Got!Take({"clientPort", "libp2pPort"}, Got!Num, Got!AsIs)
  \union Got!Within(<<"peer">>, <<"peer">>, Got!Nullable(Got!Object), Got!UnlessNull(Got!AsIs),
           Got!getDaemonPeers)

TimeTable ==
  Got!Take({"epoch", "slot", "globalSlot"}, Got!Either, Got!Number)
  \union Got!Take({"startTime", "endTime"}, Got!Digits, Got!String)

\* The addresses and ports of the daemon.
LEMMA TypedPorts == Into(PortsTable, AddrsAndPorts) /\ Onto(PortsTable, AddrsAndPorts)
  <1>1. Into(Got!Take({"externalIp", "bindIp"}, Got!Name, Got!AsIs), AddrsAndPorts)
    BY GotSuits, TakesOf, IntoGot DEF AddrsAndPorts
  <1>2. Into(Got!Take({"clientPort", "libp2pPort"}, Got!Num, Got!AsIs), AddrsAndPorts)
    BY GotSuits, TakesOf, IntoGot DEF AddrsAndPorts
  <1>3. Into(Got!Within(<<"peer">>, <<"peer">>, Got!Nullable(Got!Object),
          Got!UnlessNull(Got!AsIs), Got!getDaemonPeers), AddrsAndPorts)
    BY GotSuits, TypedPeers, TakesOf, HostsOf, IntoGot DEF AddrsAndPorts
  <1>4. Into(PortsTable, AddrsAndPorts)
    BY <1>1, <1>2, <1>3, IntoGot, IntoBoth DEF PortsTable
  <1>5. Onto(PortsTable, AddrsAndPorts)
    BY GotSuits, TypedPeers, FillsOf, OntoGot, OntoBoth DEF PortsTable, AddrsAndPorts
  <1> QED
    BY <1>4, <1>5

\* A time of the consensus.
LEMMA TypedTime == Into(TimeTable, ConsensusTime) /\ Onto(TimeTable, ConsensusTime)
  <1>1. Into(Got!Take({"epoch", "slot", "globalSlot"}, Got!Either, Got!Number), ConsensusTime)
    BY GotSuits, TakesOf, IntoGot DEF ConsensusTime
  <1>2. Into(Got!Take({"startTime", "endTime"}, Got!Digits, Got!String), ConsensusTime)
    BY GotSuits, TakesOf, IntoGot DEF ConsensusTime
  <1>3. Into(TimeTable, ConsensusTime)
    BY <1>1, <1>2, IntoGot, IntoBoth DEF TimeTable
  <1>4. Onto(TimeTable, ConsensusTime)
    BY GotSuits, FillsOf, OntoGot, OntoBoth DEF TimeTable, ConsensusTime
  <1> QED
    BY <1>3, <1>4

\* A type has a field, of its name, for what a rule makes.
Holds1(T, n, w, h) == Has1(T, <<n>>, w, h)

\* Which types have such a field.
LEMMA GivesOf ==
  /\ \A M, V, n, w, h : n \in M /\ Suits(w, h, V) => Holds1(Fields(M, V), n, w, h)
  /\ \A V, F, n, w, h : Suits(w, h, V) => Holds1(Nested(<<n>>, V, F), n, w, h)
  /\ \A S, T, n, w, h : Holds1(S, n, w, h) \/ Holds1(T, n, w, h) => Holds1(S \union T, n, w, h)
  <1>1. \A p, V, w, h, T : Path(p) /\ [path |-> p, type |-> V] \in T /\ Suits(w, h, V)
                             => Has1(T, p, w, h)
    BY DEF Has1
  <1>2. \A S, T, p, w, h : Has1(S, p, w, h) \/ Has1(T, p, w, h) => Has1(S \union T, p, w, h)
    BY DEF Has1
  <1>3. \A n, M, V : n \in M => [path |-> <<n>>, type |-> V] \in Fields(M, V)
    BY FieldsAre
  <1>4. \A n, V, F : [path |-> <<n>>, type |-> V] \in Nested(<<n>>, V, F)
    BY FieldsAre
  <1>5. \A M, V, n, w, h : n \in M /\ Suits(w, h, V) => Holds1(Fields(M, V), n, w, h)
    BY <1>1, <1>3, Paths DEF Holds1
  <1>6. \A V, F, n, w, h : Suits(w, h, V) => Holds1(Nested(<<n>>, V, F), n, w, h)
    BY <1>1, <1>4, Paths DEF Holds1
  <1>7. \A S, T, n, w, h : Holds1(S, n, w, h) \/ Holds1(T, n, w, h) => Holds1(S \union T, n, w, h)
    BY <1>2 DEF Holds1
  <1> QED
    BY <1>5, <1>6, <1>7

\* The rules for one field at a time.
LEMMA IntoGives ==
  /\ \A T, N, w, h : (\A n \in N : Holds1(T, n, w, h)) => Into(Got!Take(N, w, h), T)
  /\ \A T, m, n, w, h : Holds1(T, n, w, h) => Into(Got!Move(m, n, w, h), T)
  /\ \A T, a, n, w, h : Holds1(T, n, w, h) => Into({Got!Rule(a, <<n>>, w, h)}, T)
  /\ \A A, B, T : Into(A, T) /\ Into(B, T) => Into(A \union B, T)
  <1>1. \A T, N, w, h : (\A n \in N : Holds1(T, n, w, h)) => Into(Got!Take(N, w, h), T)
    BY IntoTake DEF Takes, Holds1
  <1>2. \A T, a, n, w, h : Holds1(T, n, w, h) => Into({Got!Rule(a, <<n>>, w, h)}, T)
    BY IntoRule DEF Holds1
  <1>4. \A T, m, n, w, h : Holds1(T, n, w, h) => Into(Got!Move(m, n, w, h), T)
    BY <1>2, GotSame DEF Move
  <1> QED
    BY <1>1, <1>2, <1>4, IntoBoth

\* Conversions of the status, whose fields may be left out.
LEMMA GotSuitsWider ==
  /\ Suits(Got!Nullable(Got!Name), Got!UnlessNull(Got!AsIs), maybe(orNull(string)))
  /\ Suits(Got!Nullable(Got!List), Got!UnlessNull(Got!AsIs), maybe(orNull(list)))
  /\ Suits(Got!Nullable(Got!Num), Got!UnlessNull(Got!AsIs), maybe(orNull(number)))
  <1>1. \A V : maybe(V) \subseteq maybe(orNull(V))
    BY DEF maybe, orNull
  <1> QED
    BY <1>1, GotSuits DEF Suits

\* A larger table makes what a part of it makes.
LEMMA OntoWider ==
  /\ \A A, B, T : Onto(A, T) => Onto(A \union B, T) /\ Onto(B \union A, T)
  /\ \A a, A, T : Onto(A, T) => Onto(Got!Inside(a, <<>>, A), T)
  /\ \A a, w, h, A, T : Onto(A, T) => Onto(Got!Within(a, <<>>, w, h, A), T)
  BY OntoBoth, OntoGot

\* A larger type has what a part of it has.
LEMMA IntoWider == \A A, S, T : Into(A, S) \/ Into(A, T) => Into(A, S \union T)
  BY DEF Into

\* The status of the daemon.
LEMMA TypedStatus ==
  Into(Got!getDaemonStatus, DaemonStatus) /\ Onto(Got!getDaemonStatus, DaemonStatus)
  <1>1. Into(Got!Take({"syncStatus", "stateHash", "commitId"}, Got!Name, Got!AsIs), DaemonStatus)
    <2>1. Into(Got!Take({"syncStatus", "stateHash", "commitId"}, Got!Name, Got!AsIs),
            Fields({"syncStatus", "stateHash", "commitId"}, string))
      BY GotSuits, TakesOf, IntoGot
    <2> QED
      BY <2>1, IntoWider DEF DaemonStatus
  <1>2. Into(Got!Within(<<"peers">>, <<"peers">>, Got!Nullable(Got!List), Got!Else("[]"),
          Got!getDaemonPeers), DaemonStatus)
    <2>1. Into(Got!Within(<<"peers">>, <<"peers">>, Got!Nullable(Got!List), Got!Else("[]"),
            Got!getDaemonPeers), Nested(<<"peers">>, list, PeerInfo))
      BY GotSuits, TypedPeers, TakesOf, HostsOf, IntoGot
    <2> QED
      BY <2>1, IntoWider DEF DaemonStatus
  <1>3. Into(Got!Take({"blockchainLength", "highestBlockLengthReceived", "uptimeSecs",
          "numAccounts", "highestUnvalidatedBlockLengthReceived"}, Got!Nullable(Got!Num),
          Got!UnlessNull(Got!AsIs)), DaemonStatus)
    <2>1. Into(Got!Take({"blockchainLength", "highestBlockLengthReceived", "uptimeSecs",
            "numAccounts", "highestUnvalidatedBlockLengthReceived"}, Got!Nullable(Got!Num),
            Got!UnlessNull(Got!AsIs)), Fields({"blockchainLength", "highestBlockLengthReceived",
            "uptimeSecs", "globalSlotSinceGenesisBestTip"}, maybe(number))
            \union Fields({"numAccounts", "highestUnvalidatedBlockLengthReceived"},
            maybe(orNull(number))))
      BY GotSuits, GotSuitsWider, GivesOf, IntoGives
    <2> QED
      BY <2>1, IntoWider DEF DaemonStatus
  <1>4. Into(Got!Take({"ledgerMerkleRoot", "chainId", "coinbaseReceiver"}, Got!Nullable(Got!Name),
          Got!UnlessNull(Got!AsIs)), DaemonStatus)
    <2>1. Into(Got!Take({"ledgerMerkleRoot", "chainId", "coinbaseReceiver"},
            Got!Nullable(Got!Name), Got!UnlessNull(Got!AsIs)),
            Fields({"ledgerMerkleRoot", "chainId", "coinbaseReceiver"}, maybe(orNull(string))))
      BY GotSuits, GotSuitsWider, TakesOf, IntoGot
    <2> QED
      BY <2>1, IntoWider DEF DaemonStatus
  <1>5. Into(Got!Take({"catchupStatus", "blockProductionKeys"}, Got!Nullable(Got!List),
          Got!UnlessNull(Got!AsIs)), DaemonStatus)
    <2>1. Into(Got!Take({"catchupStatus", "blockProductionKeys"}, Got!Nullable(Got!List),
            Got!UnlessNull(Got!AsIs)), Fields({"catchupStatus"}, maybe(orNull(list)))
            \union Fields({"blockProductionKeys"}, maybe(list)))
      BY GotSuits, GotSuitsWider, GivesOf, IntoGives
    <2> QED
      BY <2>1, IntoWider DEF DaemonStatus
  <1>6. Into(Got!Take({"globalSlotSinceGenesisBestTip"}, Got!Nullable(Got!Either),
          Got!UnlessNull(Got!Number)), DaemonStatus)
    <2>1. Into(Got!Take({"globalSlotSinceGenesisBestTip"}, Got!Nullable(Got!Either),
            Got!UnlessNull(Got!Number)), Fields({"blockchainLength", "highestBlockLengthReceived",
            "uptimeSecs", "globalSlotSinceGenesisBestTip"}, maybe(number)))
      BY GotSuits, TakesOf, IntoGot
    <2> QED
      BY <2>1, IntoWider DEF DaemonStatus
  <1>7. Into(Got!Within(<<"addrsAndPorts">>, <<"addrsAndPorts">>, Got!Nullable(Got!Object),
          Got!UnlessNull(Got!AsIs), PortsTable), DaemonStatus)
    <2>1. Into(Got!Within(<<"addrsAndPorts">>, <<"addrsAndPorts">>, Got!Nullable(Got!Object),
            Got!UnlessNull(Got!AsIs), PortsTable),
            Nested(<<"addrsAndPorts">>, maybe(object), AddrsAndPorts))
      BY GotSuits, TypedPorts, TakesOf, HostsOf, IntoGot
    <2> QED
      BY <2>1, IntoWider DEF DaemonStatus
  <1>8. Into(Got!Within(<<"consensusTimeNow">>, <<"consensusTimeNow">>, Got!Nullable(Got!Object),
          Got!UnlessNull(Got!AsIs), TimeTable), DaemonStatus)
    <2>1. Into(Got!Within(<<"consensusTimeNow">>, <<"consensusTimeNow">>,
            Got!Nullable(Got!Object), Got!UnlessNull(Got!AsIs), TimeTable),
            Nested(<<"consensusTimeNow">>, maybe(object), ConsensusTime))
      BY GotSuits, TypedTime, TakesOf, HostsOf, IntoGot
    <2> QED
      BY <2>1, IntoWider DEF DaemonStatus
  <1>9. Into(Got!getDaemonStatus, DaemonStatus)
    BY <1>1, <1>2, <1>3, <1>4, <1>5, <1>6, <1>7, <1>8, IntoGot, IntoBoth DEF Got!getDaemonStatus,
       PortsTable, TimeTable
  <1>10. Onto(Got!getDaemonStatus, Fields({"syncStatus", "stateHash", "commitId"}, string))
    <2>1. Onto(Got!Take({"syncStatus", "stateHash", "commitId"}, Got!Name, Got!AsIs),
            Fields({"syncStatus", "stateHash", "commitId"}, string))
      BY GotSuits, FillsOf, OntoGot, OntoBoth
    <2> QED
      BY <2>1, OntoWider DEF Got!getDaemonStatus, PortsTable, TimeTable
  <1>11. Onto(Got!getDaemonStatus, Fields({"blockchainLength", "highestBlockLengthReceived",
           "uptimeSecs", "globalSlotSinceGenesisBestTip"}, maybe(number)))
    BY OntoGot
  <1>12. Onto(Got!getDaemonStatus, Fields({"numAccounts",
           "highestUnvalidatedBlockLengthReceived"}, maybe(orNull(number))))
    BY OntoGot
  <1>13. Onto(Got!getDaemonStatus, Fields({"ledgerMerkleRoot", "chainId", "coinbaseReceiver"},
           maybe(orNull(string))))
    BY OntoGot
  <1>14. Onto(Got!getDaemonStatus, Fields({"catchupStatus"}, maybe(orNull(list))))
    BY OntoGot
  <1>15. Onto(Got!getDaemonStatus, Fields({"blockProductionKeys"}, maybe(list)))
    BY OntoGot
  <1>16. Onto(Got!getDaemonStatus, Nested(<<"peers">>, list, PeerInfo))
    <2>1. Onto(Got!Within(<<"peers">>, <<"peers">>, Got!Nullable(Got!List), Got!Else("[]"),
            Got!getDaemonPeers), Nested(<<"peers">>, list, PeerInfo))
      BY GotSuits, TypedPeers, FillsOf, OntoGot, OntoBoth
    <2> QED
      BY <2>1, OntoWider DEF Got!getDaemonStatus, PortsTable, TimeTable
  <1>17. Onto(Got!getDaemonStatus, Nested(<<"addrsAndPorts">>, maybe(object), AddrsAndPorts))
    <2>1. Onto(Got!Within(<<"addrsAndPorts">>, <<"addrsAndPorts">>, Got!Nullable(Got!Object),
            Got!UnlessNull(Got!AsIs), PortsTable),
            Nested(<<"addrsAndPorts">>, maybe(object), AddrsAndPorts))
      BY GotSuits, TypedPorts, FillsOf, OntoGot, OntoBoth
    <2> QED
      BY <2>1, OntoWider DEF Got!getDaemonStatus, PortsTable, TimeTable
  <1>18. Onto(Got!getDaemonStatus, Nested(<<"consensusTimeNow">>, maybe(object), ConsensusTime))
    <2>1. Onto(Got!Within(<<"consensusTimeNow">>, <<"consensusTimeNow">>,
            Got!Nullable(Got!Object), Got!UnlessNull(Got!AsIs), TimeTable),
            Nested(<<"consensusTimeNow">>, maybe(object), ConsensusTime))
      BY GotSuits, TypedTime, FillsOf, OntoGot, OntoBoth
    <2> QED
      BY <2>1, OntoWider DEF Got!getDaemonStatus, PortsTable, TimeTable
  <1>19. Onto(Got!getDaemonStatus, DaemonStatus)
    BY <1>10, <1>11, <1>12, <1>13, <1>14, <1>15, <1>16, <1>17, <1>18, OntoBoth DEF DaemonStatus
  <1> QED
    BY <1>9, <1>19

-----------------------------------------------------------------------------
\* The subtrees that are passed on unseen have the fields of their types.

\* A field of a type that admits what is passed on.
Passing(t) == Path(t.path) /\ t = [path |-> t.path, type |-> t.type] /\ "subtree" \in t.type

\* The paths of a subtree are those of a type.
Mirrors(P, T) == /\ \A p \in P : \E t \in T : t.path = p
                 /\ \A t \in T : Passing(t) /\ t.path \in P

\* Fields of one type.
LEMMA MirrorsFields ==
  ASSUME NEW N, NEW V, "subtree" \in V
  PROVE  Mirrors(Leaves(N), Fields(N, V))
  <1> DEFINE p(n) == <<n>>
             f(n) == [path |-> p(n), type |-> V]
  <1>1. \A n : Path(p(n))
    BY Paths
  <1>2. /\ Fields(N, V) = {f(n) : n \in N} /\ Leaves(N) = {p(n) : n \in N}
    BY FieldsAre DEF Leaves
  <1> HIDE DEF p
  <1>3. \A n : f(n).path = p(n) /\ f(n).type = V /\ Passing(f(n))
    BY <1>1 DEF Passing
  <1> HIDE DEF f
  <1> QED
    BY <1>2, <1>3 DEF Mirrors

\* A subtree beneath a field.
LEMMA MirrorsUnder ==
  ASSUME NEW n, NEW P, NEW F, Mirrors(P, F)
  PROVE  Mirrors(Under(n, P), Beneath(<<n>>, F))
  <1> DEFINE b == <<n>>
  <1>1. Under(n, P) = {Join(b, p) : p \in P} /\ Path(b)
    BY UnderIs, Paths
  <1> HIDE DEF b
  <1>2. \A f \in F : Passing(f) /\ f.path \in P
    BY DEF Mirrors
  <1>3. /\ \A f \in F : [path |-> Join(b, f.path), type |-> f.type] \in Beneath(b, F)
        /\ \A t \in Beneath(b, F) : \E f \in F : t = [path |-> Join(b, f.path), type |-> f.type]
    BY <1>2, BeneathIs DEF Passing
  <1>4. ASSUME NEW q \in Under(n, P)
        PROVE  \E t \in Beneath(b, F) : t.path = q
    <2>1. PICK p \in P : q = Join(b, p)
      BY <1>1
    <2>2. PICK f \in F : f.path = p
      BY DEF Mirrors
    <2> QED
      BY <1>3, <2>1, <2>2
  <1>5. ASSUME NEW t \in Beneath(b, F)
        PROVE  Passing(t) /\ t.path \in Under(n, P)
    <2>1. PICK f \in F : t = [path |-> Join(b, f.path), type |-> f.type]
      BY <1>3
    <2>2. Path(Join(b, f.path)) /\ Join(b, f.path) \in Under(n, P) /\ "subtree" \in f.type
      BY <1>1, <1>2, Joins DEF Passing
    <2> DEFINE u == Join(b, f.path)
    <2> HIDE DEF u
    <2>3. t.path = u /\ t.type = f.type /\ t = [path |-> t.path, type |-> t.type]
      BY <2>1 DEF u
    <2> QED
      BY <2>2, <2>3 DEF Passing, u
  <1> QED
    BY <1>4, <1>5 DEF Mirrors, b

\* An interval for each of some names.
LEMMA MirrorsEach ==
  ASSUME NEW N
  PROVE  Mirrors(Each(N, Bounds), Intervals(N))
  <1>1. "subtree" \in unknown
    BY DEF unknown
  <1>2. \A n : Mirrors(Under(n, Bounds), Beneath(<<n>>, Interval))
    BY <1>1, MirrorsFields, MirrorsUnder DEF Bounds, Interval
  <1>3. /\ \A p \in Each(N, Bounds) : \E n \in N : p \in Under(n, Bounds)
        /\ \A n \in N : \A p \in Under(n, Bounds) : p \in Each(N, Bounds)
    BY DEF Each
  <1>4. /\ \A t \in Intervals(N) : \E n \in N : t \in Beneath(<<n>>, Interval)
        /\ \A n \in N : \A t \in Beneath(<<n>>, Interval) : t \in Intervals(N)
    BY DEF Intervals
  <1> QED
    BY <1>2, <1>3, <1>4 DEF Mirrors

\* The rules, for searching.
LEMMA MirrorsGot ==
  /\ \A N : Mirrors(Leaves(N), Fields(N, unknown)) /\ Mirrors(Leaves(N), Fields(N, maybe(unknown)))
  /\ \A n : Mirrors({<<n>>}, Fields({n}, maybe(unknown)))
  /\ \A n, P, F : Mirrors(P, F) => Mirrors(Under(n, P), Beneath(<<n>>, F))
  /\ \A N : Mirrors(Each(N, Bounds), Intervals(N))
  /\ \A n : Mirrors(Under(n, Bounds), Intervals({n}))
  /\ \A A, B, S, T : Mirrors(A, S) /\ Mirrors(B, T) => Mirrors(A \union B, S \union T)
  <1>1. "subtree" \in unknown /\ "subtree" \in maybe(unknown)
    BY DEF unknown, maybe
  <1>2. \A n : {<<n>>} = Leaves({n}) /\ Under(n, Bounds) = Each({n}, Bounds)
    BY DEF Leaves, Each
  <1>3. \A N : /\ Mirrors(Leaves(N), Fields(N, unknown))
               /\ Mirrors(Leaves(N), Fields(N, maybe(unknown)))
    BY <1>1, MirrorsFields
  <1>4. \A A, B, S, T : Mirrors(A, S) /\ Mirrors(B, T) => Mirrors(A \union B, S \union T)
    BY DEF Mirrors
  <1>5. \A n : /\ Mirrors({<<n>>}, Fields({n}, maybe(unknown)))
               /\ Mirrors(Under(n, Bounds), Intervals({n}))
    BY <1>2, <1>3, MirrorsEach
  <1> QED
    BY <1>3, <1>4, <1>5, MirrorsUnder, MirrorsEach

\* The permissions of an account.
LEMMA MirrorsPermissions == Mirrors(Permissions, AccountPermissions)
  BY MirrorsGot DEF Permissions, AccountPermissions, SetVerificationKeyPermission

\* The preconditions on an epoch's data.
LEMMA MirrorsEpoch == Mirrors(EpochPreconditions, EpochDataPrecondition)
  BY MirrorsGot DEF EpochPreconditions, EpochDataPrecondition

\* Two sets of names.
LEMMA LeavesTwo == \A M, N : Leaves(M \union N) = Leaves(M) \union Leaves(N)
  BY DEF Leaves

\* The update of an account update.
LEMMA MirrorsUpdate ==
  Mirrors(Leaves({"appState", "delegate", "zkappUri", "votingFor", "tokenSymbol"})
          \union Under("verificationKey", Leaves({"hash", "data"}))
          \union Under("timing", Timing)
          \union Under("permissions", Permissions),
          Fields({"appState"}, unknown)
          \union Fields({"delegate", "zkappUri", "votingFor", "tokenSymbol"}, maybe(unknown))
          \union Beneath(<<"verificationKey">>, Fields({"hash", "data"}, unknown))
          \union Beneath(<<"timing">>, AccountTiming(unknown))
          \union Beneath(<<"permissions">>, AccountPermissions))
  <1>1. {"appState", "delegate", "zkappUri", "votingFor", "tokenSymbol"}
          = {"appState"} \union {"delegate", "zkappUri", "votingFor", "tokenSymbol"}
    OBVIOUS
  <1>2. Mirrors(Leaves({"appState", "delegate", "zkappUri", "votingFor", "tokenSymbol"}),
                Fields({"appState"}, unknown)
                \union Fields({"delegate", "zkappUri", "votingFor", "tokenSymbol"}, maybe(unknown)))
    BY <1>1, LeavesTwo, MirrorsGot
  <1> QED
    BY <1>2, MirrorsGot, MirrorsPermissions DEF Timing, AccountTiming

\* The preconditions on the network.
LEMMA MirrorsNetwork ==
  Mirrors({<<"snarkedLedgerHash">>}
          \union Each({"blockchainLength", "minWindowDensity", "totalCurrency",
                       "globalSlotSinceGenesis"}, Bounds)
          \union Each({"stakingEpochData", "nextEpochData"}, EpochPreconditions),
          Fields({"snarkedLedgerHash"}, maybe(unknown))
          \union Intervals({"blockchainLength", "minWindowDensity", "totalCurrency",
                            "globalSlotSinceGenesis"})
          \union Beneath(<<"stakingEpochData">>, EpochDataPrecondition)
          \union Beneath(<<"nextEpochData">>, EpochDataPrecondition))
  <1> DEFINE E == EpochPreconditions
  <1>1. Each({"stakingEpochData", "nextEpochData"}, E)
          = Under("stakingEpochData", E) \union Under("nextEpochData", E)
    BY DEF Each
  <1>2. Mirrors(Each({"stakingEpochData", "nextEpochData"}, EpochPreconditions),
                Beneath(<<"stakingEpochData">>, EpochDataPrecondition)
                \union Beneath(<<"nextEpochData">>, EpochDataPrecondition))
    BY <1>1, MirrorsGot, MirrorsEpoch
  <1> DEFINE A == {<<"snarkedLedgerHash">>}
             B == Each({"blockchainLength", "minWindowDensity", "totalCurrency",
                        "globalSlotSinceGenesis"}, Bounds)
             C == Each({"stakingEpochData", "nextEpochData"}, EpochPreconditions)
             R == Fields({"snarkedLedgerHash"}, maybe(unknown))
             S == Intervals({"blockchainLength", "minWindowDensity", "totalCurrency",
                             "globalSlotSinceGenesis"})
             T == Beneath(<<"stakingEpochData">>, EpochDataPrecondition)
             U == Beneath(<<"nextEpochData">>, EpochDataPrecondition)
  <1>3. Mirrors(A, R) /\ Mirrors(B, S)
    BY MirrorsGot
  <1> HIDE DEF A, B, C, R, S, T, U
  <1>4. Mirrors(A \union B \union C, (R \union S) \union (T \union U))
    BY <1>2, <1>3, MirrorsGot DEF C, T, U
  <1>5. (R \union S) \union (T \union U) = R \union S \union T \union U
    OBVIOUS
  <1> QED
    BY <1>4, <1>5 DEF A, B, C, R, S, T, U

\* The preconditions on an account.
LEMMA MirrorsAccount ==
  Mirrors(Leaves({"receiptChainHash", "delegate", "state", "actionState", "provedState", "isNew"})
          \union Each({"balance", "nonce"}, Bounds),
          Intervals({"balance", "nonce"}) \union Fields({"state"}, unknown)
          \union Fields({"receiptChainHash", "delegate", "actionState", "provedState", "isNew"},
                        maybe(unknown)))
  <1> DEFINE a == Leaves({"state"})
             B == Leaves({"receiptChainHash", "delegate", "actionState", "provedState", "isNew"})
             C == Each({"balance", "nonce"}, Bounds)
             S == Intervals({"balance", "nonce"})
             T == Fields({"state"}, unknown)
             U == Fields({"receiptChainHash", "delegate", "actionState", "provedState", "isNew"},
                         maybe(unknown))
  <1>1. {"receiptChainHash", "delegate", "state", "actionState", "provedState", "isNew"}
          = {"state"} \union {"receiptChainHash", "delegate", "actionState", "provedState", "isNew"}
    OBVIOUS
  <1>2. Leaves({"receiptChainHash", "delegate", "state", "actionState", "provedState", "isNew"})
          = a \union B
    BY <1>1, LeavesTwo
  <1>3. Mirrors(a, T) /\ Mirrors(B, U) /\ Mirrors(C, S)
    BY MirrorsGot
  <1> HIDE DEF a, B, C, S, T, U
  <1>4. Mirrors(C \union a \union B, S \union T \union U)
    BY <1>3, MirrorsGot
  <1>5. C \union a \union B = (a \union B) \union C
    OBVIOUS
  <1> QED
    BY <1>2, <1>4, <1>5 DEF C, S, T, U

\* All that is passed on of the account updates of a zkApp command.
LEMMA MirrorsUpdates == Mirrors(AccountUpdates, AccountUpdate)
  <1> DEFINE UpdateP == Leaves({"appState", "delegate", "zkappUri", "votingFor", "tokenSymbol"})
                        \union Under("verificationKey", Leaves({"hash", "data"}))
                        \union Under("timing", Timing)
                        \union Under("permissions", Permissions)
             UpdateF == Fields({"appState"}, unknown)
                        \union Fields({"delegate", "zkappUri", "votingFor", "tokenSymbol"},
                                      maybe(unknown))
                        \union Beneath(<<"verificationKey">>, Fields({"hash", "data"}, unknown))
                        \union Beneath(<<"timing">>, AccountTiming(unknown))
                        \union Beneath(<<"permissions">>, AccountPermissions)
             NetworkP == {<<"snarkedLedgerHash">>}
                         \union Each({"blockchainLength", "minWindowDensity", "totalCurrency",
                                      "globalSlotSinceGenesis"}, Bounds)
                         \union Each({"stakingEpochData", "nextEpochData"}, EpochPreconditions)
             NetworkF == Fields({"snarkedLedgerHash"}, maybe(unknown))
                         \union Intervals({"blockchainLength", "minWindowDensity", "totalCurrency",
                                           "globalSlotSinceGenesis"})
                         \union Beneath(<<"stakingEpochData">>, EpochDataPrecondition)
                         \union Beneath(<<"nextEpochData">>, EpochDataPrecondition)
             AccountP == Leaves({"receiptChainHash", "delegate", "state", "actionState",
                                 "provedState", "isNew"})
                         \union Each({"balance", "nonce"}, Bounds)
             AccountF == Intervals({"balance", "nonce"}) \union Fields({"state"}, unknown)
                         \union Fields({"receiptChainHash", "delegate", "actionState",
                                        "provedState", "isNew"}, maybe(unknown))
             ConditionsP == Under("validWhile", Bounds) \union Under("network", NetworkP)
                            \union Under("account", AccountP)
             ConditionsF == Intervals({"validWhile"}) \union Beneath(<<"network">>, NetworkF)
                            \union Beneath(<<"account">>, AccountF)
             HeadP == Leaves({"publicKey", "tokenId", "callDepth", "callData", "actions", "events",
                              "incrementNonce", "useFullCommitment", "implicitAccountCreationFee"})
                      \union Under("balanceChange", Leaves({"magnitude", "sgn"}))
                      \union Under("mayUseToken", Leaves({"parentsOwnToken", "inheritFromParent"}))
                      \union Under("authorizationKind",
                                   Leaves({"isSigned", "isProved", "verificationKeyHash"}))
             HeadF == Fields({"publicKey", "tokenId", "callDepth", "callData", "actions", "events",
                              "incrementNonce", "useFullCommitment", "implicitAccountCreationFee"},
                             unknown)
                      \union Beneath(<<"balanceChange">>, Fields({"magnitude", "sgn"}, unknown))
                      \union Beneath(<<"mayUseToken">>,
                                     Fields({"parentsOwnToken", "inheritFromParent"}, unknown))
                      \union Beneath(<<"authorizationKind">>,
                                     Fields({"isSigned", "isProved", "verificationKeyHash"},
                                       unknown))
             BodyP == HeadP \union Under("update", UpdateP)
               \union Under("preconditions", ConditionsP)
             BodyF == HeadF \union Beneath(<<"update">>, UpdateF)
                      \union Beneath(<<"preconditions">>, ConditionsF)
             ProofP == Under("authorization", Leaves({"signature", "proof"}))
             ProofF == Beneath(<<"authorization">>, Fields({"signature", "proof"}, maybe(unknown)))
  <1>1. Mirrors(HeadP, HeadF) /\ Mirrors(ProofP, ProofF)
    BY MirrorsGot
  <1>2. Mirrors(UpdateP, UpdateF) /\ Mirrors(NetworkP, NetworkF) /\ Mirrors(AccountP, AccountF)
    BY MirrorsUpdate, MirrorsNetwork, MirrorsAccount
  <1>3. /\ AccountUpdates = ProofP \union Under("body", BodyP)
        /\ AccountUpdate = ProofF \union Beneath(<<"body">>, BodyF)
    BY DEF AccountUpdates, AccountUpdate
  <1> HIDE DEF UpdateP, UpdateF, NetworkP, NetworkF, AccountP, AccountF, HeadP, HeadF, ProofP,
        ProofF
  <1>4. Mirrors(ProofP \union Under("body", BodyP), ProofF \union Beneath(<<"body">>, BodyF))
    BY <1>1, <1>2, MirrorsGot
  <1> QED
    BY <1>3, <1>4

\* The rules that pass such paths on, and what they are of the type.
Passed(P) == {Got!Rule(p, p, Got!Unseen, Got!AsIs) : p \in P}

\* What is passed on has the type, as the type admits anything there.
LEMMA PassedTyped ==
  ASSUME NEW P, NEW T, Mirrors(P, T)
  PROVE  Into(Passed(P), T) /\ Onto(Passed(P), T)
  <1> DEFINE Copy(p) == [from |-> p, to |-> p, wire |-> Unseen, how |-> AsIs]
  <1>1. Passed(P) = {Copy(p) : p \in P}
    BY GotSame, GotWires, GotHow DEF Passed, Rule
  <1>2. \A p : Copy(p).to = p /\ Copy(p).wire = Unseen /\ Copy(p).how = AsIs
    OBVIOUS
  <1> HIDE DEF Copy
  <1>3. \A V : "subtree" \in V => Suits(Unseen, AsIs, V)
    <2>1. AsIs["subtree"] = "subtree"
      BY DEF AsIs, Values
    <2> QED
      BY <2>1, WireComes DEF Suits
  <1>4. \A t \in T : Typed(Copy(t.path), t)
    BY <1>2, <1>3 DEF Mirrors, Passing, Typed
  <1>5. Into(Passed(P), T)
    BY <1>1, <1>4 DEF Into, Mirrors
  <1>6. Onto(Passed(P), T)
    BY <1>1, <1>4 DEF Onto, Mirrors, Passing
  <1> QED
    BY <1>5, <1>6

\* A whole subtree, beneath a field.
LEMMA WholePassed == \A a, b, P : Got!Whole(a, b, P) = Got!Inside(a, b, Passed(P))
  <1>1. \A P : Passed(P) = {Rule(p, p, Unseen, AsIs) : p \in P}
    BY GotSame, GotWires, GotHow DEF Passed
  <1>2. \A a, b, P : Got!Whole(a, b, P) = Inside(a, b, Passed(P))
    BY <1>1, WholeIs, GotSame
  <1> QED
    BY <1>2, GotSame

\* The same, for searching.
LEMMA TypedWhole ==
  /\ \A a, n, P, F : Mirrors(P, F) => Into(Got!Whole(a, <<n>>, P), Beneath(<<n>>, F))
  /\ \A a, n, P, F : Mirrors(P, F) => Onto(Got!Whole(a, <<n>>, P), Beneath(<<n>>, F))
  BY PassedTyped, WholePassed, IntoInside, OntoInside, Paths

\* What is beneath a field is in the type of the field.
LEMMA IntoBeneath ==
  \A n, R, V, F : Into(R, Beneath(<<n>>, F)) => Into(R, Nested(<<n>>, V, F))
  BY FieldsAre, IntoWider

\* The timing of an account: null when the account is not timed.
LEMMA TypedTiming ==
  LET T == Nested(<<"timing">>, maybe(orNull(object)), AccountTiming(string))
  IN Into(Got!parseTiming, T) /\ Onto(Got!parseTiming, T)
  <1> DEFINE T == Nested(<<"timing">>, maybe(orNull(object)), AccountTiming(string))
             R == Got!Take({"initialMinimumBalance", "cliffTime", "cliffAmount", "vestingPeriod",
                            "vestingIncrement"}, Got!Nullable(Got!Digits), Got!Else("''"))
             w == [Got!Object EXCEPT !.odd = {"null", "{nulls}"}]
             h == Got!When({"null", "{nulls}"}, "null", Got!AsIs)
  <1>1. Into(R, AccountTiming(string)) /\ Onto(R, AccountTiming(string))
    BY GotSuits, TakesOf, IntoGot, FillsOf, OntoGot DEF AccountTiming
  <1>2. Got!parseTiming = Got!Within(<<"timing">>, <<"timing">>, w, h, R)
    BY DEF Got!parseTiming
  <1>3. Suits(w, h, maybe(orNull(object)))
    BY GotSuitsMore
  <1> HIDE DEF R, w, h
  <1>4. Into(Got!Within(<<"timing">>, <<"timing">>, w, h, R), T)
    BY <1>1, <1>3, TakesOf, HostsOf, IntoGot
  <1>5. Onto(Got!Within(<<"timing">>, <<"timing">>, w, h, R), T)
    BY <1>1, <1>3, OntoGot
  <1> QED
    BY <1>2, <1>4, <1>5

\* An account.
LEMMA TypedAccount == Into(Got!getAccount, AccountData) /\ Onto(Got!getAccount, AccountData)
  <1>1. TakesIt(AccountData, Got!Nullable(Got!Object), Got!Required)
    BY GotSuits, TakesOf DEF AccountData
  <1>2. Into(Got!Take({"publicKey", "delegate", "tokenId"}, Got!Name, Got!AsIs), AccountData)
    <2>1. Into(Got!Take({"publicKey", "delegate", "tokenId"}, Got!Name, Got!AsIs),
            Fields({"publicKey", "delegate", "tokenId"}, string))
      BY GotSuits, TakesOf, IntoGot
    <2> QED
      BY <2>1, IntoWider DEF AccountData
  <1>3. Into(Got!Take({"nonce"}, Got!Either, Got!Number), AccountData)
    <2>1. Into(Got!Take({"nonce"}, Got!Either, Got!Number), Fields({"nonce"}, number))
      BY GotSuits, TakesOf, IntoGot
    <2> QED
      BY <2>1, IntoWider DEF AccountData
  <1>4. Into(Got!Inside(<<"balance">>, <<"balance">>, BalanceTable), AccountData)
    <2>1. Into(Got!Inside(<<"balance">>, <<"balance">>, BalanceTable),
            Beneath(<<"balance">>, AccountBalance))
      BY GotSuits, TypedBalance, TakesOf, HostsOf, IntoGot
    <2> QED
      BY <2>1, IntoWider DEF AccountData
  <1>5. Into(Got!Take({"tokenSymbol"}, Got!Nullable(Got!Text), Got!UnlessNull(Got!AsIs)),
          AccountData)
    <2>1. Into(Got!Take({"tokenSymbol"}, Got!Nullable(Got!Text), Got!UnlessNull(Got!AsIs)),
            Fields({"tokenSymbol"}, maybe(string)))
      BY GotSuits, TakesOf, IntoGot
    <2> QED
      BY <2>1, IntoWider DEF AccountData
  <1>6. Into(Got!Take({"votingFor", "receiptChainHash", "zkappUri"}, Got!Nullable(Got!Name),
          Got!UnlessUndefined(Got!AsIs)), AccountData)
    <2>1. Into(Got!Take({"votingFor", "receiptChainHash", "zkappUri"}, Got!Nullable(Got!Name),
            Got!UnlessUndefined(Got!AsIs)), Fields({"votingFor", "receiptChainHash", "zkappUri"},
            maybe(orNull(string))))
      BY GotSuits, TakesOf, IntoGot
    <2> QED
      BY <2>1, IntoWider DEF AccountData
  <1>7. Into(Got!Take({"zkappState"}, Got!Nullable(Got!List), Got!UnlessUndefined(Got!AsIs)),
          AccountData)
    <2>1. Into(Got!Take({"zkappState"}, Got!Nullable(Got!List), Got!UnlessUndefined(Got!AsIs)),
            Fields({"zkappState"}, maybe(orNull(list))))
      BY GotSuits, TakesOf, IntoGot
    <2> QED
      BY <2>1, IntoWider DEF AccountData
  <1>8. Into(Got!Take({"provedState"}, Got!Nullable(Got!Flag), Got!UnlessUndefined(Got!AsIs)),
          AccountData)
    <2>1. Into(Got!Take({"provedState"}, Got!Nullable(Got!Flag), Got!UnlessUndefined(Got!AsIs)),
            Fields({"provedState"}, maybe(orNull(boolean))))
      BY GotSuits, TakesOf, IntoGot
    <2> QED
      BY <2>1, IntoWider DEF AccountData
  <1>9. Into(Got!parseTiming, AccountData)
    <2>1. Into(Got!parseTiming, Nested(<<"timing">>, maybe(orNull(object)), AccountTiming(string)))
      BY GotSuits, TypedTiming, TakesOf, HostsOf, IntoGot
    <2> QED
      BY <2>1, IntoWider DEF AccountData
  <1>10. Into({Got!Rule(<<"permissions">>, <<"permissions">>, Got!Nullable(Got!Object),
           Got!UnlessUndefined(Got!AsIs))}, AccountData)
    <2>1. Takes(Nested(<<"permissions">>, maybe(orNull(object)), AccountPermissions),
            {"permissions"}, Got!Nullable(Got!Object), Got!UnlessUndefined(Got!AsIs))
      BY GotSuits, TakesOf
    <2>2. Into({Got!Rule(<<"permissions">>, <<"permissions">>, Got!Nullable(Got!Object),
            Got!UnlessUndefined(Got!AsIs))}, Nested(<<"permissions">>, maybe(orNull(object)),
            AccountPermissions))
      BY <2>1, IntoGot
    <2> QED
      BY <2>2, IntoWider DEF AccountData
  <1>11. Into(Got!Whole(<<"permissions">>, <<"permissions">>, Got!Permissions), AccountData)
    <2>1. Into(Got!Whole(<<"permissions">>, <<"permissions">>, Got!Permissions),
            Nested(<<"permissions">>, maybe(orNull(object)), AccountPermissions))
      BY GotSuits, TypedWhole, MirrorsPermissions, GotPaths, IntoBeneath, TakesOf, HostsOf, IntoGot
    <2> QED
      BY <2>1, IntoWider DEF AccountData
  <1>12. Into(Got!getAccount, AccountData)
    BY <1>1, <1>2, <1>3, <1>4, <1>5, <1>6, <1>7, <1>8, <1>9, <1>10, <1>11, IntoGot, IntoBoth
       DEF Got!getAccount, BalanceTable
  <1>13. Onto(Got!getAccount, Just({"{}", "throws"}))
    BY GotSuits, FillsOf, OntoGot DEF Got!getAccount, BalanceTable
  <1>14. Onto(Got!getAccount, Fields({"publicKey", "delegate", "tokenId"}, string))
    <2>1. Onto(Got!Take({"publicKey", "delegate", "tokenId"}, Got!Name, Got!AsIs),
            Fields({"publicKey", "delegate", "tokenId"}, string))
      BY GotSuits, FillsOf, OntoGot, OntoBoth
    <2> QED
      BY <2>1, OntoWider DEF Got!getAccount, BalanceTable
  <1>15. Onto(Got!getAccount, Fields({"nonce"}, number))
    <2>1. Onto(Got!Take({"nonce"}, Got!Either, Got!Number), Fields({"nonce"}, number))
      BY GotSuits, FillsOf, OntoGot, OntoBoth
    <2> QED
      BY <2>1, OntoWider DEF Got!getAccount, BalanceTable
  <1>16. Onto(Got!getAccount, Beneath(<<"balance">>, AccountBalance))
    <2>1. Onto(Got!Inside(<<"balance">>, <<"balance">>, BalanceTable),
            Beneath(<<"balance">>, AccountBalance))
      BY GotSuits, TypedBalance, FillsOf, OntoGot, OntoBoth
    <2> QED
      BY <2>1, OntoWider DEF Got!getAccount, BalanceTable
  <1>17. Onto(Got!getAccount, Fields({"tokenSymbol"}, maybe(string)))
    BY OntoGot
  <1>18. Onto(Got!getAccount, Fields({"votingFor", "receiptChainHash", "zkappUri"},
           maybe(orNull(string))))
    BY OntoGot
  <1>19. Onto(Got!getAccount, Nested(<<"timing">>, maybe(orNull(object)), AccountTiming(string)))
    <2>1. Onto(Got!parseTiming, Nested(<<"timing">>, maybe(orNull(object)), AccountTiming(string)))
      BY GotSuits, TypedTiming, FillsOf, OntoGot, OntoBoth
    <2> QED
      BY <2>1, OntoWider DEF Got!getAccount, BalanceTable
  <1>20. Onto(Got!getAccount, Nested(<<"permissions">>, maybe(orNull(object)), AccountPermissions))
    <2>1. Onto({Got!Rule(<<"permissions">>, <<"permissions">>, Got!Nullable(Got!Object),
            Got!UnlessUndefined(Got!AsIs))}
  \union Got!Whole(<<"permissions">>, <<"permissions">>, Got!Permissions),
           Nested(<<"permissions">>, maybe(orNull(object)), AccountPermissions))
      BY GotSuits, TypedWhole, MirrorsPermissions, GotPaths, FillsOf, OntoGot, OntoBoth
    <2> QED
      BY <2>1, OntoWider DEF Got!getAccount, BalanceTable
  <1>21. Onto(Got!getAccount, Fields({"zkappState"}, maybe(orNull(list))))
    BY OntoGot
  <1>22. Onto(Got!getAccount, Fields({"provedState"}, maybe(orNull(boolean))))
    BY OntoGot
  <1>23. Onto(Got!getAccount, AccountData)
    BY <1>13, <1>14, <1>15, <1>16, <1>17, <1>18, <1>19, <1>20, <1>21, <1>22, OntoBoth
       DEF AccountData
  <1> QED
    BY <1>12, <1>23

\* Fields of one type, in two parts.
LEMMA FieldsTwo ==
  \A M, N, V : Fields(M \union N, V) = Fields(M, V) \union Fields(N, V)
  BY DEF Fields

\* Conversions of blocks, and of what may be left out.
LEMMA GotSuitsBlocks ==
  /\ Suits(Got!Either, Got!Number, maybe(number))
  /\ Suits(Got!Hash, Got!AsIs, maybe(string)) /\ Suits(Got!Name, Got!AsIs, maybe(string))
  /\ Suits(Got!Digits, Got!AsIs, maybe(string))
  /\ Suits(Got!Chained(Got!Name), Got!Else("null"), maybe(orNull(string)))
  /\ Suits(Got!Nullable(Got!List), Got!Else("[]"), maybe(list))
  /\ Suits(Got!Nullable(Got!List), Got!OrNull(Got!AsIs), maybe(orNull(list)))
  /\ Suits(Got!Nullable(Got!Either), Got!OrNull(Got!Number), maybe(orNull(number)))
  /\ Suits(Got!Nullable(Got!Either), Got!OrNull(Got!String), maybe(orNull(string)))
  BY GotSuits DEF Suits, maybe

\* The ends of a command.
Sides(w, h) == {Got!Rule(<<n, "publicKey">>, <<n>>, w, h) : n \in {"source", "receiver"}}

\* What they fill.
LEMMA SidesOf ==
  /\ \A T, w, h : Takes(T, {"source", "receiver"}, w, h) => Into(Sides(w, h), T)
  /\ \A n, V, w, h : n \in {"source", "receiver"} /\ Suits(w, h, V) => Fills(Sides(w, h), n, V)
  <1> DEFINE A(n, w, h) == Got!Rule(<<n, "publicKey">>, <<n>>, w, h)
  <1>1. \A n, w, h : A(n, w, h) = [from |-> <<n, "publicKey">>, to |-> <<n>>, wire |-> w, how |-> h]
    BY GotSame DEF Rule
  <1>2. ASSUME NEW T, NEW w, NEW h, Takes(T, {"source", "receiver"}, w, h)
        PROVE  Into(Sides(w, h), T)
    <2>1. \A n \in {"source", "receiver"} : Into({A(n, w, h)}, T)
      BY <1>2, IntoRule DEF Takes
    <2>2. Sides(w, h) = {A(n, w, h) : n \in {"source", "receiver"}}
      BY DEF Sides
    <2> HIDE DEF A
    <2> QED
      BY <2>1, <2>2 DEF Into
  <1>3. ASSUME NEW n \in {"source", "receiver"}, NEW V, NEW w, NEW h, Suits(w, h, V)
        PROVE  Fills(Sides(w, h), n, V)
    <2>1. Fills({A(n, w, h)}, n, V)
      BY <1>3, FillsOf
    <2>2. A(n, w, h) \in Sides(w, h)
      BY DEF Sides
    <2> HIDE DEF A
    <2> QED
      BY <2>1, <2>2 DEF Fills, Makes1
  <1> QED
    BY <1>2, <1>3

\* A command's failures, and a fee that is transferred.
FailureTable ==
  Got!Take({"index"}, Got!Nullable(Got!Either), Got!OrNull(Got!Number))
  \union Got!Take({"failures"}, Got!List, Got!AsIs)

FeeTable ==
  Got!Take({"recipient", "type"}, Got!Name, Got!AsIs)
  \union Got!Take({"fee"}, Got!Digits, Got!AsIs)

\* The user commands of a block.
LEMMA TypedUserCommands ==
  Into(Got!userCommands, BlockTransaction) /\ Onto(Got!userCommands, BlockTransaction)
  <1>1. Into(Got!Take({"id", "hash", "kind"}, Got!Name, Got!AsIs), BlockTransaction)
    <2>1. Into(Got!Take({"id", "hash", "kind"}, Got!Name, Got!AsIs),
            Fields({"id", "hash", "kind", "nonce", "source", "receiver", "amount", "fee", "memo"},
            string))
      BY GotSuits, TakesOf, IntoGot
    <2> QED
      BY <2>1, IntoWider DEF BlockTransaction
  <1>2. Into(Got!Take({"nonce"}, Got!Either, Got!String), BlockTransaction)
    <2>1. Into(Got!Take({"nonce"}, Got!Either, Got!String),
            Fields({"id", "hash", "kind", "nonce", "source", "receiver", "amount", "fee", "memo"},
            string))
      BY GotSuits, TakesOf, IntoGot
    <2> QED
      BY <2>1, IntoWider DEF BlockTransaction
  <1>3. Into(Sides(Got!Name, Got!AsIs), BlockTransaction)
    <2>1. Into(Sides(Got!Name, Got!AsIs), Fields({"id", "hash", "kind", "nonce", "source",
            "receiver", "amount", "fee", "memo"}, string))
      BY GotSuits, SidesOf, TakesOf, IntoGot
    <2> QED
      BY <2>1, IntoWider DEF BlockTransaction
  <1>4. Into(Got!Take({"amount", "fee"}, Got!Digits, Got!AsIs), BlockTransaction)
    <2>1. Into(Got!Take({"amount", "fee"}, Got!Digits, Got!AsIs),
            Fields({"id", "hash", "kind", "nonce", "source", "receiver", "amount", "fee", "memo"},
            string))
      BY GotSuits, TakesOf, IntoGot
    <2> QED
      BY <2>1, IntoWider DEF BlockTransaction
  <1>5. Into(Got!Take({"memo"}, Got!Text, Got!AsIs), BlockTransaction)
    <2>1. Into(Got!Take({"memo"}, Got!Text, Got!AsIs),
            Fields({"id", "hash", "kind", "nonce", "source", "receiver", "amount", "fee", "memo"},
            string))
      BY GotSuits, TakesOf, IntoGot
    <2> QED
      BY <2>1, IntoWider DEF BlockTransaction
  <1>6. Into(Got!Take({"failureReason"}, Got!Nullable(Got!Name), Got!AsIs), BlockTransaction)
    <2>1. Into(Got!Take({"failureReason"}, Got!Nullable(Got!Name), Got!AsIs),
            Fields({"failureReason"}, orNull(string)))
      BY GotSuits, TakesOf, IntoGot
    <2> QED
      BY <2>1, IntoWider DEF BlockTransaction
  <1>7. Into(Got!userCommands, BlockTransaction)
    BY <1>1, <1>2, <1>3, <1>4, <1>5, <1>6, IntoGot, IntoBoth DEF Got!userCommands, Sides
  <1>8. Onto(Got!userCommands, Fields({"id", "hash", "kind", "nonce", "source", "receiver",
          "amount", "fee", "memo"}, string))
    <2>1. Onto(Got!Take({"id", "hash", "kind"}, Got!Name, Got!AsIs),
            Fields({"id", "hash", "kind"}, string))
      BY GotSuits, FillsOf, OntoGot, OntoBoth
    <2>2. Onto(Got!Take({"nonce"}, Got!Either, Got!String), Fields({"nonce"}, string))
      BY GotSuits, FillsOf, OntoGot, OntoBoth
    <2>3. Onto(Sides(Got!Name, Got!AsIs), Fields({"source", "receiver"}, string))
      BY GotSuits, SidesOf, FillsOf, OntoGot, OntoBoth
    <2>4. Onto(Got!Take({"amount", "fee"}, Got!Digits, Got!AsIs), Fields({"amount", "fee"}, string))
      BY GotSuits, FillsOf, OntoGot, OntoBoth
    <2>5. Onto(Got!Take({"memo"}, Got!Text, Got!AsIs), Fields({"memo"}, string))
      BY GotSuits, FillsOf, OntoGot, OntoBoth
    <2>6. Fields({"id", "hash", "kind", "nonce", "source", "receiver", "amount", "fee", "memo"},
            string)
          = Fields({"id", "hash", "kind"}, string) \union Fields({"nonce"}, string)
              \union Fields({"source", "receiver"}, string)
              \union Fields({"amount", "fee"}, string) \union Fields({"memo"}, string)
      BY DEF Fields
    <2>7. Onto(Got!userCommands, Fields({"id", "hash", "kind"}, string))
      BY <2>1, OntoWider DEF Got!userCommands, Sides
    <2>8. Onto(Got!userCommands, Fields({"nonce"}, string))
      BY <2>2, OntoWider DEF Got!userCommands, Sides
    <2>9. Onto(Got!userCommands, Fields({"source", "receiver"}, string))
      BY <2>3, OntoWider DEF Got!userCommands, Sides
    <2>10. Onto(Got!userCommands, Fields({"amount", "fee"}, string))
      BY <2>4, OntoWider DEF Got!userCommands, Sides
    <2>11. Onto(Got!userCommands, Fields({"memo"}, string))
      BY <2>5, OntoWider DEF Got!userCommands, Sides
    <2>12. Onto(Got!userCommands, Fields({"id", "hash", "kind"}, string)
             \union Fields({"nonce"}, string) \union Fields({"source", "receiver"}, string)
             \union Fields({"amount", "fee"}, string) \union Fields({"memo"}, string))
      BY <2>7, <2>8, <2>9, <2>10, <2>11, OntoBoth
    <2> QED
      BY <2>6, <2>12
  <1>9. Onto(Got!userCommands, Fields({"failureReason"}, orNull(string)))
    <2>1. Onto(Got!Take({"failureReason"}, Got!Nullable(Got!Name), Got!AsIs),
            Fields({"failureReason"}, orNull(string)))
      BY GotSuits, FillsOf, OntoGot, OntoBoth
    <2> QED
      BY <2>1, OntoWider DEF Got!userCommands, Sides
  <1>10. Onto(Got!userCommands, BlockTransaction)
    BY <1>8, <1>9, OntoBoth DEF BlockTransaction
  <1> QED
    BY <1>7, <1>10

\* A failure of a zkApp command.
LEMMA TypedFailure == Into(FailureTable, ZkappFailure) /\ Onto(FailureTable, ZkappFailure)
  <1>1. Into(Got!Take({"index"}, Got!Nullable(Got!Either), Got!OrNull(Got!Number)), ZkappFailure)
    BY GotSuits, TakesOf, IntoGot DEF ZkappFailure
  <1>2. Into(Got!Take({"failures"}, Got!List, Got!AsIs), ZkappFailure)
    BY GotSuits, TakesOf, IntoGot DEF ZkappFailure
  <1>3. Into(FailureTable, ZkappFailure)
    BY <1>1, <1>2, IntoGot, IntoBoth DEF FailureTable
  <1>4. Onto(FailureTable, ZkappFailure)
    BY GotSuits, FillsOf, OntoGot, OntoBoth DEF FailureTable, ZkappFailure
  <1> QED
    BY <1>3, <1>4

\* The failures of a zkApp command: of a block's, and of one that has been sent.
LEMMA TypedFailures ==
  LET T == Nested(<<"failureReason">>, orNull(list), ZkappFailure)
      U == Nested(<<"failureReason">>, maybe(orNull(list)),
                  Fields({"index"}, maybe(orNull(number))) \union Fields({"failures"}, list))
  IN /\ Into(Got!failures, T) /\ Onto(Got!failures, T)
     /\ Into(Got!failures, U) /\ Onto(Got!failures, U)
  <1> DEFINE T == Nested(<<"failureReason">>, orNull(list), ZkappFailure)
             G == Fields({"index"}, maybe(orNull(number))) \union Fields({"failures"}, list)
             U == Nested(<<"failureReason">>, maybe(orNull(list)), G)
  <1>1. Got!failures = Got!Within(<<"failureReason">>, <<"failureReason">>,
                                  Got!Nullable(Got!List), Got!OrNull(Got!AsIs), FailureTable)
    BY DEF Got!failures, FailureTable
  <1> DEFINE I == Got!Take({"index"}, Got!Nullable(Got!Either), Got!OrNull(Got!Number))
             J == Got!Take({"failures"}, Got!List, Got!AsIs)
             w == Got!Nullable(Got!List)
             h == Got!OrNull(Got!AsIs)
  <1>2. Into(I, G) /\ Into(J, G)
    BY GotSuits, GotSuitsBlocks, TakesOf, IntoGot
  <1>3. Onto(J, Fields({"failures"}, list)) /\ Onto(I, Fields({"index"}, maybe(orNull(number))))
    BY GotSuits, FillsOf, OntoGot
  <1>4. FailureTable = I \union J
    BY DEF FailureTable
  <1>5. Suits(w, h, orNull(list)) /\ Suits(w, h, maybe(orNull(list)))
    BY GotSuits, GotSuitsBlocks
  <1> HIDE DEF I, J, w, h
  <1>6. Into(FailureTable, G) /\ Onto(FailureTable, G)
    BY <1>2, <1>3, <1>4, IntoBoth, OntoBoth
  <1> HIDE DEF G
  <1> DEFINE R == Got!Within(<<"failureReason">>, <<"failureReason">>, w, h, FailureTable)
  <1>7. Into(R, T) /\ Into(R, U)
    BY <1>5, <1>6, TypedFailure, TakesOf, HostsOf, IntoGot
  <1>8. Onto(R, T) /\ Onto(R, U)
    BY <1>5, <1>6, TypedFailure, OntoGot
  <1> QED
    BY <1>1, <1>7, <1>8 DEF G, w, h

\* A fee that is transferred.
LEMMA TypedFee == Into(FeeTable, FeeTransfer) /\ Onto(FeeTable, FeeTransfer)
  <1>1. Into(Got!Take({"recipient", "type"}, Got!Name, Got!AsIs), FeeTransfer)
    BY GotSuits, TakesOf, IntoGot DEF FeeTransfer
  <1>2. Into(Got!Take({"fee"}, Got!Digits, Got!AsIs), FeeTransfer)
    BY GotSuits, TakesOf, IntoGot DEF FeeTransfer
  <1>3. Into(FeeTable, FeeTransfer)
    BY <1>1, <1>2, IntoGot, IntoBoth DEF FeeTable
  <1>4. Onto(FeeTable, FeeTransfer)
    BY GotSuits, FillsOf, OntoGot, OntoBoth DEF FeeTable, FeeTransfer
  <1> QED
    BY <1>3, <1>4

\* A zkApp command: as a block has it, and as it is when it has been sent.
PayerBodyTable ==
  Got!Take({"publicKey"}, Got!Name, Got!AsIs)
  \union Got!Take({"fee"}, Got!Digits, Got!AsIs)
  \union Got!Take({"nonce"}, Got!Either, Got!String)
  \union Got!Take({"validUntil"}, Got!Nullable(Got!Either), Got!OrNull(Got!String))

PayerBodyType ==
  Fields({"publicKey", "fee", "nonce"}, string)
  \union Fields({"validUntil"}, maybe(orNull(string)))

PayerTable ==
  Got!Take({"authorization"}, Got!Name, Got!AsIs)
  \union Got!Inside(<<"body">>, <<"body">>, PayerBodyTable)

PayerType ==
  Fields({"authorization"}, string)
  \union Beneath(<<"body">>, PayerBodyType)

CommandTable ==
  Got!Take({"memo"}, Got!Text, Got!AsIs)
  \union Got!Inside(<<"feePayer">>, <<"feePayer">>, PayerTable)
  \union Got!Whole(<<"accountUpdates">>, <<"accountUpdates">>, Got!AccountUpdates)

CommandType ==
  Fields({"memo"}, string)
  \union Beneath(<<"feePayer">>, PayerType)
  \union Beneath(<<"accountUpdates">>, AccountUpdate)

FeePayerTable ==
  Got!Take({"publicKey"}, Got!Name, Got!AsIs)
  \union Got!Take({"fee"}, Got!Digits, Got!FromGraphQL)
  \union Got!Take({"nonce"}, Got!Either, Got!Number)
  \union Got!Take({"validUntil"}, Got!Nullable(Got!Either), Got!OrNull(Got!Number))

SubmittedTable ==
  Got!Take({"memo"}, Got!Text, Got!AsIs)
  \union Got!Inside(<<"feePayer", "body">>, <<"feePayer">>, FeePayerTable)

\* What the fee payer of a zkApp command in a block pays.
LEMMA TypedPayerBody == Into(PayerBodyTable, PayerBodyType) /\ Onto(PayerBodyTable, PayerBodyType)
  <1>1. Into(Got!Take({"publicKey"}, Got!Name, Got!AsIs), PayerBodyType)
    <2>1. Into(Got!Take({"publicKey"}, Got!Name, Got!AsIs),
            Fields({"publicKey", "fee", "nonce"}, string))
      BY GotSuits, TakesOf, IntoGot
    <2> QED
      BY <2>1, IntoWider DEF PayerBodyType
  <1>2. Into(Got!Take({"fee"}, Got!Digits, Got!AsIs), PayerBodyType)
    <2>1. Into(Got!Take({"fee"}, Got!Digits, Got!AsIs),
            Fields({"publicKey", "fee", "nonce"}, string))
      BY GotSuits, TakesOf, IntoGot
    <2> QED
      BY <2>1, IntoWider DEF PayerBodyType
  <1>3. Into(Got!Take({"nonce"}, Got!Either, Got!String), PayerBodyType)
    <2>1. Into(Got!Take({"nonce"}, Got!Either, Got!String),
            Fields({"publicKey", "fee", "nonce"}, string))
      BY GotSuits, TakesOf, IntoGot
    <2> QED
      BY <2>1, IntoWider DEF PayerBodyType
  <1>4. Into(Got!Take({"validUntil"}, Got!Nullable(Got!Either), Got!OrNull(Got!String)),
          PayerBodyType)
    <2>1. Into(Got!Take({"validUntil"}, Got!Nullable(Got!Either), Got!OrNull(Got!String)),
            Fields({"validUntil"}, maybe(orNull(string))))
      BY GotSuits, GotSuitsBlocks, TakesOf, IntoGot
    <2> QED
      BY <2>1, IntoWider DEF PayerBodyType
  <1>5. Into(PayerBodyTable, PayerBodyType)
    BY <1>1, <1>2, <1>3, <1>4, IntoGot, IntoBoth DEF PayerBodyTable
  <1>6. Onto(PayerBodyTable, Fields({"publicKey", "fee", "nonce"}, string))
    <2>1. Onto(Got!Take({"publicKey"}, Got!Name, Got!AsIs)
  \union Got!Take({"fee"}, Got!Digits, Got!AsIs)
  \union Got!Take({"nonce"}, Got!Either, Got!String), Fields({"publicKey", "fee", "nonce"}, string))
      BY GotSuits, FillsOf, OntoGot, OntoBoth
    <2> QED
      BY <2>1, OntoWider DEF PayerBodyTable
  <1>7. Onto(PayerBodyTable, Fields({"validUntil"}, maybe(orNull(string))))
    BY OntoGot
  <1>8. Onto(PayerBodyTable, PayerBodyType)
    BY <1>6, <1>7, OntoBoth DEF PayerBodyType
  <1> QED
    BY <1>5, <1>8

\* The fee payer of a zkApp command in a block.
LEMMA TypedPayer == Into(PayerTable, PayerType) /\ Onto(PayerTable, PayerType)
  <1>1. Into(Got!Take({"authorization"}, Got!Name, Got!AsIs), PayerType)
    <2>1. Into(Got!Take({"authorization"}, Got!Name, Got!AsIs), Fields({"authorization"}, string))
      BY GotSuits, TakesOf, IntoGot
    <2> QED
      BY <2>1, IntoWider DEF PayerType
  <1>2. Into(Got!Inside(<<"body">>, <<"body">>, PayerBodyTable), PayerType)
    <2>1. Into(Got!Inside(<<"body">>, <<"body">>, PayerBodyTable),
            Beneath(<<"body">>, PayerBodyType))
      BY GotSuits, TypedPayerBody, TakesOf, HostsOf, IntoGot
    <2> QED
      BY <2>1, IntoWider DEF PayerType
  <1>3. Into(PayerTable, PayerType)
    BY <1>1, <1>2, IntoGot, IntoBoth DEF PayerTable
  <1>4. Onto(PayerTable, Fields({"authorization"}, string))
    <2>1. Onto(Got!Take({"authorization"}, Got!Name, Got!AsIs), Fields({"authorization"}, string))
      BY GotSuits, FillsOf, OntoGot, OntoBoth
    <2> QED
      BY <2>1, OntoWider DEF PayerTable
  <1>5. Onto(PayerTable, Beneath(<<"body">>, PayerBodyType))
    <2>1. Onto(Got!Inside(<<"body">>, <<"body">>, PayerBodyTable),
            Beneath(<<"body">>, PayerBodyType))
      BY GotSuits, TypedPayerBody, FillsOf, OntoGot, OntoBoth
    <2> QED
      BY <2>1, OntoWider DEF PayerTable
  <1>6. Onto(PayerTable, PayerType)
    BY <1>4, <1>5, OntoBoth DEF PayerType
  <1> QED
    BY <1>3, <1>6

\* A zkApp command in a block.
LEMMA TypedCommand == Into(CommandTable, CommandType) /\ Onto(CommandTable, CommandType)
  <1>1. Into(Got!Take({"memo"}, Got!Text, Got!AsIs), CommandType)
    <2>1. Into(Got!Take({"memo"}, Got!Text, Got!AsIs), Fields({"memo"}, string))
      BY GotSuits, TakesOf, IntoGot
    <2> QED
      BY <2>1, IntoWider DEF CommandType
  <1>2. Into(Got!Inside(<<"feePayer">>, <<"feePayer">>, PayerTable), CommandType)
    <2>1. Into(Got!Inside(<<"feePayer">>, <<"feePayer">>, PayerTable),
            Beneath(<<"feePayer">>, PayerType))
      BY GotSuits, TypedPayer, TakesOf, HostsOf, IntoGot
    <2> QED
      BY <2>1, IntoWider DEF CommandType
  <1>3. Into(Got!Whole(<<"accountUpdates">>, <<"accountUpdates">>, Got!AccountUpdates), CommandType)
    <2>1. Into(Got!Whole(<<"accountUpdates">>, <<"accountUpdates">>, Got!AccountUpdates),
            Beneath(<<"accountUpdates">>, AccountUpdate))
      BY GotSuits, TypedWhole, MirrorsUpdates, GotPaths, TakesOf, HostsOf, IntoGot
    <2> QED
      BY <2>1, IntoWider DEF CommandType
  <1>4. Into(CommandTable, CommandType)
    BY <1>1, <1>2, <1>3, IntoGot, IntoBoth DEF CommandTable
  <1>5. Onto(CommandTable, Fields({"memo"}, string))
    <2>1. Onto(Got!Take({"memo"}, Got!Text, Got!AsIs), Fields({"memo"}, string))
      BY GotSuits, FillsOf, OntoGot, OntoBoth
    <2> QED
      BY <2>1, OntoWider DEF CommandTable
  <1>6. Onto(CommandTable, Beneath(<<"feePayer">>, PayerType))
    <2>1. Onto(Got!Inside(<<"feePayer">>, <<"feePayer">>, PayerTable),
            Beneath(<<"feePayer">>, PayerType))
      BY GotSuits, TypedPayer, FillsOf, OntoGot, OntoBoth
    <2> QED
      BY <2>1, OntoWider DEF CommandTable
  <1>7. Onto(CommandTable, Beneath(<<"accountUpdates">>, AccountUpdate))
    <2>1. Onto(Got!Whole(<<"accountUpdates">>, <<"accountUpdates">>, Got!AccountUpdates),
            Beneath(<<"accountUpdates">>, AccountUpdate))
      BY GotSuits, TypedWhole, MirrorsUpdates, GotPaths, FillsOf, OntoGot, OntoBoth
    <2> QED
      BY <2>1, OntoWider DEF CommandTable
  <1>8. Onto(CommandTable, CommandType)
    BY <1>5, <1>6, <1>7, OntoBoth DEF CommandType
  <1> QED
    BY <1>4, <1>8

\* The zkApp commands of a block.
LEMMA TypedZkapps ==
  Into(Got!zkappCommands, BlockZkappCommand) /\ Onto(Got!zkappCommands, BlockZkappCommand)
  <1>1. Into(Got!Take({"id", "hash"}, Got!Name, Got!AsIs), BlockZkappCommand)
    <2>1. Into(Got!Take({"id", "hash"}, Got!Name, Got!AsIs), Fields({"id", "hash"}, string))
      BY GotSuits, TakesOf, IntoGot
    <2> QED
      BY <2>1, IntoWider DEF BlockZkappCommand, CommandType, PayerType, PayerBodyType
  <1>2. Into(Got!failures, BlockZkappCommand)
    <2>1. Into(Got!failures, Nested(<<"failureReason">>, maybe(orNull(list)),
         Fields({"index"}, maybe(orNull(number))) \union Fields({"failures"}, list)))
      BY GotSuits, TypedFailures, TakesOf, HostsOf, IntoGot
    <2> QED
      BY <2>1, IntoWider DEF BlockZkappCommand, CommandType, PayerType, PayerBodyType
  <1>3. Into(Got!Inside(<<"zkappCommand">>, <<"zkappCommand">>, CommandTable), BlockZkappCommand)
    <2>1. Into(Got!Inside(<<"zkappCommand">>, <<"zkappCommand">>, CommandTable),
            Beneath(<<"zkappCommand">>, CommandType))
      BY GotSuits, TypedCommand, TakesOf, HostsOf, IntoGot
    <2> QED
      BY <2>1, IntoWider DEF BlockZkappCommand, CommandType, PayerType, PayerBodyType
  <1>4. Into(Got!zkappCommands, BlockZkappCommand)
    BY <1>1, <1>2, <1>3, IntoGot, IntoBoth DEF Got!zkappCommands, CommandTable, PayerTable,
       PayerBodyTable
  <1>5. Onto(Got!zkappCommands, Fields({"id", "hash"}, string))
    <2>1. Onto(Got!Take({"id", "hash"}, Got!Name, Got!AsIs), Fields({"id", "hash"}, string))
      BY GotSuits, FillsOf, OntoGot, OntoBoth
    <2> QED
      BY <2>1, OntoWider DEF Got!zkappCommands, CommandTable, PayerTable, PayerBodyTable
  <1>6. Onto(Got!zkappCommands, Nested(<<"failureReason">>, maybe(orNull(list)),
         Fields({"index"}, maybe(orNull(number))) \union Fields({"failures"}, list)))
    <2>1. Onto(Got!failures, Nested(<<"failureReason">>, maybe(orNull(list)),
         Fields({"index"}, maybe(orNull(number))) \union Fields({"failures"}, list)))
      BY GotSuits, TypedFailures, FillsOf, OntoGot, OntoBoth
    <2> QED
      BY <2>1, OntoWider DEF Got!zkappCommands, CommandTable, PayerTable, PayerBodyTable
  <1>7. Onto(Got!zkappCommands, Beneath(<<"zkappCommand">>, CommandType))
    <2>1. Onto(Got!Inside(<<"zkappCommand">>, <<"zkappCommand">>, CommandTable),
            Beneath(<<"zkappCommand">>, CommandType))
      BY GotSuits, TypedCommand, FillsOf, OntoGot, OntoBoth
    <2> QED
      BY <2>1, OntoWider DEF Got!zkappCommands, CommandTable, PayerTable, PayerBodyTable
  <1>8. Onto(Got!zkappCommands, BlockZkappCommand)
    BY <1>5, <1>6, <1>7, OntoBoth DEF BlockZkappCommand, CommandType, PayerType, PayerBodyType
  <1> QED
    BY <1>4, <1>8

\* The fee payer of a zkApp command that has been sent.
LEMMA TypedFeePayer == Into(FeePayerTable, ZkappFeePayer) /\ Onto(FeePayerTable, ZkappFeePayer)
  <1>1. Into(Got!Take({"publicKey"}, Got!Name, Got!AsIs), ZkappFeePayer)
    BY GotSuits, TakesOf, IntoGot DEF ZkappFeePayer
  <1>2. Into(Got!Take({"fee"}, Got!Digits, Got!FromGraphQL), ZkappFeePayer)
    BY GotSuits, TakesOf, IntoGot DEF ZkappFeePayer
  <1>3. Into(Got!Take({"nonce"}, Got!Either, Got!Number), ZkappFeePayer)
    BY GotSuits, TakesOf, IntoGot DEF ZkappFeePayer
  <1>4. Into(Got!Take({"validUntil"}, Got!Nullable(Got!Either), Got!OrNull(Got!Number)),
          ZkappFeePayer)
    BY GotSuits, TakesOf, IntoGot DEF ZkappFeePayer
  <1>5. Into(FeePayerTable, ZkappFeePayer)
    BY <1>1, <1>2, <1>3, <1>4, IntoGot, IntoBoth DEF FeePayerTable
  <1>6. Onto(FeePayerTable, ZkappFeePayer)
    BY GotSuits, FillsOf, OntoGot, OntoBoth DEF FeePayerTable, ZkappFeePayer
  <1> QED
    BY <1>5, <1>6

\* A zkApp command that has been sent.
LEMMA TypedSubmittedZkapp ==
  LET T == Fields({"id", "hash", "memo"}, string) \union Beneath(<<"feePayer">>, ZkappFeePayer)
  IN Into(SubmittedTable, T) /\ Onto(SubmittedTable, Beneath(<<"feePayer">>, ZkappFeePayer))
  <1> DEFINE A == Got!Take({"memo"}, Got!Text, Got!AsIs)
             B == Got!Inside(<<"feePayer", "body">>, <<"feePayer">>, FeePayerTable)
             U == Fields({"id", "hash", "memo"}, string)
             V == Beneath(<<"feePayer">>, ZkappFeePayer)
  <1>1. Into(A, U) /\ Into(B, V) /\ Onto(B, V)
    BY GotSuits, TypedFeePayer, TakesOf, HostsOf, IntoGot, OntoGot
  <1>2. SubmittedTable = A \union B
    BY DEF SubmittedTable
  <1> HIDE DEF A, B, U, V
  <1>3. Into(SubmittedTable, U \union V) /\ Onto(SubmittedTable, V)
    BY <1>1, <1>2, IntoWider, IntoBoth, OntoWider
  <1> QED
    BY <1>3 DEF U, V

\* Its memo is there.
LEMMA SubmittedFills == Fills(SubmittedTable, "memo", string)
  BY GotSuits, FillsOf DEF SubmittedTable

\* The result of sending a zkApp command.
LEMMA TypedZkapp ==
  Into(Got!parseZkappCommand, ZkappCommandResult) /\ Onto(Got!parseZkappCommand, ZkappCommandResult)
  <1>1. Into(Got!Take({"id", "hash"}, Got!Name, Got!AsIs), ZkappCommandResult)
    <2>1. Into(Got!Take({"id", "hash"}, Got!Name, Got!AsIs), Fields({"id", "hash", "memo"}, string))
      BY GotSuits, TakesOf, IntoGot
    <2> QED
      BY <2>1, IntoWider DEF ZkappCommandResult
  <1>2. Into(Got!failures, ZkappCommandResult)
    <2>1. Into(Got!failures, Nested(<<"failureReason">>, orNull(list), ZkappFailure))
      BY GotSuits, TypedFailures, TakesOf, HostsOf, IntoGot
    <2> QED
      BY <2>1, IntoWider DEF ZkappCommandResult
  <1>3. Into(Got!Inside(<<"zkappCommand">>, <<>>, SubmittedTable), ZkappCommandResult)
    <2>1. Into(Got!Inside(<<"zkappCommand">>, <<>>, SubmittedTable),
            Fields({"id", "hash", "memo"}, string) \union Beneath(<<"feePayer">>, ZkappFeePayer))
      BY GotSuits, TypedSubmittedZkapp, TakesOf, HostsOf, IntoGot
    <2> QED
      BY <2>1, IntoWider DEF ZkappCommandResult
  <1>4. Into(Got!parseZkappCommand, ZkappCommandResult)
    BY <1>1, <1>2, <1>3, IntoGot, IntoBoth DEF Got!parseZkappCommand, SubmittedTable, FeePayerTable
  <1>5. Onto(Got!parseZkappCommand, Fields({"id", "hash", "memo"}, string))
    <2>1. Onto(Got!Take({"id", "hash"}, Got!Name, Got!AsIs), Fields({"id", "hash"}, string))
      BY GotSuits, FillsOf, OntoGot, OntoBoth
    <2>2. Onto(Got!Inside(<<"zkappCommand">>, <<>>, SubmittedTable), Fields({"memo"}, string))
      BY GotSuits, SubmittedFills, FillsOf, OntoGot, OntoBoth
    <2>3. Fields({"id", "hash", "memo"}, string)
          = Fields({"id", "hash"}, string) \union Fields({"memo"}, string)
      BY DEF Fields
    <2>4. Onto(Got!parseZkappCommand, Fields({"id", "hash"}, string))
      BY <2>1, OntoWider DEF Got!parseZkappCommand, SubmittedTable, FeePayerTable
    <2>5. Onto(Got!parseZkappCommand, Fields({"memo"}, string))
      BY <2>2, OntoWider DEF Got!parseZkappCommand, SubmittedTable, FeePayerTable
    <2>6. Onto(Got!parseZkappCommand, Fields({"id", "hash"}, string)
            \union Fields({"memo"}, string))
      BY <2>4, <2>5, OntoBoth
    <2> QED
      BY <2>3, <2>6
  <1>6. Onto(Got!parseZkappCommand, Beneath(<<"feePayer">>, ZkappFeePayer))
    <2>1. Onto(Got!Inside(<<"zkappCommand">>, <<>>, SubmittedTable),
            Beneath(<<"feePayer">>, ZkappFeePayer))
      BY GotSuits, TypedSubmittedZkapp, FillsOf, OntoGot, OntoBoth
    <2> QED
      BY <2>1, OntoWider DEF Got!parseZkappCommand, SubmittedTable, FeePayerTable
  <1>7. Onto(Got!parseZkappCommand, Nested(<<"failureReason">>, orNull(list), ZkappFailure))
    <2>1. Onto(Got!failures, Nested(<<"failureReason">>, orNull(list), ZkappFailure))
      BY GotSuits, TypedFailures, FillsOf, OntoGot, OntoBoth
    <2> QED
      BY <2>1, OntoWider DEF Got!parseZkappCommand, SubmittedTable, FeePayerTable
  <1>8. Onto(Got!parseZkappCommand, ZkappCommandResult)
    BY <1>5, <1>6, <1>7, OntoBoth DEF ZkappCommandResult
  <1> QED
    BY <1>4, <1>8

\* The tables of the pools, and of the ITN operations.
PooledTable ==
  Got!Take({"id", "hash", "kind", "from", "to"}, Got!Name, Got!AsIs)
  \union Got!Take({"nonce"}, Got!Either, Got!String)
  \union Got!Take({"amount", "fee"}, Got!Digits, Got!AsIs)
  \union Sides(Got!Chained(Got!Name), Got!IfTruthy(Got!AsIs))
  \union Got!Take({"memo"}, Got!Nullable(Got!Text), Got!UnlessNull(Got!AsIs))
  \union Got!Take({"failureReason"}, Got!Nullable(Got!Name), Got!UnlessUndefined(Got!AsIs))
  \union Got!Take({"validUntil"}, Got!Nullable(Got!Either),
           Got!UnlessUndefined(Got!OrNull(Got!String)))
  \union Got!Take({"token", "feeToken"}, Got!Nullable(Got!Name), Got!UnlessNull(Got!AsIs))

TrackedTable ==
  Got!Take({"publicKey"}, Got!Name, Got!AsIs)
  \union {Got!Rule(<<"balance", "total">>, <<"balance">>, Got!Digits, Got!AsIs)}

ItemTable ==
  Got!Take({"item"}, Got!Name, Got!AsIs)
  \union Got!Take({"value"}, Got!Unseen, Got!AsIs)

ItemType ==
  Fields({"item"}, string)
  \union Fields({"value"}, unknown)

LogTable ==
  Got!Take({"id"}, Got!Num, Got!AsIs)
  \union Got!Take({"timestamp"}, Got!Name, Got!AsIs)
  \union Got!Take({"message"}, Got!Text, Got!AsIs)
  \union Got!Within(<<"metadata">>, <<"metadata">>, Got!List, Got!AsIs, ItemTable)
  \union Got!Take({"process"}, Got!Nullable(Got!Name), Got!AsIs)

KeyTable ==
  Got!Take({"publicKey", "privateKey"}, Got!Name, Got!AsIs)

PortTable ==
  Got!Take({"signerSequenceNumber", "libp2pPort"},
           [Got!Either EXCEPT !.odd = @ \union {"-1", "'x'", "null"}], Got!parseUint16)

\* A user command in the pool.
LEMMA TypedPooled == Into(PooledTable, PooledUserCommand) /\ Onto(PooledTable, PooledUserCommand)
  <1>1. Into(Got!Take({"id", "hash", "kind", "from", "to"}, Got!Name, Got!AsIs), PooledUserCommand)
    <2>1. Into(Got!Take({"id", "hash", "kind", "from", "to"}, Got!Name, Got!AsIs),
            Fields({"id", "hash", "kind", "nonce", "amount", "fee", "from", "to"}, string))
      BY GotSuits, TakesOf, IntoGot
    <2> QED
      BY <2>1, IntoWider DEF PooledUserCommand
  <1>2. Into(Got!Take({"nonce"}, Got!Either, Got!String), PooledUserCommand)
    <2>1. Into(Got!Take({"nonce"}, Got!Either, Got!String),
            Fields({"id", "hash", "kind", "nonce", "amount", "fee", "from", "to"}, string))
      BY GotSuits, TakesOf, IntoGot
    <2> QED
      BY <2>1, IntoWider DEF PooledUserCommand
  <1>3. Into(Got!Take({"amount", "fee"}, Got!Digits, Got!AsIs), PooledUserCommand)
    <2>1. Into(Got!Take({"amount", "fee"}, Got!Digits, Got!AsIs),
            Fields({"id", "hash", "kind", "nonce", "amount", "fee", "from", "to"}, string))
      BY GotSuits, TakesOf, IntoGot
    <2> QED
      BY <2>1, IntoWider DEF PooledUserCommand
  <1>4. Into(Sides(Got!Chained(Got!Name), Got!IfTruthy(Got!AsIs)), PooledUserCommand)
    <2>1. Into(Sides(Got!Chained(Got!Name), Got!IfTruthy(Got!AsIs)),
            Fields({"token", "feeToken", "source", "receiver", "memo"}, maybe(string)))
      BY GotSuits, SidesOf, TakesOf, IntoGot
    <2> QED
      BY <2>1, IntoWider DEF PooledUserCommand
  <1>5. Into(Got!Take({"memo"}, Got!Nullable(Got!Text), Got!UnlessNull(Got!AsIs)),
          PooledUserCommand)
    <2>1. Into(Got!Take({"memo"}, Got!Nullable(Got!Text), Got!UnlessNull(Got!AsIs)),
            Fields({"token", "feeToken", "source", "receiver", "memo"}, maybe(string)))
      BY GotSuits, TakesOf, IntoGot
    <2> QED
      BY <2>1, IntoWider DEF PooledUserCommand
  <1>6. Into(Got!Take({"failureReason"}, Got!Nullable(Got!Name), Got!UnlessUndefined(Got!AsIs)),
          PooledUserCommand)
    <2>1. Into(Got!Take({"failureReason"}, Got!Nullable(Got!Name), Got!UnlessUndefined(Got!AsIs)),
            Fields({"validUntil", "failureReason"}, maybe(orNull(string))))
      BY GotSuits, TakesOf, IntoGot
    <2> QED
      BY <2>1, IntoWider DEF PooledUserCommand
  <1>7. Into(Got!Take({"validUntil"}, Got!Nullable(Got!Either),
          Got!UnlessUndefined(Got!OrNull(Got!String))), PooledUserCommand)
    <2>1. Into(Got!Take({"validUntil"}, Got!Nullable(Got!Either),
            Got!UnlessUndefined(Got!OrNull(Got!String))),
            Fields({"validUntil", "failureReason"}, maybe(orNull(string))))
      BY GotSuits, TakesOf, IntoGot
    <2> QED
      BY <2>1, IntoWider DEF PooledUserCommand
  <1>8. Into(Got!Take({"token", "feeToken"}, Got!Nullable(Got!Name), Got!UnlessNull(Got!AsIs)),
          PooledUserCommand)
    <2>1. Into(Got!Take({"token", "feeToken"}, Got!Nullable(Got!Name), Got!UnlessNull(Got!AsIs)),
            Fields({"token", "feeToken", "source", "receiver", "memo"}, maybe(string)))
      BY GotSuits, TakesOf, IntoGot
    <2> QED
      BY <2>1, IntoWider DEF PooledUserCommand
  <1>9. Into(PooledTable, PooledUserCommand)
    BY <1>1, <1>2, <1>3, <1>4, <1>5, <1>6, <1>7, <1>8, IntoGot, IntoBoth DEF PooledTable
  <1>10. Onto(PooledTable, Fields({"id", "hash", "kind", "nonce", "amount", "fee", "from", "to"},
           string))
    <2>1. Onto(Got!Take({"id", "hash", "kind", "from", "to"}, Got!Name, Got!AsIs),
            Fields({"id", "hash", "kind", "from", "to"}, string))
      BY GotSuits, FillsOf, OntoGot, OntoBoth
    <2>2. Onto(Got!Take({"nonce"}, Got!Either, Got!String), Fields({"nonce"}, string))
      BY GotSuits, FillsOf, OntoGot, OntoBoth
    <2>3. Onto(Got!Take({"amount", "fee"}, Got!Digits, Got!AsIs), Fields({"amount", "fee"}, string))
      BY GotSuits, FillsOf, OntoGot, OntoBoth
    <2>4. Fields({"id", "hash", "kind", "nonce", "amount", "fee", "from", "to"}, string)
          = Fields({"id", "hash", "kind", "from", "to"}, string) \union Fields({"nonce"}, string)
              \union Fields({"amount", "fee"}, string)
      BY DEF Fields
    <2>5. Onto(PooledTable, Fields({"id", "hash", "kind", "from", "to"}, string))
      BY <2>1, OntoWider DEF PooledTable
    <2>6. Onto(PooledTable, Fields({"nonce"}, string))
      BY <2>2, OntoWider DEF PooledTable
    <2>7. Onto(PooledTable, Fields({"amount", "fee"}, string))
      BY <2>3, OntoWider DEF PooledTable
    <2>8. Onto(PooledTable, Fields({"id", "hash", "kind", "from", "to"}, string)
            \union Fields({"nonce"}, string) \union Fields({"amount", "fee"}, string))
      BY <2>5, <2>6, <2>7, OntoBoth
    <2> QED
      BY <2>4, <2>8
  <1>11. Onto(PooledTable, Fields({"validUntil", "failureReason"}, maybe(orNull(string))))
    BY OntoGot
  <1>12. Onto(PooledTable, Fields({"token", "feeToken", "source", "receiver", "memo"},
           maybe(string)))
    BY OntoGot
  <1>13. Onto(PooledTable, PooledUserCommand)
    BY <1>10, <1>11, <1>12, OntoBoth DEF PooledUserCommand
  <1> QED
    BY <1>9, <1>13

\* A command that has been sent.
LEMMA TypedSubmitted ==
  Into(Got!mapSubmittedCommand, SubmittedCommand) /\ Onto(Got!mapSubmittedCommand, SubmittedCommand)
  <1>1. Into(Got!Take({"id", "hash"}, Got!Name, Got!AsIs), SubmittedCommand)
    <2>1. Into(Got!Take({"id", "hash"}, Got!Name, Got!AsIs), Fields({"id", "hash"}, string))
      BY GotSuits, TakesOf, IntoGot
    <2> QED
      BY <2>1, IntoWider DEF SubmittedCommand
  <1>2. Into(Got!Take({"nonce"}, Got!Either, Got!Number), SubmittedCommand)
    <2>1. Into(Got!Take({"nonce"}, Got!Either, Got!Number), Fields({"nonce"}, number))
      BY GotSuits, TakesOf, IntoGot
    <2> QED
      BY <2>1, IntoWider DEF SubmittedCommand
  <1>3. Into(Got!Take({"kind"}, Got!Optional(Got!Name), Got!UnlessNull(Got!AsIs)), SubmittedCommand)
    <2>1. Into(Got!Take({"kind"}, Got!Optional(Got!Name), Got!UnlessNull(Got!AsIs)),
            Fields({"kind", "source", "receiver", "amount", "fee", "memo"}, maybe(string)))
      BY GotSuits, TakesOf, IntoGot
    <2> QED
      BY <2>1, IntoWider DEF SubmittedCommand
  <1>4. Into(Sides(Got!Chained(Got!Name), Got!IfTruthy(Got!AsIs)), SubmittedCommand)
    <2>1. Into(Sides(Got!Chained(Got!Name), Got!IfTruthy(Got!AsIs)),
            Fields({"kind", "source", "receiver", "amount", "fee", "memo"}, maybe(string)))
      BY GotSuits, SidesOf, TakesOf, IntoGot
    <2> QED
      BY <2>1, IntoWider DEF SubmittedCommand
  <1>5. Into(Got!Take({"amount", "fee"}, Got!Optional(Got!Digits), Got!UnlessNull(Got!AsIs)),
          SubmittedCommand)
    <2>1. Into(Got!Take({"amount", "fee"}, Got!Optional(Got!Digits), Got!UnlessNull(Got!AsIs)),
            Fields({"kind", "source", "receiver", "amount", "fee", "memo"}, maybe(string)))
      BY GotSuits, TakesOf, IntoGot
    <2> QED
      BY <2>1, IntoWider DEF SubmittedCommand
  <1>6. Into(Got!Take({"memo"}, Got!Optional(Got!Text), Got!UnlessNull(Got!AsIs)), SubmittedCommand)
    <2>1. Into(Got!Take({"memo"}, Got!Optional(Got!Text), Got!UnlessNull(Got!AsIs)),
            Fields({"kind", "source", "receiver", "amount", "fee", "memo"}, maybe(string)))
      BY GotSuits, TakesOf, IntoGot
    <2> QED
      BY <2>1, IntoWider DEF SubmittedCommand
  <1>7. Into(Got!mapSubmittedCommand, SubmittedCommand)
    BY <1>1, <1>2, <1>3, <1>4, <1>5, <1>6, IntoGot, IntoBoth DEF Got!mapSubmittedCommand, Sides
  <1>8. Onto(Got!mapSubmittedCommand, Fields({"id", "hash"}, string))
    <2>1. Onto(Got!Take({"id", "hash"}, Got!Name, Got!AsIs), Fields({"id", "hash"}, string))
      BY GotSuits, FillsOf, OntoGot, OntoBoth
    <2> QED
      BY <2>1, OntoWider DEF Got!mapSubmittedCommand, Sides
  <1>9. Onto(Got!mapSubmittedCommand, Fields({"nonce"}, number))
    <2>1. Onto(Got!Take({"nonce"}, Got!Either, Got!Number), Fields({"nonce"}, number))
      BY GotSuits, FillsOf, OntoGot, OntoBoth
    <2> QED
      BY <2>1, OntoWider DEF Got!mapSubmittedCommand, Sides
  <1>10. Onto(Got!mapSubmittedCommand, Fields({"kind", "source", "receiver", "amount", "fee",
           "memo"}, maybe(string)))
    BY OntoGot
  <1>11. Onto(Got!mapSubmittedCommand, SubmittedCommand)
    BY <1>8, <1>9, <1>10, OntoBoth DEF SubmittedCommand
  <1> QED
    BY <1>7, <1>11

\* An account that the daemon tracks.
LEMMA TypedTracked == Into(TrackedTable, TrackedAccount) /\ Onto(TrackedTable, TrackedAccount)
  <1>1. Into(Got!Take({"publicKey"}, Got!Name, Got!AsIs), TrackedAccount)
    <2>1. Into(Got!Take({"publicKey"}, Got!Name, Got!AsIs),
            Fields({"publicKey", "balance"}, string))
      BY GotSuits, TakesOf, IntoGot
    <2> QED
      BY <2>1, IntoWider DEF TrackedAccount
  <1>2. Into({Got!Rule(<<"balance", "total">>, <<"balance">>, Got!Digits, Got!AsIs)},
          TrackedAccount)
    <2>1. Into({Got!Rule(<<"balance", "total">>, <<"balance">>, Got!Digits, Got!AsIs)},
            Fields({"publicKey", "balance"}, string))
      BY GotSuits, TakesOf, IntoGot
    <2> QED
      BY <2>1, IntoWider DEF TrackedAccount
  <1>3. Into(TrackedTable, TrackedAccount)
    BY <1>1, <1>2, IntoGot, IntoBoth DEF TrackedTable
  <1>4. Onto(TrackedTable, Fields({"publicKey", "balance"}, string))
    <2>1. Onto(Got!Take({"publicKey"}, Got!Name, Got!AsIs), Fields({"publicKey"}, string))
      BY GotSuits, FillsOf, OntoGot, OntoBoth
    <2>2. Onto({Got!Rule(<<"balance", "total">>, <<"balance">>, Got!Digits, Got!AsIs)},
            Fields({"balance"}, string))
      BY GotSuits, FillsOf, OntoGot, OntoBoth
    <2>3. Fields({"publicKey", "balance"}, string)
          = Fields({"publicKey"}, string) \union Fields({"balance"}, string)
      BY DEF Fields
    <2>4. Onto(TrackedTable, Fields({"publicKey"}, string))
      BY <2>1, OntoWider DEF TrackedTable
    <2>5. Onto(TrackedTable, Fields({"balance"}, string))
      BY <2>2, OntoWider DEF TrackedTable
    <2>6. Onto(TrackedTable, Fields({"publicKey"}, string) \union Fields({"balance"}, string))
      BY <2>4, <2>5, OntoBoth
    <2> QED
      BY <2>3, <2>6
  <1>5. Onto(TrackedTable, TrackedAccount)
    BY <1>4, OntoBoth DEF TrackedAccount
  <1> QED
    BY <1>3, <1>5

\* An item of a log.
LEMMA TypedItem == Into(ItemTable, ItemType) /\ Onto(ItemTable, ItemType)
  <1>1. Into(Got!Take({"item"}, Got!Name, Got!AsIs), ItemType)
    <2>1. Into(Got!Take({"item"}, Got!Name, Got!AsIs), Fields({"item"}, string))
      BY GotSuits, TakesOf, IntoGot
    <2> QED
      BY <2>1, IntoWider DEF ItemType
  <1>2. Into(Got!Take({"value"}, Got!Unseen, Got!AsIs), ItemType)
    <2>1. Into(Got!Take({"value"}, Got!Unseen, Got!AsIs), Fields({"value"}, unknown))
      BY GotSuits, TakesOf, IntoGot
    <2> QED
      BY <2>1, IntoWider DEF ItemType
  <1>3. Into(ItemTable, ItemType)
    BY <1>1, <1>2, IntoGot, IntoBoth DEF ItemTable
  <1>4. Onto(ItemTable, Fields({"item"}, string))
    <2>1. Onto(Got!Take({"item"}, Got!Name, Got!AsIs), Fields({"item"}, string))
      BY GotSuits, FillsOf, OntoGot, OntoBoth
    <2> QED
      BY <2>1, OntoWider DEF ItemTable
  <1>5. Onto(ItemTable, Fields({"value"}, unknown))
    <2>1. Onto(Got!Take({"value"}, Got!Unseen, Got!AsIs), Fields({"value"}, unknown))
      BY GotSuits, FillsOf, OntoGot, OntoBoth
    <2> QED
      BY <2>1, OntoWider DEF ItemTable
  <1>6. Onto(ItemTable, ItemType)
    BY <1>4, <1>5, OntoBoth DEF ItemType
  <1> QED
    BY <1>3, <1>6

\* An internal log.
LEMMA TypedLog == Into(LogTable, ItnLog) /\ Onto(LogTable, ItnLog)
  <1>1. Into(Got!Take({"id"}, Got!Num, Got!AsIs), ItnLog)
    <2>1. Into(Got!Take({"id"}, Got!Num, Got!AsIs), Fields({"id"}, number))
      BY GotSuits, TakesOf, IntoGot
    <2> QED
      BY <2>1, IntoWider DEF ItnLog, ItemType
  <1>2. Into(Got!Take({"timestamp"}, Got!Name, Got!AsIs), ItnLog)
    <2>1. Into(Got!Take({"timestamp"}, Got!Name, Got!AsIs),
            Fields({"timestamp", "message"}, string))
      BY GotSuits, TakesOf, IntoGot
    <2> QED
      BY <2>1, IntoWider DEF ItnLog, ItemType
  <1>3. Into(Got!Take({"message"}, Got!Text, Got!AsIs), ItnLog)
    <2>1. Into(Got!Take({"message"}, Got!Text, Got!AsIs), Fields({"timestamp", "message"}, string))
      BY GotSuits, TakesOf, IntoGot
    <2> QED
      BY <2>1, IntoWider DEF ItnLog, ItemType
  <1>4. Into(Got!Within(<<"metadata">>, <<"metadata">>, Got!List, Got!AsIs, ItemTable), ItnLog)
    <2>1. Into(Got!Within(<<"metadata">>, <<"metadata">>, Got!List, Got!AsIs, ItemTable),
            Nested(<<"metadata">>, list, ItemType))
      BY GotSuits, TypedItem, TakesOf, HostsOf, IntoGot
    <2> QED
      BY <2>1, IntoWider DEF ItnLog, ItemType
  <1>5. Into(Got!Take({"process"}, Got!Nullable(Got!Name), Got!AsIs), ItnLog)
    <2>1. Into(Got!Take({"process"}, Got!Nullable(Got!Name), Got!AsIs),
            Fields({"process"}, orNull(string)))
      BY GotSuits, TakesOf, IntoGot
    <2> QED
      BY <2>1, IntoWider DEF ItnLog, ItemType
  <1>6. Into(LogTable, ItnLog)
    BY <1>1, <1>2, <1>3, <1>4, <1>5, IntoGot, IntoBoth DEF LogTable
  <1>7. Onto(LogTable, Fields({"id"}, number))
    <2>1. Onto(Got!Take({"id"}, Got!Num, Got!AsIs), Fields({"id"}, number))
      BY GotSuits, FillsOf, OntoGot, OntoBoth
    <2> QED
      BY <2>1, OntoWider DEF LogTable
  <1>8. Onto(LogTable, Fields({"timestamp", "message"}, string))
    <2>1. Onto(Got!Take({"timestamp"}, Got!Name, Got!AsIs), Fields({"timestamp"}, string))
      BY GotSuits, FillsOf, OntoGot, OntoBoth
    <2>2. Onto(Got!Take({"message"}, Got!Text, Got!AsIs), Fields({"message"}, string))
      BY GotSuits, FillsOf, OntoGot, OntoBoth
    <2>3. Fields({"timestamp", "message"}, string)
          = Fields({"timestamp"}, string) \union Fields({"message"}, string)
      BY DEF Fields
    <2>4. Onto(LogTable, Fields({"timestamp"}, string))
      BY <2>1, OntoWider DEF LogTable
    <2>5. Onto(LogTable, Fields({"message"}, string))
      BY <2>2, OntoWider DEF LogTable
    <2>6. Onto(LogTable, Fields({"timestamp"}, string) \union Fields({"message"}, string))
      BY <2>4, <2>5, OntoBoth
    <2> QED
      BY <2>3, <2>6
  <1>9. Onto(LogTable, Nested(<<"metadata">>, list, ItemType))
    <2>1. Onto(Got!Within(<<"metadata">>, <<"metadata">>, Got!List, Got!AsIs, ItemTable),
            Nested(<<"metadata">>, list, ItemType))
      BY GotSuits, TypedItem, FillsOf, OntoGot, OntoBoth
    <2> QED
      BY <2>1, OntoWider DEF LogTable
  <1>10. Onto(LogTable, Fields({"process"}, orNull(string)))
    <2>1. Onto(Got!Take({"process"}, Got!Nullable(Got!Name), Got!AsIs),
            Fields({"process"}, orNull(string)))
      BY GotSuits, FillsOf, OntoGot, OntoBoth
    <2> QED
      BY <2>1, OntoWider DEF LogTable
  <1>11. Onto(LogTable, ItnLog)
    BY <1>7, <1>8, <1>9, <1>10, OntoBoth DEF ItnLog, ItemType
  <1> QED
    BY <1>6, <1>11

\* A pair of keys.
LEMMA TypedKey == Into(KeyTable, CreatedAccount) /\ Onto(KeyTable, CreatedAccount)
  <1>1. Into(Got!Take({"publicKey", "privateKey"}, Got!Name, Got!AsIs), CreatedAccount)
    <2>1. Into(Got!Take({"publicKey", "privateKey"}, Got!Name, Got!AsIs),
            Fields({"publicKey", "privateKey"}, string))
      BY GotSuits, TakesOf, IntoGot
    <2> QED
      BY <2>1, IntoWider DEF CreatedAccount
  <1>2. Into(KeyTable, CreatedAccount)
    BY <1>1, IntoGot, IntoBoth DEF KeyTable
  <1>3. Onto(KeyTable, Fields({"publicKey", "privateKey"}, string))
    <2>1. Onto(Got!Take({"publicKey", "privateKey"}, Got!Name, Got!AsIs),
            Fields({"publicKey", "privateKey"}, string))
      BY GotSuits, FillsOf, OntoGot, OntoBoth
    <2> QED
      BY <2>1, OntoWider DEF KeyTable
  <1>4. Onto(KeyTable, CreatedAccount)
    BY <1>3, OntoBoth DEF CreatedAccount
  <1> QED
    BY <1>2, <1>4

\* The accounts that have been created.
LEMMA TypedAccounts ==
  Into(Got!createAccounts, CreatedAccounts) /\ Onto(Got!createAccounts, CreatedAccounts)
  <1>1. Into(Got!Take({"handle"}, Got!Name, Got!AsIs), CreatedAccounts)
    <2>1. Into(Got!Take({"handle"}, Got!Name, Got!AsIs), Fields({"handle"}, string))
      BY GotSuits, TakesOf, IntoGot
    <2> QED
      BY <2>1, IntoWider DEF CreatedAccounts
  <1>2. Into(Got!Within(<<"accounts">>, <<"accounts">>, Got!List, Got!AsIs, KeyTable),
          CreatedAccounts)
    <2>1. Into(Got!Within(<<"accounts">>, <<"accounts">>, Got!List, Got!AsIs, KeyTable),
            Nested(<<"accounts">>, list, CreatedAccount))
      BY GotSuits, TypedKey, TakesOf, HostsOf, IntoGot
    <2> QED
      BY <2>1, IntoWider DEF CreatedAccounts
  <1>3. Into(Got!createAccounts, CreatedAccounts)
    BY <1>1, <1>2, IntoGot, IntoBoth DEF Got!createAccounts, KeyTable
  <1>4. Onto(Got!createAccounts, Fields({"handle"}, string))
    <2>1. Onto(Got!Take({"handle"}, Got!Name, Got!AsIs), Fields({"handle"}, string))
      BY GotSuits, FillsOf, OntoGot, OntoBoth
    <2> QED
      BY <2>1, OntoWider DEF Got!createAccounts, KeyTable
  <1>5. Onto(Got!createAccounts, Nested(<<"accounts">>, list, CreatedAccount))
    <2>1. Onto(Got!Within(<<"accounts">>, <<"accounts">>, Got!List, Got!AsIs, KeyTable),
            Nested(<<"accounts">>, list, CreatedAccount))
      BY GotSuits, TypedKey, FillsOf, OntoGot, OntoBoth
    <2> QED
      BY <2>1, OntoWider DEF Got!createAccounts, KeyTable
  <1>6. Onto(Got!createAccounts, CreatedAccounts)
    BY <1>4, <1>5, OntoBoth DEF CreatedAccounts
  <1> QED
    BY <1>3, <1>6

\* A port of the ITN daemon.
LEMMA TypedPort ==
  LET T == Fields({"signerSequenceNumber", "libp2pPort"}, number \union {"throws"})
  IN Into(PortTable, T) /\ Onto(PortTable, T)
  <1> DEFINE T == Fields({"signerSequenceNumber", "libp2pPort"}, number \union {"throws"})
             w == [Got!Either EXCEPT !.odd = @ \union {"-1", "'x'", "null"}]
             M == {"signerSequenceNumber", "libp2pPort"}
  <1>1. Suits(w, Got!parseUint16, number \union {"throws"})
    BY GotSuitsMore
  <1>2. PortTable = Got!Take(M, w, Got!parseUint16)
    BY DEF PortTable
  <1> HIDE DEF w, M
  <1>3. Into(Got!Take(M, w, Got!parseUint16), Fields(M, number \union {"throws"}))
    BY <1>1, TakesOf, IntoGot
  <1>4. Onto(Got!Take(M, w, Got!parseUint16), Fields(M, number \union {"throws"}))
    BY <1>1, FillsOf, OntoGot
  <1> QED
    BY <1>2, <1>3, <1>4 DEF M

\* The answer to auth: the identifiers of the server and the sequence number.
LEMMA TypedAuth == Into(Got!parseAuth, ItnAuth) /\ Onto(Got!parseAuth, ItnAuth)
  <1>0. TakesIt(ItnAuth, Got!Nullable(Got!Object), Got!Required)
    BY GotSuits, TakesOf DEF ItnAuth
  <1>1. Into(Got!Take({"serverUuid"}, Got!Nullable(Got!Text), Got!Required), ItnAuth)
    <2>1. Into(Got!Take({"serverUuid"}, Got!Nullable(Got!Text), Got!Required),
            Fields({"serverUuid"}, string \union {"throws"}))
      BY GotSuits, TakesOf, IntoGot
    <2> QED
      BY <2>1, IntoWider DEF ItnAuth
  <1>2. Into(PortTable, ItnAuth)
    <2>1. Into(PortTable, Fields({"signerSequenceNumber", "libp2pPort"}, number \union {"throws"}))
      BY GotSuits, TypedPort, TakesOf, HostsOf, IntoGot
    <2> QED
      BY <2>1, IntoWider DEF ItnAuth
  <1>3. Into(Got!Take({"peerId"}, Got!Nullable(Got!Text), Got!OrNull(Got!AsIs)), ItnAuth)
    <2>1. Into(Got!Take({"peerId"}, Got!Nullable(Got!Text), Got!OrNull(Got!AsIs)),
            Fields({"peerId"}, orNull(string)))
      BY GotSuits, TakesOf, IntoGot
    <2> QED
      BY <2>1, IntoWider DEF ItnAuth
  <1>4. Into(Got!Take({"isBlockProducer"}, Got!Nullable(Got!Flag), Got!Else("false")), ItnAuth)
    <2>1. Into(Got!Take({"isBlockProducer"}, Got!Nullable(Got!Flag), Got!Else("false")),
            Fields({"isBlockProducer"}, boolean))
      BY GotSuits, TakesOf, IntoGot
    <2> QED
      BY <2>1, IntoWider DEF ItnAuth
  <1>5. Into(Got!parseAuth, ItnAuth)
    BY <1>0, <1>1, <1>2, <1>3, <1>4, IntoGot, IntoBoth DEF Got!parseAuth, PortTable
  <1>6. Onto(Got!parseAuth, Fields({"serverUuid"}, string \union {"throws"}))
    <2>1. Onto(Got!Take({"serverUuid"}, Got!Nullable(Got!Text), Got!Required),
            Fields({"serverUuid"}, string \union {"throws"}))
      BY GotSuits, FillsOf, OntoGot, OntoBoth
    <2> QED
      BY <2>1, OntoWider DEF Got!parseAuth, PortTable
  <1>7. Onto(Got!parseAuth, Fields({"signerSequenceNumber", "libp2pPort"}, number
          \union {"throws"}))
    <2>1. Onto(PortTable, Fields({"signerSequenceNumber", "libp2pPort"}, number \union {"throws"}))
      BY GotSuits, TypedPort, FillsOf, OntoGot, OntoBoth
    <2> QED
      BY <2>1, OntoWider DEF Got!parseAuth, PortTable
  <1>8. Onto(Got!parseAuth, Fields({"peerId"}, orNull(string)))
    <2>1. Onto(Got!Take({"peerId"}, Got!Nullable(Got!Text), Got!OrNull(Got!AsIs)),
            Fields({"peerId"}, orNull(string)))
      BY GotSuits, FillsOf, OntoGot, OntoBoth
    <2> QED
      BY <2>1, OntoWider DEF Got!parseAuth, PortTable
  <1>9. Onto(Got!parseAuth, Fields({"isBlockProducer"}, boolean))
    <2>1. Onto(Got!Take({"isBlockProducer"}, Got!Nullable(Got!Flag), Got!Else("false")),
            Fields({"isBlockProducer"}, boolean))
      BY GotSuits, FillsOf, OntoGot, OntoBoth
    <2> QED
      BY <2>1, OntoWider DEF Got!parseAuth, PortTable
  <1>10. Onto(Got!parseAuth, Just({"{}", "throws"}))
    BY GotSuits, FillsOf, OntoGot DEF Got!parseAuth, PortTable
  <1>11. Onto(Got!parseAuth, ItnAuth)
    BY <1>6, <1>7, <1>8, <1>9, <1>10, OntoBoth DEF ItnAuth
  <1> QED
    BY <1>5, <1>11

\* The rules that keep both, for searching.
LEMMA TypedGot ==
  /\ \A n, w, h, R, F : Suits(w, h, list) /\ Into(R, F) /\ Onto(R, F)
       => Into(Got!Elements(n, w, h, R), ListOf(F)) /\ Onto(Got!Elements(n, w, h, R), ListOf(F))
  /\ \A n, w, h, V : Suits(w, h, V)
       => Into(Got!Returned(n, w, h), Just(V)) /\ Onto(Got!Returned(n, w, h), Just(V))
  <1>1. \A n, w, h, R, F : Suits(w, h, list) /\ Into(R, F) /\ Onto(R, F)
          => Into(Got!Elements(n, w, h, R), ListOf(F)) /\ Onto(Got!Elements(n, w, h, R), ListOf(F))
    BY TakesOf, HostsOf, IntoGot, OntoGot DEF Got!Elements, ListOf
  <1>2. \A n, w, h, V : Suits(w, h, V)
          => Into(Got!Returned(n, w, h), Just(V)) /\ Onto(Got!Returned(n, w, h), Just(V))
    BY TakesOf, IntoGot, FillsOf, OntoGot DEF Got!Returned
  <1> QED
    BY <1>1, <1>2

\* The data of the epochs: of a BlockInfo, where they may be missing, and of a Block.
StakingTable ==
  Got!Take({"epochLength"}, Got!Either, Got!Number)
  \union Got!Take({"seed"}, Got!Name, Got!AsIs)
  \union {Got!Rule(<<"ledger", "hash">>, <<"ledgerHash">>, Got!Name, Got!AsIs)}

BlockStakingTable ==
  Got!Take({"epochLength"}, Got!Either, Got!When({"undefined"}, "0", Got!Number))
  \union Got!Take({"seed"}, Got!Name, Got!AsIs)
  \union {Got!Rule(<<"ledger", "hash">>, <<"ledgerHash">>, Got!Name, Got!AsIs)}

NextTable ==
  Got!Take({"seed"}, Got!Name, Got!AsIs)
  \union {Got!Rule(<<"ledger", "hash">>, <<"ledgerHash">>, Got!Name, Got!AsIs)}

BlockNextTable ==
  Got!Take({"seed"}, Got!Name, Got!Else("''"))
  \union {Got!Rule(<<"ledger", "hash">>, <<"ledgerHash">>, Got!Name, Got!Else("''"))}

\* The data of the staking epoch, of a BlockInfo.
LEMMA TypedStaking == Into(StakingTable, StakingEpochData) /\ Onto(StakingTable, StakingEpochData)
  <1>1. Into(Got!Take({"epochLength"}, Got!Either, Got!Number), StakingEpochData)
    <2>1. Into(Got!Take({"epochLength"}, Got!Either, Got!Number), Fields({"epochLength"}, number))
      BY GotSuits, TakesOf, IntoGot
    <2> QED
      BY <2>1, IntoWider DEF StakingEpochData
  <1>2. Into(Got!Take({"seed"}, Got!Name, Got!AsIs), StakingEpochData)
    <2>1. Into(Got!Take({"seed"}, Got!Name, Got!AsIs),
            Fields({"seed", "ledgerHash"}, maybe(string)))
      BY GotSuits, GotSuitsBlocks, TakesOf, IntoGot
    <2> QED
      BY <2>1, IntoWider DEF StakingEpochData
  <1>3. Into({Got!Rule(<<"ledger", "hash">>, <<"ledgerHash">>, Got!Name, Got!AsIs)},
          StakingEpochData)
    <2>1. Into({Got!Rule(<<"ledger", "hash">>, <<"ledgerHash">>, Got!Name, Got!AsIs)},
            Fields({"seed", "ledgerHash"}, maybe(string)))
      BY GotSuits, GotSuitsBlocks, TakesOf, IntoGot
    <2> QED
      BY <2>1, IntoWider DEF StakingEpochData
  <1>4. Into(StakingTable, StakingEpochData)
    BY <1>1, <1>2, <1>3, IntoGot, IntoBoth DEF StakingTable
  <1>5. Onto(StakingTable, Fields({"epochLength"}, number))
    <2>1. Onto(Got!Take({"epochLength"}, Got!Either, Got!Number), Fields({"epochLength"}, number))
      BY GotSuits, FillsOf, OntoGot, OntoBoth
    <2> QED
      BY <2>1, OntoWider DEF StakingTable
  <1>6. Onto(StakingTable, Fields({"seed", "ledgerHash"}, maybe(string)))
    BY OntoGot
  <1>7. Onto(StakingTable, StakingEpochData)
    BY <1>5, <1>6, OntoBoth DEF StakingEpochData
  <1> QED
    BY <1>4, <1>7

\* The data of the staking epoch, of a Block.
LEMMA TypedBlockStaking ==
  Into(BlockStakingTable, StakingEpochData) /\ Onto(BlockStakingTable, StakingEpochData)
  <1>1. Into(Got!Take({"epochLength"}, Got!Either, Got!When({"undefined"}, "0", Got!Number)),
          StakingEpochData)
    <2>1. Into(Got!Take({"epochLength"}, Got!Either, Got!When({"undefined"}, "0", Got!Number)),
            Fields({"epochLength"}, number))
      BY GotSuits, GotSuitsMore, TakesOf, IntoGot
    <2> QED
      BY <2>1, IntoWider DEF StakingEpochData
  <1>2. Into(Got!Take({"seed"}, Got!Name, Got!AsIs), StakingEpochData)
    <2>1. Into(Got!Take({"seed"}, Got!Name, Got!AsIs),
            Fields({"seed", "ledgerHash"}, maybe(string)))
      BY GotSuits, GotSuitsBlocks, TakesOf, IntoGot
    <2> QED
      BY <2>1, IntoWider DEF StakingEpochData
  <1>3. Into({Got!Rule(<<"ledger", "hash">>, <<"ledgerHash">>, Got!Name, Got!AsIs)},
          StakingEpochData)
    <2>1. Into({Got!Rule(<<"ledger", "hash">>, <<"ledgerHash">>, Got!Name, Got!AsIs)},
            Fields({"seed", "ledgerHash"}, maybe(string)))
      BY GotSuits, GotSuitsBlocks, TakesOf, IntoGot
    <2> QED
      BY <2>1, IntoWider DEF StakingEpochData
  <1>4. Into(BlockStakingTable, StakingEpochData)
    BY <1>1, <1>2, <1>3, IntoGot, IntoBoth DEF BlockStakingTable
  <1>5. Onto(BlockStakingTable, Fields({"epochLength"}, number))
    <2>1. Onto(Got!Take({"epochLength"}, Got!Either, Got!When({"undefined"}, "0", Got!Number)),
            Fields({"epochLength"}, number))
      BY GotSuits, GotSuitsMore, FillsOf, OntoGot, OntoBoth
    <2> QED
      BY <2>1, OntoWider DEF BlockStakingTable
  <1>6. Onto(BlockStakingTable, Fields({"seed", "ledgerHash"}, maybe(string)))
    BY OntoGot
  <1>7. Onto(BlockStakingTable, StakingEpochData)
    BY <1>5, <1>6, OntoBoth DEF StakingEpochData
  <1> QED
    BY <1>4, <1>7

\* The data of the next epoch, of a BlockInfo.
LEMMA TypedNext == Into(NextTable, NextEpochData) /\ Onto(NextTable, NextEpochData)
  <1>1. Into(Got!Take({"seed"}, Got!Name, Got!AsIs), NextEpochData)
    <2>1. Into(Got!Take({"seed"}, Got!Name, Got!AsIs), Fields({"seed", "ledgerHash"}, string))
      BY GotSuits, TakesOf, IntoGot
    <2> QED
      BY <2>1, IntoWider DEF NextEpochData
  <1>2. Into({Got!Rule(<<"ledger", "hash">>, <<"ledgerHash">>, Got!Name, Got!AsIs)}, NextEpochData)
    <2>1. Into({Got!Rule(<<"ledger", "hash">>, <<"ledgerHash">>, Got!Name, Got!AsIs)},
            Fields({"seed", "ledgerHash"}, string))
      BY GotSuits, TakesOf, IntoGot
    <2> QED
      BY <2>1, IntoWider DEF NextEpochData
  <1>3. Into(NextTable, NextEpochData)
    BY <1>1, <1>2, IntoGot, IntoBoth DEF NextTable
  <1>4. Onto(NextTable, Fields({"seed", "ledgerHash"}, string))
    <2>1. Onto(Got!Take({"seed"}, Got!Name, Got!AsIs), Fields({"seed"}, string))
      BY GotSuits, FillsOf, OntoGot, OntoBoth
    <2>2. Onto({Got!Rule(<<"ledger", "hash">>, <<"ledgerHash">>, Got!Name, Got!AsIs)},
            Fields({"ledgerHash"}, string))
      BY GotSuits, FillsOf, OntoGot, OntoBoth
    <2>3. Fields({"seed", "ledgerHash"}, string)
          = Fields({"seed"}, string) \union Fields({"ledgerHash"}, string)
      BY DEF Fields
    <2>4. Onto(NextTable, Fields({"seed"}, string))
      BY <2>1, OntoWider DEF NextTable
    <2>5. Onto(NextTable, Fields({"ledgerHash"}, string))
      BY <2>2, OntoWider DEF NextTable
    <2>6. Onto(NextTable, Fields({"seed"}, string) \union Fields({"ledgerHash"}, string))
      BY <2>4, <2>5, OntoBoth
    <2> QED
      BY <2>3, <2>6
  <1>5. Onto(NextTable, NextEpochData)
    BY <1>4, OntoBoth DEF NextEpochData
  <1> QED
    BY <1>3, <1>5

\* The data of the next epoch, of a Block.
LEMMA TypedBlockNext == Into(BlockNextTable, NextEpochData) /\ Onto(BlockNextTable, NextEpochData)
  <1>1. Into(Got!Take({"seed"}, Got!Name, Got!Else("''")), NextEpochData)
    <2>1. Into(Got!Take({"seed"}, Got!Name, Got!Else("''")), Fields({"seed", "ledgerHash"}, string))
      BY GotSuits, TakesOf, IntoGot
    <2> QED
      BY <2>1, IntoWider DEF NextEpochData
  <1>2. Into({Got!Rule(<<"ledger", "hash">>, <<"ledgerHash">>, Got!Name, Got!Else("''"))},
          NextEpochData)
    <2>1. Into({Got!Rule(<<"ledger", "hash">>, <<"ledgerHash">>, Got!Name, Got!Else("''"))},
            Fields({"seed", "ledgerHash"}, string))
      BY GotSuits, TakesOf, IntoGot
    <2> QED
      BY <2>1, IntoWider DEF NextEpochData
  <1>3. Into(BlockNextTable, NextEpochData)
    BY <1>1, <1>2, IntoGot, IntoBoth DEF BlockNextTable
  <1>4. Onto(BlockNextTable, Fields({"seed", "ledgerHash"}, string))
    <2>1. Onto(Got!Take({"seed"}, Got!Name, Got!Else("''")), Fields({"seed"}, string))
      BY GotSuits, FillsOf, OntoGot, OntoBoth
    <2>2. Onto({Got!Rule(<<"ledger", "hash">>, <<"ledgerHash">>, Got!Name, Got!Else("''"))},
            Fields({"ledgerHash"}, string))
      BY GotSuits, FillsOf, OntoGot, OntoBoth
    <2>3. Fields({"seed", "ledgerHash"}, string)
          = Fields({"seed"}, string) \union Fields({"ledgerHash"}, string)
      BY DEF Fields
    <2>4. Onto(BlockNextTable, Fields({"seed"}, string))
      BY <2>1, OntoWider DEF BlockNextTable
    <2>5. Onto(BlockNextTable, Fields({"ledgerHash"}, string))
      BY <2>2, OntoWider DEF BlockNextTable
    <2>6. Onto(BlockNextTable, Fields({"seed"}, string) \union Fields({"ledgerHash"}, string))
      BY <2>4, <2>5, OntoBoth
    <2> QED
      BY <2>3, <2>6
  <1>5. Onto(BlockNextTable, NextEpochData)
    BY <1>4, OntoBoth DEF NextEpochData
  <1> QED
    BY <1>3, <1>5

-----------------------------------------------------------------------------
(* Blocks. Their table is cut into named parts, so that the proofs need not *)
(* look into them.                                                          *)

StateHashRule ==
  Got!Take({"stateHash"}, Got!Hash, Got!AsIs)
CountRule ==
  Got!Take({"commandTransactionCount"}, Got!Num, Got!AsIs)
CreatorRule ==
  {Got!Rule(<<"creatorAccount", "publicKey">>, <<"creatorPublicKey">>,
             Got!Chained(Got!Nullable(Got!Name)), Got!Else("'unknown'"))}
PreviousRule ==
  Got!Take({"previousStateHash"}, Got!Hash, Got!AsIs)
HeightRule ==
  Got!Move("blockHeight", "height", Got!Either, Got!Number)
SlotRule ==
  Got!Move("slot", "globalSlotSinceHardFork", Got!Either, Got!Number)
GenesisSlotRule ==
  Got!Move("slotSinceGenesis", "globalSlotSinceGenesis", Got!Either, Got!Number)
EpochRule ==
  Got!Take({"epoch"}, Got!Either, Got!Number)
ProducerRule ==
  Got!Take({"blockCreator"}, Got!Name, Got!AsIs)
ReceiverRule ==
  Got!Move("coinbaseReceiever", "coinbaseReceiver", Got!Nullable(Got!Name),
             Got!UnlessNull(Got!AsIs))
DateRules ==
  Got!Take({"date", "utcDate", "snarkedLedgerHash"}, Got!Name, Got!AsIs)
StagedRule ==
  Got!Take({"stagedLedgerHash"}, Got!Hash, Got!AsIs)
CoinbaseRule ==
  Got!Move("coinbase", "coinbase", Got!Digits, Got!AsIs)
PaidRule ==
  {Got!Rule(<<"coinbaseReceiverAccount", "publicKey">>, <<"coinbaseReceiverAccount">>,
             Got!Chained(Got!Name), Got!Else("null"))}
CommandRules ==
  Got!Within(<<"userCommands">>, <<"userCommands">>, Got!Nullable(Got!List), Got!Else("[]"),
               Got!userCommands)
TransferRules ==
  Got!Within(<<"feeTransfer">>, <<"feeTransfers">>, Got!Nullable(Got!List), Got!Else("[]"),
               FeeTable)
ZkappRules ==
  Got!Within(<<"zkappCommands">>, <<"zkappCommands">>, Got!Nullable(Got!List),
    Got!UnlessNull(Got!AsIs),
               Got!zkappCommands)
JobRules ==
  Got!Within(<<"snarkJobs">>, <<"snarkJobs">>, Got!Nullable(Got!List), Got!UnlessNull(Got!AsIs),
               Got!snarkWork)
StakingRules ==
  Got!Within(<<"stakingEpochData">>, <<"stakingEpochData">>, Got!Nullable(Got!Object),
    Got!IfTruthy(Got!AsIs),
               StakingTable)
NextRules ==
  Got!Within(<<"nextEpochData">>, <<"nextEpochData">>, Got!Nullable(Got!Object),
    Got!IfTruthy(Got!AsIs),
               NextTable)
BlockStakingRules ==
  Got!Within(<<"stakingEpochData">>, <<"stakingEpochData">>, Got!Nullable(Got!Object),
    Got!Else("{}"),
               BlockStakingTable)
BlockNextRules ==
  Got!Within(<<"nextEpochData">>, <<"nextEpochData">>, Got!Nullable(Got!Object), Got!Else("{}"),
               BlockNextTable)

ChainTable == DateRules \union StagedRule
ConsensusTable(epochs) == Got!heights \union epochs \union ProducerRule \union ReceiverRule
ProtocolTable(epochs) ==
  PreviousRule
  \union Got!Inside(<<"consensusState">>, <<>>, ConsensusTable(epochs))
  \union Got!Inside(<<"blockchainState">>, <<>>, ChainTable)

\* A Block, with the names that its fields have before they get others.
BlockBefore ==
  Fields({"stateHash", "previousStateHash", "creatorPublicKey", "blockCreator", "date", "utcDate",
          "snarkedLedgerHash", "stagedLedgerHash", "coinbase"}, string)
  \union Fields({"commandTransactionCount", "height", "epoch", "globalSlotSinceHardFork",
                 "globalSlotSinceGenesis"}, number)
  \union Fields({"coinbaseReceiver"}, maybe(string))
  \union Fields({"coinbaseReceiverAccount"}, orNull(string))
  \union Nested(<<"feeTransfers">>, list, FeeTransfer)
  \union Nested(<<"userCommands">>, list, BlockTransaction)
  \union Nested(<<"zkappCommands">>, maybe(list), BlockZkappCommand)
  \union Nested(<<"snarkJobs">>, maybe(list), CompletedWork)
  \union Nested(<<"stakingEpochData">>, object, StakingEpochData)
  \union Nested(<<"nextEpochData">>, object, NextEpochData)

\* The table of a block, of its parts.
LEMMA BlockIs ==
  /\ Got!heights = HeightRule \union SlotRule \union GenesisSlotRule \union EpochRule
  /\ Got!transactions
       = Got!Inside(<<"transactions">>, <<>>, CommandRules \union TransferRules \union ZkappRules
                                              \union CoinbaseRule \union PaidRule)
  /\ Got!epochData = StakingRules \union NextRules
  /\ Got!blockEpochData = BlockStakingRules \union BlockNextRules
  /\ \A epochs : Got!blockInfo(epochs)
       = StateHashRule \union CountRule \union CreatorRule
         \union Got!Inside(<<"protocolState">>, <<>>, ProtocolTable(epochs))
         \union JobRules \union Got!transactions
  <1>1. Got!heights = HeightRule \union SlotRule \union GenesisSlotRule \union EpochRule
    BY DEF Got!heights, HeightRule, SlotRule, GenesisSlotRule, EpochRule
  <1>2. Got!transactions
          = Got!Inside(<<"transactions">>, <<>>, CommandRules \union TransferRules \union ZkappRules
                                                 \union CoinbaseRule \union PaidRule)
    BY DEF Got!transactions, CommandRules, TransferRules, ZkappRules, CoinbaseRule, PaidRule,
           FeeTable
  <1>3. Got!epochData = StakingRules \union NextRules
    BY DEF Got!epochData, StakingRules, NextRules, StakingTable, NextTable
  <1>4. Got!blockEpochData = BlockStakingRules \union BlockNextRules
    BY DEF Got!blockEpochData, BlockStakingRules, BlockNextRules, BlockStakingTable, BlockNextTable
  <1>5. ASSUME NEW epochs
        PROVE  Got!blockInfo(epochs)
                 = StateHashRule \union CountRule \union CreatorRule
                   \union Got!Inside(<<"protocolState">>, <<>>, ProtocolTable(epochs))
                   \union JobRules \union Got!transactions
    BY DEF Got!blockInfo, StateHashRule, CountRule, CreatorRule, JobRules, ProtocolTable,
           PreviousRule, ConsensusTable, ProducerRule, ReceiverRule, ChainTable, DateRules,
           StagedRule
  <1> QED
    BY <1>1, <1>2, <1>3, <1>4, <1>5

-----------------------------------------------------------------------------
\* What a part makes, the whole makes.

\* A table that makes a field, makes it as a part of another.
Reaches(A, R) == \A T : Onto(A, T) => Onto(R, T)

\* A table reaches what it is part of.
LEMMA ReachesGot ==
  /\ \A A : Reaches(A, A)
  /\ \A A, R, Q : Reaches(A, R) => Reaches(A, R \union Q) /\ Reaches(A, Q \union R)
  /\ \A a, A, R : Reaches(A, R) => Reaches(A, Got!Inside(a, <<>>, R))
  BY OntoWider DEF Reaches

\* A table reaches what it reaches through another.
LEMMA ReachesOn == \A A, R, Q : Reaches(A, R) /\ Reaches(R, Q) => Reaches(A, Q)
  BY DEF Reaches

\* The parts of a block reach the block, whatever its epochs are read with.
LEMMA BlockReached ==
  ASSUME NEW epochs
  PROVE  /\ Reaches(StateHashRule, Got!blockInfo(epochs))
              /\ Reaches(CountRule, Got!blockInfo(epochs))
         /\ Reaches(CreatorRule, Got!blockInfo(epochs)) /\ Reaches(JobRules, Got!blockInfo(epochs))
         /\ Reaches(PreviousRule, Got!blockInfo(epochs))
         /\ Reaches(ProducerRule, Got!blockInfo(epochs))
         /\ Reaches(DateRules, Got!blockInfo(epochs)) /\ Reaches(StagedRule, Got!blockInfo(epochs))
         /\ Reaches(HeightRule, Got!blockInfo(epochs)) /\ Reaches(SlotRule, Got!blockInfo(epochs))
         /\ Reaches(GenesisSlotRule, Got!blockInfo(epochs))
              /\ Reaches(EpochRule, Got!blockInfo(epochs))
         /\ Reaches(CommandRules, Got!blockInfo(epochs))
              /\ Reaches(TransferRules, Got!blockInfo(epochs))
         /\ Reaches(ZkappRules, Got!blockInfo(epochs))
              /\ Reaches(CoinbaseRule, Got!blockInfo(epochs))
         /\ Reaches(PaidRule, Got!blockInfo(epochs)) /\ Reaches(epochs, Got!blockInfo(epochs))
  <1> DEFINE B == Got!blockInfo(epochs)
  <1>1. /\ Reaches(StateHashRule, B) /\ Reaches(CountRule, B) /\ Reaches(CreatorRule, B)
        /\ Reaches(JobRules, B) /\ Reaches(Got!transactions, B)
        /\ Reaches(ProtocolTable(epochs), B)
    <2> DEFINE U == StateHashRule \union CountRule \union CreatorRule
                    \union Got!Inside(<<"protocolState">>, <<>>, ProtocolTable(epochs))
                    \union JobRules \union Got!transactions
    <2>1. /\ Reaches(StateHashRule, U) /\ Reaches(CountRule, U) /\ Reaches(CreatorRule, U)
          /\ Reaches(JobRules, U) /\ Reaches(Got!transactions, U)
          /\ Reaches(ProtocolTable(epochs), U)
      BY ReachesGot
    <2>2. B = U
      BY BlockIs
    <2> QED
      BY <2>1, <2>2
  <1>2. /\ Reaches(PreviousRule, ProtocolTable(epochs))
        /\ Reaches(ConsensusTable(epochs), ProtocolTable(epochs))
        /\ Reaches(ChainTable, ProtocolTable(epochs))
    BY ReachesGot DEF ProtocolTable
  <1>3. /\ Reaches(Got!heights, ConsensusTable(epochs)) /\ Reaches(epochs, ConsensusTable(epochs))
        /\ Reaches(ProducerRule, ConsensusTable(epochs))
    BY ReachesGot DEF ConsensusTable
  <1>4. Reaches(DateRules, ChainTable) /\ Reaches(StagedRule, ChainTable)
    BY ReachesGot DEF ChainTable
  <1>5. /\ Reaches(HeightRule, Got!heights) /\ Reaches(SlotRule, Got!heights)
        /\ Reaches(GenesisSlotRule, Got!heights) /\ Reaches(EpochRule, Got!heights)
    <2> DEFINE U == HeightRule \union SlotRule \union GenesisSlotRule \union EpochRule
    <2>1. /\ Reaches(HeightRule, U) /\ Reaches(SlotRule, U) /\ Reaches(GenesisSlotRule, U)
          /\ Reaches(EpochRule, U)
      BY ReachesGot
    <2> QED
      BY <2>1, BlockIs
  <1>6. /\ Reaches(CommandRules, Got!transactions) /\ Reaches(TransferRules, Got!transactions)
        /\ Reaches(ZkappRules, Got!transactions) /\ Reaches(CoinbaseRule, Got!transactions)
        /\ Reaches(PaidRule, Got!transactions)
    <2> DEFINE U == CommandRules \union TransferRules \union ZkappRules \union CoinbaseRule
                    \union PaidRule
    <2>1. /\ Reaches(CommandRules, U) /\ Reaches(TransferRules, U) /\ Reaches(ZkappRules, U)
          /\ Reaches(CoinbaseRule, U) /\ Reaches(PaidRule, U)
      BY ReachesGot
    <2>2. Reaches(U, Got!transactions)
      BY BlockIs, ReachesGot
    <2> QED
      BY <2>1, <2>2, ReachesOn
  <1>7. /\ Reaches(ConsensusTable(epochs), B) /\ Reaches(ChainTable, B)
        /\ Reaches(PreviousRule, B)
    BY <1>1, <1>2, ReachesOn
  <1>8. /\ Reaches(Got!heights, B) /\ Reaches(epochs, B) /\ Reaches(ProducerRule, B)
    BY <1>3, <1>7, ReachesOn
  <1>9. Reaches(DateRules, B) /\ Reaches(StagedRule, B)
    BY <1>4, <1>7, ReachesOn
  <1>10. /\ Reaches(HeightRule, B) /\ Reaches(SlotRule, B) /\ Reaches(GenesisSlotRule, B)
         /\ Reaches(EpochRule, B)
    BY <1>5, <1>8, ReachesOn
  <1>11. /\ Reaches(CommandRules, B) /\ Reaches(TransferRules, B) /\ Reaches(ZkappRules, B)
         /\ Reaches(CoinbaseRule, B) /\ Reaches(PaidRule, B)
    BY <1>1, <1>6, ReachesOn
  <1> QED
    BY <1>1, <1>7, <1>8, <1>9, <1>10, <1>11

-----------------------------------------------------------------------------
\* What the whole makes, its parts make.

\* The table of a block matches a type that its parts match.
LEMMA IntoBlock ==
  ASSUME NEW epochs, NEW T, Into(epochs, T),
         Into(StateHashRule, T), Into(CountRule, T), Into(CreatorRule, T), Into(JobRules, T),
         Into(PreviousRule, T), Into(ProducerRule, T), Into(ReceiverRule, T),
         Into(DateRules, T), Into(StagedRule, T),
         Into(HeightRule, T), Into(SlotRule, T), Into(GenesisSlotRule, T), Into(EpochRule, T),
         Into(CommandRules, T), Into(TransferRules, T), Into(ZkappRules, T),
         Into(CoinbaseRule, T), Into(PaidRule, T)
  PROVE  Into(Got!blockInfo(epochs), T)
  <1>1. Into(Got!heights, T)
    BY BlockIs, IntoBoth
  <1>2. Into(Got!transactions, T)
    BY BlockIs, IntoBoth, IntoGot
  <1>3. Into(ChainTable, T) /\ Into(ConsensusTable(epochs), T)
    BY <1>1, IntoBoth DEF ChainTable, ConsensusTable
  <1>4. Into(ProtocolTable(epochs), T)
    BY <1>3, IntoBoth, IntoGot DEF ProtocolTable
  <1> QED
    BY <1>2, <1>4, BlockIs, IntoBoth, IntoGot

\* Each rule of a BlockInfo makes a field of the type.
LEMMA IntoBlockInfo == Into(Got!parseBlockInfo, BlockInfo)
  <1>1. Into(StateHashRule, BlockInfo) /\ Into(CreatorRule, BlockInfo)
    <2> DEFINE F == Fields({"stateHash", "creatorPublicKey"}, string)
    <2>1. Into(StateHashRule, F)
      BY GotSuits, GotSuitsBlocks, TakesOf, IntoGot DEF StateHashRule
    <2>2. Into(CreatorRule, F)
      BY GotSuits, GotSuitsBlocks, TakesOf, IntoGot DEF CreatorRule
    <2> QED
      BY <2>1, <2>2, IntoWider DEF BlockInfo
  <1>2. Into(CountRule, BlockInfo) /\ Into(HeightRule, BlockInfo) /\ Into(SlotRule, BlockInfo)
          /\ Into(GenesisSlotRule, BlockInfo)
    <2> DEFINE F == Fields({"height", "globalSlotSinceHardFork", "globalSlotSinceGenesis",
          "commandTransactionCount"}, number)
    <2>1. Into(CountRule, F)
      BY GotSuits, GotSuitsBlocks, TakesOf, IntoGot DEF CountRule
    <2>2. Into(HeightRule, F)
      BY GotSuits, GotSuitsBlocks, TakesOf, IntoGot DEF HeightRule
    <2>3. Into(SlotRule, F)
      BY GotSuits, GotSuitsBlocks, TakesOf, IntoGot DEF SlotRule
    <2>4. Into(GenesisSlotRule, F)
      BY GotSuits, GotSuitsBlocks, TakesOf, IntoGot DEF GenesisSlotRule
    <2> QED
      BY <2>1, <2>2, <2>3, <2>4, IntoWider DEF BlockInfo
  <1>3. Into(EpochRule, BlockInfo)
    <2> DEFINE F == Fields({"epoch"}, maybe(number))
    <2>1. Into(EpochRule, F)
      BY GotSuits, GotSuitsBlocks, TakesOf, IntoGot DEF EpochRule
    <2> QED
      BY <2>1, IntoWider DEF BlockInfo
  <1>4. Into(PreviousRule, BlockInfo) /\ Into(ProducerRule, BlockInfo)
          /\ Into(ReceiverRule, BlockInfo) /\ Into(DateRules, BlockInfo)
          /\ Into(StagedRule, BlockInfo) /\ Into(CoinbaseRule, BlockInfo)
    <2> DEFINE F == Fields({"previousStateHash", "blockCreator", "coinbaseReceiver", "date",
          "utcDate", "snarkedLedgerHash", "stagedLedgerHash", "coinbase"}, maybe(string))
    <2>1. Into(PreviousRule, F)
      BY GotSuits, GotSuitsBlocks, TakesOf, IntoGot DEF PreviousRule
    <2>2. Into(ProducerRule, F)
      BY GotSuits, GotSuitsBlocks, TakesOf, IntoGot DEF ProducerRule
    <2>3. Into(ReceiverRule, F)
      BY GotSuits, GotSuitsBlocks, TakesOf, IntoGot DEF ReceiverRule
    <2>4. Into(DateRules, F)
      BY GotSuits, GotSuitsBlocks, TakesOf, IntoGot DEF DateRules
    <2>5. Into(StagedRule, F)
      BY GotSuits, GotSuitsBlocks, TakesOf, IntoGot DEF StagedRule
    <2>6. Into(CoinbaseRule, F)
      BY GotSuits, GotSuitsBlocks, TakesOf, IntoGot DEF CoinbaseRule
    <2> QED
      BY <2>1, <2>2, <2>3, <2>4, <2>5, <2>6, IntoWider DEF BlockInfo
  <1>5. Into(PaidRule, BlockInfo)
    <2> DEFINE F == Fields({"coinbaseReceiverAccount"}, maybe(orNull(string)))
    <2>1. Into(PaidRule, F)
      BY GotSuits, GotSuitsBlocks, TakesOf, IntoGot DEF PaidRule
    <2> QED
      BY <2>1, IntoWider DEF BlockInfo
  <1>6. Into(StakingRules, BlockInfo)
    <2>1. Into(StakingRules, Nested(<<"stakingEpochData">>, maybe(object), StakingEpochData))
      BY GotSuits, TypedStaking, TakesOf, HostsOf, IntoGot DEF StakingRules
    <2> QED
      BY <2>1, IntoWider DEF BlockInfo
  <1>7. Into(NextRules, BlockInfo)
    <2>1. Into(NextRules, Nested(<<"nextEpochData">>, maybe(object), NextEpochData))
      BY GotSuits, TypedNext, TakesOf, HostsOf, IntoGot DEF NextRules
    <2> QED
      BY <2>1, IntoWider DEF BlockInfo
  <1>8. Into(TransferRules, BlockInfo)
    <2>1. Into(TransferRules, Nested(<<"feeTransfers">>, maybe(list), FeeTransfer))
      BY GotSuits, TypedFee, GotSuitsBlocks, TakesOf, HostsOf, IntoGot DEF TransferRules
    <2> QED
      BY <2>1, IntoWider DEF BlockInfo
  <1>9. Into(CommandRules, BlockInfo)
    <2>1. Into(CommandRules, Nested(<<"userCommands">>, maybe(list), BlockTransaction))
      BY GotSuits, TypedUserCommands, GotSuitsBlocks, TakesOf, HostsOf, IntoGot DEF CommandRules
    <2> QED
      BY <2>1, IntoWider DEF BlockInfo
  <1>10. Into(ZkappRules, BlockInfo)
    <2>1. Into(ZkappRules, Nested(<<"zkappCommands">>, maybe(list), BlockZkappCommand))
      BY GotSuits, TypedZkapps, TakesOf, HostsOf, IntoGot DEF ZkappRules
    <2> QED
      BY <2>1, IntoWider DEF BlockInfo
  <1>11. Into(JobRules, BlockInfo)
    <2>1. Into(JobRules, Nested(<<"snarkJobs">>, maybe(list), CompletedWork))
      BY GotSuits, TypedWork, TakesOf, HostsOf, IntoGot DEF JobRules
    <2> QED
      BY <2>1, IntoWider DEF BlockInfo
  <1>12. Into(Got!epochData, BlockInfo)
    BY <1>6, <1>7, BlockIs, IntoBoth
  <1> QED
    BY <1>1, <1>2, <1>3, <1>4, <1>5, <1>6, <1>7, <1>8, <1>9, <1>10, <1>11, <1>12, IntoBlock
       DEF Got!parseBlockInfo

\* Each field that a BlockInfo must have is made by a rule.
LEMMA OntoBlockInfo == Onto(Got!parseBlockInfo, BlockInfo)
  <1> DEFINE B == Got!blockInfo(Got!epochData)
  <1>1. Onto(B, Fields({"stateHash", "creatorPublicKey"}, string))
    <2>1. Onto(B, Fields({"stateHash"}, string))
      <3>1. Onto(StateHashRule, Fields({"stateHash"}, string))
        BY GotSuits, FillsOf, OntoGot DEF StateHashRule
      <3> QED
        BY <3>1, BlockReached DEF Reaches
    <2>2. Onto(B, Fields({"creatorPublicKey"}, string))
      <3>1. Onto(CreatorRule, Fields({"creatorPublicKey"}, string))
        BY GotSuits, FillsOf, OntoGot DEF CreatorRule
      <3> QED
        BY <3>1, BlockReached DEF Reaches
    <2>3. Fields({"stateHash", "creatorPublicKey"}, string)
          = Fields({"stateHash"}, string) \union Fields({"creatorPublicKey"}, string)
      BY DEF Fields
    <2>4. Onto(B, Fields({"stateHash"}, string) \union Fields({"creatorPublicKey"}, string))
      BY <2>1, <2>2, OntoBoth
    <2> QED
      BY <2>3, <2>4
  <1>2. Onto(B, Fields({"height", "globalSlotSinceHardFork", "globalSlotSinceGenesis",
          "commandTransactionCount"}, number))
    <2>1. Onto(B, Fields({"height"}, number))
      <3>1. Onto(HeightRule, Fields({"height"}, number))
        BY GotSuits, FillsOf, OntoGot DEF HeightRule
      <3> QED
        BY <3>1, BlockReached DEF Reaches
    <2>2. Onto(B, Fields({"globalSlotSinceHardFork"}, number))
      <3>1. Onto(SlotRule, Fields({"globalSlotSinceHardFork"}, number))
        BY GotSuits, FillsOf, OntoGot DEF SlotRule
      <3> QED
        BY <3>1, BlockReached DEF Reaches
    <2>3. Onto(B, Fields({"globalSlotSinceGenesis"}, number))
      <3>1. Onto(GenesisSlotRule, Fields({"globalSlotSinceGenesis"}, number))
        BY GotSuits, FillsOf, OntoGot DEF GenesisSlotRule
      <3> QED
        BY <3>1, BlockReached DEF Reaches
    <2>4. Onto(B, Fields({"commandTransactionCount"}, number))
      <3>1. Onto(CountRule, Fields({"commandTransactionCount"}, number))
        BY GotSuits, FillsOf, OntoGot DEF CountRule
      <3> QED
        BY <3>1, BlockReached DEF Reaches
    <2>5. Fields({"height", "globalSlotSinceHardFork", "globalSlotSinceGenesis",
            "commandTransactionCount"}, number)
          = Fields({"height"}, number) \union Fields({"globalSlotSinceHardFork"}, number)
              \union Fields({"globalSlotSinceGenesis"}, number)
              \union Fields({"commandTransactionCount"}, number)
      BY DEF Fields
    <2>6. Onto(B, Fields({"height"}, number) \union Fields({"globalSlotSinceHardFork"}, number)
            \union Fields({"globalSlotSinceGenesis"}, number)
            \union Fields({"commandTransactionCount"}, number))
      BY <2>1, <2>2, <2>3, <2>4, OntoBoth
    <2> QED
      BY <2>5, <2>6
  <1>3. Onto(B, Fields({"epoch"}, maybe(number)))
    BY OntoGot
  <1>4. Onto(B, Fields({"previousStateHash", "blockCreator", "coinbaseReceiver", "date",
          "utcDate", "snarkedLedgerHash", "stagedLedgerHash", "coinbase"}, maybe(string)))
    BY OntoGot
  <1>5. Onto(B, Fields({"coinbaseReceiverAccount"}, maybe(orNull(string))))
    BY OntoGot
  <1>6. Reaches(StakingRules, B) /\ Reaches(NextRules, B)
    <2>1. Reaches(StakingRules, Got!epochData) /\ Reaches(NextRules, Got!epochData)
      BY BlockIs, ReachesGot
    <2>2. Reaches(Got!epochData, B)
      BY BlockReached
    <2> QED
      BY <2>1, <2>2, ReachesOn
  <1>7. Onto(B, Nested(<<"stakingEpochData">>, maybe(object), StakingEpochData))
    <2>1. Onto(StakingRules, Nested(<<"stakingEpochData">>, maybe(object), StakingEpochData))
      BY GotSuits, TypedStaking, FillsOf, OntoGot DEF StakingRules
    <2> QED
      BY <2>1, <1>6 DEF Reaches
  <1>8. Onto(B, Nested(<<"nextEpochData">>, maybe(object), NextEpochData))
    <2>1. Onto(NextRules, Nested(<<"nextEpochData">>, maybe(object), NextEpochData))
      BY GotSuits, TypedNext, FillsOf, OntoGot DEF NextRules
    <2> QED
      BY <2>1, <1>6 DEF Reaches
  <1>9. Onto(B, Nested(<<"feeTransfers">>, maybe(list), FeeTransfer))
    <2>1. Onto(TransferRules, Nested(<<"feeTransfers">>, maybe(list), FeeTransfer))
      BY GotSuits, TypedFee, GotSuitsBlocks, FillsOf, OntoGot DEF TransferRules
    <2> QED
      BY <2>1, BlockReached DEF Reaches
  <1>10. Onto(B, Nested(<<"userCommands">>, maybe(list), BlockTransaction))
    <2>1. Onto(CommandRules, Nested(<<"userCommands">>, maybe(list), BlockTransaction))
      BY GotSuits, TypedUserCommands, GotSuitsBlocks, FillsOf, OntoGot DEF CommandRules
    <2> QED
      BY <2>1, BlockReached DEF Reaches
  <1>11. Onto(B, Nested(<<"zkappCommands">>, maybe(list), BlockZkappCommand))
    <2>1. Onto(ZkappRules, Nested(<<"zkappCommands">>, maybe(list), BlockZkappCommand))
      BY GotSuits, TypedZkapps, FillsOf, OntoGot DEF ZkappRules
    <2> QED
      BY <2>1, BlockReached DEF Reaches
  <1>12. Onto(B, Nested(<<"snarkJobs">>, maybe(list), CompletedWork))
    <2>1. Onto(JobRules, Nested(<<"snarkJobs">>, maybe(list), CompletedWork))
      BY GotSuits, TypedWork, FillsOf, OntoGot DEF JobRules
    <2> QED
      BY <2>1, BlockReached DEF Reaches
  <1> HIDE DEF B
  <1>13. Onto(B, BlockInfo)
    BY <1>1, <1>2, <1>3, <1>4, <1>5, <1>7, <1>8, <1>9, <1>10, <1>11, <1>12, OntoBoth DEF BlockInfo
  <1> QED
    BY <1>13 DEF B, Got!parseBlockInfo

\* Each rule of a Block, before the renaming, makes a field of the type.
LEMMA IntoBlockBefore == Into(Got!blockInfo(Got!blockEpochData), BlockBefore)
  <1>1. Into(StateHashRule, BlockBefore) /\ Into(CreatorRule, BlockBefore)
          /\ Into(PreviousRule, BlockBefore) /\ Into(ProducerRule, BlockBefore)
          /\ Into(DateRules, BlockBefore) /\ Into(StagedRule, BlockBefore)
          /\ Into(CoinbaseRule, BlockBefore)
    <2> DEFINE F == Fields({"stateHash", "previousStateHash", "creatorPublicKey", "blockCreator",
          "date", "utcDate", "snarkedLedgerHash", "stagedLedgerHash", "coinbase"}, string)
    <2>1. Into(StateHashRule, F)
      BY GotSuits, GotSuitsBlocks, TakesOf, IntoGot DEF StateHashRule
    <2>2. Into(CreatorRule, F)
      BY GotSuits, GotSuitsBlocks, TakesOf, IntoGot DEF CreatorRule
    <2>3. Into(PreviousRule, F)
      BY GotSuits, GotSuitsBlocks, TakesOf, IntoGot DEF PreviousRule
    <2>4. Into(ProducerRule, F)
      BY GotSuits, GotSuitsBlocks, TakesOf, IntoGot DEF ProducerRule
    <2>5. Into(DateRules, F)
      BY GotSuits, GotSuitsBlocks, TakesOf, IntoGot DEF DateRules
    <2>6. Into(StagedRule, F)
      BY GotSuits, GotSuitsBlocks, TakesOf, IntoGot DEF StagedRule
    <2>7. Into(CoinbaseRule, F)
      BY GotSuits, GotSuitsBlocks, TakesOf, IntoGot DEF CoinbaseRule
    <2> QED
      BY <2>1, <2>2, <2>3, <2>4, <2>5, <2>6, <2>7, IntoWider DEF BlockBefore
  <1>2. Into(CountRule, BlockBefore) /\ Into(HeightRule, BlockBefore)
          /\ Into(SlotRule, BlockBefore) /\ Into(GenesisSlotRule, BlockBefore)
          /\ Into(EpochRule, BlockBefore)
    <2> DEFINE F == Fields({"commandTransactionCount", "height", "epoch",
          "globalSlotSinceHardFork", "globalSlotSinceGenesis"}, number)
    <2>1. Into(CountRule, F)
      BY GotSuits, GotSuitsBlocks, TakesOf, IntoGot DEF CountRule
    <2>2. Into(HeightRule, F)
      BY GotSuits, GotSuitsBlocks, TakesOf, IntoGot DEF HeightRule
    <2>3. Into(SlotRule, F)
      BY GotSuits, GotSuitsBlocks, TakesOf, IntoGot DEF SlotRule
    <2>4. Into(GenesisSlotRule, F)
      BY GotSuits, GotSuitsBlocks, TakesOf, IntoGot DEF GenesisSlotRule
    <2>5. Into(EpochRule, F)
      BY GotSuits, GotSuitsBlocks, TakesOf, IntoGot DEF EpochRule
    <2> QED
      BY <2>1, <2>2, <2>3, <2>4, <2>5, IntoWider DEF BlockBefore
  <1>3. Into(ReceiverRule, BlockBefore)
    <2> DEFINE F == Fields({"coinbaseReceiver"}, maybe(string))
    <2>1. Into(ReceiverRule, F)
      BY GotSuits, GotSuitsBlocks, TakesOf, IntoGot DEF ReceiverRule
    <2> QED
      BY <2>1, IntoWider DEF BlockBefore
  <1>4. Into(PaidRule, BlockBefore)
    <2> DEFINE F == Fields({"coinbaseReceiverAccount"}, orNull(string))
    <2>1. Into(PaidRule, F)
      BY GotSuits, GotSuitsBlocks, TakesOf, IntoGot DEF PaidRule
    <2> QED
      BY <2>1, IntoWider DEF BlockBefore
  <1>5. Into(BlockStakingRules, BlockBefore)
    <2>1. Into(BlockStakingRules, Nested(<<"stakingEpochData">>, object, StakingEpochData))
      BY GotSuits, TypedBlockStaking, TakesOf, HostsOf, IntoGot DEF BlockStakingRules
    <2> QED
      BY <2>1, IntoWider DEF BlockBefore
  <1>6. Into(BlockNextRules, BlockBefore)
    <2>1. Into(BlockNextRules, Nested(<<"nextEpochData">>, object, NextEpochData))
      BY GotSuits, TypedBlockNext, TakesOf, HostsOf, IntoGot DEF BlockNextRules
    <2> QED
      BY <2>1, IntoWider DEF BlockBefore
  <1>7. Into(TransferRules, BlockBefore)
    <2>1. Into(TransferRules, Nested(<<"feeTransfers">>, list, FeeTransfer))
      BY GotSuits, TypedFee, GotSuitsBlocks, TakesOf, HostsOf, IntoGot DEF TransferRules
    <2> QED
      BY <2>1, IntoWider DEF BlockBefore
  <1>8. Into(CommandRules, BlockBefore)
    <2>1. Into(CommandRules, Nested(<<"userCommands">>, list, BlockTransaction))
      BY GotSuits, TypedUserCommands, GotSuitsBlocks, TakesOf, HostsOf, IntoGot DEF CommandRules
    <2> QED
      BY <2>1, IntoWider DEF BlockBefore
  <1>9. Into(ZkappRules, BlockBefore)
    <2>1. Into(ZkappRules, Nested(<<"zkappCommands">>, maybe(list), BlockZkappCommand))
      BY GotSuits, TypedZkapps, TakesOf, HostsOf, IntoGot DEF ZkappRules
    <2> QED
      BY <2>1, IntoWider DEF BlockBefore
  <1>10. Into(JobRules, BlockBefore)
    <2>1. Into(JobRules, Nested(<<"snarkJobs">>, maybe(list), CompletedWork))
      BY GotSuits, TypedWork, TakesOf, HostsOf, IntoGot DEF JobRules
    <2> QED
      BY <2>1, IntoWider DEF BlockBefore
  <1>11. Into(Got!blockEpochData, BlockBefore)
    BY <1>5, <1>6, BlockIs, IntoBoth
  <1> QED
    BY <1>1, <1>2, <1>3, <1>4, <1>5, <1>6, <1>7, <1>8, <1>9, <1>10, <1>11, IntoBlock

\* Each field that a Block, before the renaming, must have is made by a rule.
LEMMA OntoBlockBefore == Onto(Got!blockInfo(Got!blockEpochData), BlockBefore)
  <1> DEFINE B == Got!blockInfo(Got!blockEpochData)
  <1>1. Onto(B, Fields({"stateHash", "previousStateHash", "creatorPublicKey", "blockCreator",
          "date", "utcDate", "snarkedLedgerHash", "stagedLedgerHash", "coinbase"}, string))
    <2>1. Onto(B, Fields({"stateHash"}, string))
      <3>1. Onto(StateHashRule, Fields({"stateHash"}, string))
        BY GotSuits, FillsOf, OntoGot DEF StateHashRule
      <3> QED
        BY <3>1, BlockReached DEF Reaches
    <2>2. Onto(B, Fields({"previousStateHash"}, string))
      <3>1. Onto(PreviousRule, Fields({"previousStateHash"}, string))
        BY GotSuits, FillsOf, OntoGot DEF PreviousRule
      <3> QED
        BY <3>1, BlockReached DEF Reaches
    <2>3. Onto(B, Fields({"creatorPublicKey"}, string))
      <3>1. Onto(CreatorRule, Fields({"creatorPublicKey"}, string))
        BY GotSuits, FillsOf, OntoGot DEF CreatorRule
      <3> QED
        BY <3>1, BlockReached DEF Reaches
    <2>4. Onto(B, Fields({"blockCreator"}, string))
      <3>1. Onto(ProducerRule, Fields({"blockCreator"}, string))
        BY GotSuits, FillsOf, OntoGot DEF ProducerRule
      <3> QED
        BY <3>1, BlockReached DEF Reaches
    <2>5. Onto(B, Fields({"date", "utcDate", "snarkedLedgerHash"}, string))
      <3>1. Onto(DateRules, Fields({"date", "utcDate", "snarkedLedgerHash"}, string))
        BY GotSuits, FillsOf, OntoGot DEF DateRules
      <3> QED
        BY <3>1, BlockReached DEF Reaches
    <2>6. Onto(B, Fields({"stagedLedgerHash"}, string))
      <3>1. Onto(StagedRule, Fields({"stagedLedgerHash"}, string))
        BY GotSuits, FillsOf, OntoGot DEF StagedRule
      <3> QED
        BY <3>1, BlockReached DEF Reaches
    <2>7. Onto(B, Fields({"coinbase"}, string))
      <3>1. Onto(CoinbaseRule, Fields({"coinbase"}, string))
        BY GotSuits, FillsOf, OntoGot DEF CoinbaseRule
      <3> QED
        BY <3>1, BlockReached DEF Reaches
    <2>8. Fields({"stateHash", "previousStateHash", "creatorPublicKey", "blockCreator", "date",
            "utcDate", "snarkedLedgerHash", "stagedLedgerHash", "coinbase"}, string)
          = Fields({"stateHash"}, string) \union Fields({"previousStateHash"}, string)
              \union Fields({"creatorPublicKey"}, string) \union Fields({"blockCreator"}, string)
              \union Fields({"date", "utcDate", "snarkedLedgerHash"}, string)
              \union Fields({"stagedLedgerHash"}, string) \union Fields({"coinbase"}, string)
      BY DEF Fields
    <2>9. Onto(B, Fields({"stateHash"}, string) \union Fields({"previousStateHash"}, string)
            \union Fields({"creatorPublicKey"}, string) \union Fields({"blockCreator"}, string)
            \union Fields({"date", "utcDate", "snarkedLedgerHash"}, string)
            \union Fields({"stagedLedgerHash"}, string) \union Fields({"coinbase"}, string))
      BY <2>1, <2>2, <2>3, <2>4, <2>5, <2>6, <2>7, OntoBoth
    <2> QED
      BY <2>8, <2>9
  <1>2. Onto(B, Fields({"commandTransactionCount", "height", "epoch", "globalSlotSinceHardFork",
          "globalSlotSinceGenesis"}, number))
    <2>1. Onto(B, Fields({"commandTransactionCount"}, number))
      <3>1. Onto(CountRule, Fields({"commandTransactionCount"}, number))
        BY GotSuits, FillsOf, OntoGot DEF CountRule
      <3> QED
        BY <3>1, BlockReached DEF Reaches
    <2>2. Onto(B, Fields({"height"}, number))
      <3>1. Onto(HeightRule, Fields({"height"}, number))
        BY GotSuits, FillsOf, OntoGot DEF HeightRule
      <3> QED
        BY <3>1, BlockReached DEF Reaches
    <2>3. Onto(B, Fields({"epoch"}, number))
      <3>1. Onto(EpochRule, Fields({"epoch"}, number))
        BY GotSuits, FillsOf, OntoGot DEF EpochRule
      <3> QED
        BY <3>1, BlockReached DEF Reaches
    <2>4. Onto(B, Fields({"globalSlotSinceHardFork"}, number))
      <3>1. Onto(SlotRule, Fields({"globalSlotSinceHardFork"}, number))
        BY GotSuits, FillsOf, OntoGot DEF SlotRule
      <3> QED
        BY <3>1, BlockReached DEF Reaches
    <2>5. Onto(B, Fields({"globalSlotSinceGenesis"}, number))
      <3>1. Onto(GenesisSlotRule, Fields({"globalSlotSinceGenesis"}, number))
        BY GotSuits, FillsOf, OntoGot DEF GenesisSlotRule
      <3> QED
        BY <3>1, BlockReached DEF Reaches
    <2>6. Fields({"commandTransactionCount", "height", "epoch", "globalSlotSinceHardFork",
            "globalSlotSinceGenesis"}, number)
          = Fields({"commandTransactionCount"}, number) \union Fields({"height"}, number)
              \union Fields({"epoch"}, number) \union Fields({"globalSlotSinceHardFork"}, number)
              \union Fields({"globalSlotSinceGenesis"}, number)
      BY DEF Fields
    <2>7. Onto(B, Fields({"commandTransactionCount"}, number) \union Fields({"height"}, number)
            \union Fields({"epoch"}, number) \union Fields({"globalSlotSinceHardFork"}, number)
            \union Fields({"globalSlotSinceGenesis"}, number))
      BY <2>1, <2>2, <2>3, <2>4, <2>5, OntoBoth
    <2> QED
      BY <2>6, <2>7
  <1>3. Onto(B, Fields({"coinbaseReceiver"}, maybe(string)))
    BY OntoGot
  <1>4. Onto(B, Fields({"coinbaseReceiverAccount"}, orNull(string)))
    <2>1. Onto(PaidRule, Fields({"coinbaseReceiverAccount"}, orNull(string)))
      BY GotSuits, FillsOf, OntoGot DEF PaidRule
    <2> QED
      BY <2>1, BlockReached DEF Reaches
  <1>5. Reaches(BlockStakingRules, B) /\ Reaches(BlockNextRules, B)
    <2>1. Reaches(BlockStakingRules, Got!blockEpochData)
            /\ Reaches(BlockNextRules, Got!blockEpochData)
      BY BlockIs, ReachesGot
    <2>2. Reaches(Got!blockEpochData, B)
      BY BlockReached
    <2> QED
      BY <2>1, <2>2, ReachesOn
  <1>6. Onto(B, Nested(<<"stakingEpochData">>, object, StakingEpochData))
    <2>1. Onto(BlockStakingRules, Nested(<<"stakingEpochData">>, object, StakingEpochData))
      BY GotSuits, TypedBlockStaking, FillsOf, OntoGot DEF BlockStakingRules
    <2> QED
      BY <2>1, <1>5 DEF Reaches
  <1>7. Onto(B, Nested(<<"nextEpochData">>, object, NextEpochData))
    <2>1. Onto(BlockNextRules, Nested(<<"nextEpochData">>, object, NextEpochData))
      BY GotSuits, TypedBlockNext, FillsOf, OntoGot DEF BlockNextRules
    <2> QED
      BY <2>1, <1>5 DEF Reaches
  <1>8. Onto(B, Nested(<<"feeTransfers">>, list, FeeTransfer))
    <2>1. Onto(TransferRules, Nested(<<"feeTransfers">>, list, FeeTransfer))
      BY GotSuits, TypedFee, GotSuitsBlocks, FillsOf, OntoGot DEF TransferRules
    <2> QED
      BY <2>1, BlockReached DEF Reaches
  <1>9. Onto(B, Nested(<<"userCommands">>, list, BlockTransaction))
    <2>1. Onto(CommandRules, Nested(<<"userCommands">>, list, BlockTransaction))
      BY GotSuits, TypedUserCommands, GotSuitsBlocks, FillsOf, OntoGot DEF CommandRules
    <2> QED
      BY <2>1, BlockReached DEF Reaches
  <1>10. Onto(B, Nested(<<"zkappCommands">>, maybe(list), BlockZkappCommand))
    <2>1. Onto(ZkappRules, Nested(<<"zkappCommands">>, maybe(list), BlockZkappCommand))
      BY GotSuits, TypedZkapps, FillsOf, OntoGot DEF ZkappRules
    <2> QED
      BY <2>1, BlockReached DEF Reaches
  <1>11. Onto(B, Nested(<<"snarkJobs">>, maybe(list), CompletedWork))
    <2>1. Onto(JobRules, Nested(<<"snarkJobs">>, maybe(list), CompletedWork))
      BY GotSuits, TypedWork, FillsOf, OntoGot DEF JobRules
    <2> QED
      BY <2>1, BlockReached DEF Reaches
  <1> HIDE DEF B
  <1>12. Onto(B, BlockBefore)
    BY <1>1, <1>2, <1>3, <1>4, <1>6, <1>7, <1>8, <1>9, <1>10, <1>11, OntoBoth DEF BlockBefore
  <1> QED
    BY <1>12 DEF B

-----------------------------------------------------------------------------
\* A Block: the same under other names.

Copied(R) == {Got!inBlock(r) : r \in R}
AgainAll(T) == {[path |-> Again(t.path), type |-> t.type] : t \in T}
Rooted(T) == \A t \in T : t.path # <<>>

\* What renaming does with a rule.
LEMMA CopyIs ==
  ASSUME NEW R, Fit(R), NEW r \in R
  PROVE  /\ Path(r.to) /\ r.to # <<>>
         /\ Got!inBlock(r).to = Again(r.to) /\ Got!inBlock(r).wire = r.wire
         /\ Got!inBlock(r).how = r.how
  <1> DEFINE s == Got!inBlock(r)
  <1>1. r = [from |-> r.from, to |-> r.to, wire |-> r.wire, how |-> r.how]
    BY DEF Fit, Tree
  <1>2. s = [r EXCEPT !.to = Again(r.to)]
    BY DEF Got!inBlock, Again
  <1> HIDE DEF s
  <1>3. s.to = Again(r.to) /\ s.wire = r.wire /\ s.how = r.how
    BY <1>1, <1>2
  <1> QED
    BY <1>3 DEF Fit, Tree, s

\* A renamed rule makes a renamed field.
LEMMA TypedAgain ==
  ASSUME NEW R, Fit(R), NEW r \in R, NEW t, Typed(r, t)
  PROVE  Typed(Got!inBlock(r), [path |-> Again(t.path), type |-> t.type])
  <1> DEFINE s == Got!inBlock(r)
             p == Again(t.path)
             u == [path |-> p, type |-> t.type]
  <1>1. Path(p) /\ s.to = p /\ s.wire = r.wire /\ s.how = r.how
    BY CopyIs, AgainIs DEF Typed
  <1> HIDE DEF s, p
  <1>2. u.path = p /\ u.type = t.type /\ u = [path |-> u.path, type |-> u.type]
    OBVIOUS
  <1> HIDE DEF u
  <1>3. Typed(s, u)
    BY <1>1, <1>2 DEF Typed
  <1> QED
    BY <1>3 DEF s, p, u

\* A renamed table makes fields of the renamed type.
LEMMA IntoAgain ==
  ASSUME NEW R, Fit(R), NEW T, Into(R, T)
  PROVE  Into(Copied(R), AgainAll(T))
  BY TypedAgain DEF Into, Copied, AgainAll

\* And all that the renamed type demands.
LEMMA OntoAgain ==
  ASSUME NEW R, Fit(R), NEW T, Onto(R, T), Rooted(T)
  PROVE  Onto(Copied(R), AgainAll(T))
  <1> SUFFICES ASSUME NEW t \in T
               PROVE  LET u == [path |-> Again(t.path), type |-> t.type]
                      IN /\ Path(u.path) /\ u = [path |-> u.path, type |-> u.type]
                         /\ "absent" \in u.type \/ \E s \in Copied(R) : Typed(s, u)
    BY DEF Onto, AgainAll
  <1> DEFINE p == Again(t.path)
             u == [path |-> p, type |-> t.type]
  <1>1. Path(p)
    BY AgainIs DEF Onto, Rooted
  <1>2. ASSUME NEW r \in R, Typed(r, t)
        PROVE  \E s \in Copied(R) : Typed(s, u)
    BY <1>2, TypedAgain DEF Copied
  <1> HIDE DEF p
  <1>3. u.path = p /\ u.type = t.type /\ u = [path |-> u.path, type |-> u.type]
    OBVIOUS
  <1> HIDE DEF u
  <1>4. Path(u.path) /\ ("absent" \in u.type \/ \E s \in Copied(R) : Typed(s, u))
    BY <1>1, <1>2, <1>3 DEF Onto
  <1> QED
    BY <1>3, <1>4 DEF u, p

\* Only the first name of a path changes.
LEMMA AgainSingle == \A n : Again(<<n>>) = <<Renamed(n)>>
  <1> SUFFICES ASSUME NEW n PROVE Again(<<n>>) = <<Renamed(n)>>
    OBVIOUS
  <1> DEFINE p == <<n>>
             q == <<Renamed(n)>>
  <1>1. /\ Path(p) /\ Path(q) /\ p # <<>> /\ Len(p) = 1 /\ Len(q) = 1 /\ First(p) = n
        /\ q[1] = Renamed(n)
    BY One, Paths
  <1> HIDE DEF p, q
  <1>2. Path(Again(p)) /\ Len(Again(p)) = 1 /\ First(Again(p)) = q[1]
    BY <1>1, AgainIs
  <1>3. \A i \in 1..Len(Again(p)) : Again(p)[i] = q[i]
    BY <1>2 DEF First
  <1>4. Again(p) = q
    BY ONLY <1>1, <1>2, <1>3, SamePath
  <1> QED
    BY <1>4 DEF p, q

\* Fields of one type, renamed.
LEMMA AgainFields ==
  ASSUME NEW M, NEW V
  PROVE  AgainAll(Fields(M, V)) = Fields({Renamed(n) : n \in M}, V) /\ Rooted(Fields(M, V))
  <1> DEFINE p(n) == <<n>>
             f(n) == [path |-> p(n), type |-> V]
             g(n) == [path |-> p(Renamed(n)), type |-> V]
  <1>1. \A n : p(n) # <<>> /\ Again(p(n)) = p(Renamed(n))
    BY AgainSingle, Paths
  <1>2. /\ Fields(M, V) = {f(n) : n \in M}
        /\ Fields({Renamed(n) : n \in M}, V) = {f(m) : m \in {Renamed(n) : n \in M}}
    BY FieldsAre
  <1> HIDE DEF p
  <1>3. \A n : /\ f(n).path # <<>> /\ f(Renamed(n)) = g(n)
               /\ [path |-> Again(f(n).path), type |-> f(n).type] = g(n)
    BY <1>1
  <1> HIDE DEF f, g
  <1>4. AgainAll(Fields(M, V)) \subseteq Fields({Renamed(n) : n \in M}, V)
    <2> SUFFICES ASSUME NEW t \in Fields(M, V)
                 PROVE  [path |-> Again(t.path), type |-> t.type]
                          \in Fields({Renamed(n) : n \in M}, V)
      BY DEF AgainAll
    <2>1. PICK n \in M : t = f(n)
      BY <1>2
    <2>2. [path |-> Again(t.path), type |-> t.type] = f(Renamed(n))
      BY <2>1, <1>3
    <2> QED
      BY <1>2, <2>2
  <1>5. ASSUME NEW t \in Fields({Renamed(n) : n \in M}, V)
        PROVE  t \in AgainAll(Fields(M, V))
    <2>1. PICK n \in M : t = f(Renamed(n))
      BY <1>2
    <2>2. t = [path |-> Again(f(n).path), type |-> f(n).type] /\ f(n) \in Fields(M, V)
      BY <2>1, <1>2, <1>3
    <2> QED
      BY <2>2 DEF AgainAll
  <1> QED
    BY <1>2, <1>3, <1>4, <1>5 DEF Rooted

\* A field that has others beneath it keeps its name.
LEMMA AgainNested ==
  ASSUME NEW n, n \notin DOMAIN Got!blockNames, NEW V, NEW F, NEW Q, Onto(Q, F)
  PROVE  AgainAll(Nested(<<n>>, V, F)) = Nested(<<n>>, V, F) /\ Rooted(Nested(<<n>>, V, F))
  <1> DEFINE a == <<n>>
             T == Nested(a, V, F)
  <1>1. Path(a) /\ a # <<>> /\ First(a) = n
    BY Paths
  <1>2. T = {[path |-> a, type |-> V]} \union Beneath(a, F)
    BY FieldsAre
  <1> HIDE DEF a
  <1>3. ASSUME NEW t \in T
        PROVE  /\ t.path # <<>> /\ First(t.path) = n /\ t = [path |-> t.path, type |-> t.type]
    <2>1. CASE t = [path |-> a, type |-> V]
      BY <1>1, <2>1
    <2>2. CASE t \in Beneath(a, F)
      <3>1. PICK f \in F : t = [path |-> Join(a, f.path), type |-> f.type]
        BY <2>2, BeneathIs DEF Onto
      <3>2. Path(f.path)
        BY DEF Onto
      <3>3. Join(a, f.path) # <<>> /\ First(Join(a, f.path)) = n
        BY <1>1, <3>2, Joins
      <3> DEFINE x == Join(a, f.path)
      <3> HIDE DEF x
      <3>4. t.path = x /\ t = [path |-> t.path, type |-> t.type]
        BY <3>1 DEF x
      <3> QED
        BY <3>3, <3>4 DEF x
    <2> QED
      BY <1>2, <2>1, <2>2
  <1> HIDE DEF T
  <1>4. \A t \in T : [path |-> Again(t.path), type |-> t.type] = t
    BY <1>3 DEF Again, First
  <1>5. AgainAll(T) = T
    BY <1>4 DEF AgainAll
  <1> QED
    BY <1>3, <1>5 DEF Rooted, T, a

\* Renaming the fields of one type gives another.
Renames(S, T) == AgainAll(S) = T /\ Rooted(S)

\* Two types, renamed.
LEMMA RenamesBoth ==
  \A S, T, U, V : Renames(S, T) /\ Renames(U, V) => Renames(S \union U, T \union V)
  <1>1. \A S, T : AgainAll(S \union T) = AgainAll(S) \union AgainAll(T)
    BY DEF AgainAll
  <1> QED
    BY <1>1 DEF Rooted, Renames

\* The fields of a Block.
BlockNow ==
  Fields({"stateHash", "previousStateHash", "creatorPublicKey", "blockCreator", "date",
          "utcDate", "snarkedLedgerHash", "stagedLedgerHash", "coinbase"}, string)
  \union Fields({"commandTransactionCount", "blockHeight", "epoch", "slot", "slotSinceGenesis"},
                number)
  \union Fields({"coinbaseReceiverConsensus"}, maybe(string))
  \union Fields({"coinbaseReceiver"}, orNull(string))
  \union Nested(<<"feeTransfers">>, list, FeeTransfer)
  \union Nested(<<"userCommands">>, list, BlockTransaction)
  \union Nested(<<"zkappCommands">>, maybe(list), BlockZkappCommand)
  \union Nested(<<"snarkJobs">>, maybe(list), CompletedWork)
  \union Nested(<<"stakingEpochData">>, object, StakingEpochData)
  \union Nested(<<"nextEpochData">>, object, NextEpochData)

\* A Block is there, or the call throws.
LEMMA BlockNowIs == Block = Just({"{}", "throws"}) \union BlockNow
  BY DEF Block, BlockNow

\* The type, before its fields are renamed and after.
LEMMA BlockAgain == Renames(BlockBefore, BlockNow)
  <1> DEFINE N1 == {"stateHash", "previousStateHash", "creatorPublicKey", "blockCreator", "date",
                    "utcDate", "snarkedLedgerHash", "stagedLedgerHash", "coinbase"}
             N2 == {"commandTransactionCount", "height", "epoch", "globalSlotSinceHardFork",
                    "globalSlotSinceGenesis"}
             M2 == {"commandTransactionCount", "blockHeight", "epoch", "slot", "slotSinceGenesis"}
  <1>1. \A n \in N1 : Renamed(n) = n
    BY DEF Renamed, Got!blockNames
  <1>2. /\ Renamed("commandTransactionCount") = "commandTransactionCount"
        /\ Renamed("height") = "blockHeight" /\ Renamed("epoch") = "epoch"
        /\ Renamed("globalSlotSinceHardFork") = "slot"
        /\ Renamed("globalSlotSinceGenesis") = "slotSinceGenesis"
        /\ Renamed("coinbaseReceiver") = "coinbaseReceiverConsensus"
        /\ Renamed("coinbaseReceiverAccount") = "coinbaseReceiver"
    BY DEF Renamed, Got!blockNames
  <1>3. {Renamed(n) : n \in N1} = N1
    <2> HIDE DEF N1
    <2> QED
      BY <1>1
  <1>4. {Renamed(n) : n \in N2} = M2
    BY <1>2
  <1>5. /\ {Renamed(n) : n \in {"coinbaseReceiver"}} = {"coinbaseReceiverConsensus"}
        /\ {Renamed(n) : n \in {"coinbaseReceiverAccount"}} = {"coinbaseReceiver"}
    BY <1>2
  <1>6. \A n \in {"feeTransfers", "userCommands", "zkappCommands", "snarkJobs",
                  "stakingEpochData", "nextEpochData"} : n \notin DOMAIN Got!blockNames
    BY DEF Got!blockNames
  <1>7. /\ Onto(FeeTable, FeeTransfer) /\ Onto(Got!userCommands, BlockTransaction)
        /\ Onto(Got!zkappCommands, BlockZkappCommand) /\ Onto(Got!snarkWork, CompletedWork)
        /\ Onto(BlockStakingTable, StakingEpochData) /\ Onto(BlockNextTable, NextEpochData)
    BY TypedFee, TypedUserCommands, TypedZkapps, TypedWork, TypedBlockStaking, TypedBlockNext
  <1> DEFINE A1 == Fields(N1, string)
             A2 == Fields(N2, number)
             B2 == Fields(M2, number)
             A3 == Fields({"coinbaseReceiver"}, maybe(string))
             B3 == Fields({"coinbaseReceiverConsensus"}, maybe(string))
             A4 == Fields({"coinbaseReceiverAccount"}, orNull(string))
             B4 == Fields({"coinbaseReceiver"}, orNull(string))
             C1 == Nested(<<"feeTransfers">>, list, FeeTransfer)
             C2 == Nested(<<"userCommands">>, list, BlockTransaction)
             C3 == Nested(<<"zkappCommands">>, maybe(list), BlockZkappCommand)
             C4 == Nested(<<"snarkJobs">>, maybe(list), CompletedWork)
             C5 == Nested(<<"stakingEpochData">>, object, StakingEpochData)
             C6 == Nested(<<"nextEpochData">>, object, NextEpochData)
  <1>8. Renames(A1, A1) /\ Renames(A2, B2) /\ Renames(A3, B3) /\ Renames(A4, B4)
    BY <1>3, <1>4, <1>5, AgainFields DEF Renames
  <1>9. /\ Renames(C1, C1) /\ Renames(C2, C2) /\ Renames(C3, C3)
        /\ Renames(C4, C4) /\ Renames(C5, C5) /\ Renames(C6, C6)
    BY <1>6, <1>7, AgainNested DEF Renames
  <1>10. /\ BlockBefore = A1 \union A2 \union A3 \union A4 \union C1 \union C2 \union C3
                          \union C4 \union C5 \union C6
         /\ BlockNow = A1 \union B2 \union B3 \union B4 \union C1 \union C2 \union C3
                          \union C4 \union C5 \union C6
    BY DEF BlockBefore, BlockNow
  <1> HIDE DEF A1, A2, B2, A3, B3, A4, B4, C1, C2, C3, C4, C5, C6
  <1>11. /\ BlockBefore = ((A1 \union A2) \union (A3 \union A4))
                          \union (((C1 \union C2) \union C3) \union ((C4 \union C5) \union C6))
         /\ BlockNow = ((A1 \union B2) \union (B3 \union B4))
                       \union (((C1 \union C2) \union C3) \union ((C4 \union C5) \union C6))
    BY <1>10
  <1> DEFINE D1 == (A1 \union A2) \union (A3 \union A4)
             E1 == (A1 \union B2) \union (B3 \union B4)
             D2 == ((C1 \union C2) \union C3) \union ((C4 \union C5) \union C6)
  <1>12. Renames(D1, E1)
    BY <1>8, RenamesBoth
  <1>13. Renames(D2, D2)
    BY <1>9, RenamesBoth
  <1> HIDE DEF D1, D2, E1
  <1> QED
    BY <1>11, <1>12, <1>13, RenamesBoth DEF D1, D2, E1

\* No two fields of a block get the same name.
LEMMA FitBlockBefore == Fit(Got!blockInfo(Got!blockEpochData))
  <1>1. Fits(Got!blockEpochData, EpochNames, EpochNames)
    BY FitsBlockEpoch DEF EpochNames
  <1> QED
    BY <1>1, FitsBlockInfo DEF Fits

\* A block that getBlock finds.
LEMMA TypedBlock == Into(Got!getBlock, Block) /\ Onto(Got!getBlock, Block)
  <1> DEFINE B == Copied(Got!blockInfo(Got!blockEpochData))
  <1>1. Into(B, BlockNow) /\ Onto(B, BlockNow)
    BY FitBlockBefore, BlockAgain, IntoBlockBefore, OntoBlockBefore, IntoAgain, OntoAgain
    DEF Renames
  <1>2. Got!getBlock = Got!Within(<<"block">>, <<>>, Got!Nullable(Got!Object), Got!Required, B)
    BY DEF Got!getBlock, Copied
  <1> HIDE DEF B
  <1>3. TakesIt(Block, Got!Nullable(Got!Object), Got!Required)
    BY GotSuits, TakesOf, BlockNowIs
  <1>4. Into(B, Block)
    BY <1>1, IntoWider, BlockNowIs
  <1>5. Into(Got!getBlock, Block)
    BY <1>2, <1>3, <1>4, IntoGot
  <1>6. Onto(Got!getBlock, BlockNow)
    BY <1>1, <1>2, OntoGot
  <1>7. Onto(Got!getBlock, Just({"{}", "throws"}))
    BY <1>2, GotSuits, FillsOf, OntoGot
  <1> QED
    BY <1>5, <1>6, <1>7, OntoBoth, BlockNowIs

-----------------------------------------------------------------------------
\* What is made of nothing has its field's type, too.

\* A table that makes no object of nothing.
LEMMA HumbleSettles == \A R, T : Humble(R) => Settles(R, T)
  BY DEF Humble, Calm, Excused, Shut, Settles

\* The fields of an epoch's data, and what they are when the daemon has none.
Exposed(p) == Path(p) /\ p # <<>> /\ First(p) \in EpochNames /\ Len(p) # 1
Admits(T) == \A t \in T : Exposed(t.path) => Blank(First(t.path), Last(t.path)) \in t.type

\* Fields that have nothing beneath them.
LEMMA AdmitsFields == \A M, V : Admits(Fields(M, V)) /\ Admits(Just(V))
  <1> DEFINE p(n) == <<n>>
             f(n, V) == [path |-> p(n), type |-> V]
  <1>1. \A M, V : /\ \A t \in Fields(M, V) : \E n \in M : t = f(n, V)
                  /\ \A t \in Just(V) : t.path = <<>>
    BY FieldsAre
  <1>2. \A n : Len(p(n)) = 1
    BY One
  <1> HIDE DEF p
  <1>3. \A n, V : f(n, V).path = p(n)
    OBVIOUS
  <1> HIDE DEF f
  <1> QED
    BY <1>1, <1>2, <1>3 DEF Admits, Exposed

\* The fields of an epoch's data have the types of their blanks.
Blanks(e, F) == \A f \in F : f.path # <<>> /\ Blank(e, Last(f.path)) \in f.type

\* Those that have.
LEMMA AdmitsNested ==
  ASSUME NEW n, NEW V, NEW F, NEW Q, Onto(Q, F),
         n \in EpochNames => Blanks(n, F)
  PROVE  Admits(Nested(<<n>>, V, F))
  <1> DEFINE a == <<n>>
  <1>1. Path(a) /\ a # <<>> /\ First(a) = n /\ Len(a) = 1
    BY Paths, One
  <1>2. Nested(<<n>>, V, F) = {[path |-> a, type |-> V]} \union Beneath(a, F)
    BY FieldsAre
  <1> HIDE DEF a
  <1> SUFFICES ASSUME NEW t \in Nested(<<n>>, V, F), Exposed(t.path)
               PROVE  Blank(First(t.path), Last(t.path)) \in t.type
    BY DEF Admits
  <1>3. t # [path |-> a, type |-> V]
    BY <1>1 DEF Exposed
  <1>4. PICK f \in F : t = [path |-> Join(a, f.path), type |-> f.type]
    BY <1>2, <1>3, BeneathIs DEF Onto
  <1>5. Path(f.path)
    BY DEF Onto
  <1>6. First(Join(a, f.path)) = n
    BY <1>1, <1>5, Joins
  <1>7. t.path = Join(a, f.path) /\ t.type = f.type
    BY <1>4
  <1>8. f.path # <<>> /\ Blank(n, Last(f.path)) \in f.type
    BY <1>6, <1>7 DEF Exposed, Blanks
  <1>9. Last(Join(a, f.path)) = Last(f.path)
    BY <1>1, <1>5, <1>8, LastJoin
  <1> QED
    BY <1>6, <1>7, <1>8, <1>9

\* Two types in one.
LEMMA AdmitsBoth == \A S, T : Admits(S) /\ Admits(T) => Admits(S \union T)
  BY DEF Admits

\* Fields of one type.
LEMMA BlanksFields ==
  ASSUME NEW e, NEW N, NEW V, \A n \in N : Blank(e, n) \in V
  PROVE  Blanks(e, Fields(N, V))
  <1> SUFFICES ASSUME NEW f \in Fields(N, V)
               PROVE  f.path # <<>> /\ Blank(e, Last(f.path)) \in f.type
    BY DEF Blanks
  <1>1. PICK n \in N : f = [path |-> <<n>>, type |-> V]
    BY FieldsAre
  <1> DEFINE p == <<n>>
  <1>2. p # <<>> /\ Last(p) = n
    BY LastOne
  <1> HIDE DEF p
  <1>3. f.path = p /\ f.type = V
    BY <1>1 DEF p
  <1> QED
    BY <1>2, <1>3

\* The data of both epochs.
LEMMA EpochBlanks ==
  Blanks("stakingEpochData", StakingEpochData) /\ Blanks("nextEpochData", NextEpochData)
  <1>1. /\ Blank("stakingEpochData", "epochLength") \in number
        /\ \A n \in {"seed", "ledgerHash"} : /\ Blank("stakingEpochData", n) \in maybe(string)
                                             /\ Blank("nextEpochData", n) \in string
    BY DEF Blank, number, maybe, string, Texts
  <1>2. /\ Blanks("stakingEpochData", Fields({"epochLength"}, number))
        /\ Blanks("stakingEpochData", Fields({"seed", "ledgerHash"}, maybe(string)))
        /\ Blanks("nextEpochData", Fields({"seed", "ledgerHash"}, string))
    BY <1>1, BlanksFields
  <1>3. \A e, S, T : Blanks(e, S) /\ Blanks(e, T) => Blanks(e, S \union T)
    BY DEF Blanks
  <1> QED
    BY <1>2, <1>3 DEF StakingEpochData, NextEpochData

\* A Block.
LEMMA AdmitsBlock == Admits(Block)
  <1>1. \A n \in {"feeTransfers", "userCommands", "zkappCommands",
          "snarkJobs"} : n \notin EpochNames
    BY DEF EpochNames
  <1>2. /\ Onto(FeeTable, FeeTransfer) /\ Onto(Got!userCommands, BlockTransaction)
        /\ Onto(Got!zkappCommands, BlockZkappCommand) /\ Onto(Got!snarkWork, CompletedWork)
        /\ Onto(BlockStakingTable, StakingEpochData) /\ Onto(BlockNextTable, NextEpochData)
    BY TypedFee, TypedUserCommands, TypedZkapps, TypedWork, TypedBlockStaking, TypedBlockNext
  <1>3. /\ Admits(Nested(<<"feeTransfers">>, list, FeeTransfer))
        /\ Admits(Nested(<<"userCommands">>, list, BlockTransaction))
        /\ Admits(Nested(<<"zkappCommands">>, maybe(list), BlockZkappCommand))
        /\ Admits(Nested(<<"snarkJobs">>, maybe(list), CompletedWork))
    BY <1>1, <1>2, AdmitsNested
  <1>4. /\ Admits(Nested(<<"stakingEpochData">>, object, StakingEpochData))
        /\ Admits(Nested(<<"nextEpochData">>, object, NextEpochData))
    BY <1>2, EpochBlanks, AdmitsNested
  <1> QED
    BY <1>3, <1>4, AdmitsFields, AdmitsBoth DEF Block

\* So a block without data of an epoch has a type.
LEMMA BlockSettles == Settles(Got!getBlock, Block)
  <1> SUFFICES ASSUME NEW q \in Got!getBlock, NEW r \in Got!getBlock, NEW t \in Block,
                      q.to \in Above(r.to), Typed(r, t), ~Shut(q)
               PROVE  r.how["undefined"] \in t.type
    BY DEF Settles
  <1>1. OfEpoch(r) /\ Len(r.to) # 1
    BY EpochalBlock, EpochalBeneath
  <1>2. t.path = r.to
    BY DEF Typed
  <1> QED
    BY <1>1, <1>2, AdmitsBlock DEF Admits, Exposed, OfEpoch

-----------------------------------------------------------------------------
\* Every method's table matches the type that the method declares.

\* A table and a type match.
Matches(R, T) == Into(R, T) /\ Onto(R, T)

\* The tables that a method reads its answer with.
LEMMA MatchesGot ==
  /\ \A n, w, h, R, F : Suits(w, h, list) /\ Matches(R, F)
       => Matches(Got!Elements(n, w, h, R), ListOf(F))
  /\ \A n, w, h, V : Suits(w, h, V) => Matches(Got!Returned(n, w, h), Just(V))
  /\ \A a, R, T : Matches(R, T) => Matches(Got!Inside(a, <<>>, R), T)
  BY TypedGot, IntoGot, OntoGot DEF Matches

\* The queries that return lists.
LEMMA MatchesQueryLists ==
  /\ Matches(Got!getBestChain, ListOf(BlockInfo)) /\ Matches(Got!getGenesisBlock, BlockInfo)
  /\ Matches(Got!getPeers, ListOf(PeerInfo))
  /\ Matches(Got!getPooledUserCommands, ListOf(PooledUserCommand))
  /\ Matches(Got!getPooledZkappCommands, ListOf(ZkappCommandResult))
  /\ Matches(Got!getSnarkPool, ListOf(CompletedWork))
  /\ Matches(Got!getTrackedAccounts, ListOf(TrackedAccount))
  <1>1. Suits(Got!Nullable(Got!List), Got!Else("[]"), list) /\ Suits(Got!List, Got!AsIs, list)
    BY GotSuits
  <1>2. /\ Matches(Got!parseBlockInfo, BlockInfo) /\ Matches(Got!getDaemonPeers, PeerInfo)
        /\ Matches(PooledTable, PooledUserCommand)
        /\ Matches(Got!parseZkappCommand, ZkappCommandResult)
        /\ Matches(Got!snarkWork, CompletedWork) /\ Matches(TrackedTable, TrackedAccount)
    BY IntoBlockInfo, OntoBlockInfo, TypedPeers, TypedPooled, TypedZkapp, TypedWork, TypedTracked
    DEF Matches
  <1>3. Got!getPooledUserCommands
          = Got!Elements("pooledUserCommands", Got!Nullable(Got!List), Got!Else("[]"), PooledTable)
    BY DEF Got!getPooledUserCommands, PooledTable, Sides
  <1>4. Got!getTrackedAccounts
          = Got!Elements("trackedAccounts", Got!Nullable(Got!List), Got!Else("[]"), TrackedTable)
    BY DEF Got!getTrackedAccounts, TrackedTable
  <1> QED
    BY <1>1, <1>2, <1>3, <1>4, MatchesGot
    DEF Got!getBestChain, Got!getGenesisBlock, Got!getPeers, Got!getPooledZkappCommands,
        Got!getSnarkPool

\* The methods that return one value.
LEMMA MatchesTexts ==
  /\ Matches(Got!getSyncStatus, Just(string)) /\ Matches(Got!getNetworkId, Just(string))
  /\ Matches(Got!getForkConfig, Just(unknown)) /\ Matches(Got!getTransactionStatus, Just(string))
  /\ Matches(Got!unlockAccount, Just(string)) /\ Matches(Got!setSnarkWorker, Just(orNull(string)))
  /\ Matches(Got!setSnarkWorkFee, Just(string)) /\ Matches(Got!slotsWon, Just(list))
  /\ Matches(Got!scheduledTransactions, Just(list))
  /\ Matches(Got!setZkappCommandLimit, Just(orNull(number)))
  /\ Matches(Got!commitId, Just(string))
  /\ \A field : Matches(Got!handleOf(field), Just(string))
  BY GotSuits, MatchesGot
  DEF Got!getSyncStatus, Got!getNetworkId, Got!getForkConfig, Got!getTransactionStatus,
      Got!unlockAccount, Got!setSnarkWorker, Got!setSnarkWorkFee, Got!slotsWon,
      Got!scheduledTransactions, Got!setZkappCommandLimit, Got!commitId, Got!handleOf

\* The mutations that return what has been sent.
LEMMA MatchesSubmitted ==
  /\ Matches(Got!sendPayment, SubmittedCommand) /\ Matches(Got!sendDelegation, SubmittedCommand)
  /\ Matches(Got!sendZkapp, ZkappCommandResult)
  <1>1. /\ Matches(Got!mapSubmittedCommand, SubmittedCommand)
        /\ Matches(Got!parseZkappCommand, ZkappCommandResult)
    BY TypedSubmitted, TypedZkapp DEF Matches
  <1> QED
    BY <1>1, MatchesGot DEF Got!sendPayment, Got!sendDelegation, Got!sendZkapp

\* The ITN operations that return objects.
LEMMA MatchesItn ==
  /\ Matches(Got!parseAuth, ItnAuth) /\ Matches(Got!internalLogs, ListOf(ItnLog))
  /\ Matches(Got!createAccounts, CreatedAccounts)
  <1>1. Matches(LogTable, ItnLog) /\ Suits(Got!List, Got!AsIs, list)
    BY TypedLog, GotSuits DEF Matches
  <1>2. Got!internalLogs = Got!Elements("internalLogs", Got!List, Got!AsIs, LogTable)
    BY DEF Got!internalLogs, LogTable, ItemTable
  <1>3. Matches(Got!internalLogs, ListOf(ItnLog))
    BY <1>1, <1>2, MatchesGot
  <1> QED
    BY <1>3, TypedAuth, TypedAccounts DEF Matches

\* The queries that return an object.
LEMMA MatchesOthers ==
  /\ Matches(Got!getDaemonStatus, DaemonStatus) /\ Matches(Got!getDaemonMetrics, DaemonMetrics)
  /\ Matches(Got!getAccount, AccountData) /\ Matches(Got!getBlock, Block)
  /\ Matches(Got!getGenesisConstants, GenesisConstants)
  BY TypedStatus, TypedMetrics, TypedAccount, TypedBlock, TypedGenesisConstants DEF Matches

\* A method of the clients.
MatchesMethod(m) == Matches(m.decoding, m.type)

\* The table of every method matches the type that the method declares.
LEMMA AllMatch == \A name \in DOMAIN Methods : MatchesMethod(Methods[name])
  <1>1. \A name \in DOMAIN Queries : MatchesMethod(Queries[name])
    BY TheQueries, MethodOf, MatchesQueryLists, MatchesTexts, MatchesOthers DEF MatchesMethod
  <1>2. \A name \in DOMAIN Mutations : MatchesMethod(Mutations[name])
    BY TheMutations, MethodOf, MatchesSubmitted, MatchesTexts DEF MatchesMethod
  <1>3. \A name \in DOMAIN ItnOperations : MatchesMethod(ItnOperations[name])
    BY TheItnOperations, MethodOf, MatchesTexts, MatchesItn DEF Handled, MatchesMethod
  <1> QED
    BY <1>1, <1>2, <1>3 DEF Methods

\* And what it makes of nothing is of the type.
LEMMA AllSettle == \A name \in DOMAIN Methods : Settles(Methods[name].decoding, Methods[name].type)
  <1> SUFFICES ASSUME NEW name \in DOMAIN Methods
               PROVE  Settles(Methods[name].decoding, Methods[name].type)
    OBVIOUS
  <1>1. CASE name = "getBlock"
    <2>1. Methods[name].decoding = Got!getBlock /\ Methods[name].type = Block
      BY <1>1, TheQueries, TheMutations, TheItnOperations, MethodOf DEF Methods
    <2> QED
      BY <2>1, BlockSettles
  <1>2. CASE name # "getBlock"
    BY <1>2, HumbleMethods, HumbleSettles
  <1> QED
    BY <1>1, <1>2

-----------------------------------------------------------------------------
\* Whichever fields the daemon answers oddly, up to any MostOdd of them, the
\* result has the type that the method declares.
THEOREM ResultsAreTyped == Spec => []ResultAsTyped
  <1>1. IInv => ResultAsTyped
    <2> SUFFICES ASSUME IInv, phase = "over"
                 PROVE  LET type == Called.type
                            without(path) == path \notin DOMAIN result \/ result[path] # "{}"
                        IN /\ \A path \in DOMAIN result :
                                \E t \in type : t.path = path /\ result[path] \in t.type
                           /\ \A t \in type : t.path \notin DOMAIN result =>
                                \/ "absent" \in t.type
                                \/ \E u \in type : u.path \in Above(t.path) /\ without(u.path)
      BY DEF ResultAsTyped
    <2>1. /\ operation \in DOMAIN Methods /\ answer \subseteq OddValues(Called.decoding)
          /\ result = Decode(Called, answer)
      BY DEF IInv, Made
    <2>2. Tree(Called.decoding) /\ Reads(Called.decoding, Called.selected)
      BY <2>1, AllTrees, AllSelected DEF Called
    <2>3. /\ Into(Called.decoding, Called.type) /\ Onto(Called.decoding, Called.type)
          /\ Settles(Called.decoding, Called.type)
      BY <2>1, AllMatch, AllSettle DEF Called, MatchesMethod, Matches
    <2> DEFINE made == Decode(Called, answer)
    <2>4. answer \in SUBSET OddValues(Called.decoding)
      BY <2>1
    <2>5. /\ \A path \in DOMAIN made :
               \E t \in Called.type : t.path = path /\ made[path] \in t.type
          /\ \A t \in Called.type : t.path \notin DOMAIN made =>
               \/ "absent" \in t.type
               \/ \E u \in Called.type :
                    u.path \in Above(t.path) /\ (u.path \notin DOMAIN made \/ made[u.path] # "{}")
      BY <2>2, <2>3, <2>4, AnswerTyped
    <2>6. made = result
      BY <2>1
    <2> QED
      BY <2>5, <2>6
  <1> QED
    BY <1>1, Always, PTL
=============================================================================
