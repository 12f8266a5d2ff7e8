----------------------------- MODULE MCEquivalence -----------------------------
(* Instances for model checking: two significant digits, so that each decade   *)
(* has ninety numbers and a rounding step of a tenth to a hundredth of them.   *)
EXTENDS Equivalence, SequencesExt

MCFields == <<"a", "b">>

int(n) == <<"int", n>>
float(n) == <<"float", n>>
list(s) == <<"list", s>>
a(v) == [k \in {"a"} |-> v]
ab(v, w) == [k \in {"a", "b"} |-> IF k = "a" THEN v ELSE w]

calls(R, S, paths, orders) ==
  {[mongo |-> m, oracle |-> o, setPaths |-> p, sortRows |-> q] :
     m \in R, o \in S, p \in paths, q \in orders}

\* One number on each side: carries into the next decade, ties, signs, and
\* numbers whose rounding exceeds the largest float (996).
numbers == {0, 1, 4, 5, 9, 10, 11, 95, 99} \cup (100 .. 116) \cup {194, 195, 196, 205, 949, 954, 955, 985}
             \cup (989 .. 996) \cup {-1, -99, -104, -105, -106}
NumberCases == calls({<<a(int(n))>> : n \in numbers}, {<<a(float(n))>> : n \in numbers}, {{}}, {TRUE})

\* Rows that are or look alike, alone and in twos.
rows == {a(int(1)), a(<<"bool", 1>>), a(<<"text", 1>>), a(<<"decimal", 1>>), a(Null),
         [k \in {} |-> Null], a(<<"nan", 0>>), ab(Null, float(1)),
         a(list(<<int(1), <<"text", 1>>>>)), a(list(<<<<"decimal", 1>>, float(1)>>))}
RowCases == calls(SeqOf(rows, 2), SeqOf(rows, 2), {{}, {"a"}}, BOOLEAN)

\* Multiplicities: the same rows a different number of times.
BagCases == calls(SeqOf({a(int(1)), a(int(2)), a(int(104))}, 3), SeqOf({a(float(2)), a(float(1)), a(float(101))}, 3),
                  {{}}, {TRUE})

\* The order of JSON texts: a quote, -, digits, [, null, true, a closing bracket.
scalars == {Null, <<"bool", 1>>, <<"text", 1>>} \cup {<<"num", n>> : n \in -110 .. 1010}
MCTextOf == [v \in scalars \cup {Open, End} |->
               CASE v[1] = "text" -> 0 [] v[1] = "num" -> 200 + v[2] [] v = Open -> 2000
                 [] v = Null -> 2001 [] v[1] = "bool" -> 2002 [] OTHER -> 2003]

MCCases == NumberCases \cup RowCases \cup BagCases
===============================================================================
