------------------------------ MODULE Equivalence ------------------------------
(***************************************************************************)
(* verify_equivalence: two result sets are canonicalized, sorted unless    *)
(* the scenario fixes the order, hashed and compared; on a mismatch the    *)
(* first row and field that differ are located.                            *)
(*                                                                         *)
(* A value is a pair of its Python type and its content.  Numbers are      *)
(* integers (scaled), rounded to SigFigs digits instead of ten; a text     *)
(* stands for every type that is canonicalized to a string.  SHA-256 is    *)
(* taken as injective: the digest is the list of canonical rows, and the   *)
(* JSON text of a row is the row, ordered by TextOf.                       *)
(***************************************************************************)
EXTENDS Integers, Sequences, FiniteSets, Functions

CONSTANTS
  SigFigs,    \* significant digits kept; the tolerance is 10^-(SigFigs-1)
  MaxNumber,  \* the largest float
  Fields,     \* names of columns
  TextOf,     \* canonical scalars, Open and End -> Nat: the order of their JSON texts
  Cases       \* the calls: rows of both engines, set_valued_paths, sort_rows

Null == <<"none", 0>>
Absent == <<"absent", 0>>   \* no such key in the row
Open == <<"open", 0>>
End == <<"end", 0>>

-------------------------------------------------------------------------------
(* Canonical values.                                                       *)

Abs(n) == IF n < 0 THEN -n ELSE n
Tens[k \in Nat] == IF k = 0 THEN 1 ELSE 10 * Tens[k - 1]
Digits(n) == CHOOSE d \in 1 .. n : Tens[d - 1] <= n /\ n < Tens[d]

\* The distance of the numbers with SigFigs digits around n.
Unit(n) == IF Digits(n) <= SigFigs THEN 1 ELSE Tens[Digits(n) - SigFigs]

RoundHalfEven(n, u) ==
  LET q == n \div u
      r == n % u
  IN  IF 2 * r < u \/ (2 * r = u /\ q % 2 = 0) THEN q * u ELSE (q + 1) * u

NormalizeFloat_Absolute(x) == RoundHalfEven(Abs(x), 10) * (IF x < 0 THEN -1 ELSE 1)

\* _normalize_float: a number rounded beyond the largest is left alone.
NormalizeFloat(x) ==
  IF x = 0 THEN 0
  ELSE LET y == RoundHalfEven(Abs(x), Unit(Abs(x)))
       IN  IF y > MaxNumber THEN x ELSE IF x < 0 THEN -y ELSE y

CanonicalizeScalar(v) ==
  CASE v[1] \in {"int", "float"} -> <<"num", NormalizeFloat(v[2])>>
    [] v[1] = "decimal" -> <<"text", v[2]>>
    [] OTHER -> v

Canonicalize(v) ==
  IF v[1] = "list" THEN <<"list", [i \in DOMAIN v[2] |-> CanonicalizeScalar(v[2][i])]>>
  ELSE CanonicalizeScalar(v)

IsNan(v) == v[1] = "nan" \/ (v[1] = "list" /\ \E i \in DOMAIN v[2] : v[2][i][1] = "nan")

\* sorted(): the elements so that none comes before an earlier one.
Sorted(seq, Before(_, _)) ==
  LET p == CHOOSE q \in Bijection(DOMAIN seq, DOMAIN seq) :
             \A i, j \in DOMAIN seq : i < j => ~Before(seq[q[j]], seq[q[i]])
  IN  [i \in DOMAIN seq |-> seq[p[i]]]

\* sorted(..., key=_sort_key) on the elements of a set-valued array.
TextBefore(x, y) == TextOf[x] < TextOf[y]
ByText(seq) == Sorted(seq, TextBefore)

CanonicalizeRow_SetsAsLists(row, setPaths) ==
  [k \in DOMAIN row |-> Canonicalize(row[k])]

\* canonicalize_row
CanonicalizeRow(row, setPaths) ==
  [k \in DOMAIN row |->
     LET c == Canonicalize(row[k])
     IN  IF k \in setPaths /\ c[1] = "list" THEN <<"list", ByText(c[2])>> ELSE c]

-------------------------------------------------------------------------------
(* Result sets.                                                            *)

At(row, k) == IF k \in DOMAIN row THEN row[k] ELSE Absent

\* The JSON text of a value by the order of its tokens: a bracket opens an array,
\* and what ends (an array, or a row that lacks the key) comes after what goes on.
TextOfValue(v) ==
  CASE v = Absent -> <<TextOf[End]>>
    [] v[1] = "list" -> <<TextOf[Open]>> \o [i \in DOMAIN v[2] |-> TextOf[v[2][i]]] \o <<TextOf[End]>>
    [] OTHER -> <<TextOf[v]>>
ValueBefore(x, y) ==
  LET s == TextOfValue(x)
      t == TextOfValue(y)
      differ == {i \in DOMAIN s : i \in DOMAIN t /\ s[i] # t[i]}
  IN  \E i \in differ : s[i] < t[i] /\ \A j \in differ : i <= j

\* _row_sort_key
RowBefore(r, s) ==
  \E i \in DOMAIN Fields :
    /\ \A j \in 1 .. i - 1 : At(r, Fields[j]) = At(s, Fields[j])
    /\ ValueBefore(At(r, Fields[i]), At(s, Fields[i]))

\* The canonical rows, in the order hashing and locating walk them.
CanonicalRows(rows, setPaths, sortRows) ==
  LET canonical == [i \in DOMAIN rows |-> CanonicalizeRow(rows[i], setPaths)]
  IN  IF sortRows THEN Sorted(canonical, RowBefore) ELSE canonical

\* Python's == on canonical values: True is 1 and False is 0.
PyEqualScalar(x, y) ==
  \/ x = y
  \/ x[1] \in {"num", "bool"} /\ y[1] \in {"num", "bool"} /\ x[2] = y[2]
PyEqual(x, y) ==
  IF x[1] = "list" /\ y[1] = "list"
  THEN /\ Len(x[2]) = Len(y[2])
       /\ \A i \in DOMAIN x[2] : PyEqualScalar(x[2][i], y[2][i])
  ELSE PyEqualScalar(x, y)
PyEqualRows(r, s) == DOMAIN r = DOMAIN s /\ \A k \in DOMAIN r : PyEqual(r[k], s[k])

\* row.get(field)
Get(row, k) == IF k \in DOMAIN row THEN row[k] ELSE Null

\* A pointer: a row, counted from 1 here, and the place of a field among Fields, 0
\* for the None of a row that has no such field.
NoField == 0
NoDivergence == [row |-> 0, field |-> NoField]

Locate_FieldsOfMongo(m, o) ==
  LET shorter == IF Len(m) < Len(o) THEN Len(m) ELSE Len(o)
      differ  == {i \in 1 .. shorter : ~PyEqualRows(m[i], o[i])}
      first   == CHOOSE i \in differ : \A j \in differ : i <= j
      wrong   == {f \in DOMAIN Fields : /\ Fields[f] \in DOMAIN m[first]
                                       /\ ~PyEqual(Get(m[first], Fields[f]), Get(o[first], Fields[f]))}
  IN  CASE differ # {} /\ wrong # {} ->
             [row |-> first, field |-> CHOOSE f \in wrong : \A g \in wrong : f <= g]
        [] differ # {} /\ wrong = {} -> [row |-> first, field |-> NoField]
        [] differ = {} /\ Len(m) # Len(o) -> [row |-> shorter + 1, field |-> NoField]
        [] OTHER -> NoDivergence

\* The walk of _find_first_divergence.
Locate(m, o) ==
  LET shorter == IF Len(m) < Len(o) THEN Len(m) ELSE Len(o)
      differ  == {i \in 1 .. shorter : ~PyEqualRows(m[i], o[i])}
      first   == CHOOSE i \in differ : \A j \in differ : i <= j
      wrong   == {f \in DOMAIN Fields : ~PyEqual(Get(m[first], Fields[f]), Get(o[first], Fields[f]))}
  IN  CASE differ # {} /\ wrong # {} ->
             [row |-> first, field |-> CHOOSE f \in wrong : \A g \in wrong : f <= g]
        [] differ # {} /\ wrong = {} -> [row |-> first, field |-> NoField]
        [] differ = {} /\ Len(m) # Len(o) -> [row |-> shorter + 1, field |-> NoField]
        [] OTHER -> NoDivergence

FindFirstDivergence_Unsorted(c) ==
  Locate(CanonicalRows(c.mongo, c.setPaths, FALSE), CanonicalRows(c.oracle, c.setPaths, FALSE))

\* _find_first_divergence
FindFirstDivergence(c) ==
  Locate(CanonicalRows(c.mongo, c.setPaths, c.sortRows),
         CanonicalRows(c.oracle, c.setPaths, c.sortRows))

\* What drivers return: rows of scalars and of arrays of scalars.
Scalar == {"none", "bool", "int", "float", "decimal", "text", "nan"} \X Int
Value == Scalar \cup ({"list"} \X Seq(Scalar))
IsRow(r) == DOMAIN r \subseteq Range(Fields) /\ r \in [DOMAIN r -> Value]

\* The scalars of a row.
ScalarsOf(r) == UNION {IF r[k][1] = "list" THEN Range(r[k][2]) ELSE {r[k]} : k \in DOMAIN r}

\* The fields are in alphabetical order, each once; JSON texts of different
\* scalars differ.
ASSUME EquivalenceAssumption ==
  /\ SigFigs \in Nat \ {0} /\ MaxNumber \in Nat
  /\ Fields \in Seq(STRING) /\ IsInjective(Fields)
  /\ TextOf \in [DOMAIN TextOf -> Int] /\ IsInjective(TextOf) /\ {Open, End} \subseteq DOMAIN TextOf
  /\ \A c \in Cases :
       /\ c.sortRows \in BOOLEAN
       /\ \A rows \in {c.mongo, c.oracle} :
            /\ rows = [i \in 1 .. Len(rows) |-> rows[i]] /\ Len(rows) \in Nat
            /\ \A i \in DOMAIN rows :
                 /\ IsRow(rows[i])
                 /\ \A v \in ScalarsOf(rows[i]) : v[1] # "nan" => CanonicalizeScalar(v) \in DOMAIN TextOf

HasNan(rows) == \E i \in DOMAIN rows : \E k \in DOMAIN rows[i] : IsNan(rows[i][k])
Pending == [kind |-> "pending"]
Raised == [kind |-> "raised"]

\* verify_equivalence; a NaN anywhere raises.
VerifyEquivalence(c) ==
  LET m == CanonicalRows(c.mongo, c.setPaths, c.sortRows)
      o == CanonicalRows(c.oracle, c.setPaths, c.sortRows)
  IN  IF HasNan(c.mongo) \/ HasNan(c.oracle) THEN Raised
      ELSE [kind |-> "result", match |-> m = o,
            divergence |-> IF m = o THEN NoDivergence ELSE FindFirstDivergence(c)]

-------------------------------------------------------------------------------
VARIABLES call, verdict

verification == <<call, verdict>>

Called == call \in Cases /\ verdict = Pending

Verify == /\ verdict = Pending
          /\ verdict' = VerifyEquivalence(call)
          /\ UNCHANGED call

Verification == Called /\ [][Verify]_verification

-------------------------------------------------------------------------------
(* What a verdict means, without canonical forms, hashes or sorting.       *)

IsNumber(v) == v[1] \in {"int", "float"}
IsText(v) == v[1] \in {"text", "decimal"}
Equal(x, y) ==
  \/ x = y
  \/ IsNumber(x) /\ IsNumber(y) /\ x[2] = y[2]
  \/ IsText(x) /\ IsText(y) /\ x[2] = y[2]
Greater(m, n) == IF m > n THEN m ELSE n
Close(x, y) ==
  IF IsNumber(x) /\ IsNumber(y)
  THEN Abs(x[2] - y[2]) * Tens[SigFigs - 1] <= Greater(Abs(x[2]), Abs(y[2]))
  ELSE Equal(x, y)

\* The elements of s and t correspond, in order or in any order.
Correspond(s, t, anyOrder, Same(_, _)) ==
  /\ Len(s) = Len(t)
  /\ \E p \in Bijection(DOMAIN s, DOMAIN s) :
       /\ anyOrder \/ \A i \in DOMAIN s : p[i] = i
       /\ \A i \in DOMAIN s : Same(s[i], t[p[i]])

SameRow(r, s, setPaths, Same(_, _)) ==
  /\ DOMAIN r = DOMAIN s
  /\ \A k \in DOMAIN r :
       IF r[k][1] = "list" /\ s[k][1] = "list"
       THEN Correspond(r[k][2], s[k][2], k \in setPaths, Same)
       ELSE r[k][1] # "list" /\ s[k][1] # "list" /\ Same(r[k], s[k])

SameResult(c, Same(_, _)) ==
  Correspond(c.mongo, c.oracle, c.sortRows,
             LAMBDA r, s : SameRow(r, s, c.setPaths, Same))

-------------------------------------------------------------------------------
(* Properties.                                                             *)

\* A reported match is never a coincidence of rounding, sorting or hashing: the
\* rows correspond one to one (each row as often on both sides, in order if the
\* order counts), with the same columns, and every number is within the
\* relative tolerance of its counterpart.
MatchedRowsAreClose ==
  (verdict.kind = "result" /\ verdict.match) => SameResult(call, Close)

\* Results that differ only in what the scenario declares free match: the order
\* of rows, the order inside a set-valued array, int for float, and Decimal for
\* its text.
EqualRowsMatch ==
  (verdict.kind = "result" /\ SameResult(call, Equal)) => verdict.match

\* Occurrences of the canonical row r among rows.
Times(r, rows) == Cardinality({i \in DOMAIN rows : CanonicalizeRow(rows[i], call.setPaths) = r})

CanonicalOf(rows) == {CanonicalizeRow(rows[i], call.setPaths) : i \in DOMAIN rows}

\* A mismatch of unordered rows gets a pointer, and it stands behind exactly the
\* rows that come before the least canonical row the engines return a different
\* number of times, and behind the copies of it both have.  Calls with rows that
\* Python's == takes for one another (True and 1) are left out.
DivergenceIsFirst ==
  (verdict.kind = "result" /\ ~verdict.match /\ call.sortRows) =>
    LET all == CanonicalOf(call.mongo) \cup CanonicalOf(call.oracle)
        uneven == {r \in all : Times(r, call.mongo) # Times(r, call.oracle)}
        least == CHOOSE r \in uneven : \A s \in uneven \ {r} : RowBefore(r, s)
        before == {i \in DOMAIN call.mongo :
                     RowBefore(CanonicalizeRow(call.mongo[i], call.setPaths), least)}
        copies == {Times(least, call.mongo), Times(least, call.oracle)}
        confused == \E r, s \in all : r # s /\ PyEqualRows(r, s)
    IN  confused \/
        verdict.divergence.row = Cardinality(before) + 1 + (CHOOSE n \in copies : \A k \in copies : n <= k)

\* The canonical row r is the k-th of a side: by its place when the order counts,
\* else by the number of rows before it.
RowAt(rows, k, r) ==
  IF call.sortRows
  THEN LET before == {i \in DOMAIN rows : RowBefore(CanonicalizeRow(rows[i], call.setPaths), r)}
       IN  Cardinality(before) < k /\ k <= Cardinality(before) + Times(r, rows)
  ELSE k \in DOMAIN rows /\ r = CanonicalizeRow(rows[k], call.setPaths)

\* What P says of the k-th rows of the two sides.
AtRow(k, P(_, _)) ==
  \A r \in CanonicalOf(call.mongo), s \in CanonicalOf(call.oracle) :
    RowAt(call.mongo, k, r) /\ RowAt(call.oracle, k, s) => P(r, s)

SameField(r, s, f) == PyEqual(Get(r, Fields[f]), Get(s, Fields[f]))

\* Of any mismatch, ordered or not, the pointer names the first field whose values
\* differ in the rows it stands at, and no row before it differs.  Without a
\* field, one side has no such row, or a column that one row lacks is null in the
\* other.  Without a pointer, Python's == sees no difference in any row.
DivergenceNamesField ==
  (verdict.kind = "result" /\ ~verdict.match) =>
    LET d == verdict.divergence
        onBoth == d.row <= Len(call.mongo) /\ d.row <= Len(call.oracle)
    IN  IF d = NoDivergence
        THEN /\ Len(call.mongo) = Len(call.oracle)
             /\ \A k \in DOMAIN call.mongo : AtRow(k, PyEqualRows)
        ELSE /\ \A k \in 1 .. d.row - 1 : AtRow(k, PyEqualRows)
             /\ ~onBoth => d.field = NoField /\ Len(call.mongo) # Len(call.oracle)
             /\ AtRow(d.row, LAMBDA r, s :
                  /\ ~PyEqualRows(r, s)
                  /\ d.field # NoField => ~SameField(r, s, d.field)
                  /\ \A f \in DOMAIN Fields : f < d.field \/ d.field = NoField => SameField(r, s, f))

===============================================================================
