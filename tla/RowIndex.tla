------------------------------ MODULE RowIndex ------------------------------
(***************************************************************************)
(* ai/insight_validator.py: whether a row quoted as evidence is a row of   *)
(* the result, looked up through the index built over the result's rows    *)
(* (_ResultRowIndex).  A row is a function from its columns to values;     *)
(* numbers are compared up to a tolerance, everything else as text.        *)
(***************************************************************************)
CONSTANTS
    IsNumber(_, _),     \* in this column the value is an int or a float
    Near(_, _),         \* _numbers_equal
    Text(_),            \* str
    NaN

\* Mutant: an empty number is equal to nothing, itself included.
RowsMatchWithoutNaN(actual, expected) ==
    /\ DOMAIN actual = DOMAIN expected
    /\ \A c \in DOMAIN actual :
          IF IsNumber(c, actual[c]) /\ IsNumber(c, expected[c])
          THEN Near(actual[c], expected[c])
          ELSE Text(actual[c]) = Text(expected[c])

IsNaN(c, v) == IsNumber(c, v) /\ v = NaN

RowsMatch(actual, expected) ==
    /\ DOMAIN actual = DOMAIN expected
    /\ \A c \in DOMAIN actual :
          \/ IsNaN(c, actual[c]) /\ IsNaN(c, expected[c])
          \/ IF IsNumber(c, actual[c]) /\ IsNumber(c, expected[c])
             THEN Near(actual[c], expected[c])
             ELSE Text(actual[c]) = Text(expected[c])

\* The rows with these columns, and the columns never a number in them.
Shaped(rows, columns) == {r \in rows : DOMAIN r = columns}

SafeColumns(rows, columns) ==
    {c \in columns : \A r \in Shaped(rows, columns) : ~IsNumber(c, r[c])}

Candidates(rows, target) ==
    {r \in Shaped(rows, DOMAIN target) :
        \A c \in SafeColumns(rows, DOMAIN target) : Text(r[c]) = Text(target[c])}

RowExists(target, rows) ==
    \E r \in Candidates(rows, target) : RowsMatch(target, r)
=============================================================================
