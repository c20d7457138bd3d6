------------------------------ MODULE NullValue ------------------------------
\* None in Python and NULL in the database: a value equal to no number.
EXTENDS Integers
CONSTANT Null
ASSUME NullAssumption == Null \notin Int
==============================================================================
