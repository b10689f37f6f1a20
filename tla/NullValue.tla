------------------------------ MODULE NullValue ------------------------------
\* The value of a nullable reference of the Kotlin code that refers to nothing.
CONSTANT None
=============================================================================
