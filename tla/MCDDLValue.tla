----------------------------- MODULE MCDDLValue -----------------------------
(* Bytes of two bits: an int8 is -2 .. 1, an int32 has 8 bits, an int64 16. *)
(* A float keeps three decimal digits, and every integer of twelve bits.   *)
EXTENDS DDLValue

\* every small number, and those around the limits of each width
MCNumbers ==
    (-10 .. 20) \cup UNION {(2 ^ w - 2) .. (2 ^ w + 2) : w \in 4 .. 16}
      \cup UNION {-(2 ^ w) - 1 .. -(2 ^ w) + 1 : w \in {4, 7, 8, 15}}

\* and those around the limits of a float
MCWholes ==
    {-5000, -1000, -999, -3, 0, 1, 9, 10, 99, 100, 999, 1000, 1001, 4096, 4097, 9999}
=============================================================================
