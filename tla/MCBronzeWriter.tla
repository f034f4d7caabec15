--------------------------- MODULE MCBronzeWriter ---------------------------
(* Small instances of BronzeWriter for TLC.                                *)
EXTENDS BronzeWriter

CONSTANTS p1, p2

MCPartitions == {p1, p2}

\* One kind that parses and two that do not: the writer treats the other kinds
\* as one of the first two.
MCKinds == {"change", "not_json", "null_value"}

\* The kinds of messages that extract_fields() and the writer tell apart.
MCAllKinds == MessageKinds
=============================================================================
