--------------------------- MODULE MCSilverWriter ---------------------------
(* Small instances of SilverWriter for TLC.                                *)
EXTENDS SilverWriter

CONSTANTS k1, k2, v1, v2

MCKeys == {k1, k2}

MCOneKey == {k1}

MCValues == {v1, v2}

MCOneValue == {v1}

MCRow(op, after, lsn) == [op |-> op, before |-> NoImage, after |-> after, lsn |-> lsn]

\* One row for each error that validate() names, and one whose only fault is that
\* its operation is NULL.  A message with a null source lands as the last: an
\* otherwise perfect change without an LSN.
MCMalformed ==
    { MCRow("t", ImageOf(k1, v1), 9),
      MCRow("u", NoImage, 9),
      MCRow("u", [state |-> "garbled", key |-> NullKey, val |-> NoValue], 9),
      MCRow("u", ImageOf(NullKey, v1), 9),
      MCRow("null", ImageOf(k1, v1), 9),
      MCRow("u", ImageOf(k1, v1), NullLsn) }

MCNothing == {}

MCSourceUpserts == {"c", "u"}

MCSourceAll == {"c", "u", "d"}
=============================================================================
