---------------------------- MODULE MCFieldCodec ----------------------------
(* FieldCodec for TLC: the columns that are read as they were saved.        *)
EXTENDS FieldCodec

CONSTANTS b1, b2

MCBases == {b1, b2}

Required(kinds) == [kind : kinds, nullable : {FALSE}]
Nullable(kinds) == [kind : kinds, nullable : {TRUE}]

\* Columns that every adapter reads so. What a driver makes of a time or a UUID
\* it scans into a string is the driver's affair.
PortableColumns == Required(Kinds \ {"other", "time"}) \cup Nullable({"text", "integer", "blob"})

\* SQLite's finds also read these, and they are the only ones that do.
SQLiteColumns == Required({"time"}) \cup Nullable({"json", "time"})

MCStudied == (ScanningAdapters \X PortableColumns) \cup ({"sqlite"} \X SQLiteColumns)
=============================================================================
