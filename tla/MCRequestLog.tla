---------------------------- MODULE MCRequestLog ----------------------------
(* TLC instance of RequestLog, with a limit of 8 bytes. *)
EXTENDS RequestLog

Entry(i, n) == [id |-> i, size |-> n]

File(whole, rest) == [lines |-> whole, tail |-> rest]

\* No file; one within the limit, whole, without its newline and with an interrupted
\* line; some that exceed it: by an old entry that is itself too long, by an
\* interrupted line that leaves only the newest entry, and with no whole entry at all.
EarlierFiles ==
    {File(<< >>, 0), File(<<Entry(1, 3)>>, 0), File(<<Entry(1, 3)>>, -1), File(<<Entry(1, 3)>>, 2),
     File(<<Entry(1, 9), Entry(2, 3), Entry(3, 4)>>, -1),
     File(<<Entry(1, 3), Entry(3, 4)>>, 4),
     File(<< >>, 9)}
=============================================================================
