------------------------------- MODULE MCTftp -------------------------------
(* Small instances of Tftp. *)
EXTENDS Tftp

MCNumerals == [s \in {"0", "7", "500", "2000"} |->
                  CASE s = "0" -> 0 [] s = "7" -> 7 [] s = "500" -> 500 [] s = "2000" -> 2000]

rrq(opts) ==
    [short |-> FALSE, op |-> opRRQ, strs |-> <<"boot", "octet">> \o opts, rest |-> FALSE]

\* Four blocks of 512 or 500 bytes, or two of 1450.
MCSize == 1600

ValidRequests ==
    {rrq(<<>>), rrq(<<"tsize", "0">>), rrq(<<"blksize", "500">>),
     rrq(<<"blksize", "500", "blksize", "2000">>)}

BadRequests ==
    {rrq(<<"blksize", "7">>), rrq(<<"blksize", "big">>), rrq(<<"blksize">>),
     [rrq(<<>>) EXCEPT !.op = 2], [rrq(<<>>) EXCEPT !.short = TRUE],
     [rrq(<<>>) EXCEPT !.strs = <<"boot", "netascii">>],
     [rrq(<<>>) EXCEPT !.strs = <<"boot">>], [rrq(<<>>) EXCEPT !.rest = TRUE]}

AllRequests == ValidRequests \cup BadRequests

\* Only a request the Blob is an exact multiple of: 1000 = 2 * 500.
ExactRequests == {rrq(<<"blksize", "500">>)}
=============================================================================
