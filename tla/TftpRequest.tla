---------------------------- MODULE TftpRequest ----------------------------
(***************************************************************************)
(* parseRRQ and nullStr of src/tftp/tftp.go: from a datagram received on   *)
(* the TFTP port to a read request, or to an error.                        *)
(*                                                                         *)
(* A datagram is abstracted to what parseRRQ can tell apart:               *)
(*   short  it has fewer than 6 bytes;                                     *)
(*   op     its 16-bit opcode;                                             *)
(*   strs   the null-terminated strings after the opcode;                  *)
(*   rest   bytes follow the last null byte (an unterminated string).      *)
(* Which error is returned only changes the text of the ERROR packet, so   *)
(* the early returns collapse to one predicate.                            *)
(***************************************************************************)
EXTENDS Integers, Sequences

CONSTANT
    Numerals    \* strconv.Atoi: the strings it accepts, mapped to their values

ASSUME NumeralsAssumption == Numerals \in [DOMAIN Numerals -> Int]

Datagram == [short : BOOLEAN, op : Nat, strs : Seq(STRING), rest : BOOLEAN]

opRRQ == 1
minBlockSize == 8
maxBlockSize == 65464
ethernetBlockSize == 1450       \* "Clamp for use on ethernet"

\* The position in strs of every option name; its value is the next string.
optionNames(p) == {i \in 3 .. Len(p.strs) : i % 2 = 1}

blksizes(p) == {i \in optionNames(p) : p.strs[i] = "blksize"}

optionValue(p, i) == Numerals[p.strs[i + 1]]

\* No early return of parseRRQ is taken: the opcode is RRQ, file name and mode
\* are there, the mode is octet, every option name has a terminated integer
\* value, and every block size asked for is in range.
validRRQ(p) ==
    /\ ~p.short
    /\ p.op = opRRQ
    /\ Len(p.strs) >= 2
    /\ p.strs[2] = "octet"
    /\ ~p.rest
    /\ Len(p.strs) % 2 = 0
    /\ \A i \in optionNames(p) : p.strs[i + 1] \in DOMAIN Numerals
    /\ \A i \in blksizes(p) : optionValue(p, i) \in minBlockSize .. maxBlockSize

\* Mutant: no clamp.
clamp_none(v) == v

clamp(v) == IF v > ethernetBlockSize THEN ethernetBlockSize ELSE v

\* req.BlockSize of a valid request: 0 without a blksize option; otherwise
\* the last one wins, clamped.
rrqBlockSize(p) ==
    IF blksizes(p) = {}
    THEN 0
    ELSE clamp(optionValue(p, CHOOSE i \in blksizes(p) : \A j \in blksizes(p) : j <= i))
=============================================================================
