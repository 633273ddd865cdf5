--------------------------- MODULE MCMpcFrontEnd ---------------------------
(***************************************************************************)
(* Every file of one line of up to four characters, files of up to three   *)
(* of a choice of lines, ended by a newline or not, and files with lines   *)
(* around the length of the buffer, with NULs, and with read errors.       *)
(***************************************************************************)
EXTENDS MpcFrontEnd, RbmlLine

MCNameStart == {"a", "R", "WORD", "HALT", "ADD", "BRAN"}

ShortLines ==
  UNION {[1..n -> {"a", "WORD", "HALT", "0", "1", ":", " "}] : n \in 0..4}
    \cup UNION {[1..n -> {"R", "ADD", "1", ",", ";"}] : n \in 0..3}

ChosenLines ==
  { <<>>, <<"a", ":">>, <<"a", " ", ":", "WORD", " ", "0", "x", "a">>,
    <<"WORD", "-", "0", "1", "1">>, <<"R", "1", ":", "HALT", " ", ";", "a">>,
    <<"ADD", "R", "1", ",", "R", "0">>, <<" ", "BRAN", "a">>,
    <<"a", ":", "WORD", " ", "1", "a">> }

\* The buffer holds ten characters and the end of the string.
EdgeLines == {[i \in 1..n |-> c] : n \in 8..12, c \in {" ", "a"}}
NulLines == {<<"NUL">>, <<"WORD", "1", "NUL", "a">>, <<" ", " ", "NUL", " ", " ", " ", " ", " ", " ", " ">>}

\* Numbers beyond a long.
LongLines == {<<"WORD", "0", "x", "a", "a", "a", "a">>, <<"WORD", "-", "0", "x", "a", "a", "a", "a">>}

File(t) == [text |-> t, fails |-> FALSE]
Ended1(l) == l \o <<"LF">>

MCFiles ==
  {File(Ended1(l)) : l \in ShortLines \cup LongLines}
    \cup {File(l) : l \in EdgeLines \cup NulLines \cup ChosenLines}
    \cup {File(Ended1(l) \o m) : l \in ChosenLines \cup EdgeLines \cup NulLines,
                                m \in ChosenLines \cup EdgeLines}
    \cup {File(Ended1(l) \o Ended1(m)) : l \in EdgeLines, m \in ChosenLines}
    \cup {File(Ended1(l) \o Ended1(m) \o Ended1(n)) : l, m, n \in ChosenLines}
    \cup {[text |-> l, fails |-> TRUE] : l \in EdgeLines \cup ChosenLines \cup {Ended1(<<"a", ":">>)}}
=============================================================================
