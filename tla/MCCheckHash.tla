---------------------------- MODULE MCCheckHash ----------------------------
(***************************************************************************)
(* All hash files of at most MaxLines lines over two names and two         *)
(* contents, with and without the newline at the end.                      *)
(***************************************************************************)
EXTENDS CheckHashLoop, SequencesExt

MaxLines == 2

MCName == {"src.tar", "other.tar"}
MCContent == {"good", "bad"}
MCExempt == {{}, {"src.tar"}}
MCHashFiles ==
  {NoOption, NoFile}
    \cup {HashFileOf(ls, TRUE) : ls \in BoundedSeq(HashLine, MaxLines)}
    \cup {HashFileOf(ls, FALSE) : ls \in BoundedSeq(HashLine, MaxLines) \ {<< >>}}
============================================================================
