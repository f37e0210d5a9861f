----------------------------- MODULE MCTerminal -----------------------------
(***************************************************************************)
(* Terminal on a screen of three columns and three rows, the status bar    *)
(* included.  The strings move the cursor up, down, left and right, past   *)
(* every border, erase in every way, change colours, and leave a sequence  *)
(* unfinished.                                                             *)
(***************************************************************************)
EXTENDS Terminal, TLC

\* the parser passes the parameter 0 when a sequence has none
Sequence(params, action) == <<Csi(params), Final(action)>>

MCStrings ==
    { <<Char("x"), Char("y")>>,
      <<Char("NOGLYPH"), Control("NL")>>,
      <<Control("TAB"), Csi(<<2>>)>>,           \* left unfinished
      Sequence(<<2>>, "A") \o Sequence(<<4>>, "D"),
      Sequence(<<1>>, "B") \o Sequence(<<65535>>, "C"),
      Sequence(<<0>>, "E") \o Sequence(<<1>>, "G"),
      Sequence(<<0>>, "F") \o Sequence(<<0>>, "K"),
      Sequence(<<3, 2>>, "H"),
      Sequence(<<1, 3>>, "f") \o Sequence(<<0>>, "s"),
      Sequence(<<0>>, "u") \o Sequence(<<0>>, "J"),
      Sequence(<<1>>, "J") \o Sequence(<<2>>, "K"),
      Sequence(<<1>>, "K") \o Sequence(<<2>>, "J"),
      Sequence(<<7, 31, 27, 1, 101, 48, 5, 20, 22, 2, 38, 2, 1, 2, 3>>, "m") }

WriterSymmetry == Permutations(Writers)

MCKeys == { Esc }
=============================================================================
