----------------------------- MODULE MCPcieTlp -----------------------------
(* Instances of PcieTlp for TLC.                                           *)
EXTENDS PcieTlp

Span(n, off, len) == [n |-> n, off |-> off, len |-> len]

(* Writes of one and two words, with bytes left out at either end of two.  *)
UsualSpans == {Span(1, 0, 2), Span(2, 1, 5)}

(* A write to the upper half of a word.                                    *)
UpperHalf == {Span(1, 2, 2)}
=============================================================================
