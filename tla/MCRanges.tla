------------------------------ MODULE MCRanges ------------------------------
(* A 4-bit instance of Ranges: ParseInt's cutoff sits at -8 and 8, within  *)
(* reach of strings of up to three characters.                              *)
EXTENDS Ranges

\* digits for both sides of the cutoff, a non-digit and both signs
MCChars == {"+", "-", "0", "1", "7", "8", "x"}

\* the type limits, an inner bound and zero; min > max pairs included
MCBounds == {-8, 0, 1, 7}
=============================================================================
