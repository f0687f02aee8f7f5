--------------------------- MODULE MCIndicators ---------------------------
(* Short windows that wrap, windows of different lengths, and the lengths   *)
(* at which an indicator is switched off or corrected.                      *)
EXTENDS Indicators

MCParams ==
    {[rsi |-> 2, trend |-> 2, vol |-> 3, sma |-> 2],
     [rsi |-> 3, trend |-> 1, vol |-> 4, sma |-> 3],
     [rsi |-> 0, trend |-> 0, vol |-> 1, sma |-> 0],
     [rsi |-> 1, trend |-> 0, vol |-> 2, sma |-> 1]}
=============================================================================
