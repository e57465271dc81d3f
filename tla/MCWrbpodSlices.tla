--------------------------- MODULE MCWrbpodSlices ---------------------------
(* Contents of 0, 5 and 30 bytes; three of the small ones just fit.        *)
EXTENDS WrbpodSlices

CONSTANTS nil, small, large

MCSizeOf == [x \in Content |-> IF x = nil THEN 0 ELSE IF x = small THEN 5 ELSE 30]
=============================================================================
