------------------------------- MODULE Selection -----------------------------
(***************************************************************************)
(* Loops that go over a slice and append to another what they keep, as     *)
(* those of internal/proxy/request.go and response.go do.                  *)
(***************************************************************************)
EXTENDS Integers, Sequences

\* The elements of s that are in S, in their order.
Only(s, S) ==
  LET kept[n \in 0 .. Len(s)] ==
        IF n = 0 THEN <<>>
        ELSE IF s[n] \in S THEN Append(kept[n - 1], s[n]) ELSE kept[n - 1]
  IN  kept[Len(s)]
=============================================================================
