--------------------------- MODULE MCServiceHealth ---------------------------
EXTENDS ServiceHealth, TLC

(* Callers and connections are treated alike.                              *)
Interchangeable == Permutations(Caller) \cup Permutations(Stream)

================================================================================
