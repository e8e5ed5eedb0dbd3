----------------------------- MODULE MCSAClient -----------------------------
(* Instances of SAClient for TLC. *)
EXTENDS SAClient, TLC

(* One thread makes every call. *)
MCCalls == Callers \X Operations
Symmetric == Permutations(Threads) \cup Permutations(Servers)

(* The agent as it starts: initialise and connect, nothing else. *)
StartOnly == Callers \X {"initialize", "connect"}

(* The same, and disconnect. *)
StartAndStop == Callers \X {"initialize", "connect", "disconnect"}
=============================================================================
