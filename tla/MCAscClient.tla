----------------------------- MODULE MCAscClient -----------------------------
(***************************************************************************)
(* Small instances of AscClient: two threads share one slot of the window. *)
(***************************************************************************)
EXTENDS AscClient, TLC

Call(kind, size, counted, limit) ==
  [kind |-> kind, size |-> size, counted |-> counted, limit |-> limit]

\* Reading: a walk that meets its limit, one that runs out of pages, a download.
Reading ==
  {Call("walk", 4, TRUE, 3), Call("walk", 5, TRUE, NoLimit),
   Call("download", 0, FALSE, NoLimit)}

=============================================================================
