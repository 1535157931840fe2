------------------------------ MODULE I3cCall ------------------------------
(***************************************************************************)
(* What a blocking I3C call promises its caller, without interrupts,       *)
(* queues or pointers: calls come one at a time, every command of a call   *)
(* is put on the bus at most once, and a call that returns Ok had each of  *)
(* its commands answered with success (a CCC may instead have met a NACK   *)
(* of the broadcast address). An error promises nothing: a call may have   *)
(* timed out before, while or after its commands were executed.            *)
(*                                                                         *)
(* The promise ends with trust: once the controller has missed the halt    *)
(* the time-out path asked for, or was given a command of a transfer that  *)
(* had already been answered, an answer may belong to an earlier call.     *)
(***************************************************************************)
EXTENDS Naturals

CONSTANT MaxCmds

VARIABLES
  open,      \* is a call in progress?
  kind, n,   \* its kind and its number of commands
  got,       \* the bus's answer to each of its commands
  res,       \* what the last call returned
  tainted    \* may answers be mixed up from here on?

callVars == <<open, kind, n, got, res, tainted>>

Cmd == 0 .. MaxCmds - 1

Success ==
  \/ \A c \in 0 .. n - 1 : got[c] = "ok"
  \/ kind = "ccc" /\ got[0] = "iba_nack"

CallInit ==
  /\ open = FALSE
  /\ kind \in {"ccc", "entdaa", "priv"} /\ n \in 1 .. MaxCmds
  /\ got = [c \in Cmd |-> "none"]
  /\ res = "none"
  /\ tainted = FALSE

Request ==
  /\ ~open
  /\ got' = [c \in Cmd |-> "none"]
  /\ kind' \in {"ccc", "entdaa", "priv"} /\ n' \in 1 .. MaxCmds
  /\ \/ open' = TRUE /\ res' = "none"
     \/ open' = FALSE /\ res' = "error"
  /\ UNCHANGED tainted

BusAnswer ==
  /\ \E c \in Cmd, e \in {"ok", "iba_nack", "abort", "err"} :
       /\ got[c] = "none" /\ c < n
       /\ got' = [got EXCEPT ![c] = e]
  /\ UNCHANGED <<open, kind, n, res, tainted>>

Reply ==
  /\ open /\ open' = FALSE
  /\ \/ res' = "error"
     \/ res' = "ok" /\ (Success \/ tainted)
  /\ UNCHANGED <<kind, n, got, tainted>>

Distrust ==
  /\ tainted' = TRUE
  /\ UNCHANGED <<open, kind, n, got, res>>

CallNext == Request \/ BusAnswer \/ Reply \/ Distrust

CallSpec == CallInit /\ [][CallNext]_callVars

=============================================================================
