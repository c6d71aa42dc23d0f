----------------------------- MODULE CtapFrames -----------------------------
(***************************************************************************)
(* What the host and the authenticator share: the 64-byte CTAPHID reports  *)
(* and the two places they wait in.                                        *)
(*                                                                         *)
(* A report is abstracted to its channel, its command, the request it      *)
(* belongs to and one number.  `from` is never looked at by the host       *)
(* except in INIT reports, where it stands for the 8-byte nonce.           *)
(***************************************************************************)
EXTENDS Naturals, Sequences

CONSTANTS
  Handles,    \* open attempts run by independent threads or processes
  Commands,   \* commands a call sends: transact, wink and vendor_command
  MaxCont,    \* most continuation reports of one message
  RxCap       \* input reports the operating system keeps for one handle

ASSUME FrameAssumption ==
  /\ Commands # {}
  /\ Commands \cap {"INIT", "CANCEL", "KEEPALIVE", "ERROR", "CONT"} = {}
  /\ MaxCont \in Nat
  /\ RxCap \in Nat \ {0}

VARIABLES
  fds,   \* handles whose hidraw file is open
  out,   \* the report the device has not taken yet, a sequence of length 0 or 1
  rx     \* rx[h]: reports queued for h and not read yet

wire == <<fds, out, rx>>

-----------------------------------------------------------------------------
Broadcast == 0

\* Request k of handle h, or the nonce of its k-th INIT.
Origin == Handles \X Nat

\* First byte of a CBOR reply; "missing" is a reply with an empty body.
Status == {"none", "success", "failure", "missing"}

AllCommands == Commands \cup {"INIT", "CANCEL", "KEEPALIVE", "ERROR", "CONT"}

\* `arg` is the number of continuation reports announced by BCNT, the sequence
\* number of a CONT report, or the channel granted by an INIT reply.
Frame == [cid : Nat, cmd : AllCommands, from : Origin, arg : Nat, st : Status]

Report(c, command, origin, n, s) ==
  [cid |-> c, cmd |-> command, from |-> origin, arg |-> n, st |-> s]

-----------------------------------------------------------------------------
\* write_hid_frame: the call blocks until the device has taken the last report.
Put(f) ==
  /\ out = << >>
  /\ out' = <<f>>

\* The device side of an input report: every open handle gets a copy, and a
\* handle whose queue is full misses it.
Deliver(f) ==
  rx' = [h \in Handles |->
           IF h \in fds /\ Len(rx[h]) < RxCap THEN Append(rx[h], f) ELSE rx[h]]
=============================================================================
