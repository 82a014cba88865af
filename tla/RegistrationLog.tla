-------------------------- MODULE RegistrationLog --------------------------
(***************************************************************************)
(* What the event log of the registration orchestrator promises its        *)
(* readers (platform/contracts/registration-evidence.yaml, event_phases):  *)
(* one run at a time, settling attempts numbered from 1 that end with the  *)
(* first pass or with one timeout record, and steady-state observations    *)
(* that go on counting.  Starting again empties the log.                   *)
(***************************************************************************)
EXTENDS Naturals, Sequences

VARIABLE log

First(f) == f.phase = "settle" /\ f.attempt = 1

(***************************************************************************)
(* Record f may stand directly after record e.                             *)
(***************************************************************************)
Follows(e, f) ==
  /\ f.runId = e.runId
  /\ \/ /\ e.phase = "settle" /\ e.status = "fail"
        /\ \/ f.phase = "settle"  /\ f.attempt = e.attempt + 1
           \/ f.phase = "timeout" /\ f.attempt = e.attempt
     \/ /\ e.phase # "settle" \/ e.status = "pass"
        /\ f.phase = "steady-state" /\ f.attempt = e.attempt + 1

Init == log = <<>>

Restart == log' = <<>>

Record ==
  /\ Len(log') = Len(log) + 1
  /\ \A i \in 1 .. Len(log) : log'[i] = log[i]
  /\ IF log = <<>> THEN First(log'[1])
                   ELSE Follows(log[Len(log)], log'[Len(log')])

Next == Restart \/ Record

Spec == Init /\ [][Next]_log
=============================================================================
