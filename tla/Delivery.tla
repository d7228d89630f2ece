-------------------------------- MODULE Delivery --------------------------------
(***************************************************************************)
(* What the client and server commands of the demo promise together,       *)
(* without sockets, framing or partial transfers: a client hands over its  *)
(* whole payload or nothing, each process reports one outcome, and the     *)
(* server reports success only with the unaltered payload of one client    *)
(* that handed it over.                                                    *)
(***************************************************************************)
EXTENDS Sequences

CONSTANTS Clients, NoClient, Payload

VARIABLES
  submitted,  \* the clients whose whole payload has been handed over
  report,     \* what each client reported: "none", "ok", "fail" or "killed"
  result,     \* what the server reported
  from,       \* the client whose payload the server returned
  received    \* that payload

dvars == <<submitted, report, result, from, received>>

Reports == {"none", "ok", "fail", "killed"}

DInit ==
  /\ submitted = {}
  /\ report = [c \in Clients |-> "none"]
  /\ result = "none"
  /\ from = NoClient
  /\ received = <<>>

Submit(c) ==
  /\ report[c] = "none" /\ c \notin submitted
  /\ submitted' = submitted \cup {c}
  /\ UNCHANGED <<report, result, from, received>>

\* A client never reports failure for a payload that it handed over.
Report(c, r) ==
  /\ report[c] = "none"
  /\ r = "ok" => c \in submitted
  /\ r = "fail" => c \notin submitted
  /\ report' = [report EXCEPT ![c] = r]
  /\ UNCHANGED <<submitted, result, from, received>>

Deliver(c) ==
  /\ result = "none" /\ c \in submitted
  /\ result' = "ok" /\ from' = c /\ received' = Payload[c]
  /\ UNCHANGED <<submitted, report>>

GiveUp(r) ==
  /\ result = "none"
  /\ result' = r
  /\ UNCHANGED <<submitted, report, from, received>>

DNext ==
  \/ \E c \in Clients : Submit(c) \/ Deliver(c)
  \/ \E c \in Clients, r \in Reports \ {"none"} : Report(c, r)
  \/ \E r \in {"fail", "killed"} : GiveUp(r)

DSpec == DInit /\ [][DNext]_dvars
=================================================================================
