---------------------------- MODULE DownloadStore ---------------------------
(***************************************************************************)
(* What the download wrapper promises of one file of BR2_DL_DIR: a request *)
(* is served at an instant at which the file satisfies its hash file, and  *)
(* the file changes only by losing its name or by becoming, in one step, a *)
(* whole content that the request which puts it there has validated.       *)
(***************************************************************************)
EXTENDS HashFile

CONSTANTS Proc, Base, HashFiles, Stale

VARIABLES file,      \* the content of the file, or "absent"
          request,   \* the hash file and the exemption of each request
          reply      \* "idle", "busy", "served" or how the request ended

vars == <<file, request, reply>>

Request == [hash : HashFiles, exempt : BOOLEAN]

Verdict(r, data) ==
  CheckHash(r.hash, Base, data, IF r.exempt THEN {Base} ELSE {})

Init ==
  /\ file \in Stale \cup {"absent"}
  /\ request = [p \in Proc |-> [hash |-> NoOption, exempt |-> FALSE]]
  /\ reply = [p \in Proc |-> "idle"]

Ask(p, r) ==
  /\ reply[p] \notin {"busy", "served"}
  /\ request' = [request EXCEPT ![p] = r]
  /\ reply' = [reply EXCEPT ![p] = "busy"]
  /\ UNCHANGED file

\* The file is good enough as it is.
Accept(p) ==
  /\ reply[p] = "busy"
  /\ Verdict(request[p], file) = 0
  /\ reply' = [reply EXCEPT ![p] = "served"]
  /\ UNCHANGED <<file, request>>

\* A request may have the file removed, to replace it.
Evict(p) ==
  /\ reply[p] = "busy"
  /\ file' = "absent"
  /\ UNCHANGED <<request, reply>>

Publish(p, data) ==
  /\ reply[p] = "busy"
  /\ Verdict(request[p], data) = 0
  /\ file' = data
  /\ reply' = [reply EXCEPT ![p] = "served"]
  /\ UNCHANGED request

\* The success is reported, of a file that another request may have evicted.
Answer(p) ==
  /\ reply[p] = "served"
  /\ reply' = [reply EXCEPT ![p] = "ok"]
  /\ UNCHANGED <<file, request>>

\* A request that fails was not served; one that is killed may have been.
GiveUp(p) ==
  /\ \/ /\ reply[p] = "busy"
        /\ reply' = [reply EXCEPT ![p] = "failed"]
     \/ /\ reply[p] \in {"busy", "served"}
        /\ reply' = [reply EXCEPT ![p] = "killed"]
  /\ UNCHANGED <<file, request>>

Next ==
  \E p \in Proc :
    \/ \E r \in Request : Ask(p, r)
    \/ Accept(p)
    \/ Evict(p)
    \/ \E data \in Content : Publish(p, data)
    \/ Answer(p)
    \/ GiveUp(p)

Spec == Init /\ [][Next]_vars
=============================================================================
