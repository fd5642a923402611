---------------------------- MODULE TaskRealtime ----------------------------
(***************************************************************************)
(* TaskPolling with the clients of Gemini and Vertex channels: a client    *)
(* that asks for its task makes the gateway ask the upstream and write the *)
(* whole row back under the same status condition as a poller              *)
(* (tryRealtimeFetch in relay/relay_task.go), but it bills nothing.        *)
(***************************************************************************)
EXTENDS TaskPolling

\* videoFetchByIDRespBodyBuilder: the row is read, whatever its status.
Fetch(w, t) ==
    /\ w \in Clients
    /\ pc[w] = "idle"
    /\ row[t].status # "absent"
    /\ Take(w, t, "ask")
    /\ copy' = [copy EXCEPT ![w] = row[t]]
    /\ UNCHANGED <<row, money, upstream, faults, crashes, cut, bulk>>

\* tryRealtimeFetch: the parsed status is taken as it is, UNKNOWN included; there
\* is no failure count and no HTTP class.
ClientAnswer(w) ==
    /\ w \in Clients
    /\ pc[w] = "ask"
    /\ \E c \in {[copy[w] EXCEPT !.status = "IN_PROGRESS", !.full = FALSE],
                 [copy[w] EXCEPT !.status = "UNKNOWN"],
                 Ended(copy[w], "SUCCESS"), Ended(copy[w], "FAILURE")} :
          /\ c.status = "IN_PROGRESS" => upstream[at[w]] = "running"
          /\ c.status = "SUCCESS" => upstream[at[w]] = "done"
          /\ c.status = "FAILURE" => upstream[at[w]] = "failed"
          /\ c # copy[w]                  \* snap.Equal
          /\ copy' = [copy EXCEPT ![w] = c]
    /\ pc' = [pc EXCEPT ![w] = "write"]
    /\ UNCHANGED <<row, money, upstream, at, from, due, faults, crashes, cut, bulk>>

ClientGivesUp(w) ==
    /\ w \in Clients
    /\ pc[w] = "ask"
    /\ Drop(w)
    /\ UNCHANGED <<row, money, upstream, faults, crashes, cut, bulk>>

ClientStep(w) ==
    \/ \E t \in Tasks : Fetch(w, t)
    \/ ClientAnswer(w)
    \/ ClientGivesUp(w)

NextRealtime == Next \/ \E w \in Clients : ClientStep(w)

SpecRealtime == Init /\ [][NextRealtime]_vars /\ Fairness

=============================================================================
