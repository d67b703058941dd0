----------------------------- MODULE MCLlmJobs ------------------------------
(* Providers, documents, requests and jobs for the run of LlmJobs. *)
EXTENDS LlmJobs

CONSTANTS c1, c2, l1, l2, j1        \* requests, processes and a job

\* A local server; a hosted vendor; a server of the local kind at an address
\* elsewhere; a vendor that ignores the local URL it was given; and one somebody
\* has declared local by hand.
AllProviders == {"ollama", "cloud", "lab", "gemini", "declared"}
Elsewhere == {"cloud", "lab", "gemini", "declared"}
WithUrl == {"ollama", "lab", "gemini"}
WithLocalUrl == {"ollama", "gemini"}
Ignoring == {"gemini"}
SaidLocal == {"ollama", "lab", "declared"}
Handwritten == {"declared"}

Shipped == [enabled |-> FALSE, providers |-> {"ollama"}, role |-> "ollama",
            egress |-> "deny", redaction |-> "strict"]
Earlier == [Shipped EXCEPT !.enabled = TRUE, !.role = Unrouted]

NotStrict == [egress : {"allow", "deny"}, redaction : {"none"}]

TwoConsoles == {c1, c2}
TwoLoaders == {l1, l2}
OneJob == {j1}

Requested == {c \in Consoles : console[c].phase # "idle"}
Loading == {l \in Loaders : backfill[l].phase # "idle"}
Begun == {j \in Jobs : job[j].phase # "idle"}

\* Bound: three of the two requests and the two processes at once, or the job and
\* one of them.
AnyThree ==
    /\ Cardinality(Requested) + Cardinality(Loading) <= 3
    /\ Begun # {} => Cardinality(Requested) + Cardinality(Loading) <= 1
=============================================================================
