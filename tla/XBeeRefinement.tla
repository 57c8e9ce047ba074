--------------------------- MODULE XBeeRefinement ---------------------------
(***************************************************************************)
(* XBeeHandler implements ExchangeService.                                 *)
(***************************************************************************)
EXTENDS XBeeHandler

\* What the caller of send() could observe of e.
Outcome(e) ==
  CASE pc[e] = "idle" -> "idle"
    [] delivered[e] # <<>> -> "answered"
    [] delivered[e] = <<>> /\ pc[e] \in {"unlock"} \cup Finished -> "failed"
    [] OTHER -> "open"

\* The frames that callbacks have been given.
Consumed ==
  UNION {{delivered[e][i] : i \in DOMAIN delivered[e]} : e \in Exchange}

\* The frames there can be: no thread writes more often than its budget.
PossibleFrame ==
  [kind : {"reply"}, req : Exchange, attempt : 1..AttemptBudget, status : Status]
    \cup [kind : {"modem", "sample"}, number : 1..MaxUnsolicited,
          status : {"ok"}]

Service == INSTANCE ExchangeService
             WITH Frame <- PossibleFrame,
                  outcome <- [e \in Exchange |-> Outcome(e)],
                  consumed <- Consumed

\* Every behaviour of the threads, the line and the module is one of the
\* service's: at most one callback per request, never after giving up, never
\* with a frame used before.
ImplementsService == Service!Init /\ [][Service!Next]_(Service!vars)
=============================================================================
