--------------------------- MODULE GatewayContract ---------------------------
(***************************************************************************)
(* What the LLM gateway promises of a request, whatever fails: a provider  *)
(* is called only for a prompt that has been cleared, once for each        *)
(* attempt, and for none once the client has its answer; content is shown  *)
(* only for a cleared prompt that a provider was called for and whose      *)
(* output was vetted.                                                      *)
(***************************************************************************)
CONSTANTS
    Requests,
    Turns     \* the attempts of a request: the provider asked for, its fallbacks

VARIABLES
    stage,
    called    \* <<request, attempt>>: the calls made

vars == <<stage, called>>

Init ==
    /\ stage = [q \in Requests |-> "open"]
    /\ called = {}

Move(q, from, to) ==
    /\ stage[q] \in from
    /\ stage' = [stage EXCEPT ![q] = to]
    /\ UNCHANGED called

\* The prompt is assessed, allowed and on record.
Clear(q) == Move(q, {"open"}, "cleared")

\* A provider sees the prompt.
Call(q, i) ==
    /\ stage[q] = "cleared"
    /\ <<q, i>> \notin called
    /\ called' = called \union {<<q, i>>}
    /\ UNCHANGED stage

\* The output is assessed, allowed and on record; the client sees it.
Show(q) ==
    /\ \E i \in Turns : <<q, i>> \in called
    /\ Move(q, {"cleared"}, "shown")

\* The client is refused, or told of an error.
Close(q) == Move(q, {"open", "cleared"}, "closed")

Next ==
    \E q \in Requests :
        \/ Clear(q) \/ Show(q) \/ Close(q)
        \/ \E i \in Turns : Call(q, i)

Spec == Init /\ [][Next]_vars
=============================================================================
