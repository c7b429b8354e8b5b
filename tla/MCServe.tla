------------------------------ MODULE MCServe ------------------------------
(***************************************************************************)
(* Instances of Serve for TLC.                                             *)
(***************************************************************************)
EXTENDS Serve

CONSTANTS t1, t2, build, extra, n1, n2

\* One proxied tool, and the agent's own.
SkillOf ==
  [x \in {build, "list_tools", "estimate_clearing_price", "ask"} |->
     CASE x = "estimate_clearing_price" -> "svpchain-market-data"
       [] x = build -> "svpchain-trading"
       [] x = "list_tools" -> "svpchain-meta"
       [] x = "ask" -> "svpchain-assistant"]

Envelope(skill, tool, bearer, header) ==
  [form |-> "envelope", skill |-> skill, tool |-> tool, query |-> FALSE,
   bearer |-> bearer, header |-> header, context |-> n1]
Plain(form, header) ==
  [form |-> form, skill |-> None, tool |-> None, query |-> FALSE,
   bearer |-> None, header |-> header, context |-> n1]

\* Each way of asking, right or wrong.
EachWay ==
  { Envelope("svpchain-trading", build, n1, n2),
    Envelope("svpchain-market-data", build, n1, None),
    Envelope("svpchain-market-data", extra, None, None),
    Envelope("svpchain-meta", "list_tools", None, None),
    Envelope("svpchain-assistant", "ask", n1, None),
    [Envelope("svpchain-trading", build, n1, None) EXCEPT !.query = TRUE],
    Plain("text", n2), Plain("blank", None), Plain("nil", None) }

\* What tasks share is the cache of list_tools: one task may ask for anything,
\* the other lists.
AllRequests ==
  [t \in {t1, t2} |-> IF t = t1 THEN EachWay
                     ELSE {Envelope("svpchain-meta", "list_tools", None, None)}]

=============================================================================
