---------------------------- MODULE MCRouterParts ----------------------------
(* Model checking of the parts of the router around the dispatcher. They share  *)
(* no state with each other: each behaviour runs one of them, the others stay   *)
(* as they start, and one search visits the states of all of them.              *)
EXTENDS ApiAnswers, TokenStream, McpServer, Admission, RequestConversion, RouterStart

VARIABLE focus  \* the part that runs

routervars == <<focus, ansvars, tsvars, mcpvars, admvars, convvars, startvars>>

\* One of the states a part may start in, for the behaviours that leave it alone.
Resting ==
  /\ IF focus = "answers" THEN TRUE ELSE kind = "mcp"
  /\ IF focus = "mcp" THEN TRUE ELSE toolsUp = TRUE
  /\ IF focus = "admission" THEN TRUE ELSE toolsKey = TRUE
  /\ IF focus = "conversion" THEN TRUE ELSE api = "legacy" /\ flaw = "json"
  /\ IF focus = "start" THEN TRUE ELSE environ = NoHashes

Init ==
  /\ focus \in {"answers", "stream", "mcp", "admission", "conversion", "start"}
  /\ Resting
  /\ StartInit /\ McpInit /\ StreamInit /\ AdmissionInit /\ AnswersInit /\ ConversionInit

Next ==
  \/ /\ focus = "answers" /\ AnswersNext
     /\ UNCHANGED <<focus, tsvars, mcpvars, admvars, convvars, startvars>>
  \/ /\ focus = "stream" /\ StreamNext
     /\ UNCHANGED <<focus, ansvars, mcpvars, admvars, convvars, startvars>>
  \/ /\ focus = "mcp" /\ McpNext
     /\ UNCHANGED <<focus, ansvars, tsvars, admvars, convvars, startvars>>
  \/ /\ focus = "admission" /\ AdmissionNext
     /\ UNCHANGED <<focus, ansvars, tsvars, mcpvars, convvars, startvars>>
  \/ /\ focus = "conversion" /\ ConversionNext
     /\ UNCHANGED <<focus, ansvars, tsvars, mcpvars, admvars, startvars>>
  \/ /\ focus = "start" /\ StartNext
     /\ UNCHANGED <<focus, ansvars, tsvars, mcpvars, admvars, convvars>>

Spec == Init /\ [][Next]_routervars

\* Every variable of every part, the resting ones included, has its type: the
\* code's enumerations, counters within their limits, records of known shape.
RouterPartsTypeOK ==
  AnsTypeOK /\ TsTypeOK /\ McpTypeOK /\ AdmTypeOK /\ ConvTypeOK /\ StartTypeOK
=============================================================================
